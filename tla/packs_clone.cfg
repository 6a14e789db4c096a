\* Up to three pushes of one or two entries, five in all, over four objects; fetches of any of them.
CONSTANTS
  A = A
  B = B
  D = D
  Y = Y
  Oid = {A, B, D, Y}
  NoOid = NoOid
  ThinBases = {A, B, D, Y}
  MaxEntries = 2
  MaxStored = 5
  MaxPushes = 3
  MaxCompactions = 0
SYMMETRY Ids
SPECIFICATION Spec
CHECK_DEADLOCK FALSE
INVARIANTS
  WholeRewriteSucceeds

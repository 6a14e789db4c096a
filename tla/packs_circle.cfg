\* Two pushes of up to three entries, six in all, over four objects, and fetches of any of them.
CONSTANTS
  A = A
  B = B
  X = X
  Y = Y
  Oid = {A, B, X, Y}
  NoOid = NoOid
  ThinBases = {}
  MaxEntries = 3
  MaxStored = 6
  MaxPushes = 2
  MaxCompactions = 0
SYMMETRY Ids
SPECIFICATION Spec
CHECK_DEADLOCK FALSE
INVARIANTS
  RewriteSucceeds

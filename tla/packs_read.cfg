\* Three pushes of one object each: A whole, B as a delta of A, A again as a delta of B.
CONSTANTS
  ThinBases = {A, B}
  A = A
  B = B
  Oid = {A, B}
  NoOid = NoOid
  MaxEntries = 1
  MaxStored = 3
  MaxPushes = 3
  MaxCompactions = 0
SPECIFICATION Spec
CHECK_DEADLOCK FALSE
INVARIANTS
  ReadsNeverAwaitThemselves

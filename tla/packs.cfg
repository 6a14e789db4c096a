\* Up to three pushes of one or two entries, five in all, over three objects; one compaction.
CONSTANTS
  A = A
  B = B
  C = C
  Oid = {A, B, C}
  NoOid = NoOid
  ThinBases = {A, B, C}
  MaxEntries = 2
  MaxStored = 5
  MaxPushes = 3
  MaxCompactions = 1
SYMMETRY Ids
SPECIFICATION Spec
CHECK_DEADLOCK FALSE
INVARIANTS
  StoredIsDecodable
  FailsOnlyUndecodable
  BasesRecomputable
  FailsOnlyInCircles
  OutputStandsAlone
  ReadsFindObjects

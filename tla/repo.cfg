\* Pushes that create, update and delete, with invalid and duplicate commands; operator
\* edits; up to four pushes and a compaction; leases that expire, erasure.
CONSTANTS
  main = main
  bad = bad
  o1 = o1
  o2 = o2
  RefName = {main, bad}
  ValidRefName = {main}
  Oid = {o1, o2}
  Object = {o1, o2}
  ZeroOid = ZeroOid
  DefaultTarget = main
  Token = {1, 2, 3, 4, 5}
  NoToken = 0
  FAN_IN = 2
  CommandLists <- Commands
  StagedObjects = {{}, {o1, o2}}
  AdminRefs <- OperatorRefs
  AdminHeads <- OperatorHeads
  AdminOid = {o1}
  RECEIVE_LEASE_TTL = 1
  COMPACT_LEASE_TTL = 1
  COMPACTION_REARM_DELAY = 1
  COMPACTION_WAKE_DELAY = 1
  ACCESS_THROTTLE = 0
  IDLE = 1
  CLAMP = 0
  MaxNow = 2
SPECIFICATION Spec
CONSTRAINT TokensInOrder
CHECK_DEADLOCK FALSE
INVARIANTS
  TypeOK
  DisjointCover
  TierOrder
  ReceiveSnapshotStable
  SupersededIsRedundant
  RequestIsReal
  RefsResolve
PROPERTIES
  NeedStaysRecorded
  ObjectsAreKept
  ImplementsGitRepo

\* Pushes and compactions, lost replies, idle cleanup and operator removals under running
\* workers, and a reader.
CONSTANTS
  main = main
  o1 = o1
  RefName = {main}
  ValidRefName = {main}
  Oid = {o1}
  Object = {o1}
  ZeroOid = ZeroOid
  DefaultTarget = main
  Token = {1, 2, 3}
  NoToken = 0
  FAN_IN = 1
  CommandLists <- PushCommands
  StagedObjects = {{o1}}
  AdminRefs <- OperatorRefs
  AdminHeads = {}
  AdminOid = {}
  RECEIVE_LEASE_TTL = 1
  COMPACT_LEASE_TTL = 1
  COMPACTION_REARM_DELAY = 1
  COMPACTION_WAKE_DELAY = 1
  ACCESS_THROTTLE = 1
  IDLE = 1
  CLAMP = 0
  MaxNow = 2
  LostReplies = {"push", "compaction"}
  OperatorRemoves = TRUE
  Readers = TRUE
  DELETE_DELAY = 1
  MaxMessages = 1
SPECIFICATION SysSpec
CONSTRAINTS
  TokensInOrder
  ReadersEndInTime
CHECK_DEADLOCK FALSE
INVARIANTS
  SysTypeOK
  OnlyFaultsLosePacks
  ReaderFindsPacks
  DeletesSpareActivePacks

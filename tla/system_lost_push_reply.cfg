\* finalizeReceive commits and its reply is lost.
CONSTANTS
  main = main
  o1 = o1
  RefName = {main}
  ValidRefName = {main}
  Oid = {o1}
  Object = {o1}
  ZeroOid = ZeroOid
  DefaultTarget = main
  Token = {1, 2, 3, 4}
  NoToken = 0
  FAN_IN = 2
  CommandLists <- PushCommands
  StagedObjects = {{o1}}
  AdminRefs = {}
  AdminHeads = {}
  AdminOid = {}
  RECEIVE_LEASE_TTL = 1
  COMPACT_LEASE_TTL = 1
  COMPACTION_REARM_DELAY = 1
  COMPACTION_WAKE_DELAY = 1
  ACCESS_THROTTLE = 1
  IDLE = 4
  CLAMP = 0
  MaxNow = 1
  LostReplies = {"push"}
  OperatorRemoves = TRUE
  Readers = FALSE
  DELETE_DELAY = 1
  MaxMessages = 1
SPECIFICATION SysSpec
CONSTRAINT TokensInOrder
CHECK_DEADLOCK FALSE
INVARIANTS
  ActivePacksStored

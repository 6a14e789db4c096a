\* Delays in the order of the code's: 30 min, 20 min, 1 min, 5 s, 1 min, and 30 min idle.
CONSTANTS
  RECEIVE_LEASE_TTL = 6
  COMPACT_LEASE_TTL = 4
  COMPACTION_REARM_DELAY = 2
  COMPACTION_WAKE_DELAY = 1
  ACCESS_THROTTLE = 2
  IDLE = 6
  MaxExcess = 2
  MaxMessages = 2
SPECIFICATION FairSpec
INVARIANTS
  WakeTypeOK
  RequestIsWatched
PROPERTIES
  RequestIsServed
  OverflowIsResolved

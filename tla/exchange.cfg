CONSTANTS
  c = c
  r = r
  m = m
  g = g
  t = t
  u = u
  b = b
  sub = sub
  NoOid = NoOid
  c1 = c1
  main = main
  Oid <- MCOid
  Kind <- MCKind
  Links <- MCLinks
  Gitlink <- MCGitlink
  Legacy <- c
  Client = {c1}
  Ref = {main}
  HaveCap = 1
  EnrichBelow = 2
  EnrichBudget = 1
  MaxTagDepth = 1
  MissingRefCap = 1
  MaxPushes = 2
  MaxCompactions = 1
  MaxFaults = 1
SPECIFICATION FairSpec
CHECK_DEADLOCK FALSE
INVARIANTS
  TipsConnected
  WholePushesConnect
  FetchCompletes
  PlansFindTheirObjects
PROPERTIES
  FetchAnswered

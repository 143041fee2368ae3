SPECIFICATION MCSpec
CONSTANTS
  p1 = p1
  p2 = p2
  t1 = t1
  t2 = t2
  null = null
  master = master
  NULL <- null
  Master <- master
  Threads <- TwoThreads
  NumProcs = 2
  Timeout = 2
  Procs <- TwoProcs
  RankOf <- ContestRank
  IpOf <- SharedHost
  PortOf <- OwnPort
  IwdOf <- OwnIwd
INVARIANTS SettledEntryWhole MasterHostUnique
PROPERTIES ImplementsMembership SoleSlaveJoins
CHECK_DEADLOCK FALSE

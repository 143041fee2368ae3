SPECIFICATION Spec
CONSTANTS
  p1 = p1
  p2 = p2
  t1 = t1
  t2 = t2
  null = null
  master = master
  NULL <- null
  Master <- master
  Threads <- TwoThreads
  NumProcs = 3
  Timeout = 3
  Procs <- TwoProcs
  RankOf <- OwnRank
  IpOf <- SharedHost
  PortOf <- OwnPort
  IwdOf <- OwnIwd
INVARIANT WaitedForAll
CHECK_DEADLOCK FALSE

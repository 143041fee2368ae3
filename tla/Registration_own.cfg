SPECIFICATION Spec
CONSTANTS
  p1 = p1
  p2 = p2
  t1 = t1
  t2 = t2
  null = null
  master = master
  NULL <- null
  Master <- master
  Threads <- TwoThreads
  NumProcs = 3
  Timeout = 1
  Procs <- TwoProcs
  RankOf <- OwnRank
  IpOf <- SharedHost
  PortOf <- OwnPort
  IwdOf <- OwnIwd
SYMMETRY ThreadSymmetry
INVARIANTS TypeOK JoinedStaysListed CrashOnlyInRace FileHostsInSsh UniqueDistinct SharedFsCoversFile
CHECK_DEADLOCK FALSE

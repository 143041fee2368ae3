SPECIFICATION MCMasterSpec
CONSTANTS
  NumProcs = 3
  TermRetries = 2
  MaxSignals = 1
  Signalled = {}
  Linkers = {}
  Outcomes <- MCOutcomes
INVARIANTS
  ScratchRemoved
  TermsSent
  ScratchLeft
  ZeroMeansExited
PROPERTIES
  CleanupAdvances
  JobEnds
CHECK_DEADLOCK FALSE

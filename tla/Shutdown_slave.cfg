SPECIFICATION Spec
CONSTANTS
  NumProcs = 2
  TermRetries = 2
  MaxSignals = 1
  Signalled = {}
  Linkers = {}
  Outcomes <- MCOutcomes
INVARIANT
  SlaveExitsClean
CHECK_DEADLOCK FALSE

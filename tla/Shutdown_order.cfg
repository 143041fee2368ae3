SPECIFICATION Spec
CONSTANTS
  NumProcs = 2
  TermRetries = 1
  MaxSignals = 0
  Signalled = {1}
  Linkers = {k1, k2}
  Outcomes <- MCOneOutcome
INVARIANTS
  TypeOK
  SlaveExitsOnOrder
  SlaveLeft
CHECK_DEADLOCK FALSE
SYMMETRY MCSymmetry

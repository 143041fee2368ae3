SPECIFICATION Spec
CONSTANTS
  NumProcs = 2
  KaInterval = 4
  Timeout = 9
  DisableTimeout = FALSE
  MaxDelay = 1
INVARIANTS TypeOK AbortAfterTwoMisses DetectBound

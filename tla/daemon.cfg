CONSTANTS
  Tests <- MCTests
  SkipMissing = FALSE
SPECIFICATION Spec
INVARIANTS
  SameFateForAll
  NothingLeftBehind
PROPERTIES
  DaemonIsShared
  EveryTestSettles
  CloseReturns

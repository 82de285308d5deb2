CONSTANTS
  c1 = c1
  c2 = c2
  c3 = c3
  s1 = s1
  Calls <- ThreeCalls
  Steps <- OneStep
  Concurrency = 2
  Lanes = 3
  IdleTimeout = TRUE
  UnixSocket = TRUE
  Faults <- FaultKinds
SPECIFICATION Spec
INVARIANTS
  SlotAccounting
  ActiveAccounting
PROPERTIES
  LanesNeverRejected
  IdleSparesAccepted
  CallsEnd

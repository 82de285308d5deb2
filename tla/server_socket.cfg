CONSTANTS
  c1 = c1
  c2 = c2
  c3 = c3
  s1 = s1
  Calls <- OneCall
  Steps <- OneStep
  Concurrency = 1
  Lanes = 1
  IdleTimeout = TRUE
  UnixSocket = TRUE
  Faults = {}
SPECIFICATION Spec
PROPERTIES
  ComesDown

CONSTANTS
  Docs <- BlockThenData
  Modes <- SinglePass
  Subscribed <- BlocksOnly
  BatchSize = 2
  EventCap = 3
  Clients <- Echo
  Faults = {}
SPECIFICATION Spec
PROPERTIES
  StuckAborts
CHECK_DEADLOCK FALSE

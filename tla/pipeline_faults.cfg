CONSTANTS
  Docs <- ShortDocs
  Modes <- AllModes
  Subscribed <- AllParts
  BatchSize = 2
  EventCap = 4
  Clients <- Echo
  Faults <- AllFaults
SPECIFICATION Spec
PROPERTIES
  Termination
  RefinesDocumentCycle

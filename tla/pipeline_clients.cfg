CONSTANTS
  Docs <- DistinctDocs
  Modes <- WriteModes
  Subscribed <- AllParts
  BatchSize = 2
  EventCap = 6
  Clients <- ReorderOrWriter
  Faults <- ServerFaults
SPECIFICATION Spec
INVARIANTS
  AlignedOutput
  AnsweredIsServed
  FreeSlotIsIdle

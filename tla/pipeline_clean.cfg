CONSTANTS
  Docs <- CleanDocs
  Modes <- AllModes
  Subscribed <- AllParts
  BatchSize = 4
  EventCap = 2
  Clients <- Echo
  Faults = {}
SPECIFICATION Spec
INVARIANTS
  SuccessIsTranslated
  NoSharedIteration
  NoUnsentStarvation
PROPERTIES
  EventuallySucceeds

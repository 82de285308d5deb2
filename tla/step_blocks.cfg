CONSTANTS
  Inputs <- OneBlock
  Faults = {}
SPECIFICATION Spec
INVARIANTS
  BlocksAreFed

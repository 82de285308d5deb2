CONSTANTS
  Inputs <- AllInputs
  Faults <- StepFaults
SPECIFICATION Spec
INVARIANTS
  AnswersInOrder
  CountTellsSuccess
PROPERTIES
  LeavesCount
  OnlyCancelLeavesTwice

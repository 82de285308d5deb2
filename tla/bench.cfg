CONSTANTS
  Fixtures <- MCFixtures
  Letters <- MCLetters
  Group <- MCGroup
  Lookalikes <- MCLookalikes
  Iterations = 2
  Setups <- MCSetups
  Leftovers <- MCLeftovers
  MaxSamples = 1
SPECIFICATION Spec
INVARIANTS
  SuccessIsEarned
  NothingKeepsRunning
PROPERTIES
  EmptyEngineKeepsDataset

SPECIFICATION Spec
CONSTANTS
  NameOrder <- MCNameOrder
  Sources <- MCSources
  Rewritings <- MCRewritings
  MaxRewritings = 2
INVARIANTS
  FormsAgree
  WordsSurvive
  StyledTextKeepsStyle
  FormattingSurvives
  
CHECK_DEADLOCK FALSE

SPECIFICATION Spec
CONSTANTS
  NrCis = 2
  NrLines = 2
  Disabled <- NoneDisabled
  Programs = {TRUE}
  Asserts = TRUE
INVARIANTS
  OnlySpecified
CHECK_DEADLOCK FALSE

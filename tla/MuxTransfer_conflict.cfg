SPECIFICATION Spec
CONSTANTS
  NrCis = 3
  NrLines = 2
  Disabled <- NoneDisabled
  Programs = {FALSE}
  Asserts = TRUE
INVARIANTS
  NoMuxConflict
CHECK_DEADLOCK FALSE

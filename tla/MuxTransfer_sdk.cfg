SPECIFICATION Spec
CONSTANTS
  NrCis = 2
  NrLines = 4
  Disabled <- OneDisabled
  Programs = {FALSE, TRUE}
  Asserts = TRUE
INVARIANTS
  TypeOK
  NothingMissed
  NothingOverwritten
  RecordTrue
  RunningKeepsBank
CHECK_DEADLOCK FALSE

SPECIFICATION FairSpec
CONSTANTS
  NrRanks = 1
  NrCis = 2
  NrIgs = 2
  NrPart = 8
  Modes = {"dpu", "ig", "rank"}
  NumSGs = {7, 8}
  Empties = {{}, {5}}
  BootSettles = TRUE
INVARIANTS
  RanksCorrect
  IndexesInRange
  RanksComplete
PROPERTY Finishes
CHECK_DEADLOCK FALSE

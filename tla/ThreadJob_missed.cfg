SPECIFICATION FairSpec
CONSTANTS
  NrRanks = 1
  NrDpus = 1
  NrSlots = 2
  Workers = {w1}
  Apps = {a1}
  Programs <- MissedPrograms
  DpusStop = FALSE
PROPERTY PushServed
CHECK_DEADLOCK FALSE

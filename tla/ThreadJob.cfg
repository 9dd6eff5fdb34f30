SPECIFICATION FairSpec
CONSTANTS
  NrRanks = 2
  NrDpus = 1
  NrSlots = 3
  Workers = {w1, w2}
  Apps = {a1}
  Programs <- JobPrograms
  DpusStop = TRUE
INVARIANTS SerialJobsWait AssertionsHold RankInOneHand SlotsConserved
PROPERTY CallsReturn
CHECK_DEADLOCK FALSE

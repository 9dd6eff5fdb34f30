SPECIFICATION FairSpec
CONSTANTS
  NrRanks = 2
  NrCis = 1
  NrIgs = 2
  NrPart = 8
  BootSettles = TRUE
INVARIANTS
  TypeOK
  FinishedRankSound
  MuxExclusive
  CompleteAtJoin
PROPERTIES
  Terminates

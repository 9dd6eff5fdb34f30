SPECIFICATION FairSpec
CONSTANTS
  NrRanks = 2
  NrCis = 1
  NrIgs = 2
  NrPart = 7
INVARIANTS
  TypeOK
  IInv
  MuxExclusive
  OutputCorrect
  IndexesPadded
  CompleteAtJoin
PROPERTIES
  NoResultOverwritten
  ImplementsPool
  Terminates

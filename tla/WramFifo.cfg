SPECIFICATION FairSpec
CONSTANTS
  NrSlots = 2
  NrIndexes = 256
  NrTasklets = 2
  NrItems = 3
  MaxRetries = 1
  Modes = {"all", "each"}
  Drains = TRUE
INVARIANTS
  TypeOK
  WithinSlots
  ExactlyOnce
  InOrder
PROPERTIES
  AllServed
CHECK_DEADLOCK FALSE

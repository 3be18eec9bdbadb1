SPECIFICATION FairSpec
CONSTANTS
  Slots = {2, 3}
  CELLLIST_MAX_LEN = 2
  SF0THRESHOLD = 1
  Demands = {0, 1}
  Commands = {"CLEAR", "RELOCATE"}
  OthersSlots = {3}
  Room = 2
  TXRETRIES = 1
  QueueLength = 2
  MaxRequests = 2
  Generations = {7, 8}
  Lossy = TRUE
CHECK_DEADLOCK FALSE
INVARIANTS
  Agree
  GenerationsTell
PROPERTIES
  TransactionsEnd

SPECIFICATION Spec
CONSTANTS
  QUEUELENGTH = 3
  HIGH_PRIORITY_QUEUE_ENTRY = 2
  Neighbors <- OneNeighbor
  IsDAGroot = FALSE
  CryptoFails = TRUE
  RelayModes <- SourceOnly
  CoapReplies = FALSE
  AppCreators <- NoApps
  TXRETRIES = 1
  UINT8_MAX = 3
  MaxStray = 1
INVARIANTS
  TypeOK
  SlotPackets
  TimeoutArmed
  MacCustody
  NotifiedOnce
  NoLeak
  FlagsTrue
PROPERTIES
  LivesAsPromised

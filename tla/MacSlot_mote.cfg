SPECIFICATION FairSpec
CONSTANTS
  QUEUELENGTH = 3
  HIGH_PRIORITY_QUEUE_ENTRY = 2
  Neighbors <- OneNeighbor
  IsDAGroot = FALSE
  CryptoFails = FALSE
  RelayModes <- NoRelay
  CoapReplies = FALSE
  AppCreators <- NoApps
  TXRETRIES = 1
  UINT8_MAX = 2
  MaxStray = 1
PROPERTIES
  MacReturnsBuffers
  PoolRecovers

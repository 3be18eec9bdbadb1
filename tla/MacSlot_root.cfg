SPECIFICATION FairSpec
CONSTANTS
  QUEUELENGTH = 3
  HIGH_PRIORITY_QUEUE_ENTRY = 2
  Neighbors <- OneNeighbor
  IsDAGroot = TRUE
  CryptoFails = TRUE
  RelayModes <- NoRelay
  CoapReplies = TRUE
  AppCreators <- Bridge
  TXRETRIES = 1
  UINT8_MAX = 3
  MaxStray = 0
INVARIANTS
  SpaceLeft
PROPERTIES
  PoolRecovers

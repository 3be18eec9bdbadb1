SPECIFICATION FairSpec
CONSTANTS
  Addresses = {"r", "a", "b"}
  Root = "r"
  NoAddress = "none"
  Hears <- AllInReach
  Unicasts <- SomeLinks
  FirstHeard <- RootFirst
  MAXNUMNEIGHBORS = 2
  MINHOPRANKINCREASE = 1
  DEFAULTLINKCOST = 3
  DEFAULTDAGRANK = 10
  SWITCHSTABILITYTHRESHOLD = 1
  NUMTXMAX = 1
  MaxAttempts = 1
CHECK_DEADLOCK FALSE
INVARIANTS
  LoopsAreStale
PROPERTIES
  Converges

SPECIFICATION Spec
CONSTANTS
  Addresses = {a, b, c, d}
  NoAddress = NoAddress
  MAXNUMNEIGHBORS = 4
  MINHOPRANKINCREASE = 1
  DEFAULTLINKCOST = 2
  DEFAULTDAGRANK = 7
  SWITCHSTABILITYTHRESHOLD = 1
  NUMTXMAX = 1
  MaxAttempts = 1
  OfferedRanks = {1, 3}
  OfferedRssi = {"good"}
  NewRoles = {TRUE, FALSE}
  MaxOld = 1
SYMMETRY Symmetry
INVARIANTS
  RankAboveParent
PROPERTIES
  ChangesForGain
  TakesTheBest
  KeepsParent

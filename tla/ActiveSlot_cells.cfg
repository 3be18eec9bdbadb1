SPECIFICATION FairSpec
CONSTANTS
  SLOTFRAME_LENGTH = 5
  MAXACTIVESLOTS = 4
  Neighbors = {"a"}
  MINBE = 2
  MAXBE = 2
  Options = {"TX"}
  EBSlots = {0, 1, 2, 3, 4}
  MayChangeRole = TRUE
CHECK_DEADLOCK FALSE
INVARIANTS
  ListIsSound
  FindsItsCells
  HangsOnlyAstray
  CountsSlots
PROPERTIES
  BacksOffForShared
  GetsItsTurn

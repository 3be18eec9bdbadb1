SPECIFICATION FairSpec
CONSTANTS
  TASK_LIST_DEPTH = 3
  Prios = {1, 3}
  MaxJobs = 5
INVARIANTS
  ListSound
  AtMostOnce
  NoJobLost
  NoContainerLost
PROPERTIES
  PopsMostUrgent
  EveryJobRuns

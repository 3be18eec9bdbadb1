SPECIFICATION Spec
CONSTANTS
  TASK_LIST_DEPTH = 3
  Prios = {1, 3}
  MaxJobs = 4
INVARIANTS
  JobsKept

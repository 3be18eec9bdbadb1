SPECIFICATION Spec
CONSTANTS
  NumTimers = 2
  CLOCK = 24
  TIMERTHRESHOLD = 2
  TIMERLOOP_THRESHOLD = 6
  MINIMUM_COMPAREVALE_ADVANCE = 2
  MacDelays = {2, 6}
  RadioDelays = {6}
  RadioWindow = 4
  Delays = {5, 14}
  TaskTimers = {1}
  CallPreempted = TRUE
  ClearsPending = TRUE
  MaxLatency = 1
  MaxOverdue = 6
  WrapAround = TRUE

CONSTRAINT Uncrossed
INVARIANTS
  MacOnTime
  NotEarly

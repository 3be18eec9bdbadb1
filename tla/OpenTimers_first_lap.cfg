SPECIFICATION Spec
CONSTANTS
  NumTimers = 3
  CLOCK = 24
  TIMERTHRESHOLD = 2
  TIMERLOOP_THRESHOLD = 6
  MINIMUM_COMPAREVALE_ADVANCE = 2
  MacDelays = {7}
  RadioDelays = {2}
  RadioWindow = 24
  Delays = {4}
  TaskTimers = {2}
  CallPreempted = FALSE
  ClearsPending = TRUE
  MaxLatency = 1
  MaxOverdue = 6
  WrapAround = FALSE
CHECK_DEADLOCK FALSE
INVARIANTS
  NoneOverdue
  SlotReference

\* The documented return of a self-suspended task, which the code breaks.
SPECIFICATION Spec
CONSTANTS
  Tasks = {boot, t1, t2}
  Boot = boot
  NoTask = none
  Queues = {q1}
  Depth = 1
  MaxSends = 0
  LoneSuspend = FALSE
  DisturbWaiters = FALSE
PROPERTIES
  SuspendReturns
CHECK_DEADLOCK FALSE

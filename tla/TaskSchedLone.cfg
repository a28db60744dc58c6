\* As TaskSched.cfg, but a program may suspend itself when it runs alone.
SPECIFICATION Spec
CONSTANTS
  Tasks = {boot, t1, t2}
  Boot = boot
  NoTask = none
  Queues = {q1}
  Depth = 1
  MaxSends = 0
  LoneSuspend = TRUE
  DisturbWaiters = FALSE
PROPERTIES
  ExitedIsFinal
CHECK_DEADLOCK FALSE

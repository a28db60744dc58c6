\* Two tasks besides the bootstrap task, one queue of depth 1, two sends, fair.
SPECIFICATION FairSpec
CONSTANTS
  Tasks = {boot, t1, t2}
  Boot = boot
  NoTask = none
  Queues = {q1}
  Depth = 1
  MaxSends = 2
  LoneSuspend = FALSE
  DisturbWaiters = FALSE
INVARIANTS
  TypeOK
  Scheduled
  WaitsSound
PROPERTIES
  ExitedIsFinal
  NoOvertaking
  NoneStarves
CHECK_DEADLOCK FALSE

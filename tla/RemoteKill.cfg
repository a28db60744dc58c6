\* A task of B is killed from A while another one of B is runnable.
SPECIFICATION Spec
CONSTANTS
  A = A
  B = B
  a1 = a1
  a2 = a2
  b1 = b1
  b2 = b2
  ob = ob
  Cpus = {A, B}
  Tasks = {a1, b1, b2}
  Objects = {ob}
  Home <- MCHome
  Boot <- MCBoot
  NoTask = none
  Gone = gone
  NotReturned = pending
  TrapHandled = {}
  Resettable = {}
  Serving = {}
  Asks <- MCAsks
  TransMod = 2
  Reuse = FALSE
  MaxOps = 1
  MaxResets = 0
INVARIANT RunningIsStepped
CHECK_DEADLOCK FALSE

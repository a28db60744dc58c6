\* One processor, two tasks, an object elsewhere: ObjStoreBytes beside a task that runs.
SPECIFICATION FairSpec
CONSTANTS
  A = A
  B = B
  a1 = a1
  a2 = a2
  b1 = b1
  b2 = b2
  ob = ob
  Cpus = {A, B}
  Tasks = {a1, a2, b1}
  Objects = {ob}
  Home <- MCHome
  Boot <- MCBoot
  NoTask = none
  Gone = gone
  NotReturned = pending
  TrapHandled = {}
  Resettable = {}
  Serving = {}
  Asks <- MCAsks
  TransMod = 2
  Reuse = FALSE
  MaxOps = 1
  MaxResets = 0
PROPERTY StoreReturns
CHECK_DEADLOCK FALSE

\* A with two tasks, B with one task and an object; two operations, B may be reset.
SPECIFICATION FairSpec
CONSTANTS
  A = A
  B = B
  a1 = a1
  a2 = a2
  b1 = b1
  b2 = b2
  ob = ob
  Cpus = {A, B}
  Tasks = {a1, a2, b1}
  Objects = {ob}
  Home <- MCHome
  Boot <- MCBoot
  NoTask = none
  Gone = gone
  NotReturned = pending
  TrapHandled = {B}
  Resettable = {B}
  Serving = {A}
  Asks <- MCAsks
  TransMod = 2
  Reuse = FALSE
  MaxOps = 2
  MaxResets = 1
INVARIANTS
  TypeOK
  OneAnswer
PROPERTIES
  ImplementsCall
  OperationReturns
CHECK_DEADLOCK FALSE

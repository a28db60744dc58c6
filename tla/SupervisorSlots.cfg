\* As Supervisor.cfg, both supervisors up, and nobody ends the session.
SPECIFICATION Spec
CONSTANTS
  Requests = {r1, r2}
  NCpus = 2
  Terminals = {1}
  Roots = {1}
  Booted = {0, 1}
  NSlots = 1
  Depth = 1
  Enders = {}
  Readers = {}
  Asks <- MCAsks
  LocalPid = LocalPid
  AnyPid = AnyPid
  None = None
INVARIANTS
  NoDeadSlot
SYMMETRY Symmetric
CHECK_DEADLOCK FALSE

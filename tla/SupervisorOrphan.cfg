\* Mailboxes and tables large enough for everything sent and started.
SPECIFICATION Spec
CONSTANTS
  Requests = {r1, r2}
  NCpus = 2
  Terminals = {1}
  Roots = {1}
  Booted = {0, 1}
  NSlots = 2
  Depth = 2
  Enders = {1}
  Readers = {}
  Asks <- MCAsks
  LocalPid = LocalPid
  AnyPid = AnyPid
  None = None
INVARIANTS
  NoOrphan
SYMMETRY Symmetric
CHECK_DEADLOCK FALSE

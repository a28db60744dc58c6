\* A compute processor and two terminals that come up.
SPECIFICATION Spec
CONSTANTS
  Requests = {r1}
  NCpus = 3
  Terminals = {1, 2}
  Roots = {1, 2}
  Booted = {0}
  NSlots = 1
  Depth = 2
  Enders = {}
  Readers = {}
  Asks <- MCAnyAsks
  LocalPid = LocalPid
  AnyPid = AnyPid
  None = None
INVARIANTS
  TerminalForItsOwn
SYMMETRY Symmetric
CHECK_DEADLOCK FALSE

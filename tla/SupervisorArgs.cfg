\* Two tasks that read their arguments.
SPECIFICATION Spec
CONSTANTS
  Requests = {r1, r2}
  NCpus = 2
  Terminals = {1}
  Roots = {1}
  Booted = {0, 1}
  NSlots = 2
  Depth = 2
  Enders = {}
  Readers = {r1, r2}
  Asks <- MCAnyAsks
  LocalPid = LocalPid
  AnyPid = AnyPid
  None = None
INVARIANTS
  ArgsAreOwn
SYMMETRY Symmetric
CHECK_DEADLOCK FALSE

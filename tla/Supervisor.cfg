\* A terminal and a compute processor with a login shell, one slot, two requests.
SPECIFICATION FairSpec
CONSTANTS
  Requests = {r1, r2}
  NCpus = 2
  Terminals = {1}
  Roots = {0, 1}
  Booted = {1}
  NSlots = 1
  Depth = 1
  Enders = {1}
  Readers = {r1}
  Asks <- MCAsks
  LocalPid = LocalPid
  AnyPid = AnyPid
  None = None
INVARIANTS
  TypeOK
  OneOfEach
PROPERTIES
  CullExact
  SpawnAnswered
CHECK_DEADLOCK FALSE

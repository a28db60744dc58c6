SPECIFICATION FairSpec
CONSTANTS
  pa = pa
  pb = pb
  ca = ca
  f = f
  root = root
  hole = hole
  Names = {f, root}
  Root = root
  Blocks = {pa, pb, hole}
  Hole = hole
  MaxFiles = 2
  FirstHost <- MCHost
  NoEntry = noentry
  Dir = dir
  Programs = {pa, pb}
  Cpus = {ca}
  Home <- MCHome
  Requests <- MCRequests
  Asks <- MCAsks
  Jailed = {}
  MaxFds = 1
  Descs = {0, 1, 2}
  TransIds = {0, 1}
  Reuse = FALSE
  EarlyReset = FALSE
  Mortal = {pb}
  Leavers = {pb}
  LeaveShared = FALSE
  MaxCalls = 3
  MaxInits = 3
  None = none
INVARIANTS
  TypeOK
  OwnDescriptor
  AnswersFindRequest
PROPERTIES
  ImplementsFiles
  Answered
CHECK_DEADLOCK FALSE

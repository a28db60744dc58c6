\* Two loaders, both short of memory now and then; two requests and a preload.
SPECIFICATION FairSpec
CONSTANTS
  r1 = r1
  r2 = r2
  p1 = p1
  Loaders = {1, 2}
  Requests = {r1, r2}
  Preloads = {p1}
  TextSize <- MCText
  DataSize <- MCData
  Chunk = 2
  Codes = {0, 263}
  MayFail = {1}
  None = None
INVARIANTS
  TypeOK
  TransferExact
  ExitReported
PROPERTIES
  SpawnAnswered

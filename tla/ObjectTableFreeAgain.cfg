\* As ObjectTable.cfg, but an object may be freed again while its deferred free is pending.
SPECIFICATION Spec
CONSTANTS
  GenMod = 3
  AllocCaps <- MCAllocCaps
  Masks <- MCMasks
  Depth = 1
  FreeAgain = TRUE
  MaxObjects = 3
  MaxDeferred = 2
  MaxInbox = 1
  MaxBoots = 0
PROPERTIES
  SweepFreesItsOwn
CHECK_DEADLOCK FALSE

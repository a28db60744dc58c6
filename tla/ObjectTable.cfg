\* Three objects, two generations (so that they wrap), queues of depth one.
SPECIFICATION Spec
CONSTANTS
  GenMod = 3
  AllocCaps <- MCAllocCaps
  Masks <- MCMasks
  Depth = 1
  FreeAgain = FALSE
  MaxObjects = 3
  MaxDeferred = 1
  MaxInbox = 1
  MaxBoots = 1
INVARIANTS
  TypeOK
  SlotsSound
  LocalQueueHoldsOwn
PROPERTIES
  HandlerForItsObject
  SweepFreesItsOwn
CHECK_DEADLOCK FALSE

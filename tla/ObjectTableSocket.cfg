\* As ObjectTable.cfg, for the queues of a processor on a socket.
SPECIFICATION Spec
CONSTANTS
  GenMod = 3
  AllocCaps <- MCAllocCaps
  Masks <- MCMasks
  Depth = 1
  FreeAgain = FALSE
  MaxObjects = 3
  MaxDeferred = 1
  MaxInbox = 1
  MaxBoots = 0
INVARIANTS
  SocketQueueHoldsOwn
CHECK_DEADLOCK FALSE

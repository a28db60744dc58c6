\* Two programs with two calls each, and a device.
SPECIFICATION Spec
CONSTANTS
  c1 = c1
  c2 = c2
  d1 = d1
  sys = sys
  host = host
  mnt = mnt
  r1 = r1
  r2 = r2
  pre = pre
  Clients = {c1, c2}
  Calls <- MCCalls
  MaxCalls = 2
  Devices = {d1}
  Offer <- MCOffer
  Mounts <- MCMounts
  None = None
SYMMETRY Symm
INVARIANTS
  TypeOK
PROPERTIES
  ChangeNotified
  Atomic
CHECK_DEADLOCK FALSE

\* Three devices, the third asking for the number of the first.
SPECIFICATION FairSpec
CONSTANTS
  c1 = c1
  c2 = c2
  c3 = c3
  p1 = p1
  p2 = p2
  Clients = {c1, c2, c3}
  NoClient = none
  Pids = {p1, p2}
  pid <- MCPid
  BadPid = bad
  Foreign = {c3}
  Waiting = {c1, c2, c3}
  Room = 1
  MaxPackets = 2
INVARIANTS
  TypeOK
  Connected
  Framed
PROPERTIES
  ImplementsSwitch
  AllArrive
CHECK_DEADLOCK FALSE

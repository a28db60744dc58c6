\* As Crossbar.cfg, with processors for clients.
SPECIFICATION Spec
CONSTANTS
  c1 = c1
  c2 = c2
  c3 = c3
  p1 = p1
  p2 = p2
  Clients = {c1, c2, c3}
  NoClient = none
  Pids = {p1, p2}
  pid <- MCPid
  BadPid = bad
  Foreign = {c3}
  Waiting = {}
  Room = 1
  MaxPackets = 2
INVARIANTS
  Framed
CHECK_DEADLOCK FALSE

\* Two programs, two windows, a screen two windows wide; the first inputs as in MaxInputs.
SPECIFICATION Spec
CONSTANTS
  Programs = {p1, p2}
  Owners = {p1}
  Crashing = {p1}
  Pointing = {p2}
  MaxWindows = 2
  ScreenW = 4
  WindowW = 2
  Origin = 0
  Cascade = 1
  Gestures <- MCGestures
  Keys <- MCKeys
  MaxInputs <- MCMaxInputs
  SinkDepth = 1
  None = None
PROPERTY LeavesOthers
CHECK_DEADLOCK FALSE

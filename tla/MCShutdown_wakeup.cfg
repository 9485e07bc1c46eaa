SPECIFICATION Spec
CONSTANTS
  c1 = c1
  c2 = c2
  Conns = {c1}
  MaxFrames = 1
  CloseWakes = TRUE
PROPERTIES
  StopReturns
CHECK_DEADLOCK FALSE

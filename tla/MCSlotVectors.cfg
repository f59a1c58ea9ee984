SPECIFICATION VectorsSpec
CONSTANTS
  Node = {0, 1, 2}
  MaxRound = 0
  MaxSlot = 1
  ClientValue = {a}
  Noop = noop
  CallBallots <- MCCallBallots
INVARIANTS
  OpenRangeIsExact
PROPERTIES
  CallsHold
CHECK_DEADLOCK FALSE

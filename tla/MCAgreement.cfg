SPECIFICATION Spec
CONSTANTS
  Node = {0, 1, 2}
  MaxRound = 0
  MaxSlot = 0
  MaxQueue = 1
  ClientValue = {a, b}
  Noop = noop
  Clients = {0, 1}
  Timers = {}
  Heartbeats = {}
  MaxMsgs = 100
INVARIANTS
  Agreement
SYMMETRY ValueSymmetry
CHECK_DEADLOCK FALSE

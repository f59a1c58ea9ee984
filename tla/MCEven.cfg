SPECIFICATION Spec
CONSTANTS
  Node = {0, 1, 2, 3}
  MaxRound = 0
  MaxSlot = 0
  MaxQueue = 1
  ClientValue = {a}
  Noop = noop
  Clients = {0}
  Timers = {}
  Heartbeats = {}
  MaxMsgs = 100
INVARIANTS
  ResolvedByMajority
CHECK_DEADLOCK FALSE

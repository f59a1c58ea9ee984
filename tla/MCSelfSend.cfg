SPECIFICATION Spec
CONSTANTS
  Node = {0, 1, 2}
  MaxRound = 0
  MaxSlot = 1
  MaxQueue = 1
  ClientValue = {a}
  Noop = noop
  Clients = {0}
  Timers = {1}
  Heartbeats = {}
  MaxMsgs = 100
INVARIANTS
  SendsOnlyToPeers
CHECK_DEADLOCK FALSE

SPECIFICATION LossySpec
CONSTANTS
  Node = {0, 1, 2}
  MaxRound = 1
  MaxSlot = 3
  MaxQueue = 1
  ClientValue = {a}
  Noop = noop
  Clients = {0}
  Timers = {0, 1, 2}
  Heartbeats = {0, 1, 2}
  MaxMsgs = 10
  MaxLosses = 2
  MaxCrashes = 1
PROPERTY LeadershipReturns

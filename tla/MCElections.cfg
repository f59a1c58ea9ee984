SPECIFICATION ElectionSpec
CONSTANTS
  Node = {0, 1, 2}
  MaxRound = 3
  MaxSlot = 4
  MaxQueue = 2
  ClientValue = {a, b}
  Noop = noop
  Clients = {0}
  Timers = {0, 1, 2}
  Heartbeats = {0, 1, 2}
  MaxMsgs = 10
  MaxLosses = 0
  MaxCrashes = 1
PROPERTIES
  LeadershipReturns
  NoElectionAgainstLeader

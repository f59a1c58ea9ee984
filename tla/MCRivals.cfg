SPECIFICATION RivalSpec
CONSTANTS
  Node = {0, 1, 2}
  MaxRound = 1
  MaxSlot = 2
  MaxQueue = 2
  ClientValue = {0, 1}
  Noop = noop
  Clients = {0, 1}
  Timers = {0, 1, 2}
  Heartbeats = {0, 1, 2}
  MaxMsgs = 10
  MaxLosses = 0
  MaxCrashes = 0
PROPERTIES
  ProposalsAreLearnt
  OneLeaderRemains

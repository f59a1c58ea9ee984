SPECIFICATION Spec
CONSTANTS
  Node = {0, 1, 2, 3, 4}
  MaxRound = 1
  MaxSlot = 1
  MaxQueue = 1
  ClientValue = {a}
  Noop = noop
  Clients = {1}
  Timers = {0}
  Heartbeats = {0}
  MaxMsgs = 9
INVARIANTS
  ResolvedWasChosen
  LeaderWasPromised
  LeaderHoldsHighest
  FollowsAnother
CHECK_DEADLOCK FALSE

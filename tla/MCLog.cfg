SPECIFICATION MachineSpec
CONSTANTS
  Node = {0, 1, 2}
  MaxRound = 1
  MaxSlot = 1
  MaxQueue = 1
  ClientValue = {a}
  Noop = noop
  Clients = {0}
  Timers = {0, 1}
  Heartbeats = {}
  MaxMsgs = 10
INVARIANTS
  TypeOK
  AgreementWhenReported
  OneValuePerBallot
  ResolvedWasChosen
  OpenMinUndecided
  MaxPromisedCoversWindow
  ExecutesDecided
  ExecutesOnceInOrder
PROPERTIES
  PromiseKept
  ResolvedIsFinal
  OneLogWhenReported
CHECK_DEADLOCK FALSE

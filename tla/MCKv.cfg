SPECIFICATION KvSpec
CONSTANTS
  Replica = {n1, n2}
  Request = {r1, r2, r3}
  Gets = {r3}
  Nothing = none
  MaxExecuted = 3
INVARIANTS
  NoLostAnswer
PROPERTIES
  ListenersArePruned
  StoreIsAtomic
CHECK_DEADLOCK FALSE

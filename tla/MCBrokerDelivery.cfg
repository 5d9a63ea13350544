CONSTANTS
  Messages = {m1, m2}
  Poison = {m2}
  Consumers = {k1, k2}
  Slots = {1, 2, 3, 4, 5}
  MaxRetries = 1
  MaxFaults = 1
  None = None
SPECIFICATION FairSpec
INVARIANTS
  DeadMeansExhausted
  CopiesAreAccounted
PROPERTIES
  ImplementsDelivery
  AcceptedIsSettled
CHECK_DEADLOCK FALSE

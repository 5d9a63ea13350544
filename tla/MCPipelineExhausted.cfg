CONSTANTS
  Videos = {v1}
  Heights = {h1}
  Deliveries = {d1}
  Instances = {p1}
  MaxRetries = 0
  JobAttempts = 2
  MaxStalls = 0
  MaxFaults = 0
  None = None
SPECIFICATION Spec
INVARIANT
  EndedFlowIsPersisted
CHECK_DEADLOCK FALSE

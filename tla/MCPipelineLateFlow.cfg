CONSTANTS
  Videos = {v1}
  Heights = {h1}
  Deliveries = {d1, d2}
  Instances = {p1, p2}
  MaxRetries = 0
  JobAttempts = 1
  MaxStalls = 0
  MaxFaults = 0
  None = None
SPECIFICATION Spec
PROPERTY
  NoWorkAfterVerdict
CHECK_DEADLOCK FALSE

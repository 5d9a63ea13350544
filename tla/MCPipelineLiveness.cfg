CONSTANTS
  Videos = {v1}
  Heights = {h1}
  Deliveries = {d1}
  Instances = {p1}
  MaxRetries = 1
  JobAttempts = 2
  MaxStalls = 1
  MaxFaults = 1
  None = None
SPECIFICATION FairSpec
PROPERTY
  UploadReachesOutcome
CHECK_DEADLOCK FALSE

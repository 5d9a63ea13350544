CONSTANTS
  Videos = {v1}
  Heights = {h1}
  Deliveries = {d1, d2}
  Instances = {p1, p2}
  MaxRetries = 1
  JobAttempts = 1
  MaxStalls = 0
  MaxFaults = 2
  None = None
SPECIFICATION Spec
SYMMETRY PipelineSymmetry
INVARIANTS
  AckedUploadHasFlow
  ClaimIsNeverOrphaned
CHECK_DEADLOCK FALSE

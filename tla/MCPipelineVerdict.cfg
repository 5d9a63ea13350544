CONSTANTS
  Videos = {v1}
  Heights = {h1}
  Deliveries = {d1}
  Instances = {p1, p2}
  MaxRetries = 0
  JobAttempts = 2
  MaxStalls = 1
  MaxFaults = 1
  None = None
SPECIFICATION Spec
SYMMETRY PipelineSymmetry
INVARIANTS
  TypeOK
  AnnouncedIsPersisted
  RereadFindsVerdict
  VerdictMatchesWork
  CompletedJobIsAnnounced
PROPERTY
  ImplementsVideoRecord
CHECK_DEADLOCK FALSE

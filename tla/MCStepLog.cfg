CONSTANTS
  Runs = {1, 2}
  Heights = {720}
  MaxFaults = 1
  None = None
SPECIFICATION FairSpec
INVARIANTS
  LogIsTruthful
  OutcomeIsProcessors
  MissingIsExplained
PROPERTIES
  RunIsAudited
CHECK_DEADLOCK FALSE

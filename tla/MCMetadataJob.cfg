CONSTANTS
  Runs = {1, 2}
  Tracks = {a1}
  Thumbnails = {t1, t2}
  Video = v
  MaxFaults = 1
SPECIFICATION FairSpec
INVARIANTS
  ReadersHaveFile
  ResultIsUploaded
  LeftoversAreFaults
PROPERTIES
  RunEnds
CHECK_DEADLOCK FALSE

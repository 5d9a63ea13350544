CONSTANTS
  Originals = {a, b}
  Strays = {s}
  Events = {1, 2, 3}
  MaxPuts = 1
  MaxRetries = 1
  MaxFaults = 2
SPECIFICATION FairSpec
INVARIANTS
  DoneMeansAnnounced
  DuplicatesAreExplained
PROPERTIES
  ImplementsAnnouncement
  UploadIsAnnounced
CHECK_DEADLOCK FALSE

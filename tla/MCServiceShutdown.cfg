CONSTANTS
  Conns = {1, 2, 3}
  Callers = {probe, work}
  Publisher = work
  JobEvents = 2
  MaxFaults = 2
  None = None
SPECIFICATION FairSvcSpec
INVARIANTS
  TypeOK
  OneConnection
  NoStaleChannel
  JobsKeepTheirChannel
  CrashesOnlyInShutdown
PROPERTIES
  WaitersAreServed
  ShutdownEnds
CHECK_DEADLOCK FALSE

SPECIFICATION FairVSpec
CONSTANTS
  Segments = 4
  Concurrency = 3
  MaxRepairs = 1
  MaxTransport = 1
  MaxRounds = 1
  MaxRetries = 1
  Budget = 1
  Removals = 2
  None = None
INVARIANTS
  PublishedAsVerified
  EachPartOnce
  RepairsMakeProgress
  RunnerKeepsItsWord
PROPERTIES
  ImplementsAuthoring
  CallEnds
CHECK_DEADLOCK FALSE

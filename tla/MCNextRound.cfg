SPECIFICATION HalvesSpec
CONSTANTS
  n1 = n1
  n2 = n2
  o1 = o1
  o2 = o2
  f1 = f1
  f2 = f2
  p1 = p1
  p2 = p2
  Absent = Absent
  Profile <- Profiles
  Evidence <- Packs
  Path <- Paths
  Targets <- TargetSets
  First <- FirstRound
  MaxRounds = 3
  None = None
  Process <- Processes
  MaxBatches = 3
  Tries = 2
  MaxFailures = 2
  MaxCrashes = 1
INVARIANTS
  AlwaysRepeatable
  RepeatsDoNotHarden
  AnsweredIsReadable
PROPERTIES
  DanglingIsCured
CHECK_DEADLOCK FALSE

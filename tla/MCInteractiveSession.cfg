SPECIFICATION Spec
CONSTANTS
  p1 = p1
  p2 = p2
  None = None
  Orphan = Orphan
  Process = {p1, p2}
  Command <- Journey
  PathLength = 2
  FaultKinds = {"crash", "throw"}
  MaxFaults = 1
  OperatorUnlocks = TRUE
  MaxRounds = 3
  MaxProfiles = 2
  MaxAttempts = 2
SYMMETRY ProcessSymmetry
INVARIANTS
  OneAnswerPerCommand
  GradeIsKept
  AssessmentFits
  AnchorsAgree
\* A session ends when its path is completed or its commands are used up.
CHECK_DEADLOCK FALSE

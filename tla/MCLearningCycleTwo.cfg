\* Two submissions of one session, both sent as its first attempt.
SPECIFICATION Spec
CONSTANTS
  w1 = w1
  w2 = w2
  s1 = s1
  s2 = s2
  None = None
  Worker = {w1, w2}
  SubmissionId = {s1, s2}
  Objective = {o1}
  Decision = {"round"}
  Request <- FirstAttempts
  MaxAttempts = 3
  RetryLimit = 2
  FaultKinds = {"abandon", "crash", "lease"}
  MaxFaults = 1
  HeartbeatBound = 0
SYMMETRY WorkerSymmetry
INVARIANTS
  OneCompletionPerAttempt
  CompletionAccounted
\* One fault: at most one process crashes, the other can always go on.
CHECK_DEADLOCK TRUE

SPECIFICATION FairSpec
CONSTANTS
  w1 = w1
  w2 = w2
  s1 = s1
  s2 = s2
  None = None
  Worker = {w1, w2}
  SubmissionId = {s1}
  Objective = {o1, o2}
  Decision = {"round", "reprofile"}
  Request <- OneSubmission
  MaxAttempts = 3
  RetryLimit = 2
  FaultKinds = {"abandon", "crash", "lease", "other_update",
                "secure_retryable", "secure_permanent"}
  MaxFaults = 2
  HeartbeatBound = 3
INVARIANTS
  CountedIsRecorded
  AppliedIsCounted
  DeliveredIsFinal
PROPERTIES
  TerminalIsFrozen
  AcceptedIsSettled
\* Every process may crash: then nothing happens any more.
CHECK_DEADLOCK FALSE

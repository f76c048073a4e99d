\* Three processes, one of which stops at work.
SPECIFICATION Spec
CONSTANTS
  None = None
  Caller = {p1, p2, p3}
  Content = {"round_a"}
  Refusal = {"blocked"}
  Operation = {"evidence_refresh"}
  CrashPoints <- Section
  MaxCrashes = 1
  MaxFailures = 0
SYMMETRY CallerSymmetry
INVARIANTS
  Exclusive

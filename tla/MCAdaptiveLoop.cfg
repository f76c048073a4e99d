\* Two processes, two releases the pipeline may come to, one refusal.
SPECIFICATION FairSpec
CONSTANTS
  None = None
  Caller = {p1, p2}
  Content = {"round_a", "round_b"}
  Refusal = {"blocked"}
  Operation = {"evidence_refresh"}
  CrashPoints <- OutsideHandover
  MaxCrashes = 1
  MaxFailures = 2
INVARIANTS
  AnnouncedIsJournaled
PROPERTIES
  ImplementsOutcome
  RecoveryAskedOnce
  ExecutionEnds

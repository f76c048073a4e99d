SPECIFICATION FairSpec
CONSTANTS
  w1 = w1
  w2 = w2
  w3 = w3
  None = None
  Writer = {w1, w2, w3}
  FaultKinds = {"crash", "io"}
  MaxFaults = 2
  Timeouts = TRUE
INVARIANT
  MutualExclusion
PROPERTIES
  SavesAreAtomic
  SavesReturn
\* Every writer returns or stops.
CHECK_DEADLOCK FALSE

SPECIFICATION PipelineSpec
CONSTANTS
  c1 = c1
  c2 = c2
  d1 = d1
  d2 = d2
  Callers = {c1, c2}
  Deps = {d1, d2}
  DepsOf <- MCDepsOf
  MaxFlights = 2
  MaxFaults = 1
  MaxStops = 1
  MaxRemovals = 1
  Nothing = Nothing
INVARIANTS
  Coherent
  NothingLeftBehind
PROPERTIES
  ServedIsReadable
CHECK_DEADLOCK FALSE

SPECIFICATION Spec
CONSTANTS
  Caller = {c1, c2}
  Input = {i1, i2}
  MaxRetries = 1
  MaxAttempts = 2
  MaxMade = 3
  MaxPlans = 1
  MaxStops = 1
  None = None
SYMMETRY Symmetry
INVARIANTS
  AnswersAreBacked
  DecidedCanBeActivated

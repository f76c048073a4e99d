SPECIFICATION PlanSpec
CONSTANTS
  Concepts = {c1, c2, c3}
  Unlisted = unlisted
  MaxGiven = 3
  MaxSlots = 5
  MaxTier = 2
  MaxRequired = 3
  Nil = Nil
SYMMETRY Symmetry
INVARIANTS
  WalkIsRight
  GateAndPlanAgree

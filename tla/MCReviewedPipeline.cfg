SPECIFICATION Spec
CONSTANTS
  Kind = {concept, code_lab}
  First = concept
  Topic = {"loops", "files", "gap"}
  Level = {"basic", "advanced"}
  Suits <- MCSuits
  Dangling <- MCDangling
  Packs <- MCPacks
  Flaws = {"unsupported", "unsupported_citation", "external_knowledge"}
  MaxRounds = 2
  MaxRecoveries = 2
  None = None
INVARIANTS
  GateHolds
  ReadyIsReleasable
  AuthorHearsReviews
  NothingLeftBehind
CHECK_DEADLOCK FALSE

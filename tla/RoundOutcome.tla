----------------------------- MODULE RoundOutcome -----------------------------
(***************************************************************************)
(* What the continuation of a completed submission promises its callers,   *)
(* however often and by however many processes it is asked for: the next   *)
(* round is decided once, as one content or as one refusal, Role D hears   *)
(* of nothing else, and the outcome answered first stays the outcome.      *)
(***************************************************************************)
CONSTANTS Content,  \* reviewed releases the pipeline may come to
          Refusal,  \* ends without a release
          None

VARIABLES decision, \* the outcome settled on, or None
          closed    \* the outcome is what every later call answers

outcomeVars == <<decision, closed>>

OutcomeInit == decision = None /\ closed = FALSE

Decide ==
  /\ decision = None
  /\ decision' \in Content \cup Refusal
  /\ UNCHANGED closed

Close ==
  /\ decision # None /\ ~closed
  /\ closed' = TRUE
  /\ UNCHANGED decision

OutcomeSpec == OutcomeInit /\ [][Decide \/ Close]_outcomeVars
=============================================================================

------------------------- MODULE MCInteractiveSession -------------------------
(* InteractiveSession with one or two processes and a few commands.        *)
EXTENDS InteractiveSession, TLC

CONSTANTS p1, p2

C(id, type, answers) == [id |-> id, type |-> type, answers |-> answers]

(* One learner's way through up to three rounds: two diagnoses, two graded *)
(* submissions, a retry, and anchor answers sent twice, the second time    *)
(* changed or under a new command id.                                      *)
Journey == {C("d1", "diagnosis", "x"), C("d2", "diagnosis", "x"),
            C("s1", "assessment", "x"), C("s2", "assessment", "x"),
            C("a1", "anchor", "x"), C("a2", "anchor", "x"), C("a2", "anchor", "y"),
            C("r1", "retry", "x")}

ProcessSymmetry == Permutations(Process)
=============================================================================

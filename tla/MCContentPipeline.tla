-------------------------- MODULE MCContentPipeline --------------------------
(* One caller that always passes the same dependencies and one that may     *)
(* pass others; two executions, one swallowed failure, one stop, one pair  *)
(* deleted by whoever was given it.                                        *)
EXTENDS ContentPipeline

CONSTANTS c1, c2, d1, d2
MCDepsOf == [c \in Callers |-> IF c = c1 THEN {d1} ELSE {d1, d2}]
=============================================================================

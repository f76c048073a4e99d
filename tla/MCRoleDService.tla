---------------------------- MODULE MCRoleDService ----------------------------
(* Two callers of the service of role D.                                   *)
EXTENDS RoleDService, TLC

Symmetry == Permutations(Caller) \cup Permutations(Input)
=============================================================================

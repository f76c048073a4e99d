----------------------------- MODULE MCStagePlan -----------------------------
(* Every prerequisite graph over three knowledge points and a dangling      *)
(* reference; path nodes of up to three objectives and five questions.      *)
EXTENDS StagePlan
Symmetry == Permutations(Concepts)
=============================================================================

----------------------------- MODULE MCAdaptiveLoop -----------------------------
(* AdaptiveLoop with two processes, and its lock with three: there a crash *)
(* under the lock leads to two owners.                                     *)
EXTENDS AdaptiveLoop, TLC

(* Everywhere, except while the process has a directory without owner.json *)
(* or another's in quarantine: a crash there leads to two owners already   *)
(* with two processes.                                                     *)
OutsideHandover == PC \ {"own", "moved"}

CallerSymmetry == Permutations(Caller)
=============================================================================

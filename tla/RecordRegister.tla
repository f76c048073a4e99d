---------------------------- MODULE RecordRegister ----------------------------
(***************************************************************************)
(* What a store of versioned records promises of one record                *)
(* (LearningCycleStore, MasteryStateStore): a save happens at once, and    *)
(* only over the revision the writer loaded.  This is how LearningCycle    *)
(* uses the stores.                                                        *)
(***************************************************************************)
EXTENDS Naturals

CONSTANTS Writer,   \* calls of saveRecord, each with what it loaded
          None

VARIABLES revision, \* of the record
          base,     \* per writer: the revision it loaded
          result    \* per writer: what the call came to

registerVars == <<revision, base, result>>

Results == {None, "saved", "conflict", "failed"}

RegisterInit ==
  /\ revision = 0
  /\ base = [w \in Writer |-> None]
  /\ result = [w \in Writer |-> None]

LoadRecord(w) ==
  /\ base[w] = None
  /\ base' = [base EXCEPT ![w] = revision]
  /\ UNCHANGED <<revision, result>>

(* A committed save may still be reported as failed.                       *)
Commit(w) ==
  /\ result[w] = None /\ base[w] = revision
  /\ revision' = revision + 1
  /\ \E r \in {"saved", "failed"} : result' = [result EXCEPT ![w] = r]
  /\ UNCHANGED base

Refuse(w) ==
  /\ result[w] = None /\ base[w] \notin {None, revision}
  /\ result' = [result EXCEPT ![w] = "conflict"]
  /\ UNCHANGED <<revision, base>>

Fail(w) ==
  /\ result[w] = None
  /\ result' = [result EXCEPT ![w] = "failed"]
  /\ UNCHANGED <<revision, base>>

RegisterNext ==
  \E w \in Writer : LoadRecord(w) \/ Commit(w) \/ Refuse(w) \/ Fail(w)

RegisterSpec == RegisterInit /\ [][RegisterNext]_registerVars
=============================================================================

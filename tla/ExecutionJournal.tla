--------------------------- MODULE ExecutionJournal ---------------------------
(***************************************************************************)
(* executeReviewedPipelineInput: one reviewed input is taken through the   *)
(* pipeline once, and its result, with the references of the secure pair   *)
(* it stored, is kept in a journal for later calls.  The journal is an     *)
(* injected durable one (create or return, compare and delete); the        *)
(* in-memory journal of the code implements the same contract.             *)
(*                                                                         *)
(* A process has one call for the execution key at a time: later callers   *)
(* join its flight (KeyedSingleFlight).  A result is named by the secure   *)
(* batch it stored, for every batch has fresh random references.           *)
(***************************************************************************)
EXTENDS Naturals, FiniteSets

CONSTANTS
  Process,
  MaxBatches,   \* bound: secure batches that may be stored
  None,
  Tries,        \* rounds of the load and of the commit loop: 4 in the code
  MaxFailures,  \* bound: failed calls of the secure store and the journal
  MaxCrashes    \* bound: crashes

ASSUME BoundAssumption ==
  /\ MaxBatches \in Nat
  /\ None \notin 1..MaxBatches /\ None \notin {"return", "throw", "withdraw"}
  /\ Tries \in Nat \ {0} /\ MaxFailures \in Nat /\ MaxCrashes \in Nat

(* Batches have random tokens; here they are numbered in the order made.    *)
Batch == 1..MaxBatches

VARIABLES
  journal,  \* the stored entry, or None
  files,    \* the batch directories of the secure store
  own,      \* per process: the batch its pipeline stored
  found,    \* per process: the entry it loaded, or the winner of its commit
  tries,    \* per process: rounds of the loop it is in
  after,    \* per process: what follows the deletion of its own batch
  pc,
  answers,  \* results callers have got
  faults,   \* failures so far, by kind
  crashes

callVars == <<own, found, tries, after, pc>>
vars == <<journal, files, own, found, tries, after, pc, answers, faults, crashes>>

-----------------------------------------------------------------------------
(* A pair unreadable for a moment, a commit without effect, a commit whose *)
(* answer is lost, an invalidation and a deletion that fail.               *)
Fault == {"unread", "refused", "lost", "stuck", "kept"}

(* A batch is renamed into place whole; its deletion is file by file.      *)
FileState == {"absent", "whole", "part", "gone"}

PC == {"idle", "down", "load", "check", "evict", "generate", "verify", "commit",
       "confirm", "expel", "delete", "erase", "disown", "withdraw"}

Init ==
  /\ journal = None /\ files = [b \in Batch |-> "absent"]
  /\ own = [p \in Process |-> None] /\ found = [p \in Process |-> None]
  /\ tries = [p \in Process |-> 0] /\ after = [p \in Process |-> None]
  /\ pc = [p \in Process |-> "idle"]
  /\ answers = {} /\ faults = [f \in Fault |-> 0] /\ crashes = 0

Goto(p, l) == pc' = [pc EXCEPT ![p] = l]

Failures == faults["unread"] + faults["refused"] + faults["lost"]
              + faults["stuck"] + faults["kept"]

Fails(f) == Failures < MaxFailures /\ faults' = [faults EXCEPT ![f] = @ + 1]

NoFault == UNCHANGED faults

(* The call ends: its flight is over.                                      *)
Over(p) ==
  /\ own' = [own EXCEPT ![p] = None] /\ found' = [found EXCEPT ![p] = None]
  /\ tries' = [tries EXCEPT ![p] = 0] /\ after' = [after EXCEPT ![p] = None]
  /\ Goto(p, "idle")

(* A call that throws, as one with a refused configuration does, leaves    *)
(* nothing behind but what was done before.                                *)
Throw(p) == Over(p) /\ UNCHANGED answers

Return(p, b) == Over(p) /\ answers' = answers \cup {b}

(* assertSecurePairResolvable: both artifacts of the batch are read.  A    *)
(* whole batch may be unreadable for a moment.                             *)
Resolves(b) == files[b] = "whole" /\ NoFault

Unresolved(b) == IF files[b] = "whole" THEN Fails("unread") ELSE NoFault

(* invalidateSuccessful compares the hash of the result it removes.        *)
Invalidate(b) == journal' = IF journal = b THEN None ELSE journal

(* commitSuccessful: the first entry wins.                                 *)
Winner(b) == IF journal = None THEN b ELSE journal

-----------------------------------------------------------------------------
Ask(p) ==
  /\ pc[p] = "idle" /\ Goto(p, "load")
  /\ UNCHANGED <<journal, files, own, found, tries, after, answers, faults, crashes>>

(* loadValidJournalResult.                                                 *)
Load(p) ==
  /\ pc[p] = "load"
  /\ found' = [found EXCEPT ![p] = journal]
  /\ tries' = [tries EXCEPT ![p] = IF journal = None THEN 0 ELSE @ + 1]
  /\ Goto(p, IF journal = None THEN "generate" ELSE "check")
  /\ UNCHANGED <<journal, files, own, after, answers, faults, crashes>>

Check(p) ==
  /\ pc[p] = "check"
  /\ \/ Resolves(found[p]) /\ Return(p, found[p])
     \/ /\ Unresolved(found[p]) /\ Goto(p, "evict")
        /\ UNCHANGED <<own, found, tries, after, answers>>
  /\ UNCHANGED <<journal, files, crashes>>

(* Mutant: an entry whose pair cannot be read is an error for good.        *)
Evict_Throws(p) ==
  /\ pc[p] = "evict" /\ Throw(p) /\ NoFault
  /\ UNCHANGED <<journal, files, crashes>>

(* An entry whose pair cannot be read is removed; one that was replaced    *)
(* meanwhile is looked at again.                                           *)
Evict(p) ==
  /\ pc[p] = "evict"
  /\ \/ /\ Invalidate(found[p]) /\ NoFault
        /\ IF journal = found[p]
             THEN Goto(p, "generate") /\ tries' = [tries EXCEPT ![p] = 0]
                  /\ UNCHANGED <<own, found, after, answers>>
             ELSE IF tries[p] < Tries
               THEN Goto(p, "load") /\ UNCHANGED <<own, found, tries, after, answers>>
               ELSE Throw(p)
     \/ Fails("stuck") /\ Throw(p) /\ UNCHANGED journal
  /\ UNCHANGED <<files, crashes>>

(* The pipeline: a reviewed result with a new secure batch, or a result    *)
(* that is not ready and goes to the caller as it is.                      *)
Generate(p) ==
  /\ pc[p] = "generate"
  /\ \/ \E b \in Batch :
          /\ files[b] = "absent" /\ \A x \in 1..(b - 1) : files[x] # "absent"
          /\ files' = [files EXCEPT ![b] = "whole"]
          /\ own' = [own EXCEPT ![p] = b] /\ Goto(p, "verify")
          /\ UNCHANGED <<found, tries, after, answers>>
     \/ Throw(p) /\ UNCHANGED files
  /\ UNCHANGED <<journal, faults, crashes>>

(* Its own pair is read once before the commit; nothing is cleaned up when *)
(* that fails.                                                             *)
Verify(p) ==
  /\ pc[p] = "verify"
  /\ \/ Resolves(own[p]) /\ Goto(p, "commit")
        /\ UNCHANGED <<own, found, tries, after, answers>>
     \/ Unresolved(own[p]) /\ Throw(p)
  /\ UNCHANGED <<journal, files, crashes>>

Delete(p, then) ==
  /\ after' = [after EXCEPT ![p] = then] /\ Goto(p, "delete")

(* commitGeneratedJournalResult.  A commit may fail before or after it     *)
(* took effect; either way the batch is deleted and the entry withdrawn.   *)
Commit(p) ==
  /\ pc[p] = "commit"
  /\ \/ /\ journal' = Winner(own[p]) /\ found' = [found EXCEPT ![p] = Winner(own[p])]
        /\ tries' = [tries EXCEPT ![p] = @ + 1] /\ Goto(p, "confirm")
        /\ NoFault /\ UNCHANGED after
     \/ /\ Fails("refused") /\ Delete(p, "withdraw")
        /\ UNCHANGED <<journal, found, tries>>
     \/ /\ Fails("lost") /\ journal' = Winner(own[p]) /\ Delete(p, "withdraw")
        /\ UNCHANGED <<found, tries>>
  /\ UNCHANGED <<files, own, answers, crashes>>

(* Mutant: the loser deletes the pair of the winner.                       *)
Loser_Winner(p) == IF after[p] = "return" THEN found[p] ELSE own[p]

(* A loser's own batch.                                                    *)
Loser(p) == own[p]

Confirm(p) ==
  /\ pc[p] = "confirm"
  /\ \/ /\ Resolves(found[p])
        /\ IF found[p] = own[p]
             THEN Return(p, found[p])
             ELSE Delete(p, "return") /\ UNCHANGED <<own, found, tries, answers>>
     \/ /\ Unresolved(found[p]) /\ Goto(p, "expel")
        /\ UNCHANGED <<own, found, tries, after, answers>>
  /\ UNCHANGED <<journal, files, crashes>>

(* The winner's pair cannot be read: its entry goes.  Its own pair is not  *)
(* tried twice; a second winner is, up to the limit.                       *)
Expel(p) ==
  /\ pc[p] = "expel"
  /\ \/ /\ Invalidate(found[p]) /\ NoFault
        /\ \/ found[p] = own[p] /\ Throw(p)
           \/ /\ found[p] # own[p] /\ tries[p] < Tries /\ Goto(p, "commit")
              /\ UNCHANGED <<own, found, tries, after, answers>>
           \/ /\ found[p] # own[p] /\ tries[p] = Tries /\ Delete(p, "throw")
              /\ UNCHANGED <<own, found, tries, answers>>
     \/ /\ Fails("stuck") /\ Delete(p, "throw")
        /\ UNCHANGED <<journal, own, found, tries, answers>>
  /\ UNCHANGED <<files, crashes>>

(* A deletion failed.  That of a loser lies within the try of the read of  *)
(* the winner: its error counts as one of the winner's entry.  Any other   *)
(* ends the call.                                                          *)
Undeleted(p) ==
  \/ /\ after[p] = "return" /\ Goto(p, "disown")
     /\ UNCHANGED <<own, found, tries, after, answers>>
  \/ after[p] # "return" /\ Throw(p)

(* deleteBatch checks the whole batch, then removes file by file; either   *)
(* part may fail, and a batch that lost a file is refused from then on.    *)
DeleteFirst(p) ==
  /\ pc[p] = "delete"
  /\ \/ /\ files[Loser(p)] = "whole" /\ NoFault
        /\ files' = [files EXCEPT ![Loser(p)] = "part"] /\ Goto(p, "erase")
        /\ UNCHANGED <<own, found, tries, after, answers>>
     \/ Undeleted(p) /\ UNCHANGED files
        /\ IF files[Loser(p)] = "whole" THEN Fails("kept") ELSE NoFault
  /\ UNCHANGED <<journal, crashes>>

DeleteRest(p) ==
  /\ pc[p] = "erase"
  /\ \/ /\ files' = [files EXCEPT ![Loser(p)] = "gone"] /\ NoFault
        /\ CASE after[p] = "return" -> Return(p, found[p])
             [] after[p] = "throw" -> Throw(p)
             [] after[p] = "withdraw" ->
                  Goto(p, "withdraw") /\ UNCHANGED <<own, found, tries, after, answers>>
     \/ Undeleted(p) /\ Fails("kept") /\ UNCHANGED files
  /\ UNCHANGED <<journal, crashes>>

(* The valid winner's entry is removed, its own batch deleted once more,   *)
(* and the call throws.                                                    *)
Disown(p) ==
  /\ pc[p] = "disown" /\ Delete(p, "throw")
  /\ \/ Invalidate(found[p]) /\ NoFault
     \/ Fails("stuck") /\ UNCHANGED journal
  /\ UNCHANGED <<files, own, found, tries, answers, crashes>>

(* After a failed commit: the entry goes if it is the process's own.       *)
Withdraw(p) ==
  /\ pc[p] = "withdraw" /\ Throw(p)
  /\ \/ Invalidate(own[p]) /\ NoFault
     \/ Fails("stuck") /\ UNCHANGED journal
  /\ UNCHANGED <<files, crashes>>

Crash(p) ==
  /\ pc[p] \notin {"idle", "down"} /\ crashes < MaxCrashes
  /\ crashes' = crashes + 1
  /\ own' = [own EXCEPT ![p] = None] /\ found' = [found EXCEPT ![p] = None]
  /\ tries' = [tries EXCEPT ![p] = 0] /\ after' = [after EXCEPT ![p] = None]
  /\ Goto(p, "down")
  /\ UNCHANGED <<journal, files, answers, faults>>

Restart(p) ==
  /\ pc[p] = "down" /\ Goto(p, "idle")
  /\ UNCHANGED <<journal, files, own, found, tries, after, answers, faults, crashes>>

Step(p) ==
  \/ Load(p) \/ Check(p) \/ Evict(p) \/ Generate(p) \/ Verify(p) \/ Commit(p)
  \/ Confirm(p) \/ Expel(p) \/ DeleteFirst(p) \/ DeleteRest(p)
  \/ Disown(p) \/ Withdraw(p)

Next == \E p \in Process : Ask(p) \/ Step(p) \/ Crash(p) \/ Restart(p)

Spec == Init /\ [][Next]_vars

(* A started call goes on, a stopped process comes back and a client asks  *)
(* again.                                                                  *)
FairSpec ==
  Spec /\ \A p \in Process : WF_vars(Step(p)) /\ WF_vars(Ask(p)) /\ WF_vars(Restart(p))

-----------------------------------------------------------------------------
TypeOK ==
  /\ journal \in Batch \cup {None} /\ files \in [Batch -> FileState]
  /\ own \in [Process -> Batch \cup {None}] /\ found \in [Process -> Batch \cup {None}]
  /\ tries \in [Process -> 0..Tries]
  /\ after \in [Process -> {"return", "throw", "withdraw", None}]
  /\ pc \in [Process -> PC] /\ answers \subseteq Batch
  /\ faults \in [Fault -> 0..MaxFailures] /\ crashes \in 0..MaxCrashes

(* A result that was answered can be graded: its secure pair is in the     *)
(* store, also after the entry was evicted, disowned, replaced or lost a   *)
(* commit.  Only a commit that took effect and reported an error, and a    *)
(* failed invalidation, take away a pair that another process may have     *)
(* answered.  And as long as every stored pair can be read and every       *)
(* loser's deleted, all callers are answered the same result, whoever      *)
(* crashes and whichever commit comes first (next-round.ts:565-656).       *)
AnsweredIsReadable ==
  faults["lost"] = 0 =>
    /\ faults["stuck"] = 0 => \A b \in answers : files[b] = "whole"
    /\ faults["unread"] = 0 /\ faults["kept"] = 0 => Cardinality(answers) <= 1

(* An entry whose pair is not in the store is found out and removed.       *)
DanglingIsCured == \A b \in Batch :
  (journal = b /\ files[b] # "whole") ~> (journal # b)
=============================================================================

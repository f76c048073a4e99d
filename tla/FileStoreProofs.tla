---------------------------- MODULE FileStoreProofs ----------------------------
(***************************************************************************)
(* Proofs about FileStore: its types, and that the lock directory makes    *)
(* every save atomic.  The second goes in two steps.  Whatever happens to  *)
(* the writers, saves are atomic as long as no two of them are under the   *)
(* lock; and no two are as long as at most one process stops, however long *)
(* each call of the file system takes and whichever of them fail: the lock *)
(* of the one that stopped is reclaimed once, by the writer that has the   *)
(* only claim on it.  (Exclusion can be lost after two stops: then a claim *)
(* is stale too, and claims are removed by name.)                          *)
(***************************************************************************)
EXTENDS FileStore, TLAPS

(* Stages in which the writer works on a lock it inspected before.         *)
Reclaiming == {"candidate", "link", "relink", "sweep", "resweep", "sweep_rm", "resweep_rm"}

(* Stages after the result of the save is known.                           *)
Returning == {"release", "look", "judge", "drop_rm", "stale", "stale_rm", "free",
              "move", "done"}

(* What a writer knows in which stage.                                     *)
LocalInv ==
  \A w \in Writer : /\ pc[w] \in Reclaiming => seen[w] # None
                    /\ pc[w] = "load" <=> base[w] = None
                    /\ pc[w] \notin Returning => result[w] = None

Inv == TypeOK /\ LocalInv

USE WriterAssumption, BoundAssumption, NoneAssumption

LEMMA InitInv == Init => Inv
BY DEF Init, Inv, TypeOK, LocalInv, PC, Reclaiming, Returning, Register!Results

LEMMA StepInv ==
  ASSUME Inv, NEW w \in Writer, Step(w)
  PROVE  Inv'
<1> USE DEF Inv, TypeOK, LocalInv, At, Goto, Stays, Inspected, lockDirectory, record,
            PC, Reclaiming, Returning, Register!Results
<1>1. CASE Load(w)
  BY <1>1 DEF Load
<1>2. CASE Mkdir(w)
  BY <1>2 DEF Mkdir, Here
<1>3. CASE WriteOwner(w)
  BY <1>3 DEF WriteOwner, Fault, Here, OwnerHere
<1>4. CASE Undo(w)
  BY <1>4 DEF Undo, GiveUp, RemovePath, Here
<1>5. CASE Inspect(w)
  BY <1>5 DEF Inspect, Retry, GiveUp, Here, Seen
<1>6. CASE WriteCandidate(w)
  BY <1>6 DEF WriteCandidate, Retry, GiveUp, Here
<1>7. CASE Link(w)
  BY <1>7 DEF Link, Retry, GiveUp, Here, LinkFree, Claim, Seen
<1>8. CASE Sweep(w)
  BY <1>8 DEF Sweep, Retry, GiveUp, Here, ClaimHere
<1>9. CASE SweepRm(w)
  BY <1>9 DEF SweepRm, Retry, GiveUp, RemoveClaim, Here
<1>10. CASE Confirm(w)
  BY <1>10 DEF Confirm
<1>11. CASE CheckToken(w)
  BY <1>11 DEF CheckToken
<1>12. CASE Rename(w)
  BY <1>12 DEF Rename, RemovePath, Here
<1>13. CASE Clean(w)
  BY <1>13 DEF Clean, Retry, GiveUp
<1>14. CASE CleanRm(w)
  BY <1>14 DEF CleanRm, Retry, GiveUp, RemoveClaim, Here
<1>15. CASE ReadRevision(w)
  BY <1>15 DEF ReadRevision, Return
<1>16. CASE WriteRecord(w)
  BY <1>16 DEF WriteRecord, Return, Fault
<1>17. CASE Release(w)
  BY <1>17 DEF Release, OwnerHere, Here, Seen
<1>18. CASE Look(w)
  BY <1>18 DEF Look
<1>19. CASE Judge(w)
  BY <1>19 DEF Judge
<1>20. CASE JudgeStale(w)
  BY <1>20 DEF JudgeStale
<1>21. CASE DropClaim(w)
  BY <1>21 DEF DropClaim, RemoveClaim, Here
<1>22. CASE ConfirmOwner(w)
  BY <1>22 DEF ConfirmOwner
<1>23. CASE MoveAway(w)
  BY <1>23 DEF MoveAway, RemovePath, Here
<1> QED BY <1>1, <1>2, <1>3, <1>4, <1>5, <1>6, <1>7, <1>8, <1>9, <1>10, <1>11, <1>12, <1>13, <1>14, <1>15, <1>16, <1>17, <1>18, <1>19, <1>20, <1>21, <1>22, <1>23 DEF Step

LEMMA NextInv == Inv /\ [Next]_vars => Inv'
<1> SUFFICES ASSUME Inv, [Next]_vars PROVE Inv'
  OBVIOUS
<1> USE DEF Inv, TypeOK, LocalInv
<1>1. CASE \E w \in Writer : Step(w)
  BY <1>1, StepInv
<1>2. ASSUME NEW w \in Writer, Crash(w) PROVE Inv'
  BY <1>2 DEF Crash, Fault, Inspected, lockDirectory, record
<1>3. CASE Expire
  BY <1>3 DEF Expire, Here, Inspected, record
<1>4. CASE UNCHANGED vars
  BY <1>4 DEF vars, lockDirectory, record
<1> QED BY <1>1, <1>2, <1>3, <1>4 DEF Next

(* Whatever the writers, the faults and the timeouts: every variable keeps *)
(* its type.                                                               *)
THEOREM TypesHold == Spec => []TypeOK
<1>1. Inv => TypeOK
  BY DEF Inv
<1> QED BY <1>1, InitInv, NextInv, PTL DEF Spec

-----------------------------------------------------------------------------
(* Saves are atomic if the lock excludes.                                  *)

(* A writer about to write the record has compared its revision.           *)
Compared == \A w \in alive : pc[w] = "write" => base[w] = revision

LEMMA InitCompared == Init => Compared
BY DEF Init, Compared

(* Only the revision is of interest: it changes in WriteRecord, where the  *)
(* lock keeps every other writer out.                                      *)
LEMMA StepCompared ==
  ASSUME Inv, Compared, MutualExclusion, NEW w \in Writer, Step(w)
  PROVE  Compared'
<1> USE DEF Inv, TypeOK, Compared, At, Goto, Stays, record
<1>1. CASE Load(w)
  BY <1>1 DEF Load, LocalInv
<1>2. CASE Mkdir(w)
  BY <1>2 DEF Mkdir
<1>3. CASE WriteOwner(w)
  BY <1>3 DEF WriteOwner
<1>4. CASE Undo(w)
  BY <1>4 DEF Undo, GiveUp
<1>5. CASE Inspect(w)
  BY <1>5 DEF Inspect, Retry, GiveUp
<1>6. CASE WriteCandidate(w)
  BY <1>6 DEF WriteCandidate, Retry, GiveUp
<1>7. CASE Link(w)
  BY <1>7 DEF Link, Retry, GiveUp
<1>8. CASE Sweep(w)
  BY <1>8 DEF Sweep, Retry, GiveUp
<1>9. CASE SweepRm(w)
  BY <1>9 DEF SweepRm, Retry, GiveUp
<1>10. CASE Confirm(w)
  BY <1>10 DEF Confirm
<1>11. CASE CheckToken(w)
  BY <1>11 DEF CheckToken
<1>12. CASE Rename(w)
  BY <1>12 DEF Rename
<1>13. CASE Clean(w)
  BY <1>13 DEF Clean, Retry, GiveUp
<1>14. CASE CleanRm(w)
  BY <1>14 DEF CleanRm, Retry, GiveUp
<1>15. CASE ReadRevision(w)
  BY <1>15 DEF ReadRevision, Return
<1>16. CASE WriteRecord(w)
  BY <1>16 DEF WriteRecord, Return, MutualExclusion
<1>17. CASE Release(w)
  BY <1>17 DEF Release
<1>18. CASE Look(w)
  BY <1>18 DEF Look
<1>19. CASE Judge(w)
  BY <1>19 DEF Judge
<1>20. CASE JudgeStale(w)
  BY <1>20 DEF JudgeStale
<1>21. CASE DropClaim(w)
  BY <1>21 DEF DropClaim
<1>22. CASE ConfirmOwner(w)
  BY <1>22 DEF ConfirmOwner
<1>23. CASE MoveAway(w)
  BY <1>23 DEF MoveAway
<1> QED BY <1>1, <1>2, <1>3, <1>4, <1>5, <1>6, <1>7, <1>8, <1>9, <1>10, <1>11, <1>12, <1>13, <1>14, <1>15, <1>16, <1>17, <1>18, <1>19, <1>20, <1>21, <1>22, <1>23 DEF Step

LEMMA NextCompared == Inv /\ Compared /\ MutualExclusion /\ [Next]_vars => Compared'
<1> SUFFICES ASSUME Inv, Compared, MutualExclusion, [Next]_vars PROVE Compared'
  OBVIOUS
<1> USE DEF Compared
<1>1. CASE \E w \in Writer : Step(w)
  BY <1>1, StepCompared
<1>2. ASSUME NEW w \in Writer, Crash(w) PROVE Compared'
  BY <1>2 DEF Crash, record
<1>3. CASE Expire
  BY <1>3 DEF Expire, record
<1>4. CASE UNCHANGED vars
  BY <1>4 DEF vars, record
<1> QED BY <1>1, <1>2, <1>3, <1>4 DEF Next

(* Only four kinds of step are seen by the users of the store: loading, a  *)
(* refusal, giving up, and the one write of the record.                    *)
LEMMA StepRefines ==
  ASSUME Inv, Compared, NEW w \in Writer, Step(w)
  PROVE  Register!RegisterNext \/ UNCHANGED Register!registerVars
<1> USE DEF Inv, TypeOK, LocalInv, At, Goto, Returning, Register!registerVars
<1>1. CASE Load(w)
  <2>1. Register!LoadRecord(w)
    BY <1>1 DEF Load, Register!LoadRecord
  <2> QED BY <2>1 DEF Register!RegisterNext
<1>2. ASSUME GiveUp(w), pc[w] \notin Returning, UNCHANGED <<revision, base>>
      PROVE  Register!RegisterNext
  <2>1. Register!Fail(w)
    BY <1>2 DEF GiveUp, Register!Fail
  <2> QED BY <2>1 DEF Register!RegisterNext
<1>3. CASE Undo(w)
  BY <1>2, <1>3 DEF Undo
<1>4. ASSUME Retry(w), pc[w] \notin Returning
      PROVE  Register!RegisterNext \/ UNCHANGED Register!registerVars
  BY <1>2, <1>4 DEF Retry
<1>5. CASE Inspect(w) \/ WriteCandidate(w) \/ Sweep(w) \/ Clean(w)
  BY <1>4, <1>5 DEF Inspect, WriteCandidate, Sweep, Clean, Stays, record
<1>6. CASE Link(w) \/ SweepRm(w) \/ CleanRm(w)
  BY <1>4, <1>6 DEF Link, SweepRm, CleanRm, Stays, record
<1>7. CASE ReadRevision(w)
  <2>1. CASE revision = base[w]
    BY <1>7, <2>1 DEF ReadRevision
  <2>2. CASE revision # base[w]
    <3>1. Register!Refuse(w)
      BY <1>7, <2>2 DEF ReadRevision, Return, Register!Refuse
    <3> QED BY <3>1 DEF Register!RegisterNext
  <2> QED BY <2>1, <2>2
<1>8. CASE WriteRecord(w)
  <2>1. base[w] = revision /\ result[w] = None /\ UNCHANGED base
    BY <1>8 DEF WriteRecord, Compared
  <2>2. CASE revision' = base[w] + 1
    <3>1. \E r \in {"saved", "failed"} : result' = [result EXCEPT ![w] = r]
      BY <1>8 DEF WriteRecord, Return
    <3>2. Register!Commit(w)
      BY <2>1, <2>2, <3>1 DEF Register!Commit
    <3> QED BY <3>2 DEF Register!RegisterNext
  <2>3. CASE revision' = revision /\ result' = [result EXCEPT ![w] = "failed"]
    <3>1. Register!Fail(w)
      BY <2>1, <2>3 DEF Register!Fail
    <3> QED BY <3>1 DEF Register!RegisterNext
  <2> QED BY <1>8, <2>1, <2>2, <2>3 DEF WriteRecord, Return
<1>9. CASE Mkdir(w) \/ WriteOwner(w) \/ Confirm(w) \/ CheckToken(w) \/ Rename(w)
  BY <1>9 DEF Mkdir, WriteOwner, Confirm, CheckToken, Rename, Stays, record
<1>10. CASE \/ Release(w) \/ Look(w) \/ Judge(w) \/ JudgeStale(w) \/ DropClaim(w)
            \/ ConfirmOwner(w) \/ MoveAway(w)
  BY <1>10 DEF Release, Look, Judge, JudgeStale, DropClaim, ConfirmOwner, MoveAway,
               Stays, record
<1> QED BY <1>1, <1>3, <1>5, <1>6, <1>7, <1>8, <1>9, <1>10 DEF Step

(* As long as no two running writers are under the lock the store is a     *)
(* register with compare-and-set, whoever stops and whichever call of the  *)
(* file system fails (saveRecord: the revision is read again under the     *)
(* lock, and the record is published by one rename).                       *)
THEOREM AtomicIfExclusive == Spec /\ []MutualExclusion => SavesAreAtomic
<1>1. Init => Register!RegisterInit
  BY DEF Init, Register!RegisterInit
<1>2. Inv /\ Compared /\ [Next]_vars => [Register!RegisterNext]_Register!registerVars
  <2> SUFFICES ASSUME Inv, Compared, [Next]_vars
               PROVE  Register!RegisterNext \/ UNCHANGED Register!registerVars
    OBVIOUS
  <2>1. CASE \E w \in Writer : Step(w)
    BY <2>1, StepRefines
  <2>2. CASE (\E w \in Writer : Crash(w)) \/ Expire \/ UNCHANGED vars
    BY <2>2 DEF Crash, Expire, vars, record, Register!registerVars
  <2> QED BY <2>1, <2>2 DEF Next
<1> QED BY <1>1, <1>2, InitInv, NextInv, InitCompared, NextCompared, PTL
        DEF Spec, SavesAreAtomic, Register!RegisterSpec

-----------------------------------------------------------------------------
(* The lock excludes as long as at most one process stops.                 *)

(* Stages in which a writer has the lock directory while no claim is on    *)
(* it, and all in which it has; those in which it reclaims one it saw.     *)
Holding == {"meta", "undo", "read", "write", "release", "look", "free", "move"}
Held == Holding \cup {"judge", "drop_rm", "stale"}
Reclaims == Reclaiming \cup {"confirm", "token", "rename", "clean", "clean_rm"}

(* No process has stopped: nothing is ever stale, nobody claims anything,  *)
(* and whoever holds the lock directory made the one at the path.          *)
Orderly ==
  /\ alive = Writer /\ expired = {}
  /\ \A w \in Writer : /\ claim[w] = None /\ owner[w] \in {None, w}
                       /\ pc[w] \in {"load", "mkdir", "inspect", "done"} \cup Holding
                       /\ pc[w] \in Holding => path = w

(* The claim on the lock of dead, as long as there is one, is w's.         *)
Mine(w, dead) == path = dead => claim[dead] # None /\ claim[dead].by = w

(* One process has stopped: its lock is the only stale one, and once it is *)
(* gone it does not come back; only who has the claim on it moves it away, *)
(* and a claim put on another lock by then moves nothing.                  *)
OneStopped(dead) ==
  /\ alive = Writer \ {dead} /\ expired \subseteq {dead}
  /\ \A d \in Writer : /\ owner[d] \in {None, d}
                       /\ claim[d] # None => d = path /\ claim[d].by # dead
  /\ \A w \in alive :
       /\ pc[w] \notin {"sweep_rm", "resweep_rm", "stale_rm"}
       /\ pc[w] \in Held => path = w
       /\ pc[w] \in Reclaims => seen[w] # None /\ seen[w].dir = dead
       /\ pc[w] \in {"confirm", "token", "rename", "clean_rm"} => Mine(w, dead)
       /\ pc[w] \in {"token", "rename"} => path = dead

FewStops == \A v, w \in Writer \ alive : v = w
Guarded == FewStops => Orderly \/ \E dead \in Writer : OneStopped(dead)

LEMMA InitOrderly == Init => Orderly
BY DEF Init, Orderly, Holding

(* A lock with an owner is not stale, one without is not old enough.       *)
LEMMA StepOrderly ==
  ASSUME Inv, Orderly, NEW w \in Writer, Step(w)
  PROVE  Orderly'
<1> USE DEF Inv, TypeOK, Orderly, Holding, At, Goto, Here, OwnerHere, Stays, record
<1>1. CASE Load(w)
  BY <1>1 DEF Load, lockDirectory
<1>2. CASE Mkdir(w)
  BY <1>2 DEF Mkdir
<1>3. CASE WriteOwner(w)
  BY <1>3 DEF WriteOwner
<1>4. CASE Undo(w)
  BY <1>4 DEF Undo, GiveUp, RemovePath
<1>5. CASE Inspect(w)
  BY <1>5 DEF Inspect, Stale, Retry, GiveUp, lockDirectory
<1>6. CASE ReadRevision(w)
  BY <1>6 DEF ReadRevision, Return, lockDirectory
<1>7. CASE WriteRecord(w)
  BY <1>7 DEF WriteRecord, Return, lockDirectory
<1>8. CASE Release(w)
  BY <1>8 DEF Release, lockDirectory
<1>9. CASE Look(w)
  BY <1>9 DEF Look, ClaimHere, lockDirectory
<1>10. CASE ConfirmOwner(w)
  BY <1>10 DEF ConfirmOwner, lockDirectory
<1>11. CASE MoveAway(w)
  BY <1>11 DEF MoveAway, RemovePath
<1>12. CASE \/ WriteCandidate(w) \/ Link(w) \/ Sweep(w) \/ SweepRm(w) \/ Confirm(w)
            \/ CheckToken(w) \/ Rename(w) \/ Clean(w) \/ CleanRm(w)
            \/ Judge(w) \/ JudgeStale(w) \/ DropClaim(w)
  BY <1>12 DEF WriteCandidate, Link, Sweep, SweepRm, Confirm, CheckToken, Rename,
               Clean, CleanRm, Judge, JudgeStale, DropClaim
<1> QED BY <1>1, <1>2, <1>3, <1>4, <1>5, <1>6, <1>7, <1>8, <1>9, <1>10, <1>11, <1>12
        DEF Step

(* Of the steps of a running writer, while dead is the only one stopped.   *)
LEMMA StepOneStopped ==
  ASSUME Inv, NEW dead \in Writer, OneStopped(dead), NEW w \in Writer, Step(w)
  PROVE  OneStopped(dead)'
<1> USE DEF Inv, TypeOK, OneStopped, Mine, Held, Holding, Reclaims, Reclaiming, At, Goto, Stays, record,
            Inspected, Here, OwnerHere, ClaimHere
<1>1. CASE Load(w)
  BY <1>1 DEF Load, lockDirectory
<1>2. CASE Mkdir(w)
  BY <1>2 DEF Mkdir
<1>3. CASE WriteOwner(w)
  BY <1>3 DEF WriteOwner
<1>4. CASE Undo(w)
  BY <1>4 DEF Undo, GiveUp, RemovePath
<1>5. CASE Inspect(w)
  <2>1. CASE path # None /\ Stale(owner[path], path \in expired)
    <3>1. path = dead
      BY <2>1 DEF Stale
    <3>2. /\ seen' = [seen EXCEPT ![w] = [dir |-> path, owner |-> owner[path]]]
          /\ pc' = [pc EXCEPT ![w] = "candidate"] /\ UNCHANGED candidate
      BY <1>5, <2>1 DEF Inspect
    <3>3. seen'[w] # None /\ seen'[w].dir = dead
      BY <2>1, <3>1, <3>2 DEF Seen
    <3> QED BY <1>5, <2>1, <3>2, <3>3 DEF Inspect, lockDirectory
  <2>2. CASE ~(path # None /\ Stale(owner[path], path \in expired))
    BY <1>5, <2>2 DEF Inspect, Retry, GiveUp, lockDirectory
  <2> QED BY <2>1, <2>2
<1>6. CASE WriteCandidate(w)
  BY <1>6 DEF WriteCandidate, Retry, GiveUp, lockDirectory
<1>7. CASE Link(w)
  <2>1. CASE path # None /\ path = candidate[w] /\ claim[path] = None
    <3>1. PICK c : c = [by |-> w, dir |-> seen[w].dir, owner |-> seen[w].owner]
      OBVIOUS
    <3>2. seen[w] \in Seen /\ w # dead
      BY <1>7 DEF Link
    <3>3. c.by = w /\ c # None
      <4>1. c \in Claim
        BY <3>1, <3>2 DEF Claim, Seen
      <4> QED BY <3>1, <4>1
    <3>4. /\ claim' = [claim EXCEPT ![path] = c] /\ pc' = [pc EXCEPT ![w] = "confirm"]
          /\ UNCHANGED <<path, owner, expired, seen, candidate>>
      BY <1>7, <2>1, <3>1 DEF Link, LinkFree
    <3> QED BY <1>7, <2>1, <3>2, <3>3, <3>4 DEF Link
  <2>2. CASE ~(path # None /\ path = candidate[w])
    BY <1>7, <2>2 DEF Link, Retry, GiveUp, lockDirectory
  <2>3. CASE path # None /\ path = candidate[w] /\ claim[path] # None
    BY <1>7, <2>3 DEF Link, LinkFree, lockDirectory
  <2> QED BY <2>1, <2>2, <2>3
<1>8. CASE Sweep(w)
  <2>1. path # None /\ claim[path] # None => claim[path].by \in alive
    BY DEF Claim
  <2>2. Retry(w) /\ UNCHANGED lockDirectory
    BY <1>8, <2>1 DEF Sweep
  <2> QED BY <1>8, <2>2 DEF Sweep, Retry, GiveUp, lockDirectory
<1>9. CASE SweepRm(w)
  BY <1>9 DEF SweepRm
<1>10. CASE Confirm(w)
  BY <1>10 DEF Confirm, SameLock, lockDirectory
<1>11. CASE CheckToken(w)
  BY <1>11 DEF CheckToken, lockDirectory
<1>12. CASE Rename(w)
  BY <1>12 DEF Rename, RemovePath
<1>13. CASE Clean(w)
  BY <1>13 DEF Clean, Retry, GiveUp, lockDirectory
<1>14. CASE CleanRm(w)
  BY <1>14 DEF CleanRm, Retry, GiveUp, RemoveClaim
<1>15. CASE ReadRevision(w)
  BY <1>15 DEF ReadRevision, Return, lockDirectory
<1>16. CASE WriteRecord(w)
  BY <1>16 DEF WriteRecord, Return, lockDirectory
<1>17. CASE Release(w)
  BY <1>17 DEF Release, lockDirectory
<1>18. CASE Look(w)
  BY <1>18 DEF Look, lockDirectory
<1>19. CASE Judge(w)
  BY <1>19 DEF Judge, lockDirectory
<1>20. CASE JudgeStale(w)
  <2>1. path # None /\ claim[path] # None => claim[path].by \in alive
    BY DEF Claim
  <2>2. pc' = [pc EXCEPT ![w] = "done"]
    BY <1>20, <2>1 DEF JudgeStale
  <2> QED BY <1>20, <2>2 DEF JudgeStale, lockDirectory
<1>21. CASE DropClaim(w)
  BY <1>21 DEF DropClaim, RemoveClaim
<1>22. CASE ConfirmOwner(w)
  BY <1>22 DEF ConfirmOwner, lockDirectory
<1>23. CASE MoveAway(w)
  BY <1>23 DEF MoveAway, RemovePath
<1> QED BY <1>1, <1>2, <1>3, <1>4, <1>5, <1>6, <1>7, <1>8, <1>9, <1>10, <1>11, <1>12, <1>13, <1>14, <1>15, <1>16, <1>17, <1>18, <1>19, <1>20, <1>21, <1>22, <1>23 DEF Step

(* The first stop leaves the locks as they are.                            *)
LEMMA FirstStop ==
  ASSUME Inv, Orderly, NEW w \in Writer, Crash(w)
  PROVE  OneStopped(w)'
BY DEF Inv, TypeOK, Orderly, Crash, lockDirectory, Inspected, OneStopped, Mine, Held, Holding, Reclaims,
       Reclaiming

LEMMA NextGuarded == Inv /\ Guarded /\ [Next]_vars => Guarded'
<1> SUFFICES ASSUME Inv, Guarded, [Next]_vars, FewStops'
             PROVE  Orderly' \/ \E dead \in Writer : OneStopped(dead)'
  BY DEF Guarded
<1>1. alive' \subseteq alive
  <2>1. \A w \in Writer : Step(w) => alive' = alive
    BY DEF Step, Load, Mkdir, WriteOwner, Undo, Inspect, WriteCandidate, Link, Sweep, SweepRm,
       Confirm, CheckToken, Rename, Clean, CleanRm, ReadRevision, WriteRecord, Release, Look, Judge,
       JudgeStale, DropClaim, ConfirmOwner, MoveAway, Retry, Stays
  <2> QED BY <2>1 DEF Next, Crash, Expire, vars
<1>2. FewStops
  BY <1>1 DEF FewStops
<1>3. CASE Orderly
  <2>1. ASSUME NEW w \in Writer, Crash(w) PROVE OneStopped(w)'
    BY <1>3, <2>1, FirstStop
  <2>2. ~Expire
    BY <1>3 DEF Expire, Here, Orderly, Inv, TypeOK
  <2>3. CASE UNCHANGED vars
    BY <1>3, <2>3 DEF vars, lockDirectory, Orderly
  <2> QED BY <1>3, <2>1, <2>2, <2>3, StepOrderly DEF Next
<1>4. ASSUME NEW dead \in Writer, OneStopped(dead) PROVE OneStopped(dead)'
  <2>1. ~ \E w \in Writer : Crash(w)
    BY <1>4 DEF OneStopped, Crash, FewStops
  <2>2. CASE Expire
    BY <1>4, <2>2 DEF Expire, Here, OneStopped, Mine, Inspected, Inv, TypeOK
  <2>3. CASE UNCHANGED vars
    BY <1>4, <2>3 DEF vars, lockDirectory, OneStopped, Mine
  <2> QED BY <1>4, <2>1, <2>2, <2>3, StepOneStopped DEF Next
<1> QED BY <1>2, <1>3, <1>4 DEF Guarded

(* As long as at most one process has stopped, wherever it did, at most    *)
(* one writer is under the lock, for any number of writers that are as     *)
(* slow as they like, with failing writes and timeouts (withLock,          *)
(* tryReclaimStaleLock, releaseOwnedLock).  The second stop can break it.  *)
THEOREM ExclusiveUpToOneStop == Spec => [](FewStops => MutualExclusion)
<1>1. Guarded => (FewStops => MutualExclusion)
  <2>1. Orderly => MutualExclusion
    BY DEF Orderly, Holding, MutualExclusion
  <2>2. \A dead \in Writer : OneStopped(dead) => MutualExclusion
    BY DEF OneStopped, Held, Holding, MutualExclusion
  <2> QED BY <2>1, <2>2 DEF Guarded
<1>2. Init => Guarded
  BY InitOrderly DEF Guarded
<1> QED BY <1>1, <1>2, InitInv, NextInv, NextGuarded, PTL DEF Spec

(* So while at most one process stops, the record file with its lock       *)
(* directory implements the register the learning cycle relies on.         *)
THEOREM AtomicUpToOneStop == Spec /\ []FewStops => SavesAreAtomic
BY ExclusiveUpToOneStop, AtomicIfExclusive, PTL

LEMMA NobodyStops ==
  ASSUME "crash" \notin FaultKinds
  PROVE  Spec => []FewStops
<1> DEFINE AllRun == alive = Writer
<1>1. Init => AllRun
  BY DEF Init
<1>2. AllRun /\ [Next]_vars => AllRun'
  <2>1. \A w \in Writer : Step(w) => alive' = alive
    BY DEF Step, Load, Mkdir, WriteOwner, Undo, Inspect, WriteCandidate, Link, Sweep, SweepRm,
       Confirm, CheckToken, Rename, Clean, CleanRm, ReadRevision, WriteRecord, Release, Look, Judge,
       JudgeStale, DropClaim, ConfirmOwner, MoveAway, Retry, Stays
  <2> QED BY <2>1 DEF Next, Crash, Fault, Expire, vars
<1>3. AllRun => FewStops
  BY DEF FewStops
<1> HIDE DEF AllRun
<1> QED BY <1>1, <1>2, <1>3, PTL DEF Spec

(* At most one writer is under the lock while no process stops.            *)
THEOREM ExclusiveWithoutStops ==
  ASSUME "crash" \notin FaultKinds
  PROVE  Spec => []MutualExclusion
BY NobodyStops, ExclusiveUpToOneStop, PTL

(* Both together: while no process stops, the record file with its lock    *)
(* directory implements the register the learning cycle relies on.         *)
THEOREM AtomicWithoutStops ==
  ASSUME "crash" \notin FaultKinds
  PROVE  Spec => SavesAreAtomic
BY ExclusiveWithoutStops, AtomicIfExclusive, PTL
================================================================================

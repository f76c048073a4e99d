------------------------------- MODULE FileStore -------------------------------
(***************************************************************************)
(* One record file of AtomicFileLearningCycleStore and the lock directory  *)
(* next to it (saveRecord, withLock, tryReclaimStaleLock,                  *)
(* releaseOwnedLock); AtomicFileMasteryStateStore has the same lock.       *)
(*                                                                         *)
(* A writer is one call of saveRecord, in a process of its own on one      *)
(* machine.  Every call into the file system is a step, except that stat   *)
(* and the read of owner.json in inspectLock are one, and so are two       *)
(* inspections that follow each other with nothing in between.             *)
(*                                                                         *)
(* The lock path names the directory a writer made, so a directory is      *)
(* known by that writer, as it is by device and inode in the code (the     *)
(* file system does not give a new directory the inode of a removed one);  *)
(* what is moved away from the path is removed.  Of the age of a directory *)
(* only matters whether it is past the lease, which is used when it has no *)
(* owner.json.                                                             *)
(***************************************************************************)
EXTENDS Naturals

CONSTANTS
  Writer,      \* calls of saveRecord
  None,        \* no value, no file
  FaultKinds,  \* "crash" (a process stops), "io" (a write fails)
  MaxFaults,   \* bound: faults
  Timeouts     \* whether a writer may give up waiting (lock_timeout_ms)

ASSUME WriterAssumption == None \notin Writer
ASSUME BoundAssumption == MaxFaults \in Nat /\ Timeouts \in BOOLEAN

VARIABLES
  path,      \* the directory at the lock path, or None
  owner,     \* per directory: the writer in owner.json, or None
  claim,     \* per directory: .reclaim, who claims which lock, or None
  expired,   \* directories older than the lease
  revision,  \* of the record file
  base,      \* per writer: the revision it loaded
  result,    \* per writer: what saveRecord came to
  pc, seen,  \* per writer: where it is; the lock it inspected
  candidate, \* per writer: the directory its claim's temporary file is in
  alive,     \* writers whose process runs
  faults     \* how many so far

lockDirectory == <<path, owner, claim, expired>>
record == <<revision, base, result>>
vars == <<lockDirectory, record, pc, seen, candidate, alive, faults>>

Register == INSTANCE RecordRegister

PC == {"load", "mkdir", "meta", "undo",
       "inspect", "candidate", "link", "relink", "sweep", "resweep",
       "sweep_rm", "resweep_rm", "confirm", "token", "rename", "clean", "clean_rm",
       "read", "write",
       "release", "look", "judge", "drop_rm", "stale", "stale_rm", "free", "move",
       "done"}

Claim == [by : Writer, dir : Writer, owner : Writer \cup {None}]
Seen  == [dir : Writer, owner : Writer \cup {None}]

ASSUME NoneAssumption == None \notin Nat /\ None \notin Seen /\ None \notin Claim

Init ==
  /\ path = None
  /\ owner = [d \in Writer |-> None] /\ claim = [d \in Writer |-> None]
  /\ expired = {}
  /\ revision = 0
  /\ base = [w \in Writer |-> None] /\ result = [w \in Writer |-> None]
  /\ pc = [w \in Writer |-> "load"]
  /\ seen = [w \in Writer |-> None] /\ candidate = [w \in Writer |-> None]
  /\ alive = Writer /\ faults = 0

-----------------------------------------------------------------------------
At(w, stages) == pc[w] \in stages /\ w \in alive
Goto(w, stage) == pc' = [pc EXCEPT ![w] = stage]

Fault(kind) == kind \in FaultKinds /\ faults < MaxFaults /\ faults' = faults + 1

Here == path # None
OwnerHere == IF Here THEN owner[path] ELSE None
ClaimHere == IF Here THEN claim[path] ELSE None

(* Mutant: a lock without owner.json is never stale.                       *)
Stale_OnlyKnown(who, aged) == who # None /\ who \notin alive

(* metadataIsStale: a known owner is asked for, an unknown one is stale    *)
(* when the lease is over.                                                 *)
Stale(who, aged) == IF who = None THEN aged ELSE who \notin alive

(* The directory at the lock path is removed, or renamed and removed.      *)
RemovePath ==
  /\ path' = None
  /\ owner' = IF Here THEN [owner EXCEPT ![path] = None] ELSE owner
  /\ claim' = IF Here THEN [claim EXCEPT ![path] = None] ELSE claim
  /\ UNCHANGED expired

(* rm(.reclaim)                                                            *)
RemoveClaim ==
  /\ claim' = IF Here THEN [claim EXCEPT ![path] = None] ELSE claim
  /\ UNCHANGED <<path, owner, expired>>

Stays == UNCHANGED <<record, alive, faults>>
Inspected == <<seen, candidate>>

-----------------------------------------------------------------------------
(* withLock                                                                *)

(* loadRecord, some time before the save; it takes no lock.                *)
Load(w) ==
  /\ At(w, {"load"}) /\ Goto(w, "mkdir")
  /\ base' = [base EXCEPT ![w] = revision]
  /\ UNCHANGED <<lockDirectory, Inspected, revision, result, alive, faults>>

Mkdir(w) ==
  /\ At(w, {"mkdir"})
  /\ IF Here
       THEN Goto(w, "inspect") /\ UNCHANGED path
       ELSE path' = w /\ Goto(w, "meta")
  /\ UNCHANGED <<owner, claim, expired, Inspected>> /\ Stays

(* writeFile(owner.json, wx)                                               *)
WriteOwner(w) ==
  /\ At(w, {"meta"})
  /\ \/ /\ Here /\ owner[path] = None
        /\ owner' = [owner EXCEPT ![path] = w]
        /\ Goto(w, "read") /\ UNCHANGED faults
     \/ /\ ~Here \/ OwnerHere # None
        /\ Goto(w, "undo") /\ UNCHANGED <<owner, faults>>
     \/ Fault("io") /\ Goto(w, "undo") /\ UNCHANGED owner
  /\ UNCHANGED <<path, claim, expired, Inspected, record, alive>>

GiveUp(w) ==
  Goto(w, "done") /\ result' = [result EXCEPT ![w] = "failed"]

(* rm(lockPath), then the error is thrown.                                 *)
Undo(w) ==
  /\ At(w, {"undo"}) /\ RemovePath /\ GiveUp(w)
  /\ UNCHANGED <<Inspected, revision, base, alive, faults>>

(* The lock was not reclaimed: LOCK_TIMEOUT or another mkdir.              *)
Retry(w) ==
  /\ \/ Goto(w, "mkdir") /\ UNCHANGED result
     \/ Timeouts /\ GiveUp(w)
  /\ seen' = [seen EXCEPT ![w] = None]
  /\ candidate' = [candidate EXCEPT ![w] = None]
  /\ UNCHANGED <<revision, base, alive, faults>>

-----------------------------------------------------------------------------
(* tryReclaimStaleLock                                                     *)

Inspect(w) ==
  /\ At(w, {"inspect"})
  /\ IF Here /\ Stale(owner[path], path \in expired)
       THEN /\ seen' = [seen EXCEPT ![w] = [dir |-> path, owner |-> owner[path]]]
            /\ Goto(w, "candidate") /\ UNCHANGED candidate /\ Stays
       ELSE Retry(w)
  /\ UNCHANGED lockDirectory

(* acquireReclaimClaim: the claim is written to a file of its own in the   *)
(* directory at the path, and linked to .reclaim.                          *)
WriteCandidate(w) ==
  /\ At(w, {"candidate"})
  /\ IF Here
       THEN /\ candidate' = [candidate EXCEPT ![w] = path]
            /\ Goto(w, "link") /\ UNCHANGED seen /\ Stays
       ELSE Retry(w)
  /\ UNCHANGED lockDirectory

(* Mutant: the claim replaces one that is there.                           *)
LinkFree_Always(w) == TRUE

(* link is exclusive.                                                      *)
LinkFree(w) == claim[path] = None

Link(w) ==
  /\ At(w, {"link", "relink"})
  /\ IF ~Here \/ path # candidate[w]
       THEN Retry(w) /\ UNCHANGED lockDirectory
     ELSE IF LinkFree(w)
       THEN /\ claim' = [claim EXCEPT ![path] =
                           [by |-> w, dir |-> seen[w].dir, owner |-> seen[w].owner]]
            /\ Goto(w, "confirm")
            /\ UNCHANGED <<path, owner, expired, Inspected>> /\ Stays
       ELSE /\ Goto(w, IF pc[w] = "link" THEN "sweep" ELSE "resweep")
            /\ UNCHANGED <<lockDirectory, Inspected>> /\ Stays

(* removeStaleMetadataFile on a claim that is in the way; it is tried      *)
(* twice, but the second time nothing is linked afterwards.                *)
Sweep(w) ==
  /\ At(w, {"sweep", "resweep"})
  /\ IF ClaimHere # None /\ ClaimHere.by \notin alive
       THEN /\ Goto(w, IF pc[w] = "sweep" THEN "sweep_rm" ELSE "resweep_rm")
            /\ UNCHANGED Inspected /\ Stays
       ELSE Retry(w)
  /\ UNCHANGED lockDirectory

SweepRm(w) ==
  /\ At(w, {"sweep_rm", "resweep_rm"}) /\ RemoveClaim
  /\ IF pc[w] = "sweep_rm" THEN Goto(w, "relink") /\ UNCHANGED Inspected /\ Stays
                           ELSE Retry(w)

(* Mutant: the directory is not compared with the one inspected before.    *)
SameLock_Any(w) == Here

(* Device and inode are those seen before.                                 *)
SameLock(w) == path = seen[w].dir

Confirm(w) ==
  /\ At(w, {"confirm"})
  /\ Goto(w, IF SameLock(w) /\ Stale(owner[path], seen[w].dir \in expired)
               THEN "token" ELSE "clean")
  /\ UNCHANGED <<lockDirectory, Inspected>> /\ Stays

CheckToken(w) ==
  /\ At(w, {"token"})
  /\ Goto(w, IF ClaimHere # None /\ ClaimHere.by = w THEN "rename" ELSE "clean")
  /\ UNCHANGED <<lockDirectory, Inspected>> /\ Stays

(* rename(lockPath, quarantine): the claim goes with the directory, so     *)
(* that nothing is left to clean; the next mkdir comes without a timeout.  *)
Rename(w) ==
  /\ At(w, {"rename"})
  /\ IF Here
       THEN /\ RemovePath /\ Goto(w, "mkdir")
            /\ seen' = [seen EXCEPT ![w] = None]
            /\ candidate' = [candidate EXCEPT ![w] = None]
       ELSE Goto(w, "clean") /\ UNCHANGED <<lockDirectory, Inspected>>
  /\ Stays

(* finally: removeFileIfTokenMatches(.reclaim)                             *)
Clean(w) ==
  /\ At(w, {"clean"})
  /\ IF ClaimHere # None /\ ClaimHere.by = w
       THEN Goto(w, "clean_rm") /\ UNCHANGED Inspected /\ Stays
       ELSE Retry(w)
  /\ UNCHANGED lockDirectory

CleanRm(w) == At(w, {"clean_rm"}) /\ Retry(w) /\ RemoveClaim

-----------------------------------------------------------------------------
(* saveRecord, under the lock                                              *)

Return(w, r) == Goto(w, "release") /\ result' = [result EXCEPT ![w] = r]

ReadRevision(w) ==
  /\ At(w, {"read"})
  /\ IF revision = base[w] THEN Goto(w, "write") /\ UNCHANGED result
                           ELSE Return(w, "conflict")
  /\ UNCHANGED <<lockDirectory, Inspected, revision, base, alive, faults>>

(* writeEnvelope: before or after the rename of the new file something may *)
(* fail.                                                                   *)
WriteRecord(w) ==
  /\ At(w, {"write"})
  /\ \/ revision' = base[w] + 1 /\ Return(w, "saved") /\ UNCHANGED faults
     \/ revision' \in {base[w] + 1, revision} /\ Return(w, "failed") /\ Fault("io")
  /\ UNCHANGED <<lockDirectory, Inspected, base, alive>>

-----------------------------------------------------------------------------
(* releaseOwnedLock                                                        *)

Release(w) ==
  /\ At(w, {"release"})
  /\ IF OwnerHere = w
       THEN /\ seen' = [seen EXCEPT ![w] = [dir |-> path, owner |-> w]]
            /\ Goto(w, "look")
       ELSE Goto(w, "done") /\ UNCHANGED seen
  /\ UNCHANGED <<lockDirectory, candidate>> /\ Stays

Look(w) ==
  /\ At(w, {"look"})
  /\ Goto(w, IF ClaimHere = None THEN "free" ELSE "judge")
  /\ UNCHANGED <<lockDirectory, Inspected>> /\ Stays

(* Whether the claim is for this lock; one that is gone by now is treated  *)
(* like one that is.                                                       *)
Judge(w) ==
  /\ At(w, {"judge"})
  /\ Goto(w, IF ClaimHere = None THEN "stale"
             ELSE IF ClaimHere.dir = seen[w].dir /\ ClaimHere.owner = w
               THEN "stale" ELSE "drop_rm")
  /\ UNCHANGED <<lockDirectory, Inspected>> /\ Stays

(* removeStaleMetadataFile; without a stale claim the lock is left.        *)
JudgeStale(w) ==
  /\ At(w, {"stale"})
  /\ Goto(w, IF ClaimHere # None /\ ClaimHere.by \notin alive THEN "stale_rm" ELSE "done")
  /\ UNCHANGED <<lockDirectory, Inspected>> /\ Stays

DropClaim(w) ==
  /\ At(w, {"drop_rm", "stale_rm"})
  /\ RemoveClaim /\ Goto(w, "free")
  /\ UNCHANGED Inspected /\ Stays

ConfirmOwner(w) ==
  /\ At(w, {"free"})
  /\ Goto(w, IF OwnerHere = w THEN "move" ELSE "done")
  /\ UNCHANGED <<lockDirectory, Inspected>> /\ Stays

MoveAway(w) ==
  /\ At(w, {"move"}) /\ RemovePath /\ Goto(w, "done")
  /\ UNCHANGED Inspected /\ Stays

-----------------------------------------------------------------------------
(* The process of a writer stops.                                          *)
Crash(w) ==
  /\ w \in alive /\ pc[w] # "load" /\ Fault("crash")
  /\ alive' = alive \ {w}
  /\ UNCHANGED <<lockDirectory, record, pc, Inspected>>

(* Time passes.  A live writer writes owner.json within the lease.         *)
Expire ==
  /\ Here /\ path \notin alive /\ path \notin expired
  /\ expired' = expired \cup {path}
  /\ UNCHANGED <<path, owner, claim, record, pc, Inspected, alive, faults>>

Step(w) ==
  \/ Load(w) \/ Mkdir(w) \/ WriteOwner(w) \/ Undo(w)
  \/ Inspect(w) \/ WriteCandidate(w) \/ Link(w) \/ Sweep(w) \/ SweepRm(w)
  \/ Confirm(w) \/ CheckToken(w) \/ Rename(w) \/ Clean(w) \/ CleanRm(w)
  \/ ReadRevision(w) \/ WriteRecord(w)
  \/ Release(w) \/ Look(w) \/ Judge(w) \/ JudgeStale(w) \/ DropClaim(w)
  \/ ConfirmOwner(w) \/ MoveAway(w)

Next == (\E w \in Writer : Step(w) \/ Crash(w)) \/ Expire

Spec == Init /\ [][Next]_vars

(* Pending calls of the file system return, and time passes.               *)
FairSpec == Spec /\ WF_vars(Expire) /\ \A w \in Writer : WF_vars(Step(w))

-----------------------------------------------------------------------------
TypeOK ==
  /\ path \in Writer \cup {None}
  /\ owner \in [Writer -> Writer \cup {None}]
  /\ claim \in [Writer -> Claim \cup {None}]
  /\ expired \subseteq Writer
  /\ revision \in Nat
  /\ base \in [Writer -> Nat \cup {None}]
  /\ result \in [Writer -> Register!Results]
  /\ pc \in [Writer -> PC]
  /\ seen \in [Writer -> Seen \cup {None}]
  /\ candidate \in [Writer -> Writer \cup {None}]
  /\ alive \subseteq Writer
  /\ faults \in 0..MaxFaults

(* At most one running writer is between taking the lock and giving it     *)
(* back (the lock directory, the reclaiming of a dead owner's one).  Four  *)
(* writers, two of which stop, can break it.                               *)
MutualExclusion ==
  \A v, w \in alive : pc[v] \in {"read", "write"} /\ pc[w] \in {"read", "write"} => v = w

(* To its users the store is a register with compare-and-set: no save is   *)
(* lost and none is done over a revision the writer did not load.          *)
SavesAreAtomic == Register!RegisterSpec

(* A release that meets the claim of another writer just as it is removed  *)
(* leaves the lock to a writer that runs on: nobody ever takes it for      *)
(* stale.  It needs three writers.                                         *)
LeftBehind == Here /\ \E w \in alive : owner[path] = w /\ pc[w] = "done"

(* Unless a lock was left behind, every save that is not given up returns, *)
(* also when the process that had the lock, or reclaimed it, stopped.      *)
SavesReturn ==
  \A w \in Writer : <>(w \notin alive \/ pc[w] = "done" \/ LeftBehind)
=============================================================================

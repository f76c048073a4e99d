----------------------------- MODULE AdaptiveLoop -----------------------------
(***************************************************************************)
(* The second half of the adaptive loop: continueCompletedLearningCycle    *)
(* takes the round prepared from a completed submission through the        *)
(* recoverable pipeline, activates the new session and tells Role D.  Its  *)
(* progress is an entry of the adaptive journal, advanced one revision per *)
(* checkpoint, under a lock directory of the file system.                  *)
(*                                                                         *)
(* A caller is a process with one call for the one execution key; a        *)
(* crashed process restarts under another pid, which gen counts.  Every    *)
(* await is a step: the file-system calls of the lock, the two halves of a *)
(* checkpoint (compare the stored revision, rename the new file over it)   *)
(* and the remote calls.  All processes are on one host.                   *)
(***************************************************************************)
EXTENDS Naturals, FiniteSets

CONSTANTS
  Caller,      \* processes that continue the submission
  Content,     \* reviewed releases a run of the pipeline may come to
  Refusal,     \* ends of the pipeline without a release: blocked, failed
  Operation,   \* recovery requests: evidence_refresh, path_planning
  None,
  CrashPoints, \* the environment: where a process may crash
  MaxCrashes,  \* bound: crashes of processes
  MaxFailures  \* bound: failed remote calls and unreadable secure pairs

ASSUME NoneAssumption == None \notin Content \cup Refusal \cup Operation
ASSUME OutcomeAssumption == Content \cap Refusal = {}
ASSUME BoundAssumption == MaxCrashes \in Nat /\ MaxFailures \in Nat

VARIABLES
  lock,      \* the lock directory, or None
  aside,     \* per caller: the directory it moved to quarantine
  seen,      \* per caller: the lock it judged stale
  journal,   \* the stored AdaptiveLearningLoopJournalEntry, or None
  entry,     \* per caller: the entry it works on
  next,      \* per caller: the entry it is about to save
  op,        \* per caller: the recovery request in hand
  pc,
  gen,       \* per process: its pid
  registered, \* releases with a registered run and an opened session
  announced,  \* releases, and refusals, Role D was told of
  answers,    \* final results callers have got
  crashes, failures

lockVars   == <<lock, aside, seen>>
callVars   == <<entry, next, op>>
remoteVars == <<registered, announced>>
faultVars  == <<crashes, failures>>
vars == <<lock, aside, seen, journal, entry, next, op, pc, gen,
          registered, announced, answers, crashes, failures>>

-----------------------------------------------------------------------------
Phase == {"STARTED", "GENERATED", "ACTIVATING", "ACTIVATED", "DELIVERING",
          "PUBLISHED", "TERMINAL_DELIVERING", "TERMINAL"}
Final == {"PUBLISHED", "TERMINAL"}

(* A lock directory: who made it, under which pid, whether owner.json is   *)
(* written, and whether the call it was made for has ended.                *)
Directory == [by : Caller, gen : 0..MaxCrashes, named : BOOLEAN, ended : BOOLEAN]

Entry == [rev : Nat, phase : Phase, generated : Content \cup {None},
          refusal : Refusal \cup {None},
          ops : [Operation -> {"none", "pending", "failed", "succeeded"}]]

ASSUME NoneIsNoRecord == None \notin Directory /\ None \notin Entry

Section == {"load", "replay", "restore", "run", "compare", "write", "call",
            "deliver", "answer"}
PC == {"idle", "down", "mkdir", "own", "move", "moved", "release", "remove"}
        \cup Section

Init ==
  /\ lock = None /\ journal = None
  /\ aside = [c \in Caller |-> None] /\ seen = [c \in Caller |-> None]
  /\ entry = [c \in Caller |-> None] /\ next = [c \in Caller |-> None]
  /\ op = [c \in Caller |-> None]
  /\ pc = [c \in Caller |-> "idle"] /\ gen = [c \in Caller |-> 0]
  /\ registered = {} /\ announced = {} /\ answers = {}
  /\ crashes = 0 /\ failures = 0

Goto(c, l) == pc' = [pc EXCEPT ![c] = l]

-----------------------------------------------------------------------------
(* The lock directory.                                                     *)

Own(c, d) == d # None /\ d.by = c /\ d.gen = gen[c] /\ d.named /\ ~d.ended

(* Mutant: only a directory without owner.json is ever reclaimed.          *)
Stale_Unnamed(d) == d # None /\ ~d.named /\ d.gen < gen[d.by]

(* A directory whose owner's pid is gone.  One without owner.json counts   *)
(* as stale by its age, which only a dead maker lets it reach.             *)
Stale(d) == d # None /\ d.gen < gen[d.by]

SameToken(d, e) == (~d.named /\ ~e.named) \/ d = e

(* A call has ended: its token will not come back.                         *)
Ended(c, d) ==
  IF d # None /\ ~Stale(d) /\ d.by = c THEN [d EXCEPT !.ended = TRUE] ELSE d

Forget(c) ==
  /\ entry' = [entry EXCEPT ![c] = None]
  /\ next' = [next EXCEPT ![c] = None]
  /\ op' = [op EXCEPT ![c] = None]

Leave(c, newLock) ==
  /\ lock' = Ended(c, newLock)
  /\ aside' = [b \in Caller |-> IF b = c THEN None ELSE Ended(c, aside[b])]
  /\ seen' = [seen EXCEPT ![c] = None]
  /\ Forget(c) /\ Goto(c, "idle")

(* A call whose round is prepared; one that is blocked or awaits input     *)
(* returns before it comes to the journal.                                 *)
Ask(c) ==
  /\ pc[c] = "idle" /\ Goto(c, "mkdir")
  /\ UNCHANGED <<lockVars, journal, callVars, gen, remoteVars, answers, faultVars>>

MakeDirectory(c) ==
  /\ pc[c] = "mkdir" /\ lock = None
  /\ lock' = [by |-> c, gen |-> gen[c], named |-> FALSE, ended |-> FALSE]
  /\ Goto(c, "own")
  /\ UNCHANGED <<aside, seen, journal, callVars, gen, remoteVars, answers, faultVars>>

(* writeFile(owner.json, "wx") goes to whatever directory has the name; if *)
(* it fails, the directory of that name is removed.                        *)
WriteOwner(c) ==
  /\ pc[c] = "own"
  /\ IF lock # None /\ ~lock.named
       THEN /\ lock' = [by |-> c, gen |-> gen[c], named |-> TRUE, ended |-> FALSE]
            /\ Goto(c, "load") /\ UNCHANGED <<aside, seen, callVars>>
       ELSE Leave(c, None)
  /\ UNCHANGED <<journal, gen, remoteVars, answers, faultVars>>

Inspect(c) ==
  /\ pc[c] = "mkdir" /\ Stale(lock)
  /\ seen' = [seen EXCEPT ![c] = lock] /\ Goto(c, "move")
  /\ UNCHANGED <<lock, aside, journal, callVars, gen, remoteVars, answers, faultVars>>

TimeOut(c) ==
  /\ pc[c] = "mkdir" /\ lock # None /\ ~Stale(lock)
  /\ Leave(c, lock)
  /\ UNCHANGED <<journal, gen, remoteVars, answers, faultVars>>

(* The rename takes the directory that has the name now.                   *)
MoveAway(c) ==
  /\ pc[c] = "move"
  /\ lock' = None /\ aside' = [aside EXCEPT ![c] = lock]
  /\ Goto(c, IF lock = None THEN "mkdir" ELSE "moved")
  /\ UNCHANGED <<seen, journal, callVars, gen, remoteVars, answers, faultVars>>

(* Another owner's directory is put back, unless a named one has taken the *)
(* place; an empty one is replaced.                                        *)
PutBack(c) ==
  IF ~SameToken(aside[c], seen[c]) /\ (lock = None \/ ~lock.named)
    THEN aside[c] ELSE lock

CheckMoved(c) ==
  /\ pc[c] = "moved"
  /\ lock' = PutBack(c)
  /\ aside' = [aside EXCEPT ![c] = None] /\ seen' = [seen EXCEPT ![c] = None]
  /\ Goto(c, "mkdir")
  /\ UNCHANGED <<journal, callVars, gen, remoteVars, answers, faultVars>>

(* releaseOwnedLock looks at the token, then removes by name.              *)
LookAtOwn(c) ==
  /\ pc[c] = "release"
  /\ IF Own(c, lock) THEN Goto(c, "remove") /\ UNCHANGED <<lockVars, callVars>>
                     ELSE Leave(c, lock)
  /\ UNCHANGED <<journal, gen, remoteVars, answers, faultVars>>

RemoveOwn(c) ==
  /\ pc[c] = "remove" /\ Leave(c, None)
  /\ UNCHANGED <<journal, gen, remoteVars, answers, faultVars>>

-----------------------------------------------------------------------------
(* The exclusive section.                                                  *)

(* The operation ends, with an answer or an error.                         *)
Quit(c) == Goto(c, "release") /\ UNCHANGED callVars

Answer(c, outcome) == answers' = answers \cup {outcome} /\ Quit(c)

(* An error of a remote call.                                              *)
Fails == failures < MaxFailures /\ failures' = failures + 1

Checkpoint(c, e, l) ==
  /\ next' = [next EXCEPT ![c] = [e EXCEPT !.rev = @ + 1]]
  /\ Goto(c, l)

(* No entry: the first one is saved with revision 0.                       *)
Load(c) ==
  /\ pc[c] = "load"
  /\ IF journal = None
       THEN /\ next' = [next EXCEPT ![c] =
                 [rev |-> 0, phase |-> "STARTED", generated |-> None,
                  refusal |-> None, ops |-> [o \in Operation |-> "none"]]]
            /\ Goto(c, "compare") /\ UNCHANGED entry
       ELSE /\ entry' = [entry EXCEPT ![c] = journal]
            /\ Goto(c, CASE journal.phase \in Final \cup {"TERMINAL_DELIVERING"}
                              -> "replay"
                         [] journal.generated # None -> "restore"
                         [] OTHER -> "run")
            /\ UNCHANGED next
  /\ UNCHANGED <<lockVars, journal, op, gen, remoteVars, answers, faultVars>>

(* assertRevision.                                                         *)
Fresh(c) ==
  IF entry[c] = None THEN journal = None
                     ELSE journal # None /\ journal.rev = entry[c].rev

Compare(c) ==
  /\ pc[c] = "compare"
  /\ IF Fresh(c) THEN Goto(c, "write") /\ UNCHANGED callVars ELSE Quit(c)
  /\ UNCHANGED <<lockVars, journal, gen, remoteVars, answers, faultVars>>

(* After the rename: on with the phase saved, with the recovery request    *)
(* that is pending, or out with a request that failed.                     *)
Write(c) ==
  /\ pc[c] = "write"
  /\ journal' = next[c] /\ entry' = [entry EXCEPT ![c] = next[c]]
  /\ next' = [next EXCEPT ![c] = None]
  /\ LET o == op[c]
     IN  /\ Goto(c, CASE o # None /\ next[c].ops[o] = "pending" -> "call"
                      [] o # None /\ next[c].ops[o] = "failed" -> "release"
                      [] next[c].phase \in Final -> "answer"
                      [] OTHER -> "run")
         /\ op' = [op EXCEPT ![c] =
              IF o # None /\ next[c].ops[o] = "pending" THEN o ELSE None]
  /\ UNCHANGED <<lockVars, gen, remoteVars, answers, faultVars>>

(* The final result of an entry.                                           *)
Result(e) == IF e.phase = "PUBLISHED" \/ e.phase = "DELIVERING"
               THEN e.generated ELSE e.refusal

(* A published result is answered only while its secure pair is readable.  *)
Replay(c) ==
  /\ pc[c] = "replay"
  /\ \/ /\ entry[c].phase \in Final
        /\ Answer(c, Result(entry[c])) /\ UNCHANGED failures
     \/ entry[c].phase = "PUBLISHED" /\ Fails /\ Quit(c) /\ UNCHANGED answers
     \/ /\ entry[c].phase = "TERMINAL_DELIVERING"
        /\ Goto(c, "run") /\ UNCHANGED <<callVars, answers, failures>>
  /\ UNCHANGED <<lockVars, journal, gen, remoteVars, crashes>>

(* Mutant: an activated release may be generated anew as well.             *)
MayRegenerate_Always(e) == TRUE

MayRegenerate(e) == e.phase = "GENERATED"

Anew(e) == [e EXCEPT !.phase = "STARTED", !.generated = None]

(* An unfinished execution with a release: the secure pair is read.  One   *)
(* that cannot be read is generated anew, unless activation has begun.     *)
Restore(c) ==
  /\ pc[c] = "restore"
  /\ \/ Goto(c, "run") /\ UNCHANGED <<callVars, failures>>
     \/ /\ Fails /\ MayRegenerate(entry[c])
        /\ Checkpoint(c, Anew(entry[c]), "compare")
        /\ UNCHANGED <<entry, op>>
     \/ Fails /\ ~MayRegenerate(entry[c]) /\ Quit(c)
  /\ UNCHANGED <<lockVars, journal, gen, remoteVars, answers, crashes>>

InPhase(c, phase) == pc[c] = "run" /\ entry[c].phase = phase

(* Mutant: a recorded answer of Role A or B is asked for again.            *)
Recorded_Never(c, o) == FALSE

Recorded(c, o) == entry[c].ops[o] = "succeeded"

(* The pipeline needs new evidence or a new path: the request is recorded  *)
(* as pending before it is made.                                           *)
Recover(c) ==
  /\ InPhase(c, "STARTED")
  /\ \E o \in Operation :
       /\ ~Recorded(c, o)
       /\ op' = [op EXCEPT ![c] = o]
       /\ Checkpoint(c, [entry[c] EXCEPT !.ops[o] = "pending"], "compare")
  /\ UNCHANGED <<lockVars, journal, entry, gen, remoteVars, answers, faultVars>>

Call(c) ==
  /\ pc[c] = "call"
  /\ \E status \in {"succeeded", "failed"} :
       /\ IF status = "failed" THEN Fails ELSE UNCHANGED failures
       /\ Checkpoint(c, [entry[c] EXCEPT !.ops[op[c]] = status], "compare")
  /\ UNCHANGED <<lockVars, journal, entry, op, gen, remoteVars, answers, crashes>>

(* The release and the context it was reviewed in, with their hashes.      *)
Generated(e, x) == [e EXCEPT !.phase = "GENERATED", !.generated = x]

(* The pipeline comes to a release, to a refusal, or to an error.          *)
Generate(c) ==
  /\ InPhase(c, "STARTED")
  /\ \/ /\ \E x \in Content : Checkpoint(c, Generated(entry[c], x), "compare")
        /\ UNCHANGED <<entry, op, failures>>
     \/ /\ \E r \in Refusal : Checkpoint(c,
             [entry[c] EXCEPT !.phase = "TERMINAL_DELIVERING", !.refusal = r], "compare")
        /\ UNCHANGED <<entry, op, failures>>
     \/ Fails /\ Quit(c)
  /\ UNCHANGED <<lockVars, journal, gen, remoteVars, answers, crashes>>

(* Phases that only announce what comes next.                              *)
Announce(c) ==
  /\ \/ /\ InPhase(c, "GENERATED")
        /\ Checkpoint(c, [entry[c] EXCEPT !.phase = "ACTIVATING"], "compare")
     \/ /\ InPhase(c, "ACTIVATED")
        /\ Checkpoint(c, [entry[c] EXCEPT !.phase = "DELIVERING"], "compare")
  /\ UNCHANGED <<lockVars, journal, entry, op, gen, remoteVars, answers, faultVars>>

(* A remote call takes effect and returns, or is lost with its effect or   *)
(* without.                                                                *)
Remote(c, e) ==
  \/ Checkpoint(c, e, "compare") /\ UNCHANGED <<entry, op, failures>>
  \/ Fails /\ Quit(c)

(* registerReadyRun and openAnchorFirstSession.                            *)
Activate(c) ==
  /\ InPhase(c, "ACTIVATING")
  /\ Remote(c, [entry[c] EXCEPT !.phase = "ACTIVATED"])
  /\ registered' \in {registered \cup {entry[c].generated}} \cup
                     (IF pc'[c] = "release" THEN {registered} ELSE {})
  /\ UNCHANGED <<lockVars, journal, gen, announced, answers, crashes>>

Tell(c) ==
  announced' \in {announced \cup {Result(entry[c])}} \cup
                 (IF pc'[c] = "release" THEN {announced} ELSE {})

(* The reviewed release and the learning session go to Role D.             *)
Deliver(c) ==
  /\ InPhase(c, "DELIVERING")
  /\ Remote(c, [entry[c] EXCEPT !.phase = "PUBLISHED"]) /\ Tell(c)
  /\ UNCHANGED <<lockVars, journal, gen, registered, answers, crashes>>

DeliverRefusal(c) ==
  /\ InPhase(c, "TERMINAL_DELIVERING")
  /\ Remote(c, [entry[c] EXCEPT !.phase = "TERMINAL"]) /\ Tell(c)
  /\ UNCHANGED <<lockVars, journal, gen, registered, answers, crashes>>

Return(c) ==
  /\ pc[c] = "answer"
  /\ Answer(c, Result(entry[c]))
  /\ UNCHANGED <<lockVars, journal, gen, remoteVars, faultVars>>

-----------------------------------------------------------------------------
Crash(c) ==
  /\ pc[c] \in CrashPoints \ {"down"} /\ crashes < MaxCrashes
  /\ crashes' = crashes + 1 /\ gen' = [gen EXCEPT ![c] = @ + 1]
  /\ aside' = [aside EXCEPT ![c] = None] /\ seen' = [seen EXCEPT ![c] = None]
  /\ Forget(c) /\ Goto(c, "down")
  /\ UNCHANGED <<lock, journal, remoteVars, answers, failures>>

Restart(c) ==
  /\ pc[c] = "down" /\ Goto(c, "idle")
  /\ UNCHANGED <<lockVars, journal, callVars, gen, remoteVars, answers, faultVars>>

Proceed(c) ==
  \/ Ask(c) \/ MakeDirectory(c) \/ WriteOwner(c) \/ Inspect(c) \/ MoveAway(c)
  \/ CheckMoved(c) \/ LookAtOwn(c) \/ RemoveOwn(c) \/ Load(c) \/ Compare(c)
  \/ Write(c) \/ Replay(c) \/ Restore(c) \/ Recover(c) \/ Call(c)
  \/ Generate(c) \/ Announce(c) \/ Activate(c) \/ Deliver(c)
  \/ DeliverRefusal(c) \/ Return(c)
  \/ Restart(c)

Next == \E c \in Caller : Proceed(c) \/ TimeOut(c) \/ Crash(c)

Spec == Init /\ [][Next]_vars

(* A started call goes on, a stopped process is started again, and the     *)
(* client asks again as long as it has no final answer.                    *)
FairSpec == Spec /\ \A c \in Caller : WF_vars(Proceed(c))

-----------------------------------------------------------------------------
TypeOK ==
  /\ lock \in Directory \cup {None} /\ journal \in Entry \cup {None}
  /\ aside \in [Caller -> Directory \cup {None}]
  /\ seen \in [Caller -> Directory \cup {None}]
  /\ entry \in [Caller -> Entry \cup {None}] /\ next \in [Caller -> Entry \cup {None}]
  /\ op \in [Caller -> Operation \cup {None}] /\ pc \in [Caller -> PC]
  /\ gen \in [Caller -> 0..MaxCrashes]
  /\ registered \subseteq Content /\ announced \subseteq Content \cup Refusal
  /\ answers \subseteq Content \cup Refusal
  /\ crashes \in 0..MaxCrashes /\ failures \in 0..MaxFailures

(* What AdaptiveLearningLoopJournal says of withExclusive: at most one     *)
(* caller works under the key's lock.  Two calls that found the same stale *)
(* lock break it: the later rename takes the lock of a call that is at     *)
(* work, and a third call finds none (adaptive-learning-loop-journal.ts:   *)
(* 331).                                                                   *)
Exclusive == \A c, d \in Caller : pc[c] \in Section /\ pc[d] \in Section => c = d

(* One submission leads to one round: whatever crashes and repeated calls  *)
(* there were, Role D hears of one outcome, and every caller is answered   *)
(* that one.  It hears of it only when the journal knows it, and of a      *)
(* release only when its run is registered and its session open.           *)
AnnouncedIsJournaled ==
  /\ Cardinality(registered) <= 1 /\ Cardinality(announced \cup answers) <= 1
  /\ \A x \in announced :
       /\ journal.generated = x \/ journal.refusal = x
       /\ x \in Content =>
            x \in registered /\ journal.phase \in {"DELIVERING", "PUBLISHED"}

(* A recovery request whose answer is recorded keeps it, also when the     *)
(* round is generated anew, and is not made again.                         *)
RecoveryAskedOnce ==
  [][\A o \in Operation : \A c \in Caller :
       journal # None /\ journal.ops[o] = "succeeded" =>
         /\ journal'.ops[o] = "succeeded"
         /\ ~(pc'[c] = "call" /\ op'[c] = o)]_vars

(* The execution as the abstract outcome of one round.                     *)
Decision ==
  IF journal = None THEN None
  ELSE IF journal.phase \in {"STARTED", "GENERATED"} THEN None
  ELSE IF journal.generated # None THEN journal.generated ELSE journal.refusal
Closed == journal # None /\ journal.phase \in Final

Outcome == INSTANCE RoundOutcome WITH decision <- Decision, closed <- Closed

(* Once activation begins, or a refusal is recorded, the outcome stays.    *)
ImplementsOutcome == Outcome!OutcomeSpec

(* The lock of a call that has ended, of a process that still runs: put    *)
(* back after its owner had looked for it.                                 *)
LockLeftBehind == lock # None /\ lock.ended /\ ~Stale(lock)

(* A started execution is published or refused in the end, unless a lock   *)
(* is left behind that nobody may reclaim.                                 *)
ExecutionEnds ==
  journal # None ~> (Closed \/ LockLeftBehind)
=============================================================================

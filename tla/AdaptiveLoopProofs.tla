------------------------- MODULE AdaptiveLoopProofs -------------------------
(***************************************************************************)
(* Proofs about AdaptiveLoop, in two steps.  While at most one call is in  *)
(* the section at a time, the journal implements RoundOutcome, Role D and  *)
(* the callers are told one outcome, and no recovery is asked for twice,   *)
(* whatever calls fail and wherever processes crash.  And at most one call *)
(* is in the section as long as no two calls reclaim a stale lock at the   *)
(* same time, for any number of processes, wherever and however often they *)
(* crash, and however slow each call of the file system is.  (Without that *)
(* the lock does not exclude: see Exclusive.)                              *)
(***************************************************************************)
EXTENDS AdaptiveLoop, FiniteSetTheorems, TLAPS

USE NoneAssumption, OutcomeAssumption, BoundAssumption, NoneIsNoRecord

(* Where a call has not read the journal yet.                              *)
Outside == {"idle", "down", "mkdir", "own", "move", "moved", "load"}

Generating == {"GENERATED", "ACTIVATING", "ACTIVATED", "DELIVERING", "PUBLISHED"}
Refusing == {"TERMINAL_DELIVERING", "TERMINAL"}

(* An entry has the result its phase says.                                 *)
Shaped(e) ==
  /\ e.phase = "STARTED" => e.generated = None /\ e.refusal = None
  /\ e.phase \in Generating => e.generated \in Content /\ e.refusal = None
  /\ e.phase \in Refusing => e.generated = None /\ e.refusal \in Refusal

(* The phase that follows without a new result.                            *)
Successors == {<<"GENERATED", "ACTIVATING">>, <<"ACTIVATING", "ACTIVATED">>,
               <<"ACTIVATED", "DELIVERING">>, <<"DELIVERING", "PUBLISHED">>,
               <<"TERMINAL_DELIVERING", "TERMINAL">>}

(* What a checkpoint may make of an entry.                                 *)
Follows(e, f) ==
  /\ \/ e.phase = "STARTED" /\ f.phase \in {"STARTED", "GENERATED", "TERMINAL_DELIVERING"}
     \/ e.phase = "GENERATED" /\ f.phase = "STARTED"
     \/ /\ <<e.phase, f.phase>> \in Successors
        /\ f.generated = e.generated /\ f.refusal = e.refusal
  /\ \A o \in Operation : e.ops[o] = "succeeded" => f.ops[o] = "succeeded"

(* What a call knows in which stage.                                       *)
CallInv(c) ==
  /\ pc[c] \in Outside => entry[c] = None /\ next[c] = None /\ op[c] = None
  /\ pc[c] \in {"compare", "write"} =>
       /\ next[c] # None /\ Shaped(next[c])
       /\ entry[c] = None => next[c].phase = "STARTED" /\ op[c] = None
       /\ entry[c] # None => Follows(entry[c], next[c])
       /\ next[c].phase = "ACTIVATED" => next[c].generated \in registered
       /\ op[c] # None => next[c].phase = "STARTED"
  /\ pc[c] \in {"replay", "restore", "run", "call", "answer"} =>
       entry[c] # None /\ Shaped(entry[c])
  /\ pc[c] \in {"replay", "restore", "run", "answer"} => op[c] = None
  /\ pc[c] = "replay" => entry[c].phase \in Final \cup {"TERMINAL_DELIVERING"}
  /\ pc[c] = "answer" => entry[c].phase \in Final
  /\ pc[c] = "call" => /\ op[c] # None /\ entry[c].ops[op[c]] = "pending"
                       /\ entry[c].phase = "STARTED"

Inv == /\ TypeOK
       /\ \A c \in Caller : gen[c] <= crashes /\ CallInv(c)
       /\ journal # None => Shaped(journal)

LEMMA InitInv == Init => Inv
BY DEF Init, Inv, TypeOK, CallInv, Outside, PC

-----------------------------------------------------------------------------
(* Entries.                                                                *)

(* Advancing the revision leaves everything else.                          *)
Advanced(e) == [e EXCEPT !.rev = @ + 1]

LEMMA AdvancedEntry ==
  ASSUME NEW e \in Entry
  PROVE  /\ Advanced(e) \in Entry
         /\ Advanced(e).phase = e.phase /\ Advanced(e).generated = e.generated
         /\ Advanced(e).refusal = e.refusal /\ Advanced(e).ops = e.ops
BY DEF Advanced, Entry

(* An answered request changes one operation.                              *)
Answered(e, o, status) == [e EXCEPT !.ops[o] = status]

LEMMA Phased ==
  ASSUME NEW e \in Entry, NEW phase \in Phase
  PROVE  LET f == [e EXCEPT !.phase = phase] IN
         /\ f \in Entry /\ f.phase = phase /\ f.generated = e.generated
         /\ f.refusal = e.refusal /\ f.ops = e.ops
BY DEF Entry

LEMMA GeneratedEntry ==
  ASSUME NEW e \in Entry, NEW x \in Content
  PROVE  LET f == Generated(e, x) IN
         /\ f \in Entry /\ f.phase = "GENERATED" /\ f.generated = x
         /\ f.refusal = e.refusal /\ f.ops = e.ops
BY DEF Generated, Entry, Phase

LEMMA RefusedEntry ==
  ASSUME NEW e \in Entry, NEW r \in Refusal
  PROVE  LET f == [e EXCEPT !.phase = "TERMINAL_DELIVERING", !.refusal = r] IN
         /\ f \in Entry /\ f.phase = "TERMINAL_DELIVERING" /\ f.generated = e.generated
         /\ f.refusal = r /\ f.ops = e.ops
BY DEF Entry, Phase

LEMMA AnewEntry ==
  ASSUME NEW e \in Entry
  PROVE  LET f == Anew(e) IN
         /\ f \in Entry /\ f.phase = "STARTED" /\ f.generated = None
         /\ f.refusal = e.refusal /\ f.ops = e.ops
BY DEF Anew, Entry, Phase

(* An execution that has no result yet takes the status of a request it    *)
(* has no recorded answer of.                                              *)
LEMMA RequestFollows ==
  ASSUME NEW e \in Entry, Shaped(e), e.phase = "STARTED", NEW o \in Operation,
         e.ops[o] # "succeeded", NEW status \in {"pending", "failed", "succeeded"}
  PROVE  /\ Answered(e, o, status) \in Entry /\ Answered(e, o, status).phase = "STARTED"
         /\ Shaped(Answered(e, o, status)) /\ Follows(e, Answered(e, o, status))
<1> DEFINE f == Answered(e, o, status)
<1>1. /\ f \in Entry /\ f.phase = "STARTED" /\ f.generated = e.generated
      /\ f.refusal = e.refusal /\ f.ops = [e.ops EXCEPT ![o] = status]
  BY DEF Answered, Entry
<1>2. e.ops \in [Operation -> {"none", "pending", "failed", "succeeded"}]
  BY DEF Entry
<1> HIDE DEF f
<1>3. \A p \in Operation : e.ops[p] = "succeeded" => f.ops[p] = "succeeded"
  BY <1>1, <1>2
<1>4. Shaped(f)
  BY <1>1 DEF Shaped, Generating, Refusing
<1>5. Follows(e, f)
  BY <1>1, <1>3 DEF Follows
<1> QED BY <1>1, <1>4, <1>5 DEF f

LEMMA EndedDirectory ==
  ASSUME NEW c, NEW d \in Directory \cup {None}
  PROVE  Ended(c, d) \in Directory \cup {None}
BY DEF Ended, Directory

-----------------------------------------------------------------------------
(* Steps.                                                                  *)

Step(c) == Proceed(c) \/ TimeOut(c) \/ Crash(c)

(* The other calls are not touched, and a registered run stays.            *)
Frame(c) ==
  /\ registered \subseteq registered'
  /\ \A d \in Caller : d # c => /\ pc'[d] = pc[d] /\ entry'[d] = entry[d]
                                /\ next'[d] = next[d] /\ op'[d] = op[d]

LEMMA OthersKeep ==
  ASSUME Inv, NEW c \in Caller, Frame(c), NEW d \in Caller, d # c
  PROVE  CallInv(d)'
<1>1. CallInv(d)
  BY DEF Inv
<1>2. /\ pc'[d] = pc[d] /\ entry'[d] = entry[d] /\ next'[d] = next[d] /\ op'[d] = op[d]
      /\ registered \subseteq registered'
  BY DEF Frame
<1> QED BY <1>1, <1>2 DEF CallInv, Shaped, Follows

(* The end of a call.                                                      *)
LEMMA LeaveStep ==
  ASSUME Inv, NEW c \in Caller, NEW l \in Directory \cup {None}, Leave(c, l)
  PROVE  /\ lock' \in Directory \cup {None} /\ aside' \in [Caller -> Directory \cup {None}]
         /\ seen' \in [Caller -> Directory \cup {None}]
         /\ entry' \in [Caller -> Entry \cup {None}] /\ next' \in [Caller -> Entry \cup {None}]
         /\ op' \in [Caller -> Operation \cup {None}] /\ pc' \in [Caller -> PC]
         /\ registered \subseteq registered' => Frame(c)
         /\ CallInv(c)'
<1> USE DEF Inv, TypeOK
<1>1. lock' \in Directory \cup {None}
  BY EndedDirectory DEF Leave
<1>2. aside' \in [Caller -> Directory \cup {None}]
  BY EndedDirectory DEF Leave
<1>3. seen' \in [Caller -> Directory \cup {None}]
  BY DEF Leave
<1>4. /\ entry' = [entry EXCEPT ![c] = None] /\ next' = [next EXCEPT ![c] = None]
      /\ op' = [op EXCEPT ![c] = None] /\ pc' = [pc EXCEPT ![c] = "idle"]
  BY DEF Leave, Forget, Goto
<1>5. CallInv(c)'
  BY <1>4 DEF CallInv, Outside
<1>6. registered \subseteq registered' => Frame(c)
  BY <1>4 DEF Frame
<1> QED BY <1>1, <1>2, <1>3, <1>4, <1>5, <1>6 DEF PC

(* A checkpoint is on its way.                                             *)
LEMMA CheckpointStep ==
  ASSUME Inv, NEW c \in Caller, NEW e \in Entry, Checkpoint(c, e, "compare"),
         pc[c] \in {"restore", "run", "call"}, entry' = entry,
         op' \in [Caller -> Operation \cup {None}],
         \A d \in Caller : d # c => op'[d] = op[d],
         op'[c] # None => e.phase = "STARTED",
         Shaped(e), Follows(entry[c], e), registered \subseteq registered',
         e.phase = "ACTIVATED" => e.generated \in registered'
  PROVE  /\ next' \in [Caller -> Entry \cup {None}] /\ pc' \in [Caller -> PC]
         /\ pc'[c] = "compare" /\ next'[c].phase = e.phase
         /\ Frame(c) /\ CallInv(c)'
<1> USE DEF Inv, TypeOK
<1> DEFINE f == Advanced(e)
<1>1. next' = [next EXCEPT ![c] = f] /\ pc' = [pc EXCEPT ![c] = "compare"]
  BY DEF Checkpoint, Goto, Advanced
<1>2. /\ f \in Entry /\ f.phase = e.phase /\ f.generated = e.generated
      /\ f.refusal = e.refusal /\ f.ops = e.ops
  BY AdvancedEntry
<1> HIDE DEF f
<1>3. next' \in [Caller -> Entry \cup {None}] /\ pc' \in [Caller -> PC]
  BY <1>1, <1>2 DEF PC, Section
<1>4. next'[c] = f /\ pc'[c] = "compare" /\ entry'[c] = entry[c]
  BY <1>1
<1>5. entry[c] # None /\ f # None
  BY <1>2 DEF CallInv
<1>6. Shaped(f) /\ Follows(entry[c], f)
  BY <1>2 DEF Shaped, Follows
<1>7. CallInv(c)'
  BY <1>2, <1>4, <1>5, <1>6 DEF CallInv, Outside, Shaped, Follows
<1>8. Frame(c)
  BY <1>1 DEF Frame
<1> QED BY <1>2, <1>3, <1>4, <1>7, <1>8

(* An operation that ends without a checkpoint.                            *)
LEMMA QuitStep ==
  ASSUME Inv, NEW c \in Caller, Quit(c), registered \subseteq registered'
  PROVE  /\ pc' \in [Caller -> PC] /\ pc'[c] = "release" /\ UNCHANGED callVars
         /\ Frame(c) /\ CallInv(c)'
<1> USE DEF Inv, TypeOK
<1>1. pc' = [pc EXCEPT ![c] = "release"] /\ UNCHANGED callVars
  BY DEF Quit, Goto
<1> QED BY <1>1 DEF PC, Frame, CallInv, Outside, callVars

(* What is shown of every step.                                            *)
Kept(c) ==
  /\ TypeOK' /\ Frame(c) /\ CallInv(c)'
  /\ \A d \in Caller : gen'[d] <= crashes'
  /\ journal' # None => Shaped(journal')

LEMMA LockStep ==
  ASSUME Inv, NEW c \in Caller,
         \/ Ask(c) \/ MakeDirectory(c) \/ WriteOwner(c) \/ Inspect(c) \/ MoveAway(c)
         \/ CheckMoved(c) \/ LookAtOwn(c) \/ RemoveOwn(c) \/ TimeOut(c)
         \/ Crash(c) \/ Restart(c)
  PROVE  Kept(c)
<1> USE DEF Inv, TypeOK
<1>0. CallInv(c)
  OBVIOUS
<1>1. CASE Ask(c) \/ Restart(c)
  BY <1>1, <1>0 DEF Ask, Restart, Goto, Kept, Frame, CallInv, Outside, PC, lockVars,
     callVars, remoteVars, faultVars
<1>2. CASE MakeDirectory(c)
  <2>1. lock' \in Directory
    BY <1>2 DEF MakeDirectory, Directory
  <2> QED BY <1>2, <2>1, <1>0 DEF MakeDirectory, Goto, Kept, Frame, CallInv, Outside, PC,
     callVars, remoteVars, faultVars
<1>3. CASE WriteOwner(c)
  <2>1. CASE lock # None /\ ~lock.named
    <3>1. lock' \in Directory
      <4>1. lock' = [by |-> c, gen |-> gen[c], named |-> TRUE, ended |-> FALSE]
        BY <1>3, <2>1 DEF WriteOwner
      <4>2. gen[c] \in 0..MaxCrashes
        OBVIOUS
      <4> QED BY <4>1, <4>2 DEF Directory
    <3> QED BY <1>3, <2>1, <3>1, <1>0 DEF WriteOwner, Goto, Kept, Frame, CallInv, Outside,
       PC, Section, callVars, remoteVars, faultVars
  <2>2. CASE ~(lock # None /\ ~lock.named)
    <3>1. Leave(c, None) /\ UNCHANGED <<journal, gen, remoteVars, answers, faultVars>>
      BY <1>3, <2>2 DEF WriteOwner
    <3> QED BY <3>1, LeaveStep DEF Kept, remoteVars, faultVars
  <2> QED BY <2>1, <2>2
<1>4. CASE Inspect(c)
  BY <1>4, <1>0 DEF Inspect, Stale, Goto, Kept, Frame, CallInv, Outside, PC,
     callVars, remoteVars, faultVars
<1>5. CASE MoveAway(c)
  BY <1>5, <1>0 DEF MoveAway, Goto, Kept, Frame, CallInv, Outside, PC,
     callVars, remoteVars, faultVars
<1>6. CASE CheckMoved(c)
  <2>1. PutBack(c) \in Directory \cup {None}
    BY DEF PutBack
  <2> QED BY <1>6, <2>1, <1>0 DEF CheckMoved, Goto, Kept, Frame, CallInv, Outside, PC,
     callVars, remoteVars, faultVars
<1>7. CASE LookAtOwn(c)
  <2>1. CASE Own(c, lock)
    BY <1>7, <2>1, <1>0 DEF LookAtOwn, Goto, Kept, Frame, CallInv, Outside, PC,
       lockVars, callVars, remoteVars, faultVars
  <2>2. CASE ~Own(c, lock)
    <3>1. Leave(c, lock) /\ UNCHANGED <<journal, gen, remoteVars, answers, faultVars>>
      BY <1>7, <2>2 DEF LookAtOwn
    <3> QED BY <3>1, LeaveStep DEF Kept, remoteVars, faultVars
  <2> QED BY <2>1, <2>2
<1>8. CASE RemoveOwn(c)
  <2>1. Leave(c, None) /\ UNCHANGED <<journal, gen, remoteVars, answers, faultVars>>
    BY <1>8 DEF RemoveOwn
  <2> QED BY <2>1, LeaveStep DEF Kept, remoteVars, faultVars
<1>9. CASE TimeOut(c)
  <2>1. Leave(c, lock) /\ UNCHANGED <<journal, gen, remoteVars, answers, faultVars>>
    BY <1>9 DEF TimeOut
  <2> QED BY <2>1, LeaveStep DEF Kept, remoteVars, faultVars
<1>10. CASE Crash(c)
  <2>1. /\ crashes < MaxCrashes /\ crashes' = crashes + 1 /\ gen' = [gen EXCEPT ![c] = @ + 1]
    BY <1>10 DEF Crash
  <2>2. gen' \in [Caller -> 0..MaxCrashes] /\ \A d \in Caller : gen'[d] <= crashes'
    BY <2>1
  <2> QED BY <1>10, <2>1, <2>2, <1>0 DEF Crash, Forget, Goto, Kept, Frame, CallInv, Outside, PC,
     remoteVars
<1> QED BY <1>1, <1>2, <1>3, <1>4, <1>5, <1>6, <1>7, <1>8, <1>9, <1>10

LEMMA SectionStep ==
  ASSUME Inv, NEW c \in Caller,
         \/ Load(c) \/ Compare(c) \/ Write(c) \/ Replay(c) \/ Restore(c) \/ Recover(c)
         \/ Call(c) \/ Generate(c) \/ Announce(c) \/ Activate(c) \/ Deliver(c)
         \/ DeliverRefusal(c) \/ Return(c)
  PROVE  Kept(c)
<1> USE DEF Inv, TypeOK
<1>0. CallInv(c)
  OBVIOUS
<1>a. Fails => failures' \in 0..MaxFailures
  BY DEF Fails
<1>1. CASE Load(c)
  <2>0. /\ pc[c] = "load" /\ UNCHANGED <<lockVars, journal, op, gen, remoteVars, answers, faultVars>>
        /\ entry[c] = None /\ op[c] = None
    BY <1>1, <1>0 DEF Load, CallInv, Outside
  <2>1. CASE journal = None
    <3> DEFINE first == [rev |-> 0, phase |-> "STARTED", generated |-> None,
                         refusal |-> None, ops |-> [o \in Operation |-> "none"]]
    <3>1. /\ first \in Entry /\ first.phase = "STARTED" /\ first.generated = None
          /\ first.refusal = None
      BY DEF Entry, Phase
    <3>2. /\ next' = [next EXCEPT ![c] = first] /\ pc' = [pc EXCEPT ![c] = "compare"]
          /\ UNCHANGED entry
      BY <1>1, <2>1 DEF Load, Goto
    <3> HIDE DEF first
    <3>3. CallInv(c)'
      BY <2>0, <3>1, <3>2 DEF CallInv, Outside, Shaped, Generating, Refusing
    <3>4. Frame(c)
      BY <2>0, <3>2 DEF Frame, remoteVars
    <3> QED BY <2>0, <3>1, <3>2, <3>3, <3>4 DEF Kept, PC, Section, lockVars, remoteVars, faultVars
  <2>2. CASE journal # None
    <3> DEFINE l == CASE journal.phase \in Final \cup {"TERMINAL_DELIVERING"} -> "replay"
                      [] journal.generated # None -> "restore"
                      [] OTHER -> "run"
    <3>1. /\ entry' = [entry EXCEPT ![c] = journal] /\ UNCHANGED next
          /\ pc' = [pc EXCEPT ![c] = l]
      BY <1>1, <2>2 DEF Load, Goto
    <3>2. /\ l \in {"replay", "restore", "run"}
          /\ l = "replay" => journal.phase \in Final \cup {"TERMINAL_DELIVERING"}
      OBVIOUS
    <3> HIDE DEF l
    <3>3. CallInv(c)'
      BY <2>0, <2>2, <3>1, <3>2 DEF CallInv, Outside
    <3>4. Frame(c)
      BY <2>0, <3>1 DEF Frame, remoteVars
    <3> QED BY <2>0, <2>2, <3>1, <3>2, <3>3, <3>4 DEF Kept, PC, Section, lockVars, remoteVars, faultVars
  <2> QED BY <2>1, <2>2
<1>2. CASE Compare(c)
  <2>1. CASE Fresh(c)
    BY <1>2, <2>1, <1>0 DEF Compare, Goto, Kept, Frame, CallInv, Outside, PC, Section,
       lockVars, callVars, remoteVars, faultVars
  <2>2. CASE ~Fresh(c)
    BY <1>2, <2>2, QuitStep DEF Compare, Kept, lockVars, callVars, remoteVars, faultVars
  <2> QED BY <2>1, <2>2
<1>3. CASE Write(c)
  <2> DEFINE o == op[c]
             f == next[c]
             l == CASE o # None /\ f.ops[o] = "pending" -> "call"
                    [] o # None /\ f.ops[o] = "failed" -> "release"
                    [] f.phase \in Final -> "answer"
                    [] OTHER -> "run"
             p == IF o # None /\ f.ops[o] = "pending" THEN o ELSE None
  <2>1. /\ pc[c] = "write" /\ journal' = f /\ entry' = [entry EXCEPT ![c] = f]
        /\ next' = [next EXCEPT ![c] = None] /\ pc' = [pc EXCEPT ![c] = l]
        /\ op' = [op EXCEPT ![c] = p]
        /\ UNCHANGED <<lockVars, gen, remoteVars, answers, faultVars>>
    BY <1>3 DEF Write, Goto
  <2>2. /\ f \in Entry /\ f # None /\ Shaped(f) /\ o \in Operation \cup {None}
        /\ o # None => f.phase = "STARTED"
    BY <2>1, <1>0 DEF CallInv
  <2>3. /\ l \in {"call", "release", "answer", "run"} /\ p \in Operation \cup {None}
        /\ l = "call" => p = o /\ p # None /\ f.ops[p] = "pending" /\ f.phase = "STARTED"
        /\ l # "call" => p = None
        /\ l = "answer" => f.phase \in Final
    BY <2>2 DEF Final
  <2> HIDE DEF o, f, l, p
  <2>4. CallInv(c)'
    BY <2>1, <2>2, <2>3 DEF CallInv, Outside
  <2>5. Frame(c)
    BY <2>1 DEF Frame, remoteVars
  <2> QED BY <2>1, <2>2, <2>3, <2>4, <2>5 DEF Kept, PC, Section, lockVars, remoteVars, faultVars
<1>4. CASE Replay(c)
  <2>0. /\ pc[c] = "replay" /\ entry[c] \in Entry /\ Shaped(entry[c])
        /\ UNCHANGED <<lockVars, journal, gen, remoteVars, crashes>>
    BY <1>4, <1>0 DEF Replay, CallInv
  <2>1. CASE entry[c].phase \in Final /\ Answer(c, Result(entry[c])) /\ UNCHANGED failures
    <3>1. Result(entry[c]) \in Content \cup Refusal
      BY <2>0, <2>1 DEF Result, Shaped, Final, Generating, Refusing
    <3> QED BY <2>0, <2>1, <3>1, QuitStep DEF Answer, Kept, lockVars, callVars, remoteVars
  <2>2. CASE Fails /\ Quit(c) /\ UNCHANGED answers
    BY <2>0, <2>2, <1>a, QuitStep DEF Kept, lockVars, callVars, remoteVars
  <2>3. CASE /\ entry[c].phase = "TERMINAL_DELIVERING"
             /\ Goto(c, "run") /\ UNCHANGED <<callVars, answers, failures>>
    BY <2>0, <2>3, <1>0 DEF Goto, Kept, Frame, CallInv, Outside, PC, Section,
       lockVars, callVars, remoteVars
  <2> QED BY <1>4, <2>1, <2>2, <2>3 DEF Replay
<1>5. CASE Restore(c)
  <2>0. /\ pc[c] = "restore" /\ entry[c] \in Entry /\ Shaped(entry[c]) /\ op[c] = None
        /\ UNCHANGED <<lockVars, journal, gen, remoteVars, answers, crashes>>
    BY <1>5, <1>0 DEF Restore, CallInv
  <2>1. CASE Goto(c, "run") /\ UNCHANGED <<callVars, failures>>
    BY <2>0, <2>1, <1>0 DEF Goto, Kept, Frame, CallInv, Outside, PC, Section,
       lockVars, callVars, remoteVars
  <2>2. CASE Fails /\ MayRegenerate(entry[c]) /\ Checkpoint(c, Anew(entry[c]), "compare")
             /\ UNCHANGED <<entry, op>>
    <3>1. LET f == Anew(entry[c]) IN
          /\ f \in Entry /\ f.phase = "STARTED" /\ f.generated = None
          /\ f.refusal = entry[c].refusal /\ f.ops = entry[c].ops
      BY <2>0, AnewEntry
    <3>2. Shaped(Anew(entry[c])) /\ Follows(entry[c], Anew(entry[c]))
      BY <2>0, <2>2, <3>1 DEF Shaped, Follows, MayRegenerate, Generating, Refusing
    <3> QED BY <2>0, <2>2, <3>1, <3>2, <1>a, CheckpointStep DEF Kept, lockVars, remoteVars
  <2>3. CASE Fails /\ Quit(c)
    BY <2>0, <2>3, <1>a, QuitStep DEF Kept, lockVars, callVars, remoteVars
  <2> QED BY <1>5, <2>1, <2>2, <2>3 DEF Restore
<1>6. CASE Recover(c)
  <2>0. /\ pc[c] = "run" /\ entry[c] \in Entry /\ Shaped(entry[c]) /\ entry[c].phase = "STARTED"
        /\ UNCHANGED <<lockVars, journal, entry, gen, remoteVars, answers, faultVars>>
    BY <1>6, <1>0 DEF Recover, InPhase, CallInv
  <2>1. PICK o \in Operation :
          /\ entry[c].ops[o] # "succeeded" /\ op' = [op EXCEPT ![c] = o]
          /\ Checkpoint(c, [entry[c] EXCEPT !.ops[o] = "pending"], "compare")
    BY <1>6 DEF Recover, Recorded
  <2> DEFINE f == Answered(entry[c], o, "pending")
  <2>2. f \in Entry /\ f.phase = "STARTED" /\ Shaped(f) /\ Follows(entry[c], f)
    BY <2>0, <2>1, RequestFollows
  <2>3. Checkpoint(c, f, "compare")
    BY <2>1 DEF Answered
  <2> HIDE DEF f
  <2>6. op' \in [Caller -> Operation \cup {None}] /\ \A d \in Caller : d # c => op'[d] = op[d]
    BY <2>1
  <2> QED BY <2>0, <2>2, <2>3, <2>6, CheckpointStep DEF Kept, lockVars, remoteVars, faultVars
<1>7. CASE Call(c)
  <2>0. /\ pc[c] = "call" /\ entry[c] \in Entry /\ Shaped(entry[c]) /\ entry[c].phase = "STARTED"
        /\ op[c] \in Operation /\ entry[c].ops[op[c]] = "pending"
        /\ UNCHANGED <<lockVars, journal, entry, op, gen, remoteVars, answers, crashes>>
    BY <1>7, <1>0 DEF Call, CallInv
  <2>1. PICK status \in {"succeeded", "failed"} :
          /\ IF status = "failed" THEN Fails ELSE UNCHANGED failures
          /\ Checkpoint(c, [entry[c] EXCEPT !.ops[op[c]] = status], "compare")
    BY <1>7 DEF Call
  <2> DEFINE f == Answered(entry[c], op[c], status)
  <2>2. f \in Entry /\ f.phase = "STARTED" /\ Shaped(f) /\ Follows(entry[c], f)
    <3>1. entry[c].ops[op[c]] # "succeeded" /\ op[c] \in Operation /\ entry[c] \in Entry
      BY <2>0
    <3>2. status \in {"pending", "failed", "succeeded"}
      OBVIOUS
    <3> QED BY <2>0, <3>1, <3>2, RequestFollows
  <2>3. Checkpoint(c, f, "compare") /\ failures' \in 0..MaxFailures
    BY <2>1, <1>a DEF Answered
  <2> HIDE DEF f
  <2> QED BY <2>0, <2>2, <2>3, CheckpointStep DEF Kept, lockVars, remoteVars
<1>8. CASE Generate(c)
  <2>0. /\ pc[c] = "run" /\ entry[c] \in Entry /\ Shaped(entry[c]) /\ entry[c].phase = "STARTED"
        /\ op[c] = None
        /\ UNCHANGED <<lockVars, journal, gen, remoteVars, answers, crashes>>
    BY <1>8, <1>0 DEF Generate, InPhase, CallInv
  <2>1. ASSUME NEW x \in Content, Checkpoint(c, Generated(entry[c], x), "compare"),
               UNCHANGED <<entry, op, failures>>
        PROVE  Kept(c)
    <3>1. LET f == Generated(entry[c], x) IN
          /\ f \in Entry /\ f.phase = "GENERATED" /\ f.generated = x
          /\ f.refusal = entry[c].refusal /\ f.ops = entry[c].ops
      BY <2>0, GeneratedEntry
    <3>2. Shaped(Generated(entry[c], x)) /\ Follows(entry[c], Generated(entry[c], x))
      BY <2>0, <3>1 DEF Shaped, Follows, Generating, Refusing
    <3> QED BY <2>0, <2>1, <3>1, <3>2, CheckpointStep DEF Kept, lockVars, remoteVars
  <2>2. ASSUME NEW r \in Refusal, UNCHANGED <<entry, op, failures>>,
               Checkpoint(c, [entry[c] EXCEPT !.phase = "TERMINAL_DELIVERING", !.refusal = r],
                          "compare")
        PROVE  Kept(c)
    <3> DEFINE f == [entry[c] EXCEPT !.phase = "TERMINAL_DELIVERING", !.refusal = r]
    <3>1. /\ f \in Entry /\ f.phase = "TERMINAL_DELIVERING" /\ f.generated = entry[c].generated
          /\ f.refusal = r /\ f.ops = entry[c].ops
      BY <2>0, RefusedEntry
    <3>2. Checkpoint(c, f, "compare")
      BY <2>2
    <3> HIDE DEF f
    <3>3. Shaped(f) /\ Follows(entry[c], f)
      BY <2>0, <3>1 DEF Shaped, Follows, Generating, Refusing
    <3> QED BY <2>0, <2>2, <3>1, <3>2, <3>3, CheckpointStep DEF Kept, lockVars, remoteVars
  <2>3. CASE Fails /\ Quit(c)
    BY <2>0, <2>3, <1>a, QuitStep DEF Kept, lockVars, callVars, remoteVars
  <2> QED BY <1>8, <2>1, <2>2, <2>3 DEF Generate
<1>9. ASSUME NEW phase \in Phase, Checkpoint(c, [entry[c] EXCEPT !.phase = phase], "compare"),
             pc[c] = "run", <<entry[c].phase, phase>> \in Successors,
             UNCHANGED <<entry, op>>, registered \subseteq registered',
             phase = "ACTIVATED" => entry[c].generated \in registered'
      PROVE  /\ next' \in [Caller -> Entry \cup {None}] /\ pc' \in [Caller -> PC]
             /\ Frame(c) /\ CallInv(c)'
  <2>0. entry[c] \in Entry /\ Shaped(entry[c]) /\ op[c] = None
    BY <1>9, <1>0 DEF CallInv
  <2> DEFINE f == [entry[c] EXCEPT !.phase = phase]
  <2>1. /\ f \in Entry /\ f.phase = phase /\ f.generated = entry[c].generated
        /\ f.refusal = entry[c].refusal /\ f.ops = entry[c].ops
    BY <2>0, Phased
  <2>2. Checkpoint(c, f, "compare")
    BY <1>9
  <2> HIDE DEF f
  <2>3. Shaped(f) /\ Follows(entry[c], f)
    BY <1>9, <2>0, <2>1 DEF Shaped, Follows, Generating, Refusing, Successors
  <2> QED BY <1>9, <2>0, <2>1, <2>2, <2>3, CheckpointStep
<1>b. {"ACTIVATING", "DELIVERING", "ACTIVATED", "PUBLISHED", "TERMINAL"} \subseteq Phase
  BY DEF Phase
<1>10. CASE Announce(c)
  <2>0. UNCHANGED <<lockVars, journal, entry, op, gen, remoteVars, answers, faultVars>>
    BY <1>10 DEF Announce
  <2> QED BY <1>10, <2>0, <1>9, <1>b DEF Announce, InPhase, Successors, Kept, lockVars, remoteVars, faultVars
<1>11. CASE Activate(c)
  <2>0. /\ pc[c] = "run" /\ entry[c].phase = "ACTIVATING"
        /\ entry[c].generated \in Content
        /\ UNCHANGED <<lockVars, journal, gen, announced, answers, crashes>>
        /\ registered' \in {registered \cup {entry[c].generated}} \cup
                           (IF pc'[c] = "release" THEN {registered} ELSE {})
    BY <1>11, <1>0 DEF Activate, InPhase, CallInv, Shaped, Generating
  <2>1. registered \subseteq registered' /\ registered' \subseteq Content
    BY <2>0
  <2>2. CASE /\ Checkpoint(c, [entry[c] EXCEPT !.phase = "ACTIVATED"], "compare")
             /\ UNCHANGED <<entry, op, failures>>
    <3>1. pc'[c] # "release"
      BY <2>2 DEF Checkpoint, Goto
    <3>2. entry[c].generated \in registered'
      BY <2>0, <3>1
    <3> QED BY <2>0, <2>1, <2>2, <3>2, <1>9, <1>b DEF Successors, Kept, lockVars
  <2>3. CASE Fails /\ Quit(c)
    BY <2>0, <2>1, <2>3, <1>a, QuitStep DEF Kept, lockVars, callVars
  <2> QED BY <1>11, <2>2, <2>3 DEF Activate, Remote
<1>12. CASE Deliver(c) \/ DeliverRefusal(c)
  <2>0. /\ pc[c] = "run" /\ entry[c].phase \in {"DELIVERING", "TERMINAL_DELIVERING"}
        /\ Result(entry[c]) \in Content \cup Refusal
        /\ UNCHANGED <<lockVars, journal, gen, registered, answers, crashes>> /\ Tell(c)
    BY <1>12, <1>0 DEF Deliver, DeliverRefusal, InPhase, CallInv, Shaped, Generating, Refusing, Result
  <2>1. announced' \subseteq Content \cup Refusal
    BY <2>0 DEF Tell
  <2>2. CASE Fails /\ Quit(c)
    BY <2>0, <2>1, <2>2, <1>a, QuitStep DEF Kept, lockVars, callVars
  <2>3. ASSUME NEW phase \in {"PUBLISHED", "TERMINAL"}, <<entry[c].phase, phase>> \in Successors,
               Checkpoint(c, [entry[c] EXCEPT !.phase = phase], "compare"),
               UNCHANGED <<entry, op, failures>>
        PROVE  Kept(c)
    BY <2>0, <2>1, <2>3, <1>9, <1>b DEF Kept, lockVars
  <2>4. CASE Deliver(c)
    BY <2>4, <2>2, <2>3 DEF Deliver, Remote, InPhase, Successors
  <2>5. CASE DeliverRefusal(c)
    BY <2>5, <2>2, <2>3 DEF DeliverRefusal, Remote, InPhase, Successors
  <2> QED BY <1>12, <2>4, <2>5
<1>13. CASE Return(c)
  <2>0. /\ pc[c] = "answer" /\ Answer(c, Result(entry[c]))
        /\ UNCHANGED <<lockVars, journal, gen, remoteVars, faultVars>>
    BY <1>13 DEF Return
  <2>1. Result(entry[c]) \in Content \cup Refusal
    BY <2>0, <1>0 DEF Result, CallInv, Shaped, Final, Generating, Refusing
  <2> QED BY <2>0, <2>1, QuitStep DEF Answer, Kept, lockVars, callVars, remoteVars, faultVars
<1> QED BY <1>1, <1>2, <1>3, <1>4, <1>5, <1>6, <1>7, <1>8, <1>10, <1>11, <1>12, <1>13

LEMMA StepInv ==
  ASSUME Inv, NEW c \in Caller, Step(c)
  PROVE  Inv' /\ Frame(c)
<1>1. Kept(c)
  BY LockStep, SectionStep DEF Step, Proceed
<1>2. \A d \in Caller : d # c => CallInv(d)'
  BY <1>1, OthersKeep DEF Kept
<1> QED BY <1>1, <1>2 DEF Kept, Inv

LEMMA NextInv == Inv /\ [Next]_vars => Inv'
<1> SUFFICES ASSUME Inv, [Next]_vars PROVE Inv'
  OBVIOUS
<1>1. ASSUME NEW c \in Caller, Step(c) PROVE Inv'
  BY <1>1, StepInv
<1>2. CASE UNCHANGED vars
  BY <1>2 DEF vars, Inv, TypeOK, CallInv, Shaped, Follows
<1> QED BY <1>1, <1>2 DEF Next, Step

(* Whatever the processes, the answers of remote calls and the crashes:    *)
(* every variable keeps its type.                                          *)
THEOREM TypesHold == Spec => []TypeOK
<1>1. Inv => TypeOK
  BY DEF Inv
<1> QED BY <1>1, InitInv, NextInv, PTL DEF Spec

-----------------------------------------------------------------------------
(* One call at a time: what it works on is what is stored.                 *)

Current == \A c \in Caller : pc[c] \in Section \ {"load"} => entry[c] = journal

(* An activated round is registered, and whatever was registered, told or  *)
(* answered is what the round was decided to be.                           *)
Registered ==
  journal # None /\ journal.phase \in {"ACTIVATED", "DELIVERING", "PUBLISHED"}
    => journal.generated \in registered
Told ==
  /\ \A x \in registered \cup announced \cup answers : Decision = x
  /\ \A x \in announced \cap Content :
       x \in registered /\ journal.phase \in {"DELIVERING", "PUBLISHED"}

Sole == Current /\ Registered /\ Told

LEMMA InitSole == Init => Sole
BY DEF Init, Sole, Current, Registered, Told, Section

(* Only a checkpoint changes the journal, and it follows what is stored.   *)
LEMMA JournalStep ==
  ASSUME Inv, Current, NEW c \in Caller, Step(c)
  PROVE  \/ UNCHANGED journal
         \/ /\ Write(c) /\ journal' = next[c] /\ journal' # None /\ Shaped(journal')
            /\ journal' \in Entry
            /\ journal = None => journal'.phase = "STARTED"
            /\ journal # None => Follows(journal, journal')
            /\ journal'.phase = "ACTIVATED" => journal'.generated \in registered
<1>1. CASE Write(c)
  <2>1. pc[c] = "write" /\ journal' = next[c]
    BY <1>1 DEF Write
  <2>2. entry[c] = journal
    BY <2>1 DEF Current, Section
  <2>3. next[c] \in Entry
    BY <2>1 DEF Inv, CallInv, TypeOK
  <2> QED BY <1>1, <2>1, <2>2, <2>3 DEF Inv, CallInv
<1>2. CASE ~Write(c)
  BY <1>2 DEF Step, Proceed, Ask, MakeDirectory, WriteOwner, Inspect, TimeOut, MoveAway,
     CheckMoved, LookAtOwn, RemoveOwn, Load, Compare, Replay, Restore, Recover, Call, Generate,
     Announce, Activate, Deliver, DeliverRefusal, Return, Crash, Restart
<1> QED BY <1>1, <1>2

LEMMA StepCurrent ==
  ASSUME Inv, Current, Exclusive, NEW c \in Caller, Step(c)
  PROVE  Current'
<1> USE DEF Inv, TypeOK, Current
<1>1. Frame(c)
  BY StepInv
<1>2. CASE Write(c)
  <2>1. /\ pc[c] = "write" /\ journal' = next[c] /\ entry' = [entry EXCEPT ![c] = next[c]]
        /\ \A d \in Caller : d # c => pc'[d] = pc[d]
    BY <1>1, <1>2 DEF Write, Frame
  <2>2. \A d \in Caller : d # c => pc[d] \notin Section
    BY <2>1 DEF Exclusive, Section
  <2> QED BY <2>1, <2>2
<1>3. CASE ~Write(c)
  <2>1. UNCHANGED journal
    BY <1>3, JournalStep
  <2>2. pc'[c] \in Section \ {"load"} => entry'[c] = journal
    <3>1. CASE \/ Ask(c) \/ MakeDirectory(c) \/ Inspect(c) \/ MoveAway(c)
               \/ CheckMoved(c) \/ RemoveOwn(c) \/ TimeOut(c) \/ Crash(c) \/ Restart(c)
      BY <3>1 DEF Ask, MakeDirectory, Inspect, MoveAway, CheckMoved, RemoveOwn, TimeOut,
         Crash, Restart, Leave, Goto, Section
    <3>2. CASE WriteOwner(c) \/ LookAtOwn(c)
      BY <3>2 DEF WriteOwner, LookAtOwn, Leave, Goto, Section
    <3>3. CASE Load(c)
      BY <3>3 DEF Load, Goto, Section, CallInv, Outside
    <3>4. CASE Compare(c) \/ Replay(c) \/ Return(c)
      BY <3>4 DEF Compare, Replay, Return, Answer, Quit, Goto, Section, callVars
    <3>5. CASE Restore(c) \/ Recover(c) \/ Call(c) \/ Generate(c) \/ Announce(c)
      BY <3>5 DEF Restore, Recover, Call, Generate, Announce, InPhase, Checkpoint, Quit, Goto,
         Section, callVars
    <3>6. CASE Activate(c) \/ Deliver(c) \/ DeliverRefusal(c)
      BY <3>6 DEF Activate, Deliver, DeliverRefusal, Remote, InPhase, Checkpoint, Quit, Goto,
         Section, callVars
    <3> QED BY <1>3, <3>1, <3>2, <3>3, <3>4, <3>5, <3>6 DEF Step, Proceed
  <2> QED BY <1>1, <2>1, <2>2 DEF Frame
<1> QED BY <1>2, <1>3

(* What may be registered, told or answered in a step.                     *)
LEMMA Sayings ==
  ASSUME Inv, Current, NEW c \in Caller, Step(c)
  PROVE  \/ UNCHANGED <<registered, announced, answers>>
         \/ /\ Activate(c) /\ UNCHANGED <<announced, answers, journal>>
            /\ journal # None /\ Shaped(journal) /\ journal.phase = "ACTIVATING"
            /\ registered' \subseteq registered \cup {journal.generated}
         \/ /\ UNCHANGED <<registered, answers, journal>>
            /\ journal # None /\ Shaped(journal)
            /\ journal.phase \in {"DELIVERING", "TERMINAL_DELIVERING"}
            /\ announced' \subseteq announced \cup {Result(journal)}
         \/ /\ UNCHANGED <<registered, announced, journal>>
            /\ journal # None /\ Shaped(journal) /\ journal.phase \in Final
            /\ answers' = answers \cup {Result(journal)}
<1>0. /\ CallInv(c) /\ pc[c] \in PC
      /\ pc[c] \in Section \ {"load"} => entry[c] = journal
  BY DEF Inv, TypeOK, Current
<1>1. CASE Activate(c)
  <2>1. pc[c] = "run" /\ entry[c].phase = "ACTIVATING" /\ UNCHANGED <<announced, answers, journal>>
    BY <1>1 DEF Activate, InPhase
  <2>2. registered' \subseteq registered \cup {entry[c].generated}
    BY <1>1 DEF Activate
  <2> QED BY <1>0, <1>1, <2>1, <2>2 DEF CallInv, Section
<1>2. CASE Deliver(c) \/ DeliverRefusal(c)
  <2>1. /\ pc[c] = "run" /\ entry[c].phase \in {"DELIVERING", "TERMINAL_DELIVERING"}
        /\ UNCHANGED <<registered, answers, journal>>
        /\ announced' \subseteq announced \cup {Result(entry[c])}
    BY <1>2 DEF Deliver, DeliverRefusal, InPhase, Tell
  <2> QED BY <1>0, <2>1 DEF CallInv, Section
<1>3. CASE Replay(c) \/ Return(c)
  <2>1. /\ pc[c] \in {"replay", "answer"} /\ UNCHANGED <<registered, announced, journal>>
        /\ \/ UNCHANGED answers
           \/ entry[c].phase \in Final /\ answers' = answers \cup {Result(entry[c])}
    BY <1>0, <1>3 DEF Replay, Return, Answer, remoteVars, CallInv
  <2> QED BY <1>0, <2>1 DEF CallInv, Section
<1>4. CASE ~(Activate(c) \/ Deliver(c) \/ DeliverRefusal(c) \/ Replay(c) \/ Return(c))
  BY <1>4 DEF Step, Proceed, Ask, MakeDirectory, WriteOwner, Inspect, TimeOut, MoveAway,
     CheckMoved, LookAtOwn, RemoveOwn, Load, Compare, Write, Restore, Recover, Call, Generate,
     Announce, Crash, Restart, remoteVars
<1> QED BY <1>1, <1>2, <1>3, <1>4

(* A decided round stays decided.                                          *)
LEMMA DecisionStep ==
  ASSUME Inv, Current, NEW c \in Caller, Step(c)
  PROVE  /\ Decision # None => Decision' = Decision
         /\ Decision' \in Content \cup Refusal \cup {None}
         /\ Closed => Closed' /\ Decision # None
         /\ ~Closed /\ Closed' => Decision # None
<1>0. journal # None => Shaped(journal) /\ journal \in Entry
  BY DEF Inv, TypeOK
<1>1. CASE UNCHANGED journal
  BY <1>0, <1>1 DEF Decision, Closed, Shaped, Entry, Phase, Generating, Refusing, Final
<1>2. CASE /\ Write(c) /\ journal' = next[c] /\ journal' # None /\ Shaped(journal')
           /\ journal' \in Entry
           /\ journal = None => journal'.phase = "STARTED"
           /\ journal # None => Follows(journal, journal')
  <2>1. CASE journal = None
    BY <1>2, <2>1 DEF Decision, Closed, Final
  <2>2. CASE journal # None
    <3> DEFINE e == journal
               f == journal'
    <3>1. /\ e \in Entry /\ f \in Entry /\ Shaped(e) /\ Shaped(f) /\ Follows(e, f)
          /\ e # None /\ f # None
      BY <1>0, <1>2, <2>2
    <3>2. \/ e.phase = "STARTED" /\ f.phase \in {"STARTED", "GENERATED", "TERMINAL_DELIVERING"}
          \/ e.phase = "GENERATED" /\ f.phase = "STARTED"
          \/ <<e.phase, f.phase>> \in Successors /\ f.generated = e.generated /\ f.refusal = e.refusal
      BY <3>1 DEF Follows
    <3> QED BY <3>1, <3>2 DEF Decision, Closed, Shaped, Generating, Refusing, Final, Successors
  <2> QED BY <2>1, <2>2
<1> QED BY <1>1, <1>2, JournalStep

LEMMA StepSole ==
  ASSUME Inv, Sole, Exclusive, NEW c \in Caller, Step(c)
  PROVE  Sole'
<1> USE DEF Sole
<1>1. Current'
  BY StepCurrent
<1>2. registered \subseteq registered'
  BY StepInv DEF Frame
<1>3. Registered'
  <2>1. CASE UNCHANGED journal
    BY <1>2, <2>1 DEF Registered
  <2>2. CASE ~UNCHANGED journal
    <3>1. /\ journal' # None /\ journal = None => journal'.phase = "STARTED"
      BY <2>2, JournalStep
    <3>2. /\ journal # None => Follows(journal, journal')
          /\ journal'.phase = "ACTIVATED" => journal'.generated \in registered
      BY <2>2, JournalStep
    <3>3. CASE journal = None
      BY <2>2, <3>3, JournalStep DEF Registered
    <3>4. CASE journal # None
      BY <1>2, <3>2, <3>4 DEF Registered, Follows, Successors
    <3> QED BY <3>3, <3>4
  <2> QED BY <2>1, <2>2
<1>4. \A x \in registered' \cup announced' \cup answers' : Decision' = x
  <2>1. CASE UNCHANGED <<registered, announced, answers>>
    <3> SUFFICES ASSUME NEW x \in registered \cup announced \cup answers PROVE Decision' = x
      BY <2>1
    <3>1. x # None /\ Decision = x
      BY DEF Told, Inv, TypeOK
    <3> QED BY <3>1, DecisionStep
  <2>2. CASE ~UNCHANGED <<registered, announced, answers>>
    <3>1. /\ UNCHANGED journal /\ journal # None /\ Shaped(journal)
          /\ journal.phase \in {"ACTIVATING", "DELIVERING", "TERMINAL_DELIVERING", "PUBLISHED", "TERMINAL"}
          /\ \A x \in registered' \cup announced' \cup answers' :
               \/ x \in registered \cup announced \cup answers
               \/ journal.phase # "ACTIVATING" /\ x = Result(journal)
               \/ journal.phase = "ACTIVATING" /\ x = journal.generated
      BY <2>2, Sayings DEF Final
    <3>2. /\ Decision' = Decision
          /\ journal.phase # "ACTIVATING" => Decision = Result(journal)
          /\ journal.phase = "ACTIVATING" => Decision = journal.generated
      BY <3>1 DEF Decision, Result, Shaped, Generating, Refusing
    <3> QED BY <3>1, <3>2, <2>2, Sayings DEF Told, Final
  <2> QED BY <2>1, <2>2
<1>5. ASSUME NEW x \in announced' \cap Content
      PROVE  x \in registered' /\ journal'.phase \in {"DELIVERING", "PUBLISHED"}
  <2>1. CASE x \in announced
    <3>1. x \in registered /\ journal.phase \in {"DELIVERING", "PUBLISHED"} /\ Decision = x
      BY <2>1, <1>5 DEF Told
    <3>2. journal # None
      BY <3>1, <1>5 DEF Decision
    <3>3. CASE UNCHANGED journal
      BY <1>2, <3>1, <3>3
    <3>4. CASE ~UNCHANGED journal
      <4>1. Follows(journal, journal')
        BY <3>2, <3>4, JournalStep
      <4> QED BY <1>2, <3>1, <4>1 DEF Follows, Successors
    <3> QED BY <3>3, <3>4
  <2>2. CASE x \notin announced
    <3>1. /\ UNCHANGED <<journal, registered>> /\ journal # None /\ Shaped(journal)
          /\ journal.phase \in {"DELIVERING", "TERMINAL_DELIVERING"} /\ x = Result(journal)
      BY <1>5, <2>2, Sayings
    <3>2. journal.phase = "DELIVERING" /\ x = journal.generated
      BY <1>5, <3>1 DEF Result, Shaped, Refusing
    <3> QED BY <3>1, <3>2 DEF Registered
  <2> QED BY <2>1, <2>2
<1> QED BY <1>1, <1>3, <1>4, <1>5 DEF Told

LEMMA NextSole == Inv /\ Sole /\ Exclusive /\ [Next]_vars => Sole'
<1> SUFFICES ASSUME Inv, Sole, Exclusive, [Next]_vars PROVE Sole'
  OBVIOUS
<1>1. ASSUME NEW c \in Caller, Step(c) PROVE Sole'
  BY <1>1, StepSole
<1>2. CASE UNCHANGED vars
  BY <1>2 DEF vars, Sole, Current, Registered, Told, Decision
<1> QED BY <1>1, <1>2 DEF Next, Step

LEMMA SoleHolds == Spec /\ []Exclusive => [](Inv /\ Sole)
BY InitInv, NextInv, InitSole, NextSole, PTL DEF Spec

LEMMA OutcomeStep ==
  Inv /\ Sole /\ Exclusive /\ [Next]_vars
    => [Outcome!Decide \/ Outcome!Close]_(Outcome!outcomeVars)
<1> SUFFICES ASSUME Inv, Sole, Exclusive, [Next]_vars
             PROVE  [Outcome!Decide \/ Outcome!Close]_(Outcome!outcomeVars)
  OBVIOUS
<1> USE DEF Outcome!Decide, Outcome!Close, Outcome!outcomeVars
<1>1. ASSUME NEW c \in Caller, Step(c)
      PROVE  [Outcome!Decide \/ Outcome!Close]_(Outcome!outcomeVars)
  <2>1. /\ Decision # None => Decision' = Decision
        /\ Decision' \in Content \cup Refusal \cup {None}
        /\ Closed => Closed' /\ Decision # None
        /\ ~Closed /\ Closed' => Decision # None
    BY <1>1, DecisionStep DEF Sole
  <2>2. Closed \in BOOLEAN /\ Closed' \in BOOLEAN
    BY DEF Closed
  <2> QED BY <2>1, <2>2
<1>2. CASE UNCHANGED vars
  BY <1>2 DEF vars, Decision, Closed
<1> QED BY <1>1, <1>2 DEF Next, Step

(* continueCompletedLearningCycle, asked by any number of processes that   *)
(* may crash anywhere: while the lock admits one at a time, the round is   *)
(* decided once, as one release or one refusal, and closed once.           *)
THEOREM OutcomeImplemented == Spec /\ []Exclusive => ImplementsOutcome
<1>1. Init => Outcome!OutcomeInit
  BY DEF Init, Outcome!OutcomeInit, Decision, Closed
<1> QED BY <1>1, SoleHolds, OutcomeStep, PTL DEF Spec, ImplementsOutcome, Outcome!OutcomeSpec

(* While the lock admits one at a time: one run is registered, Role D and  *)
(* the callers hear of one outcome, and Role D of a release only when its  *)
(* run is registered and its session open.                                 *)
THEOREM OneOutcomeTold == Spec /\ []Exclusive => []AnnouncedIsJournaled
<1>1. Inv /\ Sole => AnnouncedIsJournaled
  <2> SUFFICES ASSUME Inv, Sole PROVE AnnouncedIsJournaled
    OBVIOUS
  <2>1. ASSUME NEW S, \A x \in S : Decision = x
        PROVE  Cardinality(S) <= 1
    <3>1. /\ IsFiniteSet({Decision}) /\ Cardinality({Decision}) = 1
          /\ S \subseteq {Decision}
      BY <2>1, FS_Singleton
    <3>2. Cardinality(S) <= Cardinality({Decision})
      BY <3>1, FS_Subset
    <3> QED BY <3>1, <3>2
  <2>2. Cardinality(registered) <= 1 /\ Cardinality(announced \cup answers) <= 1
    <3>1. /\ \A x \in registered : Decision = x
          /\ \A x \in announced \cup answers : Decision = x
      BY DEF Sole, Told
    <3> QED BY <2>1, <3>1
  <2>3. ASSUME NEW x \in announced
        PROVE  journal.generated = x \/ journal.refusal = x
    <3>1. Decision = x /\ x # None
      BY DEF Sole, Told, Inv, TypeOK
    <3> QED BY <3>1 DEF Decision
  <2> QED BY <2>2, <2>3 DEF AnnouncedIsJournaled, Sole, Told
<1> QED BY <1>1, SoleHolds, PTL

(* While the lock admits one at a time: a recovery request that Role A or  *)
(* B has answered keeps its answer and is not made again.                  *)
THEOREM RecoveryNotRepeated == Spec /\ []Exclusive => RecoveryAskedOnce
<1> DEFINE Once == \A o \in Operation : \A c \in Caller :
             journal # None /\ journal.ops[o] = "succeeded" =>
               /\ journal'.ops[o] = "succeeded"
               /\ ~(pc'[c] = "call" /\ op'[c] = o)
<1>1. Inv /\ Sole /\ [Next]_vars => [Once]_vars
  <2> SUFFICES ASSUME Inv, Sole, NEW d \in Caller, Step(d),
                      NEW o \in Operation, NEW c \in Caller,
                      journal # None, journal.ops[o] = "succeeded"
               PROVE  /\ journal'.ops[o] = "succeeded"
                      /\ ~(pc'[c] = "call" /\ op'[c] = o)
    BY DEF Next, Step
  <2>1. journal'.ops[o] = "succeeded"
    <3>1. UNCHANGED journal \/ Follows(journal, journal')
      BY JournalStep DEF Sole
    <3> QED BY <3>1 DEF Follows
  <2>2. CASE c # d
    <3>1. pc'[c] = pc[c] /\ op'[c] = op[c]
      BY <2>2, StepInv DEF Frame
    <3>2. CallInv(c) /\ (pc[c] = "call" => entry[c] = journal)
      BY DEF Inv, Sole, Current, Section
    <3> QED BY <2>1, <3>1, <3>2 DEF CallInv
  <2>3. CASE c = d /\ Write(c)
    <3>1. pc[c] = "write" /\ entry[c] = journal /\ CallInv(c) /\ pc \in [Caller -> PC]
          /\ op \in [Caller -> Operation \cup {None}]
      BY <2>3 DEF Write, Inv, TypeOK, Sole, Current, Section
    <3>2. next[c].ops[o] = "succeeded"
      BY <3>1 DEF CallInv, Follows
    <3>3. pc'[c] = "call" => op[c] # None /\ next[c].ops[op[c]] = "pending" /\ op'[c] = op[c]
      BY <2>3, <3>1 DEF Write, Goto
    <3> QED BY <2>1, <3>2, <3>3
  <2>4. CASE c = d /\ ~Write(c)
    <3>1. pc \in [Caller -> PC]
      BY DEF Inv, TypeOK
    <3>2. pc'[c] # "call"
      BY <2>4, <3>1 DEF Step, Proceed, Ask, MakeDirectory, WriteOwner, Inspect, TimeOut, MoveAway,
         CheckMoved, LookAtOwn, RemoveOwn, Load, Compare, Replay, Restore, Recover, Call, Generate,
         Announce, Activate, Deliver, DeliverRefusal, Return, Crash, Restart, Leave, Quit, Answer,
         Remote, Checkpoint, Goto
    <3> QED BY <2>1, <3>2
  <2> QED BY <2>2, <2>3, <2>4
<1> QED BY <1>1, SoleHolds, PTL DEF Spec, RecoveryAskedOnce

-----------------------------------------------------------------------------
(* One call at a time, as long as no two calls reclaim at the same time.   *)

(* The environment: of the calls that found a lock stale, only one is      *)
(* about to move it away.  The code does not see to that.                  *)
OneReclaims == \A c, d \in Caller : pc[c] = "move" /\ pc[d] = "move" => c = d

Holding == Section \cup {"own", "release", "remove"}

Mine(c, named) == [by |-> c, gen |-> gen[c], named |-> named, ended |-> FALSE]

(* The directory is the holder's, under the holder's present pid.  What a  *)
(* call judged stale is stale, and what it moved away is what it judged.   *)
Placed(c) ==
  /\ pc[c] = "own" => lock = Mine(c, FALSE)
  /\ pc[c] \in Holding \ {"own"} => lock = Mine(c, TRUE)
  /\ pc[c] \in {"move", "moved"} => Stale(seen[c])
  /\ pc[c] = "move" => lock = seen[c]
  /\ pc[c] = "moved" => aside[c] = seen[c]

Held == pc[lock.by] \in Holding /\ lock.gen = gen[lock.by]

Orderly == (\A c \in Caller : Placed(c)) /\ (lock # None => Held \/ Stale(lock))

LEMMA MineIs ==
  ASSUME Inv, NEW c \in Caller, NEW n \in BOOLEAN
  PROVE  /\ Mine(c, n) \in Directory /\ Mine(c, n) # None
         /\ Mine(c, n).by = c /\ Mine(c, n).gen = gen[c]
         /\ Mine(c, n).named = n /\ Mine(c, n).ended = FALSE
<1>1. Mine(c, n) \in Directory
  BY DEF Mine, Directory, Inv, TypeOK
<1> QED BY <1>1 DEF Mine

(* There is one holder, and its lock is not stale.                         *)
LEMMA HoldsAlone ==
  ASSUME Inv, Orderly, NEW c \in Caller, pc[c] \in Holding
  PROVE  /\ lock # None /\ lock.by = c /\ lock.gen = gen[c] /\ ~Stale(lock)
         /\ \A d \in Caller : pc[d] \in Holding => d = c
<1>1. ASSUME NEW d \in Caller, pc[d] \in Holding
      PROVE  lock # None /\ lock.by = d /\ lock.gen = gen[d]
  <2>1. lock = Mine(d, TRUE) \/ lock = Mine(d, FALSE)
    BY <1>1 DEF Orderly, Placed
  <2>2. CASE lock = Mine(d, TRUE)
    BY <2>2, MineIs
  <2>3. CASE lock = Mine(d, FALSE)
    BY <2>3, MineIs
  <2> QED BY <2>1, <2>2, <2>3
<1>2. gen[c] \in 0..MaxCrashes
  BY DEF Inv, TypeOK
<1> QED BY <1>1, <1>2 DEF Stale

(* Nor is one stale that is about to be moved away held.                   *)
LEMMA NoneHolds ==
  ASSUME Inv, Orderly, Stale(lock) \/ lock = None
  PROVE  \A d \in Caller : pc[d] \notin Holding
BY HoldsAlone

(* Pids only grow, and a step touches no other call's own.                 *)
LEMMA Others ==
  ASSUME Inv, NEW c \in Caller, Step(c)
  PROVE  /\ \A x \in Caller : gen[x] \in Nat /\ gen'[x] \in Nat /\ gen[x] <= gen'[x]
         /\ \A d \in Caller : d # c =>
              /\ pc'[d] = pc[d] /\ gen'[d] = gen[d] /\ seen'[d] = seen[d]
              /\ aside'[d] = aside[d] \/ aside'[d] = Ended(c, aside[d])
<1>0. /\ gen \in [Caller -> 0..MaxCrashes] /\ seen \in [Caller -> Directory \cup {None}]
      /\ aside \in [Caller -> Directory \cup {None}]
  BY DEF Inv, TypeOK
<1>1. \A d \in Caller : d # c => pc'[d] = pc[d]
  BY StepInv DEF Frame
<1>2. CASE Crash(c)
  <2>1. \A x \in Caller : gen[x] \in Nat /\ gen'[x] = IF x = c THEN gen[x] + 1 ELSE gen[x]
    BY <1>0, <1>2 DEF Crash
  <2>2. \A d \in Caller : d # c => seen'[d] = seen[d] /\ aside'[d] = aside[d]
    BY <1>0, <1>2 DEF Crash
  <2> QED BY <1>1, <2>1, <2>2
<1>3. ASSUME ~Crash(c)
      PROVE  /\ UNCHANGED gen
             /\ \A d \in Caller : d # c =>
                  /\ seen'[d] = seen[d]
                  /\ aside'[d] = aside[d] \/ aside'[d] = Ended(c, aside[d])
  <2>1. CASE Ask(c) \/ Restart(c) \/ MakeDirectory(c) \/ WriteOwner(c) \/ TimeOut(c)
             \/ LookAtOwn(c) \/ RemoveOwn(c)
    BY <1>0, <2>1 DEF Ask, Restart, MakeDirectory, WriteOwner, TimeOut, LookAtOwn, RemoveOwn,
       Leave, lockVars
  <2>2. CASE Inspect(c) \/ MoveAway(c) \/ CheckMoved(c)
    BY <1>0, <2>2 DEF Inspect, MoveAway, CheckMoved
  <2>3. CASE \/ Load(c) \/ Compare(c) \/ Write(c) \/ Replay(c) \/ Restore(c) \/ Recover(c)
             \/ Call(c) \/ Generate(c) \/ Announce(c) \/ Activate(c) \/ Deliver(c)
             \/ DeliverRefusal(c) \/ Return(c)
    BY <2>3 DEF Load, Compare, Write, Replay, Restore, Recover, Call, Generate, Announce,
       Activate, Deliver, DeliverRefusal, Return, InPhase, lockVars
  <2> QED BY <1>3, <2>1, <2>2, <2>3 DEF Step, Proceed
<1> QED BY <1>0, <1>1, <1>2, <1>3

(* A call is where it was while another takes a step that leaves the lock  *)
(* alone, or that takes one which is not this call's.                      *)
LEMMA OthersPlaced ==
  ASSUME Inv, Orderly, NEW c \in Caller, Step(c), NEW d \in Caller, d # c,
         pc[d] \in Holding \cup {"move"} => lock' = lock
  PROVE  Placed(d)'
<1>1. Placed(d) /\ pc'[d] = pc[d] /\ gen'[d] = gen[d] /\ seen'[d] = seen[d]
  BY Others DEF Orderly
<1>2. Mine(d, TRUE)' = Mine(d, TRUE) /\ Mine(d, FALSE)' = Mine(d, FALSE)
  BY <1>1 DEF Mine
<1>3. pc[d] \in {"move", "moved"} => Stale(seen[d])'
  <2> SUFFICES ASSUME pc[d] \in {"move", "moved"} PROVE Stale(seen[d])'
    OBVIOUS
  <2>1. seen[d] # None /\ seen[d].gen < gen[seen[d].by]
    BY <1>1 DEF Placed, Stale
  <2>2. seen[d].by \in Caller /\ seen[d].gen \in Nat
    BY <2>1 DEF Inv, TypeOK, Directory
  <2>3. seen[d].gen < gen'[seen[d].by]
    BY <2>1, <2>2, Others
  <2> QED BY <1>1, <2>1, <2>3 DEF Stale
<1>4. pc[d] = "moved" => aside'[d] = seen[d]
  <2>1. pc[d] = "moved" => aside[d] = seen[d] /\ Stale(aside[d])
    BY <1>1 DEF Placed
  <2> QED BY <2>1, Others DEF Ended
<1>5. pc[d] = "move" => lock' = seen[d]
  BY <1>1 DEF Placed
<1>6. /\ pc[d] = "own" => lock' = Mine(d, FALSE)
      /\ pc[d] \in Holding \ {"own"} => lock' = Mine(d, TRUE)
  BY <1>1 DEF Placed, Holding
<1> QED BY <1>1, <1>2, <1>3, <1>4, <1>5, <1>6 DEF Placed

(* A step that leaves the lock alone, of a call that goes on holding it or *)
(* does not hold it.                                                       *)
LEMMA LockStays ==
  ASSUME Inv, Orderly, NEW c \in Caller, Step(c), UNCHANGED lock,
         pc[c] \in Holding => pc'[c] \in Holding /\ gen'[c] = gen[c]
  PROVE  (lock # None => Held \/ Stale(lock))'
<1> SUFFICES ASSUME lock # None PROVE Held' \/ Stale(lock)'
  OBVIOUS
<1>1. lock.by \in Caller /\ lock.gen \in Nat
  BY DEF Inv, TypeOK, Directory
<1>2. CASE Stale(lock)
  <2>1. lock.gen < gen[lock.by]
    BY <1>2 DEF Stale
  <2>2. lock.gen < gen'[lock.by]
    BY <1>1, <2>1, Others
  <2> QED BY <2>2 DEF Stale
<1>3. CASE Held /\ lock.by = c
  BY <1>3 DEF Held
<1>4. CASE Held /\ lock.by # c
  BY <1>1, <1>4, Others DEF Held
<1> QED BY <1>2, <1>3, <1>4 DEF Orderly

(* A step that leaves the lock alone.                                      *)
LEMMA QuietStep ==
  ASSUME Inv, Orderly, NEW c \in Caller, Step(c), UNCHANGED lock,
         pc[c] \in Holding => pc'[c] \in Holding /\ gen'[c] = gen[c], Placed(c)'
  PROVE  Orderly'
<1>1. \A d \in Caller : Placed(d)'
  BY OthersPlaced
<1> QED BY <1>1, LockStays DEF Orderly

(* A call that is out of the section.                                      *)
LEMMA AwayPlaced ==
  ASSUME NEW c \in Caller, pc'[c] \in {"idle", "down", "mkdir"}
  PROVE  Placed(c)'
BY DEF Placed, Holding, Section

LEMMA TakenAndLeft ==
  ASSUME Inv, Orderly, NEW c \in Caller,
         Ask(c) \/ Restart(c) \/ MakeDirectory(c) \/ WriteOwner(c) \/ TimeOut(c)
           \/ LookAtOwn(c) \/ RemoveOwn(c) \/ Crash(c)
  PROVE  Orderly'
<1>0. /\ pc \in [Caller -> PC] /\ lock \in Directory \cup {None}
      /\ gen \in [Caller -> 0..MaxCrashes] /\ Step(c)
  BY DEF Inv, TypeOK, Step, Proceed
<1>1. CASE Ask(c) \/ Restart(c)
  <2>1. pc[c] \notin Holding /\ pc'[c] \in {"idle", "mkdir"} /\ UNCHANGED lock
    BY <1>0, <1>1 DEF Ask, Restart, Goto, lockVars, Holding, Section
  <2> QED BY <1>0, <2>1, AwayPlaced, QuietStep
<1>2. CASE MakeDirectory(c)
  <2>1. /\ lock = None /\ lock' = Mine(c, FALSE) /\ UNCHANGED gen /\ pc'[c] = "own"
    BY <1>0, <1>2 DEF MakeDirectory, Goto, Mine
  <2>2. \A d \in Caller : pc[d] \notin Holding \cup {"move"}
    BY <2>1, NoneHolds DEF Orderly, Placed, Stale
  <2>3. \A d \in Caller : d # c => Placed(d)'
    BY <1>0, <2>2, OthersPlaced
  <2>4. Placed(c)'
    BY <2>1 DEF Placed, Mine, Holding, Section
  <2>5. Held'
    BY <2>1, MineIs DEF Held, Holding
  <2> QED BY <2>3, <2>4, <2>5 DEF Orderly
<1>3. CASE WriteOwner(c)
  <2>1. pc[c] = "own" /\ pc[c] \in Holding /\ lock = Mine(c, FALSE)
    BY <1>3 DEF WriteOwner, Orderly, Placed, Holding
  <2>2. lock # None /\ ~lock.named
    BY <2>1, MineIs
  <2>3. lock' = Mine(c, TRUE) /\ pc'[c] = "load" /\ UNCHANGED gen
    BY <1>0, <1>3, <2>2 DEF WriteOwner, Goto, Mine
  <2>4. \A d \in Caller : d # c => pc[d] \notin Holding \cup {"move"}
    BY <2>1, HoldsAlone DEF Orderly, Placed
  <2>5. \A d \in Caller : d # c => Placed(d)'
    BY <1>0, <2>4, OthersPlaced
  <2>6. Placed(c)'
    BY <2>3 DEF Placed, Mine, Holding, Section
  <2>7. Held'
    BY <2>3, MineIs DEF Held, Holding, Section
  <2> QED BY <2>5, <2>6, <2>7 DEF Orderly
<1>4. CASE TimeOut(c)
  <2>1. /\ pc[c] = "mkdir" /\ pc'[c] = "idle" /\ lock' = Ended(c, lock)
        /\ lock # None /\ ~Stale(lock)
    BY <1>0, <1>4 DEF TimeOut, Leave, Goto
  <2>2. lock.by # c
    BY <2>1 DEF Orderly, Held, Holding, Section
  <2>3. UNCHANGED lock
    BY <2>1, <2>2 DEF Ended
  <2> QED BY <1>0, <2>1, <2>3, AwayPlaced, QuietStep DEF Holding, Section
<1>5. CASE LookAtOwn(c)
  <2>1. pc[c] = "release" /\ lock = Mine(c, TRUE)
    BY <1>5 DEF LookAtOwn, Orderly, Placed, Holding
  <2>2. Own(c, lock)
    BY <2>1, MineIs DEF Own
  <2>3. pc'[c] = "remove" /\ UNCHANGED <<lock, gen>>
    BY <1>0, <1>5, <2>2 DEF LookAtOwn, Goto, lockVars
  <2>4. Placed(c)'
    BY <2>1, <2>3 DEF Placed, Mine
  <2> QED BY <1>0, <2>3, <2>4, QuietStep DEF Holding
<1>6. CASE RemoveOwn(c)
  <2>1. pc[c] = "remove" /\ pc'[c] = "idle" /\ lock' = None
    BY <1>0, <1>6 DEF RemoveOwn, Leave, Goto, Ended
  <2>2. \A d \in Caller : d # c => pc[d] \notin Holding \cup {"move"}
    BY <2>1, HoldsAlone DEF Orderly, Placed, Holding
  <2>3. \A d \in Caller : d # c => Placed(d)'
    BY <1>0, <2>2, OthersPlaced
  <2> QED BY <2>1, <2>3, AwayPlaced DEF Orderly
<1>7. CASE Crash(c)
  <2>1. pc'[c] = "down" /\ UNCHANGED lock /\ gen'[c] = gen[c] + 1
    BY <1>0, <1>7 DEF Crash, Goto
  <2>2. CASE pc[c] \notin Holding
    BY <1>0, <2>1, <2>2, AwayPlaced, QuietStep
  <2>3. CASE pc[c] \in Holding
    <3>1. lock.by = c /\ lock.gen = gen[c] /\ lock # None /\ gen[c] \in Nat
      BY <1>0, <2>3, HoldsAlone
    <3>2. Stale(lock)'
      BY <2>1, <3>1 DEF Stale
    <3>3. \A d \in Caller : d # c => Placed(d)'
      BY <1>0, <2>1, OthersPlaced
    <3> QED BY <2>1, <3>2, <3>3, AwayPlaced DEF Orderly
  <2> QED BY <2>2, <2>3
<1> QED BY <1>1, <1>2, <1>3, <1>4, <1>5, <1>6, <1>7

(* A stale directory is moved away by the one call that reclaims it, and   *)
(* nothing is put back.                                                    *)
LEMMA Reclaimed ==
  ASSUME Inv, Orderly, OneReclaims, NEW c \in Caller,
         Inspect(c) \/ MoveAway(c) \/ CheckMoved(c)
  PROVE  Orderly'
<1>0. /\ pc \in [Caller -> PC] /\ lock \in Directory \cup {None} /\ Step(c)
      /\ seen \in [Caller -> Directory \cup {None}]
      /\ aside \in [Caller -> Directory \cup {None}]
  BY DEF Inv, TypeOK, Step, Proceed
<1>1. CASE Inspect(c)
  <2>1. /\ pc[c] = "mkdir" /\ pc'[c] = "move" /\ seen'[c] = lock /\ Stale(lock)
        /\ UNCHANGED <<lock, gen>>
    BY <1>0, <1>1 DEF Inspect, Goto
  <2>2. Placed(c)'
    BY <2>1 DEF Placed, Stale, Holding, Section
  <2> QED BY <1>0, <2>1, <2>2, QuietStep DEF Holding, Section
<1>2. CASE MoveAway(c)
  <2>1. pc[c] = "move" /\ lock = seen[c] /\ Stale(lock) /\ lock # None
    BY <1>2 DEF MoveAway, Orderly, Placed, Stale
  <2>2. /\ pc'[c] = "moved" /\ lock' = None /\ aside'[c] = lock
        /\ UNCHANGED <<seen, gen>>
    BY <1>0, <1>2, <2>1 DEF MoveAway, Goto
  <2>3. \A d \in Caller : d # c => pc[d] \notin Holding \cup {"move"}
    BY <2>1, NoneHolds DEF OneReclaims
  <2>4. \A d \in Caller : d # c => Placed(d)'
    BY <1>0, <2>3, OthersPlaced
  <2>5. Placed(c)'
    BY <2>1, <2>2 DEF Placed, Stale, Holding, Section
  <2> QED BY <2>2, <2>4, <2>5 DEF Orderly
<1>3. CASE CheckMoved(c)
  <2>1. aside[c] = seen[c] /\ pc[c] = "moved"
    BY <1>3 DEF CheckMoved, Orderly, Placed
  <2>2. UNCHANGED lock /\ pc'[c] = "mkdir"
    BY <1>0, <1>3, <2>1 DEF CheckMoved, PutBack, SameToken, Goto
  <2> QED BY <1>0, <2>1, <2>2, AwayPlaced, QuietStep DEF Holding, Section
<1> QED BY <1>1, <1>2, <1>3

LEMMA StepOrderly ==
  ASSUME Inv, Orderly, OneReclaims, NEW c \in Caller, Step(c)
  PROVE  Orderly'
<1>1. CASE Ask(c) \/ Restart(c) \/ MakeDirectory(c) \/ WriteOwner(c) \/ TimeOut(c)
           \/ LookAtOwn(c) \/ RemoveOwn(c) \/ Crash(c)
  BY <1>1, TakenAndLeft
<1>2. CASE Inspect(c) \/ MoveAway(c) \/ CheckMoved(c)
  BY <1>2, Reclaimed
<1>3. CASE \/ Load(c) \/ Compare(c) \/ Write(c) \/ Replay(c) \/ Restore(c) \/ Recover(c)
           \/ Call(c) \/ Generate(c) \/ Announce(c) \/ Activate(c) \/ Deliver(c)
           \/ DeliverRefusal(c) \/ Return(c)
  <2>0. UNCHANGED gen
    BY <1>3 DEF Load, Compare, Write, Replay, Restore, Recover, Call, Generate, Announce, Activate,
       Deliver, DeliverRefusal, Return, InPhase
  <2>1. pc[c] \in Section /\ UNCHANGED lock
    BY <1>3 DEF Load, Compare, Write, Replay, Restore, Recover, Call, Generate, Announce, Activate,
       Deliver, DeliverRefusal, Return, InPhase, Section, lockVars
  <2>2. pc'[c] \in Section \cup {"release"}
    <3>1. pc \in [Caller -> PC]
      BY DEF Inv, TypeOK
    <3> QED BY <1>3, <3>1 DEF Load, Compare, Write, Replay, Restore, Recover, Call, Generate,
            Announce, Activate, Deliver, DeliverRefusal, Return, Remote, Checkpoint, Answer, Quit,
            Goto, Section
  <2>3. pc[c] \in Holding /\ pc'[c] \in Holding /\ pc[c] # "own"
        /\ pc'[c] \notin {"own", "move", "moved"}
    BY <2>1, <2>2 DEF Holding, Section
  <2>4. Placed(c)'
    <3>1. lock = Mine(c, TRUE)
      BY <2>3 DEF Orderly, Placed
    <3> QED BY <2>0, <2>1, <2>3, <3>1 DEF Placed, Mine
  <2> QED BY <2>0, <2>1, <2>3, <2>4, QuietStep
<1> QED BY <1>1, <1>2, <1>3 DEF Step, Proceed

LEMMA NextOrderly == Inv /\ Orderly /\ OneReclaims /\ [Next]_vars => Orderly'
<1> SUFFICES ASSUME Inv, Orderly, OneReclaims, [Next]_vars PROVE Orderly'
  OBVIOUS
<1>1. CASE UNCHANGED vars
  BY <1>1 DEF vars, Orderly, Placed, Held, Stale, Mine
<1>2. ASSUME NEW c \in Caller, Step(c) PROVE Orderly'
  BY <1>2, StepOrderly
<1> QED BY <1>1, <1>2 DEF Next, Step

(* AdaptiveLearningLoopJournal.withExclusive (adaptive-learning-loop-      *)
(* journal.ts:256): mkdir, the owner file, the inspection of a stale lock, *)
(* its move to quarantine, the look at the own token before the removal    *)
(* and the timeout let at most one call work under the key, for any number *)
(* of processes and any order of their file-system calls, wherever and     *)
(* however often processes crash, before owner.json is written and with a  *)
(* directory in quarantine included, as long as no two calls are between   *)
(* their inspection and their rename at the same time.  Two that are can   *)
(* lead to two owners.                                                     *)
THEOREM OneAtATime == Spec /\ []OneReclaims => []Exclusive
<1>1. Init => Orderly
  BY DEF Init, Orderly, Placed, Holding, Section
<1>2. Inv /\ Orderly => Exclusive
  <2> SUFFICES ASSUME Inv, Orderly, NEW c \in Caller, NEW d \in Caller,
                      pc[c] \in Section, pc[d] \in Section
               PROVE  c = d
    BY DEF Exclusive
  <2> QED BY HoldsAlone DEF Holding
<1> QED BY <1>1, <1>2, NextOrderly, InitInv, NextInv, PTL DEF Spec

(* Both steps together: wherever processes crash, whatever remote calls    *)
(* fail and secure pairs are lost, and however often a lock is reclaimed,  *)
(* one reclaimer at a time, the submission has one outcome, told once.     *)
COROLLARY OneOutcome ==
  Spec /\ []OneReclaims => ImplementsOutcome /\ []AnnouncedIsJournaled /\ RecoveryAskedOnce
BY OneAtATime, OutcomeImplemented, OneOutcomeTold, RecoveryNotRepeated, PTL
=============================================================================

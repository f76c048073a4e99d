---------------------------- MODULE NextRoundProofs ----------------------------
(***************************************************************************)
(* The next round: its preparation (NextRound), its execution              *)
(* (ExecutionJournal, below) and the plan of its questions (StagePlan, the *)
(* second part of the module).                                             *)
(*                                                                         *)
(* Rounds can be repeated for ever, and never get harder: for every set of *)
(* profiles, paths, packs and targets, every number of rounds, and a tree  *)
(* of rounds of any shape.  The argument: a specification exists only if   *)
(* it was built, so what its validation asks holds of every round          *)
(* (Buildable); the steps that soften a round stay within the scales, so   *)
(* the validation accepts the softened round again, however far the        *)
(* softening has gone.                                                     *)
(***************************************************************************)
EXTENDS NextRound, ExecutionJournal, StagePlan, FiniteSetTheorems, SequenceTheorems, TLAPS

RoundsBuildable == \A s \in rounds : Buildable(s)

(* A round that repeats compares with its parent as RepeatsDoNotHarden asks. *)
NotHarder(s, p) ==
  /\ s.path = p.path /\ s.scaffold >= p.scaffold
  /\ \A d \in Dimension :
       IF d = "scaffold" THEN s.difficulty[d] >= p.difficulty[d]
                         ELSE s.difficulty[d] <= p.difficulty[d]

Repeats(action) == action \in {"remediate", "reinforce"}

-----------------------------------------------------------------------------
(* Build gives what passed its checks, and nothing else.                   *)
LEMMA BuildReady ==
  ASSUME NEW run, NEW profile, NEW path, NEW evidence, NEW shell,
         Build(run, profile, path, evidence, shell).status = "ready"
  PROVE  /\ Build(run, profile, path, evidence, shell).spec
              = SpecOf(run, profile, path, evidence, shell)
         /\ WellFormed(path, shell)
         /\ path.needs \subseteq evidence.facts /\ evidence.match \notin {"none", "weak"}
BY DEF Build, Blocked

LEMMA SpecBuildable ==
  ASSUME NEW run, NEW profile, NEW path, NEW evidence, NEW shell,
         WellFormed(path, shell),
         path.needs \subseteq evidence.facts, evidence.match \notin {"none", "weak"}
  PROVE  Buildable(SpecOf(run, profile, path, evidence, shell))
BY DEF Buildable, WellFormed, SpecOf

(* The scales: a softened round is well formed, and asks no more.          *)
LEMMA Softened ==
  ASSUME NEW spec, Buildable(spec), NEW shell \in {Remedial(spec), Unchanged(spec)}
  PROVE  /\ WellFormed(spec.path, shell)
         /\ shell.scaffold >= spec.scaffold
         /\ \A d \in Dimension :
              IF d = "scaffold" THEN shell.difficulty[d] >= spec.difficulty[d]
                                ELSE shell.difficulty[d] <= spec.difficulty[d]
<1>1. /\ spec.path.sound /\ spec.scaffold \in 0..3
      /\ \A d \in Dimension : spec.difficulty[d] \in 0..5
  BY DEF Buildable, WellFormed
<1>2. CASE shell = Remedial(spec)
  <2>1. /\ shell.scaffold = Least(3, spec.scaffold + 1)
        /\ \A d \in Dimension : shell.difficulty[d] =
             CASE d = "domain" -> spec.difficulty[d]
               [] d = "scaffold" -> Least(5, spec.difficulty[d] + 1)
               [] OTHER -> Decrement(spec.difficulty[d])
    BY <1>2 DEF Remedial
  <2>2. shell.scaffold \in 0..3 /\ shell.scaffold >= spec.scaffold
    BY <1>1, <2>1 DEF Least
  <2>3. ASSUME NEW d \in Dimension
        PROVE  /\ shell.difficulty[d] \in 0..5
               /\ IF d = "scaffold" THEN shell.difficulty[d] >= spec.difficulty[d]
                                    ELSE shell.difficulty[d] <= spec.difficulty[d]
    <3>1. spec.difficulty[d] \in 0..5
      BY <1>1
    <3>2. CASE d = "scaffold"
      BY <2>1, <3>1, <3>2 DEF Least
    <3>3. CASE d = "domain"
      BY <2>1, <3>1, <3>3
    <3>4. CASE d \notin {"scaffold", "domain"}
      BY <2>1, <3>1, <3>4 DEF Decrement
    <3> QED BY <3>2, <3>3, <3>4
  <2> QED BY <1>1, <2>2, <2>3 DEF WellFormed
<1>3. CASE shell = Unchanged(spec)
  BY <1>1, <1>3 DEF Unchanged, WellFormed
<1> QED BY <1>2, <1>3

(* Whatever the request: a specification that is ready is buildable, and   *)
(* one that repeats its parent asks no more than it.                       *)
LEMMA ReadyIsBuildable ==
  ASSUME NEW i, Prepared(i).status = "ready"
  PROVE  Buildable(Prepared(i).spec) /\ Prepared(i).spec.run = Identity(i)
<1>0. ASSUME NEW profile, NEW path, NEW evidence, NEW shell,
             Prepared(i) = Build(Identity(i), profile, path, evidence, shell)
      PROVE  Buildable(Prepared(i).spec) /\ Prepared(i).spec.run = Identity(i)
  <2>1. Prepared(i).spec = SpecOf(Identity(i), profile, path, evidence, shell)
    BY <1>0, BuildReady
  <2>2. Buildable(Prepared(i).spec)
    BY <1>0, <2>1, BuildReady, SpecBuildable
  <2> QED BY <2>1, <2>2 DEF SpecOf
<1>1. CASE Prepared(i) = Reprofile(i)
  <2>1. Prepared(i) = Build(Identity(i), i.newProfile, i.newPath, i.newEvidence,
                            Defaults(i.newProfile.level))
    BY <1>1 DEF Reprofile, Blocked
  <2> QED BY <1>0, <2>1
<1>2. CASE Prepared(i) = Advance(i)
  <2> DEFINE profile == Else(i.newProfile, i.profile)
  <2>1. Prepared(i) = Build(Identity(i), profile, i.newPath, i.newEvidence,
                            Defaults(profile.level))
    BY <1>2 DEF Advance, Blocked
  <2> QED BY <1>0, <2>1
<1>3. CASE Prepared(i) = Repeat(i)
  <2> DEFINE profile == Else(i.newProfile, i.profile)
             evidence == Else(i.newEvidence, i.evidence)
             shell == IF i.feedback.action = "remediate" THEN Remedial(i.parent)
                                                         ELSE Unchanged(i.parent)
  <2>1. Prepared(i) = Build(Identity(i), profile, i.parent.path, evidence, shell)
    BY <1>3 DEF Repeat, Blocked, PathOf
  <2> QED BY <1>0, <2>1
<1> QED BY <1>1, <1>2, <1>3 DEF Prepared, Blocked

(* A request that repeats its parent comes to a round no harder than it.   *)
LEMMA RepeatNotHarder ==
  ASSUME NEW i, Prepared(i).status = "ready", Buildable(i.parent), Repeats(i.feedback.action)
  PROVE  NotHarder(Prepared(i).spec, i.parent)
<1> DEFINE profile == Else(i.newProfile, i.profile)
           evidence == Else(i.newEvidence, i.evidence)
           shell == IF i.feedback.action = "remediate" THEN Remedial(i.parent)
                                                       ELSE Unchanged(i.parent)
<1>1. Prepared(i) = Repeat(i)
  BY DEF Prepared, Blocked, Repeats
<1>2. Prepared(i) = Build(Identity(i), profile, i.parent.path, evidence, shell)
  BY <1>1 DEF Repeat, Blocked, PathOf
<1>3. Prepared(i).spec = SpecOf(Identity(i), profile, i.parent.path, evidence, shell)
  BY <1>2, BuildReady
<1>4. shell \in {Remedial(i.parent), Unchanged(i.parent)}
  OBVIOUS
<1> HIDE DEF shell
<1> QED BY <1>3, <1>4, Softened DEF SpecOf, NotHarder

-----------------------------------------------------------------------------
(* The requests of Prepare.                                                *)
LEMMA PrepareStep ==
  ASSUME Prepare
  PROVE  \E i : /\ i.parent \in rounds /\ Prepared(i).status = "ready"
                /\ rounds' = rounds \cup {Prepared(i).spec}
<1>1. PICK i, path, profile, evidence, generation :
        /\ i.parent \in rounds
        /\ Prepared(Supplied(i, path, profile, evidence, generation)).status = "ready"
        /\ rounds' = rounds \cup {Prepared(Supplied(i, path, profile, evidence, generation)).spec}
        /\ \E parent, feedback, held : i = Request(parent, feedback, held)
  <2>1. \A parent, feedback, held : Request(parent, feedback, held).parent = parent
    BY DEF Request
  <2> QED BY <2>1 DEF Prepare
<1>2. Supplied(i, path, profile, evidence, generation).parent = i.parent
  BY <1>1 DEF Supplied, Request
<1> QED BY <1>1, <1>2

RoundsInv == RoundsBuildable /\ RepeatsDoNotHarden

LEMMA RoundsInitInv == RoundInit => RoundsInv
BY FirstAssumption DEF RoundInit, RoundsInv, RoundsBuildable, RepeatsDoNotHarden

LEMMA RoundsNextInv == RoundsInv /\ [RoundNext]_roundVars => RoundsInv'
<1> SUFFICES ASSUME RoundsInv, [RoundNext]_roundVars PROVE RoundsInv'
  OBVIOUS
<1>1. CASE Prepare
  <2>1. PICK i : /\ i.parent \in rounds /\ Prepared(i).status = "ready"
                 /\ rounds' = rounds \cup {Prepared(i).spec}
    BY <1>1, PrepareStep
  <2> DEFINE s == Prepared(i).spec
  <2>2. Buildable(s) /\ s.run = Identity(i)
    BY <2>1, ReadyIsBuildable
  <2>3. s.run.parent = i.parent /\ s.run.feedback = i.feedback
    BY <2>1, <2>2 DEF Identity
  <2>4. Repeats(s.run.feedback.action) => NotHarder(s, i.parent)
    BY <2>1, <2>3, RepeatNotHarder DEF RoundsInv, RoundsBuildable
  <2>5. RoundsBuildable'
    BY <2>1, <2>2 DEF RoundsInv, RoundsBuildable
  <2>6. RepeatsDoNotHarden'
    <3> SUFFICES ASSUME NEW t \in rounds', t # First, Repeats(t.run.feedback.action)
                 PROVE  NotHarder(t, t.run.parent)
      BY DEF RepeatsDoNotHarden, NotHarder, Repeats
    <3>1. CASE t \in rounds
      BY <3>1 DEF RoundsInv, RepeatsDoNotHarden, NotHarder, Repeats
    <3>2. CASE t = s
      BY <3>2, <2>3, <2>4
    <3> QED BY <2>1, <3>1, <3>2
  <2> QED BY <2>5, <2>6 DEF RoundsInv
<1>2. CASE UNCHANGED roundVars
  BY <1>2 DEF roundVars, RoundsInv, RoundsBuildable, RepeatsDoNotHarden
<1> QED BY <1>1, <1>2 DEF RoundNext

-----------------------------------------------------------------------------
LEMMA RoundsInvHolds == RoundSpec => []RoundsInv
BY RoundsInitInv, RoundsNextInv, PTL DEF RoundSpec

(* However long the learner repeats rounds, and whatever the rounds before *)
(* were: no repeated round asks more than the one it repeats.              *)
THEOREM NeverHarder == RoundSpec => []RepeatsDoNotHarden
<1>1. RoundsInv => RepeatsDoNotHarden
  BY DEF RoundsInv
<1> QED BY <1>1, RoundsInvHolds, PTL

(* A round can be given again after any number of rounds, since softening  *)
(* stops at the ends of the scales.                                        *)
THEOREM NeverStuck == RoundSpec => []AlwaysRepeatable
<1>1. RoundsInv => AlwaysRepeatable
  <2> SUFFICES ASSUME RoundsInv, NEW s \in rounds, NEW a \in {"remediate", "reinforce"},
                      NEW targets \in (SUBSET s.path.objectives) \ {{}}
               PROVE  Prepared(Request(s, Feedback(s, a, targets, TRUE), s)).status = "ready"
    BY DEF AlwaysRepeatable
  <2> DEFINE i == Request(s, Feedback(s, a, targets, TRUE), s)
             shell == IF i.feedback.action = "remediate" THEN Remedial(i.parent)
                                                         ELSE Unchanged(i.parent)
  <2>1. Buildable(s)
    BY DEF RoundsInv, RoundsBuildable
  <2>2. /\ i.parent = s /\ i.profile = s.profile /\ i.evidence = s.evidence
        /\ i.newPath = Absent /\ i.newProfile = Absent /\ i.newEvidence = Absent /\ i.generation = Absent
        /\ i.feedback.run = s.run /\ i.feedback.node = s.path.node
        /\ i.feedback.version = s.profile.version /\ i.feedback.frozen = TRUE
        /\ i.feedback.targets = targets /\ i.feedback.action = a
    BY DEF Request, Feedback
  <2>3. targets \subseteq s.path.objectives /\ targets # {}
    OBVIOUS
  <2>4. WellFormed(s.path, shell)
    BY <2>1, <2>2, Softened
  <2> HIDE DEF i
  <2>5. Prepared(i) = Repeat(i)
    BY <2>2, <2>3 DEF Prepared, Refusal, Frozen, SameRound, KnownTargets, CurrentInputs
  <2> HIDE DEF shell
  <2>6. Repeat(i) = Build(Identity(i), s.profile, s.path, s.evidence, shell)
    BY <2>2 DEF Repeat, Else, PathOf, shell
  <2>7. Build(Identity(i), s.profile, s.path, s.evidence, shell).status = "ready"
    BY <2>1, <2>4 DEF Build, Buildable, Blocked
  <2> QED BY <2>5, <2>6, <2>7 DEF i
<1> QED BY <1>1, RoundsInvHolds, PTL

-----------------------------------------------------------------------------
(* The execution of a prepared round (ExecutionJournal).                   *)
(*                                                                         *)
(* A batch is private until its commit wins the journal, and its owner     *)
(* removes it only while it is private (PrivateInv); so what a caller was  *)
(* answered, or may still be answered, is never removed.  As long as every *)
(* pair can be read no entry is evicted, and as long as every loser's      *)
(* batch can be deleted none is disowned, so that the first is the only    *)
(* one (FirstInv).                                                         *)
USE BoundAssumption

Owning == {"verify", "commit", "confirm", "expel", "delete", "erase", "disown", "withdraw"}

(* What a call holds at each of its stages.                                *)
CallInv(p) ==
  /\ own[p] # None <=> pc[p] \in Owning
  /\ pc[p] \in {"idle", "down"} => found[p] = None /\ tries[p] = 0
  /\ pc[p] \in {"generate", "verify"} => tries[p] = 0
  /\ pc[p] \in {"load", "commit"} => tries[p] < Tries
  /\ pc[p] \in {"check", "evict", "confirm", "expel"} => found[p] # None
  /\ after[p] # None => pc[p] \in {"delete", "erase", "disown", "withdraw"}
  /\ pc[p] \in {"delete", "erase"} => after[p] # None
  /\ pc[p] = "disown" => after[p] = "return"
  /\ after[p] = "return" => found[p] \notin {None, own[p]}
  /\ pc[p] = "delete" /\ after[p] = "return" => files[own[p]] = "whole"
  /\ pc[p] \in {"verify", "commit", "confirm", "expel"} => files[own[p]] = "whole"

(* A batch belongs to the one process that stored it.                      *)
OwnerInv == \A p, q \in Process : own[p] = own[q] /\ own[p] # None => p = q

Published(b) == journal = b \/ b \in answers \/ \E q \in Process : found[q] = b

StoredInv == \A b \in Batch :
  Published(b) \/ (\E p \in Process : own[p] = b) => files[b] # "absent"

(* The stages at which no other process can have seen the process's batch. *)
Private(p) == \/ pc[p] \in {"verify", "commit", "delete", "erase", "disown", "withdraw"}
              \/ pc[p] \in {"confirm", "expel"} /\ found[p] # own[p]

PrivateInv ==
  faults["lost"] = 0 /\ (faults["stuck"] = 0 \/ faults["unread"] = 0) =>
    /\ \A p \in Process : Private(p) => ~Published(own[p])
    /\ \A b \in Batch : Published(b) => files[b] = "whole"

(* While every pair can be read no entry is evicted; while every loser's   *)
(* batch is deleted as well, the first entry is the only one.              *)
FirstInv ==
  faults["lost"] = 0 /\ faults["unread"] = 0 =>
    /\ \A p \in Process : pc[p] \notin {"evict", "expel"}
    /\ faults["kept"] = 0 =>
         /\ \A p \in Process : pc[p] # "disown" /\ found[p] \in {None, journal}
         /\ answers \subseteq {journal}

JournalInv == /\ TypeOK /\ \A p \in Process : CallInv(p)
       /\ OwnerInv /\ StoredInv /\ PrivateInv /\ FirstInv

-----------------------------------------------------------------------------
(* Only the process that moves changes what a call holds.                  *)
Others(p) == \A q \in Process \ {p} :
  /\ own'[q] = own[q] /\ found'[q] = found[q] /\ tries'[q] = tries[q]
  /\ after'[q] = after[q] /\ pc'[q] = pc[q]

FaultsGrow == \A f \in Fault : faults'[f] >= faults[f]

LEMMA FaultSteps ==
  ASSUME TypeOK
  PROVE  /\ NoFault => faults' \in [Fault -> 0..MaxFailures] /\ FaultsGrow
         /\ \A f \in Fault :
              Fails(f) => /\ faults' \in [Fault -> 0..MaxFailures] /\ FaultsGrow
                          /\ faults'[f] > 0
<1>1. \A f \in Fault : faults[f] \in 0..MaxFailures
  BY DEF TypeOK
<1>2. NoFault => faults' \in [Fault -> 0..MaxFailures] /\ FaultsGrow
  BY <1>1 DEF NoFault, FaultsGrow, TypeOK
<1>3. ASSUME NEW f \in Fault, Fails(f)
      PROVE  /\ faults' \in [Fault -> 0..MaxFailures] /\ FaultsGrow /\ faults'[f] > 0
  <2>1. faults[f] < MaxFailures
    BY <1>1, <1>3 DEF Fails, Failures, Fault
  <2>2. \A g \in Fault : faults'[g] = IF g = f THEN faults[g] + 1 ELSE faults[g]
    BY <1>3 DEF Fails, TypeOK
  <2>3. faults' = [faults EXCEPT ![f] = faults[f] + 1]
    BY <1>3 DEF Fails
  <2>4. faults[f] + 1 \in 0..MaxFailures
    BY <1>1, <2>1
  <2>5. faults' \in [Fault -> 0..MaxFailures]
    BY <2>3, <2>4 DEF TypeOK
  <2> QED BY <1>1, <2>2, <2>5 DEF FaultsGrow
<1> QED BY <1>2, <1>3

Moves(p) == \/ Ask(p) \/ Step(p) \/ Crash(p) \/ Restart(p)

LEMMA FaultMoves ==
  ASSUME TypeOK, NEW p \in Process, Moves(p)
  PROVE  faults' \in [Fault -> 0..MaxFailures] /\ FaultsGrow
<1> USE FaultSteps
<1>0. /\ faults \in [Fault -> 0..MaxFailures]
      /\ {"unread", "refused", "lost", "stuck", "kept"} \subseteq Fault
  BY DEF TypeOK, Fault
<1>00. UNCHANGED faults => NoFault
  BY DEF NoFault
<1>1. CASE Ask(p)
  BY <1>0, <1>00, <1>1 DEF Ask
<1>2. CASE Load(p)
  BY <1>0, <1>00, <1>2 DEF Load
<1>3. CASE Check(p)
  BY <1>0, <1>00, <1>3 DEF Check, Resolves, Unresolved
<1>4. CASE Evict(p)
  BY <1>0, <1>00, <1>4 DEF Evict
<1>5. CASE Generate(p)
  BY <1>0, <1>00, <1>5 DEF Generate
<1>6. CASE Verify(p)
  BY <1>0, <1>00, <1>6 DEF Verify, Resolves, Unresolved
<1>7. CASE Commit(p)
  BY <1>0, <1>00, <1>7 DEF Commit
<1>8. CASE Confirm(p)
  BY <1>0, <1>00, <1>8 DEF Confirm, Resolves, Unresolved
<1>9. CASE Expel(p)
  BY <1>0, <1>00, <1>9 DEF Expel
<1>10. CASE DeleteFirst(p)
  BY <1>0, <1>00, <1>10 DEF DeleteFirst
<1>11. CASE DeleteRest(p)
  BY <1>0, <1>00, <1>11 DEF DeleteRest
<1>12. CASE Withdraw(p)
  BY <1>0, <1>00, <1>12 DEF Withdraw
<1>13. CASE Crash(p)
  BY <1>0, <1>00, <1>13 DEF Crash
<1>14. CASE Restart(p)
  BY <1>0, <1>00, <1>14 DEF Restart
<1>15. CASE Disown(p)
  BY <1>0, <1>00, <1>15 DEF Disown
<1> QED BY <1>1, <1>2, <1>3, <1>4, <1>5, <1>6, <1>7, <1>8, <1>9, <1>10, <1>11, <1>12, <1>13, <1>14,
       <1>15 DEF Moves, Step

(* What follows the deletion.                                              *)
Erased(p) ==
  /\ pc[p] = "erase" /\ UNCHANGED <<journal, crashes>>
  /\ \/ /\ files' = [files EXCEPT ![own[p]] = "gone"] /\ NoFault
        /\ \/ after[p] = "return" /\ Return(p, found[p])
           \/ after[p] = "throw" /\ Throw(p)
           \/ /\ after[p] = "withdraw" /\ Goto(p, "withdraw")
              /\ UNCHANGED <<own, found, tries, after, answers>>
     \/ UNCHANGED files /\ Fails("kept") /\ Undeleted(p)

LEMMA EraseStep ==
  ASSUME TypeOK, NEW p \in Process, CallInv(p), DeleteRest(p)
  PROVE  Erased(p)
<1>1. after[p] \in {"return", "throw", "withdraw"}
  BY DEF TypeOK, CallInv, DeleteRest
<1>2. CASE after[p] = "return"
  BY <1>2 DEF DeleteRest, Erased, Loser
<1>3. CASE after[p] = "throw"
  BY <1>3 DEF DeleteRest, Erased, Loser
<1>4. CASE after[p] = "withdraw"
  BY <1>4 DEF DeleteRest, Erased, Loser
<1> QED BY <1>1, <1>2, <1>3, <1>4

LEMMA TypeMoves ==
  ASSUME TypeOK, NEW p \in Process, CallInv(p), Moves(p)
  PROVE  TypeOK' /\ Others(p)
<1>0. faults' \in [Fault -> 0..MaxFailures]
  BY FaultMoves
<1> USE <1>0 DEF TypeOK, CallInv, Others, Goto, Over, Throw, Return, Invalidate, Winner, Delete, PC, Undeleted,
                 Owning, FileState, Loser
<1>1. CASE Ask(p)
  BY <1>1 DEF Ask
<1>2. CASE Load(p)
  BY <1>2 DEF Load
<1>3. CASE Check(p)
  BY <1>3 DEF Check
<1>4. CASE Evict(p)
  BY <1>4 DEF Evict
<1>5. CASE Generate(p)
  BY <1>5 DEF Generate
<1>6. CASE Verify(p)
  BY <1>6 DEF Verify
<1>7. CASE Commit(p)
  BY <1>7 DEF Commit
<1>8. CASE Confirm(p)
  BY <1>8 DEF Confirm
<1>9. CASE Expel(p)
  BY <1>9 DEF Expel
<1>10. CASE DeleteFirst(p)
  BY <1>10 DEF DeleteFirst
<1>11. CASE DeleteRest(p)
  <2>1. Erased(p)
    BY <1>11, EraseStep
  <2>2. TypeOK'
    BY <2>1 DEF Erased
  <2>3. Others(p)
    BY <2>1 DEF Erased
  <2> QED
    BY <2>2, <2>3
<1>12. CASE Withdraw(p)
  BY <1>12 DEF Withdraw
<1>13. CASE Crash(p)
  BY <1>13 DEF Crash
<1>14. CASE Restart(p)
  BY <1>14 DEF Restart
<1>15. CASE Disown(p)
  BY <1>15 DEF Disown
<1> QED BY <1>1, <1>2, <1>3, <1>4, <1>5, <1>6, <1>7, <1>8, <1>9, <1>10, <1>11, <1>12, <1>13, <1>14,
       <1>15 DEF Moves, Step

(* A batch is written where there was none, or removed by its owner.       *)
FilesMove(p) == \A b \in Batch :
  \/ files'[b] = files[b]
  \/ pc[p] = "generate" /\ files[b] = "absent" /\ files'[b] = "whole" /\ own'[p] = b
  \/ pc[p] \in {"delete", "erase"} /\ b = own[p] /\ files'[b] # "absent"

LEMMA FileMoves ==
  ASSUME TypeOK, NEW p \in Process, CallInv(p), Moves(p)
  PROVE  FilesMove(p)
<1> USE DEF TypeOK, FilesMove, Loser, Undeleted
<1>1. CASE Ask(p)
  BY <1>1 DEF Ask
<1>2. CASE Load(p)
  BY <1>2 DEF Load
<1>3. CASE Check(p)
  BY <1>3 DEF Check
<1>4. CASE Evict(p)
  BY <1>4 DEF Evict
<1>5. CASE Generate(p)
  BY <1>5 DEF Generate
<1>6. CASE Verify(p)
  BY <1>6 DEF Verify
<1>7. CASE Commit(p)
  BY <1>7 DEF Commit
<1>8. CASE Confirm(p)
  BY <1>8 DEF Confirm
<1>9. CASE Expel(p)
  BY <1>9 DEF Expel
<1>10. CASE DeleteFirst(p)
  BY <1>10 DEF DeleteFirst
<1>11. CASE DeleteRest(p)
  BY <1>11, EraseStep DEF Erased
<1>12. CASE Withdraw(p)
  BY <1>12 DEF Withdraw
<1>13. CASE Crash(p)
  BY <1>13 DEF Crash
<1>14. CASE Restart(p)
  BY <1>14 DEF Restart
<1>15. CASE Disown(p)
  BY <1>15 DEF Disown
<1> QED BY <1>1, <1>2, <1>3, <1>4, <1>5, <1>6, <1>7, <1>8, <1>9, <1>10, <1>11, <1>12, <1>13, <1>14,
       <1>15 DEF Moves, Step

LEMMA OwnCall ==
  ASSUME TypeOK, NEW p \in Process, CallInv(p), Moves(p)
  PROVE  CallInv(p)'
<1>0. own[p] \in Batch \cup {None} /\ None \notin Batch /\ journal \in Batch \cup {None}
  BY DEF TypeOK, Batch
<1> USE <1>0 DEF TypeOK, CallInv, Goto, Over, Throw, Return, Winner, Delete, Owning, Resolves,
                 Undeleted, Loser
<1>1. CASE Ask(p)
  BY <1>1 DEF Ask
<1>2. CASE Load(p)
  BY <1>2 DEF Load
<1>3. CASE Check(p)
  BY <1>3 DEF Check
<1>4. CASE Evict(p)
  BY <1>4 DEF Evict
<1>5. CASE Generate(p)
  <2>1. ASSUME NEW b \in Batch, own' = [own EXCEPT ![p] = b],
               files' = [files EXCEPT ![b] = "whole"], Goto(p, "verify"),
               UNCHANGED <<found, tries, after>>, pc[p] = "generate"
        PROVE  CallInv(p)'
    <3>1. /\ own'[p] = b /\ files'[b] = "whole" /\ pc'[p] = "verify" /\ b # None
          /\ found'[p] = found[p] /\ tries'[p] = tries[p] /\ after'[p] = after[p]
      BY <2>1
    <3> QED BY <2>1, <3>1
  <2>2. CASE Throw(p)
    BY <2>2
  <2> QED BY <1>5, <2>1, <2>2 DEF Generate
<1>6. CASE Verify(p)
  BY <1>6 DEF Verify
<1>7. CASE Commit(p)
  <2>1. own'[p] = own[p] /\ own[p] # None /\ files' = files
    BY <1>7 DEF Commit
  <2>2. CASE pc'[p] = "confirm" /\ found'[p] = Winner(own[p]) /\ after'[p] = after[p]
    BY <1>7, <2>1, <2>2 DEF Commit
  <2>3. CASE pc'[p] = "delete" /\ after'[p] = "withdraw"
    BY <1>7, <2>1, <2>3 DEF Commit
  <2> QED BY <1>7, <2>2, <2>3 DEF Commit
<1>8. CASE Confirm(p)
  <2>1. CASE Return(p, found[p])
    BY <2>1
  <2>2. CASE /\ found[p] # own[p] /\ Delete(p, "return")
             /\ UNCHANGED <<own, found, tries, answers>>
    BY <1>8, <2>2 DEF Confirm
  <2>3. CASE Goto(p, "expel") /\ UNCHANGED <<own, found, tries, after, answers>>
    BY <1>8, <2>3 DEF Confirm
  <2> QED BY <1>8, <2>1, <2>2, <2>3 DEF Confirm
<1>9. CASE Expel(p)
  <2>1. CASE Throw(p)
    BY <2>1
  <2>2. CASE /\ tries[p] < Tries /\ Goto(p, "commit")
             /\ UNCHANGED <<own, found, tries, after, answers>>
    BY <1>9, <2>2 DEF Expel
  <2>3. CASE Delete(p, "throw") /\ UNCHANGED <<own, found, tries, answers>>
    BY <1>9, <2>3 DEF Expel
  <2> QED BY <1>9, <2>1, <2>2, <2>3 DEF Expel
<1>10. CASE DeleteFirst(p)
  BY <1>10 DEF DeleteFirst
<1>11. CASE DeleteRest(p)
  BY <1>11, EraseStep DEF Erased
<1>12. CASE Withdraw(p)
  BY <1>12 DEF Withdraw
<1>13. CASE Crash(p)
  BY <1>13 DEF Crash
<1>14. CASE Restart(p)
  BY <1>14 DEF Restart
<1>15. CASE Disown(p)
  BY <1>15 DEF Disown
<1> QED BY <1>1, <1>2, <1>3, <1>4, <1>5, <1>6, <1>7, <1>8, <1>9, <1>10, <1>11, <1>12, <1>13, <1>14,
       <1>15 DEF Moves, Step

LEMMA CallMoves ==
  ASSUME JournalInv, NEW p \in Process, Moves(p), NEW q \in Process
  PROVE  CallInv(q)'
<1>1. CASE q = p
  BY <1>1, OwnCall DEF JournalInv
<1>2. CASE q # p
  <2>1. Others(p) /\ FilesMove(p)
    BY TypeMoves, FileMoves DEF JournalInv
  <2>2. /\ own'[q] = own[q] /\ found'[q] = found[q] /\ tries'[q] = tries[q]
        /\ after'[q] = after[q] /\ pc'[q] = pc[q]
    BY <1>2, <2>1 DEF Others
  <2>3. own[q] # None => own[q] \in Batch /\ own[q] # own[p]
    BY <1>2 DEF JournalInv, OwnerInv, TypeOK
  <2>4. own[q] # None /\ files[own[q]] = "whole" => files'[own[q]] = "whole"
    BY <2>1, <2>3 DEF FilesMove
  <2> QED BY <2>2, <2>4 DEF JournalInv, CallInv, Owning
<1> QED BY <1>1, <1>2

(* What a call comes to hold, and to tell.  Only a commit that finds the  *)
(* journal empty makes a batch known.                                      *)
Wins(p) == pc[p] = "commit" /\ journal = None /\ journal' = own[p]

Stores(p) == /\ pc[p] = "generate" /\ own'[p] \in Batch
             /\ files[own'[p]] = "absent" /\ files'[own'[p]] = "whole"

Tells(p) ==
  /\ own'[p] \in {None, own[p]} \/ Stores(p)
  /\ journal' \in {journal, None} \/ Wins(p)
  /\ answers' \subseteq answers \cup {found[p]}
  /\ found'[p] \in {None, found[p], journal} \/ (Wins(p) /\ found'[p] = own[p])

LEMMA TellMoves ==
  ASSUME TypeOK, NEW p \in Process, CallInv(p), Moves(p)
  PROVE  Tells(p)
<1> USE DEF TypeOK, Tells, Wins, Stores, Goto, Over, Throw, Return, Winner, Invalidate, Delete,
           Undeleted
<1>1. CASE Ask(p)
  BY <1>1 DEF Ask
<1>2. CASE Load(p)
  BY <1>2 DEF Load
<1>3. CASE Check(p)
  BY <1>3 DEF Check
<1>4. CASE Evict(p)
  BY <1>4 DEF Evict
<1>5. CASE Generate(p)
  BY <1>5 DEF Generate
<1>6. CASE Verify(p)
  BY <1>6 DEF Verify
<1>7. CASE Commit(p)
  BY <1>7 DEF Commit
<1>8. CASE Confirm(p)
  BY <1>8 DEF Confirm
<1>9. CASE Expel(p)
  BY <1>9 DEF Expel
<1>10. CASE DeleteFirst(p)
  BY <1>10 DEF DeleteFirst
<1>11. CASE DeleteRest(p)
  BY <1>11, EraseStep DEF Erased
<1>12. CASE Withdraw(p)
  BY <1>12 DEF Withdraw
<1>13. CASE Crash(p)
  BY <1>13 DEF Crash
<1>14. CASE Restart(p)
  BY <1>14 DEF Restart
<1>15. CASE Disown(p)
  BY <1>15 DEF Disown
<1> QED BY <1>1, <1>2, <1>3, <1>4, <1>5, <1>6, <1>7, <1>8, <1>9, <1>10, <1>11, <1>12, <1>13, <1>14,
       <1>15 DEF Moves, Step

LEMMA KnownMoves ==
  ASSUME TypeOK, NEW p \in Process, CallInv(p), Moves(p), NEW b \in Batch, Published(b)'
  PROVE  Published(b) \/ (Wins(p) /\ b = own[p])
<1>1. Tells(p) /\ Others(p)
  BY TypeMoves, TellMoves
<1>2. None \notin Batch
  BY DEF Batch
<1>3. CASE journal' = b
  BY <1>1, <1>2, <1>3 DEF Tells, Wins, Published
<1>4. CASE b \in answers'
  BY <1>1, <1>4 DEF Tells, Wins, Published
<1>5. CASE \E q \in Process : found'[q] = b
  <2>1. PICK q \in Process : found'[q] = b
    BY <1>5
  <2> QED BY <1>1, <1>2, <2>1 DEF Tells, Wins, Others, Published
<1> QED BY <1>3, <1>4, <1>5 DEF Published

LEMMA OwnerMoves ==
  ASSUME JournalInv, NEW p \in Process, Moves(p)
  PROVE  OwnerInv'
<1>1. Tells(p) /\ Others(p)
  BY TypeMoves, TellMoves DEF JournalInv
<1>2. ASSUME NEW q \in Process, q # p, own'[p] = own[q], own[q] # None PROVE FALSE
  <2>1. own[q] \in Batch /\ files[own[q]] # "absent"
    BY <1>2 DEF JournalInv, StoredInv, TypeOK
  <2>2. own'[p] = own[p]
    BY <1>1, <1>2, <2>1 DEF Tells, Stores
  <2> QED BY <1>2, <2>2 DEF JournalInv, OwnerInv
<1> QED BY <1>1, <1>2 DEF Others, OwnerInv, JournalInv

LEMMA StoredMoves ==
  ASSUME JournalInv, NEW p \in Process, Moves(p)
  PROVE  StoredInv'
<1> SUFFICES ASSUME NEW b \in Batch, Published(b)' \/ (\E q \in Process : own'[q] = b)
             PROVE  files'[b] # "absent"
  BY DEF StoredInv, Published
<1>1. Tells(p) /\ Others(p) /\ FilesMove(p)
  BY TypeMoves, TellMoves, FileMoves DEF JournalInv
<1>2. CASE files[b] # "absent"
  BY <1>1, <1>2 DEF FilesMove
<1>3. CASE files[b] = "absent"
  <2>1. ~Published(b) /\ \A q \in Process : own[q] # b
    BY <1>3 DEF JournalInv, StoredInv
  <2>2. ~Published(b)'
    BY <2>1, KnownMoves DEF JournalInv
  <2>3. own'[p] = b
    BY <1>1, <2>1, <2>2 DEF Others
  <2> QED BY <1>1, <2>1, <2>3 DEF Tells, Stores, Batch
<1> QED BY <1>2, <1>3

-----------------------------------------------------------------------------
(* No commit that took effect reported an error, and an invalidation       *)
(* failed only if every pair could be read, or the other way round.        *)
Sound(f) == f["lost"] = 0 /\ (f["stuck"] = 0 \/ f["unread"] = 0)
Readable(f) == f["lost"] = 0 /\ f["unread"] = 0
Clean(f) == Readable(f) /\ f["kept"] = 0

LEMMA FaultsStay ==
  ASSUME TypeOK, NEW p \in Process, Moves(p)
  PROVE  /\ Sound(faults') => Sound(faults)
         /\ Readable(faults') => Readable(faults) /\ Sound(faults)
         /\ Clean(faults') => Clean(faults)
<1>1. /\ faults \in [Fault -> 0..MaxFailures] /\ faults' \in [Fault -> 0..MaxFailures]
      /\ FaultsGrow
  BY FaultMoves DEF TypeOK
<1>2. \A f \in {"lost", "stuck", "unread", "kept"} :
        faults[f] \in Nat /\ faults'[f] \in Nat /\ faults'[f] >= faults[f]
  BY <1>1 DEF FaultsGrow, Fault
<1> QED BY <1>2 DEF Sound, Readable, Clean

(* Where the batch of a call is still private, it was so before.           *)
LEMMA PrivateStep ==
  ASSUME JournalInv, NEW p \in Process, Moves(p), Sound(faults'), Private(p)'
  PROVE  Stores(p) \/ (Private(p) /\ own'[p] = own[p] /\ ~Wins(p))
<1>0. /\ TypeOK /\ CallInv(p) /\ own[p] \in Batch \cup {None} /\ None \notin Batch
      /\ "lost" \in Fault /\ "stuck" \in Fault
  BY DEF JournalInv, TypeOK, Batch, Fault
<1>00. CallInv(p)'
  BY CallMoves
<1> USE <1>0 DEF TypeOK, Private, Stores, Wins, Goto, Over, Throw, Return, Winner, Delete,
                 Undeleted
<1>1. CASE Ask(p)
  BY <1>1 DEF Ask
<1>2. CASE Load(p)
  BY <1>2 DEF Load
<1>3. CASE Check(p)
  BY <1>3 DEF Check
<1>4. CASE Evict(p)
  BY <1>4 DEF Evict
<1>5. CASE Generate(p)
  BY <1>5 DEF Generate
<1>6. CASE Verify(p)
  BY <1>6 DEF Verify
<1>7. CASE Commit(p)
  <2>1. Private(p) /\ own'[p] = own[p] /\ own[p] \in Batch
    BY <1>7 DEF Commit, CallInv, Owning
  <2>2. ~Fails("lost")
    BY FaultSteps DEF Sound
  <2>3. CASE journal' = journal
    BY <2>1, <2>3
  <2>4. CASE pc'[p] = "confirm" /\ found'[p] = Winner(own[p])
    BY <2>1, <2>4
  <2> QED BY <1>7, <2>2, <2>3, <2>4 DEF Commit
<1>8. CASE Confirm(p)
  BY <1>8 DEF Confirm
<1>9. CASE Expel(p)
  <2>1. pc[p] = "expel" /\ ~Wins(p)
    BY <1>9 DEF Expel
  <2>2. own'[p] = own[p]
    BY <1>9 DEF Expel
  <2>3. ~Fails("stuck")
    <3>1. ASSUME Fails("stuck") PROVE FALSE
      <4>1. faults'["stuck"] > 0
        BY <3>1, FaultSteps
      <4>2. Readable(faults')
        BY <4>1 DEF Sound, Readable
      <4> QED BY <2>1, <4>2, FaultsStay DEF JournalInv, FirstInv, Readable
    <3> QED BY <3>1
  <2>4. found[p] # own[p]
    BY <1>9, <2>3 DEF Expel
  <2> QED BY <2>1, <2>2, <2>4
<1>10. CASE DeleteFirst(p)
  BY <1>10 DEF DeleteFirst
<1>11. CASE DeleteRest(p)
  BY <1>11, EraseStep DEF Erased
<1>12. CASE Withdraw(p)
  BY <1>12 DEF Withdraw
<1>13. CASE Crash(p)
  BY <1>13 DEF Crash
<1>14. CASE Restart(p)
  BY <1>14 DEF Restart
<1>15. CASE Disown(p)
  BY <1>15 DEF Disown
<1> QED BY <1>1, <1>2, <1>3, <1>4, <1>5, <1>6, <1>7, <1>8, <1>9, <1>10, <1>11, <1>12, <1>13, <1>14,
       <1>15 DEF Moves, Step

LEMMA PrivateMoves ==
  ASSUME JournalInv, NEW p \in Process, Moves(p)
  PROVE  PrivateInv'
<1> SUFFICES ASSUME Sound(faults')
             PROVE  /\ \A q \in Process : Private(q)' => ~Published(own[q])'
                    /\ \A b \in Batch : Published(b)' => files'[b] = "whole"
  BY DEF PrivateInv, Sound
<1>1. /\ TypeOK /\ CallInv(p) /\ Tells(p) /\ Others(p) /\ FilesMove(p)
  BY TypeMoves, TellMoves, FileMoves DEF JournalInv
<1>2. /\ \A q \in Process : Private(q) => ~Published(own[q])
      /\ \A b \in Batch : Published(b) => files[b] = "whole"
  BY <1>1, FaultsStay DEF JournalInv, PrivateInv, Sound
<1>3. \A q \in Process : Private(q) => own[q] \in Batch
  BY DEF JournalInv, TypeOK, CallInv, Private, Owning
<1>4. ASSUME NEW q \in Process, Private(q)' PROVE ~Published(own[q])'
  <2>1. CASE q = p /\ Stores(p)
    <3>1. own'[p] \in Batch /\ ~Published(own'[p])
      BY <2>1 DEF Stores, JournalInv, StoredInv
    <3>2. ~Wins(p)
      BY <2>1 DEF Stores, Wins
    <3> DEFINE b == own'[p]
    <3>3. ASSUME NEW c \in Batch, Published(c)' PROVE Published(c)
      BY <1>1, <3>2, <3>3, KnownMoves
    <3> QED BY <2>1, <3>1, <3>3 DEF Published
  <2>2. CASE q = p /\ Private(p) /\ own'[p] = own[p] /\ ~Wins(p)
    <3>1. ASSUME NEW c \in Batch, Published(c)' PROVE Published(c)
      BY <1>1, <2>2, <3>1, KnownMoves
    <3> QED BY <1>2, <1>3, <2>2, <3>1 DEF Published
  <2>3. CASE q # p
    <3>1. Private(q) /\ own'[q] = own[q]
      BY <1>1, <1>4, <2>3 DEF Others, Private
    <3>2. own[q] \in Batch /\ own[q] # own[p] /\ ~Published(own[q])
      BY <1>2, <1>3, <2>3, <3>1 DEF JournalInv, OwnerInv, Batch
    <3>3. ASSUME NEW c \in Batch, c # own[p], Published(c)' PROVE Published(c)
      BY <1>1, <3>3, KnownMoves
    <3> QED BY <3>1, <3>2, <3>3 DEF Published
  <2> QED BY <1>4, <2>1, <2>2, <2>3, PrivateStep
<1>5. ASSUME NEW b \in Batch, Published(b)' PROVE files'[b] = "whole"
  <2>1. CASE Published(b)
    <3>1. files[b] = "whole"
      BY <1>2, <2>1
    <3>2. ~(pc[p] \in {"delete", "erase"} /\ b = own[p])
      BY <1>2, <2>1 DEF Private
    <3> QED BY <1>1, <3>1, <3>2 DEF FilesMove
  <2>2. CASE Wins(p) /\ b = own[p]
    BY <1>1, <2>2 DEF FilesMove, Wins, CallInv
  <2> QED BY <1>1, <1>5, <2>1, <2>2, KnownMoves
<1> QED BY <1>4, <1>5

(* While every pair can be read and every loser's batch deleted, nothing   *)
(* is removed from the journal.                                            *)
LEMMA FirstStep ==
  ASSUME JournalInv, NEW p \in Process, Moves(p), Readable(faults')
  PROVE  /\ pc'[p] \notin {"evict", "expel"}
         /\ Clean(faults') => pc'[p] # "disown" /\ (journal' = journal \/ Wins(p))
<1>0. /\ TypeOK /\ CallInv(p) /\ Readable(faults) /\ Sound(faults)
      /\ {"lost", "unread", "kept"} \subseteq Fault
  BY FaultsStay DEF JournalInv, Fault
<1>1a. pc[p] \notin {"evict", "expel"}
  BY <1>0 DEF JournalInv, FirstInv, Readable
<1>1b. /\ Private(p) => journal # own[p]
       /\ found[p] \in Batch => files[found[p]] = "whole"
  BY <1>0 DEF JournalInv, PrivateInv, Sound, Published
<1>1c. pc[p] \in {"check", "confirm"} => found[p] \in Batch
  BY <1>0 DEF TypeOK, CallInv
<1>1d. /\ Fails("unread") => faults'["unread"] > 0
       /\ Fails("kept") => faults'["kept"] > 0
  BY <1>0, FaultSteps
<1>1e. ~Fails("unread") /\ (Clean(faults') => ~Fails("kept"))
  BY <1>1d DEF Readable, Clean
<1>1f. Clean(faults') => pc[p] # "disown"
  BY <1>0, FaultsStay DEF JournalInv, FirstInv, Readable, Clean
<1>1g. pc[p] = "delete" /\ after[p] = "return" => files[own[p]] = "whole"
  BY <1>0 DEF CallInv
<1> USE <1>0, <1>1a, <1>1b, <1>1c, <1>1e, <1>1f, <1>1g
    DEF TypeOK, Private, Wins, Goto, Over, Throw, Return, Winner, Delete, Invalidate, Unresolved,
        Undeleted
<1>1. CASE Ask(p)
  BY <1>1 DEF Ask
<1>2. CASE Load(p)
  BY <1>2 DEF Load
<1>3. CASE Check(p)
  BY <1>3 DEF Check
<1>4. CASE Evict(p)
  BY <1>4 DEF Evict
<1>5. CASE Generate(p)
  BY <1>5 DEF Generate
<1>6. CASE Verify(p)
  BY <1>6 DEF Verify
<1>7. CASE Commit(p)
  BY <1>7 DEF Commit
<1>8. CASE Confirm(p)
  BY <1>8 DEF Confirm
<1>9. CASE Expel(p)
  BY <1>9 DEF Expel
<1>10. CASE DeleteFirst(p)
  BY <1>10 DEF DeleteFirst, Loser
<1>11. CASE DeleteRest(p)
  BY <1>11, EraseStep DEF Erased
<1>12. CASE Withdraw(p)
  BY <1>12 DEF Withdraw
<1>13. CASE Crash(p)
  BY <1>13 DEF Crash
<1>14. CASE Restart(p)
  BY <1>14 DEF Restart
<1>15. CASE Disown(p)
  BY <1>15 DEF Disown
<1> QED BY <1>1, <1>2, <1>3, <1>4, <1>5, <1>6, <1>7, <1>8, <1>9, <1>10, <1>11, <1>12, <1>13, <1>14,
       <1>15 DEF Moves, Step

LEMMA FirstMoves ==
  ASSUME JournalInv, NEW p \in Process, Moves(p)
  PROVE  FirstInv'
<1> SUFFICES ASSUME Readable(faults')
             PROVE  /\ \A q \in Process : pc'[q] \notin {"evict", "expel"}
                    /\ Clean(faults') =>
                         /\ \A q \in Process : pc'[q] # "disown" /\ found'[q] \in {None, journal'}
                         /\ answers' \subseteq {journal'}
  BY DEF FirstInv, Readable, Clean
<1>1. /\ TypeOK /\ TypeOK' /\ Tells(p) /\ Others(p)
  BY TypeMoves, TellMoves DEF JournalInv
<1>2. \A q \in Process : pc[q] \notin {"evict", "expel"}
  BY <1>1, FaultsStay DEF JournalInv, FirstInv, Readable
<1>3. \A q \in Process : pc'[q] \notin {"evict", "expel"}
  BY <1>1, <1>2, FirstStep DEF Others
<1>4. ASSUME Clean(faults')
      PROVE  /\ \A q \in Process : pc'[q] # "disown" /\ found'[q] \in {None, journal'}
             /\ answers' \subseteq {journal'}
  <2>1. /\ \A q \in Process : pc[q] # "disown" /\ found[q] \in {None, journal}
        /\ answers \subseteq {journal}
    BY <1>1, <1>4, FaultsStay DEF JournalInv, FirstInv, Readable, Clean
  <2>2. None \notin answers'
    BY <1>1 DEF TypeOK, Batch
  <2>3. pc'[p] # "disown" /\ (journal' = journal \/ (Wins(p) /\ journal = None))
    BY <1>4, FirstStep DEF Wins
  <2>4. \A q \in Process : pc'[q] # "disown"
    BY <1>1, <2>1, <2>3 DEF Others
  <2>5. \A q \in Process : found'[q] \in {None, journal'}
    BY <1>1, <2>1, <2>3 DEF Others, Tells, Wins
  <2>6. answers' \subseteq {journal'}
    BY <1>1, <2>1, <2>2, <2>3 DEF Tells
  <2> QED BY <2>4, <2>5, <2>6
<1> QED BY <1>3, <1>4

-----------------------------------------------------------------------------
LEMMA JournalInitInv == Init => JournalInv
<1> SUFFICES ASSUME Init PROVE JournalInv
  OBVIOUS
<1>1. TypeOK
  BY DEF Init, TypeOK, FileState, PC, Fault
<1>2. \A p \in Process : CallInv(p)
  BY DEF Init, CallInv, Owning
<1>3. OwnerInv /\ StoredInv /\ PrivateInv /\ FirstInv
  BY DEF Init, OwnerInv, StoredInv, PrivateInv, FirstInv, Published, Private, Batch
<1> QED BY <1>1, <1>2, <1>3 DEF JournalInv

LEMMA JournalNextInv == JournalInv /\ [Next]_vars => JournalInv'
<1> SUFFICES ASSUME JournalInv, [Next]_vars PROVE JournalInv'
  OBVIOUS
<1>1. CASE Next
  <2>1. PICK p \in Process : Moves(p)
    BY <1>1 DEF Next, Moves
  <2>2. TypeOK'
    BY <2>1, TypeMoves DEF JournalInv
  <2>3. \A q \in Process : CallInv(q)'
    BY <2>1, CallMoves
  <2> QED BY <2>1, <2>2, <2>3, OwnerMoves, StoredMoves, PrivateMoves, FirstMoves DEF JournalInv
<1>2. CASE UNCHANGED vars
  BY <1>2 DEF vars, JournalInv, TypeOK, CallInv, OwnerInv, StoredInv, Published, Private,
              PrivateInv, FirstInv
<1> QED BY <1>1, <1>2

(* What every call holds, who owns which batch and what is known of it: a  *)
(* call deletes its own batch only while no other call, journal entry or   *)
(* answer has it, a failed deletion and the withdrawal of the winner that  *)
(* follows it included.                                                    *)
THEOREM ExecutionInvariance == Spec => []JournalInv
BY JournalInitInv, JournalNextInv, PTL DEF Spec

(* Every variable keeps its type: a call never exceeds its rounds of the   *)
(* load and of the commit loop.                                            *)
THEOREM ExecutionTypesHold == Spec => []TypeOK
<1>1. JournalInv => TypeOK
  BY DEF JournalInv
<1> QED BY <1>1, ExecutionInvariance, PTL

(* What was answered stays in the store, and as long as every pair can be  *)
(* read and every loser's batch deleted all callers are answered the same  *)
(* result: for any processes, stops, batches and rounds of the loops.      *)
THEOREM AnsweredAlwaysReadable == Spec => []AnsweredIsReadable
<1>1. JournalInv => AnsweredIsReadable
  <2> SUFFICES ASSUME JournalInv, faults["lost"] = 0
               PROVE  /\ faults["stuck"] = 0 => \A b \in answers : files[b] = "whole"
                      /\ faults["unread"] = 0 /\ faults["kept"] = 0 => Cardinality(answers) <= 1
    BY DEF AnsweredIsReadable
  <2>1. ASSUME faults["stuck"] = 0, NEW b \in answers PROVE files[b] = "whole"
    BY <2>1 DEF JournalInv, TypeOK, PrivateInv, Published
  <2>2. ASSUME faults["unread"] = 0, faults["kept"] = 0 PROVE Cardinality(answers) <= 1
    <3>1. answers \subseteq {journal}
      BY <2>2 DEF JournalInv, FirstInv
    <3>2. IsFiniteSet({journal}) /\ Cardinality({journal}) = 1
      BY FS_Singleton
    <3> QED BY <3>1, <3>2, FS_Subset
  <2> QED BY <2>1, <2>2
<1> QED BY <1>1, ExecutionInvariance, PTL

-----------------------------------------------------------------------------
(***************************************************************************)
(* The plan of a round's questions (StagePlan): for every graph of         *)
(* knowledge points, every learner, every list of objectives and every     *)
(* size of a form.                                                         *)
(*                                                                         *)
(* The walk.  A point that was looked at is listed, is being visited or is *)
(* known, and nothing else leaves a list of prerequisites (NothingDropped);*)
(* so when no visit is under way, what is listed or known covers the roots *)
(* and is closed under prerequisites, and the points that are reached, the *)
(* least such set, were all listed.  What is visited is needed by          *)
(* everything below it on the stack (StackSound), so meeting it again is a *)
(* cycle of the graph.                                                     *)
(*                                                                         *)
(* The form.  The gate asks for a matching of objectives to required       *)
(* modalities, the plan is greedy.  They agree since the invariant Room    *)
(* always has a matching of those who wait to open questions, and whoever  *)
(* is served can take any question: two behaviours that share a modality   *)
(* are nested in what measures them (MeasuringNested), and the one with    *)
(* fewer questions comes first, so the one who loses a question in the     *)
(* exchange can use the one that was meant for the other (Exchangeable).   *)
(***************************************************************************)
HIDE BoundAssumption

-----------------------------------------------------------------------------
(* Induction over sets of numbers: what a set has when it has 0 and, with   *)
(* every number, the next one.  (The induction theorems of the library take *)
(* a predicate; a least counterexample says the same of a set.)            *)
LEMMA NatSetInduction ==
  ASSUME NEW S, 0 \in S, \A n \in Nat : n \in S => n + 1 \in S
  PROVE  Nat \subseteq S
<1>1. SUFFICES ASSUME Nat \ S # {} PROVE FALSE
  OBVIOUS
<1>2. IsWellFoundedOn(OpToRel(<, Nat), Nat)
  BY NatLessThanWellFounded
<1>3. PICK x \in Nat \ S : \A y \in Nat \ S : ~ (<<y, x>> \in OpToRel(<, Nat))
  BY <1>1, <1>2, WFMin
<1>4. x \in Nat /\ x \notin S
  BY Zenon, <1>3
<1>4a. x # 0
  BY Zenon, <1>4
<1>4b. x - 1 \in Nat /\ (x - 1) + 1 = x
  BY <1>4, <1>4a
<1>5. <<x - 1, x>> \in OpToRel(<, Nat)
  BY <1>4, <1>4b DEF OpToRel
<1>6. x - 1 \in S
  BY Zenon, <1>3, <1>4b, <1>5
<1> QED
  BY <1>4, <1>4b, <1>6

(* The same for the numbers up to n.                                       *)
LEMMA PrefixInduction ==
  ASSUME NEW n \in Nat, NEW S, 0 \in S, \A k \in 1..n : k - 1 \in S => k \in S
  PROVE  0..n \subseteq S
<1> DEFINE T == {k \in Nat : k <= n => k \in S}
<1>1. 0 \in T
  OBVIOUS
<1>2. ASSUME NEW k \in Nat, k \in T PROVE k + 1 \in T
  <2>1. CASE k + 1 <= n
    <3>1. k + 1 \in 1..n /\ k \in S /\ (k + 1) - 1 = k
      BY <1>2, <2>1
    <3> QED
      BY <3>1
  <2> QED
    BY <2>1
<1>3. Nat \subseteq T
  <2> HIDE DEF T
  <2> QED
    BY <1>1, <1>2, NatSetInduction
<1> QED
  BY <1>3

(* A function defined step by step over 0..n exists.                       *)
HasSteps(n, T, base, op) ==
  \E f \in [0..n -> T] : \A k \in 0..n : f[k] = IF k = 0 THEN base ELSE op[<<f[k - 1], k>>]

LEMMA StepByStep ==
  ASSUME NEW n \in Nat, NEW T, NEW base \in T, NEW op \in [T \X (1..n) -> T]
  PROVE  HasSteps(n, T, base, op)
<1> DEFINE Good(m, f) == \A k \in 0..m : f[k] = IF k = 0 THEN base ELSE op[<<f[k - 1], k>>]
           S == {m \in 0..n : \E f \in [0..n -> T] : Good(m, f)}
<1>1. 0 \in S
  <2>1. [k \in 0..n |-> base] \in [0..n -> T]
    OBVIOUS
  <2>2. Good(0, [k \in 0..n |-> base])
    OBVIOUS
  <2> HIDE DEF Good
  <2> QED
    BY <2>1, <2>2
<1>2. ASSUME NEW k \in 1..n, k - 1 \in S PROVE k \in S
  <2>1. PICK f \in [0..n -> T] : Good(k - 1, f)
    BY <1>2
  <2>2. op[<<f[k - 1], k>>] \in T
    OBVIOUS
  <2> DEFINE g == [f EXCEPT ![k] = op[<<f[k - 1], k>>]]
  <2>3. g \in [0..n -> T]
    BY <2>2
  <2>4. ASSUME NEW j \in 0..k PROVE g[j] = IF j = 0 THEN base ELSE op[<<g[j - 1], j>>]
    <3>1. CASE j = k
      BY <3>1
    <3>2. CASE j # k
      <4>1. j \in 0..(k - 1) /\ g[j] = f[j] /\ (j # 0 => g[j - 1] = f[j - 1])
        BY <3>2
      <4> QED
        BY <4>1, <2>1
    <3> QED
      BY <3>1, <3>2
  <2>5. Good(k, g)
    BY <2>4
  <2> HIDE DEF Good, g
  <2> QED
    BY <2>3, <2>5
<1>3. 0..n \subseteq S
  <2> HIDE DEF S
  <2> QED
    BY <1>1, <1>2, PrefixInduction
<1> QED
  BY <1>3 DEF HasSteps

(* The counts of the tiers, question by question.                          *)
Counts(modes) ==
  CHOOSE t : t = [k \in 0..Len(modes) |-> IF k = 0 THEN <<0, 0, 0>> ELSE OneMore(t[k - 1], modes[k])]

LEMMA AllocatedTiersIs ==
  ASSUME NEW modes
  PROVE  AllocatedTiers(modes)
           = LET all == Counts(modes)[Len(modes)]
             IN IF all[1] + all[2] = 0 THEN [all EXCEPT ![3] = @ - 1, ![2] = @ + 1] ELSE all
BY DEF AllocatedTiers, Counts

LEMMA OneMoreType ==
  ASSUME NEW t \in [Tier -> Nat], NEW m
  PROVE  OneMore(t, m) \in [Tier -> Nat]
<1> DEFINE j == Fallback[TierOf[m]][SelectInSeq(Fallback[TierOf[m]], LAMBDA k : t[k] < MaxTier)]
<1>1. OneMore(t, m) = [t EXCEPT ![j] = @ + 1]
  BY DEF OneMore
<1> HIDE DEF j
<1>2. [t EXCEPT ![j] = @ + 1] \in [Tier -> Nat]
  <2>1. CASE j \in Tier
    BY <2>1
  <2>2. CASE j \notin Tier
    BY <2>2
  <2> QED
    BY <2>1, <2>2
<1> QED
  BY <1>1, <1>2

(* As long as some tier has room, a question goes to a tier that has.      *)
LEMMA OneMoreIs ==
  ASSUME NEW t \in [Tier -> Nat], NEW m \in Modality, \E k \in Tier : t[k] < MaxTier
  PROVE  \E j \in Tier : t[j] < MaxTier /\ OneMore(t, m) = [t EXCEPT ![j] = @ + 1]
<1> DEFINE order == Fallback[TierOf[m]]
           I == {i \in 1..Len(order) : t[order[i]] < MaxTier}
<1>1. order \in {<<1, 2, 3>>, <<2, 3, 1>>, <<3, 2, 1>>}
  BY DEF Fallback, TierOf, Modality
<1>2. Len(order) = 3 /\ \A k \in Tier : \E i \in 1..3 : order[i] = k
  BY <1>1 DEF Tier
<1>3. \A i \in 1..3 : order[i] \in Tier
  BY <1>1 DEF Tier
<1> HIDE DEF order
<1>4. I # {} /\ I \subseteq 1..3
  BY <1>2
<1>5. \E i \in I : \A k \in I : i <= k
  BY <1>4
<1>6. Min(I) \in I
  BY <1>5 DEF Min
<1>7. SelectInSeq(order, LAMBDA k : t[k] < MaxTier) = Min(I)
  BY <1>4 DEF SelectInSeq
<1>8. OneMore(t, m) = [t EXCEPT ![order[Min(I)]] = @ + 1]
  BY <1>7 DEF OneMore, order
<1> QED
  BY <1>3, <1>4, <1>6, <1>8

LEMMA CountsAre ==
  ASSUME NEW modes \in Seq(Modality), Len(modes) <= MaxSlots
  PROVE  \A k \in 0..Len(modes) :
           LET t == Counts(modes)[k]
           IN t \in [Tier -> 0..MaxTier] /\ Total(t) = k
<1> DEFINE n == Len(modes)
           T == [Tier -> Nat]
           op == [q \in T \X (1..n) |-> OneMore(q[1], modes[q[2]])]
           c == Counts(modes)
<1>0. n \in Nat /\ n <= MaxSlots /\ \A k \in 1..n : modes[k] \in Modality
  OBVIOUS
<1>1. <<0, 0, 0>> \in T
  BY DEF Tier
<1>2. op \in [T \X (1..n) -> T]
  BY OneMoreType
<1>3. \A t \in T, k \in 1..n : op[<<t, k>>] = OneMore(t, modes[k])
  OBVIOUS
<1> HIDE DEF op, n
<1>4. PICK f \in [0..n -> T] : \A k \in 0..n : f[k] = IF k = 0 THEN <<0, 0, 0>> ELSE op[<<f[k - 1], k>>]
  <2> DEFINE zero == <<0, 0, 0>>
  <2>1. zero \in T
    BY <1>1
  <2> HIDE DEF T, zero
  <2>2. HasSteps(n, T, zero, op)
    BY <1>0, <1>2, <2>1, StepByStep
  <2> QED
    BY <2>2 DEF zero, HasSteps
<1>5. \A k \in 1..n : f[k - 1] \in T /\ f[k] = OneMore(f[k - 1], modes[k])
  <2> HIDE DEF T
  <2>1. ASSUME NEW k \in 1..n PROVE k # 0 /\ k \in 0..n /\ k - 1 \in 0..n
    BY <1>0
  <2> QED
    BY <2>1, <1>3, <1>4
<1>6. f = [k \in 0..n |-> IF k = 0 THEN <<0, 0, 0>> ELSE OneMore(f[k - 1], modes[k])]
  <2> HIDE DEF T
  <2>1. \A k \in 0..n : k # 0 => k \in 1..n
    BY <1>0
  <2>2. \A k \in 0..n : f[k] = IF k = 0 THEN <<0, 0, 0>> ELSE OneMore(f[k - 1], modes[k])
    BY <2>1, <1>4, <1>5
  <2> QED
    BY <2>2
<1>7. c = [k \in 0..n |-> IF k = 0 THEN <<0, 0, 0>> ELSE OneMore(c[k - 1], modes[k])]
  BY <1>6 DEF Counts, n
<1>8. c[0] = <<0, 0, 0>> /\ \A k \in 1..n : c[k] = OneMore(c[k - 1], modes[k])
  <2> DEFINE g == [k \in 0..n |-> IF k = 0 THEN <<0, 0, 0>> ELSE OneMore(c[k - 1], modes[k])]
  <2> HIDE DEF c
  <2>1. c = g
    BY <1>7
  <2>2. g[0] = <<0, 0, 0>>
    BY <1>0
  <2>3. ASSUME NEW k \in 1..n PROVE g[k] = OneMore(c[k - 1], modes[k])
    BY <1>0
  <2> HIDE DEF g
  <2> QED
    BY <2>1, <2>2, <2>3
<1> DEFINE S == {k \in 0..n : c[k] \in [Tier -> 0..MaxTier] /\ Total(c[k]) = k}
<1> HIDE DEF c
<1>9. 0 \in S
  <2>1. 0 \in 0..n /\ 0 \in 0..MaxTier
    BY <1>0, PlanAssumption
  <2>2. <<0, 0, 0>> \in [Tier -> 0..MaxTier]
    BY <2>1 DEF Tier
  <2>3. Total(<<0, 0, 0>>) = 0
    BY DEF Total
  <2> QED
    BY <1>8, <2>1, <2>2, <2>3
<1>10. ASSUME NEW k \in 1..n, k - 1 \in S PROVE k \in S
  <2> DEFINE t == c[k - 1]
  <2>1. t \in [Tier -> 0..MaxTier] /\ Total(t) = k - 1
    BY <1>10
  <2> HIDE DEF t
  <2>2. k - 1 < MaxSlots /\ modes[k] \in Modality
    BY <1>0, PlanAssumption
  <2>3. \E j \in Tier : t[j] < MaxTier
    BY <2>1, <2>2, PlanAssumption DEF Total, Tier
  <2>4. t \in [Tier -> Nat]
    BY <2>1, PlanAssumption
  <2>5. PICK j \in Tier : t[j] < MaxTier /\ OneMore(t, modes[k]) = [t EXCEPT ![j] = @ + 1]
    BY <2>2, <2>3, <2>4, OneMoreIs
  <2>6. [t EXCEPT ![j] = @ + 1] \in [Tier -> 0..MaxTier]
    BY <2>1, <2>5, PlanAssumption
  <2>7. Total([t EXCEPT ![j] = @ + 1]) = Total(t) + 1
    <3>1. t[1] \in Nat /\ t[2] \in Nat /\ t[3] \in Nat /\ DOMAIN t = Tier
      BY <2>4 DEF Tier
    <3>2. j = 1 \/ j = 2 \/ j = 3
      BY DEF Tier
    <3> QED
      BY <3>1, <3>2 DEF Total, Tier
  <2>8. c[k] = [t EXCEPT ![j] = @ + 1]
    BY <1>8, <2>5 DEF t
  <2>9. k \in 0..n /\ (k - 1) + 1 = k
    BY <1>0
  <2> QED
    BY <2>1, <2>6, <2>7, <2>8, <2>9
<1>11. 0..n \subseteq S
  <2> HIDE DEF S
  <2> QED
    BY <1>0, <1>9, <1>10, PrefixInduction
<1> QED
  BY <1>11 DEF c, n

(* What role B hands out: every question has a tier, no tier is too full,   *)
(* and a question of the first two tiers can open the round.               *)
LEMMA AllocatedTiersAre ==
  ASSUME NEW modes \in Seq(Modality), Len(modes) \in 1..MaxSlots
  PROVE  /\ AllocatedTiers(modes) \in [Tier -> 0..MaxTier]
         /\ Total(AllocatedTiers(modes)) = Len(modes)
         /\ AllocatedTiers(modes)[1] + AllocatedTiers(modes)[2] >= 1
<1> DEFINE all == Counts(modes)[Len(modes)]
<1>1. all \in [Tier -> 0..MaxTier] /\ Total(all) = Len(modes)
  BY CountsAre
<1>2. AllocatedTiers(modes) = IF all[1] + all[2] = 0 THEN [all EXCEPT ![3] = @ - 1, ![2] = @ + 1] ELSE all
  BY AllocatedTiersIs
<1> HIDE DEF all
<1> QED
  BY <1>1, <1>2, PlanAssumption DEF Total, Tier

(* The modalities of the questions, each once: those of a node whose        *)
(* questions after the first are all of one kind.                          *)
Kinds(s) ==
  CHOOSE u : u = [k \in 0..Len(s) |->
                    IF k = 0 THEN << >>
                    ELSE IF Contains(u[k - 1], s[k]) THEN u[k - 1] ELSE Append(u[k - 1], s[k])]

LEMMA DistinctIs ==
  ASSUME NEW s
  PROVE  Distinct(s) = Kinds(s)[Len(s)]
BY DEF Distinct, Kinds

LEMMA KindsAre ==
  ASSUME NEW s \in Seq(Modality)
  PROVE  /\ Kinds(s)[0] = << >>
         /\ \A k \in 1..Len(s) :
              Kinds(s)[k] = IF Contains(Kinds(s)[k - 1], s[k]) THEN Kinds(s)[k - 1]
                            ELSE Append(Kinds(s)[k - 1], s[k])
<1> DEFINE n == Len(s)
           T == Seq(Modality)
           next(u, k) == IF Contains(u, s[k]) THEN u ELSE Append(u, s[k])
           op == [q \in T \X (1..n) |-> next(q[1], q[2])]
           c == Kinds(s)
           base == << >>
<1>0. n \in Nat /\ \A k \in 1..n : s[k] \in Modality
  OBVIOUS
<1>1. base \in T
  OBVIOUS
<1>2. op \in [T \X (1..n) -> T]
  OBVIOUS
<1>3. \A u \in T, k \in 1..n : op[<<u, k>>] = next(u, k)
  OBVIOUS
<1> HIDE DEF op, n, T, next, base
<1>4. PICK f \in [0..n -> T] : \A k \in 0..n : f[k] = IF k = 0 THEN base ELSE op[<<f[k - 1], k>>]
  <2>2. HasSteps(n, T, base, op)
    BY <1>0, <1>1, <1>2, StepByStep
  <2> QED
    BY <2>2 DEF HasSteps
<1>5. \A k \in 1..n : f[k - 1] \in T /\ f[k] = next(f[k - 1], k)
  <2>1. ASSUME NEW k \in 1..n PROVE k # 0 /\ k \in 0..n /\ k - 1 \in 0..n
    BY <1>0
  <2> QED
    BY <2>1, <1>3, <1>4
<1>6. f = [k \in 0..n |-> IF k = 0 THEN base ELSE next(f[k - 1], k)]
  <2>1. \A k \in 0..n : k # 0 => k \in 1..n
    BY <1>0
  <2>2. \A k \in 0..n : f[k] = IF k = 0 THEN base ELSE next(f[k - 1], k)
    BY <2>1, <1>4, <1>5
  <2> QED
    BY <2>2
<1>7. c = [k \in 0..n |-> IF k = 0 THEN base ELSE next(c[k - 1], k)]
  BY <1>6 DEF Kinds, n, next, base
<1>8. c[0] = base /\ \A k \in 1..n : c[k] = next(c[k - 1], k)
  <2> DEFINE g == [k \in 0..n |-> IF k = 0 THEN base ELSE next(c[k - 1], k)]
  <2> HIDE DEF c
  <2>1. c = g
    BY <1>7
  <2>2. g[0] = base
    BY <1>0
  <2>3. ASSUME NEW k \in 1..n PROVE g[k] = next(c[k - 1], k)
    BY <1>0
  <2> HIDE DEF g
  <2> QED
    BY <2>1, <2>2, <2>3
<1> QED
  BY <1>8 DEF c, n, next, base

LEMMA DistinctOfTwo ==
  ASSUME NEW s \in Seq(Modality), NEW x \in Modality, NEW y \in Modality, Len(s) >= 1,
         s[1] = x, \A k \in 2..Len(s) : s[k] = y
  PROVE  Distinct(s) = IF Len(s) = 1 \/ x = y THEN <<x>> ELSE <<x, y>>
<1> DEFINE n == Len(s)
           c == Kinds(s)
           S == {k \in 0..n : c[k] = IF k = 0 THEN << >> ELSE IF k = 1 \/ x = y THEN <<x>> ELSE <<x, y>>}
<1>0. n \in Nat /\ n >= 1
  OBVIOUS
<1>1. c[0] = << >> /\ \A k \in 1..n : c[k] = IF Contains(c[k - 1], s[k]) THEN c[k - 1] ELSE Append(c[k - 1], s[k])
  BY KindsAre
<1>2. /\ \A z : ~ Contains(<< >>, z)
      /\ \A z : Contains(<<x>>, z) <=> z = x
      /\ \A z : Contains(<<x, y>>, z) <=> z = x \/ z = y
  BY DEF Contains
<1>3. Append(<< >>, x) = <<x>> /\ Append(<<x>>, y) = <<x, y>>
  <2>1. << >> \in Seq(Modality) /\ <<x>> \in Seq(Modality) /\ <<x, y>> \in Seq(Modality)
    OBVIOUS
  <2>2. Append(<< >>, x) = <<x>>
    BY <2>1, AppendProperties, SeqEqual
  <2>3. Append(<<x>>, y) = <<x, y>>
    <3> DEFINE a == Append(<<x>>, y)
               b == <<x, y>>
    <3>1. a \in Seq(Modality) /\ b \in Seq(Modality)
      BY <2>1
    <3>2. Len(<<x>>) = 1 /\ <<x>>[1] = x
      OBVIOUS
    <3>3. Len(a) = 2 /\ a[1] = x /\ a[2] = y
      BY <2>1, <3>2, AppendProperties
    <3>4. Len(b) = 2 /\ b[1] = x /\ b[2] = y
      OBVIOUS
    <3> HIDE DEF a, b
    <3>5. \A i \in 1..Len(a) : a[i] = b[i]
      BY <3>3, <3>4
    <3>6. a = b
      BY <3>1, <3>3, <3>4, <3>5, SeqEqual
    <3> QED
      BY <3>6 DEF a, b
  <2> QED
    BY <2>2, <2>3
<1> HIDE DEF n, c
<1>4. 0 \in S
  BY <1>0, <1>1
<1>5. ASSUME NEW k \in 1..n, k - 1 \in S PROVE k \in S
  <2>1. k \in 0..n /\ k # 0 /\ (k # 1 => k - 1 # 0 /\ k \in 2..n) /\ (k = 1 => k - 1 = 0) /\ (k = 2 <=> k - 1 = 1)
    BY <1>0
  <2>2. c[k - 1] = IF k - 1 = 0 THEN << >> ELSE IF k - 1 = 1 \/ x = y THEN <<x>> ELSE <<x, y>>
    BY <1>5
  <2>3. c[k] = IF Contains(c[k - 1], s[k]) THEN c[k - 1] ELSE Append(c[k - 1], s[k])
    BY <1>1
  <2>4. s[k] = IF k = 1 THEN x ELSE y
    BY <2>1 DEF n
  <2>5. CASE k = 1
    BY <2>1, <2>2, <2>3, <2>4, <2>5, <1>2, <1>3
  <2>6. CASE k # 1 /\ k - 1 = 1
    BY <2>1, <2>2, <2>3, <2>4, <2>6, <1>2, <1>3
  <2>7. CASE k # 1 /\ k - 1 # 1
    BY <2>1, <2>2, <2>3, <2>4, <2>7, <1>2, <1>3
  <2> QED
    BY <2>5, <2>6, <2>7
<1>6. 0..n \subseteq S
  <2> HIDE DEF S
  <2> QED
    BY <1>0, <1>4, <1>5, PrefixInduction
<1>7. n \in S /\ n # 0
  BY <1>0, <1>6
<1> QED
  BY <1>7, DistinctIs DEF n, c
-----------------------------------------------------------------------------
(* The path node.                                                          *)

NodeTyped ==
  /\ objectives \in Seq(Behavior) /\ Len(objectives) >= 1
  /\ tiers \in [Tier -> 0..MaxTier]
  /\ required \in Seq(Modality) /\ IsInjective(required)

LEMMA PreferredMeasures ==
  /\ \A b \in Behavior : Preferred[b] \in Modality /\ Preferred[b] \in Measuring(b) /\ Measuring(b) \subseteq Modality
  /\ Preferred["apply"] = "trace" /\ "trace" \in Measuring("apply")
  /\ \A b \in Behavior : (Preferred[b] = "code" <=> b \in {"create", "debug"})
BY DEF Behavior, Modality, Preferred, Measuring

(* What one target, or several, ask for.                                   *)
InitialShape(goal, n, obj, modes) ==
  /\ obj \in Seq(Behavior) /\ Len(obj) = n /\ obj[1] = goal
  /\ modes \in Seq(Modality) /\ Len(modes) \in 1..MaxSlots
  /\ \/ /\ goal \notin {"create", "debug"} /\ Len(modes) = n
        /\ \A i \in 1..n : modes[i] = Preferred[goal]
     \/ /\ goal \in {"create", "debug"} /\ n = 1 /\ Len(modes) = 2
        /\ modes[1] = "mcq" /\ modes[2] = "code"
     \/ /\ goal \in {"create", "debug"} /\ n >= 2 /\ Len(modes) = n
        /\ modes[1] = "code" /\ obj[2] = "apply" /\ \A i \in 2..n : modes[i] = "trace"

LEMMA InitialModes ==
  ASSUME NEW goal \in Behavior, NEW n \in 1..MaxSlots, NEW obj, NEW modes
  PROVE  obj = InitialObjectives(goal, n) /\ modes = WithAnchor([i \in DOMAIN obj |-> Preferred[obj[i]]])
           => InitialShape(goal, n, obj, modes)
<1>a. HAVE obj = InitialObjectives(goal, n) /\ modes = WithAnchor([i \in DOMAIN obj |-> Preferred[obj[i]]])
<1> DEFINE plain == [i \in DOMAIN obj |-> Preferred[obj[i]]]
<1>0. n \in Nat /\ n >= 1 /\ MaxSlots \in Nat /\ MaxSlots >= 5 /\ n <= MaxSlots
  BY PlanAssumption
<1>1. /\ obj \in Seq(Behavior) /\ Len(obj) = n /\ DOMAIN obj = 1..n
      /\ \A i \in 1..n : obj[i] = IF i = 1 \/ goal \notin {"create", "debug"} THEN goal ELSE "apply"
  BY <1>a, <1>0 DEF InitialObjectives, Behavior
<1>2. /\ plain \in Seq(Modality) /\ Len(plain) = n /\ DOMAIN plain = 1..n
      /\ \A i \in 1..n : plain[i] = Preferred[obj[i]]
  <2>1. \A i \in 1..n : obj[i] \in Behavior /\ Preferred[obj[i]] \in Modality
    BY <1>1, PreferredMeasures
  <2> QED
    BY <1>0, <1>1, <2>1
<1>3. modes = IF n < MaxSlots /\ ToSet(plain) = {"code"} THEN <<"mcq">> \o plain ELSE plain
  BY <1>a, <1>2 DEF WithAnchor
<1> HIDE DEF plain
<1>4. 1 \in 1..n /\ obj[1] = goal /\ plain[1] = Preferred[goal] /\ plain[1] \in ToSet(plain)
  BY <1>0, <1>1, <1>2 DEF ToSet
<1>5. CASE goal \notin {"create", "debug"}
  <2>1. modes = plain
    BY <1>3, <1>4, <1>5, PreferredMeasures
  <2>2. \A i \in 1..n : modes[i] = Preferred[goal]
    BY <2>1, <1>1, <1>2, <1>5
  <2> QED
    BY <1>0, <1>1, <1>2, <1>4, <1>5, <2>1, <2>2 DEF InitialShape
<1>6. CASE goal \in {"create", "debug"} /\ n = 1
  <2>1. plain[1] = "code"
    BY <1>4, <1>6, PreferredMeasures
  <2>2. ToSet(plain) = {"code"}
    BY <2>1, <1>2, <1>6 DEF ToSet
  <2>3. modes = <<"mcq">> \o plain
    BY <1>0, <1>3, <1>6, <2>2
  <2> DEFINE anchor == <<"mcq">>
  <2>4. anchor \in Seq(Modality) /\ Len(anchor) = 1 /\ anchor[1] = "mcq"
    BY DEF Modality
  <2> HIDE DEF anchor
  <2>5. /\ modes \in Seq(Modality) /\ Len(modes) = 2
        /\ \A i \in 1..2 : modes[i] = IF i <= 1 THEN anchor[i] ELSE plain[i - 1]
    <3>1. modes = anchor \o plain /\ Len(plain) = 1 /\ plain \in Seq(Modality)
      BY <1>2, <1>6, <2>3 DEF anchor
    <3>2. /\ anchor \o plain \in Seq(Modality) /\ Len(anchor \o plain) = Len(anchor) + Len(plain)
          /\ \A i \in 1..(Len(anchor) + Len(plain)) :
               (anchor \o plain)[i] = IF i <= Len(anchor) THEN anchor[i] ELSE plain[i - Len(anchor)]
      BY <3>1, <2>4, ConcatProperties
    <3> QED
      BY <3>1, <3>2, <2>4
  <2>6. modes[1] = "mcq" /\ modes[2] = "code"
    BY <2>1, <2>4, <2>5
  <2>7. Len(modes) \in 1..MaxSlots
    BY <1>0, <2>5
  <2> QED
    BY <1>1, <1>4, <1>6, <2>5, <2>6, <2>7 DEF InitialShape
<1>7. CASE goal \in {"create", "debug"} /\ n # 1
  <2>1. n >= 2 /\ 2 \in 1..n /\ \A i \in 2..n : i \in 1..n /\ i # 1
    BY <1>0, <1>7
  <2>2. obj[2] = "apply" /\ \A i \in 2..n : plain[i] = "trace"
    BY <1>1, <1>2, <1>7, <2>1, PreferredMeasures
  <2>3. plain[2] \in ToSet(plain) /\ plain[2] # "code"
    BY <1>2, <2>1, <2>2 DEF ToSet
  <2>4. modes = plain
    BY <1>3, <2>3
  <2>5. modes[1] = "code"
    BY <1>4, <1>7, <2>4, PreferredMeasures
  <2> QED
    BY <1>0, <1>1, <1>2, <1>4, <1>7, <2>1, <2>2, <2>4, <2>5 DEF InitialShape
<1> QED
  BY <1>5, <1>6, <1>7

(* What the gate asks, of a node that is not in a state yet.               *)
Fits(obj, t, req) ==
  /\ t[1] + t[2] >= 1
  /\ Total(t) \in 1..MaxSlots /\ \A k \in Tier : t[k] <= MaxTier
  /\ Len(req) <= Total(t) /\ Len(obj) <= Total(t)
  /\ \E S \in SUBSET DOMAIN obj :
       /\ \E f \in [S -> DOMAIN req] : IsInjective(f) /\ \A i \in S : req[f[i]] \in Measuring(obj[i])
       /\ Len(obj) - Cardinality(S) <= Total(t) - Len(req)

LEMMA AcceptableIsFits == Acceptable <=> Fits(objectives, tiers, required)
BY DEF Acceptable, CanMeasure, Matchable, Fits

(* It is enough to match the first objectives.                             *)
FirstMatched(obj, req, m) ==
  \E f \in [1..m -> 1..Len(req)] : IsInjective(f) /\ \A i \in 1..m : req[f[i]] \in Measuring(obj[i])

LEMMA FitsByFirst ==
  ASSUME NEW obj \in Seq(Behavior), NEW req \in Seq(Modality), NEW t \in [Tier -> 0..MaxTier],
         t[1] + t[2] >= 1, Total(t) \in 1..MaxSlots, Len(req) <= Total(t), Len(obj) <= Total(t),
         NEW m \in Nat, m <= Len(obj), Len(obj) - m <= Total(t) - Len(req),
         FirstMatched(obj, req, m)
  PROVE  Fits(obj, t, req)
<1>1. 1..m \in SUBSET DOMAIN obj /\ DOMAIN req = 1..Len(req)
  OBVIOUS
<1>2. Cardinality(1..m) = m
  BY FS_Interval
<1>3. \A k \in Tier : t[k] <= MaxTier
  BY PlanAssumption
<1> QED
  BY <1>1, <1>2, <1>3 DEF Fits, FirstMatched

LEMMA InitialFits ==
  ASSUME NEW goal \in Behavior, NEW n \in 1..MaxSlots
  PROVE  LET obj == InitialObjectives(goal, n)
             node == InitialNode(obj)
         IN /\ obj \in Seq(Behavior) /\ Len(obj) >= 1 /\ node.tiers \in [Tier -> 0..MaxTier]
            /\ node.required \in Seq(Modality) /\ IsInjective(node.required)
            /\ Fits(obj, node.tiers, node.required)
<1> DEFINE obj == InitialObjectives(goal, n)
           modes == WithAnchor([i \in DOMAIN obj |-> Preferred[obj[i]]])
           t == AllocatedTiers(modes)
           req == Distinct(modes)
<1>1. InitialNode(obj) = [tiers |-> t, required |-> req]
  BY DEF InitialNode
<1>2. InitialShape(goal, n, obj, modes)
  BY InitialModes
<1> HIDE DEF obj, modes
<1>3. modes \in Seq(Modality) /\ Len(modes) \in 1..MaxSlots /\ obj \in Seq(Behavior) /\ Len(obj) = n
  BY <1>2 DEF InitialShape
<1>4. t \in [Tier -> 0..MaxTier] /\ Total(t) = Len(modes) /\ t[1] + t[2] >= 1
  BY <1>3, AllocatedTiersAre
<1> HIDE DEF t
<1>0. n \in Nat /\ n >= 1 /\ MaxSlots \in Nat
  BY PlanAssumption
<1>5. CASE /\ goal \notin {"create", "debug"} /\ Len(modes) = n
           /\ \A i \in 1..n : modes[i] = Preferred[goal]
  <2> DEFINE f == [i \in 1..1 |-> 1]
  <2>1. req = <<Preferred[goal]>>
    <3>1. modes[1] = Preferred[goal] /\ \A i \in 2..n : modes[i] = Preferred[goal]
      BY <1>0, <1>5
    <3> QED
      BY <3>1, <1>0, <1>3, <1>5, PreferredMeasures, DistinctOfTwo
  <2> HIDE DEF req
  <2>2. req \in Seq(Modality) /\ Len(req) = 1 /\ req[1] = Preferred[goal] /\ IsInjective(req)
    BY <2>1, PreferredMeasures DEF IsInjective
  <2>3. f \in [1..1 -> 1..Len(req)] /\ IsInjective(f) /\ f[1] = 1
    BY <2>2 DEF IsInjective
  <2> HIDE DEF f
  <2>4. obj[1] = goal
    BY <1>2 DEF InitialShape
  <2>5. \A i \in 1..1 : req[f[i]] \in Measuring(obj[i])
    BY <2>2, <2>3, <2>4, PreferredMeasures
  <2>6. Fits(obj, t, req)
    <3>1. FirstMatched(obj, req, 1)
      BY <2>3, <2>5 DEF FirstMatched
    <3>2. Total(t) \in 1..MaxSlots /\ Len(req) <= Total(t) /\ Len(obj) <= Total(t)
      BY <1>0, <1>3, <1>4, <1>5, <2>2
    <3>3. 1 \in Nat /\ 1 <= Len(obj) /\ Len(obj) - 1 <= Total(t) - Len(req)
      BY <1>0, <1>3, <1>4, <1>5, <2>2
    <3> QED
      BY <1>3, <1>4, <2>2, <3>1, <3>2, <3>3, FitsByFirst
  <2> QED
    BY <1>0, <1>1, <1>3, <1>4, <2>2, <2>6 DEF obj
<1>6. CASE /\ goal \in {"create", "debug"} /\ n = 1 /\ Len(modes) = 2
           /\ modes[1] = "mcq" /\ modes[2] = "code"
  <2> DEFINE f == [i \in 1..1 |-> 2]
  <2>1. req = <<"mcq", "code">>
    <3>1. \A i \in 2..Len(modes) : modes[i] = "code"
      BY <1>6
    <3>2. "mcq" \in Modality /\ "code" \in Modality /\ "mcq" # "code"
      BY DEF Modality
    <3> QED
      BY <3>1, <3>2, <1>3, <1>6, DistinctOfTwo
  <2> HIDE DEF req
  <2>2. req \in Seq(Modality) /\ Len(req) = 2 /\ req[1] = "mcq" /\ req[2] = "code" /\ IsInjective(req)
    BY <2>1 DEF IsInjective, Modality
  <2>3. f \in [1..1 -> 1..Len(req)] /\ IsInjective(f) /\ f[1] = 2
    BY <2>2 DEF IsInjective
  <2> HIDE DEF f
  <2>4. obj[1] = goal /\ Preferred[goal] = "code"
    BY <1>2, <1>6, PreferredMeasures DEF InitialShape
  <2>5. \A i \in 1..1 : req[f[i]] \in Measuring(obj[i])
    BY <2>2, <2>3, <2>4, PreferredMeasures
  <2>6. Fits(obj, t, req)
    <3>1. FirstMatched(obj, req, 1)
      BY <2>3, <2>5 DEF FirstMatched
    <3>2. Total(t) \in 1..MaxSlots /\ Len(req) <= Total(t) /\ Len(obj) <= Total(t)
      BY <1>0, <1>3, <1>4, <1>6, <2>2
    <3>3. 1 \in Nat /\ 1 <= Len(obj) /\ Len(obj) - 1 <= Total(t) - Len(req)
      BY <1>0, <1>3, <1>4, <1>6, <2>2
    <3> QED
      BY <1>3, <1>4, <2>2, <3>1, <3>2, <3>3, FitsByFirst
  <2> QED
    BY <1>0, <1>1, <1>3, <1>4, <2>2, <2>6 DEF obj
<1>7. CASE /\ goal \in {"create", "debug"} /\ n >= 2 /\ Len(modes) = n
           /\ modes[1] = "code" /\ obj[2] = "apply" /\ \A i \in 2..n : modes[i] = "trace"
  <2> DEFINE f == [i \in 1..2 |-> i]
  <2>1. req = <<"code", "trace">>
    <3>1. "trace" \in Modality /\ "code" \in Modality /\ "trace" # "code"
      BY DEF Modality
    <3>2. Len(modes) # 1 /\ Len(modes) >= 1 /\ \A i \in 2..Len(modes) : modes[i] = "trace"
      BY <1>0, <1>7
    <3> QED
      BY <3>1, <3>2, <1>3, <1>7, DistinctOfTwo
  <2> HIDE DEF req
  <2>2. req \in Seq(Modality) /\ Len(req) = 2 /\ req[1] = "code" /\ req[2] = "trace" /\ IsInjective(req)
    BY <2>1 DEF IsInjective, Modality
  <2>3. f \in [1..2 -> 1..Len(req)] /\ IsInjective(f) /\ f[1] = 1 /\ f[2] = 2
    BY <2>2 DEF IsInjective
  <2> HIDE DEF f
  <2>4. obj[1] = goal /\ Preferred[goal] = "code"
    BY <1>2, <1>7, PreferredMeasures DEF InitialShape
  <2>5. \A i \in 1..2 : req[f[i]] \in Measuring(obj[i])
    BY <1>7, <2>2, <2>3, <2>4, PreferredMeasures
  <2>6. Fits(obj, t, req)
    <3>1. FirstMatched(obj, req, 2)
      BY <2>3, <2>5 DEF FirstMatched
    <3>2. Total(t) \in 1..MaxSlots /\ Len(req) <= Total(t) /\ Len(obj) <= Total(t)
      BY <1>0, <1>3, <1>4, <1>7, <2>2
    <3>3. 2 \in Nat /\ 2 <= Len(obj) /\ Len(obj) - 2 <= Total(t) - Len(req)
      BY <1>0, <1>3, <1>4, <1>7, <2>2
    <3> QED
      BY <1>3, <1>4, <2>2, <3>1, <3>2, <3>3, FitsByFirst
  <2> QED
    BY <1>0, <1>1, <1>3, <1>4, <2>2, <2>6 DEF obj
<1> QED
  BY <1>2, <1>5, <1>6, <1>7 DEF InitialShape

(* What a recovery asks for never needs more room than it has.             *)
LEMMA RecoveryFits ==
  ASSUME NEW n \in 1..3
  PROVE  LET obj == RecoveryObjectives(n)
             node == WithCapacity(RecoveryBlueprint(n), n)
         IN /\ obj \in Seq(Behavior) /\ Len(obj) >= 1 /\ node.tiers \in [Tier -> 0..MaxTier]
            /\ node.required \in Seq(Modality) /\ IsInjective(node.required)
            /\ Fits(obj, node.tiers, node.required)
<1> DEFINE obj == RecoveryObjectives(n)
           node == WithCapacity(RecoveryBlueprint(n), n)
           t == node.tiers
           req == node.required
           f == [i \in 1..n |-> i]
<1>0. MaxSlots \in Nat /\ MaxSlots >= 5 /\ MaxTier \in Nat /\ MaxTier >= 2
  BY PlanAssumption
<1>1. /\ obj \in Seq(Behavior) /\ Len(obj) = n
      /\ \A i \in 1..n : obj[i] = IF i = 1 THEN "recognize" ELSE IF i = 2 THEN "apply" ELSE "create"
  <2>1. n \in Nat /\ \A i \in 1..n : i = 1 \/ i = 2 \/ i = 3
    OBVIOUS
  <2>2. obj = [i \in 1..n |-> IF i = 1 THEN "recognize" ELSE IF i = 2 THEN "apply" ELSE "create"]
    BY DEF RecoveryObjectives
  <2> QED
    BY <2>1, <2>2 DEF Behavior
<1>2. /\ Total(RecoveryBlueprint(n).tiers) >= n
      /\ node = [RecoveryBlueprint(n) EXCEPT !.tiers = RecoveryBlueprint(n).tiers]
  <2> DEFINE plain == RecoveryBlueprint(n)
  <2>1. n = 1 \/ n = 2 \/ n = 3
    OBVIOUS
  <2>2. Total(plain.tiers) >= n
    <3>1. n = 1 => Total(plain.tiers) = 1
      BY DEF RecoveryBlueprint, Total
    <3>2. n = 2 => Total(plain.tiers) = 2
      BY DEF RecoveryBlueprint, Total
    <3>3. n = 3 => Total(plain.tiers) = 5
      BY DEF RecoveryBlueprint, Total
    <3> QED
      BY <2>1, <3>1, <3>2, <3>3
  <2>3. ~ (n > Total(plain.tiers))
    <3>1. Total(plain.tiers) \in Nat
      BY <2>1 DEF RecoveryBlueprint, Total
    <3> QED
      BY <2>2, <3>1
  <2> HIDE DEF plain
  <2>4. WithCapacity(plain, n) = [plain EXCEPT !.tiers = plain.tiers]
    BY <2>3 DEF WithCapacity
  <2> QED
    BY <2>2, <2>4 DEF plain
<1>3. /\ t = IF n = 1 THEN <<1, 0, 0>> ELSE IF n = 2 THEN <<1, 1, 0>> ELSE <<2, 2, 1>>
      /\ req = IF n = 1 THEN <<"mcq">> ELSE IF n = 2 THEN <<"mcq", "trace">> ELSE <<"mcq", "trace", "code">>
  BY <1>2 DEF RecoveryBlueprint
<1> HIDE DEF obj, node
<1>4. /\ req \in Seq(Modality) /\ Len(req) = n /\ IsInjective(req)
      /\ \A i \in 1..n : req[i] = IF i = 1 THEN "mcq" ELSE IF i = 2 THEN "trace" ELSE "code"
  <2>1. CASE n = 1
    BY <2>1, <1>3 DEF Modality, IsInjective
  <2>2. CASE n = 2
    BY <2>2, <1>3 DEF Modality, IsInjective
  <2>3. CASE n = 3
    <3>1. req = <<"mcq", "trace", "code">>
      BY <2>3, <1>3
    <3> HIDE DEF req
    <3>2. req \in Seq(Modality) /\ Len(req) = 3 /\ req[1] = "mcq" /\ req[2] = "trace" /\ req[3] = "code"
      BY <3>1 DEF Modality
    <3>3. IsInjective(req)
      BY <3>2 DEF IsInjective
    <3> QED
      BY <2>3, <3>2, <3>3
  <2> QED
    BY <2>1, <2>2, <2>3
<1>5. t \in [Tier -> 0..MaxTier] /\ t[1] + t[2] >= 1 /\ Total(t) \in 1..MaxSlots /\ n <= Total(t)
  BY <1>0, <1>3 DEF Tier, Total
<1>6. f \in [1..n -> 1..Len(req)] /\ IsInjective(f) /\ \A i \in 1..n : f[i] = i
  BY <1>4 DEF IsInjective
<1> HIDE DEF f, t, req
<1>7. \A i \in 1..n : req[f[i]] \in Measuring(obj[i])
  BY <1>1, <1>4, <1>6 DEF Measuring, Modality
<1>8. FirstMatched(obj, req, n)
  BY <1>6, <1>7 DEF FirstMatched
<1>9. /\ n \in Nat /\ n <= Len(obj) /\ Len(obj) - n <= Total(t) - Len(req)
      /\ Len(req) <= Total(t) /\ Len(obj) <= Total(t)
  BY <1>1, <1>4, <1>5
<1>10. Fits(obj, t, req)
  BY <1>1, <1>4, <1>5, <1>8, <1>9, FitsByFirst
<1> QED
  BY <1>1, <1>4, <1>5, <1>10 DEF obj, node, t, req

-----------------------------------------------------------------------------
(* The states of the plan, phase by phase.                                 *)

Measures(s, o) == slots[s] \in Measuring(objectives[o])

BeforeTheForm ==
  phase \in {"walking", "found", "refused", "replacing", "given", "offered", "rejected"} =>
    slots = << >> /\ waiting = << >> /\ kept = {} /\ assigned = << >>

BeforeTheNode ==
  /\ phase \in {"walking", "found", "refused", "replacing", "given"} =>
       tiers = <<0, 0, 0>> /\ required = << >>
  /\ phase \in {"walking", "found", "refused", "replacing"} => objectives = << >>
  /\ phase = "given" =>
       objectives \in Seq(Behavior) /\ Len(objectives) >= 1 /\ origin = "given"

NodeInv ==
  /\ phase \in {"offered", "rejected", "placing", "serving", "planned"} => NodeTyped
  /\ phase = "offered" => origin = "given" \/ Acceptable
  /\ phase = "rejected" => origin = "given"
  /\ phase \in {"placing", "serving", "planned"} => Acceptable
  /\ phase # "threw"

PlacingInv ==
  phase = "placing" =>
    /\ slots \in [1..Total(tiers) -> Modality]
    /\ waiting \in Seq(ToSet(required))
    /\ ToSet(required) \subseteq ToSet(slots) \cup ToSet(waiting)
    /\ kept = {} /\ assigned = << >>

FormTyped ==
  /\ slots \in [1..Total(tiers) -> Modality]
  /\ kept \subseteq 1..Total(tiers)
  /\ assigned \in [1..Total(tiers) -> 0..Len(objectives)]
  /\ waiting \in Seq(DOMAIN objectives)

(* The kept questions have the required modalities.                        *)
KeepsRequired == \A r \in ToSet(required) : \E k \in kept : slots[k] = r

(* Who was served is measured.                                             *)
Served ==
  \A o \in DOMAIN objectives \ ToSet(waiting) :
    \E s \in DOMAIN slots : assigned[s] = o /\ Measures(s, o)

(* Of two objectives, the one that is served first has fewer questions to   *)
(* choose from: what it can be given in the place of a question that        *)
(* measures both, the later one can be given too.                          *)
Exchangeable ==
  \A a, b \in DOMAIN waiting : a < b =>
    \A k, l \in kept :
      Measures(k, waiting[a]) /\ Measures(k, waiting[b]) /\ Measures(l, waiting[a])
        => Measures(l, waiting[b])

(* There is a question for everyone who waits: a kept one that measures the *)
(* objective, or one whose modality is free.                               *)
Room ==
  \E g \in Injection(ToSet(waiting), Open) :
    \A o \in ToSet(waiting) : g[o] \in kept => Measures(g[o], o)

ServingInv ==
  phase = "serving" =>
    FormTyped /\ IsInjective(waiting) /\ KeepsRequired /\ Served /\ Exchangeable /\ Room

PlannedInv == phase = "planned" => FormTyped /\ PlannedMeasures

PlanInv ==
  BeforeTheForm /\ BeforeTheNode /\ NodeInv /\ PlacingInv /\ ServingInv /\ PlannedInv

-----------------------------------------------------------------------------
(* The states of the walk.                                                 *)

WalkTyped ==
  /\ search \in [kind : {"initial", "recovery"}, graph : Graph, known : SUBSET Concepts,
                 roots : SUBSET Concepts, left : SUBSET Concepts,
                 stack : Seq([node : Concepts, rest : SUBSET Points]),
                 ordered : Seq(Concepts), visited : SUBSET Concepts]
  /\ search.left \subseteq search.roots /\ search.roots # {}
  /\ search.kind = "initial" => Cardinality(search.roots) <= MaxSlots

Node(i) == search.stack[i].node
Rest(i) == search.stack[i].rest
Depth == Len(search.stack)

(* Everything that was looked at was listed, is being visited or is known.  *)
NothingDropped ==
  /\ \A r \in search.roots \ search.left : PassedOver(r) \/ (Depth > 0 /\ r = Node(1))
  /\ \A i \in 1..Depth : \A m \in search.graph[Node(i)] \ Rest(i) :
       PassedOver(m) \/ (i < Depth /\ m = Node(i + 1))
  /\ \A n \in search.visited : \A m \in search.graph[n] : PassedOver(m)

(* Every visit is for cause, and needs what is visited above it.           *)
StackSound ==
  /\ \A i \in 1..Depth : Node(i) \in Reached \ search.visited /\ Rest(i) \subseteq search.graph[Node(i)]
  /\ \A i, j \in 1..Depth : i < j => Node(j) \in Needs(Node(i)) /\ Node(i) # Node(j)

Listable == IF search.kind = "initial" THEN search.visited \ search.roots ELSE search.visited

OrderSound ==
  /\ search.visited \subseteq Reached
  /\ IsInjective(search.ordered) /\ ToSet(search.ordered) = Listable
  /\ \A i \in DOMAIN search.ordered : \A m \in search.graph[search.ordered[i]] \cap Listable :
       \E j \in 1..(i - 1) : search.ordered[j] = m

WalkSound == WalkTyped /\ NothingDropped /\ StackSound /\ OrderSound

WalkInv ==
  /\ phase \in {"walking", "found"} => WalkSound
  /\ phase = "found" => search.stack = << >> /\ search.left = {}
  /\ phase \in {"replacing", "given"} => search = Nil
  /\ RefusedForCause

-----------------------------------------------------------------------------
(* Facts about sets of numbers and about counting.                         *)

LEMMA LeastExists ==
  ASSUME NEW S \in SUBSET Nat, S # {}
  PROVE  \E x \in S : \A y \in S : x <= y
<1>1. IsWellFoundedOn(OpToRel(<, Nat), Nat)
  BY NatLessThanWellFounded
<1>2. PICK x \in S : \A y \in S : ~ (<<y, x>> \in OpToRel(<, Nat))
  BY <1>1, WFMin
<1>3. ASSUME NEW y \in S, ~ (x <= y) PROVE FALSE
  <2>1. x \in Nat /\ y \in Nat
    OBVIOUS
  <2>2. y < x
    BY <2>1, <1>3
  <2>3. <<y, x>> \in OpToRel(<, Nat)
    BY <2>1, <2>2 DEF OpToRel
  <2> QED
    BY <2>3, <1>2
<1> QED
  BY <1>3

LEMMA LowestIs ==
  ASSUME NEW S \in SUBSET Nat, S # {}
  PROVE  Lowest(S) \in S /\ \A t \in S : Lowest(S) <= t
<1>1. \E s \in S : \A t \in S : s <= t
  BY LeastExists
<1> QED
  BY <1>1 DEF Lowest

LEMMA Counting ==
  ASSUME NEW n \in Nat
  PROVE  IsFiniteSet(1..n) /\ Cardinality(1..n) = n
BY FS_Interval

LEMMA Subinterval ==
  ASSUME NEW n \in Nat, NEW S \in SUBSET (1..n)
  PROVE  IsFiniteSet(S) /\ Cardinality(S) \in Nat /\ S \in SUBSET Nat
<1>1. IsFiniteSet(1..n)
  BY Counting
<1>2. IsFiniteSet(S)
  BY <1>1, FS_Subset
<1>3. Cardinality(S) \in Nat
  BY <1>2, FS_CardinalityType
<1> QED
  BY <1>2, <1>3

(* What occurs at most once occurs once only, and what occurs more often    *)
(* occurs elsewhere too.                                                   *)
LEMMA OccursOnce ==
  ASSUME NEW n \in Nat, NEW S \in SUBSET (1..n), NEW i \in S
  PROVE  IF Cardinality(S) > 1 THEN \E j \in S : j # i ELSE \A j \in S : j = i
<1>1. IsFiniteSet(S) /\ Cardinality(S) \in Nat
  BY Subinterval
<1>2. Cardinality(S) # 0
  BY <1>1, FS_EmptySet
<1>3. Cardinality(S) = 1 <=> \E x : S = {x}
  BY <1>1, FS_Singleton
<1>4. CASE Cardinality(S) > 1
  <2>1. S # {i}
    BY <1>3, <1>4
  <2> QED
    BY <1>4, <2>1
<1>5. CASE ~ (Cardinality(S) > 1)
  <2>1. Cardinality(S) = 1
    BY <1>1, <1>2, <1>5
  <2>2. PICK x : S = {x}
    BY <1>3, <2>1
  <2> QED
    BY <1>5, <2>2
<1> QED
  BY <1>4, <1>5

LEMMA SeqElements ==
  ASSUME NEW T, NEW s \in Seq(T)
  PROVE  /\ IsFiniteSet(ToSet(s)) /\ Cardinality(ToSet(s)) <= Len(s)
         /\ ToSet(s) \subseteq T /\ DOMAIN s = 1..Len(s) /\ Len(s) \in Nat
<1>1. Len(s) \in Nat /\ DOMAIN s = 1..Len(s) /\ \A i \in 1..Len(s) : s[i] \in T
  OBVIOUS
<1>2. s \in [1..Len(s) -> ToSet(s)]
  BY DEF ToSet
<1>3. s \in Surjection(1..Len(s), ToSet(s))
  BY <1>1, <1>2 DEF ToSet, Surjection
<1>4. IsFiniteSet(1..Len(s)) /\ Cardinality(1..Len(s)) = Len(s)
  BY <1>1, Counting
<1>5. IsFiniteSet(ToSet(s)) /\ Cardinality(ToSet(s)) <= Cardinality(1..Len(s))
  BY <1>3, <1>4, FS_Surjection
<1> QED
  BY <1>1, <1>4, <1>5 DEF ToSet

-----------------------------------------------------------------------------
(* The gate.                                                               *)
LEMMA AcceptableNext == Acceptable' <=> Fits(objectives', tiers', required')
BY DEF Acceptable, CanMeasure, Matchable, Fits

LEMMA TotalType ==
  ASSUME NodeTyped, Acceptable
  PROVE  Total(tiers) \in Nat /\ Total(tiers) >= 1 /\ Total(tiers) \in 1..MaxSlots
BY PlanAssumption DEF NodeTyped, Acceptable, Total, Tier

LEMMA TierSeqIs ==
  ASSUME NodeTyped
  PROVE  /\ TierSeq \in [1..Total(tiers) -> 1..3]
         /\ \A i \in 1..Total(tiers) : TierSeq[i] = 2 => i - 1 - tiers[1] \in Nat
<1>1. tiers[1] \in Nat /\ tiers[2] \in Nat /\ tiers[3] \in Nat /\ Total(tiers) \in Nat
  BY PlanAssumption DEF NodeTyped, Total, Tier
<1>2. TierSeq = [i \in 1..Total(tiers) |->
                   IF i <= tiers[1] THEN 1 ELSE IF i <= tiers[1] + tiers[2] THEN 2 ELSE 3]
  BY DEF TierSeq
<1> QED
  BY <1>1, <1>2

LEMMA DefaultSlotsType ==
  ASSUME NodeTyped
  PROVE  DefaultSlots \in [1..Total(tiers) -> Modality]
<1>1. \A k \in Nat : k % 2 = 0 \/ k % 2 = 1
  OBVIOUS
<1>2. /\ <<"mcq", "true_false">>[1] = "mcq" /\ <<"mcq", "true_false">>[2] = "true_false"
      /\ <<"trace", "short_answer">>[1] = "trace" /\ <<"trace", "short_answer">>[2] = "short_answer"
  OBVIOUS
<1>3. ASSUME NEW i \in 1..Total(tiers)
      PROVE  DefaultSlots[i] \in Modality
  <2>1. i - 1 \in Nat
    BY PlanAssumption DEF NodeTyped, Total, Tier
  <2>2. DefaultSlots[i] = CASE TierSeq[i] = 1 -> <<"mcq", "true_false">>[1 + ((i - 1) % 2)]
                            [] TierSeq[i] = 2 -> <<"trace", "short_answer">>[1 + ((i - 1 - tiers[1]) % 2)]
                            [] OTHER -> "code"
    BY DEF DefaultSlots
  <2>3. CASE TierSeq[i] = 1
    <3>1. 1 + ((i - 1) % 2) = 1 \/ 1 + ((i - 1) % 2) = 2
      BY <2>1, <1>1
    <3> QED
      BY <2>2, <2>3, <3>1, <1>2 DEF Modality
  <2>4. CASE TierSeq[i] = 2
    <3>1. 1 + ((i - 1 - tiers[1]) % 2) = 1 \/ 1 + ((i - 1 - tiers[1]) % 2) = 2
      BY <2>4, <1>1, TierSeqIs
    <3>2. TierSeq[i] # 1
      BY <2>4
    <3> QED
      BY <2>2, <2>4, <3>1, <3>2, <1>2 DEF Modality
  <2>5. CASE TierSeq[i] # 1 /\ TierSeq[i] # 2
    BY <2>2, <2>5 DEF Modality
  <2> QED
    BY <2>3, <2>4, <2>5
<1>4. DOMAIN DefaultSlots = 1..Total(tiers) /\ DefaultSlots = [i \in 1..Total(tiers) |-> DefaultSlots[i]]
  BY DEF DefaultSlots
<1> QED
  BY <1>3, <1>4

LEMMA HeadTailSet ==
  ASSUME NEW T, NEW s \in Seq(T), s # << >>
  PROVE  /\ Head(s) \in T /\ Tail(s) \in Seq(T) /\ Len(s) \in Nat /\ Len(s) >= 1
         /\ Len(Tail(s)) = Len(s) - 1 /\ DOMAIN Tail(s) = 1..(Len(s) - 1) /\ DOMAIN s = 1..Len(s)
         /\ Head(s) = s[1] /\ \A i \in 1..(Len(s) - 1) : Tail(s)[i] = s[i + 1]
         /\ ToSet(s) = {Head(s)} \cup ToSet(Tail(s))
<1>1. Len(s) \in Nat /\ Len(s) >= 1 /\ DOMAIN s = 1..Len(s) /\ Head(s) = s[1]
  BY EmptySeq
<1>2. /\ Head(s) \in T /\ Tail(s) \in Seq(T) /\ Len(Tail(s)) = Len(s) - 1
      /\ \A i \in 1..Len(Tail(s)) : Tail(s)[i] = s[i + 1]
  BY HeadTailProperties
<1>3. DOMAIN Tail(s) = 1..(Len(s) - 1)
  BY <1>2, LenProperties
<1>4. ASSUME NEW x \in ToSet(s) PROVE x = Head(s) \/ x \in ToSet(Tail(s))
  <2>1. PICK i \in 1..Len(s) : x = s[i]
    BY <1>1 DEF ToSet
  <2>2. i = 1 \/ (i - 1 \in 1..(Len(s) - 1) /\ (i - 1) + 1 = i)
    BY <1>1
  <2> QED
    BY <1>1, <1>2, <1>3, <2>1, <2>2 DEF ToSet
<1>5. ASSUME NEW x \in ToSet(Tail(s)) PROVE x \in ToSet(s)
  <2>1. PICK i \in 1..(Len(s) - 1) : x = Tail(s)[i]
    BY <1>3 DEF ToSet
  <2>2. i + 1 \in 1..Len(s) /\ x = s[i + 1]
    BY <1>1, <1>2, <2>1
  <2> QED
    BY <1>1, <2>2 DEF ToSet
<1>6. Head(s) \in ToSet(s)
  BY <1>1 DEF ToSet
<1> QED
  BY <1>1, <1>2, <1>3, <1>4, <1>5, <1>6

LEMMA NodeKept ==
  ASSUME NodeTyped, Acceptable, UNCHANGED nodeVars
  PROVE  NodeTyped' /\ Acceptable' /\ Total(tiers)' = Total(tiers) /\ required' = required
         /\ objectives' = objectives
BY AcceptableIsFits, AcceptableNext DEF nodeVars, NodeTyped

-----------------------------------------------------------------------------
(* Placing the required modalities.                                        *)

(* If no question can change, the questions are all of required kinds, each *)
(* kind once; then a missing kind leaves too few questions.                *)
LEMMA SomethingIsSpare ==
  ASSUME NodeTyped, Acceptable, slots \in [1..Total(tiers) -> Modality],
         NEW m \in ToSet(required), ~ Contains(slots, m)
  PROVE  \E i \in DOMAIN slots : Spare(i)
<1> DEFINE n == Total(tiers)
           others == ToSet(required) \ {m}
<1>1. n \in Nat /\ DOMAIN slots = 1..n /\ Len(slots) = n /\ Len(required) <= n
  BY TotalType DEF Acceptable, CanMeasure
<1>2. SUFFICES ASSUME \A i \in 1..n : ~ Spare(i) PROVE FALSE
  BY <1>1
<1>3. required \in Seq(Modality)
  BY DEF NodeTyped
<1>4. IsFiniteSet(ToSet(required)) /\ Cardinality(ToSet(required)) <= Len(required) /\ DOMAIN required = 1..Len(required)
  BY <1>3, SeqElements
<1>5. IsFiniteSet(others) /\ Cardinality(others) = Cardinality(ToSet(required)) - 1
  BY <1>4, FS_RemoveElement
<1>6. ASSUME NEW i \in 1..n PROVE slots[i] \in others
  <2>1. Contains(required, slots[i])
    BY <1>2 DEF Spare
  <2>2. slots[i] \in ToSet(required)
    BY <2>1, <1>4 DEF Contains, ToSet
  <2>3. slots[i] # m
    BY <1>1 DEF Contains
  <2> QED
    BY <2>2, <2>3
<1>7. ASSUME NEW i \in 1..n, NEW j \in 1..n, slots[i] = slots[j] PROVE i = j
  <2> DEFINE S == {k \in DOMAIN slots : slots[k] = slots[i]}
  <2>1. ~ (Times(slots[i]) > 1)
    BY <1>2 DEF Spare
  <2>2. Times(slots[i]) = Cardinality(S)
    BY DEF Times
  <2>3. S \in SUBSET (1..n) /\ i \in S /\ j \in S
    BY <1>1, <1>7
  <2> HIDE DEF S
  <2> QED
    BY <1>1, <2>1, <2>2, <2>3, OccursOnce
<1>8. slots \in Injection(1..n, others)
  <2>1. slots \in [1..n -> others]
    BY <1>6
  <2> QED
    BY <1>1, <1>7, <2>1 DEF Injection, IsInjective
<1>9. Cardinality(1..n) <= Cardinality(others)
  BY <1>5, <1>8, FS_Injection
<1>10. Cardinality(1..n) = n
  BY <1>1, Counting
<1>11. Cardinality(ToSet(required)) \in Nat /\ Len(required) \in Nat
  BY <1>3, <1>4, FS_CardinalityType
<1> QED
  BY <1>1, <1>4, <1>5, <1>9, <1>10, <1>11

LEMMA PlacesKeepsInv ==
  ASSUME PlanInv, Places
  PROVE  PlanInv'
<1> DEFINE m == Head(waiting)
           n == Total(tiers)
           ofTier == {i \in DOMAIN slots : Spare(i) /\ TierSeq[i] = TierOf[m]}
           any == {i \in DOMAIN slots : Spare(i)}
           least(S) == CHOOSE i \in S : \A j \in S : i <= j
<1>1. /\ phase = "placing" /\ waiting # << >> /\ UNCHANGED <<search, nodeVars, kept, assigned>>
      /\ \/ Contains(slots, m) /\ waiting' = Tail(waiting) /\ UNCHANGED <<phase, slots>>
         \/ /\ ~ Contains(slots, m) /\ any # {}
            /\ slots' = [slots EXCEPT ![least(IF ofTier # {} THEN ofTier ELSE any)] = m]
            /\ waiting' = Tail(waiting) /\ UNCHANGED phase
         \/ /\ ~ Contains(slots, m) /\ any = {}
            /\ phase' = "threw" /\ UNCHANGED <<slots, waiting>>
  BY DEF Places
<1>2. /\ NodeTyped /\ Acceptable /\ slots \in [1..n -> Modality]
      /\ waiting \in Seq(ToSet(required)) /\ ToSet(required) \subseteq ToSet(slots) \cup ToSet(waiting)
      /\ kept = {} /\ assigned = << >>
  BY <1>1 DEF PlanInv, NodeInv, PlacingInv
<1>3. n \in Nat /\ DOMAIN slots = 1..n /\ Len(slots) = n
  BY <1>2, TotalType
<1>4. /\ m \in ToSet(required) /\ Tail(waiting) \in Seq(ToSet(required))
      /\ ToSet(waiting) = {m} \cup ToSet(Tail(waiting))
  BY <1>1, <1>2, HeadTailSet
<1>5. ToSet(required) \subseteq Modality
  BY <1>2, SeqElements DEF NodeTyped
<1>6. any # {} \/ Contains(slots, m)
  BY <1>2, <1>4, SomethingIsSpare
<1>7. NodeTyped' /\ Acceptable' /\ Total(tiers)' = n /\ required' = required /\ objectives' = objectives
  BY <1>1, <1>2, NodeKept
<1>8. SUFFICES /\ phase' = "placing" /\ waiting' = Tail(waiting)
               /\ slots' \in [1..n -> Modality]
               /\ ToSet(required) \subseteq ToSet(slots') \cup ToSet(Tail(waiting))
  BY <1>1, <1>2, <1>4, <1>7 DEF PlanInv, BeforeTheForm, BeforeTheNode, NodeInv, PlacingInv, ServingInv, PlannedInv
<1> HIDE DEF m, any, ofTier, least, n
<1>9. CASE Contains(slots, m) /\ waiting' = Tail(waiting) /\ UNCHANGED <<phase, slots>>
  <2>1. m \in ToSet(slots)
    BY <1>3, <1>9 DEF Contains, ToSet
  <2> QED
    BY <1>1, <1>2, <1>4, <1>9, <2>1 DEF n
<1>10. CASE /\ ~ Contains(slots, m) /\ any # {}
            /\ slots' = [slots EXCEPT ![least(IF ofTier # {} THEN ofTier ELSE any)] = m]
            /\ waiting' = Tail(waiting) /\ UNCHANGED phase
  <2> DEFINE S == IF ofTier # {} THEN ofTier ELSE any
             i == least(S)
  <2>1. S # {} /\ S \subseteq any /\ any \in SUBSET (1..n)
    BY <1>3, <1>10 DEF ofTier, any
  <2> HIDE DEF S
  <2>2. S \in SUBSET Nat
    BY <2>1, <1>3, Subinterval
  <2>3. i \in S
    BY <2>1, <2>2, LeastExists DEF least
  <2>4. i \in 1..n /\ Spare(i)
    BY <2>1, <2>3 DEF any
  <2>5. slots' = [slots EXCEPT ![i] = m]
    BY <1>10 DEF S
  <2> HIDE DEF i
  <2>6. slots' \in [1..n -> Modality] /\ DOMAIN slots' = 1..n
    BY <1>2, <1>4, <1>5, <2>4, <2>5 DEF n
  <2>7. slots'[i] = m /\ \A j \in 1..n : j # i => slots'[j] = slots[j]
    BY <1>3, <2>4, <2>5
  <2>8. ASSUME NEW r \in ToSet(required) PROVE r \in ToSet(slots') \cup ToSet(Tail(waiting))
    <3>1. CASE r = m
      BY <2>4, <2>6, <2>7, <3>1 DEF ToSet
    <3>2. CASE r # m /\ r \notin ToSet(Tail(waiting))
      <4>1. PICK j \in 1..n : r = slots[j]
        BY <1>2, <1>3, <1>4, <3>2 DEF ToSet
      <4>2. \E k \in 1..n : k # i /\ slots[k] = r
        <5>1. CASE j # i
          BY <4>1, <5>1
        <5>2. CASE j = i
          <6>1. Contains(required, slots[i])
            BY <1>2, <4>1, <5>2 DEF Contains, ToSet, NodeTyped
          <6>2. Times(slots[i]) > 1
            BY <2>4, <6>1 DEF Spare
          <6> DEFINE same == {k \in DOMAIN slots : slots[k] = slots[i]}
          <6>3. Cardinality(same) > 1
            BY <6>2 DEF Times
          <6>4. same \in SUBSET (1..n) /\ i \in same
            BY <1>3, <2>4
          <6> HIDE DEF same
          <6>5. \E k \in same : k # i
            BY <1>3, <6>3, <6>4, OccursOnce
          <6> QED
            BY <1>3, <4>1, <5>2, <6>5 DEF same
        <5> QED
          BY <5>1, <5>2
      <4> QED
        BY <2>6, <2>7, <4>2 DEF ToSet
    <3> QED
      BY <3>1, <3>2
  <2> QED
    BY <1>1, <1>10, <2>6, <2>8
<1> QED
  BY <1>1, <1>6, <1>9, <1>10

-----------------------------------------------------------------------------
(* Orders and matchings.                                                   *)

(* The members of 1..n can be put in any strict linear order: each member   *)
(* goes to the place its number of predecessors gives it.                  *)
LEMMA OrderExists ==
  ASSUME NEW n \in Nat, NEW R \in SUBSET ((1..n) \X (1..n)),
         \A i \in 1..n : <<i, i>> \notin R,
         \A i, j \in 1..n : i # j => <<i, j>> \in R \/ <<j, i>> \in R,
         \A i, j, k \in 1..n : <<i, j>> \in R /\ <<j, k>> \in R => <<i, k>> \in R
  PROVE  \E p \in Bijection(1..n, 1..n) : \A a, b \in 1..n : a < b => <<p[a], p[b]>> \in R
<1> DEFINE before(i) == {j \in 1..n : <<j, i>> \in R}
           rank == [i \in 1..n |-> Cardinality(before(i)) + 1]
           p == [a \in 1..n |-> CHOOSE i \in 1..n : rank[i] = a]
<1>1. ASSUME NEW i \in 1..n, NEW j \in 1..n, <<i, j>> \in R
      PROVE  Cardinality(before(i)) < Cardinality(before(j))
  <2>1. before(i) \in SUBSET (1..n) /\ before(j) \in SUBSET (1..n)
    OBVIOUS
  <2>2. before(i) \cup {i} \subseteq before(j) /\ i \notin before(i)
    BY <1>1
  <2> HIDE DEF before
  <2>3. /\ IsFiniteSet(before(i)) /\ Cardinality(before(i)) \in Nat
        /\ IsFiniteSet(before(j)) /\ Cardinality(before(j)) \in Nat
    BY <2>1, Subinterval
  <2>4. Cardinality(before(i) \cup {i}) = Cardinality(before(i)) + 1
    BY <2>2, <2>3, FS_AddElement
  <2>5. Cardinality(before(i) \cup {i}) <= Cardinality(before(j))
    BY <2>2, <2>3, FS_Subset
  <2> QED
    BY <2>3, <2>4, <2>5
<1>2. ASSUME NEW i \in 1..n
      PROVE  Cardinality(before(i)) \in Nat /\ Cardinality(before(i)) + 1 <= n
  <2>1. before(i) \in SUBSET (1..n) /\ before(i) \cup {i} \subseteq 1..n /\ i \notin before(i)
    OBVIOUS
  <2> HIDE DEF before
  <2>2. IsFiniteSet(before(i)) /\ Cardinality(before(i)) \in Nat
    BY <2>1, Subinterval
  <2>3. Cardinality(before(i) \cup {i}) = Cardinality(before(i)) + 1
    BY <2>1, <2>2, FS_AddElement
  <2>4. IsFiniteSet(1..n) /\ Cardinality(1..n) = n
    BY Counting
  <2>5. Cardinality(before(i) \cup {i}) <= n
    BY <2>1, <2>4, FS_Subset
  <2> QED
    BY <2>2, <2>3, <2>5
<1> HIDE DEF before
<1>3. rank \in [1..n -> 1..n] /\ \A i \in 1..n : rank[i] = Cardinality(before(i)) + 1
  BY <1>2
<1> HIDE DEF rank
<1>4. ASSUME NEW i \in 1..n, NEW j \in 1..n, <<i, j>> \in R PROVE rank[i] < rank[j]
  BY <1>1, <1>2, <1>3, <1>4
<1>5. ASSUME NEW i \in 1..n, NEW j \in 1..n, rank[i] = rank[j], i # j PROVE FALSE
  <2>1. rank[i] \in Nat /\ rank[j] \in Nat
    BY <1>3
  <2>2. <<i, j>> \in R \/ <<j, i>> \in R
    BY <1>5
  <2>3. rank[i] < rank[j] \/ rank[j] < rank[i]
    BY <2>2, <1>4
  <2> QED
    BY <2>1, <2>3, <1>5
<1>6. rank \in Injection(1..n, 1..n)
  BY <1>3, <1>5 DEF Injection, IsInjective
<1>7. rank \in Surjection(1..n, 1..n)
  BY <1>6, Counting, FS_Injection
<1>8. \A a \in 1..n : \E i \in 1..n : rank[i] = a
  BY <1>7 DEF Surjection
<1>9. \A a \in 1..n : p[a] \in 1..n /\ rank[p[a]] = a
  BY <1>8
<1>10. DOMAIN p = 1..n /\ p = [a \in 1..n |-> p[a]]
  OBVIOUS
<1> HIDE DEF p
<1>11. p \in [1..n -> 1..n] /\ IsInjective(p)
  BY <1>9, <1>10 DEF IsInjective
<1>12. \A i \in 1..n : rank[i] \in 1..n /\ p[rank[i]] = i
  BY <1>3, <1>5, <1>9
<1>13. p \in Bijection(1..n, 1..n)
  BY <1>11, <1>12 DEF Bijection, Injection, Surjection
<1>14. ASSUME NEW a \in 1..n, NEW b \in 1..n, a < b PROVE <<p[a], p[b]>> \in R
  <2>1. p[a] \in 1..n /\ p[b] \in 1..n /\ rank[p[a]] = a /\ rank[p[b]] = b
    BY <1>9
  <2>2. p[a] # p[b] /\ ~ (<<p[b], p[a]>> \in R)
    BY <2>1, <1>4, <1>14
  <2> QED
    BY <2>1, <2>2
<1> QED
  BY <1>13, <1>14

LEMMA Remainder ==
  ASSUME NEW S, IsFiniteSet(S), NEW T, T \subseteq S
  PROVE  IsFiniteSet(S \ T) /\ Cardinality(S \ T) = Cardinality(S) - Cardinality(T)
<1>1. S \cap T = T
  OBVIOUS
<1>2. IsFiniteSet(S \ T) /\ Cardinality(S \ T) = Cardinality(S) - Cardinality(S \cap T)
  BY FS_Difference
<1> QED
  BY <1>1, <1>2

LEMMA InjectionExists ==
  ASSUME NEW S, IsFiniteSet(S), NEW T, IsFiniteSet(T), Cardinality(S) <= Cardinality(T)
  PROVE  \E h : h \in [S -> T] /\ IsInjective(h)
<1> DEFINE k == Cardinality(S)
           l == Cardinality(T)
<1>1. k \in Nat /\ l \in Nat /\ ExistsBijection(1..k, S) /\ ExistsBijection(1..l, T)
  BY FS_CardinalityType
<1>2. PICK b \in Bijection(1..k, S) : TRUE
  BY <1>1 DEF ExistsBijection
<1>3. PICK c \in Bijection(1..l, T) : TRUE
  BY <1>1 DEF ExistsBijection
<1>4. k <= l
  OBVIOUS
<1> DEFINE at(x) == CHOOSE i \in 1..k : b[i] = x
           h == [x \in S |-> c[at(x)]]
<1> HIDE DEF k, l
<1>5. b \in [1..k -> S] /\ \A x \in S : \E i \in 1..k : b[i] = x
  BY <1>2 DEF Bijection, Surjection
<1>6. c \in [1..l -> T] /\ \A i, j \in 1..l : c[i] = c[j] => i = j
  BY <1>3 DEF Bijection, Injection, IsInjective
<1>7. \A x \in S : at(x) \in 1..k /\ b[at(x)] = x
  BY <1>5
<1> HIDE DEF at
<1>8. \A x \in S : at(x) \in 1..l
  BY <1>1, <1>4, <1>7
<1>9. h \in [S -> T] /\ \A x \in S : h[x] = c[at(x)]
  BY <1>6, <1>8
<1> HIDE DEF h
<1>10. \A x, y \in S : h[x] = h[y] => x = y
  BY <1>6, <1>7, <1>8, <1>9
<1>11. IsInjective(h)
  BY <1>9, <1>10 DEF IsInjective
<1> QED
  BY <1>9, <1>11

-----------------------------------------------------------------------------
(* Serving the objectives.                                                 *)

LEMMA CompatibleType ==
  ASSUME NEW n \in Nat, slots \in [1..n -> Modality], NEW b
  PROVE  /\ Compatible(b) \in SUBSET (1..n) /\ IsFiniteSet(Compatible(b)) /\ Cardinality(Compatible(b)) \in Nat
         /\ \A s \in 1..n : s \in Compatible(b) <=> slots[s] \in Measuring(b)
<1>1. Compatible(b) = {i \in 1..n : slots[i] \in Measuring(b)}
  BY DEF Compatible
<1>2. Compatible(b) \in SUBSET (1..n)
  BY <1>1
<1> QED
  BY <1>1, <1>2, Subinterval

LEMMA ServingOrderIs ==
  ASSUME NodeTyped, NEW n \in Nat, slots \in [1..n -> Modality]
  PROVE  /\ ServingOrder \in Bijection(DOMAIN objectives, DOMAIN objectives)
         /\ \A a, b \in DOMAIN objectives : a < b => ServedBefore(ServingOrder[a], ServingOrder[b])
<1> DEFINE m == Len(objectives)
           R == {q \in (1..m) \X (1..m) : ServedBefore(q[1], q[2])}
<1>1. m \in Nat /\ DOMAIN objectives = 1..m
  BY DEF NodeTyped
<1> DEFINE count(i) == Cardinality(Compatible(objectives[i]))
<1>2. \A i, j : ServedBefore(i, j) <=> count(i) < count(j) \/ (count(i) = count(j) /\ i < j)
  BY DEF ServedBefore
<1>3. \A i \in 1..m : count(i) \in Nat
  BY CompatibleType
<1> HIDE DEF count, m
<1>4. \A i, j \in 1..m : <<i, j>> \in R <=> count(i) < count(j) \/ (count(i) = count(j) /\ i < j)
  BY <1>2
<1>5. R \in SUBSET ((1..m) \X (1..m))
  OBVIOUS
<1> HIDE DEF R
<1>6. /\ \A i \in 1..m : <<i, i>> \notin R
      /\ \A i, j \in 1..m : i # j => <<i, j>> \in R \/ <<j, i>> \in R
      /\ \A i, j, k \in 1..m : <<i, j>> \in R /\ <<j, k>> \in R => <<i, k>> \in R
  BY <1>1, <1>3, <1>4
<1>7. \E p \in Bijection(1..m, 1..m) : \A a, b \in 1..m : a < b => <<p[a], p[b]>> \in R
  BY <1>1, <1>5, <1>6, OrderExists
<1>8. \E p \in Bijection(1..m, 1..m) : \A a, b \in 1..m : a < b => ServedBefore(p[a], p[b])
  BY <1>7 DEF R
<1> QED
  BY <1>1, <1>8 DEF ServingOrder

(* What two behaviours are measured by is the same for both, or one of the  *)
(* two has all that the other has.                                         *)
LEMMA MeasuringNested ==
  ASSUME NEW b \in Behavior, NEW c \in Behavior, NEW m \in Measuring(b) \cap Measuring(c)
  PROVE  Measuring(b) \subseteq Measuring(c) \/ Measuring(c) \subseteq Measuring(b)
BY DEF Behavior, Modality, Measuring

LEMMA EarlierCanBeReplaced ==
  ASSUME NodeTyped, NEW n \in Nat, slots \in [1..n -> Modality],
         NEW i \in DOMAIN objectives, NEW j \in DOMAIN objectives, ServedBefore(i, j),
         NEW k \in 1..n, NEW l \in 1..n, Measures(k, i), Measures(k, j), Measures(l, i)
  PROVE  Measures(l, j)
<1> DEFINE b == objectives[i]
           c == objectives[j]
<1>1. b \in Behavior /\ c \in Behavior
  BY DEF NodeTyped
<1>2. slots[k] \in Measuring(b) \cap Measuring(c) /\ slots[l] \in Measuring(b)
  BY DEF Measures
<1>3. Cardinality(Compatible(b)) <= Cardinality(Compatible(c))
  BY CompatibleType DEF ServedBefore
<1> HIDE DEF b, c
<1>4. CASE Measuring(b) \subseteq Measuring(c)
  BY <1>2, <1>4 DEF Measures, c
<1>5. CASE Measuring(c) \subseteq Measuring(b)
  <2>1. Compatible(c) \subseteq Compatible(b)
    BY <1>5, CompatibleType
  <2>2. IsFiniteSet(Compatible(b)) /\ Cardinality(Compatible(b)) \in Nat /\ Cardinality(Compatible(c)) \in Nat
    BY CompatibleType
  <2>3. Compatible(c) = Compatible(b)
    BY <1>3, <2>1, <2>2, FS_Subset
  <2>4. l \in Compatible(b)
    BY <1>2, CompatibleType
  <2> QED
    BY <2>3, <2>4, CompatibleType DEF Measures, c
<1> QED
  BY <1>1, <1>2, <1>4, <1>5, MeasuringNested

(* One question of each required modality is kept.                         *)
LEMMA ProtectedIs ==
  ASSUME NEW n \in Nat, slots \in [1..n -> Modality], ToSet(required) \subseteq ToSet(slots)
  PROVE  /\ Protected \subseteq 1..n
         /\ \A r \in ToSet(required) : \E k \in Protected : slots[k] = r
         /\ \A k \in Protected : slots[k] \in ToSet(required)
         /\ \A k, l \in Protected : slots[k] = slots[l] => k = l
<1> DEFINE first(r) == CHOOSE i \in DOMAIN slots : slots[i] = r /\ \A j \in DOMAIN slots : slots[j] = r => i <= j
<1>1. DOMAIN slots = 1..n /\ Len(slots) = n
  OBVIOUS
<1>2. {r \in ToSet(required) : Contains(slots, r)} = ToSet(required)
  BY <1>1 DEF Contains, ToSet
<1>3. Protected = {first(r) : r \in ToSet(required)}
  BY <1>2 DEF Protected
<1>4. ASSUME NEW r \in ToSet(required) PROVE first(r) \in 1..n /\ slots[first(r)] = r
  <2> DEFINE S == {i \in 1..n : slots[i] = r}
  <2>1. S # {}
    BY <1>1 DEF ToSet
  <2>2. S \in SUBSET Nat
    BY Subinterval
  <2>3. \E i \in S : \A j \in S : i <= j
    <3> HIDE DEF S
    <3> QED
      BY <2>1, <2>2, LeastExists
  <2>4. \E i \in DOMAIN slots : slots[i] = r /\ \A j \in DOMAIN slots : slots[j] = r => i <= j
    BY <1>1, <2>3
  <2> QED
    BY <1>1, <2>4
<1> HIDE DEF first
<1> QED
  BY <1>3, <1>4

(* The matching of the gate, carried over to the questions: a required      *)
(* modality stands for the question that keeps it, and the objectives that  *)
(* are not matched share the questions that are not kept.                  *)
LEMMA RoomAtStart ==
  ASSUME NodeTyped, Acceptable, slots \in [1..Total(tiers) -> Modality], ToSet(required) \subseteq ToSet(slots)
  PROVE  \E g \in Injection(DOMAIN objectives, 1..Total(tiers)) :
           \A o \in DOMAIN objectives : g[o] \in Protected => Measures(g[o], o)
<1> DEFINE n == Total(tiers)
           D == DOMAIN objectives
           r == Len(required)
           P == Protected
           free == (1..n) \ P
<1>1. n \in Nat /\ Len(objectives) \in Nat /\ D = 1..Len(objectives) /\ r \in Nat /\ DOMAIN required = 1..r
  BY TotalType DEF NodeTyped
<1>2. PICK S \in SUBSET D : Matchable(S) /\ Len(objectives) - Cardinality(S) <= n - r
  BY DEF Acceptable, CanMeasure
<1>3. PICK f \in [S -> 1..r] : IsInjective(f) /\ \A i \in S : required[f[i]] \in Measuring(objectives[i])
  BY <1>1, <1>2 DEF Matchable
<1>4. /\ P \subseteq 1..n
      /\ \A x \in ToSet(required) : \E k \in P : slots[k] = x
      /\ \A k \in P : slots[k] \in ToSet(required)
      /\ \A k, l \in P : slots[k] = slots[l] => k = l
  BY <1>1, ProtectedIs
<1>5. \A i, j \in 1..r : required[i] = required[j] => i = j
  <2>1. IsInjective(required)
    BY DEF NodeTyped
  <2> HIDE DEF r
  <2> QED
    BY <1>1, <2>1 DEF IsInjective
<1> DEFINE keeper == [j \in 1..r |-> CHOOSE k \in P : slots[k] = required[j]]
<1> HIDE DEF n, D, r, P
<1>6. ASSUME NEW j \in 1..r PROVE keeper[j] \in P /\ slots[keeper[j]] = required[j]
  <2>1. required[j] \in ToSet(required)
    BY <1>1 DEF ToSet
  <2> QED
    BY <1>4, <2>1
<1>7. DOMAIN keeper = 1..r /\ keeper = [j \in 1..r |-> keeper[j]]
  OBVIOUS
<1> HIDE DEF keeper
<1>8. \A i, j \in 1..r : keeper[i] = keeper[j] => i = j
  BY <1>5, <1>6
<1>9. ASSUME NEW k \in P PROVE \E j \in 1..r : keeper[j] = k
  <2>1. PICK j \in 1..r : slots[k] = required[j]
    BY <1>1, <1>4 DEF ToSet
  <2>2. keeper[j] \in P /\ slots[keeper[j]] = required[j]
    BY <1>6
  <2>3. \A l \in P : slots[k] = slots[l] => k = l
    BY <1>4
  <2> QED
    BY <2>1, <2>2, <2>3
<1>10. keeper \in [1..r -> P] /\ keeper \in Bijection(1..r, P)
  BY <1>6, <1>7, <1>8, <1>9 DEF Bijection, Injection, Surjection, IsInjective
<1>11. IsFiniteSet(P) /\ Cardinality(P) = r
  <2>1. ExistsBijection(1..r, P) /\ IsFiniteSet(1..r) /\ Cardinality(1..r) = r
    BY <1>1, <1>10, Counting DEF ExistsBijection
  <2> QED
    BY <2>1, FS_Bijection
<1>12. IsFiniteSet(free) /\ Cardinality(free) = n - r
  <2>1. IsFiniteSet(1..n) /\ Cardinality(1..n) = n 
    BY <1>1, Counting
  <2> QED
    BY <2>1, <1>4, <1>11, Remainder
<1>13. IsFiniteSet(D \ S) /\ Cardinality(D \ S) = Len(objectives) - Cardinality(S)
  <2>1. IsFiniteSet(D) /\ Cardinality(D) = Len(objectives) 
    BY <1>1, Counting
  <2> QED
    BY <2>1, <1>2, Remainder
<1> HIDE DEF free
<1>14. PICK h : h \in [D \ S -> free] /\ IsInjective(h)
  BY <1>2, <1>12, <1>13, InjectionExists
<1> DEFINE g == [o \in D |-> IF o \in S THEN keeper[f[o]] ELSE h[o]]
<1>15. /\ \A o \in S : g[o] = keeper[f[o]] /\ f[o] \in 1..r /\ g[o] \in P
       /\ \A o \in D \ S : g[o] = h[o] /\ g[o] \in free
  BY <1>2, <1>3, <1>6, <1>14
<1>16. DOMAIN g = D /\ g = [o \in D |-> g[o]]
  OBVIOUS
<1> HIDE DEF g
<1>17. free \subseteq 1..n /\ free \cap P = {}
  BY DEF free
<1>18. g \in [D -> 1..n]
  BY <1>4, <1>15, <1>16, <1>17
<1>19. ASSUME NEW o \in D, NEW q \in D, g[o] = g[q] PROVE o = q
  <2>1. CASE o \in S /\ q \in S
    BY <2>1, <1>3, <1>8, <1>15, <1>19 DEF IsInjective
  <2>2. CASE o \notin S /\ q \notin S
    BY <2>2, <1>14, <1>15, <1>19 DEF IsInjective
  <2>3. CASE ~ (o \in S <=> q \in S)
    BY <2>3, <1>15, <1>17, <1>19
  <2> QED
    BY <2>1, <2>2, <2>3
<1>20. ASSUME NEW o \in D, g[o] \in P PROVE Measures(g[o], o)
  <2>1. o \in S
    BY <1>15, <1>17, <1>20
  <2> QED
    BY <2>1, <1>3, <1>6, <1>15 DEF Measures
<1>21. g \in Injection(D, 1..n)
  BY <1>18, <1>19 DEF Injection, IsInjective
<1> QED
  BY <1>20, <1>21 DEF D, n, P

LEMMA StartsServingKeepsInv ==
  ASSUME PlanInv, StartsServing
  PROVE  PlanInv'
<1> DEFINE n == Total(tiers)
           D == DOMAIN objectives
<1>1. /\ phase = "placing" /\ waiting = << >> /\ phase' = "serving" /\ waiting' = ServingOrder
      /\ kept' = Protected /\ assigned' = [s \in DOMAIN slots |-> 0]
      /\ UNCHANGED <<search, nodeVars, slots>>
  BY DEF StartsServing
<1>2. /\ NodeTyped /\ Acceptable /\ slots \in [1..n -> Modality]
      /\ ToSet(required) \subseteq ToSet(slots) \cup ToSet(waiting)
  BY <1>1 DEF PlanInv, NodeInv, PlacingInv
<1>3. ToSet(required) \subseteq ToSet(slots)
  BY <1>1, <1>2 DEF ToSet
<1>4. NodeTyped' /\ Acceptable' /\ Total(tiers)' = n /\ required' = required /\ objectives' = objectives
  BY <1>1, <1>2, NodeKept
<1>5. n \in Nat /\ Len(objectives) \in Nat /\ D = 1..Len(objectives) /\ DOMAIN slots = 1..n
  BY <1>2, TotalType DEF NodeTyped
<1>6. /\ Protected \subseteq 1..n
      /\ \A x \in ToSet(required) : \E k \in Protected : slots[k] = x
  BY <1>2, <1>3, <1>5, ProtectedIs
<1>7. /\ ServingOrder \in Bijection(D, D)
      /\ \A a, b \in D : a < b => ServedBefore(ServingOrder[a], ServingOrder[b])
  BY <1>2, <1>5, ServingOrderIs
<1>8. PICK g \in Injection(D, 1..n) : \A o \in D : g[o] \in Protected => Measures(g[o], o)
  BY <1>2, <1>3, RoomAtStart
<1> HIDE DEF n, D
<1>9. waiting' \in [D -> D] /\ IsInjective(waiting') /\ ToSet(waiting') = D /\ DOMAIN waiting' = D
  BY <1>1, <1>7 DEF Bijection, Injection, Surjection, ToSet
<1>10. waiting' \in Seq(D)
  BY <1>5, <1>9
<1>11. assigned' = [s \in 1..n |-> 0] /\ slots' = slots
  BY <1>1, <1>5
<1>12. \A s, o : Measures(s, o)' <=> Measures(s, o)
  BY <1>4, <1>11 DEF Measures
<1>13. FormTyped'
  BY <1>1, <1>2, <1>4, <1>5, <1>6, <1>10, <1>11 DEF FormTyped, n, D
<1>14. KeepsRequired' /\ Served'
  BY <1>1, <1>4, <1>6, <1>9, <1>11 DEF KeepsRequired, Served, D
<1>15. Exchangeable'
  <2>1. SUFFICES ASSUME NEW a \in D, NEW b \in D, a < b, NEW k \in Protected, NEW l \in Protected,
                        Measures(k, ServingOrder[a]), Measures(k, ServingOrder[b]), Measures(l, ServingOrder[a])
                 PROVE  Measures(l, ServingOrder[b])
    BY <1>1, <1>9, <1>12 DEF Exchangeable
  <2>2. ServingOrder[a] \in D /\ ServingOrder[b] \in D /\ ServedBefore(ServingOrder[a], ServingOrder[b])
    BY <1>1, <1>7, <1>9, <2>1
  <2>3. k \in 1..n /\ l \in 1..n
    BY <1>6
  <2> QED
    BY <1>2, <1>5, <2>1, <2>2, <2>3, EarlierCanBeReplaced DEF n, D
<1>16. Room'
  <2>1. Open' = 1..n
    BY <1>5, <1>11 DEF Open
  <2> QED
    BY <2>1, <1>1, <1>8, <1>9, <1>12 DEF Room
<1> QED
  BY <1>1, <1>4, <1>9, <1>13, <1>14, <1>15, <1>16
     DEF PlanInv, BeforeTheForm, BeforeTheNode, NodeInv, PlacingInv, ServingInv, PlannedInv

(* Whoever is served takes an open question that measures the objective     *)
(* from then on: a kept one as it is, and another one only if no open kept  *)
(* question would do.                                                      *)
Serving(o, k) ==
  /\ k \in Open
  /\ assigned' = [assigned EXCEPT ![k] = o] /\ waiting' = Tail(waiting) /\ phase' = phase
  /\ slots' = slots \/ (k \notin kept /\ slots' = [slots EXCEPT ![k] = Preferred[objectives[o]]])
  /\ slots'[k] \in Measuring(objectives[o])
  /\ k \in kept => Measures(k, o)
  /\ k \notin kept => \A l \in Open \cap kept : ~ Measures(l, o)

LEMMA ServesSomeone ==
  ASSUME PlanInv, Serves
  PROVE  Head(waiting) \in DOMAIN objectives /\ \E k : Serving(Head(waiting), k)
<1> DEFINE n == Total(tiers)
           o == Head(waiting)
           fit == Open \cap Compatible(objectives[o])
           free == Open \ kept
<1>1. /\ phase = "serving" /\ waiting # << >>
      /\ \/ /\ fit # {} /\ assigned' = [assigned EXCEPT ![Choice(fit)] = o]
            /\ waiting' = Tail(waiting) /\ UNCHANGED <<phase, slots>>
         \/ /\ fit = {} /\ free # {}
            /\ assigned' = [assigned EXCEPT ![Lowest(free)] = o]
            /\ slots' = [slots EXCEPT ![Lowest(free)] = Preferred[objectives[o]]]
            /\ waiting' = Tail(waiting) /\ UNCHANGED phase
         \/ fit = {} /\ free = {}
  BY DEF Serves
<1>2. NodeTyped /\ Acceptable /\ FormTyped /\ Room
  BY <1>1 DEF PlanInv, NodeInv, ServingInv
<1>3. n \in Nat /\ slots \in [1..n -> Modality] /\ DOMAIN slots = 1..n
  BY <1>2, TotalType DEF FormTyped
<1>4. o \in DOMAIN objectives /\ o \in ToSet(waiting)
  BY <1>1, <1>2, HeadTailSet DEF FormTyped
<1>5. PICK g \in Injection(ToSet(waiting), Open) : \A q \in ToSet(waiting) : g[q] \in kept => Measures(g[q], q)
  BY <1>2 DEF Room
<1>6. g[o] \in Open /\ (g[o] \in kept => Measures(g[o], o))
  BY <1>4, <1>5 DEF Injection
<1>7. Open \in SUBSET (1..n) /\ \A s \in Open : s \in fit <=> Measures(s, o)
  BY <1>3, CompatibleType DEF Open, Measures
<1>8. objectives[o] \in Behavior
  BY <1>2, <1>4 DEF NodeTyped
<1>9. ~ (fit = {} /\ free = {})
  BY <1>6, <1>7
<1> HIDE DEF o, fit, free, n
<1>10. CASE /\ fit # {} /\ assigned' = [assigned EXCEPT ![Choice(fit)] = o]
            /\ waiting' = Tail(waiting) /\ UNCHANGED <<phase, slots>>
  <2> DEFINE k == Choice(fit)
             S == IF fit \cap kept # {} THEN fit \cap kept ELSE fit
  <2>1. S # {} /\ S \subseteq fit /\ fit \subseteq Open
    BY <1>10 DEF fit
  <2>3. k = Lowest(S)
    BY DEF Choice
  <2> HIDE DEF k, S
  <2>2. S \in SUBSET Nat
    BY <1>3, <1>7, <2>1, Subinterval
  <2>4. k \in S
    BY <2>1, <2>2, <2>3, LowestIs
  <2>5. k \in Open /\ Measures(k, o) /\ (k \notin kept => fit \cap kept = {})
    BY <1>7, <2>1, <2>4 DEF S
  <2>6. k \notin kept => \A l \in Open \cap kept : ~ Measures(l, o)
    BY <1>7, <2>5
  <2>7. slots'[k] \in Measuring(objectives[o])
    BY <1>10, <2>5 DEF Measures
  <2>8. Serving(o, k)
    BY <1>10, <2>5, <2>6, <2>7 DEF Serving, k
  <2> QED
    BY <1>4, <2>8 DEF o
<1>11. CASE /\ fit = {} /\ free # {}
            /\ assigned' = [assigned EXCEPT ![Lowest(free)] = o]
            /\ slots' = [slots EXCEPT ![Lowest(free)] = Preferred[objectives[o]]]
            /\ waiting' = Tail(waiting) /\ UNCHANGED phase
  <2> DEFINE k == Lowest(free)
  <2>1. free \subseteq Open /\ free \cap kept = {}
    BY DEF free
  <2>2. free \in SUBSET Nat
    BY <1>3, <1>7, <2>1
  <2>3. k \in free
    BY <1>11, <2>2, LowestIs
  <2>4. slots' = [slots EXCEPT ![k] = Preferred[objectives[o]]]
    BY <1>11
  <2> HIDE DEF k
  <2>5. k \in 1..n /\ k \in Open /\ k \notin kept
    BY <1>7, <2>1, <2>3
  <2>6. slots'[k] \in Measuring(objectives[o])
    BY <1>3, <1>8, <2>4, <2>5, PreferredMeasures
  <2>7. \A l \in Open \cap kept : ~ Measures(l, o)
    BY <1>7, <1>11
  <2>8. Serving(o, k)
    BY <1>11, <2>4, <2>5, <2>6, <2>7 DEF Serving, k
  <2> QED
    BY <1>4, <2>8 DEF o
<1> QED
  BY <1>1, <1>9, <1>10, <1>11

LEMMA ServesKeepsInv ==
  ASSUME PlanInv, Serves
  PROVE  PlanInv'
<1> DEFINE n == Total(tiers)
           D == DOMAIN objectives
           W == ToSet(waiting)
<1>o. PICK o : o = Head(waiting)
  OBVIOUS
<1>1. phase = "serving" /\ waiting # << >> /\ UNCHANGED <<search, nodeVars, kept>>
  BY DEF Serves
<1>2. /\ NodeTyped /\ Acceptable /\ FormTyped /\ IsInjective(waiting)
      /\ KeepsRequired /\ Served /\ Exchangeable /\ Room
  BY <1>1 DEF PlanInv, NodeInv, ServingInv
<1>3. PICK k : Serving(o, k)
  BY <1>o, ServesSomeone
<1>4. /\ k \in Open
      /\ assigned' = [assigned EXCEPT ![k] = o] /\ waiting' = Tail(waiting) /\ phase' = phase
      /\ slots' = slots \/ (k \notin kept /\ slots' = [slots EXCEPT ![k] = Preferred[objectives[o]]])
      /\ slots'[k] \in Measuring(objectives[o])
      /\ k \in kept => Measures(k, o)
      /\ k \notin kept => \A l \in Open \cap kept : ~ Measures(l, o)
  BY <1>3 DEF Serving
<1>5. NodeTyped' /\ Acceptable' /\ Total(tiers)' = n /\ required' = required /\ objectives' = objectives /\ kept' = kept
  BY <1>1, <1>2, NodeKept
<1>6. /\ n \in Nat /\ slots \in [1..n -> Modality] /\ DOMAIN slots = 1..n /\ kept \subseteq 1..n
      /\ Len(objectives) \in Nat /\ D = 1..Len(objectives) /\ waiting \in Seq(D)
      /\ assigned \in [1..n -> 0..Len(objectives)]
  BY <1>2, TotalType DEF FormTyped, NodeTyped
<1>7. /\ o \in D /\ Tail(waiting) \in Seq(D) /\ Len(waiting) \in Nat /\ Len(waiting) >= 1
      /\ DOMAIN Tail(waiting) = 1..(Len(waiting) - 1) /\ DOMAIN waiting = 1..Len(waiting)
      /\ o = waiting[1] /\ \A i \in 1..(Len(waiting) - 1) : Tail(waiting)[i] = waiting[i + 1]
      /\ W = {o} \cup ToSet(Tail(waiting))
  BY <1>o, <1>1, <1>6, HeadTailSet
<1>8. \A i \in 1..(Len(waiting) - 1) : i + 1 \in 1..Len(waiting) /\ i + 1 # 1
  BY <1>7
<1>9. \A i, j \in 1..Len(waiting) : waiting[i] = waiting[j] => i = j
  BY <1>2, <1>7 DEF IsInjective
<1> HIDE DEF n, D, W
<1>10. IsInjective(Tail(waiting))
  BY <1>7, <1>8, <1>9 DEF IsInjective
<1>11. o \notin ToSet(Tail(waiting)) /\ ToSet(Tail(waiting)) = W \ {o}
  <2>1. 1 \in 1..Len(waiting)
    BY <1>7
  <2>2. \A i \in 1..(Len(waiting) - 1) : Tail(waiting)[i] # o
    BY <2>1, <1>7, <1>8, <1>9
  <2>3. o \notin ToSet(Tail(waiting))
    BY <2>2, <1>7 DEF ToSet
  <2> QED
    BY <2>3, <1>7
<1>12. k \in 1..n /\ assigned[k] = 0 /\ Open = {s \in 1..n : assigned[s] = 0}
  BY <1>4, <1>6 DEF Open
<1>13. o # 0 /\ o \in 0..Len(objectives)
  BY <1>6, <1>7
<1>14. /\ assigned' \in [1..n -> 0..Len(objectives)] /\ assigned'[k] = o
       /\ \A s \in 1..n : s # k => assigned'[s] = assigned[s]
  BY <1>4, <1>6, <1>12, <1>13
<1>15. /\ slots' \in [1..n -> Modality] /\ DOMAIN slots' = 1..n
       /\ \A s \in 1..n : s # k \/ k \in kept => slots'[s] = slots[s]
  <2>1. Preferred[objectives[o]] \in Modality
    BY <1>2, <1>7, PreferredMeasures DEF NodeTyped, D
  <2>2. CASE slots' = slots
    BY <2>2, <1>6
  <2>3. CASE k \notin kept /\ slots' = [slots EXCEPT ![k] = Preferred[objectives[o]]]
    BY <2>1, <2>3, <1>6, <1>12
  <2> QED
    BY <2>2, <2>3, <1>4
<1>16. Open' = Open \ {k}
  <2>1. Open' = {s \in 1..n : assigned'[s] = 0}
    BY <1>15 DEF Open
  <2> QED
    BY <2>1, <1>12, <1>13, <1>14
<1>17. /\ \A q : \A s \in 1..n : s # k \/ k \in kept => (Measures(s, q)' <=> Measures(s, q))
       /\ Measures(k, o)'
  BY <1>4, <1>5, <1>15 DEF Measures
<1>18. \A q : \A s \in kept : Measures(s, q)' <=> Measures(s, q)
  BY <1>6, <1>17
<1>19. FormTyped'
  BY <1>4, <1>5, <1>6, <1>7, <1>14, <1>15 DEF FormTyped, n, D
<1>20. KeepsRequired'
  <2>1. \A s \in kept : slots'[s] = slots[s]
    BY <1>6, <1>15
  <2> QED
    BY <2>1, <1>2, <1>5 DEF KeepsRequired
<1>21. Served'
  <2>1. ASSUME NEW q \in D \ ToSet(Tail(waiting))
        PROVE  \E s \in 1..n : assigned'[s] = q /\ Measures(s, q)'
    <3>1. CASE q = o
      BY <3>1, <1>12, <1>14, <1>17
    <3>2. CASE q # o
      <4>1. q \notin W /\ q # 0
        BY <2>1, <3>2, <1>6, <1>11
      <4>2. PICK s \in 1..n : assigned[s] = q /\ Measures(s, q)
        BY <4>1, <1>2, <1>6 DEF Served, D, W
      <4>3. s # k
        BY <4>1, <4>2, <1>12
      <4> QED
        BY <4>2, <4>3, <1>14, <1>17
    <3> QED
      BY <3>1, <3>2
  <2> QED
    BY <2>1, <1>4, <1>5, <1>15 DEF Served, D
<1>22. Exchangeable'
  <2>1. SUFFICES ASSUME NEW a \in 1..(Len(waiting) - 1), NEW b \in 1..(Len(waiting) - 1), a < b,
                        NEW s \in kept, NEW l \in kept,
                        Measures(s, waiting[a + 1]), Measures(s, waiting[b + 1]), Measures(l, waiting[a + 1])
                 PROVE  Measures(l, waiting[b + 1])
    BY <1>4, <1>5, <1>7, <1>18 DEF Exchangeable
  <2>2. a + 1 \in DOMAIN waiting /\ b + 1 \in DOMAIN waiting /\ a + 1 < b + 1
    BY <2>1, <1>7, <1>8
  <2> QED
    BY <2>1, <2>2, <1>2 DEF Exchangeable
<1>23. Room'
  <2>1. PICK g \in Injection(W, Open) : \A q \in W : g[q] \in kept => Measures(g[q], q)
    BY <1>2 DEF Room, W
  <2>2. g \in [W -> Open] /\ o \in W /\ \A p, q \in W : g[p] = g[q] => p = q
    BY <2>1, <1>7 DEF Injection, IsInjective
  <2>h. PICK h : h = [q \in W \ {o} |-> IF g[q] = k THEN g[o] ELSE g[q]]
    OBVIOUS
  <2>3. \A q \in W \ {o} : h[q] = IF g[q] = k THEN g[o] ELSE g[q]
    BY <2>h
  <2>4. h \in [W \ {o} -> Open \ {k}]
    BY <2>h, <2>2
  <2>5. \A p, q \in W \ {o} : h[p] = h[q] => p = q
    BY <2>2, <2>3
  <2>6. h \in Injection(W \ {o}, Open \ {k})
    BY <2>4, <2>5 DEF Injection, IsInjective
  <2>7. ASSUME NEW q \in W \ {o}, h[q] \in kept PROVE Measures(h[q], q)
    <3>1. CASE g[q] # k
      BY <2>1, <2>3, <2>7, <3>1
    <3>2. CASE g[q] = k
      <4>1. h[q] = g[o] /\ g[o] \in kept /\ g[o] \in Open /\ Measures(g[o], o)
        BY <2>1, <2>2, <2>3, <2>7, <3>2
      <4>2. k \in kept /\ Measures(k, o) /\ Measures(k, q)
        BY <2>1, <3>2, <4>1, <1>4
      <4>3. PICK b \in 1..Len(waiting) : q = waiting[b]
        BY <2>7, <1>7 DEF W, ToSet
      <4>4. 1 \in DOMAIN waiting /\ b \in DOMAIN waiting /\ 1 < b
        BY <2>7, <4>3, <1>7
      <4> QED
        BY <4>1, <4>2, <4>3, <4>4, <1>2, <1>7 DEF Exchangeable
    <3> QED
      BY <3>1, <3>2
  <2>8. \A q \in W \ {o} : h[q] \in kept => Measures(h[q], q)'
    BY <2>7, <1>18
  <2> QED
    BY <2>6, <2>8, <1>4, <1>5, <1>11, <1>16 DEF Room
<1> QED
  BY <1>1, <1>4, <1>5, <1>10, <1>19, <1>20, <1>21, <1>22, <1>23
     DEF PlanInv, BeforeTheForm, BeforeTheNode, NodeInv, PlacingInv, ServingInv, PlannedInv

-----------------------------------------------------------------------------
(* Filling up.                                                             *)

(* A finite set of numbers has an element with any smaller number of        *)
(* elements below it.                                                      *)
LEMMA NthIs ==
  ASSUME NEW n \in Nat, NEW S \in SUBSET (1..n), NEW k \in Nat, k < Cardinality(S)
  PROVE  Nth(S, k) \in S
<1> DEFINE below(o) == {p \in S : p < o}
           c == Cardinality(S)
           rank == [o \in S |-> Cardinality(below(o))]
<1>1. S \in SUBSET Nat /\ IsFiniteSet(S) /\ c \in Nat
  BY Subinterval
<1>0. \A o \in S : o \in Nat
  BY <1>1
<1>2. ASSUME NEW o \in S
      PROVE  below(o) \in SUBSET (1..n) /\ below(o) \subseteq S /\ o \notin below(o)
  <2>1. o \notin below(o)
    BY <1>0
  <2>2. below(o) \subseteq S
    OBVIOUS
  <2> QED
    BY <2>1, <2>2
<1>3. ASSUME NEW o \in S, NEW q \in S, o < q
      PROVE  below(o) \cup {o} \subseteq below(q)
  <2>1. o \in Nat /\ q \in Nat
    BY <1>0
  <2>2. ASSUME NEW p \in below(o) PROVE p \in below(q)
    <3>1. p \in S /\ p < o /\ p \in Nat
      BY <1>0
    <3> QED
      BY <1>3, <2>1, <3>1
  <2> QED
    BY <1>3, <2>2
<1> HIDE DEF below, c
<1>4. ASSUME NEW o \in S
      PROVE  /\ IsFiniteSet(below(o)) /\ Cardinality(below(o)) \in Nat
             /\ Cardinality(below(o) \cup {o}) = Cardinality(below(o)) + 1
             /\ Cardinality(below(o)) < c
  <2>1. IsFiniteSet(below(o)) /\ Cardinality(below(o)) \in Nat
    BY <1>2, Subinterval
  <2>2. Cardinality(below(o) \cup {o}) = Cardinality(below(o)) + 1
    BY <1>2, <2>1, FS_AddElement
  <2>3. below(o) \cup {o} \subseteq S
    BY <1>2
  <2>4. Cardinality(below(o) \cup {o}) <= c
    BY <1>1, <2>3, FS_Subset DEF c
  <2> QED
    BY <1>1, <2>1, <2>2, <2>4
<1>5. ASSUME NEW o \in S, NEW q \in S, o < q
      PROVE  Cardinality(below(o)) < Cardinality(below(q))
  <2>1. below(o) \cup {o} \subseteq below(q)
    BY <1>3, <1>5
  <2>2. Cardinality(below(o) \cup {o}) <= Cardinality(below(q))
    BY <1>4, <2>1, FS_Subset
  <2>3. Cardinality(below(o)) + 1 <= Cardinality(below(q))
    BY <1>4, <2>2
  <2>4. Cardinality(below(o)) \in Nat /\ Cardinality(below(q)) \in Nat
    BY <1>4
  <2> QED
    BY <2>3, <2>4
<1>a. \A o \in S : Cardinality(below(o)) \in 0..(c - 1)
  <2>1. ASSUME NEW o \in S PROVE Cardinality(below(o)) \in 0..(c - 1)
    <3>1. Cardinality(below(o)) \in Nat /\ Cardinality(below(o)) < c
      BY <1>4
    <3> QED
      BY <1>1, <3>1
  <2> QED
    BY <2>1
<1>6. rank \in [S -> 0..(c - 1)] /\ \A o \in S : rank[o] = Cardinality(below(o))
  BY <1>a
<1> HIDE DEF rank
<1>7. ASSUME NEW o \in S, NEW q \in S, rank[o] = rank[q] PROVE o = q
  <2>1. ~ (o < q) /\ ~ (q < o)
    BY <1>4, <1>5, <1>6, <1>7
  <2>2. o \in Nat /\ q \in Nat
    BY <1>1
  <2> QED
    BY <2>1, <2>2
<1>8. rank \in Injection(S, 0..(c - 1))
  BY <1>6, <1>7 DEF Injection, IsInjective
<1>9. IsFiniteSet(0..(c - 1)) /\ Cardinality(0..(c - 1)) = c
  BY <1>1, FS_Interval
<1>10. rank \in Surjection(S, 0..(c - 1))
  BY <1>8, <1>9, FS_Injection DEF c
<1>11. k \in 0..(c - 1)
  BY <1>1 DEF c
<1>12. \E o \in S : rank[o] = k
  BY <1>10, <1>11 DEF Surjection
<1>13. \E o \in S : Cardinality(below(o)) = k
  BY <1>6, <1>12
<1> QED
  BY <1>13 DEF Nth, below

LEMMA FilledType ==
  ASSUME NodeTyped, Acceptable, FormTyped
  PROVE  /\ Filled \in [1..Total(tiers) -> 0..Len(objectives)]
         /\ \A s \in 1..Total(tiers) : assigned[s] # 0 => Filled[s] = assigned[s]
<1> DEFINE n == Total(tiers)
           m == Len(objectives)
           fit(s) == {o \in DOMAIN objectives : slots[s] \in Measuring(objectives[o])}
           pool(s) == IF fit(s) = {} THEN DOMAIN objectives ELSE fit(s)
           cursor(s) == Cardinality({t \in Open : t < s})
<1>1. /\ n \in Nat /\ DOMAIN slots = 1..n /\ m \in Nat /\ m >= 1 /\ DOMAIN objectives = 1..m
      /\ assigned \in [1..n -> 0..m] /\ Open \in SUBSET (1..n)
  BY TotalType DEF FormTyped, NodeTyped, Open
<1>2. Filled = [s \in 1..n |->
                  IF assigned[s] # 0 THEN assigned[s] ELSE Nth(pool(s), cursor(s) % Cardinality(pool(s)))]
  BY <1>1 DEF Filled
<1>3. ASSUME NEW s \in 1..n
      PROVE  Nth(pool(s), cursor(s) % Cardinality(pool(s))) \in 1..m
  <2>1. pool(s) \in SUBSET (1..m) /\ pool(s) # {}
    <3>1. 1 \in 1..m
      BY <1>1
    <3> QED
      BY <1>1, <3>1
  <2>2. {t \in Open : t < s} \in SUBSET (1..n)
    BY <1>1
  <2>3. cursor(s) \in Nat
    BY <1>1, <2>2, Subinterval
  <2> HIDE DEF pool, cursor
  <2>4. IsFiniteSet(pool(s)) /\ Cardinality(pool(s)) \in Nat
    BY <1>1, <2>1, Subinterval
  <2>5. Cardinality(pool(s)) # 0
    BY <2>1, <2>4, FS_EmptySet
  <2>6. \A a \in Nat : \A b \in Nat \ {0} : a % b \in Nat /\ a % b < b
    OBVIOUS
  <2>7. cursor(s) % Cardinality(pool(s)) \in Nat /\ cursor(s) % Cardinality(pool(s)) < Cardinality(pool(s))
    BY <2>3, <2>4, <2>5, <2>6
  <2> HIDE DEF m
  <2>8. Nth(pool(s), cursor(s) % Cardinality(pool(s))) \in pool(s)
    BY <1>1, <2>1, <2>7, NthIs
  <2> QED
    BY <2>1, <2>8
<1> HIDE DEF pool, cursor
<1>4. \A s \in 1..n : Filled[s] = IF assigned[s] # 0 THEN assigned[s]
                                  ELSE Nth(pool(s), cursor(s) % Cardinality(pool(s)))
  BY <1>2
<1>5. \A s \in 1..n : Filled[s] \in 0..m
  BY <1>1, <1>3, <1>4
<1>6. Filled = [s \in 1..n |-> Filled[s]]
  BY <1>2
<1> QED
  BY <1>4, <1>5, <1>6

LEMMA AnchorsOpen ==
  ASSUME NodeTyped, Acceptable, slots \in [1..Total(tiers) -> Modality]
  PROVE  Anchors # {} /\ \A i \in Anchors : TierSeq[i] # 3
<1>1. /\ tiers[1] \in Nat /\ tiers[2] \in Nat /\ tiers[1] + tiers[2] >= 1
      /\ 1 \in 1..Total(tiers) /\ DOMAIN slots = 1..Total(tiers)
  BY TotalType, PlanAssumption DEF NodeTyped, Acceptable, Tier
<1>2. TierSeq[1] = IF 1 <= tiers[1] THEN 1 ELSE IF 1 <= tiers[1] + tiers[2] THEN 2 ELSE 3
  BY <1>1 DEF TierSeq
<1>3. TierSeq[1] <= 2
  BY <1>1, <1>2
<1>4. 1 \in Anchors
  BY <1>1, <1>3 DEF Anchors
<1> QED
  BY <1>4 DEF Anchors

LEMMA FillsKeepsInv ==
  ASSUME PlanInv, Fills
  PROVE  PlanInv'
<1> DEFINE n == Total(tiers)
<1>1. /\ phase = "serving" /\ waiting = << >> /\ assigned' = Filled /\ phase' = "planned"
      /\ UNCHANGED <<search, nodeVars, slots, waiting, kept>>
  BY DEF Fills
<1>2. NodeTyped /\ Acceptable /\ FormTyped /\ KeepsRequired /\ Served
  BY <1>1 DEF PlanInv, NodeInv, ServingInv
<1>3. NodeTyped' /\ Acceptable' /\ Total(tiers)' = n /\ required' = required /\ objectives' = objectives
  BY <1>1, <1>2, NodeKept
<1>4. n \in Nat /\ slots \in [1..n -> Modality] /\ DOMAIN slots = 1..n /\ kept \subseteq 1..n
      /\ DOMAIN objectives = 1..Len(objectives)
  BY <1>2, TotalType DEF FormTyped, NodeTyped
<1>5. /\ assigned' \in [1..n -> 0..Len(objectives)]
      /\ \A s \in 1..n : assigned[s] # 0 => assigned'[s] = assigned[s]
  BY <1>1, <1>2, FilledType
<1> HIDE DEF n
<1>6. ASSUME NEW o \in DOMAIN objectives
      PROVE  \E s \in 1..n : assigned'[s] = o /\ slots[s] \in Measuring(objectives[o])
  <2>1. o \notin ToSet(waiting) /\ o # 0
    BY <1>1, <1>4 DEF ToSet
  <2>2. PICK s \in 1..n : assigned[s] = o /\ Measures(s, o)
    BY <2>1, <1>2, <1>4 DEF Served
  <2> QED
    BY <2>1, <2>2, <1>5 DEF Measures
<1>7. ToSet(required) \subseteq ToSet(slots)
  BY <1>2, <1>4 DEF KeepsRequired, ToSet
<1>8. Anchors # {} /\ \A i \in Anchors : TierSeq[i] # 3
  BY <1>2, <1>4, AnchorsOpen DEF n
<1>9. slots' = slots /\ tiers' = tiers /\ kept' = kept /\ waiting' = waiting
  BY <1>1 DEF nodeVars
<1>10. Anchors' = Anchors /\ TierSeq' = TierSeq
  BY <1>9 DEF Anchors, TierSeq, Total
<1>11. PlannedMeasures'
  BY <1>3, <1>4, <1>6, <1>7, <1>8, <1>9, <1>10 DEF PlannedMeasures
<1>12. FormTyped'
  BY <1>2, <1>3, <1>5, <1>9 DEF FormTyped, n
<1> QED
  BY <1>1, <1>3, <1>11, <1>12
     DEF PlanInv, BeforeTheForm, BeforeTheNode, NodeInv, PlacingInv, ServingInv, PlannedInv

-----------------------------------------------------------------------------
(* The other steps of the plan.                                            *)

LEMMA PlanInitInv ==
  ASSUME PlanInit
  PROVE  PlanInv
<1>1. /\ phase \in {"walking", "replacing", "given"}
      /\ tiers = <<0, 0, 0>> /\ required = << >>
      /\ slots = << >> /\ waiting = << >> /\ kept = {} /\ assigned = << >>
      /\ phase # "given" => objectives = << >>
      /\ phase = "given" => objectives \in Seq(Behavior) /\ Len(objectives) >= 1 /\ origin = "given"
  <2>1. ASSUME NEW n \in 1..MaxGiven, objectives \in [1..n -> Behavior]
        PROVE  objectives \in Seq(Behavior) /\ Len(objectives) >= 1
    BY <2>1, PlanAssumption
  <2> QED
    BY <2>1 DEF PlanInit
<1> QED
  BY <1>1 DEF PlanInv, BeforeTheForm, BeforeTheNode, NodeInv, PlacingInv, ServingInv, PlannedInv

LEMMA WalkingKeepsInv ==
  ASSUME PlanInv, PassesOver \/ Visits \/ Refuses \/ Leaves \/ Finishes
  PROVE  PlanInv'
<1>1. /\ phase = "walking" /\ phase' \in {"walking", "refused", "found"}
      /\ UNCHANGED <<nodeVars, formVars>>
  BY DEF PassesOver, Visits, Refuses, Leaves, Finishes
<1>2. /\ objectives' = objectives /\ tiers' = tiers /\ required' = required
      /\ slots' = slots /\ waiting' = waiting /\ kept' = kept /\ assigned' = assigned
  BY <1>1 DEF nodeVars, formVars
<1> QED
  BY <1>1, <1>2 DEF PlanInv, BeforeTheForm, BeforeTheNode, NodeInv, PlacingInv, ServingInv, PlannedInv

LEMMA PlannedByRoleB ==
  ASSUME BeforeTheForm, phase \in {"found", "replacing"}, UNCHANGED formVars, phase' = "offered",
         NodeTyped', Fits(objectives', tiers', required')
  PROVE  PlanInv'
<1>1. Acceptable'
  BY AcceptableNext
<1>2. slots' = << >> /\ waiting' = << >> /\ kept' = {} /\ assigned' = << >>
  BY DEF formVars, BeforeTheForm
<1> QED
  BY <1>1, <1>2 DEF PlanInv, BeforeTheForm, BeforeTheNode, NodeInv, PlacingInv, ServingInv, PlannedInv

LEMMA PlansInitialKeepsInv ==
  ASSUME PlanInv, WalkTyped, PlansInitial
  PROVE  PlanInv'
<1>1. PICK goal \in Behavior :
        /\ objectives' = InitialObjectives(goal, Cardinality(search.roots))
        /\ tiers' = InitialNode(objectives').tiers /\ required' = InitialNode(objectives').required
  BY DEF PlansInitial
<1>n. PICK n : n = Cardinality(search.roots)
  OBVIOUS
<1>2. /\ search.roots \in SUBSET Concepts /\ search.roots # {} /\ search.kind = "initial"
      /\ Cardinality(search.roots) <= MaxSlots
  BY DEF WalkTyped, PlansInitial
<1>3. n \in 1..MaxSlots
  <2>1. IsFiniteSet(search.roots)
    BY <1>2, PlanAssumption, FS_Subset
  <2>2. Cardinality(search.roots) \in Nat
    BY <2>1, FS_CardinalityType
  <2>3. Cardinality(search.roots) # 0
    BY <1>2, <2>1, FS_EmptySet
  <2> QED
    BY <1>n, <1>2, <2>2, <2>3, PlanAssumption
<1>4. objectives' = InitialObjectives(goal, n)
  BY <1>n, <1>1
<1>5. /\ objectives' \in Seq(Behavior) /\ Len(objectives') >= 1 /\ tiers' \in [Tier -> 0..MaxTier]
      /\ required' \in Seq(Modality) /\ IsInjective(required')
      /\ Fits(objectives', tiers', required')
  BY <1>1, <1>3, <1>4, InitialFits
<1>6. phase = "found" /\ phase' = "offered" /\ UNCHANGED formVars /\ NodeTyped'
  BY <1>5 DEF PlansInitial, NodeTyped
<1> QED
  BY <1>5, <1>6, PlannedByRoleB DEF PlanInv

LEMMA PlansRecoveryKeepsInv ==
  ASSUME PlanInv, PlansRecovery
  PROVE  PlanInv'
<1>n. PICK n \in 1..3 : n = 1
  OBVIOUS
<1>1. /\ objectives' = RecoveryObjectives(n) /\ tiers' = WithCapacity(RecoveryBlueprint(n), n).tiers
      /\ required' = WithCapacity(RecoveryBlueprint(n), n).required
  BY <1>n DEF PlansRecovery
<1>2. /\ objectives' \in Seq(Behavior) /\ Len(objectives') >= 1 /\ tiers' \in [Tier -> 0..MaxTier]
      /\ required' \in Seq(Modality) /\ IsInjective(required')
      /\ Fits(objectives', tiers', required')
  BY <1>1, RecoveryFits
<1>3. phase = "found" /\ phase' = "offered" /\ UNCHANGED formVars /\ NodeTyped'
  BY <1>2 DEF PlansRecovery, NodeTyped
<1> QED
  BY <1>2, <1>3, PlannedByRoleB DEF PlanInv

LEMMA ReplacesKeepsInv ==
  ASSUME PlanInv, Replaces
  PROVE  PlanInv'
<1>0. phase = "replacing" /\ UNCHANGED formVars
  BY DEF Replaces
<1>1. CASE phase' = "refused" /\ UNCHANGED nodeVars
  <2>1. slots' = << >> /\ waiting' = << >> /\ kept' = {} /\ assigned' = << >>
    BY <1>0 DEF formVars, BeforeTheForm, PlanInv
  <2>2. tiers' = <<0, 0, 0>> /\ required' = << >> /\ objectives' = << >>
    BY <1>0, <1>1 DEF nodeVars, BeforeTheNode, PlanInv
  <2> QED
    BY <1>1, <2>1, <2>2 DEF PlanInv, BeforeTheForm, BeforeTheNode, NodeInv, PlacingInv, ServingInv, PlannedInv
<1>2. ASSUME NEW n \in 1..3, objectives' = RecoveryObjectives(n),
             tiers' = WithCapacity(RecoveryBlueprint(n), n).tiers,
             required' = WithCapacity(RecoveryBlueprint(n), n).required, phase' = "offered"
      PROVE  PlanInv'
  <2>1. /\ objectives' \in Seq(Behavior) /\ Len(objectives') >= 1 /\ tiers' \in [Tier -> 0..MaxTier]
        /\ required' \in Seq(Modality) /\ IsInjective(required')
        /\ Fits(objectives', tiers', required')
    BY <1>2, RecoveryFits
  <2>2. NodeTyped'
    BY <2>1 DEF NodeTyped
  <2> QED
    BY <1>0, <1>2, <2>1, <2>2, PlannedByRoleB DEF PlanInv
<1> QED
  BY <1>1, <1>2 DEF Replaces

LEMMA GivenKeepsInv ==
  ASSUME PlanInv, Given
  PROVE  PlanInv'
<1>1. phase = "given" /\ phase' = "offered" /\ UNCHANGED <<search, origin, objectives, formVars>>
  BY DEF Given
<1>2. objectives' \in Seq(Behavior) /\ Len(objectives') >= 1 /\ origin' = "given"
  BY <1>1 DEF PlanInv, BeforeTheNode
<1>3. slots' = << >> /\ waiting' = << >> /\ kept' = {} /\ assigned' = << >>
  BY <1>1 DEF formVars, BeforeTheForm, PlanInv
<1>4. required' \in Seq(Modality) /\ IsInjective(required')
  <2>1. PICK n \in 0..MaxRequired : \E modes \in [1..n -> Modality] : IsInjective(modes) /\ required' = modes
    BY DEF Given
  <2>2. n \in Nat /\ required' \in [1..n -> Modality] /\ IsInjective(required')
    BY <2>1, PlanAssumption
  <2> QED
    BY <2>2
<1>5. tiers' \in [Tier -> 0..MaxTier]
  <2>1. PICK t \in Tiers : tiers' = <<t[1], t[2], t[3]>>
    BY DEF Given
  <2> DEFINE M == 0..MaxTier
  <2>2. t[1] \in M /\ t[2] \in M /\ t[3] \in M
    BY <2>1 DEF Tiers, Tier
  <2> HIDE DEF M
  <2>3. tiers' \in [1..3 -> M]
    BY <2>1, <2>2
  <2> QED
    BY <2>3 DEF Tier, M
<1>6. NodeTyped'
  BY <1>2, <1>4, <1>5 DEF NodeTyped
<1> QED
  BY <1>1, <1>2, <1>3, <1>6
     DEF PlanInv, BeforeTheForm, BeforeTheNode, NodeInv, PlacingInv, ServingInv, PlannedInv

LEMMA GateKeepsInv ==
  ASSUME PlanInv, Gate
  PROVE  PlanInv'
<1>1. /\ phase = "offered" /\ UNCHANGED nodeVars /\ UNCHANGED <<kept, assigned>>
      /\ IF Acceptable THEN phase' = "placing" /\ slots' = DefaultSlots /\ waiting' = required
         ELSE phase' = "rejected" /\ UNCHANGED <<slots, waiting>>
  BY DEF Gate, formVars
<1>2. /\ NodeTyped /\ (origin = "given" \/ Acceptable)
      /\ slots = << >> /\ waiting = << >> /\ kept = {} /\ assigned = << >>
  BY <1>1 DEF PlanInv, NodeInv, BeforeTheForm
<1>3. /\ origin' = origin /\ objectives' = objectives /\ tiers' = tiers /\ required' = required
      /\ kept' = {} /\ assigned' = << >>
  BY <1>1, <1>2 DEF nodeVars
<1>4. NodeTyped'
  BY <1>2, <1>3 DEF NodeTyped
<1>5. CASE ~ Acceptable
  BY <1>1, <1>2, <1>3, <1>4, <1>5
     DEF PlanInv, BeforeTheForm, BeforeTheNode, NodeInv, PlacingInv, ServingInv, PlannedInv
<1>6. CASE Acceptable
  <2>1. Acceptable'
    BY <1>3, <1>6, AcceptableIsFits, AcceptableNext
  <2>2. DefaultSlots \in [1..Total(tiers) -> Modality] /\ Total(tiers)' = Total(tiers)
    BY <1>2, <1>3, DefaultSlotsType
  <2>3. required \in Seq(ToSet(required))
    BY <1>2 DEF NodeTyped, ToSet
  <2> QED
    BY <1>1, <1>3, <1>4, <1>6, <2>1, <2>2, <2>3
       DEF PlanInv, BeforeTheForm, BeforeTheNode, NodeInv, PlacingInv, ServingInv, PlannedInv
<1> QED
  BY <1>5, <1>6

LEMMA PlanStutters ==
  ASSUME PlanInv, UNCHANGED planVars
  PROVE  PlanInv'
<1>1. /\ phase' = phase /\ origin' = origin /\ objectives' = objectives /\ tiers' = tiers
      /\ required' = required /\ slots' = slots /\ waiting' = waiting /\ kept' = kept
      /\ assigned' = assigned
  BY DEF planVars
<1>2. (Acceptable' <=> Acceptable) /\ (NodeTyped' <=> NodeTyped)
  BY <1>1, AcceptableIsFits, AcceptableNext DEF NodeTyped
<1>3. /\ BeforeTheForm' <=> BeforeTheForm
      /\ BeforeTheNode' <=> BeforeTheNode
      /\ PlacingInv' <=> PlacingInv
  BY <1>1 DEF BeforeTheForm, BeforeTheNode, PlacingInv
<1>4. FormTyped' <=> FormTyped
  BY <1>1 DEF FormTyped
<1>5. \A s, o : Measures(s, o)' <=> Measures(s, o)
  BY <1>1 DEF Measures
<1>6. Open' = Open /\ TierSeq' = TierSeq /\ Anchors' = Anchors
  BY <1>1 DEF Open, TierSeq, Anchors, Total
<1>7. ServingInv' <=> ServingInv
  BY <1>1, <1>4, <1>5, <1>6 DEF ServingInv, KeepsRequired, Served, Exchangeable, Room
<1>8. PlannedInv' <=> PlannedInv
  BY <1>1, <1>4, <1>6 DEF PlannedInv, PlannedMeasures
<1> QED
  BY <1>1, <1>2, <1>3, <1>7, <1>8 DEF PlanInv, NodeInv

-----------------------------------------------------------------------------
(* The walk: what is reached and what is needed, as least sets.            *)

LEMMA ReachedIs ==
  ASSUME WalkTyped
  PROVE  /\ Reached \subseteq Points /\ \A n \in Reached : ~ Mastered(n)
         /\ \A r \in search.roots : ~ Mastered(r) => r \in Reached
         /\ \A n \in Reached \cap Concepts : \A m \in search.graph[n] : ~ Mastered(m) => m \in Reached
         /\ \A n \in Concepts : search.graph[n] \subseteq Points
<1>1. search.graph \in [Concepts -> SUBSET Points] /\ search.roots \subseteq Points
  BY DEF WalkTyped, Graph, Points
<1>2. ASSUME NEW r \in search.roots, ~ Mastered(r) PROVE r \in Reached
  BY <1>1, <1>2 DEF Reached, Covers
<1>3. ASSUME NEW n \in Reached \cap Concepts, NEW m \in search.graph[n], ~ Mastered(m) PROVE m \in Reached
  <2>1. m \in Points /\ ~ Mastered(n)
    BY <1>1 DEF Reached
  <2>2. ASSUME NEW S \in SUBSET Points, Covers(S) PROVE m \in S
    BY <2>1, <2>2 DEF Reached, Covers
  <2> QED
    BY <1>3, <2>1, <2>2 DEF Reached
<1> QED
  BY <1>1, <1>2, <1>3 DEF Reached

LEMMA NeedsAre ==
  ASSUME NEW n \in Concepts
  PROVE  /\ \A m \in search.graph[n] \cap Reached : m \in Needs(n)
         /\ \A m \in Needs(n) \cap Concepts : \A k \in search.graph[m] \cap Reached : k \in Needs(n)
         /\ Needs(n) \subseteq Reached
BY DEF Needs, Supports

LEMMA SameGraph ==
  ASSUME search'.graph = search.graph, search'.known = search.known,
         search'.kind = search.kind, search'.roots = search.roots
  PROVE  /\ Reached' = Reached /\ \A n : Mastered(n)' <=> Mastered(n)
         /\ \A n : Needs(n)' = Needs(n)
<1>1. \A n : Mastered(n)' <=> Mastered(n)
  BY DEF Mastered
<1>2. \A S : Covers(S)' <=> Covers(S)
  BY <1>1 DEF Covers
<1>3. Reached' = Reached
  BY <1>1, <1>2 DEF Reached
<1>4. \A S, n : Supports(S, n)' <=> Supports(S, n)
  BY <1>3 DEF Supports
<1> QED
  BY <1>1, <1>3, <1>4 DEF Needs

(* What is left of the walk once a point was looked at.                    *)
Walks ==
  [kind : {"initial", "recovery"}, graph : Graph, known : SUBSET Concepts,
   roots : SUBSET Concepts, left : SUBSET Concepts,
   stack : Seq([node : Concepts, rest : SUBSET Points]),
   ordered : Seq(Concepts), visited : SUBSET Concepts]

LEMMA WalkShape ==
  ASSUME WalkTyped
  PROVE  /\ search \in Walks /\ Depth \in Nat /\ DOMAIN search.stack = 1..Depth
         /\ search.stack \in Seq([node : Concepts, rest : SUBSET Points])
         /\ \A i \in 1..Depth : /\ search.stack[i] \in [node : Concepts, rest : SUBSET Points]
                               /\ Node(i) \in Concepts /\ Rest(i) \in SUBSET Points
<1> DEFINE Visit == [node : Concepts, rest : SUBSET Points]
<1>1. search \in Walks
  BY DEF WalkTyped, Walks
<1>2. search.stack \in Seq(Visit)
  BY <1>1 DEF Walks
<1> HIDE DEF Visit
<1>3. Len(search.stack) \in Nat /\ DOMAIN search.stack = 1..Len(search.stack)
      /\ \A i \in 1..Len(search.stack) : search.stack[i] \in Visit
  BY <1>2
<1>4. \A i \in 1..Depth : Node(i) \in Concepts /\ Rest(i) \in SUBSET Points
  BY <1>3 DEF Visit, Node, Rest, Depth
<1> QED
  BY <1>1, <1>2, <1>3, <1>4 DEF Visit, Depth

WithoutIt(d, n) ==
  /\ d \in Walks
  /\ d.kind = search.kind /\ d.graph = search.graph /\ d.known = search.known /\ d.roots = search.roots
  /\ d.ordered = search.ordered /\ d.visited = search.visited
  /\ d.left = IF Depth = 0 THEN search.left \ {n} ELSE search.left
  /\ Len(d.stack) = Depth
  /\ \A i \in 1..Depth : /\ d.stack[i].node = Node(i)
                         /\ d.stack[i].rest = IF i = Depth THEN Rest(i) \ {n} ELSE Rest(i)

LEMMA DroppedIs ==
  ASSUME WalkTyped, NEW n
  PROVE  WithoutIt(Dropped(n), n)
<1> DEFINE Visit == [node : Concepts, rest : SUBSET Points]
<1>1. /\ search \in Walks /\ Depth \in Nat /\ search.stack \in Seq(Visit)
      /\ \A i \in 1..Depth : search.stack[i] \in Visit
      /\ DOMAIN search.stack = 1..Depth
  BY WalkShape
<1>2. CASE search.stack = << >>
  <2>1. Depth = 0
    BY <1>2 DEF Depth
  <2>2. Dropped(n) = [search EXCEPT !.left = search.left \ {n}]
    BY <1>2 DEF Dropped
  <2>3. search.left \ {n} \in SUBSET Concepts
    BY <1>1 DEF Walks
  <2>4. /\ Dropped(n) \in Walks /\ Dropped(n).left = search.left \ {n} /\ Dropped(n).stack = search.stack
        /\ Dropped(n).kind = search.kind /\ Dropped(n).graph = search.graph
        /\ Dropped(n).known = search.known /\ Dropped(n).roots = search.roots
        /\ Dropped(n).ordered = search.ordered /\ Dropped(n).visited = search.visited
    BY <1>1, <2>2, <2>3 DEF Walks
  <2> QED
    BY <2>1, <2>4 DEF WithoutIt, Depth
<1>3. CASE search.stack # << >>
  <2> DEFINE top == [search.stack[Depth] EXCEPT !.rest = search.stack[Depth].rest \ {n}]
             st == [search.stack EXCEPT ![Depth] = top]
  <2>1. Depth >= 1 /\ Depth \in 1..Depth
    BY <1>1, <1>3, EmptySeq DEF Depth
  <2>2. Dropped(n) = [search EXCEPT !.stack = st]
    BY <1>3 DEF Dropped, Depth
  <2>3. top \in Visit /\ top.node = Node(Depth) /\ top.rest = Rest(Depth) \ {n}
    BY <1>1, <2>1 DEF Node, Rest
  <2> HIDE DEF top
  <2>4. /\ st \in Seq(Visit) /\ Len(st) = Depth /\ st[Depth] = top
        /\ \A i \in 1..Depth : i # Depth => st[i] = search.stack[i]
    BY <1>1, <2>1, <2>3 DEF Depth
  <2> HIDE DEF st
  <2>5. /\ Dropped(n) \in Walks /\ Dropped(n).left = search.left /\ Dropped(n).stack = st
        /\ Dropped(n).kind = search.kind /\ Dropped(n).graph = search.graph
        /\ Dropped(n).known = search.known /\ Dropped(n).roots = search.roots
        /\ Dropped(n).ordered = search.ordered /\ Dropped(n).visited = search.visited
    BY <1>1, <2>2, <2>4 DEF Walks
  <2>6. Depth # 0
    BY <2>1
  <2> QED
    BY <2>3, <2>4, <2>5, <2>6 DEF WithoutIt, Node, Rest
<1> QED
  BY <1>2, <1>3

(* What is offered next comes from the roots, or is a prerequisite of the   *)
(* point that is visited; in both cases it has to be looked at.            *)
LEMMA OfferedIs ==
  ASSUME WalkSound, NEW n \in Offered
  PROVE  /\ n \in Points
         /\ Depth = 0 => n \in search.left /\ n \in search.roots
         /\ Depth > 0 => n \in Rest(Depth) /\ n \in search.graph[Node(Depth)]
         /\ ~ PassedOver(n) => n \in Reached \ search.visited
         /\ ~ PassedOver(n) /\ Depth > 0 => \A i \in 1..Depth : n \in Needs(Node(i))
<1>1. /\ search \in Walks /\ Depth \in Nat /\ search.left \subseteq search.roots
      /\ search.roots \subseteq Points /\ WalkTyped /\ StackSound
  BY DEF WalkSound, WalkTyped, Walks, Depth, Points
<1>2. CASE Depth = 0
  <2>1. n \in search.left
    <3>1. search.stack = << >>
      BY <1>1, <1>2, EmptySeq DEF Depth, Walks
    <3> QED
      BY <3>1 DEF Offered
  <2>2. ~ PassedOver(n) => n \in Reached \ search.visited
    BY <1>1, <2>1, ReachedIs DEF PassedOver
  <2> QED
    BY <1>1, <1>2, <2>1, <2>2
<1>3. CASE Depth > 0
  <2>1. Depth \in 1..Depth /\ search.stack # << >>
    BY <1>1, <1>3 DEF Depth
  <2>2. n \in Rest(Depth)
    BY <2>1 DEF Offered, Last, Rest, Depth
  <2>3. Node(Depth) \in Reached \cap Concepts /\ n \in search.graph[Node(Depth)]
    BY <1>1, <2>1, <2>2, WalkShape DEF StackSound
  <2>4. n \in Points
    BY <1>1, <2>3, ReachedIs
  <2>5. ~ PassedOver(n) => n \in Reached \ search.visited
    BY <1>1, <2>3, ReachedIs DEF PassedOver
  <2>6. ASSUME NEW i \in 1..Depth, ~ PassedOver(n) PROVE n \in Needs(Node(i))
    <3>1. Node(i) \in Concepts
      BY <1>1, WalkShape
    <3>2. CASE i = Depth
      BY <2>3, <2>5, <2>6, <3>1, <3>2, NeedsAre
    <3>3. CASE i # Depth
      <4>1. i < Depth
        BY <1>1, <3>3
      <4>2. Node(Depth) \in Needs(Node(i))
        BY <1>1, <2>1, <4>1 DEF StackSound
      <4> QED
        BY <2>3, <2>5, <2>6, <3>1, <4>2, NeedsAre
    <3> QED
      BY <3>2, <3>3
  <2> QED
    BY <1>3, <2>2, <2>3, <2>4, <2>5, <2>6
<1> QED
  BY <1>1, <1>2, <1>3

-----------------------------------------------------------------------------
(* The walk: its steps.                                                    *)

LEMMA PassesOverKeepsWalk ==
  ASSUME WalkSound, PassesOver
  PROVE  WalkSound'
<1>1. PICK n \in Offered : PassedOver(n) /\ search' = Dropped(n)
  BY DEF PassesOver
<1>2. WalkTyped /\ NothingDropped /\ StackSound /\ OrderSound
  BY DEF WalkSound
<1>3. WithoutIt(search', n)
  BY <1>1, <1>2, DroppedIs
<1>4. /\ search' \in Walks
      /\ search'.kind = search.kind /\ search'.graph = search.graph
      /\ search'.known = search.known /\ search'.roots = search.roots
      /\ search'.ordered = search.ordered /\ search'.visited = search.visited
      /\ search'.left = IF Depth = 0 THEN search.left \ {n} ELSE search.left
      /\ Depth' = Depth
      /\ \A i \in 1..Depth : Node(i)' = Node(i) /\ Rest(i)' = IF i = Depth THEN Rest(i) \ {n} ELSE Rest(i)
  BY <1>3 DEF WithoutIt, Depth, Node, Rest
<1>5. /\ Depth \in Nat /\ search \in Walks
      /\ Depth = 0 => n \in search.left
      /\ Depth > 0 => n \in Rest(Depth)
  BY <1>1, <1>2, WalkShape, OfferedIs DEF WalkSound
<1>6. Reached' = Reached /\ (\A m : Mastered(m)' <=> Mastered(m)) /\ (\A m : Needs(m)' = Needs(m))
  BY <1>4, SameGraph
<1>7. \A m : PassedOver(m)' <=> PassedOver(m)
  BY <1>4, <1>6 DEF PassedOver
<1>8. WalkTyped'
  BY <1>2, <1>4 DEF WalkTyped, Walks
<1>9. NothingDropped'
  <2>1. ASSUME NEW r \in search.roots \ search'.left
        PROVE  PassedOver(r) \/ (Depth > 0 /\ r = Node(1))
    BY <1>1, <1>2, <1>4, <2>1 DEF NothingDropped
  <2>2. ASSUME NEW i \in 1..Depth, NEW m \in search.graph[Node(i)] \ Rest(i)'
        PROVE  PassedOver(m) \/ (i < Depth /\ m = Node(i + 1))
    BY <1>1, <1>2, <1>4, <2>2 DEF NothingDropped
  <2>3. \A i \in 1..Depth : i < Depth => Node(i + 1)' = Node(i + 1)
    BY <1>4, <1>5
  <2>4. Depth > 0 => Node(1)' = Node(1)
    BY <1>4, <1>5
  <2>5. \A x \in search.visited : \A m \in search.graph[x] : PassedOver(m)
    BY <1>2 DEF NothingDropped
  <2> QED
    BY <1>4, <1>7, <2>1, <2>2, <2>3, <2>4, <2>5 DEF NothingDropped
<1>10. StackSound'
  BY <1>2, <1>4, <1>6 DEF StackSound
<1>11. OrderSound'
  BY <1>2, <1>4, <1>6 DEF OrderSound, Listable
<1> QED
  BY <1>8, <1>9, <1>10, <1>11 DEF WalkSound

LEMMA VisitsKeepsWalk ==
  ASSUME WalkSound, Visits
  PROVE  WalkSound'
<1>1. PICK n \in (Offered \cap Concepts) \ Visiting :
        ~ PassedOver(n) /\ search' = [Dropped(n) EXCEPT !.stack = Append(@, Entered(n))]
  BY DEF Visits
<1>2. WalkTyped /\ NothingDropped /\ StackSound /\ OrderSound
  BY DEF WalkSound
<1>d. PICK d : d = Dropped(n)
  OBVIOUS
<1>3. WithoutIt(d, n)
  BY <1>2, <1>d, DroppedIs
<1>p. PICK p : p = Depth + 1
  OBVIOUS
<1>4. /\ Depth \in Nat /\ search \in Walks /\ DOMAIN search.stack = 1..Depth
      /\ \A i \in 1..Depth : Node(i) \in Concepts
      /\ Depth = 0 => n \in search.left /\ n \in search.roots
      /\ Depth > 0 => n \in Rest(Depth)
      /\ n \in Reached \ search.visited /\ n \in Concepts
      /\ \A i \in 1..Depth : n \in Needs(Node(i))
  BY <1>1, <1>2, WalkShape, OfferedIs
<1>5. Entered(n) \in [node : Concepts, rest : SUBSET Points] /\ Entered(n).node = n /\ Entered(n).rest = search.graph[n]
  BY <1>2, <1>4, ReachedIs DEF Entered
<1>6. /\ search' \in Walks
      /\ search'.kind = search.kind /\ search'.graph = search.graph
      /\ search'.known = search.known /\ search'.roots = search.roots
      /\ search'.ordered = search.ordered /\ search'.visited = search.visited
      /\ search'.left = IF Depth = 0 THEN search.left \ {n} ELSE search.left
      /\ search'.stack = Append(d.stack, Entered(n))
  <2>1. search' = [d EXCEPT !.stack = Append(d.stack, Entered(n))]
    BY <1>1, <1>d
  <2>2. d \in Walks
    BY <1>3 DEF WithoutIt
  <2>3. Append(d.stack, Entered(n)) \in Seq([node : Concepts, rest : SUBSET Points])
    BY <1>5, <2>2, AppendProperties DEF Walks
  <2>4. search' \in Walks
    BY <2>1, <2>2, <2>3 DEF Walks
  <2>5. /\ search'.kind = d.kind /\ search'.graph = d.graph /\ search'.known = d.known /\ search'.roots = d.roots
        /\ search'.ordered = d.ordered /\ search'.visited = d.visited /\ search'.left = d.left
        /\ search'.stack = Append(d.stack, Entered(n))
    BY <2>1, <2>2 DEF Walks
  <2> QED
    BY <1>3, <2>4, <2>5 DEF WithoutIt
<1>7. /\ Depth' = p /\ Node(p)' = n /\ Rest(p)' = search.graph[n]
      /\ \A i \in 1..Depth : Node(i)' = Node(i) /\ Rest(i)' = IF i = Depth THEN Rest(i) \ {n} ELSE Rest(i)
  <2> DEFINE Visit == [node : Concepts, rest : SUBSET Points]
  <2>1. /\ d.stack \in Seq(Visit) /\ Len(d.stack) = Depth
        /\ \A i \in 1..Depth : d.stack[i].node = Node(i)
             /\ d.stack[i].rest = IF i = Depth THEN Rest(i) \ {n} ELSE Rest(i)
    BY <1>3 DEF WithoutIt, Walks
  <2>2. Entered(n) \in Visit
    BY <1>5
  <2> HIDE DEF Visit
  <2>3. /\ Len(search'.stack) = p /\ search'.stack[p] = Entered(n)
        /\ \A i \in 1..Depth : search'.stack[i] = d.stack[i]
    BY <1>6, <1>p, <2>1, <2>2, AppendProperties
  <2> QED
    BY <1>5, <2>1, <2>3 DEF Depth, Node, Rest
<1>8. Reached' = Reached /\ (\A m : Mastered(m)' <=> Mastered(m)) /\ (\A m : Needs(m)' = Needs(m))
  BY <1>6, SameGraph
<1>9. \A m : PassedOver(m)' <=> PassedOver(m)
  BY <1>6, <1>8 DEF PassedOver
<1>10. WalkTyped'
  BY <1>2, <1>6 DEF WalkTyped, Walks
<1>11. NothingDropped'
  <2>1. ASSUME NEW r \in search.roots \ search'.left
        PROVE  PassedOver(r) \/ r = Node(1)'
    <3>1. CASE Depth = 0
      <4>1. r = n \/ r \in search.roots \ search.left
        BY <1>6, <2>1, <3>1
      <4> QED
        BY <1>2, <1>7, <1>p, <3>1, <4>1 DEF NothingDropped
    <3>2. CASE Depth # 0
      <4>1. 1 \in 1..Depth /\ Node(1)' = Node(1)
        BY <1>4, <1>7, <3>2
      <4> QED
        BY <1>2, <1>6, <2>1, <3>2, <4>1 DEF NothingDropped
    <3> QED
      BY <3>1, <3>2
  <2>2. ASSUME NEW i \in 1..p, NEW m \in search.graph[Node(i)'] \ Rest(i)'
        PROVE  PassedOver(m) \/ (i < p /\ m = Node(i + 1)')
    <3>1. CASE i = p
      BY <1>7, <2>2, <3>1
    <3>2. CASE i = Depth
      <4>1. i \in 1..Depth /\ m \in search.graph[Node(i)] /\ (m \notin Rest(i) \/ m = n)
        BY <1>4, <1>7, <2>2, <3>2
      <4>2. m \notin Rest(i) => PassedOver(m)
        BY <1>2, <1>4, <3>2, <4>1 DEF NothingDropped
      <4>3. i < p /\ i + 1 = p
        BY <1>4, <1>p, <3>2
      <4> QED
        BY <1>7, <4>1, <4>2, <4>3
    <3>3. CASE i # p /\ i # Depth
      <4>1. i \in 1..Depth /\ i + 1 \in 1..Depth /\ i < Depth /\ i < p
        BY <1>4, <1>p, <3>3
      <4>2. m \in search.graph[Node(i)] \ Rest(i) /\ Node(i + 1)' = Node(i + 1)
        BY <1>7, <2>2, <3>3, <4>1
      <4> QED
        BY <1>2, <4>1, <4>2 DEF NothingDropped
    <3> QED
      BY <3>1, <3>2, <3>3
  <2>3. \A x \in search.visited : \A m \in search.graph[x] : PassedOver(m)
    BY <1>2 DEF NothingDropped
  <2>4. p > 0
    BY <1>4, <1>p
  <2> QED
    BY <1>6, <1>7, <1>9, <2>1, <2>2, <2>3, <2>4 DEF NothingDropped
<1>12. StackSound'
  <2>1. ASSUME NEW i \in 1..p
        PROVE  Node(i)' \in Reached \ search.visited /\ Rest(i)' \subseteq search.graph[Node(i)']
    <3>1. CASE i = p
      BY <1>4, <1>7, <3>1
    <3>2. CASE i # p
      <4>1. i \in 1..Depth
        BY <1>4, <1>p, <3>2
      <4> QED
        BY <1>2, <1>7, <4>1 DEF StackSound
    <3> QED
      BY <3>1, <3>2
  <2>2. ASSUME NEW i \in 1..p, NEW j \in 1..p, i < j
        PROVE  Node(j)' \in Needs(Node(i)') /\ Node(i)' # Node(j)'
    <3>1. i \in 1..Depth
      BY <1>4, <1>p, <2>2
    <3>2. CASE j = p
      <4>1. Node(i) # n
        BY <1>1, <1>4, <3>1 DEF Visiting, Node
      <4> QED
        BY <1>4, <1>7, <3>1, <3>2, <4>1
    <3>3. CASE j # p
      <4>1. j \in 1..Depth
        BY <1>4, <1>p, <3>3
      <4> QED
        BY <1>2, <1>7, <2>2, <3>1, <4>1 DEF StackSound
    <3> QED
      BY <3>2, <3>3
  <2> QED
    BY <1>6, <1>7, <1>8, <2>1, <2>2 DEF StackSound
<1>13. OrderSound'
  BY <1>2, <1>6, <1>8 DEF OrderSound, Listable
<1> QED
  BY <1>10, <1>11, <1>12, <1>13 DEF WalkSound

LEMMA LeavesKeepsWalk ==
  ASSUME WalkSound, Leaves
  PROVE  WalkSound'
<1> DEFINE Visit == [node : Concepts, rest : SUBSET Points]
<1>n. PICK n : n = Node(Depth)
  OBVIOUS
<1>p. PICK p : p = Depth - 1
  OBVIOUS
<1>1. WalkTyped /\ NothingDropped /\ StackSound /\ OrderSound
  BY DEF WalkSound
<1>2. /\ Depth \in Nat /\ search \in Walks /\ DOMAIN search.stack = 1..Depth
      /\ search.stack \in Seq(Visit)
      /\ \A i \in 1..Depth : search.stack[i] \in Visit /\ Node(i) \in Concepts
  BY <1>1, WalkShape
<1>3. search.stack # << >> /\ Depth # 0 /\ Rest(Depth) = {} /\ Last(search.stack).node = n
  BY <1>2, <1>n DEF Leaves, Offered, Last, Rest, Node, Depth
<1>4. Depth \in 1..Depth /\ p \in Nat /\ p < Depth /\ p + 1 = Depth /\ Depth > 0
  BY <1>2, <1>3, <1>p
<1>5. /\ n \in Concepts /\ n \in Reached /\ n \notin search.visited
      /\ \A i \in 1..p : Node(i) # n
  BY <1>1, <1>2, <1>4, <1>n DEF StackSound
<1>6. \A m \in search.graph[n] : PassedOver(m)
  BY <1>1, <1>3, <1>4, <1>n DEF NothingDropped
<1>7. ~ PassedOver(n)
  BY <1>1, <1>5, ReachedIs DEF PassedOver
<1>8. n \notin search.graph[n] /\ \A x \in search.visited : n \notin search.graph[x]
  BY <1>1, <1>6, <1>7 DEF NothingDropped
<1>9. search' = [search EXCEPT !.stack = Front(search.stack), !.visited = search.visited \cup {n},
                               !.ordered = Listed(n)]
  BY <1>3 DEF Leaves
<1>10. Front(search.stack) \in Seq(Visit) /\ Len(Front(search.stack)) = p
       /\ \A i \in 1..p : Front(search.stack)[i] = search.stack[i]
  <2> HIDE DEF Visit
  <2>1. /\ Front(search.stack) = SubSeq(search.stack, 1, Len(search.stack) - 1)
        /\ Len(search.stack) \in Nat /\ Len(search.stack) >= 1 /\ p = Len(search.stack) - 1
    BY <1>2, <1>3, <1>p DEF Front, Depth
  <2>2. \A i \in 1..p : search.stack[i] \in Visit
    BY <1>2, <1>4
  <2>3. Front(search.stack) = [i \in 1..p |-> search.stack[i]]
    BY <1>2, <1>4, <2>1
  <2> QED
    BY <1>4, <2>2, <2>3
<1>l. Listed(n) = IF search.kind = "initial" /\ n \in search.roots THEN search.ordered ELSE Append(search.ordered, n)
  BY DEF Listed
<1>11. search.ordered \in Seq(Concepts) /\ Listed(n) \in Seq(Concepts)
  BY <1>2, <1>5, <1>l DEF Walks
<1>12. /\ search' \in Walks
       /\ search'.kind = search.kind /\ search'.graph = search.graph
       /\ search'.known = search.known /\ search'.roots = search.roots /\ search'.left = search.left
       /\ search'.stack = Front(search.stack) /\ search'.visited = search.visited \cup {n}
       /\ search'.ordered = Listed(n)
  <2>1. search.visited \cup {n} \in SUBSET Concepts
    BY <1>2, <1>5 DEF Walks
  <2> QED
    BY <1>2, <1>9, <1>10, <1>11, <2>1 DEF Walks
<1>13. /\ Depth' = p
       /\ \A i \in 1..p : Node(i)' = Node(i) /\ Rest(i)' = Rest(i)
  BY <1>10, <1>12 DEF Depth, Node, Rest
<1>14. Reached' = Reached /\ (\A m : Mastered(m)' <=> Mastered(m)) /\ (\A m : Needs(m)' = Needs(m))
  BY <1>12, SameGraph
<1>15. \A m : PassedOver(m)' <=> PassedOver(m) \/ m = n
  BY <1>12, <1>14 DEF PassedOver
<1>16. WalkTyped'
  BY <1>1, <1>12 DEF WalkTyped, Walks
<1>17. NothingDropped'
  <2>1. ASSUME NEW r \in search.roots \ search.left
        PROVE  PassedOver(r) \/ r = n \/ (p > 0 /\ r = Node(1)')
    <3>1. PassedOver(r) \/ r = Node(1)
      BY <1>1, <2>1 DEF NothingDropped
    <3>2. p = 0 => Node(1) = n
      BY <1>4, <1>n
    <3>3. p # 0 => p > 0 /\ Node(1)' = Node(1)
      BY <1>4, <1>13
    <3> QED
      BY <3>1, <3>2, <3>3
  <2>2. ASSUME NEW i \in 1..p, NEW m \in search.graph[Node(i)] \ Rest(i)
        PROVE  PassedOver(m) \/ m = n \/ (i < p /\ m = Node(i + 1)')
    <3>1. i \in 1..Depth
      BY <1>4
    <3>2. PassedOver(m) \/ m = Node(i + 1)
      BY <1>1, <2>2, <3>1 DEF NothingDropped
    <3>3. i = p => Node(i + 1) = n
      BY <1>4, <1>n
    <3>4. i # p => i < p /\ i + 1 \in 1..p
      BY <1>4
    <3>5. i # p => i < p /\ Node(i + 1)' = Node(i + 1)
      BY <3>4, <1>13
    <3> QED
      BY <3>2, <3>3, <3>5
  <2>3. ASSUME NEW x \in search.visited \cup {n}, NEW m \in search.graph[x] PROVE PassedOver(m)
    BY <1>1, <1>6, <2>3 DEF NothingDropped
  <2> QED
    BY <1>12, <1>13, <1>15, <2>1, <2>2, <2>3 DEF NothingDropped
<1>18. StackSound'
  <2>1. ASSUME NEW i \in 1..p
        PROVE  Node(i) \in Reached \ (search.visited \cup {n}) /\ Rest(i) \subseteq search.graph[Node(i)]
    <3>1. i \in 1..Depth
      BY <1>4
    <3> QED
      BY <1>1, <1>5, <3>1 DEF StackSound
  <2>2. ASSUME NEW i \in 1..p, NEW j \in 1..p, i < j
        PROVE  Node(j) \in Needs(Node(i)) /\ Node(i) # Node(j)
    <3>1. i \in 1..Depth /\ j \in 1..Depth
      BY <1>4
    <3> QED
      BY <1>1, <2>2, <3>1 DEF StackSound
  <2> QED
    BY <1>12, <1>13, <1>14, <2>1, <2>2 DEF StackSound
<1>19. OrderSound'
  <2> DEFINE old == search.ordered
             L == Listable
  <2>1. /\ search.visited \subseteq Reached /\ IsInjective(old) /\ ToSet(old) = L
        /\ \A i \in DOMAIN old : \A m \in search.graph[old[i]] \cap L : \E j \in 1..(i - 1) : old[j] = m
        /\ L \subseteq search.visited
    BY <1>1 DEF OrderSound, Listable
  <2>2. old \in Seq(Concepts) /\ Len(old) \in Nat /\ DOMAIN old = 1..Len(old)
    BY <1>11
  <2>3. \A i \in 1..Len(old) : old[i] \in L
    BY <2>1, <2>2 DEF ToSet
  <2>4. search'.visited \subseteq Reached'
    BY <1>5, <1>12, <1>14, <2>1
  <2>5. CASE search.kind = "initial" /\ n \in search.roots
    <3>1. search'.ordered = old /\ Listable' = L
      BY <1>12, <1>l, <2>5 DEF Listable
    <3> HIDE DEF old, L
    <3> QED
      BY <1>12, <2>1, <2>4, <3>1 DEF OrderSound
  <2>6. CASE ~ (search.kind = "initial" /\ n \in search.roots)
    <3>1. search'.ordered = Append(old, n) /\ Listable' = L \cup {n}
      BY <1>12, <1>l, <2>6 DEF Listable
    <3>q. PICK q : q = Len(old) + 1
      OBVIOUS
    <3>w. PICK new : new = search'.ordered
      OBVIOUS
    <3> HIDE DEF old, L
    <3>2. /\ DOMAIN new = 1..q /\ new[q] = n /\ q \in Nat /\ q = Len(old) + 1
          /\ \A i \in 1..Len(old) : new[i] = old[i]
      BY <1>5, <2>2, <3>1, <3>q, <3>w, AppendProperties
    <3>3. \A i \in 1..q : i = q \/ i \in 1..Len(old)
      BY <2>2, <3>2
    <3>4. n \notin L
      BY <1>5, <2>1
    <3>5. IsInjective(new)
      <4>1. ASSUME NEW i \in 1..q, NEW j \in 1..q, new[i] = new[j] PROVE i = j
        BY <2>1, <2>2, <2>3, <3>2, <3>3, <3>4, <4>1 DEF IsInjective
      <4> QED
        BY <3>2, <4>1 DEF IsInjective
    <3>6. ToSet(new) = L \cup {n}
      <4>1. ASSUME NEW x \in ToSet(new) PROVE x \in L \cup {n}
        BY <2>3, <3>2, <3>3, <4>1 DEF ToSet
      <4>2. ASSUME NEW x \in L PROVE x \in ToSet(new)
        <5>1. PICK i \in 1..Len(old) : old[i] = x
          BY <2>1, <2>2, <4>2 DEF ToSet
        <5>2. i \in 1..q
          BY <2>2, <3>2
        <5> QED
          BY <3>2, <5>1, <5>2 DEF ToSet
      <4>3. n \in ToSet(new)
        <5>1. q \in 1..q
          BY <2>2, <3>2
        <5> QED
          BY <3>2, <5>1 DEF ToSet
      <4> QED
        BY <4>1, <4>2, <4>3
    <3>7. ASSUME NEW i \in 1..q, NEW m \in search.graph[new[i]] \cap (L \cup {n})
          PROVE  \E j \in 1..(i - 1) : new[j] = m
      <4>1. CASE i = q
        <5>1. m \in L
          BY <1>8, <3>2, <3>7, <4>1
        <5>2. PICK j \in 1..Len(old) : old[j] = m
          BY <2>1, <2>2, <5>1 DEF ToSet
        <5>3. j \in 1..(i - 1)
          BY <2>2, <3>2, <4>1
        <5> QED
          BY <3>2, <5>2, <5>3
      <4>2. CASE i # q
        <5>1. i \in 1..Len(old) /\ new[i] = old[i] /\ old[i] \in search.visited
          BY <2>1, <2>3, <3>2, <3>3, <4>2
        <5>2. m \in L
          BY <1>8, <3>7, <5>1
        <5>3. PICK j \in 1..(i - 1) : old[j] = m
          BY <2>1, <2>2, <3>7, <5>1, <5>2
        <5>4. j \in 1..Len(old)
          BY <2>2, <5>1
        <5> QED
          BY <3>2, <5>3, <5>4
      <4> QED
        BY <4>1, <4>2
    <3>8. /\ search'.ordered = new /\ DOMAIN new = 1..q
          /\ Listable' = L \cup {n} /\ search'.graph = search.graph
      BY <1>12, <3>1, <3>2, <3>w
    <3>9. \A i \in DOMAIN search'.ordered : \A m \in search'.graph[search'.ordered[i]] \cap Listable' :
            \E j \in 1..(i - 1) : search'.ordered[j] = m
      BY <3>7, <3>8
    <3>10. IsInjective(search'.ordered) /\ ToSet(search'.ordered) = Listable'
      BY <3>5, <3>6, <3>8
    <3> QED
      BY <2>4, <3>9, <3>10 DEF OrderSound
  <2> QED
    BY <2>5, <2>6
<1> QED
  BY <1>16, <1>17, <1>18, <1>19 DEF WalkSound

(* Nothing that is reached was left out once every root was looked at.     *)
LEMMA FoundIsRight ==
  ASSUME WalkSound, search.stack = << >>, search.left = {}
  PROVE  LET all == IF search.kind = "initial" THEN Reached \ search.roots ELSE Reached
         IN /\ ToSet(search.ordered) = all /\ Len(search.ordered) = Cardinality(all)
            /\ \A i \in DOMAIN search.ordered :
                 search.graph[search.ordered[i]] \cap all \subseteq {search.ordered[j] : j \in 1..(i - 1)}
            /\ search.kind = "recovery" => search.graph[Stage] \cap Reached = {}
<1> DEFINE all == IF search.kind = "initial" THEN Reached \ search.roots ELSE Reached
           S == search.visited \cup {m \in Points : Mastered(m)}
           ord == search.ordered
<1>1. WalkTyped /\ NothingDropped /\ StackSound /\ OrderSound
  BY DEF WalkSound
<1>2. /\ search \in Walks /\ ord \in Seq(Concepts) /\ search.visited \subseteq Points
      /\ search.roots \subseteq Points /\ search.roots # {} /\ search.kind \in {"initial", "recovery"}
  BY <1>1 DEF WalkTyped, Walks, Points
<1>3. Depth = 0
  BY DEF Depth
<1>4. \A r \in search.roots : PassedOver(r)
  BY <1>1, <1>3 DEF NothingDropped
<1>5. Covers(S)
  <2>1. search.roots \subseteq S
    BY <1>2, <1>4 DEF PassedOver
  <2>2. ASSUME NEW n \in S \cap Concepts, ~ Mastered(n) PROVE search.graph[n] \subseteq S
    <3>1. \A m \in search.graph[n] : PassedOver(m)
      BY <1>1, <2>2 DEF NothingDropped
    <3> QED
      BY <3>1, <1>1, ReachedIs DEF PassedOver
  <2> QED
    BY <2>1, <2>2 DEF Covers
<1>6. S \in SUBSET Points
  BY <1>2
<1>7. Reached \subseteq search.visited
  BY <1>1, <1>5, <1>6 DEF Reached
<1>8. search.visited = Reached
  BY <1>1, <1>7 DEF OrderSound
<1>9. Listable = all
  BY <1>8 DEF Listable
<1> HIDE DEF all, S
<1>10. /\ IsInjective(ord) /\ ToSet(ord) = all
       /\ \A i \in DOMAIN ord : \A m \in search.graph[ord[i]] \cap all : \E j \in 1..(i - 1) : ord[j] = m
  BY <1>1, <1>9 DEF OrderSound
<1>11. Len(ord) \in Nat /\ DOMAIN ord = 1..Len(ord) /\ ord = [i \in 1..Len(ord) |-> ord[i]]
  BY <1>2
<1> HIDE DEF ord
<1>12. Len(ord) = Cardinality(all)
  <2>1. ord \in Bijection(1..Len(ord), all)
    <3>1. ord \in [1..Len(ord) -> all]
      BY <1>10, <1>11 DEF ToSet
    <3>2. \A x \in all : \E i \in 1..Len(ord) : ord[i] = x
      BY <1>10, <1>11 DEF ToSet
    <3>3. \A i, j \in 1..Len(ord) : ord[i] = ord[j] => i = j
      BY <1>10, <1>11 DEF IsInjective
    <3> QED
      BY <3>1, <3>2, <3>3 DEF Bijection, Injection, Surjection, IsInjective
  <2>2. IsFiniteSet(1..Len(ord)) /\ Cardinality(1..Len(ord)) = Len(ord)
    BY <1>11, Counting
  <2> QED
    BY <2>1, <2>2, FS_Bijection DEF ExistsBijection
<1>13. \A i \in DOMAIN ord : search.graph[ord[i]] \cap all \subseteq {ord[j] : j \in 1..(i - 1)}
  BY <1>10
<1>14. ASSUME search.kind = "recovery" PROVE search.graph[Stage] \cap Reached = {}
  <2>1. all = Reached
    BY <1>14 DEF all
  <2>2. \A r \in search.roots : ~ Mastered(r)
    BY <1>14 DEF Mastered
  <2>3. all # {}
    BY <1>1, <1>2, <2>1, <2>2, ReachedIs
  <2>4. PICK i \in 1..Len(ord) : TRUE
    BY <1>10, <1>11, <2>3 DEF ToSet
  <2>5. ord # << >> /\ 1 \in DOMAIN ord /\ Stage = ord[1]
    BY <1>11, <2>4 DEF Stage, ord
  <2> QED
    BY <1>10, <2>1, <2>5
<1> QED
  BY <1>10, <1>12, <1>13, <1>14 DEF all, ord

LEMMA RefusesForCause ==
  ASSUME WalkSound, Refuses
  PROVE  RefusedForCause'
<1>1. PICK n \in Offered : ~ PassedOver(n) /\ Broken(n)
  BY DEF Refuses
<1>2. search' = search
  BY DEF Refuses
<1>3. WalkTyped /\ n \in Reached /\ (Depth > 0 => \A i \in 1..Depth : n \in Needs(Node(i)))
  BY <1>1, OfferedIs DEF WalkSound
<1>4. ASSUME n = Unlisted PROVE Unlisted \in Reached
  BY <1>3, <1>4
<1>5. ASSUME n \in Visiting PROVE \E m \in Reached \cap Concepts : m \in Needs(m)
  <2>1. PICK i \in 1..Depth : n = Node(i)
    BY <1>3, <1>5, WalkShape DEF Visiting, Node
  <2>2. n \in Concepts /\ Depth > 0 /\ n \in Needs(n)
    BY <1>3, <2>1, WalkShape
  <2> QED
    BY <1>3, <2>2
<1>6. Unlisted \in Reached \/ \E m \in Reached \cap Concepts : m \in Needs(m)
  BY <1>1, <1>3, <1>4, <1>5 DEF Broken
<1>7. Reached' = Reached /\ \A m : Needs(m)' = Needs(m)
  BY <1>2, SameGraph
<1> QED
  BY <1>6, <1>7 DEF RefusedForCause

LEMMA WalkStarts ==
  ASSUME NEW kind \in {"initial", "recovery"}, NEW graph \in Graph, NEW known \in SUBSET Concepts,
         NEW roots \in (SUBSET Concepts) \ {{}}, kind = "initial" => Cardinality(roots) <= MaxSlots,
         search = Walk(kind, graph, known, roots)
  PROVE  WalkSound
<1>1. /\ search = [kind |-> kind, graph |-> graph, known |-> known, roots |-> roots,
                   left |-> roots, stack |-> << >>, ordered |-> << >>, visited |-> {}]
      /\ search.kind = kind /\ search.graph = graph /\ search.known = known /\ search.roots = roots
      /\ search.left = roots /\ search.stack = << >> /\ search.ordered = << >> /\ search.visited = {}
  BY DEF Walk
<1>2. WalkTyped
  <2>1. roots \in SUBSET Concepts /\ roots # {}
    OBVIOUS
  <2>2. << >> \in Seq([node : Concepts, rest : SUBSET Points]) /\ << >> \in Seq(Concepts)
    OBVIOUS
  <2> QED
    BY <1>1, <2>1, <2>2 DEF WalkTyped
<1>3. Depth = 0 /\ DOMAIN search.ordered = {} /\ Len(search.ordered) = 0
  BY <1>1 DEF Depth
<1>4. NothingDropped /\ StackSound
  BY <1>1, <1>3 DEF NothingDropped, StackSound
<1>5. OrderSound
  BY <1>1, <1>3 DEF OrderSound, Listable, IsInjective, ToSet
<1> QED
  BY <1>2, <1>4, <1>5 DEF WalkSound

LEMMA PlanInitWalkInv ==
  ASSUME PlanInit
  PROVE  WalkInv
<1>1. phase = "walking" => WalkSound
  BY WalkStarts DEF PlanInit
<1> QED
  BY <1>1 DEF PlanInit, WalkInv, RefusedForCause

LEMMA WalkStutters ==
  ASSUME search' = search
  PROVE  (WalkSound' <=> WalkSound) /\ Reached' = Reached /\ \A n : Needs(n)' = Needs(n)
<1>1. Reached' = Reached /\ (\A m : Mastered(m)' <=> Mastered(m)) /\ (\A m : Needs(m)' = Needs(m))
  BY SameGraph
<1>2. \A m : PassedOver(m)' <=> PassedOver(m)
  BY <1>1 DEF PassedOver
<1>3. Depth' = Depth /\ \A i : Node(i)' = Node(i) /\ Rest(i)' = Rest(i)
  BY DEF Depth, Node, Rest
<1> QED
  BY <1>1, <1>2, <1>3 DEF WalkSound, WalkTyped, NothingDropped, StackSound, OrderSound, Listable

LEMMA NextKeepsWalkInv ==
  ASSUME WalkInv, [PlanNext]_planVars
  PROVE  WalkInv'
<1>1. ASSUME PassesOver \/ Visits \/ Leaves PROVE WalkInv'
  <2>1. phase = "walking" /\ phase' = "walking"
    BY <1>1 DEF PassesOver, Visits, Leaves
  <2>2. WalkSound'
    BY <1>1, <2>1, PassesOverKeepsWalk, VisitsKeepsWalk, LeavesKeepsWalk DEF WalkInv
  <2> QED
    BY <2>1, <2>2 DEF WalkInv, RefusedForCause
<1>2. CASE Refuses
  <2>1. phase = "walking" /\ phase' = "refused"
    BY <1>2 DEF Refuses
  <2>2. RefusedForCause'
    BY <1>2, <2>1, RefusesForCause DEF WalkInv
  <2> QED
    BY <2>1, <2>2 DEF WalkInv
<1>3. CASE Finishes
  <2>1. phase = "walking" /\ phase' = "found" /\ search' = search /\ search.stack = << >> /\ search.left = {}
    BY <1>3 DEF Finishes
  <2>2. WalkSound'
    BY <2>1, WalkStutters DEF WalkInv
  <2> QED
    BY <2>1, <2>2 DEF WalkInv, RefusedForCause
<1>4. CASE Replaces
  <2>1. phase = "replacing" /\ phase' \in {"offered", "refused"} /\ search' = search
    BY <1>4 DEF Replaces
  <2> QED
    BY <2>1 DEF WalkInv, RefusedForCause
<1>5. ASSUME PlansInitial \/ PlansRecovery \/ Given \/ Gate \/ Places \/ StartsServing \/ Serves \/ Fills
      PROVE WalkInv'
  <2>1. phase' \in {"offered", "placing", "rejected", "threw", "serving", "planned"}
    BY <1>5 DEF PlansInitial, PlansRecovery, Given, Gate, Places, StartsServing, Serves, Fills
  <2> QED
    BY <2>1 DEF WalkInv, RefusedForCause
<1>6. CASE UNCHANGED planVars
  <2>1. phase' = phase /\ search' = search
    BY <1>6 DEF planVars
  <2>2. (WalkSound' <=> WalkSound) /\ Reached' = Reached /\ \A n : Needs(n)' = Needs(n)
    BY <2>1, WalkStutters
  <2>3. RefusedForCause' <=> RefusedForCause
    BY <2>1, <2>2 DEF RefusedForCause
  <2> QED
    BY <2>1, <2>2, <2>3 DEF WalkInv
<1> QED
  BY <1>1, <1>2, <1>3, <1>4, <1>5, <1>6 DEF PlanNext, Stopped

LEMMA WalkInvSuffices ==
  ASSUME WalkInv
  PROVE  WalkIsRight
<1>1. FoundIsLearnable
  BY FoundIsRight DEF WalkInv, FoundIsLearnable
<1> QED
  BY <1>1 DEF WalkInv, WalkIsRight

LEMMA NextKeepsPlanInv ==
  ASSUME WalkInv, PlanInv, [PlanNext]_planVars
  PROVE  PlanInv'
<1>1. CASE PlansInitial
  <2>1. WalkTyped
    BY <1>1 DEF WalkInv, WalkSound, PlansInitial
  <2> QED
    BY <1>1, <2>1, PlansInitialKeepsInv
<1> QED
  BY <1>1, WalkingKeepsInv, PlansRecoveryKeepsInv, ReplacesKeepsInv, GivenKeepsInv, GateKeepsInv,
     PlacesKeepsInv, StartsServingKeepsInv, ServesKeepsInv, FillsKeepsInv, PlanStutters
     DEF PlanNext, Stopped

(* The invariant the two promises below rest on, phase by phase of the walk *)
(* and of the form.  The walk bounds the targets of a first path by the     *)
(* size of a form, which is why the two parts are shown together.          *)
THEOREM PlanInvariance == PlanSpec => [](WalkInv /\ PlanInv)
<1>1. PlanInit => WalkInv /\ PlanInv
  BY PlanInitWalkInv, PlanInitInv
<1>2. WalkInv /\ PlanInv /\ [PlanNext]_planVars => WalkInv' /\ PlanInv'
  BY NextKeepsWalkInv, NextKeepsPlanInv
<1> QED
  BY <1>1, <1>2, PTL DEF PlanSpec

(* Role B's walk over any graph of knowledge points, with any knowledge of  *)
(* the learner and any targets: what it finds has everything the learner    *)
(* needs and does not know, once and in an order that can be learned; the   *)
(* first stage of a recovery needs only what is known; it is refused only   *)
(* when something that has to be looked at does not exist or needs itself.  *)
(* (unresolvedPrerequisiteClosure, dependencyFirstPrerequisites)            *)
THEOREM WalksAreRight == PlanSpec => []WalkIsRight
<1>1. WalkInv => WalkIsRight
  BY WalkInvSuffices
<1> QED
  BY <1>1, PlanInvariance, PTL

(* The gate of the generation spec and the plan of the form agree, for a    *)
(* form of any size, with any objectives and any required modalities: the   *)
(* gate accepts every path node role B makes, and whatever it accepts, a    *)
(* first path, a recovery or a node from outside, the greedy plan never     *)
(* throws, gives every objective a question that measures it, keeps every   *)
(* required modality and opens with a question of the first two tiers.      *)
(* (assessmentBlueprintCanMeasureCoreObjectives, ensureRequiredModalities,  *)
(* assignObjectives)                                                       *)
THEOREM GateAndPlanAlwaysAgree == PlanSpec => []GateAndPlanAgree
<1>1. PlanInv => GateAndPlanAgree
  BY DEF PlanInv, NodeInv, PlannedInv, PlannedMeasures, GateAndPlanAgree
<1> QED
  BY <1>1, PlanInvariance, PTL

(* What the phases and the makers of a path node are.                      *)
PhaseInv ==
  /\ phase \in {"walking", "found", "refused", "replacing", "given", "offered", "rejected",
                "placing", "serving", "planned", "threw"}
  /\ origin \in {"initial", "recovery", "given", Nil}

LEMMA NextKeepsPhaseInv ==
  ASSUME PhaseInv, [PlanNext]_planVars
  PROVE  PhaseInv'
<1>1. CASE PassesOver \/ Visits \/ Refuses \/ Leaves \/ Finishes
  BY <1>1 DEF PassesOver, Visits, Refuses, Leaves, Finishes, PhaseInv, nodeVars
<1>2. CASE PlansInitial \/ PlansRecovery \/ Replaces \/ Given
  BY <1>2 DEF PlansInitial, PlansRecovery, Replaces, Given, PhaseInv, nodeVars
<1>3. CASE Gate \/ Places \/ StartsServing \/ Serves \/ Fills
  BY <1>3 DEF Gate, Places, StartsServing, Serves, Fills, PhaseInv, nodeVars
<1>4. CASE UNCHANGED planVars
  BY <1>4 DEF planVars, PhaseInv
<1> QED
  BY <1>1, <1>2, <1>3, <1>4 DEF PlanNext, Stopped

LEMMA IsSequence ==
  ASSUME NEW T, NEW n \in Nat, NEW f \in [1..n -> T]
  PROVE  f \in Seq(T) /\ Len(f) = n /\ DOMAIN f = 1..n
OBVIOUS

LEMMA PlanTyped ==
  ASSUME PhaseInv, PlanInv
  PROVE  PlanTypeOK
<1>1. CASE phase \in {"walking", "found", "refused", "replacing", "given", "offered", "rejected"}
  <2>1. slots = << >> /\ waiting = << >> /\ kept = {} /\ assigned = << >>
    BY <1>1 DEF PlanInv, BeforeTheForm
  <2>2. /\ objectives \in Seq(Behavior) /\ tiers \in Seq(Nat) /\ Len(tiers) = 3 /\ required \in Seq(Modality)
    <3>1. CASE phase \in {"offered", "rejected"}
      <4>1. NodeTyped
        BY <3>1 DEF PlanInv, NodeInv
      <4>2. tiers \in [1..3 -> Nat]
        BY <4>1, PlanAssumption DEF NodeTyped, Tier
      <4>3. tiers \in Seq(Nat) /\ Len(tiers) = 3
        BY <4>2, IsSequence
      <4> QED
        BY <4>1, <4>3 DEF NodeTyped
    <3>2. CASE phase \notin {"offered", "rejected"}
      <4>1. tiers = <<0, 0, 0>> /\ required = << >>
        BY <1>1, <3>2 DEF PlanInv, BeforeTheNode
      <4>2. objectives = << >> \/ objectives \in Seq(Behavior)
        BY <1>1, <3>2 DEF PlanInv, BeforeTheNode
      <4>3. << >> \in Seq(Behavior) /\ << >> \in Seq(Modality)
        OBVIOUS
      <4>4. tiers \in Seq(Nat) /\ Len(tiers) = 3
        BY <4>1
      <4>5. objectives \in Seq(Behavior)
        BY <4>2, <4>3
      <4> QED
        BY <4>1, <4>3, <4>4, <4>5
    <3> QED
      BY <3>1, <3>2
  <2>3. phase # "placing"
    BY <1>1
  <2> QED
    BY <2>1, <2>2, <2>3 DEF PlanTypeOK, PhaseInv
<1>2. CASE phase \in {"placing", "serving", "planned"}
  <2> DEFINE n == Total(tiers)
  <2>1. NodeTyped /\ Acceptable
    BY <1>2 DEF PlanInv, NodeInv
  <2>2. n \in Nat
    BY <2>1, TotalType
  <2>3. tiers \in [1..3 -> Nat]
    BY <2>1, PlanAssumption DEF NodeTyped, Tier
  <2> HIDE DEF n
  <2>4. objectives \in Seq(Behavior) /\ tiers \in Seq(Nat) /\ Len(tiers) = 3 /\ required \in Seq(Modality)
    BY <2>1, <2>3, IsSequence DEF NodeTyped
  <2>5. CASE phase = "placing"
    <3>1. slots \in [1..n -> Modality] /\ waiting \in Seq(ToSet(required)) /\ kept = {} /\ assigned = << >>
      BY <2>5 DEF PlanInv, PlacingInv, n
    <3>2. ToSet(required) \subseteq Modality
      BY <2>4, SeqElements
    <3>3. waiting \in Seq(Modality)
      BY <3>1, <3>2
    <3>4. slots \in Seq(Modality)
      BY <2>2, <3>1
    <3> QED
      BY <2>4, <2>5, <3>1, <3>3, <3>4 DEF PlanTypeOK, PhaseInv
  <2>6. CASE phase \in {"serving", "planned"}
    <3>1. FormTyped
      BY <2>6 DEF PlanInv, ServingInv, PlannedInv
    <3>2. slots \in Seq(Modality) /\ DOMAIN slots = 1..n /\ assigned \in Seq(0..Len(objectives))
      <4>1. slots \in [1..n -> Modality] /\ assigned \in [1..n -> 0..Len(objectives)]
        BY <3>1 DEF FormTyped, n
      <4> QED
        BY <2>2, <4>1, IsSequence
    <3> QED
      BY <2>4, <2>6, <3>1, <3>2 DEF PlanTypeOK, PhaseInv, FormTyped, n
  <2> QED
    BY <1>2, <2>5, <2>6
<1>3. phase # "threw"
  BY DEF PlanInv, NodeInv
<1> QED
  BY <1>1, <1>2, <1>3 DEF PhaseInv

(* The path node, the form and who has which question have their types in   *)
(* every state; what waits is modalities first and objectives later.       *)
THEOREM PlanTypesOK == PlanSpec => []PlanTypeOK
<1>1. PlanInit => WalkInv /\ PlanInv /\ PhaseInv
  BY PlanInitWalkInv, PlanInitInv DEF PlanInit, PhaseInv
<1>2. WalkInv /\ PlanInv /\ PhaseInv /\ [PlanNext]_planVars => WalkInv' /\ PlanInv' /\ PhaseInv'
  BY NextKeepsWalkInv, NextKeepsPlanInv, NextKeepsPhaseInv
<1>3. PlanInv /\ PhaseInv => PlanTypeOK
  BY PlanTyped
<1> QED
  BY <1>1, <1>2, <1>3, PTL DEF PlanSpec
=============================================================================

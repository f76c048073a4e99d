------------------------- MODULE VerifiedAuthoringProofs -------------------------
(***************************************************************************)
(* Safety of the generation of content: first of DraftAuthoring, for every *)
(* number of parts, threads and repairs, then of the verifier with its     *)
(* containers, which implements the finding of DraftAuthoring for every    *)
(* number of repetitions, tries and outputs, and last of the pipeline that *)
(* calls the authors, for every number of callers, executions, failures,   *)
(* stops and removals.                                                     *)
(*                                                                         *)
(* DraftAuthoring: three arguments, one per property.  A lesson: a part    *)
(* below the cursor belongs to exactly one thread until it is written, and *)
(* a thread of a call that has not failed rests only when the cursor is    *)
(* past the end (LessonInv).  A pair: it enters the verification           *)
(* structured, only the finding leads to the end that publishes, and while *)
(* the finding is on its way nothing else of the call moves (PairInv).     *)
(* Progress: until a repair is accepted the draft is the one the finding   *)
(* is about, and every accepted repair raises a revision (ProgressInv).    *)
(*                                                                         *)
(* The verifier: RunnerInv is about one call of the runner: a forced       *)
(* removal has begun only for a program that is late or does not pass, so  *)
(* an exit it caused is never taken for the program's own; every verdict   *)
(* is true of the program; and only what is repeated is followed by        *)
(* another attempt.  VerifierInv ties the call of the runner to the pair   *)
(* that is verified: while a program of the pair is run nothing else of    *)
(* the call moves.                                                         *)
(*                                                                         *)
(* The pipeline: PipelineInv says of every execution that its state is the *)
(* one of its place (StateFits), so that the state machine never refuses a *)
(* step, that what is written there was written from what is there         *)
(* (PartsFit), and that a ready one has its pair in the store; the same is *)
(* said of what outlives an execution: checkpoint, cache and answers.      *)
(***************************************************************************)
EXTENDS VerifiedAuthoring, ContentPipeline, FiniteSetTheorems, SequenceTheorems, TLAPS

USE AuthoringAssumption

Bad(f) == f.reference \in {"failed", "broken"} \/ f.starter = "passed"

(* The pair has been brought into one piece.                               *)
Whole(d) == d.pub.sound /\ d.sec.sound /\ d.sec.over = d.pub.rev /\ ~d.pub.tells

LessonInv ==
  /\ \A p \in Part : /\ lesson[p] \in {0, p}
                     /\ authored[p] = IF lesson[p] = p THEN 1 ELSE 0
                     /\ p >= cursor => lesson[p] = 0
  /\ \A t \in Thread : at[t] = "segment" =>
       /\ seg[t] \in Part /\ seg[t] < cursor /\ lesson[seg[t]] = 0
       /\ \A u \in Thread : u # t /\ at[u] = "segment" => seg[u] # seg[t]
  /\ phase = "start" => /\ \A t \in Thread : at[t] = "off"
                        /\ cursor = 1
  /\ phase # "ended" => result = Both(None)

(* A call that writes a lesson and has not failed.                         *)
ThreadsInv ==
  /\ job = "concept" /\ ~Staged => \A t \in Thread : at[t] \in {"off", "whole"}
  /\ job = "concept" /\ Staged =>
    /\ phase \in {"start", "draft", "ended"}
    /\ \A t \in Thread : at[t] \in {"off", "segment"} /\ (t \notin Workers => at[t] = "off")
    /\ phase = "draft" =>
         /\ \A p \in Part : p < cursor =>
              lesson[p] = p \/ \E t \in Workers : at[t] = "segment" /\ seg[t] = p
         /\ (\E t \in Workers : at[t] = "off") => cursor = Segments + 1
    /\ result.pub = "ready" => \A p \in Part : lesson[p] = p

PairInv ==
  job # "concept" =>
    /\ \A t \in Thread : t # 1 => at[t] = "off"
    /\ at[1] # "off" <=> phase = "draft"
    /\ at[1] # "segment"
    /\ at[1] = "secure" => draft.pub.sound /\ ~draft.pub.tells
    /\ at[1] = "safety" => draft.pub.sound /\ draft.sec.sound
    /\ at[1] \in {"starter", "reference"} => Whole(draft)
    /\ phase \in {"verify", "judge", "finalize"} => Whole(draft)
    /\ phase = "finalize" => /\ Good(seen) /\ seen.draft = draft
                             /\ draft.sec.right /\ draft.pub.starter = "todo"
    /\ PublishedAsVerified

ProgressInv ==
  job = "code_lab" =>
    /\ phase = "judge" \/ at[1] = "starter" => seen.draft = draft
    /\ at[1] = "reference" => seen.draft = draft \/ draft.pub.rev > seen.draft.pub.rev
    /\ at[1] \notin {"off", "starter", "reference"} => ~Bad(seen)
    /\ phase = "start" => ~Bad(seen)
    /\ RepairsMakeProgress

Inv == TypeOK /\ LessonInv /\ ThreadsInv /\ PairInv /\ ProgressInv

-----------------------------------------------------------------------------
(* The threads of a lesson.                                                *)
LEMMA WorkersOfLesson ==
  /\ 1 \in Thread /\ Workers \subseteq Thread /\ 1 \in Workers
  /\ job = "concept" =>
       \E n \in Nat \ {0} : /\ n <= Segments /\ n <= Concurrency
                            /\ Workers = 1..n /\ Cardinality(Workers) = n
<1>0. 1 \in Thread
  BY DEF Thread
<1>1. CASE job = "concept"
  <2> DEFINE n == Min({Concurrency, Segments})
  <2>1. n \in {Concurrency, Segments} /\ n <= Segments /\ n <= Concurrency
    BY DEF Min
  <2>2. Workers = 1..n
    BY <1>1 DEF Workers
  <2> HIDE DEF n
  <2>3. Cardinality(1..n) = n
    <3>1. n \in Int /\ 1 \in Int /\ n >= 1
      BY <2>1
    <3>2. Cardinality(1..n) = IF 1 > n THEN 0 ELSE n - 1 + 1
      BY <3>1, FS_Interval
    <3> QED BY <3>1, <3>2
  <2> QED BY <1>0, <2>1, <2>2, <2>3 DEF Thread
<1>2. CASE job # "concept"
  BY <1>0, <1>2 DEF Workers
<1> QED BY <1>0, <1>1, <1>2

LEMMA InitInv == Init => Inv
<1> SUFFICES ASSUME Init PROVE Inv
  OBVIOUS
<1>1. TypeOK
  BY DEF Init, TypeOK, NoDraft, Draft, Public, Secure, Unseen, Finding, Both, Outcome, Thread, Part, Stage
<1>2. LessonInv /\ ThreadsInv
  BY DEF Init, LessonInv, ThreadsInv, Both, Part, Thread, Workers, Staged
<1>3. PairInv
  BY DEF Init, PairInv, PublishedAsVerified, Both, Thread
<1>4. ProgressInv
  BY DEF Init, ProgressInv, RepairsMakeProgress, Unseen, Bad, Thread
<1> QED BY <1>1, <1>2, <1>3, <1>4 DEF Inv

-----------------------------------------------------------------------------
(* Types.                                                                  *)

(* Every rewriting of a draft is a draft.                                  *)
LEMMA RewrittenIsDraft ==
  ASSUME draft \in Draft
  PROVE  /\ \A pub \in Public : [pub |-> pub, sec |-> draft.sec] \in Draft
         /\ \A d \in Draft : Renormalised(d) \in Draft /\ Paired(d) \in Draft
         /\ \A right, tells \in BOOLEAN : [pub |-> Told(tells), sec |-> SecureOf(right)] \in Draft
         /\ \A right \in BOOLEAN : [pub |-> draft.pub, sec |-> SecureOf(right)] \in Draft
         /\ \A changed, tells, right \in BOOLEAN :
              [pub |-> Told(tells), sec |-> Reworked(changed, right)] \in Draft
         /\ \A changed, right \in BOOLEAN :
              [pub |-> draft.pub, sec |-> Reworked(changed, right)] \in Draft
         /\ \A changed, tells \in BOOLEAN, starter \in {"todo", "whole"} :
              Patched(changed, starter, tells) \in Draft
         /\ Conservative \in Draft
<1>1. draft.pub \in Public /\ draft.sec \in Secure
  BY DEF Draft
<1>2. \A tells \in BOOLEAN : Told(tells) \in Public
  BY <1>1 DEF Told, Public
<1>3. \A changed, right \in BOOLEAN : Reworked(changed, right) \in Secure
  <2> SUFFICES ASSUME NEW changed \in BOOLEAN, NEW right \in BOOLEAN
               PROVE  Reworked(changed, right) \in Secure
    OBVIOUS
  <2> DEFINE n == draft.sec.rev + (IF changed THEN 1 ELSE 0)
  <2>1. n \in Nat
    BY <1>1 DEF Secure
  <2> HIDE DEF n
  <2>2. Reworked(changed, right) = [draft.sec EXCEPT !.rev = n, !.right = right]
    BY DEF Reworked, n
  <2> QED BY <1>1, <2>1, <2>2 DEF Secure
<1>4. \A right \in BOOLEAN : SecureOf(right) \in Secure
  BY DEF SecureOf, Secure
<1>5. \A d \in Draft : Renormalised(d) \in Draft /\ Paired(d) \in Draft
  <2> SUFFICES ASSUME NEW d \in Draft PROVE [d.sec EXCEPT !.over = d.pub.rev] \in Secure
    BY DEF Renormalised, Paired, Draft
  <2> QED BY DEF Draft, Public, Secure
<1>6. \A changed, tells \in BOOLEAN, starter \in {"todo", "whole"} :
        [draft.pub EXCEPT !.rev = @ + (IF changed THEN 1 ELSE 0),
                          !.starter = starter, !.tells = tells] \in Public
  <2> SUFFICES ASSUME NEW changed \in BOOLEAN, NEW tells \in BOOLEAN, NEW starter \in {"todo", "whole"}
               PROVE  [draft.pub EXCEPT !.rev = @ + (IF changed THEN 1 ELSE 0),
                                        !.starter = starter, !.tells = tells] \in Public
    OBVIOUS
  <2> DEFINE n == draft.pub.rev + (IF changed THEN 1 ELSE 0)
  <2>1. n \in Nat
    BY <1>1 DEF Public
  <2> HIDE DEF n
  <2>2. [draft.pub EXCEPT !.rev = n, !.starter = starter, !.tells = tells] \in Public
    BY <1>1, <2>1 DEF Public
  <2> QED BY <2>2 DEF n
<1>7. \A changed, tells \in BOOLEAN, starter \in {"todo", "whole"} :
        Patched(changed, starter, tells) \in Draft
  BY <1>1, <1>5, <1>6 DEF Patched, Draft
<1>8. Conservative \in Draft
  BY <1>7 DEF Conservative
<1> QED BY <1>1, <1>2, <1>3, <1>4, <1>5, <1>7, <1>8 DEF Draft

LEMMA StepType ==
  ASSUME Inv, Next
  PROVE  TypeOK'
<1> USE DEF Inv, TypeOK, lessonVars
<1>1. ASSUME NEW outcome \in Outcome, EndsWith(outcome)
      PROVE  /\ phase' \in {"start", "draft", "verify", "judge", "finalize", "ended"}
             /\ result' \in [pub : Outcome \cup {None}, sec : Outcome \cup {None}]
  BY <1>1 DEF EndsWith, Both
<1>2. ASSUME NEW t \in Thread, Stops(t)
      PROVE  /\ at' \in [Thread -> Stage] /\ attempt' \in [Thread -> 0..MaxRepairs]
             /\ tries' \in [Thread -> 0..MaxTransport]
  BY <1>2 DEF Stops, Stage
<1>3. ASSUME NEW t \in Thread, NEW s \in Stage, Enters(t, s)
      PROVE  /\ at' \in [Thread -> Stage] /\ attempt' \in [Thread -> 0..MaxRepairs]
             /\ tries' \in [Thread -> 0..MaxTransport]
  BY <1>3 DEF Enters
<1>4. ASSUME NEW t \in Thread, NEW outcome \in Outcome, AgainOr(t, outcome)
      PROVE  /\ at' \in [Thread -> Stage] /\ attempt' \in [Thread -> 0..MaxRepairs]
             /\ tries' \in [Thread -> 0..MaxTransport]
             /\ phase' \in {"start", "draft", "verify", "judge", "finalize", "ended"}
             /\ result' \in [pub : Outcome \cup {None}, sec : Outcome \cup {None}]
  <2>1. CASE attempt[t] < MaxRepairs
    <3>1. attempt[t] + 1 \in 0..MaxRepairs
      BY <2>1
    <3> QED BY <1>4, <2>1, <3>1 DEF AgainOr, Spent
  <2>2. CASE ~(attempt[t] < MaxRepairs)
    BY <1>4, <2>2, <1>1, <1>2 DEF AgainOr
  <2> QED BY <2>1, <2>2
<1>5. /\ {"ready", "invalid", "unverified", "unavailable", "threw"} \subseteq Outcome
      /\ {"secure", "safety", "starter", "reference", "segment", "public", "whole"} \subseteq Stage
  BY DEF Outcome, Stage
<1>6. \A starter \in {"todo", "whole"} : PublicOf(starter) \in Public
  BY DEF PublicOf, Public
<1>7. \A right \in BOOLEAN : SecureOf(right) \in Secure
  BY DEF SecureOf, Secure
<1>16. \A pub \in Public : [pub |-> pub, sec |-> draft.sec] \in Draft
  BY RewrittenIsDraft
<1>17. /\ Conservative \in Draft
       /\ \A changed, tells \in BOOLEAN, starter \in {"todo", "whole"} :
            Patched(changed, starter, tells) \in Draft
  BY RewrittenIsDraft
<1>18. \A right, tells \in BOOLEAN :
         Renormalised([pub |-> Told(tells), sec |-> SecureOf(right)]) \in Draft
  BY RewrittenIsDraft
<1>19. \A right \in BOOLEAN : Paired([pub |-> draft.pub, sec |-> SecureOf(right)]) \in Draft
  BY RewrittenIsDraft
<1>20. \A right \in BOOLEAN :
         Renormalised([pub |-> Told(FALSE), sec |-> Reworked(TRUE, right)]) \in Draft
  BY RewrittenIsDraft
<1>21. \A changed, right \in BOOLEAN :
         Paired([pub |-> draft.pub, sec |-> Reworked(changed, right)]) \in Draft
  BY RewrittenIsDraft
<1>8. CASE Incompatible
  BY <1>8, <1>5 DEF Incompatible, Both
<1>9. CASE Starts
  <2>1. FirstStage \in Stage
    BY DEF FirstStage, Stage
  <2>2. CASE FirstStage = "segment"
    <3>1. job = "concept"
      BY <2>2 DEF FirstStage
    <3>2. PICK n \in Nat \ {0} : /\ n <= Segments /\ n <= Concurrency
                                 /\ Workers = 1..n /\ Cardinality(Workers) = n
      BY <3>1, WorkersOfLesson
    <3>3. /\ \A t \in Workers : t \in Thread /\ t \in 0..Segments
          /\ n + 1 \in 1..(Segments + 1)
      BY <3>2 DEF Thread
    <3>4. /\ at' = [t \in Thread |-> IF t \in Workers THEN "segment" ELSE "off"]
          /\ seg' = [t \in Thread |-> IF t \in Workers THEN t ELSE 0]
          /\ cursor' = n + 1
      BY <1>9, <2>2, <3>2 DEF Starts
    <3>5. at' \in [Thread -> Stage]
      BY <3>4 DEF Stage
    <3>6. seg' \in [Thread -> 0..Segments] /\ cursor' \in 1..(Segments + 1)
      BY <3>3, <3>4
    <3> QED BY <1>9, <3>5, <3>6 DEF Starts
  <2>3. CASE FirstStage # "segment"
    BY <1>9, <2>1, <2>3 DEF Starts
  <2> QED BY <2>2, <2>3
<1>10. CASE Merges
  BY <1>10, <1>5 DEF Merges, LessonOutcome
<1>11. CASE Verifies
  BY <1>11 DEF Verifies, Finds, Finding
<1>12. CASE Repairs
  <2>1. round' \in 0..MaxRounds
    BY <1>12 DEF Repairs, Limit
  <2>2. 1 \in Thread
    BY WorkersOfLesson
  <2>3. Renormalised(draft) \in Draft
    BY DEF Renormalised, Draft, Public, Secure
  <2> HIDE DEF Draft
  <2>4. CASE ~Staged
    BY <1>12, <2>1, <2>4, <1>5 DEF Repairs, Both
  <2>5. CASE Staged /\ RepairsStarter
    BY <1>12, <2>1, <2>2, <2>5, <1>3, <1>5 DEF Repairs
  <2>6. CASE Staged /\ ~RepairsStarter /\ RepairsReference
    BY <1>12, <2>1, <2>2, <2>6, <1>3, <1>5 DEF Repairs
  <2>7. CASE Staged /\ ~RepairsStarter /\ ~RepairsReference
    BY <1>12, <2>1, <2>3, <2>7 DEF Repairs
  <2> QED BY <2>4, <2>5, <2>6, <2>7
<1>13. CASE GivesUp
  BY <1>13, <1>5 DEF GivesUp, Both
<1>14. CASE Finalizes
  BY <1>14, <1>5 DEF Finalizes
<1>15. ASSUME NEW t \in Thread, ThreadStep(t) PROVE TypeOK'
  <2>1. CASE TransportFails(t)
    <3>1. tries[t] < MaxTransport => tries[t] + 1 \in 0..MaxTransport
      OBVIOUS
    <3> QED BY <2>1, <3>1, <1>1, <1>2, <1>5 DEF TransportFails
  <2>2. CASE ServerRefuses(t)
    BY <2>2, <1>1, <1>2, <1>5 DEF ServerRefuses
  <2>3. CASE \E cut \in BOOLEAN : Garbled(t, cut)
    BY <2>3, <1>1, <1>2, <1>4, <1>5 DEF Garbled
  <2>4. CASE WritesPart(t)
    <3>1. at[t] = "segment" /\ seg[t] \in Part
      BY <2>4 DEF WritesPart, LessonInv
    <3>2. UNCHANGED <<job, strategy, draft, round, seen>>
      BY <2>4 DEF WritesPart
    <3>3. CASE AgainOr(t, "invalid") /\ UNCHANGED <<seg, lessonVars>>
      BY <3>2, <3>3, <1>4, <1>5
    <3>4. CASE ~(AgainOr(t, "invalid") /\ UNCHANGED <<seg, lessonVars>>)
      <4>1. /\ lesson' = [lesson EXCEPT ![seg[t]] = seg[t]]
            /\ authored' = [authored EXCEPT ![seg[t]] = @ + 1]
            /\ IF Taken <= Segments
               THEN seg' = [seg EXCEPT ![t] = Taken] /\ cursor' = Advanced /\ Enters(t, "segment")
               ELSE Stops(t) /\ UNCHANGED <<seg, cursor>>
            /\ UNCHANGED <<phase, result>>
        BY <2>4, <3>4 DEF WritesPart
      <4>2. lesson' \in [Part -> 0..Segments] /\ authored' \in [Part -> Nat]
        BY <3>1, <4>1 DEF Part
      <4>3. seg' \in [Thread -> 0..Segments] /\ cursor' \in 1..(Segments + 1)
        BY <4>1 DEF Taken, Advanced
      <4>4. /\ at' \in [Thread -> Stage] /\ attempt' \in [Thread -> 0..MaxRepairs]
            /\ tries' \in [Thread -> 0..MaxTransport]
        BY <4>1, <1>2, <1>3, <1>5
      <4> QED BY <3>2, <4>1, <4>2, <4>3, <4>4
    <3> QED BY <3>3, <3>4
  <2>5. CASE WritesAll(t)
    BY <2>5, <1>2, <1>4, <1>5 DEF WritesAll, LessonOutcome, Draft, Public, Secure
  <2>6. CASE WritesPublic(t)
    <3>1. CASE Refused(t)
      BY <2>6, <3>1, <1>4, <1>5 DEF WritesPublic, Refused
    <3>2. CASE \E starter \in {"todo", "whole"} : WritesHalf(t, "secure", PublicOf(starter))
      BY <2>6, <3>2, <1>3, <1>5, <1>6, <1>16 DEF WritesPublic, WritesHalf
    <3> QED BY <2>6, <3>1, <3>2 DEF WritesPublic
  <2>7. CASE WritesItems(t)
    <3>1. CASE Refused(t)
      BY <2>7, <3>1, <1>4, <1>5 DEF WritesItems, Refused
    <3>2. CASE WritesHalf(t, "secure", ItemsOf)
      BY <2>7, <3>2, <1>3, <1>5, <1>6, <1>16 DEF WritesItems, ItemsOf, WritesHalf
    <3> QED BY <2>7, <3>1, <3>2 DEF WritesItems
  <2>8. CASE WritesSecure(t)
    BY <2>8, <1>18, <1>2, <1>3, <1>4, <1>5 DEF WritesSecure, Refused
  <2>9. CASE WritesAnswers(t)
    BY <2>9, <1>19, <1>2, <1>4, <1>5 DEF WritesAnswers, Refused
  <2>10. CASE MakesSafe(t)
    <3>1. UNCHANGED <<job, strategy, seg, lessonVars, round, seen>>
      BY <2>10 DEF MakesSafe
    <3>2. CASE Refused(t)
      BY <3>1, <3>2, <1>4, <1>5 DEF Refused
    <3>3. CASE ~Refused(t)
      <4>1. /\ Stops(t)
            /\ \/ /\ draft' \in Draft /\ phase' = "verify" /\ UNCHANGED result
               \/ UNCHANGED draft /\ EndsWith("invalid")
        BY <2>10, <3>3, <1>17 DEF MakesSafe
      <4> QED BY <3>1, <4>1, <1>1, <1>2, <1>5
    <3> QED BY <3>2, <3>3
  <2>11. CASE MendsStarter(t)
    BY <2>11, <1>17, <1>2, <1>3, <1>4, <1>5 DEF MendsStarter, Accepts, Refused, AfterRepair
  <2>12. CASE MendsReference(t)
    BY <2>12, <1>20, <1>2, <1>4, <1>5 DEF MendsReference, Accepts, Refused, AfterRepair
  <2>13. CASE MendsAnswers(t)
    BY <2>13, <1>21, <1>2, <1>4, <1>5 DEF MendsAnswers, Refused, AfterRepair
  <2> QED BY <1>15, <2>1, <2>2, <2>3, <2>4, <2>5, <2>6, <2>7, <2>8, <2>9, <2>10, <2>11, <2>12,
             <2>13 DEF ThreadStep
<1> QED BY <1>8, <1>9, <1>10, <1>11, <1>12, <1>13, <1>14, <1>15 DEF Next, CallStep

-----------------------------------------------------------------------------
(* Lessons.                                                                *)

(* A step of a thread that is not the acceptance of a part: it leaves the  *)
(* lesson alone, and a thread that stops writing parts ends the call.      *)
Quiet(t) ==
  /\ UNCHANGED <<job, strategy, seg, lessonVars>>
  /\ at[t] # "off" /\ \A u \in Thread : u # t => at'[u] = at[u]
  /\ at'[t] = "segment" => at[t] = "segment"
  /\ at[t] = "whole" => at'[t] \in {"whole", "off"}
  /\ phase' # "start"
  /\ phase' # "ended" => phase # "ended" /\ result' = result
  /\ at[t] = "segment" =>
       \/ at'[t] = "segment" /\ UNCHANGED <<phase, result>>
       \/ at'[t] = "off" /\ phase' = "ended" /\ (result'.pub # "ready" \/ result' = result)

(* What an attempt that fails comes to.                                    *)
LEMMA Failing ==
  ASSUME Inv, NEW t \in Thread, at[t] # "off", NEW outcome \in {"threw", "invalid"},
         AgainOr(t, outcome) \/ (Stops(t) /\ EndsWith(outcome))
  PROVE  /\ \A u \in Thread : u # t => at'[u] = at[u]
         /\ phase' # "start"
         /\ \/ at'[t] = at[t] /\ UNCHANGED <<phase, result>>
            \/ /\ at'[t] = "off" /\ phase' = "ended"
               /\ \/ result' = Both(outcome)
                  \/ result' = result /\ phase = "ended"
<1> USE DEF Inv, TypeOK, LessonInv
<1>1. phase # "start"
  OBVIOUS
<1>2. CASE Stops(t) /\ EndsWith(outcome)
  BY <1>1, <1>2 DEF Stops, EndsWith
<1>3. CASE AgainOr(t, outcome) /\ attempt[t] < MaxRepairs
  BY <1>1, <1>3 DEF AgainOr
<1>4. CASE AgainOr(t, outcome) /\ ~(attempt[t] < MaxRepairs)
  BY <1>2, <1>4 DEF AgainOr
<1> QED BY <1>2, <1>3, <1>4

LEMMA FailingQuiet ==
  ASSUME Inv, NEW t \in Thread, at[t] # "off", NEW outcome \in {"threw", "invalid"},
         AgainOr(t, outcome) \/ (Stops(t) /\ EndsWith(outcome)),
         UNCHANGED <<job, strategy, seg, lessonVars>>
  PROVE  Quiet(t)
<1>1. Both(outcome).pub # "ready"
  BY DEF Both
<1> QED BY <1>1, Failing DEF Quiet

(* In a call for a pair only the first thread works, and only while the    *)
(* draft is written.                                                       *)
LEMMA PairThread ==
  ASSUME Inv, job # "concept", NEW t \in Thread, at[t] # "off"
  PROVE  t = 1 /\ phase = "draft" /\ result = Both(None)
BY DEF Inv, PairInv, LessonInv

LEMMA QuietThreads ==
  ASSUME Inv, NEW t \in Thread, ThreadStep(t), ~WritesPart(t)
  PROVE  Quiet(t)
<1> USE DEF Inv, TypeOK
<1>0. at[t] # "off" => phase # "start"
  BY DEF LessonInv
<1>1. CASE TransportFails(t)
  <2>1. at[t] # "off" /\ UNCHANGED <<job, strategy, seg, lessonVars>>
    BY <1>1 DEF TransportFails
  <2>2. CASE tries[t] < MaxTransport
    BY <1>0, <1>1, <2>1, <2>2 DEF TransportFails, Quiet
  <2>3. CASE Stops(t) /\ EndsWith("threw")
    BY <2>1, <2>3, FailingQuiet
  <2> QED BY <1>1, <2>2, <2>3 DEF TransportFails
<1>2. CASE ServerRefuses(t)
  BY <1>2, FailingQuiet DEF ServerRefuses
<1>3. CASE \E cut \in BOOLEAN : Garbled(t, cut)
  BY <1>3, FailingQuiet DEF Garbled
<1>4. CASE WritesAll(t)
  <2>1. at[t] = "whole" /\ UNCHANGED <<job, strategy, seg, lessonVars>>
    BY <1>4 DEF WritesAll
  <2>2. CASE AgainOr(t, "invalid")
    BY <2>1, <2>2, FailingQuiet
  <2>3. CASE Stops(t) /\ (IF job = "concept" THEN phase' = "ended"
                                             ELSE phase' = "verify" /\ UNCHANGED result)
    BY <2>1, <2>3, PairThread DEF Stops, Quiet
  <2> QED BY <1>4, <2>2, <2>3 DEF WritesAll
<1>5. CASE ~WritesAll(t) /\ (\/ WritesPublic(t) \/ WritesSecure(t) \/ WritesItems(t) \/ WritesAnswers(t)
                             \/ MakesSafe(t) \/ MendsStarter(t) \/ MendsReference(t) \/ MendsAnswers(t))
  <2>1. /\ at[t] \in {"public", "secure", "safety", "starter", "reference"}
        /\ UNCHANGED <<job, strategy, seg, lessonVars>>
    BY <1>5 DEF WritesPublic, WritesSecure, WritesItems, WritesAnswers, MakesSafe, MendsStarter,
       MendsReference, MendsAnswers
  <2>2. job # "concept"
    BY <2>1 DEF ThreadsInv
  <2>3. t = 1 /\ phase = "draft" /\ result = Both(None)
    BY <2>1, <2>2, PairThread
  <2>4. CASE AgainOr(t, "invalid")
    BY <2>1, <2>4, FailingQuiet
  <2>5. CASE Stops(t) /\ EndsWith("invalid")
    BY <2>1, <2>5, FailingQuiet
  <2>6. CASE Stops(t) /\ phase' = "verify" /\ UNCHANGED result
    BY <2>1, <2>3, <2>6 DEF Stops, Quiet
  <2>7. CASE /\ \E s \in {"secure", "safety", "reference"} : Enters(t, s)
             /\ UNCHANGED <<phase, result>>
    BY <2>1, <2>3, <2>7 DEF Enters, Quiet
  <2>8. \/ AgainOr(t, "invalid")
        \/ Stops(t) /\ EndsWith("invalid")
        \/ Stops(t) /\ phase' = "verify" /\ UNCHANGED result
        \/ (\E s \in {"secure", "safety", "reference"} : Enters(t, s))
           /\ UNCHANGED <<phase, result>>
    BY <1>5 DEF WritesPublic, WritesSecure, WritesItems, WritesAnswers, MakesSafe, MendsStarter,
       MendsReference, MendsAnswers, Refused, WritesHalf, AfterRepair
  <2> QED BY <2>4, <2>5, <2>6, <2>7, <2>8
<1> QED BY <1>1, <1>2, <1>3, <1>4, <1>5 DEF ThreadStep

LEMMA QuietLesson ==
  ASSUME Inv, NEW t \in Thread, Quiet(t)
  PROVE  LessonInv' /\ ThreadsInv'
<1> USE DEF Inv, TypeOK, Quiet, lessonVars
<1>1. LessonInv'
  BY DEF LessonInv
<1>2. /\ job' = job /\ Workers' = Workers /\ Staged' = Staged
      /\ seg' = seg /\ cursor' = cursor /\ lesson' = lesson
      /\ \A u \in Thread : u # t => at'[u] = at[u]
  BY DEF Workers, Staged
<1>q. /\ at[t] = "whole" => at'[t] \in {"whole", "off"}
      /\ at[t] = "segment" =>
           \/ at'[t] = "segment" /\ UNCHANGED <<phase, result>>
           \/ at'[t] = "off" /\ phase' = "ended" /\ (result'.pub # "ready" \/ result' = result)
      /\ at[t] # "off"
  OBVIOUS
<1> HIDE DEF Quiet, Inv, TypeOK
<1>i. ThreadsInv
  BY DEF Inv
<1>3. CASE job # "concept"
  BY <1>1, <1>2, <1>3 DEF ThreadsInv
<1>4. CASE job = "concept" /\ ~Staged
  <2>1. \A u \in Thread : at'[u] \in {"off", "whole"}
    BY <1>2, <1>i, <1>q, <1>4 DEF ThreadsInv
  <2> QED BY <1>1, <1>2, <1>4, <2>1 DEF ThreadsInv
<1>5. CASE job = "concept" /\ Staged
  <2>1. at[t] = "segment"
    BY <1>5, <1>i, <1>q DEF ThreadsInv
  <2>2. \A u \in Thread : at'[u] \in {"off", "segment"} /\ (u \notin Workers => at'[u] = "off")
    BY <1>5, <2>1, <1>2, <1>i, <1>q DEF ThreadsInv
  <2>3. CASE at'[t] = "segment" /\ UNCHANGED <<phase, result>>
    <3>1. \A u \in Thread : at'[u] = at[u]
      BY <1>2, <2>1, <2>3
    <3>2. Workers \subseteq Thread
      BY WorkersOfLesson
    <3> QED BY <1>1, <1>2, <1>5, <1>i, <2>2, <2>3, <3>1, <3>2 DEF ThreadsInv
  <2>4. CASE phase' = "ended" /\ (result'.pub # "ready" \/ result' = result)
    BY <1>1, <1>2, <1>5, <1>i, <2>2, <2>4 DEF ThreadsInv
  <2> QED BY <1>q, <2>1, <2>3, <2>4
<1> QED BY <1>1, <1>3, <1>4, <1>5

(* A part that is accepted.                                                *)
LEMMA PartLesson ==
  ASSUME Inv, TypeOK', NEW t \in Thread, WritesPart(t)
  PROVE  LessonInv' /\ ThreadsInv' /\ job = "concept" /\ Staged
<1> USE DEF Inv, TypeOK
<1>0. at[t] = "segment" /\ UNCHANGED <<job, strategy>> /\ phase # "start"
  BY DEF WritesPart, LessonInv
<1>1. job = "concept" /\ Staged
  BY <1>0, PairThread DEF PairInv, ThreadsInv
<1>2. CASE AgainOr(t, "invalid") /\ UNCHANGED <<seg, lessonVars>>
  BY <1>0, <1>1, <1>2, FailingQuiet, QuietLesson
<1>3. CASE ~(AgainOr(t, "invalid") /\ UNCHANGED <<seg, lessonVars>>)
  <2> DEFINE p == seg[t]
  <2>1. p \in Part /\ p < cursor /\ lesson[p] = 0
    BY <1>0 DEF LessonInv
  <2>2. /\ lesson' = [lesson EXCEPT ![p] = p] /\ authored' = [authored EXCEPT ![p] = @ + 1]
        /\ UNCHANGED <<phase, result>>
    BY <1>3 DEF WritesPart
  <2>3. \/ /\ cursor <= Segments /\ cursor' = cursor + 1
           /\ seg' = [seg EXCEPT ![t] = cursor] /\ Enters(t, "segment")
        \/ cursor > Segments /\ UNCHANGED <<seg, cursor>> /\ Stops(t)
    BY <1>3 DEF WritesPart, Taken, Advanced
  <2>4. lesson'[p] = p /\ (\A q \in Part : q # p => lesson'[q] = lesson[q])
    BY <2>1, <2>2
  <2>5. authored'[p] = 1 /\ (\A q \in Part : q # p => authored'[q] = authored[q])
    <3>1. authored[p] = 0
      BY <2>1 DEF LessonInv, Part
    <3> QED BY <2>1, <2>2, <3>1
  <2>6. \A u \in Thread : u # t => at'[u] = at[u] /\ seg'[u] = seg[u]
    BY <2>3 DEF Enters, Stops
  <2>7. cursor' \in Nat /\ cursor \in Nat /\ cursor <= cursor' /\ Segments \in Nat
    BY <2>3
  <2>8. \/ cursor' = cursor + 1 /\ seg'[t] = cursor /\ at'[t] = "segment" /\ cursor \in Part
        \/ cursor' = cursor /\ cursor > Segments /\ at'[t] = "off"
    BY <2>3 DEF Enters, Stops, Part
  <2>9. \A q \in Part : /\ lesson'[q] \in {0, q}
                        /\ authored'[q] = IF lesson'[q] = q THEN 1 ELSE 0
                        /\ q >= cursor' => lesson'[q] = 0
    <3> SUFFICES ASSUME NEW q \in Part
                 PROVE  /\ lesson'[q] \in {0, q}
                        /\ authored'[q] = IF lesson'[q] = q THEN 1 ELSE 0
                        /\ q >= cursor' => lesson'[q] = 0
      OBVIOUS
    <3>1. /\ lesson[q] \in {0, q} /\ authored[q] = IF lesson[q] = q THEN 1 ELSE 0
          /\ q >= cursor => lesson[q] = 0
      BY DEF LessonInv
    <3>2. q \in Nat /\ p \in Nat
      BY <2>1 DEF Part
    <3> HIDE DEF p
    <3>3. CASE q = p
      BY <2>1, <2>4, <2>5, <2>7, <3>2, <3>3
    <3>4. CASE q # p
      BY <2>4, <2>5, <2>7, <3>1, <3>2, <3>4
    <3> QED BY <3>3, <3>4
  <2>10. ASSUME NEW u \in Thread, at'[u] = "segment"
         PROVE  /\ seg'[u] \in Part /\ seg'[u] < cursor' /\ lesson'[seg'[u]] = 0
                /\ \A v \in Thread : v # u /\ at'[v] = "segment" => seg'[v] # seg'[u]
    <3>1. \A v \in Thread : v # t /\ at'[v] = "segment" =>
            seg'[v] \in Part /\ seg'[v] < cursor /\ seg'[v] # p /\ lesson[seg'[v]] = 0
      BY <1>0, <2>6 DEF LessonInv
    <3>2. CASE u = t
      <4>1. seg'[t] = cursor /\ cursor' = cursor + 1 /\ cursor \in Part
        BY <2>8, <2>10, <3>2
      <4>2. lesson'[cursor] = 0
        BY <2>1, <2>4, <4>1 DEF LessonInv, Part
      <4> QED BY <2>7, <3>1, <3>2, <4>1, <4>2 DEF Part
    <3>3. CASE u # t
      <4>1. seg'[u] \in Part /\ seg'[u] < cursor' /\ lesson'[seg'[u]] = 0
        <5>1. seg'[u] \in Part /\ seg'[u] < cursor /\ seg'[u] # p /\ lesson[seg'[u]] = 0
          BY <2>10, <3>1, <3>3
        <5>2. seg'[u] \in Nat
          BY <5>1 DEF Part
        <5> QED BY <2>4, <2>7, <5>1, <5>2
      <4>2. at'[t] = "segment" => seg'[t] # seg'[u]
        BY <2>7, <2>8, <2>10, <3>1, <3>3 DEF Part
      <4>3. ASSUME NEW v \in Thread, v # u, v # t, at'[v] = "segment" PROVE seg'[v] # seg'[u]
        BY <2>6, <2>10, <3>3, <4>3 DEF LessonInv
      <4> QED BY <4>1, <4>2, <4>3
    <3> QED BY <3>2, <3>3
  <2>11. LessonInv'
    BY <1>0, <2>2, <2>9, <2>10 DEF LessonInv
  <2>12. Workers' = Workers /\ Staged' = Staged /\ Workers \subseteq Thread
    BY <1>0, WorkersOfLesson DEF Workers, Staged
  <2>13. \A u \in Thread : at'[u] \in {"off", "segment"} /\ (u \notin Workers => at'[u] = "off")
    BY <1>0, <1>1, <2>6, <2>8 DEF ThreadsInv
  <2>14. ASSUME phase = "draft"
         PROVE  /\ \A q \in Part : q < cursor' =>
                     lesson'[q] = q \/ \E u \in Workers : at'[u] = "segment" /\ seg'[u] = q
                /\ (\E u \in Workers : at'[u] = "off") => cursor' = Segments + 1
    <3>1. t \in Workers
      BY <1>0, <1>1 DEF ThreadsInv
    <3>2. ASSUME NEW q \in Part, q < cursor'
          PROVE  lesson'[q] = q \/ \E u \in Workers : at'[u] = "segment" /\ seg'[u] = q
      <4>1. CASE q = p
        BY <2>4, <4>1
      <4>2. CASE q # p /\ q < cursor
        <5>1. lesson[q] = q \/ \E u \in Workers : at[u] = "segment" /\ seg[u] = q
          BY <1>1, <2>14, <4>2 DEF ThreadsInv
        <5> QED BY <2>4, <2>6, <2>12, <4>2, <5>1
      <4>3. CASE q # p /\ ~(q < cursor)
        <5>1. q = cursor /\ cursor' = cursor + 1
          <6>1. q \in Nat
            BY DEF Part
          <6> QED BY <2>7, <2>8, <3>2, <4>3, <6>1
        <5> QED BY <2>8, <2>7, <3>1, <5>1
      <4> QED BY <4>1, <4>2, <4>3
    <3>3. ASSUME NEW u \in Workers, at'[u] = "off" PROVE cursor' = Segments + 1
      <4>1. CASE u = t
        BY <2>7, <2>8, <3>3, <4>1
      <4>2. CASE u # t
        <5>1. cursor = Segments + 1
          BY <1>1, <2>6, <2>12, <2>14, <3>3, <4>2 DEF ThreadsInv
        <5> QED BY <2>7, <2>8, <5>1 DEF Part
      <4> QED BY <4>1, <4>2
    <3> QED BY <3>2, <3>3
  <2>15. result.pub = "ready" => \A q \in Part : lesson'[q] = q
    BY <1>1, <2>4 DEF ThreadsInv
  <2>16. ThreadsInv'
    BY <1>0, <1>1, <2>2, <2>12, <2>13, <2>14, <2>15 DEF ThreadsInv
  <2> QED BY <1>1, <2>11, <2>16
<1> QED BY <1>1, <1>2, <1>3

LEMMA CallLesson ==
  ASSUME Inv, TypeOK', CallStep
  PROVE  LessonInv' /\ ThreadsInv'
<1> USE DEF Inv, TypeOK
<1>1. CASE Starts
  <2>1. UNCHANGED <<job, strategy, lesson, authored, result>> /\ phase = "start" /\ phase' = "draft"
    BY <1>1 DEF Starts
  <2>2. /\ \A u \in Thread : at[u] = "off"
        /\ cursor = 1 /\ \A p \in Part : lesson[p] = 0
    BY <2>1 DEF LessonInv, Part
  <2>3. Workers' = Workers /\ Staged' = Staged /\ 1 \in Thread
    BY <2>1, WorkersOfLesson DEF Workers, Staged
  <2>4. CASE FirstStage = "segment"
    <3>1. job = "concept" /\ Staged
      BY <2>4 DEF FirstStage
    <3>2. PICK n \in Nat \ {0} : /\ n <= Segments /\ n <= Concurrency
                                 /\ Workers = 1..n /\ Cardinality(Workers) = n
      BY <3>1, WorkersOfLesson
    <3>3. /\ at' = [u \in Thread |-> IF u \in 1..n THEN "segment" ELSE "off"]
          /\ seg' = [u \in Thread |-> IF u \in 1..n THEN u ELSE 0]
          /\ cursor' = n + 1
      BY <1>1, <2>4, <3>2 DEF Starts
    <3>4. LessonInv'
      <4>1. \A u \in Thread : at'[u] = "segment" => seg'[u] = u /\ u \in 1..n
        BY <3>3
      <4>2. 1..n \subseteq Part
        BY <3>2 DEF Part
      <4>3. \A p \in Part : lesson'[p] = 0 /\ authored'[p] = 0 /\ p # 0
        BY <2>1, <2>2 DEF LessonInv, Part
      <4>4. \A u \in Thread : at'[u] = "segment" =>
              /\ seg'[u] \in Part /\ seg'[u] < cursor' /\ lesson'[seg'[u]] = 0
              /\ \A v \in Thread : v # u /\ at'[v] = "segment" => seg'[v] # seg'[u]
        BY <3>3, <4>1, <4>2, <4>3
      <4> QED BY <2>1, <4>3, <4>4 DEF LessonInv
    <3>5. \A p \in Part : p < cursor' => \E u \in Workers : at'[u] = "segment" /\ seg'[u] = p
      <4> SUFFICES ASSUME NEW p \in Part, p < n + 1
                   PROVE  p \in Workers /\ at'[p] = "segment" /\ seg'[p] = p
        BY <3>3
      <4>1. p \in 1..n
        BY DEF Part
      <4>2. p \in Thread
        BY <3>2, <4>1 DEF Thread
      <4> QED BY <3>2, <3>3, <4>1, <4>2
    <3>6. ~ \E u \in Workers : at'[u] = "off"
      <4>1. Workers \subseteq Thread
        BY WorkersOfLesson
      <4> QED BY <3>2, <3>3, <4>1
    <3>7. \A u \in Thread : at'[u] \in {"off", "segment"} /\ (u \notin Workers => at'[u] = "off")
      BY <3>2, <3>3
    <3>8. result.pub # "ready"
      BY <2>1 DEF LessonInv, Both
    <3>9. ThreadsInv'
      BY <2>1, <2>3, <3>1, <3>5, <3>6, <3>7, <3>8 DEF ThreadsInv
    <3> QED BY <3>4, <3>9
  <2>5. CASE FirstStage # "segment"
    <3>1. at' = [at EXCEPT ![1] = FirstStage] /\ UNCHANGED <<seg, cursor>>
      BY <1>1, <2>5 DEF Starts
    <3>2. \A u \in Thread : at'[u] # "segment"
      BY <2>2, <2>5, <3>1
    <3>3. LessonInv'
      BY <2>1, <3>1, <3>2 DEF LessonInv
    <3>4. job = "concept" => ~Staged /\ FirstStage = "whole"
      BY <2>5 DEF FirstStage
    <3>5. ThreadsInv'
      BY <2>1, <2>2, <2>3, <3>1, <3>4 DEF ThreadsInv
    <3> QED BY <3>3, <3>5
  <2> QED BY <2>4, <2>5
<1>2. CASE \/ Incompatible \/ Merges \/ Verifies \/ Repairs \/ GivesUp \/ Finalizes
  <2>1. /\ UNCHANGED <<job, strategy, seg, cursor, lesson, authored>> /\ phase' # "start"
        /\ phase # "ended"
        /\ phase' # "ended" => result' = result
    BY <1>2 DEF Incompatible, Merges, Verifies, Finds, Repairs, GivesUp, Finalizes, lessonVars
  <2>2. Workers' = Workers /\ Staged' = Staged
    BY <2>1 DEF Workers, Staged
  <2>3. CASE at' = at
    <3>1. LessonInv'
      BY <2>1, <2>3 DEF LessonInv
    <3>2. CASE Merges
      <4>1. job = "concept" /\ Staged /\ phase = "draft" /\ phase' = "ended"
            /\ \A u \in Workers : at[u] = "off"
        BY <3>2 DEF Merges
      <4>2. 1 \in Workers
        BY WorkersOfLesson
      <4>3. cursor = Segments + 1
        BY <4>1, <4>2 DEF ThreadsInv
      <4>4. \A p \in Part : lesson[p] = p
        <5>1. \A p \in Part : p < cursor
          BY <4>3 DEF Part
        <5>2. ~ \E u \in Workers : at[u] = "segment"
          BY <4>1
        <5> QED BY <4>1, <5>1, <5>2 DEF ThreadsInv
      <4>5. ThreadsInv'
        BY <2>1, <2>2, <2>3, <4>1, <4>4 DEF ThreadsInv
      <4> QED BY <3>1, <4>5
    <3>3. CASE ~Merges
      <4>1. job = "concept" /\ Staged => Incompatible
        BY <1>2, <3>3 DEF ThreadsInv, Verifies, Finds, Repairs, GivesUp, Finalizes
      <4>2. Incompatible => phase' = "ended" /\ result'.pub # "ready"
        BY DEF Incompatible, Both
      <4>3. ThreadsInv'
        BY <2>1, <2>2, <2>3, <4>1, <4>2 DEF ThreadsInv
      <4> QED BY <3>1, <4>3
    <3> QED BY <3>2, <3>3
  <2>4. CASE at' # at
    <3>1. Repairs /\ phase = "judge" /\ (Enters(1, "starter") \/ Enters(1, "reference"))
      BY <1>2, <2>4 DEF Incompatible, Merges, Verifies, Finds, Repairs, GivesUp, Finalizes
    <3>2. Staged
      BY <2>4, <3>1 DEF Repairs
    <3>3. at'[1] # "segment" /\ \A u \in Thread : u # 1 => at'[u] = at[u]
      BY <3>1, WorkersOfLesson DEF Enters
    <3>4. LessonInv'
      BY <2>1, <3>3 DEF LessonInv
    <3>5. job # "concept"
      BY <3>1, <3>2 DEF ThreadsInv
    <3> QED BY <2>1, <3>4, <3>5 DEF ThreadsInv
  <2> QED BY <2>3, <2>4
<1> QED BY <1>1, <1>2 DEF CallStep

-----------------------------------------------------------------------------
(* Pairs.                                                                  *)

(* What a rewriting of a half leaves and what it changes.                  *)
LEMMA PatchedHalf ==
  ASSUME draft \in Draft, NEW changed \in BOOLEAN, NEW tells \in BOOLEAN,
         NEW starter \in {"todo", "whole"}
  PROVE  LET p == [draft.pub EXCEPT !.rev = @ + (IF changed THEN 1 ELSE 0),
                                    !.starter = starter, !.tells = tells] IN
         /\ p.rev = draft.pub.rev + (IF changed THEN 1 ELSE 0)
         /\ p.sound = draft.pub.sound /\ p.tells = tells
<1>1. draft.pub \in Public
  BY DEF Draft
<1> QED BY <1>1 DEF Public

LEMMA ToldHalf ==
  ASSUME draft \in Draft, NEW tells \in BOOLEAN
  PROVE  /\ Told(tells).rev = draft.pub.rev
         /\ Told(tells).sound = draft.pub.sound /\ Told(tells).tells = tells
<1>1. draft.pub \in Public
  BY DEF Draft
<1> QED BY <1>1 DEF Told, Public

LEMMA ReworkedHalf ==
  ASSUME draft \in Draft, NEW n, NEW changed \in BOOLEAN, NEW right \in BOOLEAN
  PROVE  LET s == [Reworked(changed, right) EXCEPT !.over = n] IN
         /\ s.rev = draft.sec.rev + (IF changed THEN 1 ELSE 0)
         /\ s.sound = draft.sec.sound /\ s.over = n
<1>1. draft.sec \in Secure
  BY DEF Draft
<1> QED BY <1>1 DEF Reworked, Secure

LEMMA SameHalf ==
  ASSUME draft \in Draft, NEW n
  PROVE  LET s == [draft.sec EXCEPT !.over = n] IN s.sound = draft.sec.sound /\ s.over = n
<1>1. draft.sec \in Secure
  BY DEF Draft
<1> QED BY <1>1 DEF Secure

(* What a rewriting of the draft leaves and what it changes.               *)
LEMMA PatchedFields ==
  ASSUME draft \in Draft, NEW changed \in BOOLEAN, NEW starter \in {"todo", "whole"},
         NEW tells \in BOOLEAN
  PROVE  LET d == Patched(changed, starter, tells) IN
         /\ d.pub.sound = draft.pub.sound /\ d.pub.tells = tells
         /\ d.pub.rev = draft.pub.rev + (IF changed THEN 1 ELSE 0)
         /\ d.sec.sound = draft.sec.sound /\ d.sec.over = d.pub.rev
<1> DEFINE p == [draft.pub EXCEPT !.rev = @ + (IF changed THEN 1 ELSE 0),
                                  !.starter = starter, !.tells = tells]
           s == [draft.sec EXCEPT !.over = p.rev]
<1>1. Patched(changed, starter, tells) = [pub |-> p, sec |-> s]
  BY DEF Patched, Renormalised
<1>2. /\ p.rev = draft.pub.rev + (IF changed THEN 1 ELSE 0)
      /\ p.sound = draft.pub.sound /\ p.tells = tells
  BY PatchedHalf
<1>3. s.sound = draft.sec.sound /\ s.over = p.rev
  BY SameHalf
<1> HIDE DEF p, s
<1> QED BY <1>1, <1>2, <1>3

LEMMA WrittenFields ==
  ASSUME draft \in Draft, NEW right \in BOOLEAN, NEW tells \in BOOLEAN
  PROVE  LET d == Renormalised([pub |-> Told(tells), sec |-> SecureOf(right)]) IN
         /\ d.pub.sound = draft.pub.sound /\ d.pub.tells = tells
         /\ d.sec.sound /\ d.sec.over = d.pub.rev
<1> DEFINE p == Told(tells)
           s == [SecureOf(right) EXCEPT !.over = p.rev]
<1>1. Renormalised([pub |-> Told(tells), sec |-> SecureOf(right)]) = [pub |-> p, sec |-> s]
  BY DEF Renormalised
<1>2. p.sound = draft.pub.sound /\ p.tells = tells
  BY ToldHalf
<1>3. s.sound /\ s.over = p.rev
  BY DEF SecureOf
<1> HIDE DEF p, s
<1> QED BY <1>1, <1>2, <1>3

LEMMA ReworkedFields ==
  ASSUME draft \in Draft, NEW right \in BOOLEAN
  PROVE  LET d == Renormalised([pub |-> Told(FALSE), sec |-> Reworked(TRUE, right)]) IN
         /\ d.pub.sound = draft.pub.sound /\ d.pub.tells = FALSE /\ d.pub.rev = draft.pub.rev
         /\ d.sec.rev = draft.sec.rev + 1
         /\ d.sec.sound = draft.sec.sound /\ d.sec.over = d.pub.rev
<1> DEFINE p == Told(FALSE)
           s == [Reworked(TRUE, right) EXCEPT !.over = p.rev]
<1>1. Renormalised([pub |-> Told(FALSE), sec |-> Reworked(TRUE, right)]) = [pub |-> p, sec |-> s]
  BY DEF Renormalised
<1>2. p.sound = draft.pub.sound /\ p.tells = FALSE /\ p.rev = draft.pub.rev
  BY ToldHalf
<1>3. s.rev = draft.sec.rev + 1 /\ s.sound = draft.sec.sound /\ s.over = p.rev
  BY ReworkedHalf
<1> HIDE DEF p, s
<1> QED BY <1>1, <1>2, <1>3

LEMMA AnsweredFields ==
  ASSUME NEW right \in BOOLEAN
  PROVE  LET d == Paired([pub |-> draft.pub, sec |-> SecureOf(right)]) IN
         d.pub = draft.pub /\ d.sec.sound /\ d.sec.over = d.pub.rev
<1> DEFINE s == [SecureOf(right) EXCEPT !.over = draft.pub.rev]
<1>1. Paired([pub |-> draft.pub, sec |-> SecureOf(right)]) = [pub |-> draft.pub, sec |-> s]
  BY DEF Paired
<1>2. s.sound /\ s.over = draft.pub.rev
  BY DEF SecureOf
<1> HIDE DEF s
<1> QED BY <1>1, <1>2

LEMMA CorrectedFields ==
  ASSUME draft \in Draft, NEW changed \in BOOLEAN, NEW right \in BOOLEAN
  PROVE  LET d == Paired([pub |-> draft.pub, sec |-> Reworked(changed, right)]) IN
         d.pub = draft.pub /\ d.sec.sound = draft.sec.sound /\ d.sec.over = d.pub.rev
<1> DEFINE s == [Reworked(changed, right) EXCEPT !.over = draft.pub.rev]
<1>1. Paired([pub |-> draft.pub, sec |-> Reworked(changed, right)]) = [pub |-> draft.pub, sec |-> s]
  BY DEF Paired
<1>2. s.sound = draft.sec.sound /\ s.over = draft.pub.rev
  BY ReworkedHalf
<1> HIDE DEF s
<1> QED BY <1>1, <1>2

LEMMA RenormalisedWhole ==
  ASSUME draft \in Draft, Whole(draft)
  PROVE  Whole(Renormalised(draft))
<1> DEFINE s == [draft.sec EXCEPT !.over = draft.pub.rev]
<1>1. Renormalised(draft) = [pub |-> draft.pub, sec |-> s]
  BY DEF Renormalised
<1>2. s.sound = draft.sec.sound /\ s.over = draft.pub.rev
  BY SameHalf
<1> DEFINE d == Renormalised(draft)
<1>3. d.pub = draft.pub /\ d.sec.sound = draft.sec.sound /\ d.sec.over = draft.pub.rev
  <2> HIDE DEF s
  <2> QED BY <1>1, <1>2
<1> HIDE DEF d
<1>4. Whole(d)
  BY <1>3 DEF Whole
<1> QED BY <1>4 DEF d

(* What a step of the thread of a pair comes to.                           *)
Breaks == /\ UNCHANGED draft
         /\ \/ at'[1] = at[1] /\ UNCHANGED <<phase, result>>
            \/ at'[1] = "off" /\ phase' = "ended" /\ result' \in {Both("threw"), Both("invalid")}
GoesOn == UNCHANGED <<phase, result>>
ToVerifier == at'[1] = "off" /\ phase' = "verify" /\ UNCHANGED result
Drafts ==
  \/ /\ at[1] = "public" /\ at'[1] = "secure" /\ GoesOn
     /\ draft'.pub.sound /\ ~draft'.pub.tells
  \/ /\ at[1] = "secure" /\ at'[1] = "safety" /\ GoesOn
     /\ draft'.pub.sound /\ draft'.sec.sound
  \/ at[1] \in {"secure", "safety", "whole"} /\ ToVerifier /\ Whole(draft')
Mends ==
  \/ /\ at[1] = "starter" /\ Whole(draft') /\ draft'.pub.rev > draft.pub.rev
     /\ (at'[1] = "reference" /\ GoesOn) \/ ToVerifier
  \/ /\ at[1] = "reference" /\ Whole(draft') /\ ToVerifier
     /\ job = "code_lab" => draft'.pub.rev = draft.pub.rev /\ draft'.sec.rev > draft.sec.rev

LEMMA PairStep ==
  ASSUME Inv, job # "concept", NEW t \in Thread, ThreadStep(t)
  PROVE  /\ at[1] # "off" /\ phase = "draft" /\ result = Both(None)
         /\ UNCHANGED <<job, seen>>
         /\ \A u \in Thread : u # 1 => at'[u] = "off"
         /\ Breaks \/ Drafts \/ Mends
<1> USE DEF Inv
<1>1. at[t] # "off"
  BY DEF ThreadStep, TransportFails, ServerRefuses, Garbled, WritesPart, WritesAll, WritesPublic,
     WritesSecure, WritesItems, WritesAnswers, MakesSafe, MendsStarter, MendsReference, MendsAnswers
<1>2. t = 1 /\ phase = "draft" /\ result = Both(None) /\ at[1] # "off"
  BY <1>1, PairThread
<1>3. at \in [Thread -> Stage] /\ draft \in Draft /\ 1 \in Thread
  BY WorkersOfLesson DEF TypeOK
<1>4. UNCHANGED <<job, seen>>
  BY DEF ThreadStep, TransportFails, ServerRefuses, Garbled, WritesPart, WritesAll, WritesPublic,
     WritesSecure, WritesItems, WritesAnswers, MakesSafe, MendsStarter, MendsReference, MendsAnswers
<1>5. ASSUME NEW outcome \in {"threw", "invalid"},
             AgainOr(1, outcome) \/ (Stops(1) /\ EndsWith(outcome)), UNCHANGED draft
      PROVE  Breaks /\ \A u \in Thread : u # 1 => at'[u] = at[u]
  BY <1>2, <1>3, <1>5, Failing DEF Breaks
<1>6. ASSUME NEW s \in Stage, Enters(1, s)
      PROVE  at'[1] = s /\ \A u \in Thread : u # 1 => at'[u] = at[u]
  BY <1>3, <1>6 DEF Enters
<1>7. ASSUME Stops(1)
      PROVE  at'[1] = "off" /\ \A u \in Thread : u # 1 => at'[u] = at[u]
  BY <1>3, <1>7 DEF Stops
<1>8. {"secure", "safety", "reference"} \subseteq Stage
  BY DEF Stage
<1>9. (Breaks \/ Drafts \/ Mends) /\ \A u \in Thread : u # 1 => at'[u] = at[u]
  <2>1. CASE TransportFails(1)
    <3>1. CASE tries[1] < MaxTransport
      BY <2>1, <3>1 DEF TransportFails, Breaks
    <3> QED BY <2>1, <3>1, <1>5 DEF TransportFails
  <2>2. CASE ServerRefuses(1) \/ \E cut \in BOOLEAN : Garbled(1, cut)
    BY <2>2, <1>5 DEF ServerRefuses, Garbled
  <2>3. CASE WritesPart(1)
    BY <2>3 DEF WritesPart, PairInv
  <2>4. CASE WritesAll(1)
    <3>1. CASE AgainOr(1, "invalid") /\ UNCHANGED draft
      BY <3>1, <1>5
    <3>2. CASE ~(AgainOr(1, "invalid") /\ UNCHANGED draft)
      <4>1. Whole(draft') /\ Stops(1) /\ phase' = "verify" /\ UNCHANGED result
        BY <2>4, <3>2 DEF WritesAll, Structured, LessonStructured, PairStructured, Contracted, Separated, Whole
      <4> QED BY <2>4, <4>1, <1>7 DEF WritesAll, Drafts, ToVerifier
    <3> QED BY <3>1, <3>2
  <2>5. CASE WritesPublic(1) \/ WritesItems(1)
    <3>1. CASE Refused(1)
      BY <3>1, <1>5 DEF Refused
    <3>2. CASE \E starter \in {"todo", "whole"} : WritesHalf(1, "secure", PublicOf(starter))
      BY <2>5, <3>2, <1>6, <1>8
         DEF WritesPublic, WritesItems, WritesHalf, PublicOf, Drafts, GoesOn
    <3> QED BY <2>5, <3>1, <3>2 DEF WritesPublic, WritesItems, ItemsOf
  <2>6. CASE WritesSecure(1)
    <3>0. at[1] = "secure" /\ draft.pub.sound
      BY <2>6 DEF WritesSecure, PairInv
    <3>1. CASE Refused(1)
      BY <3>1, <1>5 DEF Refused
    <3>2. CASE ~Refused(1)
      <4>1. PICK right \in BOOLEAN, tells \in BOOLEAN :
              /\ draft' = Renormalised([pub |-> Told(tells), sec |-> SecureOf(right)])
              /\ IF tells THEN Enters(1, "safety") /\ UNCHANGED <<phase, result>>
                 ELSE Stops(1) /\ phase' = "verify" /\ UNCHANGED result
        BY <2>6, <3>2 DEF WritesSecure
      <4>2. /\ draft'.pub.sound /\ draft'.sec.sound /\ draft'.sec.over = draft'.pub.rev
            /\ draft'.pub.tells = tells
        <5> DEFINE d == Renormalised([pub |-> Told(tells), sec |-> SecureOf(right)])
        <5>1. /\ d.pub.sound = draft.pub.sound /\ d.pub.tells = tells
              /\ d.sec.sound /\ d.sec.over = d.pub.rev
          BY <1>3, WrittenFields
        <5>2. draft' = d
          BY <4>1
        <5> HIDE DEF d
        <5> QED BY <3>0, <5>1, <5>2
      <4> QED BY <3>0, <4>1, <4>2, <1>6, <1>7, <1>8 DEF Drafts, GoesOn, ToVerifier, Whole
    <3> QED BY <3>1, <3>2
  <2>7. CASE WritesAnswers(1)
    <3>0. at[1] = "secure" /\ draft.pub.sound /\ ~draft.pub.tells
      BY <2>7 DEF WritesAnswers, PairInv
    <3>1. CASE Refused(1)
      BY <3>1, <1>5 DEF Refused
    <3>2. CASE ~Refused(1)
      <4>1. PICK right \in BOOLEAN :
              /\ draft' = Paired([pub |-> draft.pub, sec |-> SecureOf(right)])
              /\ Stops(1) /\ phase' = "verify" /\ UNCHANGED result
        BY <2>7, <3>2 DEF WritesAnswers
      <4> DEFINE d == Paired([pub |-> draft.pub, sec |-> SecureOf(right)])
      <4>2. d.pub = draft.pub /\ d.sec.sound /\ d.sec.over = d.pub.rev
        BY <1>3, AnsweredFields
      <4>3. draft' = d
        BY <4>1
      <4> HIDE DEF d
      <4>4. Whole(draft')
        BY <3>0, <4>2, <4>3 DEF Whole
      <4> QED BY <3>0, <4>1, <4>4, <1>7 DEF Drafts, ToVerifier
    <3> QED BY <3>1, <3>2
  <2>8. CASE MakesSafe(1)
    <3>0. at[1] = "safety" /\ draft.pub.sound /\ draft.sec.sound
      BY <2>8 DEF MakesSafe, PairInv
    <3>1. CASE Refused(1)
      BY <3>1, <1>5 DEF Refused
    <3>2. CASE Stops(1) /\ UNCHANGED draft /\ EndsWith("invalid")
      BY <3>2, <1>5
    <3>3. CASE ~Refused(1) /\ ~(Stops(1) /\ UNCHANGED draft /\ EndsWith("invalid"))
      <4>1. PICK changed \in BOOLEAN, tells \in BOOLEAN, starter \in {"todo", "whole"} :
              /\ draft' = Patched(changed, starter, tells) /\ ~tells
              /\ Stops(1) /\ phase' = "verify" /\ UNCHANGED result
        BY <2>8, <3>3 DEF MakesSafe, Accepts, Conservative
      <4> DEFINE d == Patched(changed, starter, tells)
      <4>2. /\ d.pub.sound = draft.pub.sound /\ d.pub.tells = tells
            /\ d.sec.sound = draft.sec.sound /\ d.sec.over = d.pub.rev
        BY <1>3, PatchedFields
      <4>3. draft' = d
        BY <4>1
      <4> HIDE DEF d
      <4>4. Whole(draft')
        BY <3>0, <4>1, <4>2, <4>3 DEF Whole
      <4> QED BY <3>0, <4>1, <4>4, <1>7 DEF Drafts, ToVerifier
    <3> QED BY <3>1, <3>2, <3>3
  <2>9. CASE MendsStarter(1)
    <3>0. at[1] = "starter" /\ Whole(draft)
      BY <2>9 DEF MendsStarter, PairInv
    <3>1. CASE Refused(1)
      BY <3>1, <1>5 DEF Refused
    <3>2. CASE ~Refused(1)
      <4>1. PICK starter \in {"todo", "whole"} :
              /\ draft' = Patched(TRUE, starter, FALSE) /\ UNCHANGED result
              /\ IF RepairsReference THEN Enters(1, "reference") /\ UNCHANGED phase
                 ELSE Stops(1) /\ phase' = AfterRepair
        BY <2>9, <3>2 DEF MendsStarter, Accepts
      <4> DEFINE d == Patched(TRUE, starter, FALSE)
      <4>5. /\ d.pub.sound = draft.pub.sound /\ d.pub.tells = FALSE
            /\ d.pub.rev = draft.pub.rev + 1
            /\ d.sec.sound = draft.sec.sound /\ d.sec.over = d.pub.rev
        BY <1>3, PatchedFields
      <4>6. draft' = d
        BY <4>1
      <4> HIDE DEF d
      <4>2. Whole(draft') /\ draft'.pub.rev = draft.pub.rev + 1
        BY <3>0, <4>5, <4>6 DEF Whole
      <4>3. draft'.pub.rev > draft.pub.rev
        BY <4>2, <1>3 DEF Draft, Public
      <4> QED BY <3>0, <4>1, <4>2, <4>3, <1>6, <1>7, <1>8 DEF Mends, GoesOn, ToVerifier, AfterRepair
    <3> QED BY <3>1, <3>2
  <2>10. CASE MendsReference(1)
    <3>0. at[1] = "reference" /\ Whole(draft)
      BY <2>10 DEF MendsReference, PairInv
    <3>1. CASE Refused(1)
      BY <3>1, <1>5 DEF Refused
    <3>2. CASE ~Refused(1)
      <4>1. PICK right \in BOOLEAN :
              /\ draft' = Renormalised([pub |-> Told(FALSE), sec |-> Reworked(TRUE, right)])
              /\ Stops(1) /\ phase' = AfterRepair /\ UNCHANGED result
        BY <2>10, <3>2 DEF MendsReference, Accepts
      <4> DEFINE d == Renormalised([pub |-> Told(FALSE), sec |-> Reworked(TRUE, right)])
      <4>5. /\ d.pub.sound = draft.pub.sound /\ d.pub.tells = FALSE /\ d.pub.rev = draft.pub.rev
            /\ d.sec.rev = draft.sec.rev + 1
            /\ d.sec.sound = draft.sec.sound /\ d.sec.over = d.pub.rev
        BY <1>3, ReworkedFields
      <4>6. draft' = d
        BY <4>1
      <4> HIDE DEF d
      <4>2. /\ Whole(draft') /\ draft'.pub.rev = draft.pub.rev
            /\ draft'.sec.rev = draft.sec.rev + 1
        BY <3>0, <4>5, <4>6 DEF Whole
      <4>3. draft'.sec.rev > draft.sec.rev
        BY <4>2, <1>3 DEF Draft, Secure
      <4> QED BY <3>0, <4>1, <4>2, <4>3, <1>7 DEF Mends, ToVerifier, AfterRepair
    <3> QED BY <3>1, <3>2
  <2>11. CASE MendsAnswers(1)
    <3>0. at[1] = "reference" /\ Whole(draft) /\ job = "assessment"
      BY <2>11 DEF MendsAnswers, PairInv
    <3>1. CASE Refused(1)
      BY <3>1, <1>5 DEF Refused
    <3>2. CASE ~Refused(1)
      <4>1. PICK changed \in BOOLEAN, right \in BOOLEAN :
              /\ draft' = Paired([pub |-> draft.pub, sec |-> Reworked(changed, right)])
              /\ Stops(1) /\ phase' = AfterRepair /\ UNCHANGED result
        BY <2>11, <3>2 DEF MendsAnswers
      <4> DEFINE d == Paired([pub |-> draft.pub, sec |-> Reworked(changed, right)])
      <4>2. d.pub = draft.pub /\ d.sec.sound = draft.sec.sound /\ d.sec.over = d.pub.rev
        BY <1>3, CorrectedFields
      <4>3. draft' = d
        BY <4>1
      <4> HIDE DEF d
      <4>4. Whole(draft')
        BY <3>0, <4>2, <4>3 DEF Whole
      <4> QED BY <3>0, <4>1, <4>4, <1>7 DEF Mends, ToVerifier, AfterRepair
    <3> QED BY <3>1, <3>2
  <2> QED BY <1>2, <2>1, <2>2, <2>3, <2>4, <2>5, <2>6, <2>7, <2>8, <2>9, <2>10, <2>11 DEF ThreadStep
<1>10. \A u \in Thread : u # 1 => at[u] = "off"
  BY DEF PairInv
<1> QED BY <1>2, <1>4, <1>9, <1>10

LEMMA ThreadPair ==
  ASSUME Inv, TypeOK', NEW t \in Thread, ThreadStep(t)
  PROVE  PairInv' /\ ProgressInv'
<1>1. CASE job = "concept"
  <2>1. job' = "concept"
    BY <1>1 DEF ThreadStep, TransportFails, ServerRefuses, Garbled, WritesPart, WritesAll,
       WritesPublic, WritesSecure, WritesItems, WritesAnswers, MakesSafe, MendsStarter,
       MendsReference, MendsAnswers
  <2> QED BY <2>1 DEF PairInv, ProgressInv
<1>2. CASE job # "concept"
  <2> USE <1>2, PairStep DEF Both
  <2>0. PairInv /\ ProgressInv /\ draft \in Draft /\ seen \in Finding
    BY DEF Inv, TypeOK
  <2>1. PairInv'
    <3>1. CASE Breaks
      BY <2>0, <3>1 DEF Breaks, PairInv, PublishedAsVerified, Whole
    <3>2. CASE Drafts
      BY <2>0, <3>2 DEF Drafts, GoesOn, ToVerifier, PairInv, PublishedAsVerified, Whole
    <3>3. CASE Mends
      BY <2>0, <3>3 DEF Mends, GoesOn, ToVerifier, PairInv, PublishedAsVerified, Whole
    <3> QED BY <3>1, <3>2, <3>3
  <2>2. ProgressInv'
    <3>1. CASE Breaks
      BY <2>0, <3>1 DEF Breaks, ProgressInv, RepairsMakeProgress, Bad
    <3>2. CASE Drafts
      BY <2>0, <3>2 DEF Drafts, GoesOn, ToVerifier, ProgressInv, RepairsMakeProgress, Bad
    <3>3. CASE Mends
      <4>1. draft.pub.rev \in Nat /\ seen.draft.pub.rev \in Nat /\ draft.sec.rev \in Nat
        BY <2>0 DEF Draft, Public, Secure, Finding
      <4> QED BY <2>0, <3>3, <4>1 DEF Mends, GoesOn, ToVerifier, ProgressInv, RepairsMakeProgress, Bad
    <3> QED BY <3>1, <3>2, <3>3
  <2> QED BY <2>1, <2>2
<1> QED BY <1>1, <1>2

LEMMA CallPair ==
  ASSUME Inv, TypeOK', CallStep
  PROVE  PairInv' /\ ProgressInv'
<1>0. /\ TypeOK /\ LessonInv /\ PairInv /\ ProgressInv /\ 1 \in Thread
      /\ at \in [Thread -> Stage] /\ draft \in Draft
  BY WorkersOfLesson DEF Inv, TypeOK
<1>1. job' = job
  BY DEF CallStep, Incompatible, Starts, Merges, Verifies, Finds, Repairs, GivesUp, Finalizes
<1>2. CASE job = "concept"
  BY <1>1, <1>2 DEF PairInv, ProgressInv
<1>3. CASE job # "concept"
  <2>1. CASE Incompatible
    BY <1>0, <1>3, <2>1 DEF Incompatible, PairInv, ProgressInv, PublishedAsVerified,
       RepairsMakeProgress, Both, Whole, LessonInv
  <2>2. CASE Starts
    <3>1. FirstStage \in {"public", "whole"}
      BY <1>3 DEF FirstStage
    <3>2. /\ at' = [at EXCEPT ![1] = FirstStage] /\ phase = "start" /\ phase' = "draft"
          /\ UNCHANGED <<job, draft, seen, result>>
      BY <2>2, <3>1 DEF Starts
    <3>3. result = Both(None) /\ (\A u \in Thread : at[u] = "off") /\ (job = "code_lab" => ~Bad(seen))
      BY <1>0, <3>2 DEF LessonInv, ProgressInv, Bad
    <3> QED BY <1>0, <1>3, <3>1, <3>2, <3>3 DEF PairInv, ProgressInv, PublishedAsVerified,
           RepairsMakeProgress, Both, Whole
  <2>3. CASE Merges
    BY <1>3, <2>3 DEF Merges
  <2>4. CASE Verifies
    <3>1. PICK r \in {"passed", "failed", "broken"}, s \in {"passed", "failed", "broken"} :
            /\ r = "passed" => draft.sec.right
            /\ s = "failed" => draft.pub.starter = "todo" \/ ~draft.sec.right
            /\ Finds(r, s)
      BY <2>4 DEF Verifies
    <3>2. /\ phase = "verify" /\ UNCHANGED <<job, at, draft, result>>
          /\ seen'.draft = draft /\ seen'.reference = r /\ seen'.starter = s
          /\ phase' = IF Good(seen') THEN "finalize" ELSE "judge"
      BY <3>1 DEF Finds
    <3>3. at[1] = "off" /\ Whole(draft) /\ result = Both(None)
      BY <1>0, <1>3, <3>2 DEF PairInv, LessonInv
    <3>4. Good(seen') => draft.sec.right /\ draft.pub.starter = "todo"
      BY <3>1, <3>2 DEF Good
    <3> QED BY <1>0, <1>3, <3>2, <3>3, <3>4 DEF PairInv, ProgressInv, PublishedAsVerified,
           RepairsMakeProgress, Both, Whole, Good
  <2>5. CASE Repairs
    <3>1. /\ phase = "judge" /\ UNCHANGED <<job, seen>> /\ at[1] = "off" /\ Whole(draft)
          /\ seen.draft = draft \/ job # "code_lab"
          /\ result = Both(None)
      BY <1>0, <1>3, <2>5 DEF Repairs, PairInv, ProgressInv, LessonInv
    <3>2. CASE phase' = "ended" /\ result' = Both("unavailable") /\ UNCHANGED <<at, draft>>
      BY <1>0, <1>3, <3>1, <3>2 DEF PairInv, ProgressInv, PublishedAsVerified,
         RepairsMakeProgress, Both
    <3>3. CASE /\ Enters(1, "starter") \/ Enters(1, "reference")
               /\ phase' = "draft" /\ UNCHANGED <<draft, result>>
      <4>1. at'[1] \in {"starter", "reference"} /\ \A u \in Thread : u # 1 => at'[u] = at[u]
        BY <1>0, <3>3 DEF Enters
      <4> QED BY <1>0, <1>3, <3>1, <3>3, <4>1 DEF PairInv, ProgressInv, PublishedAsVerified,
             RepairsMakeProgress, Both, Whole
    <3>4. CASE /\ ~RepairsStarter /\ ~RepairsReference
               /\ phase' = "verify" /\ draft' = Renormalised(draft) /\ UNCHANGED <<at, result>>
      <4>1. Whole(draft')
        BY <1>0, <3>1, <3>4, RenormalisedWhole
      <4>2. job = "code_lab" => ~Bad(seen)
        BY <3>4 DEF RepairsStarter, RepairsReference, Bad
      <4> QED BY <1>0, <1>3, <3>1, <3>4, <4>1, <4>2 DEF PairInv, ProgressInv, PublishedAsVerified,
             RepairsMakeProgress, Both, Bad, Whole
    <3> QED BY <2>5, <3>2, <3>3, <3>4 DEF Repairs
  <2>6. CASE GivesUp
    BY <1>0, <1>3, <2>6 DEF GivesUp, PairInv, ProgressInv, PublishedAsVerified,
       RepairsMakeProgress, Both
  <2>7. CASE Finalizes
    <3>1. /\ phase = "finalize" /\ phase' = "ended"
          /\ UNCHANGED <<job, at, draft, seen>>
      BY <2>7 DEF Finalizes
    <3>2. /\ Whole(draft) /\ Good(seen) /\ seen.draft = draft /\ at[1] = "off"
          /\ draft.sec.right /\ draft.pub.starter = "todo"
      BY <1>0, <1>3, <3>1 DEF PairInv
    <3>3. PublishedAsVerified'
      BY <3>1, <3>2 DEF PublishedAsVerified, Whole, Structured, LessonStructured, PairStructured, Contracted, Separated, Good
    <3> QED BY <1>0, <1>3, <3>1, <3>2, <3>3 DEF PairInv, ProgressInv, RepairsMakeProgress
  <2> QED BY <2>1, <2>2, <2>3, <2>4, <2>5, <2>6, <2>7 DEF CallStep
<1> QED BY <1>2, <1>3

-----------------------------------------------------------------------------
LEMMA NextInv == Inv /\ [Next]_vars => Inv'
<1> SUFFICES ASSUME Inv, [Next]_vars PROVE Inv'
  OBVIOUS
<1>1. CASE CallStep
  BY <1>1, StepType, CallLesson, CallPair DEF Next, Inv
<1>2. ASSUME NEW t \in Thread, ThreadStep(t) PROVE Inv'
  <2>1. TypeOK'
    BY <1>2, StepType DEF Next
  <2>2. LessonInv' /\ ThreadsInv'
    <3>1. CASE WritesPart(t)
      BY <2>1, <3>1, PartLesson
    <3>2. CASE ~WritesPart(t)
      BY <1>2, <3>2, QuietThreads, QuietLesson
    <3> QED BY <3>1, <3>2
  <2> QED BY <1>2, <2>1, <2>2, ThreadPair DEF Inv
<1>3. CASE UNCHANGED vars
  <2> USE <1>3 DEF vars, lessonVars
  <2>1. TypeOK' /\ LessonInv'
    BY DEF Inv, TypeOK, LessonInv
  <2>2. Workers' = Workers /\ Staged' = Staged
    BY DEF Workers, Staged
  <2>3. ThreadsInv'
    BY <2>2 DEF Inv, ThreadsInv
  <2>4. PairInv'
    BY DEF Inv, PairInv, PublishedAsVerified, Structured, LessonStructured, PairStructured, Contracted, Separated, Good, Whole
  <2>5. ProgressInv'
    BY DEF Inv, ProgressInv, RepairsMakeProgress, Bad
  <2> QED BY <2>1, <2>3, <2>4, <2>5 DEF Inv
<1> QED BY <1>1, <1>2, <1>3 DEF Next

THEOREM Invariance == Spec => []Inv
BY InitInv, NextInv, PTL DEF Spec

(* TypeOK: the repairs, the repetitions and the rounds stay within their   *)
(* bounds (authoring-config, boundedRepairs, max_tool_retry).              *)
THEOREM TypesHold == Spec => []TypeOK
<1>1. Inv => TypeOK
  BY DEF Inv
<1> QED BY <1>1, Invariance, PTL

(* EachPartOnce, for every number of parts and threads.                    *)
THEOREM PartsOnce == Spec => []EachPartOnce
<1>1. Inv => EachPartOnce
  <2> SUFFICES ASSUME Inv PROVE EachPartOnce
    OBVIOUS
  <2>1. \A p \in Part : lesson[p] \in {0, p} /\ authored[p] <= 1
    BY DEF Inv, LessonInv
  <2> QED BY <2>1 DEF Inv, ThreadsInv, EachPartOnce
<1> QED BY <1>1, Invariance, PTL

(* PublishedAsVerified, whatever repairs preceded the good finding.        *)
THEOREM VerifiedIsPublished == Spec => []PublishedAsVerified
<1>1. Inv => PublishedAsVerified
  BY DEF Inv, PairInv, PublishedAsVerified
<1> QED BY <1>1, Invariance, PTL

(* RepairsMakeProgress, for every number of rounds.                        *)
THEOREM NeverTheSamePair == Spec => []RepairsMakeProgress
<1>1. Inv => RepairsMakeProgress
  BY DEF Inv, ProgressInv, RepairsMakeProgress
<1> QED BY <1>1, Invariance, PTL

-----------------------------------------------------------------------------
(* The verifier and its runner.                                            *)
USE RunnerAssumption

AtWork == {"running", "settled"}
Honest(verdict) == (verdict = "passed" => good) /\ (verdict = "failed" => ~good)

RunnerTypes ==
  /\ stage \in {"idle", "asked", "answered"} \cup AtWork
  /\ good \in BOOLEAN /\ late \in BOOLEAN /\ over \in BOOLEAN /\ early \in BOOLEAN
  /\ removal \in {"off", "trying", "done"} /\ box \in {"none", "coming", "up", "gone"}
  /\ verdicts \in Seq(R!Verdicts) /\ failed \in Nat /\ left \in Nat /\ excused \in Nat

ExecutionInv ==
  /\ stage \notin AtWork => removal = "off" /\ exit = "none" /\ ~over
  /\ stage \in AtWork => box # "none"
  /\ removal # "off" => late \/ ~good
  /\ exit = "killed" => late \/ ~good
  /\ exit = "zero" => box = "gone"
  /\ over => ~good
  /\ removal # "done" => failed < Removals
  /\ removal = "done" => box = "gone" \/ early \/ failed = Removals

VerdictsInv ==
  /\ \A i \in 1..Len(verdicts) :
       /\ Honest(verdicts[i])
       /\ stage # "answered" \/ i < Len(verdicts) => verdicts[i] \in R!Retried
  /\ stage = "answered" => Len(verdicts) > 0

RunnerInv == RunnerTypes /\ ExecutionInv /\ VerdictsInv /\ left <= excused

VerifierInv ==
  /\ job = "assessment" =>
       draft.pub.starter = "todo" /\ \A t \in Thread : at[t] \notin {"safety", "starter"}
  /\ job = "concept" => phase \in {"start", "draft", "ended"}
  /\ subject \in {"none", "reference", "between", "starter"}
  /\ subject # "none" => phase = "verify"
  /\ subject \in {"none", "between"} => stage = "idle"
  /\ subject \in {"none", "reference"} => reference = "none"
  /\ subject \in {"between", "starter"} =>
       /\ job # "assessment" /\ reference \in {"passed", "failed", "broken"}
       /\ reference = "passed" => draft.sec.right
       /\ reference = "failed" => ~draft.sec.right
  /\ subject = "reference" => good = draft.sec.right
  /\ subject = "starter" => good \in Passes(draft.pub.starter)

VInv == Inv /\ RunnerInv /\ VerifierInv

-----------------------------------------------------------------------------
(* The runner.                                                             *)
LEMMA SomeTries == 0 < Removals
OBVIOUS

LEMMA NoVerdicts ==
  <<>> \in Seq(R!Verdicts) /\ Len(<<>>) = 0 /\ \A i \in 1..Len(<<>>) : FALSE
OBVIOUS

LEMMA RunnerInit == R!Init => RunnerInv
<1> SUFFICES ASSUME R!Init PROVE RunnerInv
  OBVIOUS
<1>0. verdicts \in Seq(R!Verdicts)
  BY NoVerdicts DEF R!Init
<1>1. RunnerTypes
  BY <1>0 DEF R!Init, RunnerTypes, AtWork
<1>4. left <= excused
  BY DEF R!Init
<1>2. ExecutionInv
  BY SomeTries DEF R!Init, ExecutionInv, AtWork
<1>3. VerdictsInv
  BY NoVerdicts DEF R!Init, VerdictsInv
<1> QED BY <1>1, <1>2, <1>3, <1>4 DEF RunnerInv

LEMMA AskedFor ==
  ASSUME RunnerInv, NEW who, NEW passes \in BOOLEAN, R!Asks(who, passes)
  PROVE  RunnerInv' /\ good' = passes /\ stage' = "asked"
<1>1. RunnerTypes' /\ ExecutionInv' /\ left' <= excused'
  BY NoVerdicts DEF R!Asks, R!execVars, RunnerInv, RunnerTypes, ExecutionInv, AtWork
<1>2. VerdictsInv'
  BY NoVerdicts DEF R!Asks, VerdictsInv
<1> QED BY <1>1, <1>2 DEF RunnerInv, R!Asks

LEMMA TakenIdle ==
  ASSUME RunnerInv, R!Taken
  PROVE  RunnerInv' /\ stage' = "idle"
<1>0. verdicts' \in Seq(R!Verdicts)
  BY NoVerdicts DEF R!Taken
<1>1. RunnerTypes'
  BY <1>0 DEF R!Taken, R!Blank, RunnerInv, RunnerTypes, AtWork
<1>4. left' <= excused'
  BY DEF R!Taken
<1>2. ExecutionInv'
  BY SomeTries DEF R!Taken, R!Blank, ExecutionInv, AtWork
<1>3. VerdictsInv'
  BY NoVerdicts DEF R!Taken, VerdictsInv
<1> QED BY <1>1, <1>2, <1>3, <1>4 DEF RunnerInv, R!Taken

(* One more verdict, true of the program.                                  *)
LEMMA OneMore ==
  ASSUME RunnerInv, stage # "answered", NEW verdict \in R!Verdicts, Honest(verdict), R!Gives(verdict)
  PROVE  /\ VerdictsInv' /\ verdicts' \in Seq(R!Verdicts)
         /\ stage' \in {"asked", "answered"} /\ UNCHANGED <<good, policy>>
<1> USE DEF RunnerInv, RunnerTypes
<1>1. /\ verdicts' = Append(verdicts, verdict) /\ UNCHANGED <<good, policy>>
      /\ stage' \in {"asked", "answered"}
      /\ stage' = "asked" => verdict \in R!Retried
  BY DEF R!Gives
<1>2. /\ verdicts' \in Seq(R!Verdicts) /\ Len(verdicts') = Len(verdicts) + 1 /\ Len(verdicts) \in Nat
      /\ \A i \in 1..Len(verdicts) : verdicts'[i] = verdicts[i]
      /\ verdicts'[Len(verdicts) + 1] = verdict
  BY <1>1
<1>3. R!Retried' = R!Retried
  BY <1>1 DEF R!Retried
<1>4. ASSUME NEW i \in 1..Len(verdicts')
      PROVE  /\ (verdicts'[i] = "passed" => good') /\ (verdicts'[i] = "failed" => ~good')
             /\ stage' # "answered" \/ i < Len(verdicts') => verdicts'[i] \in R!Retried'
  <2>1. CASE i \in 1..Len(verdicts)
    BY <1>1, <1>2, <1>3, <2>1 DEF VerdictsInv, Honest
  <2>2. CASE i = Len(verdicts) + 1
    BY <1>1, <1>2, <1>3, <2>2 DEF Honest
  <2> QED BY <1>2, <2>1, <2>2
<1> QED BY <1>1, <1>2, <1>4 DEF VerdictsInv, Honest

LEMMA RunnerStep ==
  ASSUME RunnerInv, R!Acts \/ R!Happens
  PROVE  RunnerInv' /\ UNCHANGED good /\ (stage' = "idle" <=> stage = "idle")
<1> USE DEF RunnerInv, RunnerTypes, ExecutionInv, AtWork
<1>1. CASE R!Refuses
  <2>1. PICK verdict \in R!Verdicts : Honest(verdict) /\ R!Gives(verdict)
    BY <1>1 DEF R!Refuses, R!Verdicts, Honest
  <2>2. stage = "asked" /\ UNCHANGED <<cli, box, exit, room, timer, late, over, removal, failed,
                                       early, left, excused>>
    BY <1>1 DEF R!Refuses, R!execVars
  <2> QED BY <2>1, <2>2, OneMore
<1>2. CASE R!Starts
  <2>1. RunnerTypes' /\ left' <= excused'
    BY <1>2 DEF R!Starts
  <2>3. ExecutionInv'
    BY <1>2, SomeTries DEF R!Starts
  <2>2. VerdictsInv'
    BY <1>2 DEF R!Starts, VerdictsInv, Honest, R!Retried
  <2> QED BY <1>2, <2>1, <2>2, <2>3 DEF R!Starts
<1>3. CASE R!TimerFires
  BY <1>3 DEF R!TimerFires, R!Terminate, VerdictsInv, Honest, R!Retried
<1>4. CASE R!Closes
  BY <1>4 DEF R!Closes, VerdictsInv, Honest, R!Retried
<1>5. CASE R!Resolves
  <2>1. PICK verdict \in R!Verdict : R!Gives(verdict)
    BY <1>5 DEF R!Resolves
  <2>2. stage = "settled" /\ removal # "trying"
    BY <1>5 DEF R!Resolves, R!Waits
  <2>3. verdict \in R!Verdicts /\ Honest(verdict)
    BY <2>1 DEF R!Verdict, R!Verdict_ByExit, R!Judged, R!Verdicts, Honest
  <2>4. /\ left' = left + (IF box \in {"coming", "up"} THEN 1 ELSE 0)
        /\ excused' = excused + (IF removal = "off" \/ early \/ failed = Removals THEN 1 ELSE 0)
    BY <1>5 DEF R!Resolves
  <2>5. left' \in Nat /\ excused' \in Nat /\ left' <= excused'
    BY <2>2, <2>4
  <2>6. /\ box' = "none" /\ exit' = "none" /\ late' = FALSE /\ over' = FALSE
        /\ removal' = "off" /\ failed' = 0 /\ early' = FALSE
    BY <1>5 DEF R!Resolves, R!Blank
  <2>7. /\ VerdictsInv' /\ verdicts' \in Seq(R!Verdicts)
        /\ stage' \in {"asked", "answered"} /\ UNCHANGED good
    BY <2>1, <2>2, <2>3, OneMore
  <2>8. RunnerTypes'
    BY <2>5, <2>6, <2>7
  <2>9. ExecutionInv'
    BY <2>6, <2>7, SomeTries
  <2> QED BY <2>2, <2>5, <2>7, <2>8, <2>9
<1>6. CASE R!RemovalFails
  BY <1>6 DEF R!RemovalFails, R!GivesUpRemoval, VerdictsInv, Honest, R!Retried
<1>7. CASE R!RemovalWorks
  BY <1>7 DEF R!RemovalWorks, VerdictsInv, Honest, R!Retried
<1>8. CASE R!Outputs
  BY <1>8 DEF R!Outputs, R!Terminate, VerdictsInv, Honest, R!Retried
<1>9. CASE R!BoxAppears \/ R!BoxNeverAppears \/ R!BoxEnds
  <2>1. CASE R!BoxAppears
    BY <2>1 DEF R!BoxAppears, R!Docker, VerdictsInv, Honest, R!Retried
  <2>2. CASE R!BoxNeverAppears
    BY <2>2 DEF R!BoxNeverAppears, R!Docker, VerdictsInv, Honest, R!Retried
  <2>3. CASE R!BoxEnds
    BY <2>3 DEF R!BoxEnds, R!Docker, VerdictsInv, Honest, R!Retried
  <2> QED BY <1>9, <2>1, <2>2, <2>3
<1>10. CASE R!CliExits \/ R!CliStops \/ R!CliLoses
  <2>1. CASE R!CliExits
    BY <2>1 DEF R!CliExits, R!Docker, VerdictsInv, Honest, R!Retried
  <2>2. CASE R!CliStops
    BY <2>2 DEF R!CliStops, R!Docker, VerdictsInv, Honest, R!Retried
  <2>3. CASE R!CliLoses
    BY <2>3 DEF R!CliLoses, R!Docker, VerdictsInv, Honest, R!Retried
  <2> QED BY <1>10, <2>1, <2>2, <2>3
<1> QED BY <1>1, <1>2, <1>3, <1>4, <1>5, <1>6, <1>7, <1>8, <1>9, <1>10 DEF R!Acts, R!Happens

(* What is heard of a program that was run is true of it.                  *)
LEMMA HeardIsTrue ==
  ASSUME RunnerInv, stage = "answered"
  PROVE  /\ Answer \in {"passed", "failed", "broken"}
         /\ Answer = "passed" => good
         /\ Answer = "failed" => ~good
<1>1. Len(verdicts) \in 1..Len(verdicts)
  BY DEF RunnerInv, RunnerTypes, VerdictsInv
<1> QED BY <1>1 DEF RunnerInv, VerdictsInv, Honest, Answer, Heard

-----------------------------------------------------------------------------
(* The verifier.                                                           *)
LEMMA VInitInv == VInit => VInv
<1> SUFFICES ASSUME VInit PROVE VInv
  OBVIOUS
<1>1. VerifierInv
  BY DEF VInit, VerifierInv, Init, NoDraft, R!Init
<1> QED BY <1>1, InitInv, RunnerInit DEF VInit, VInv

LEMMA VerifierStep ==
  ASSUME VInv, Verifier
  PROVE  (Next \/ UNCHANGED vars) /\ RunnerInv' /\ VerifierInv'
<1> USE DEF VInv
<1>0. draft.sec.right \in BOOLEAN /\ draft.pub.starter \in {"todo", "whole"}
  BY DEF Inv, TypeOK, Draft, Public, Secure
<1>1. CASE RunsReference
  <2>1. RunnerInv' /\ good' = draft.sec.right /\ UNCHANGED <<vars, reference>>
        /\ phase = "verify" /\ subject = "none" /\ subject' = "reference"
    BY <1>0, <1>1, AskedFor DEF RunsReference
  <2> QED BY <2>1 DEF VerifierInv, vars
<1>2. CASE HearsReference
  <2>1. RunnerInv' /\ stage' = "idle" /\ stage = "answered" /\ subject = "reference"
    BY <1>2, TakenIdle DEF HearsReference
  <2>2. /\ Answer \in {"passed", "failed", "broken"}
        /\ Answer = "passed" => draft.sec.right
        /\ Answer = "failed" => ~draft.sec.right
    BY <2>1, HeardIsTrue DEF VerifierInv
  <2>3. CASE job = "assessment"
    <3>1. Finds(Answer, "failed") /\ subject' = "none" /\ UNCHANGED reference
      BY <1>2, <2>3 DEF HearsReference
    <3>2. \E r, s \in {"passed", "failed", "broken"} :
            /\ r = "passed" => draft.sec.right
            /\ r = "failed" => ~draft.sec.right
            /\ s = "passed" => draft.pub.starter = "whole"
            /\ s = "failed" => draft.pub.starter = "todo" \/ ~draft.sec.right
            /\ job = "assessment" => s = "failed"
            /\ Finds(r, s)
      <4>1. draft.pub.starter = "todo"
        BY <2>3 DEF VerifierInv
      <4> QED BY <2>2, <3>1, <4>1
    <3> QED BY <2>1, <2>3, <3>1, <3>2 DEF Next, CallStep, Verifies, VerifierInv, Finds
  <2>4. CASE job # "assessment"
    <3>1. subject' = "between" /\ reference' = Answer /\ UNCHANGED vars
      BY <1>2, <2>4 DEF HearsReference
    <3> QED BY <2>1, <2>2, <2>4, <3>1 DEF VerifierInv, vars
  <2> QED BY <2>3, <2>4
<1>3. CASE RunsStarter
  <2>1. PICK passes \in Passes(draft.pub.starter) : R!Asks("learner", passes)
    BY <1>3 DEF RunsStarter
  <2>2. passes \in BOOLEAN
    BY DEF Passes
  <2>3. RunnerInv' /\ good' = passes
    BY <2>1, <2>2, AskedFor
  <2>4. subject = "between" /\ subject' = "starter" /\ UNCHANGED <<vars, reference>>
    BY <1>3 DEF RunsStarter
  <2> QED BY <2>1, <2>3, <2>4 DEF VerifierInv, vars, Passes
<1>4. CASE HearsStarter
  <2>1. RunnerInv' /\ stage' = "idle" /\ stage = "answered" /\ subject = "starter"
        /\ Finds(reference, Answer) /\ subject' = "none" /\ reference' = "none"
    BY <1>4, TakenIdle DEF HearsStarter
  <2>2. Answer \in {"passed", "failed", "broken"} /\ (Answer = "passed" => good)
        /\ (Answer = "failed" => ~good)
    BY <2>1, HeardIsTrue
  <2>3. good \in Passes(draft.pub.starter)
    BY <2>1 DEF VerifierInv
  <2>4. /\ Answer = "passed" => draft.pub.starter = "whole"
        /\ Answer = "failed" => draft.pub.starter = "todo" \/ ~draft.sec.right
    BY <1>0, <2>2, <2>3 DEF Passes
  <2>5. /\ job # "assessment" /\ reference \in {"passed", "failed", "broken"}
        /\ reference = "passed" => draft.sec.right
        /\ reference = "failed" => ~draft.sec.right
    BY <2>1 DEF VerifierInv
  <2>6. Verifies
    BY <2>1, <2>2, <2>4, <2>5 DEF Verifies
  <2> QED BY <2>1, <2>6 DEF Next, CallStep, VerifierInv, Finds
<1> QED BY <1>1, <1>2, <1>3, <1>4 DEF Verifier

(* While a pair is verified its author does nothing.                       *)
LEMMA AuthorStep ==
  ASSUME VInv, Author
  PROVE  Next /\ RunnerInv' /\ VerifierInv'
<1>1. Next /\ UNCHANGED <<runnerVars, verifierVars>> /\ VerifierInv /\ Inv /\ RunnerInv
  BY DEF Author, Next, CallStep, VInv
<1>2. RunnerInv'
  BY <1>1 DEF runnerVars, RunnerInv, RunnerTypes, ExecutionInv, VerdictsInv, Honest, R!Retried
<1>3. phase # "verify"
  <2>1. CASE Incompatible \/ Starts \/ Merges \/ Repairs \/ GivesUp \/ Finalizes
    BY <2>1 DEF Incompatible, Starts, Merges, Repairs, GivesUp, Finalizes
  <2>2. ASSUME NEW t \in Thread, ThreadStep(t) PROVE phase # "verify"
    <3>1. job = "concept" => phase # "verify"
      BY <1>1 DEF VerifierInv
    <3> QED BY <1>1, <2>2, <3>1, PairStep
  <2> QED BY <2>1, <2>2 DEF Author
<1>4. job' = job /\ (job = "concept" => phase' \in {"start", "draft", "ended"})
  <2>1. job = "concept" => phase \in {"start", "draft", "ended"}
    BY <1>1 DEF VerifierInv
  <2>2. CASE Incompatible \/ Starts \/ Merges \/ Repairs \/ GivesUp \/ Finalizes
    BY <2>1, <2>2 DEF Incompatible, Starts, Merges, Repairs, GivesUp, Finalizes
  <2>3. ASSUME NEW t \in Thread, ThreadStep(t)
        PROVE  job' = job /\ (job = "concept" => phase' \in {"start", "draft", "ended"})
    <3>1. job = "concept" => at[t] \notin {"safety", "starter"}
      BY <1>1 DEF Inv, ThreadsInv
    <3> QED BY <2>1, <2>3, <3>1 DEF ThreadStep, TransportFails, ServerRefuses, Garbled, WritesPart,
           WritesAll, WritesPublic, WritesSecure, WritesItems, WritesAnswers, MakesSafe,
           MendsStarter, MendsReference, MendsAnswers, AgainOr, EndsWith, Refused, WritesHalf
  <2> QED BY <2>2, <2>3 DEF Author
<1>5. job = "assessment" =>
        draft'.pub.starter = "todo" /\ \A t \in Thread : at'[t] \notin {"safety", "starter"}
  <2> SUFFICES ASSUME job = "assessment"
               PROVE  draft'.pub.starter = "todo" /\ \A t \in Thread : at'[t] \notin {"safety", "starter"}
    OBVIOUS
  <2>0. /\ draft.pub.starter = "todo" /\ \A t \in Thread : at[t] \notin {"safety", "starter"}
        /\ at \in [Thread -> Stage] /\ 1 \in Thread
    BY <1>1, WorkersOfLesson DEF VerifierInv, Inv, TypeOK
  <2>1. CASE Incompatible \/ Merges \/ GivesUp \/ Finalizes
    BY <2>0, <2>1 DEF Incompatible, Merges, GivesUp, Finalizes
  <2>2. CASE Starts
    BY <2>0, <2>2 DEF Starts, FirstStage
  <2>3. CASE Repairs
    BY <2>0, <2>3 DEF Repairs, RepairsStarter, Enters, Renormalised
  <2>4. ASSUME NEW t \in Thread, ThreadStep(t)
        PROVE  draft'.pub.starter = "todo" /\ \A u \in Thread : at'[u] \notin {"safety", "starter"}
    <3>1. CASE TransportFails(t) \/ ServerRefuses(t) \/ \E cut \in BOOLEAN : Garbled(t, cut)
      BY <2>0, <3>1 DEF TransportFails, ServerRefuses, Garbled, AgainOr, Stops
    <3>2. CASE WritesPart(t)
      BY <2>0, <3>2 DEF WritesPart, AgainOr, Stops, Enters
    <3>3. CASE WritesAll(t)
      BY <2>0, <3>3 DEF WritesAll, AgainOr, Stops
    <3>4. CASE WritesItems(t)
      BY <2>0, <3>4 DEF WritesItems, Refused, WritesHalf, ItemsOf, PublicOf, AgainOr, Stops, Enters
    <3>5. CASE WritesAnswers(t) \/ MendsAnswers(t)
      BY <2>0, <3>5 DEF WritesAnswers, MendsAnswers, Refused, Paired, AgainOr, Stops
    <3> QED BY <2>0, <2>4, <3>1, <3>2, <3>3, <3>4, <3>5 DEF ThreadStep, WritesPublic, WritesSecure,
           MakesSafe, MendsStarter, MendsReference
  <2> QED BY <2>1, <2>2, <2>3, <2>4 DEF Author
<1>6. Thread' = Thread /\ UNCHANGED <<runnerVars, verifierVars>> /\ subject = "none"
  BY <1>1, <1>3 DEF Thread, VerifierInv
<1>7. VerifierInv'
  BY <1>1, <1>4, <1>5, <1>6 DEF VerifierInv, runnerVars, verifierVars
<1> QED BY <1>1, <1>2, <1>7

LEMMA VStep ==
  ASSUME VInv, [VNext]_verifiedVars
  PROVE  [Next]_vars /\ RunnerInv' /\ VerifierInv'
<1>1. CASE Author
  BY <1>1, AuthorStep
<1>2. CASE Verifier
  BY <1>2, VerifierStep
<1>3. CASE RunnerActs \/ DockerActs
  <2>1. (R!Acts \/ R!Happens) /\ UNCHANGED <<vars, verifierVars>>
    BY <1>3 DEF RunnerActs, DockerActs
  <2>2. RunnerInv' /\ good' = good /\ (stage' = "idle" <=> stage = "idle")
    BY <2>1, RunnerStep DEF VInv
  <2>3. VerifierInv'
    BY <2>1, <2>2 DEF VInv, VerifierInv, vars, verifierVars, Passes
  <2> QED BY <2>1, <2>2, <2>3
<1>4. CASE UNCHANGED verifiedVars
  <2> USE <1>4 DEF verifiedVars, runnerVars, verifierVars, vars, VInv
  <2>1. RunnerTypes' /\ ExecutionInv' /\ left' <= excused'
    BY DEF RunnerInv, RunnerTypes, ExecutionInv
  <2>2. VerdictsInv'
    BY DEF RunnerInv, VerdictsInv, Honest, R!Retried
  <2>3. VerifierInv'
    BY DEF VerifierInv, Passes
  <2> QED BY <2>1, <2>2, <2>3 DEF RunnerInv
<1> QED BY <1>1, <1>2, <1>3, <1>4 DEF VNext

THEOREM VInvariance == VSpec => []VInv
<1>1. VInv /\ [VNext]_verifiedVars => VInv'
  BY VStep, NextInv DEF VInv
<1> QED BY <1>1, VInitInv, PTL DEF VSpec

(* The verifier finds only what DraftAuthoring allows it to find: whatever *)
(* timers, outputs, exits and removals do, every behaviour of the call with *)
(* its containers is one of DraftAuthoring.                                *)
THEOREM VerifierImplements == VSpec => ImplementsAuthoring
<1>1. VInit => Init
  BY DEF VInit
<1>2. VInv /\ [VNext]_verifiedVars => [Next]_vars
  BY VStep
<1> QED BY <1>1, <1>2, VInvariance, PTL DEF VSpec, ImplementsAuthoring, Spec

(* Hence only an approved pair is published, also with real executions.    *)
THEOREM ExecutedIsPublished == VSpec => []PublishedAsVerified
BY VerifierImplements, VerifiedIsPublished, PTL DEF ImplementsAuthoring

(* RunnerKeepsItsWord, for every output limit and number of repetitions.   *)
THEOREM WordIsKept == VSpec => []RunnerKeepsItsWord
<1>1. VInv => RunnerKeepsItsWord
  <2> SUFFICES ASSUME RunnerInv PROVE RunnerKeepsItsWord
    BY DEF VInv
  <2>1. R!PassIsEarned
    BY DEF RunnerInv, RunnerTypes, ExecutionInv, R!PassIsEarned, R!Verdict, R!Verdict_ByExit, R!Judged
  <2>2. R!VerdictIsFinal
    <3> SUFFICES ASSUME NEW i \in 1..Len(verdicts), NEW j \in (i + 1)..Len(verdicts)
                 PROVE  verdicts[i] \in R!Retried
      BY DEF R!VerdictIsFinal, R!Retried
    <3>1. Len(verdicts) \in Nat
      BY DEF RunnerInv, RunnerTypes
    <3> QED BY <3>1 DEF RunnerInv, VerdictsInv
  <2>3. R!LeftForCause
    BY DEF RunnerInv, R!LeftForCause
  <2> QED BY <2>1, <2>2, <2>3 DEF RunnerKeepsItsWord
<1> QED BY <1>1, VInvariance, PTL

-----------------------------------------------------------------------------
(* ContentPipeline.                                                         *)
USE PipelineAssumption

Ids == Flight \X {1, 2}
Concepts == [by : Flight, rev : {1, 2}, teaches : BOOLEAN]
Labs == [by : Flight, rev : {1, 2}, of : Ids, practises : BOOLEAN]
Assessments == [by : Flight, rev : {1, 2}, of : Ids \X Ids, measures : BOOLEAN]

Generating == {"load", "concept", "saveConcept", "lab", "assessment", "saveBranches", "validate"}
Complete == {"saveBranches", "validate", "revise", "revalidate", "put"}
Ending == {"trace", "cache", "clean", "return"}
Places == {"none", "begin", "done", "stopped"} \cup Generating \cup Complete \cup Ending

Execution ==
  [at : Places, dep : Deps \cup {Nothing}, state : State, concept : Concepts \cup {Nothing},
   lab : Labs \cup {Nothing}, assessment : Assessments \cup {Nothing}, pair : Flight \cup {Nothing},
   kept : BOOLEAN, start : Nat]

(* The state machine never refuses a step of the pipeline.                 *)
StateFits(place, state) ==
  /\ place \in {"none", "begin", "done", "stopped"} => state = "PLANNED"
  /\ place \in Generating => state = "GENERATING"
  /\ place \in {"revise", "revalidate"} => state = "REVISING"
  /\ place = "put" => state = "VALIDATING"
  /\ place \in {"trace", "return"} => state \in {"READY", "BLOCKED", "FAILED"}
  /\ place \in {"cache", "clean"} => state = "READY"

OfOnePiece(m) == m.concept \in Concepts /\ m.lab \in Labs /\ m.assessment \in Assessments /\ Fits(m)

LEMMA NothingOutside == Nothing \notin Flight /\ Nothing \notin Concepts
<1>1. \A x \in Concepts : x \in Concept(x.by, x.rev) /\ x.by \in Flight /\ x.rev \in {1, 2}
  BY DEF Concepts, Concept
<1> QED BY <1>1, NothingAssumption

(* What is written place each place was written from what is there.           *)
PartsFit(place, state, m) ==
  /\ m.lab # Nothing => m.concept # Nothing
  /\ place \in {"none", "begin", "load", "concept", "saveConcept"} => m.lab = Nothing
  /\ place \in {"saveConcept", "lab", "assessment"} => m.concept \in Concepts
  /\ place = "assessment" => m.lab \in Labs /\ m.lab.of = Id(m.concept)
  /\ place \in Complete => OfOnePiece(m)
  /\ place = "put" \/ state = "READY" => OfOnePiece(m) /\ Objections(m) = {}

FlightInv(f) ==
  /\ StateFits(flights[f].at, flights[f].state)
  /\ PartsFit(flights[f].at, flights[f].state, flights[f])
  /\ flights[f].state = "READY" => flights[f].pair = f /\ f \in store

Fine(r) == r.fits /\ r.objections = {}

CheckpointInv ==
  checkpoint # Nothing =>
    /\ checkpoint.concept \in Concepts /\ checkpoint.lab \in Labs \cup {Nothing}
    /\ checkpoint.assessment \in Assessments \cup {Nothing}
    /\ checkpoint.lab = Nothing \/ OfOnePiece(checkpoint)

PipelineInv ==
  /\ pc \in [Callers -> {"idle", "cache", "check", "waits", "answered"}]
  /\ dep \in [Callers -> Deps \cup {Nothing}]
  /\ DOMAIN got = Callers /\ DOMAIN answer = Callers
  /\ flights \in [Flight -> Execution]
  /\ store \subseteq Flight /\ faults \in Nat /\ traced \in Nat
  /\ \A f \in Flight : FlightInv(f)
  /\ \A c \in Callers : got[c] # Nothing => Fine(got[c])
  /\ cache # Nothing => Fine(cache)
  /\ CheckpointInv /\ Coherent /\ NothingLeftBehind

-----------------------------------------------------------------------------
(* The fields of an execution that moves.                                  *)
Becomes(f, made, state, place) ==
  /\ flights' \in [Flight -> Execution]
  /\ \A g \in Flight : g # f => flights'[g] = flights[g]
  /\ flights'[f].at = place /\ flights'[f].dep = made.dep /\ flights'[f].state = state
  /\ flights'[f].concept = made.concept /\ flights'[f].lab = made.lab
  /\ flights'[f].assessment = made.assessment
  /\ flights'[f].pair = made.pair /\ flights'[f].kept = made.kept
  /\ flights'[f].start = made.start

LEMMA StaysFields ==
  ASSUME flights \in [Flight -> Execution], NEW f \in Flight,
         NEW made \in Execution, NEW place \in Places, Stays(f, made, place)
  PROVE  Becomes(f, made, made.state, place)
<1> DEFINE m == [made EXCEPT !.at = place]
<1>1. made.state # "illegal"
  BY DEF Execution, State
<1>2. flights' = [flights EXCEPT ![f] = m]
  BY <1>1 DEF Stays
<1>3. m \in Execution /\ m.at = place /\ m.dep = made.dep /\ m.state = made.state
      /\ m.concept = made.concept /\ m.lab = made.lab /\ m.assessment = made.assessment
      /\ m.pair = made.pair /\ m.kept = made.kept /\ m.start = made.start
  BY DEF Execution
<1> HIDE DEF m
<1>4. flights'[f] = m
  BY <1>2
<1> QED BY <1>2, <1>3, <1>4 DEF Becomes

LEMMA GoesFields ==
  ASSUME flights \in [Flight -> Execution], NEW f \in Flight,
         NEW made \in Execution, NEW place \in Places, NEW state \in Allowed(made.state),
         Goes(f, made, state, place)
  PROVE  Becomes(f, made, state, place)
<1> DEFINE m == [made EXCEPT !.state = state]
<1>1. state \in State
  BY DEF Allowed, State
<1>2. Moved(made.state, state) = state
  BY DEF Moved
<1>3. m \in Execution /\ m.dep = made.dep /\ m.state = state
      /\ m.concept = made.concept /\ m.lab = made.lab /\ m.assessment = made.assessment
      /\ m.pair = made.pair /\ m.kept = made.kept /\ m.start = made.start
  BY <1>1 DEF Execution
<1>4. Stays(f, m, place)
  BY <1>2 DEF Goes
<1> HIDE DEF m
<1>5. Becomes(f, m, state, place)
  BY <1>3, <1>4, StaysFields
<1> QED BY <1>3, <1>5 DEF Becomes

LEMMA Written ==
  ASSUME NEW f \in Flight, NEW rev \in {1, 2}
  PROVE  /\ \A x \in Concept(f, rev) : x \in Concepts
         /\ \A x \in Concepts : Id(x) \in Ids
         /\ \A x \in Concepts : \A y \in Lab(f, rev, x) : y \in Labs /\ y.of = Id(x)
         /\ \A y \in Labs : Id(y) \in Ids
         /\ \A x \in Concepts, y \in Labs : \A z \in Assessment(f, rev, x, y) :
              z \in Assessments /\ z.of = <<Id(x), Id(y)>>
<1>1. \A x \in Concept(f, rev) : x \in Concepts
  BY DEF Concept, Concepts
<1>2. \A x \in Concepts : Id(x) \in Ids
  BY DEF Concepts, Id, Ids
<1>3. \A y \in Labs : Id(y) \in Ids
  BY DEF Labs, Id, Ids
<1>4. ASSUME NEW x \in Concepts, NEW y \in Lab(f, rev, x) PROVE y \in Labs /\ y.of = Id(x)
  BY <1>2 DEF Lab, Labs
<1>5. ASSUME NEW x \in Concepts, NEW y \in Labs, NEW z \in Assessment(f, rev, x, y)
      PROVE  z \in Assessments /\ z.of = <<Id(x), Id(y)>>
  BY <1>2, <1>3 DEF Assessment, Assessments
<1> QED BY <1>1, <1>2, <1>3, <1>4, <1>5

-----------------------------------------------------------------------------
(* The steps of an execution, as far as its own fields are concerned.      *)
Counts(f, start) ==
  start = flights[f].start \/ (flights[f].at = "begin" /\ start \in {1, traced + 1})

Advances(f) ==
  /\ flights'[f].at \notin {"none", "begin"} /\ Counts(f, flights'[f].start)
  /\ flights' \in [Flight -> Execution]
  /\ \A g \in Flight : g # f => flights'[g] = flights[g]
  /\ StateFits(flights'[f].at, flights'[f].state)
  /\ PartsFit(flights'[f].at, flights'[f].state, flights'[f])
  /\ flights'[f].pair \in {flights[f].pair, f} /\ (flights[f].kept => flights'[f].kept)
  /\ flights'[f].state = "READY" =>
       flights'[f].pair = f /\ (flights[f].state = "READY" \/ flights[f].at = "put")

(* Whether the parts belong together is seen from the parts.               *)
LEMMA SameParts ==
  ASSUME NEW m, NEW n, m.concept = n.concept, m.lab = n.lab, m.assessment = n.assessment
  PROVE  /\ OfOnePiece(m) => OfOnePiece(n)
         /\ Objections(m) = Objections(n)
         /\ Fits(m) <=> Fits(n)
<1>1. OfOnePiece(m) => OfOnePiece(n)
  BY DEF OfOnePiece, Fits
<1>2. Objections(m) = Objections(n)
  BY DEF Objections
<1>3. Fits(m) <=> Fits(n)
  BY DEF Fits
<1> QED BY <1>1, <1>2, <1>3

(* An execution that goes to a place where its state and its parts fit.     *)
LEMMA Lands ==
  ASSUME NEW f \in Flight, NEW made, NEW state, NEW place, Becomes(f, made, state, place),
         made.pair \in {flights[f].pair, f}, flights[f].kept => made.kept,
         state = "READY" => made.pair = f /\ (flights[f].state = "READY" \/ flights[f].at = "put"),
         Counts(f, made.start),
         place \notin {"none", "begin"}, StateFits(place, state), PartsFit(place, state, made)
  PROVE  Advances(f)
<1>1. PartsFit(place, state, flights'[f])
  <2>1. /\ flights'[f].concept = made.concept /\ flights'[f].lab = made.lab
        /\ flights'[f].assessment = made.assessment
    BY DEF Becomes
  <2>2. /\ OfOnePiece(made) => OfOnePiece(flights'[f])
        /\ Objections(made) = Objections(flights'[f])
    BY <2>1, SameParts
  <2> QED BY <2>1, <2>2 DEF PartsFit
<1>2. /\ flights'[f].at = place /\ flights'[f].state = state /\ flights'[f].pair = made.pair
      /\ flights'[f].kept = made.kept /\ flights'[f].start = made.start
  BY DEF Becomes
<1>3. flights' \in [Flight -> Execution] /\ \A g \in Flight : g # f => flights'[g] = flights[g]
  BY DEF Becomes
<1> QED BY <1>1, <1>2, <1>3 DEF Advances

(* What is there place a place.                                               *)
LEMMA Typed ==
  ASSUME PipelineInv, NEW f \in Flight
  PROVE  /\ flights[f] \in Execution /\ flights[f].at \in Places
         /\ flights[f].state \in State /\ flights[f].concept \in Concepts \cup {Nothing}
         /\ flights[f].lab \in Labs \cup {Nothing}
         /\ flights[f].assessment \in Assessments \cup {Nothing}
         /\ flights[f].state = "READY" => flights[f].pair = f
BY DEF PipelineInv, Execution, FlightInv

LEMMA AtPlace ==
  ASSUME PipelineInv, NEW f \in Flight
  PROVE  /\ StateFits(flights[f].at, flights[f].state)
         /\ PartsFit(flights[f].at, flights[f].state, flights[f])
BY DEF PipelineInv, FlightInv

LEMMA StaysAdvances ==
  ASSUME PipelineInv, NEW f \in Flight, NEW made \in Execution, NEW place \in Places, Stays(f, made, place),
         made.pair = flights[f].pair, made.kept = flights[f].kept, made.state = flights[f].state,
         made.start = flights[f].start,
         place \notin {"none", "begin"}, StateFits(place, made.state), PartsFit(place, made.state, made)
  PROVE  Advances(f)
<1>1. Becomes(f, made, made.state, place)
  BY StaysFields DEF PipelineInv
<1> QED BY <1>1, Typed, Lands DEF Counts

LEMMA GoesAdvances ==
  ASSUME PipelineInv, NEW f \in Flight, NEW made \in Execution, NEW place \in Places,
         NEW state \in Allowed(made.state), Goes(f, made, state, place),
         made.pair \in {flights[f].pair, f}, flights[f].kept => made.kept,
         state = "READY" => made.pair = f /\ (flights[f].state = "READY" \/ flights[f].at = "put"),
         Counts(f, made.start),
         place \notin {"none", "begin"}, StateFits(place, state), PartsFit(place, state, made)
  PROVE  Advances(f)
<1>1. Becomes(f, made, state, place)
  BY GoesFields DEF PipelineInv
<1> QED BY <1>1, Lands

LEMMA BeginsAdvances ==
  ASSUME PipelineInv, NEW f \in Flight, Begins(f)
  PROVE  Advances(f)
<1>1. PICK start \in {1, traced + 1} :
        LET made == [flights[f] EXCEPT !.start = start]
        IN  \/ Goes(f, made, "BLOCKED", "trace") \/ Goes(f, made, "FAILED", "trace")
            \/ Goes(f, made, "GENERATING", "load")
  BY DEF Begins
<1> DEFINE made == [flights[f] EXCEPT !.start = start]
<1>0. flights[f].at = "begin"
  BY DEF Begins, Step
<1>2. /\ made \in Execution /\ made.state = flights[f].state /\ made.pair = flights[f].pair
      /\ made.kept = flights[f].kept /\ made.start = start
      /\ made.concept = flights[f].concept /\ made.lab = flights[f].lab
      /\ made.assessment = flights[f].assessment
  BY Typed DEF PipelineInv, Execution
<1>3. made.state = "PLANNED" /\ made.lab = Nothing
  BY <1>0, <1>2, AtPlace DEF StateFits, PartsFit
<1>4. \/ Goes(f, made, "BLOCKED", "trace") \/ Goes(f, made, "FAILED", "trace")
      \/ Goes(f, made, "GENERATING", "load")
  BY <1>1
<1> HIDE DEF made
<1>5. {"trace", "load"} \subseteq Places
  BY DEF Places, Ending, Generating
<1>6. /\ "BLOCKED" \in Allowed(made.state) /\ "FAILED" \in Allowed(made.state)
      /\ "GENERATING" \in Allowed(made.state)
  BY <1>3 DEF Allowed
<1>7. /\ StateFits("trace", "BLOCKED") /\ PartsFit("trace", "BLOCKED", made)
      /\ StateFits("trace", "FAILED") /\ PartsFit("trace", "FAILED", made)
      /\ StateFits("load", "GENERATING") /\ PartsFit("load", "GENERATING", made)
  BY <1>3 DEF StateFits, PartsFit, Generating, Complete
<1> QED BY <1>0, <1>2, <1>4, <1>5, <1>6, <1>7, GoesAdvances DEF Counts

LEMMA AgentFailsAdvances ==
  ASSUME PipelineInv, NEW f \in Flight, AgentFails(f), flights[f].at \in Generating \cup {"revise"}
  PROVE  Advances(f)
<1>1. PICK state \in {"FAILED", "BLOCKED"} : Goes(f, flights[f], state, "trace")
  BY DEF AgentFails
<1>2. state \in Allowed(flights[f].state)
  BY AtPlace DEF StateFits, Allowed, Generating
<1>3. StateFits("trace", state) /\ PartsFit("trace", state, flights[f]) /\ "trace" \in Places
  BY AtPlace DEF StateFits, PartsFit, Generating, Complete, Ending, Places
<1> QED BY <1>1, <1>2, <1>3, Typed, GoesAdvances DEF Counts

(* An execution with other parts.                                          *)
LEMMA NewPart ==
  ASSUME NEW m \in Execution
  PROVE  /\ \A x \in Concepts : LET n == [m EXCEPT !.concept = x] IN
              /\ n \in Execution /\ n.state = m.state /\ n.pair = m.pair /\ n.kept = m.kept
              /\ n.start = m.start
              /\ n.concept = x /\ n.lab = m.lab /\ n.assessment = m.assessment
         /\ \A y \in Labs : LET n == [m EXCEPT !.lab = y] IN
              /\ n \in Execution /\ n.state = m.state /\ n.pair = m.pair /\ n.kept = m.kept
              /\ n.start = m.start
              /\ n.concept = m.concept /\ n.lab = y /\ n.assessment = m.assessment
         /\ \A z \in Assessments : LET n == [m EXCEPT !.assessment = z] IN
              /\ n \in Execution /\ n.state = m.state /\ n.pair = m.pair /\ n.kept = m.kept
              /\ n.start = m.start
              /\ n.concept = m.concept /\ n.lab = m.lab /\ n.assessment = z
BY DEF Execution

LEMMA LoadAdvances ==
  ASSUME PipelineInv, NEW f \in Flight, LoadsCheckpoint(f)
  PROVE  Advances(f)
<1>0. flights[f].at = "load"
  BY DEF LoadsCheckpoint, Step
<1>1. /\ flights[f].state = "GENERATING" /\ flights[f].lab = Nothing
      /\ {"concept", "lab", "validate"} \subseteq Places
  BY <1>0, AtPlace DEF StateFits, PartsFit, Generating, Places
<1>2. CASE Stays(f, flights[f], "concept")
  <2>1. StateFits("concept", flights[f].state) /\ PartsFit("concept", flights[f].state, flights[f])
    BY <1>0, <1>1, AtPlace DEF StateFits, PartsFit, Generating, Complete
  <2> QED BY <1>1, <1>2, <2>1, Typed, StaysAdvances
<1>3. CASE checkpoint # Nothing /\ ~Stays(f, flights[f], "concept")
  <2>1. PICK x \in Concepts, y \in Labs \cup {Nothing}, z \in Assessments \cup {Nothing} :
          /\ x = checkpoint.concept /\ y = checkpoint.lab /\ z = checkpoint.assessment
          /\ y = Nothing \/ OfOnePiece(checkpoint)
    BY <1>3 DEF PipelineInv, CheckpointInv
  <2>2. PICK place \in {"lab", "validate"} :
          /\ Stays(f, [flights[f] EXCEPT !.concept = x, !.lab = y, !.assessment = z], place)
          /\ place = "validate" => y # Nothing
    BY <1>3, <2>1 DEF LoadsCheckpoint
  <2>3. PICK made : made = [flights[f] EXCEPT !.concept = x, !.lab = y, !.assessment = z]
    OBVIOUS
  <2>4. /\ made \in Execution /\ made.state = flights[f].state /\ made.pair = flights[f].pair
        /\ made.kept = flights[f].kept /\ made.start = flights[f].start
        /\ made.concept = x /\ made.lab = y /\ made.assessment = z
    <3>1. flights[f] \in Execution
      BY Typed
    <3> QED BY <2>3, <3>1 DEF Execution
  <2>5. place = "validate" => OfOnePiece(made)
    BY <2>1, <2>2, <2>4, SameParts
  <2>6. StateFits(place, made.state) /\ PartsFit(place, made.state, made)
    BY <1>1, <2>2, <2>4, <2>5, NothingOutside DEF StateFits, PartsFit, Generating, Complete
  <2>7. Stays(f, made, place) /\ place \in Places
    BY <1>1, <2>2, <2>3
  <2> QED BY <2>4, <2>6, <2>7, StaysAdvances
<1> QED BY <1>2, <1>3 DEF LoadsCheckpoint

LEMMA WriteAdvances ==
  ASSUME PipelineInv, NEW f \in Flight,
         WritesConcept(f) \/ WritesLab(f) \/ WritesAssessment(f)
  PROVE  Advances(f)
<1>0. {"saveConcept", "assessment", "saveBranches"} \subseteq Places
  BY DEF Places, Generating
<1>1. CASE AgentFails(f)
  BY <1>1, AgentFailsAdvances DEF WritesConcept, WritesLab, WritesAssessment, Step, Generating
<1>2. CASE WritesConcept(f) /\ ~AgentFails(f)
  <2>0. flights[f].at = "concept"
    BY <1>2 DEF WritesConcept, Step
  <2>1. PICK x \in Concept(f, 1) : Stays(f, [flights[f] EXCEPT !.concept = x], "saveConcept")
    BY <1>2 DEF WritesConcept
  <2>2. x \in Concepts
    BY Written
  <2>3. PICK made : made = [flights[f] EXCEPT !.concept = x]
    OBVIOUS
  <2>4. /\ made \in Execution /\ made.state = flights[f].state /\ made.pair = flights[f].pair
        /\ made.kept = flights[f].kept /\ made.start = flights[f].start
        /\ made.concept = x /\ made.lab = flights[f].lab
    <3>1. flights[f] \in Execution
      BY Typed
    <3> QED BY <2>2, <2>3, <3>1, NewPart
  <2>5. flights[f].state = "GENERATING" /\ flights[f].lab = Nothing
    BY <2>0, AtPlace DEF StateFits, PartsFit, Generating
  <2>6. StateFits("saveConcept", made.state) /\ PartsFit("saveConcept", made.state, made)
    BY <2>2, <2>4, <2>5 DEF StateFits, PartsFit, Generating, Complete
  <2> QED BY <1>0, <2>1, <2>3, <2>4, <2>6, StaysAdvances
<1>3. CASE WritesLab(f) /\ ~AgentFails(f)
  <2>0. flights[f].at = "lab"
    BY <1>3 DEF WritesLab, Step
  <2>1. PICK y \in Lab(f, 1, flights[f].concept) :
          Stays(f, [flights[f] EXCEPT !.lab = y], "assessment")
    BY <1>3 DEF WritesLab
  <2>2. flights[f].state = "GENERATING" /\ flights[f].concept \in Concepts
    BY <2>0, AtPlace DEF StateFits, PartsFit, Generating
  <2>3. y \in Labs /\ y.of = Id(flights[f].concept)
    BY <2>2, Written
  <2>4. PICK made : made = [flights[f] EXCEPT !.lab = y]
    OBVIOUS
  <2>5. /\ made \in Execution /\ made.state = flights[f].state /\ made.pair = flights[f].pair
        /\ made.kept = flights[f].kept /\ made.start = flights[f].start
        /\ made.concept = flights[f].concept /\ made.lab = y
    <3>1. flights[f] \in Execution
      BY Typed
    <3> QED BY <2>3, <2>4, <3>1, NewPart
  <2>6. StateFits("assessment", made.state) /\ PartsFit("assessment", made.state, made)
    BY <2>2, <2>3, <2>5, NothingOutside DEF StateFits, PartsFit, Generating, Complete
  <2> QED BY <1>0, <2>1, <2>4, <2>5, <2>6, StaysAdvances
<1>4. CASE WritesAssessment(f) /\ ~AgentFails(f)
  <2>0. flights[f].at = "assessment"
    BY <1>4 DEF WritesAssessment, Step
  <2>1. PICK z \in Assessment(f, 1, flights[f].concept, flights[f].lab) :
          Stays(f, [flights[f] EXCEPT !.assessment = z], "saveBranches")
    BY <1>4 DEF WritesAssessment
  <2>2. /\ flights[f].state = "GENERATING" /\ flights[f].concept \in Concepts
        /\ flights[f].lab \in Labs /\ flights[f].lab.of = Id(flights[f].concept)
    BY <2>0, AtPlace DEF StateFits, PartsFit, Generating
  <2>3. z \in Assessments /\ z.of = <<Id(flights[f].concept), Id(flights[f].lab)>>
    BY <2>2, Written
  <2>4. PICK made : made = [flights[f] EXCEPT !.assessment = z]
    OBVIOUS
  <2>5. /\ made \in Execution /\ made.state = flights[f].state /\ made.pair = flights[f].pair
        /\ made.kept = flights[f].kept /\ made.start = flights[f].start
        /\ made.concept = flights[f].concept /\ made.lab = flights[f].lab
        /\ made.assessment = z
    <3>1. flights[f] \in Execution
      BY Typed
    <3> QED BY <2>3, <2>4, <3>1, NewPart
  <2>6. OfOnePiece(made)
    BY <2>2, <2>3, <2>5 DEF OfOnePiece, Fits
  <2>7. StateFits("saveBranches", made.state) /\ PartsFit("saveBranches", made.state, made)
    BY <2>2, <2>5, <2>6, NothingOutside DEF StateFits, PartsFit, Generating, Complete
  <2> QED BY <1>0, <2>1, <2>4, <2>5, <2>7, StaysAdvances
<1> QED BY <1>1, <1>2, <1>3, <1>4

LEMMA SaveAdvances ==
  ASSUME PipelineInv, NEW f \in Flight, SavesConcept(f) \/ SavesBranches(f)
  PROVE  Advances(f)
<1>1. CASE SavesConcept(f)
  <2>1. flights[f].at = "saveConcept" /\ Stays(f, flights[f], "lab") /\ "lab" \in Places
    BY <1>1 DEF SavesConcept, Step, Places, Generating
  <2>2. StateFits("lab", flights[f].state) /\ PartsFit("lab", flights[f].state, flights[f])
    BY <2>1, AtPlace DEF StateFits, PartsFit, Generating, Complete
  <2> QED BY <2>1, <2>2, Typed, StaysAdvances
<1>2. CASE SavesBranches(f)
  <2>1. flights[f].at = "saveBranches" /\ Stays(f, flights[f], "validate") /\ "validate" \in Places
    BY <1>2 DEF SavesBranches, Step, Places, Generating
  <2>2. StateFits("validate", flights[f].state) /\ PartsFit("validate", flights[f].state, flights[f])
    BY <2>1, AtPlace DEF StateFits, PartsFit, Generating, Complete
  <2> QED BY <2>1, <2>2, Typed, StaysAdvances
<1> QED BY <1>1, <1>2

(* VALIDATING is entered, and the execution goes on from there.            *)
LEMMA Validating ==
  ASSUME PipelineInv, NEW f \in Flight, flights[f].state \in {"GENERATING", "REVISING"}
  PROVE  LET v == [flights[f] EXCEPT !.state = Moved(@, "VALIDATING")]
         IN  /\ v \in Execution /\ v.state = "VALIDATING" /\ v.pair = flights[f].pair
             /\ v.kept = flights[f].kept /\ v.start = flights[f].start
             /\ v.concept = flights[f].concept /\ v.lab = flights[f].lab
             /\ v.assessment = flights[f].assessment
<1>1. Moved(flights[f].state, "VALIDATING") = "VALIDATING"
  BY DEF Moved, Allowed
<1>2. flights[f] \in Execution
  BY Typed
<1> QED BY <1>1, <1>2 DEF Execution, State

LEMMA ValidateAdvances ==
  ASSUME PipelineInv, NEW f \in Flight, Validates(f) \/ ValidatesAgain(f)
  PROVE  Advances(f)
<1>0. flights[f].at \in {"validate", "revalidate"}
  BY DEF Validates, ValidatesAgain, Step
<1>1. /\ flights[f].state \in {"GENERATING", "REVISING"} /\ OfOnePiece(flights[f])
      /\ {"put", "revise", "trace"} \subseteq Places
  BY <1>0, AtPlace DEF StateFits, PartsFit, Generating, Complete, Places, Ending
<1>2. PICK v : v = [flights[f] EXCEPT !.state = Moved(@, "VALIDATING")]
  OBVIOUS
<1>3. /\ v \in Execution /\ v.state = "VALIDATING" /\ v.pair = flights[f].pair
      /\ v.kept = flights[f].kept /\ v.start = flights[f].start
      /\ v.concept = flights[f].concept /\ v.lab = flights[f].lab
      /\ v.assessment = flights[f].assessment
  BY <1>1, <1>2, Validating
<1>4. OfOnePiece(v) /\ Objections(v) = Objections(flights[f])
  BY <1>1, <1>3, SameParts
<1>5. \/ Objections(flights[f]) = {} /\ Stays(f, v, "put")
      \/ Goes(f, v, "REVISING", "revise")
      \/ Goes(f, v, "BLOCKED", "trace")
  BY <1>2 DEF Validates, ValidatesAgain, Revalidated
<1>6. CASE Objections(flights[f]) = {} /\ Stays(f, v, "put")
  <2>1. Becomes(f, v, "VALIDATING", "put")
    BY <1>1, <1>3, <1>6, StaysFields DEF PipelineInv
  <2>2. StateFits("put", "VALIDATING") /\ PartsFit("put", "VALIDATING", v)
    BY <1>4, <1>6, NothingOutside DEF StateFits, PartsFit, Generating, Complete, OfOnePiece
  <2> QED BY <1>3, <2>1, <2>2, Lands DEF Counts
<1>7. ASSUME Goes(f, v, "REVISING", "revise") \/ Goes(f, v, "BLOCKED", "trace")
      PROVE  Advances(f)
  <2>1. "REVISING" \in Allowed(v.state) /\ "BLOCKED" \in Allowed(v.state)
    BY <1>3 DEF Allowed
  <2>2. /\ StateFits("revise", "REVISING") /\ PartsFit("revise", "REVISING", v)
        /\ StateFits("trace", "BLOCKED") /\ PartsFit("trace", "BLOCKED", v)
    BY <1>4, NothingOutside DEF StateFits, PartsFit, Generating, Complete, OfOnePiece
  <2> QED BY <1>1, <1>3, <1>7, <2>1, <2>2, GoesAdvances DEF Counts
<1> QED BY <1>5, <1>6, <1>7

(* A revision rewrites whatever was written from what it rewrites.         *)
LEMMA RevisedIsWhole ==
  ASSUME NEW f \in Flight, OfOnePiece(flights[f]),
         NEW x, NEW y, NEW z, Rewritten(f, x, y, z)
  PROVE  /\ x \in Concepts /\ y \in Labs /\ z \in Assessments
         /\ y.of = Id(x) /\ z.of = <<Id(x), Id(y)>>
<1> DEFINE due == Revised(Objections(flights[f]))
<1>1. /\ flights[f].concept \in Concepts /\ flights[f].lab \in Labs
      /\ flights[f].assessment \in Assessments
      /\ flights[f].lab.of = Id(flights[f].concept)
      /\ flights[f].assessment.of = <<Id(flights[f].concept), Id(flights[f].lab)>>
  BY DEF OfOnePiece, Fits
<1>2. /\ "concept" \in due => "lab" \in due
      /\ "lab" \in due => "assessment" \in due
  BY DEF Revised
<1>3. /\ x \in IF "concept" \in due THEN Concept(f, 2) ELSE {flights[f].concept}
      /\ y \in IF "lab" \in due THEN Lab(f, 2, x) ELSE {flights[f].lab}
      /\ z \in IF "assessment" \in due THEN Assessment(f, 2, x, y) ELSE {flights[f].assessment}
  BY DEF Rewritten
<1> HIDE DEF due
<1>4. x \in Concepts /\ ("concept" \notin due => x = flights[f].concept)
  BY <1>1, <1>3, Written
<1>5. y \in Labs /\ y.of = Id(x) /\ ("lab" \notin due => y = flights[f].lab)
  BY <1>1, <1>2, <1>3, <1>4, Written
<1>6. z \in Assessments /\ z.of = <<Id(x), Id(y)>>
  BY <1>1, <1>2, <1>3, <1>4, <1>5, Written
<1> QED BY <1>4, <1>5, <1>6

LEMMA ReviseAdvances ==
  ASSUME PipelineInv, NEW f \in Flight, Revises(f) \/ RevisionFails(f)
  PROVE  Advances(f)
<1>0. flights[f].at = "revise"
  <2>1. Step(f, "revise")
    BY Zenon DEF Revises, RevisionFails
  <2> QED BY <2>1 DEF Step
<1>1. flights[f].state = "REVISING" /\ OfOnePiece(flights[f]) /\ "revalidate" \in Places
  BY <1>0, AtPlace DEF StateFits, PartsFit, Complete, Places
<1>2. CASE RevisionFails(f)
  BY <1>0, <1>2, AgentFailsAdvances DEF RevisionFails
<1>3. CASE Revises(f)
  <2>1. PICK x, y, z :
          /\ Rewritten(f, x, y, z)
          /\ Stays(f, [flights[f] EXCEPT !.concept = x, !.lab = y, !.assessment = z], "revalidate")
    BY <1>3, Zenon DEF Revises
  <2>2. /\ x \in Concepts /\ y \in Labs /\ z \in Assessments
        /\ y.of = Id(x) /\ z.of = <<Id(x), Id(y)>>
    BY <1>1, <2>1, RevisedIsWhole
  <2>3. PICK made : made = [flights[f] EXCEPT !.concept = x, !.lab = y, !.assessment = z]
    OBVIOUS
  <2>4. /\ made \in Execution /\ made.state = flights[f].state /\ made.pair = flights[f].pair
        /\ made.kept = flights[f].kept /\ made.start = flights[f].start
        /\ made.concept = x /\ made.lab = y /\ made.assessment = z
    <3>1. flights[f] \in Execution
      BY Typed
    <3> QED BY <2>2, <2>3, <3>1 DEF Execution
  <2>5. OfOnePiece(made)
    BY <2>2, <2>4 DEF OfOnePiece, Fits
  <2>6. StateFits("revalidate", made.state) /\ PartsFit("revalidate", made.state, made)
    BY <1>1, <2>2, <2>4, <2>5, NothingOutside DEF StateFits, PartsFit, Generating, Complete
  <2> QED BY <1>1, <2>1, <2>3, <2>4, <2>6, StaysAdvances
<1> QED BY <1>2, <1>3

LEMMA PutAdvances ==
  ASSUME PipelineInv, NEW f \in Flight, StoresPair(f)
  PROVE  Advances(f)
<1>0. flights[f].at = "put"
  BY DEF StoresPair, Step
<1>1. /\ flights[f].state = "VALIDATING" /\ OfOnePiece(flights[f]) /\ Objections(flights[f]) = {}
      /\ "trace" \in Places
  BY <1>0, AtPlace DEF StateFits, PartsFit, Complete, Places, Ending
<1>2. /\ "READY" \in Allowed(flights[f].state) /\ "FAILED" \in Allowed(flights[f].state)
      /\ StateFits("trace", "READY") /\ StateFits("trace", "FAILED")
  BY <1>1 DEF Allowed, StateFits, Generating
<1>3. flights[f] \in Execution
  BY Typed
<1>4. PICK made : made = [flights[f] EXCEPT !.pair = f]
  OBVIOUS
<1>4a. PICK kept : kept = [flights[f] EXCEPT !.kept = TRUE]
  OBVIOUS
<1>5. /\ made \in Execution /\ made.state = flights[f].state /\ made.pair = f
      /\ made.kept = flights[f].kept /\ made.start = flights[f].start
      /\ made.concept = flights[f].concept /\ made.lab = flights[f].lab
      /\ made.assessment = flights[f].assessment
  BY <1>3, <1>4 DEF Execution
<1>5a. /\ kept \in Execution /\ kept.state = flights[f].state /\ kept.pair = flights[f].pair
       /\ kept.kept = TRUE /\ kept.start = flights[f].start
       /\ kept.concept = flights[f].concept /\ kept.lab = flights[f].lab
       /\ kept.assessment = flights[f].assessment
  BY <1>3, <1>4a DEF Execution
<1>6. OfOnePiece(made) /\ Objections(made) = {}
  BY <1>1, <1>5, SameParts
<1>7. /\ PartsFit("trace", "READY", made) /\ PartsFit("trace", "FAILED", flights[f])
      /\ PartsFit("trace", "FAILED", kept)
  BY <1>1, <1>5a, <1>6, NothingOutside DEF PartsFit, Complete, OfOnePiece
<1>8. \/ Goes(f, made, "READY", "trace") \/ Goes(f, flights[f], "FAILED", "trace")
      \/ Goes(f, kept, "FAILED", "trace")
  BY <1>4, <1>4a DEF StoresPair
<1>9. CASE Goes(f, made, "READY", "trace")
  BY <1>0, <1>1, <1>2, <1>5, <1>7, <1>9, GoesAdvances DEF Counts
<1>10. CASE Goes(f, flights[f], "FAILED", "trace")
  BY <1>0, <1>1, <1>2, <1>3, <1>7, <1>10, GoesAdvances DEF Counts
<1>11. CASE Goes(f, kept, "FAILED", "trace")
  BY <1>0, <1>1, <1>2, <1>5a, <1>7, <1>11, GoesAdvances DEF Counts
<1> QED BY <1>8, <1>9, <1>10, <1>11

LEMMA EndAdvances ==
  ASSUME PipelineInv, NEW f \in Flight, AppendsTrace(f) \/ PutsCache(f) \/ DeletesCheckpoint(f)
  PROVE  Advances(f)
<1>1. /\ flights[f].at \in {"trace", "cache", "clean"}
      /\ \E place \in {"cache", "clean", "return"} :
           /\ Stays(f, flights[f], place)
           /\ place # "return" => flights[f].state = "READY"
  BY AtPlace DEF AppendsTrace, PutsCache, DeletesCheckpoint, Step, StateFits
<1>2. PICK place \in {"cache", "clean", "return"} :
        Stays(f, flights[f], place) /\ (place # "return" => flights[f].state = "READY")
  BY <1>1
<1>3. /\ StateFits(place, flights[f].state) /\ PartsFit(place, flights[f].state, flights[f])
      /\ place \in Places
  BY <1>1, <1>2, AtPlace DEF StateFits, PartsFit, Generating, Complete, Places, Ending
<1> QED BY <1>2, <1>3, Typed, StaysAdvances

-----------------------------------------------------------------------------
(* What an execution does to what is shared.                               *)
Shared(f) ==
  /\ store \subseteq store' /\ store' \subseteq store \cup {f}
  /\ f \in store' \ store => flights'[f].pair = f \/ flights'[f].kept
  /\ flights'[f].state = "READY" => f \in store'
  /\ faults' \in Nat /\ faults' >= faults /\ traced' \in Nat
  /\ cache' = cache \/ (flights[f].state = "READY" /\ cache' = Result(f, "READY"))
  /\ \/ checkpoint' \in {checkpoint, Nothing}
     \/ checkpoint' = Saved(f) /\ flights[f].at \in {"saveConcept", "saveBranches"}
  /\ Active(f) /\ UNCHANGED callVars

(* The steps that only write the execution.                                *)
Private(f) ==
  \/ Begins(f) \/ LoadsCheckpoint(f) \/ WritesConcept(f) \/ SavesConcept(f)
  \/ WritesLab(f) \/ WritesAssessment(f) \/ SavesBranches(f) \/ Validates(f)
  \/ Revises(f) \/ RevisionFails(f) \/ ValidatesAgain(f)
  \/ AppendsTrace(f) \/ PutsCache(f) \/ DeletesCheckpoint(f)

LEMMA Effects ==
  ASSUME NEW f \in Flight, Private(f)
  PROVE  /\ store' = store /\ (Works \/ Fails)
         /\ AppendsTrace(f) \/ UNCHANGED traced
         /\ PutsCache(f) \/ UNCHANGED cache
         /\ \/ DeletesCheckpoint(f) \/ UNCHANGED checkpoint
            \/ Saves(f) /\ (Step(f, "saveConcept") \/ Step(f, "saveBranches"))
         /\ \/ Step(f, "begin") \/ Step(f, "load") \/ Step(f, "concept") \/ Step(f, "saveConcept")
            \/ Step(f, "lab") \/ Step(f, "assessment") \/ Step(f, "saveBranches")
            \/ Step(f, "validate") \/ Step(f, "revise") \/ Step(f, "revalidate")
            \/ Step(f, "trace") \/ Step(f, "cache") \/ Step(f, "clean")
<1> USE DEF Private, Begins, LoadsCheckpoint, WritesConcept, SavesConcept, WritesLab,
            WritesAssessment, SavesBranches, Validates, Revises, RevisionFails, ValidatesAgain,
            AppendsTrace, PutsCache, DeletesCheckpoint, Alone, sharedVars
<1>1. store' = store
  BY Zenon
<1>2. Works \/ Fails
  BY Zenon DEF Saves
<1>3. AppendsTrace(f) \/ UNCHANGED traced
  BY Zenon
<1>4. PutsCache(f) \/ UNCHANGED cache
  BY Zenon
<1>5. \/ DeletesCheckpoint(f) \/ UNCHANGED checkpoint
      \/ Saves(f) /\ (Step(f, "saveConcept") \/ Step(f, "saveBranches"))
  BY Zenon
<1>6. \/ Step(f, "begin") \/ Step(f, "load") \/ Step(f, "concept") \/ Step(f, "saveConcept")
      \/ Step(f, "lab") \/ Step(f, "assessment") \/ Step(f, "saveBranches")
      \/ Step(f, "validate") \/ Step(f, "revise") \/ Step(f, "revalidate")
      \/ Step(f, "trace") \/ Step(f, "cache") \/ Step(f, "clean")
  BY Zenon
<1> HIDE DEF Private, Begins, LoadsCheckpoint, WritesConcept, SavesConcept, WritesLab,
             WritesAssessment, SavesBranches, Validates, Revises, RevisionFails, ValidatesAgain,
             AppendsTrace, PutsCache, DeletesCheckpoint, Alone, sharedVars
<1> QED BY <1>1, <1>2, <1>3, <1>4, <1>5, <1>6, Zenon

(* No step of an execution but its end answers a caller.                   *)
LEMMA CallersRest ==
  ASSUME NEW f \in Flight, Private(f) \/ StoresPair(f)
  PROVE  UNCHANGED <<callVars, stops, removals>>
<1>1. CASE Private(f)
  BY <1>1, Effects, Zenon DEF Step
<1>2. CASE StoresPair(f)
  BY <1>2, Zenon DEF StoresPair, Step
<1> QED BY <1>1, <1>2

LEMMA PrivateShares ==
  ASSUME PipelineInv, NEW f \in Flight, Private(f), Advances(f)
  PROVE  Shared(f)
<1>1. store' = store
  BY Effects
<1>2. Works \/ Fails
  BY Effects
<1>3. faults' \in Nat /\ faults' >= faults
  BY <1>2 DEF Works, Fails, PipelineInv
<1>4. traced' \in Nat
  <2>1. AppendsTrace(f) \/ UNCHANGED traced
    BY Effects
  <2>2. flights[f].start \in Nat /\ traced \in Nat
    BY Typed DEF Execution, PipelineInv
  <2> QED BY <2>1, <2>2 DEF AppendsTrace
<1>5. flights[f].at # "put" /\ Active(f) /\ UNCHANGED callVars
  <2>2. flights[f].at \in {"begin", "load", "concept", "saveConcept", "lab", "assessment",
                           "saveBranches", "validate", "revise", "revalidate", "trace",
                           "cache", "clean"}
    BY Effects DEF Step
  <2>3. UNCHANGED callVars
    BY CallersRest
  <2> QED BY <2>2, <2>3 DEF Active
<1>6. flights'[f].state = "READY" => f \in store'
  BY <1>1, <1>5 DEF Advances, PipelineInv, FlightInv
<1>7. cache' = cache \/ (flights[f].state = "READY" /\ cache' = Result(f, "READY"))
  <2>1. PutsCache(f) \/ UNCHANGED cache
    BY Effects
  <2>2. PutsCache(f) => flights[f].state = "READY"
    BY AtPlace DEF PutsCache, Step, StateFits
  <2> QED BY <2>1, <2>2 DEF PutsCache
<1>8. \/ checkpoint' \in {checkpoint, Nothing}
      \/ checkpoint' = Saved(f) /\ flights[f].at \in {"saveConcept", "saveBranches"}
  <2>1. \/ DeletesCheckpoint(f) \/ UNCHANGED checkpoint
        \/ Saves(f) /\ (Step(f, "saveConcept") \/ Step(f, "saveBranches"))
    BY Effects
  <2> QED BY <2>1 DEF DeletesCheckpoint, Saves, Step
<1> QED BY <1>1, <1>3, <1>4, <1>5, <1>6, <1>7, <1>8 DEF Shared

LEMMA PutShares ==
  ASSUME PipelineInv, NEW f \in Flight, StoresPair(f)
  PROVE  Shared(f)
<1>1. /\ flights[f].state = "VALIDATING" /\ "trace" \in Places /\ flights[f] \in Execution
      /\ "READY" \in Allowed(flights[f].state) /\ "FAILED" \in Allowed(flights[f].state)
  BY AtPlace, Typed DEF StoresPair, Step, StateFits, Places, Ending, Allowed
<1>2. PICK made : made = [flights[f] EXCEPT !.pair = f]
  OBVIOUS
<1>2a. PICK kept : kept = [flights[f] EXCEPT !.kept = TRUE]
  OBVIOUS
<1>3. made \in Execution /\ made.state = flights[f].state /\ made.pair = f
  BY <1>1, <1>2 DEF Execution
<1>3a. kept \in Execution /\ kept.state = flights[f].state /\ kept.kept = TRUE
  BY <1>1, <1>2a DEF Execution
<1>4. \/ Becomes(f, made, "READY", "trace") /\ store' = store \cup {f} /\ Works
      \/ Becomes(f, flights[f], "FAILED", "trace") /\ store' = store /\ Works
      \/ Becomes(f, kept, "FAILED", "trace") /\ store' = store \cup {f} /\ Fails
  <2>1. Goes(f, made, "READY", "trace") => Becomes(f, made, "READY", "trace")
    BY <1>1, <1>3, GoesFields DEF PipelineInv
  <2>2. Goes(f, flights[f], "FAILED", "trace") => Becomes(f, flights[f], "FAILED", "trace")
    BY <1>1, GoesFields DEF PipelineInv
  <2>3. Goes(f, kept, "FAILED", "trace") => Becomes(f, kept, "FAILED", "trace")
    BY <1>1, <1>3a, GoesFields DEF PipelineInv
  <2> QED BY <1>2, <1>2a, <2>1, <2>2, <2>3 DEF StoresPair, Discarded
<1>5. faults \in Nat /\ traced \in Nat
  BY DEF PipelineInv
<1>6. UNCHANGED <<cache, checkpoint, traced>> /\ UNCHANGED callVars /\ Active(f)
  BY DEF StoresPair, Step, Active
<1>7. /\ store \subseteq store' /\ store' \subseteq store \cup {f}
      /\ f \in store' \ store => flights'[f].pair = f \/ flights'[f].kept
      /\ flights'[f].state = "READY" => f \in store'
      /\ faults' \in Nat /\ faults' >= faults
  BY <1>3, <1>3a, <1>4, <1>5 DEF Becomes, Works, Fails
<1> QED BY <1>5, <1>6, <1>7 DEF Shared

-----------------------------------------------------------------------------
LEMMA ResultFine ==
  ASSUME NEW f, NEW state, state = "READY" => OfOnePiece(flights[f]) /\ Objections(flights[f]) = {}
  PROVE  /\ Fine(Result(f, state))
         /\ Result(f, state).state = state /\ Result(f, state).pair = flights[f].pair
<1>1. CASE state = "READY"
  BY <1>1 DEF Fine, Result, OfOnePiece
<1>2. CASE state # "READY"
  BY <1>2 DEF Fine, Result
<1> QED BY <1>1, <1>2

LEMMA SharedKeeps ==
  ASSUME PipelineInv, NEW f \in Flight, Advances(f), Shared(f)
  PROVE  PipelineInv'
<1>1. /\ pc' \in [Callers -> {"idle", "cache", "check", "waits", "answered"}]
      /\ dep' \in [Callers -> Deps \cup {Nothing}]
      /\ DOMAIN got' = Callers /\ DOMAIN answer' = Callers
      /\ flights' \in [Flight -> Execution]
      /\ store' \subseteq Flight /\ faults' \in Nat /\ traced' \in Nat
  BY DEF PipelineInv, Shared, Advances, callVars
<1>2. ASSUME NEW g \in Flight PROVE FlightInv(g)'
  <2>1. CASE g = f
    BY <2>1 DEF Advances, Shared, FlightInv
  <2>2. CASE g # f
    <3>1. flights'[g] = flights[g] /\ store \subseteq store'
      BY <2>2 DEF Advances, Shared
    <3> QED BY <3>1 DEF PipelineInv, FlightInv
  <2> QED BY <2>1, <2>2
<1>3. \A c \in Callers : got'[c] # Nothing => Fine(got'[c])
  BY DEF PipelineInv, Shared, callVars
<1>4. cache' # Nothing => Fine(cache')
  <2>1. flights[f].state = "READY" => Fine(Result(f, "READY"))
    BY AtPlace, ResultFine DEF PartsFit
  <2> QED BY <2>1 DEF PipelineInv, Shared
<1>5. CheckpointInv'
  <2>1. CASE checkpoint' \in {checkpoint, Nothing}
    BY <2>1 DEF PipelineInv, CheckpointInv
  <2>2. CASE checkpoint' = Saved(f) /\ flights[f].at \in {"saveConcept", "saveBranches"}
    <3>1. /\ checkpoint'.concept = flights[f].concept /\ checkpoint'.lab = flights[f].lab
          /\ checkpoint'.assessment = flights[f].assessment
      BY <2>2 DEF Saved
    <3>2. /\ flights[f].concept \in Concepts /\ (flights[f].lab = Nothing \/ OfOnePiece(flights[f]))
      BY <2>2, AtPlace DEF PartsFit, Complete, OfOnePiece
    <3>3. OfOnePiece(flights[f]) => OfOnePiece(checkpoint')
      BY <3>1, SameParts
    <3> QED BY <3>1, <3>2, <3>3, Typed DEF CheckpointInv
  <2> QED BY <2>1, <2>2 DEF Shared
<1>6. Coherent'
  BY DEF PipelineInv, Shared, callVars, Coherent
<1>7. NothingLeftBehind'
  <2> SUFFICES ASSUME NEW p \in store'
               PROVE  flights'[p].at = "stopped" \/ flights'[p].pair = p \/ flights'[p].kept
    BY DEF NothingLeftBehind
  <2>2. CASE p \notin store
    BY <2>2 DEF Shared
  <2>3. CASE p \in store /\ p = f
    BY <2>3 DEF PipelineInv, NothingLeftBehind, Shared, Active, Advances
  <2>4. CASE p \in store /\ p # f
    BY <2>4 DEF PipelineInv, NothingLeftBehind, Advances
  <2> QED BY <2>2, <2>3, <2>4
<1> QED BY <1>1, <1>2, <1>3, <1>4, <1>5, <1>6, <1>7 DEF PipelineInv

LEMMA FlightAdvances ==
  ASSUME PipelineInv, NEW f \in Flight, FlightStep(f), ~Returns(f)
  PROVE  Advances(f)
<1>1. \/ Begins(f) \/ LoadsCheckpoint(f) \/ (WritesConcept(f) \/ WritesLab(f) \/ WritesAssessment(f))
      \/ (SavesConcept(f) \/ SavesBranches(f)) \/ (Validates(f) \/ ValidatesAgain(f))
      \/ (Revises(f) \/ RevisionFails(f)) \/ StoresPair(f)
      \/ (AppendsTrace(f) \/ PutsCache(f) \/ DeletesCheckpoint(f))
  BY Zenon DEF FlightStep
<1> QED BY <1>1, BeginsAdvances, LoadAdvances, WriteAdvances, SaveAdvances, ValidateAdvances,
         ReviseAdvances, PutAdvances, EndAdvances

LEMMA FlightKeeps ==
  ASSUME PipelineInv, NEW f \in Flight, FlightStep(f), ~Returns(f)
  PROVE  PipelineInv'
<1>1. Private(f) \/ StoresPair(f)
  BY Zenon DEF FlightStep, Private
<1> QED BY <1>1, FlightAdvances, PrivateShares, PutShares, SharedKeeps

(* A finished execution keeps nothing but the pair it published.            *)
LEMMA ReturnKeeps ==
  ASSUME PipelineInv, NEW f \in Flight, Returns(f)
  PROVE  PipelineInv'
<1>1. PICK m : m = [Idle EXCEPT !.at = "done", !.pair = flights[f].pair,
                                !.kept = flights[f].kept]
  OBVIOUS
<1>2. /\ m \in Execution /\ m.at = "done" /\ m.state = "PLANNED" /\ m.lab = Nothing
      /\ m.pair = flights[f].pair /\ m.kept = flights[f].kept
  <2>1. flights[f].pair \in Flight \cup {Nothing} /\ flights[f].kept \in BOOLEAN
    BY Typed DEF Execution
  <2> QED BY <1>1, <2>1 DEF Idle, Execution, State, Places
<1>3. flights' = [flights EXCEPT ![f] = m] /\ flights \in [Flight -> Execution]
  BY <1>1 DEF Returns, PipelineInv
<1>4. /\ flights' \in [Flight -> Execution] /\ flights'[f] = m
      /\ \A g \in Flight : g # f => flights'[g] = flights[g]
  BY <1>2, <1>3
<1>5. /\ UNCHANGED <<dep, got, store, cache, checkpoint, traced, faults>>
      /\ pc' = [c \in Callers |-> IF pc[c] = "waits" /\ on[c] = f THEN "answered" ELSE pc[c]]
      /\ answer' = [c \in Callers |-> IF pc[c] = "waits" /\ on[c] = f
                                      THEN Result(f, flights[f].state) ELSE answer[c]]
  BY DEF Returns, sharedVars, bounds
<1>6. pc' \in [Callers -> {"idle", "cache", "check", "waits", "answered"}]
  BY <1>5 DEF PipelineInv
<1>7. ASSUME NEW g \in Flight PROVE FlightInv(g)'
  <2>1. CASE g = f
    <3>1. StateFits("done", "PLANNED") /\ PartsFit("done", "PLANNED", m)
      BY <1>2 DEF StateFits, PartsFit, Generating, Complete
    <3> QED BY <1>2, <1>4, <2>1, <3>1 DEF FlightInv
  <2>2. CASE g # f
    BY <1>4, <1>5, <2>2 DEF PipelineInv, FlightInv
  <2> QED BY <2>1, <2>2
<1>8. Coherent'
  <2>1. Fine(Result(f, flights[f].state))
    BY AtPlace, ResultFine DEF PartsFit
  <2> QED BY <1>5, <2>1 DEF PipelineInv, Coherent, Fine
<1>9. NothingLeftBehind'
  BY <1>2, <1>4, <1>5 DEF PipelineInv, NothingLeftBehind, Returns
<1>10. CheckpointInv' /\ (cache' # Nothing => Fine(cache')) /\ \A c \in Callers : got'[c] # Nothing => Fine(got'[c])
  BY <1>5 DEF PipelineInv, CheckpointInv
<1> QED BY <1>4, <1>5, <1>6, <1>7, <1>8, <1>9, <1>10 DEF PipelineInv

-----------------------------------------------------------------------------
(* The steps of a caller that start no execution.                          *)
LEMMA CallerKeeps ==
  ASSUME PipelineInv,
         UNCHANGED <<flights, store, cache, checkpoint, traced>>,
         faults' \in Nat /\ faults' >= faults,
         pc' \in [Callers -> {"idle", "cache", "check", "waits", "answered"}],
         dep' \in [Callers -> Deps \cup {Nothing}], DOMAIN got' = Callers, DOMAIN answer' = Callers,
         \A c \in Callers : got'[c] # Nothing => Fine(got'[c]),
         \A c \in Callers : answer'[c] # Nothing => Fine(answer'[c])
  PROVE  PipelineInv'
<1>1. \A f \in Flight : FlightInv(f)'
  BY DEF PipelineInv, FlightInv
<1>2. CheckpointInv' /\ Coherent'
  BY DEF PipelineInv, CheckpointInv, Coherent, Fine
<1>3. NothingLeftBehind'
  BY DEF PipelineInv, NothingLeftBehind
<1> QED BY <1>1, <1>2, <1>3 DEF PipelineInv

LEMMA CallKeeps ==
  ASSUME PipelineInv, NEW c \in Callers, Call(c)
  PROVE  PipelineInv'
<1>1. /\ UNCHANGED <<got, flights, store, cache, checkpoint, traced, faults>>
      /\ answer' = [answer EXCEPT ![c] = Nothing]
  BY DEF Call, sharedVars, bounds
<1>2. PICK d \in DepsOf[c] :
        /\ dep' = [dep EXCEPT ![c] = d]
        /\ pc' = [pc EXCEPT ![c] = "waits"] \/ pc' = [pc EXCEPT ![c] = "cache"]
  BY DEF Call, Joins
<1>3. d \in Deps
  OBVIOUS
<1>4. dep' \in [Callers -> Deps \cup {Nothing}]
      /\ pc' \in [Callers -> {"idle", "cache", "check", "waits", "answered"}]
  BY <1>2, <1>3 DEF PipelineInv
<1>5. /\ \A b \in Callers : answer'[b] # Nothing => Fine(answer'[b])
      /\ \A b \in Callers : got'[b] # Nothing => Fine(got'[b])
      /\ DOMAIN answer' = Callers /\ DOMAIN got' = Callers /\ faults' \in Nat /\ faults' >= faults
  BY <1>1 DEF PipelineInv, Coherent, Fine
<1> QED BY <1>1, <1>4, <1>5, CallerKeeps

LEMMA AskKeeps ==
  ASSUME PipelineInv, NEW c \in Callers, AsksCache(c)
  PROVE  PipelineInv'
<1>1. /\ UNCHANGED <<dep, answer, flights, store, cache, checkpoint, traced>>
      /\ pc' = [pc EXCEPT ![c] = "check"]
      /\ got' = [got EXCEPT ![c] = cache] \/ got' = [got EXCEPT ![c] = Nothing]
      /\ Works \/ Fails
  BY DEF AsksCache, sharedVars
<1>2. faults' \in Nat /\ faults' >= faults
  BY <1>1 DEF PipelineInv, Works, Fails
<1>3. \A b \in Callers : got'[b] # Nothing => Fine(got'[b])
  BY <1>1 DEF PipelineInv
<1>4. /\ \A b \in Callers : answer'[b] # Nothing => Fine(answer'[b])
      /\ DOMAIN answer' = Callers /\ DOMAIN got' = Callers
      /\ pc' \in [Callers -> {"idle", "cache", "check", "waits", "answered"}]
      /\ dep' \in [Callers -> Deps \cup {Nothing}]
  BY <1>1 DEF PipelineInv, Coherent, Fine
<1> QED BY <1>1, <1>2, <1>3, <1>4, CallerKeeps

(* An execution starts with nothing made.                                   *)
LEMMA StartKeeps ==
  ASSUME PipelineInv, NEW c \in Callers, NEW f \in Flight, flights[f].at = "none",
         flights' = [flights EXCEPT ![f].at = "begin", ![f].dep = dep[c]],
         Joins(c, f), got' = [got EXCEPT ![c] = Nothing],
         UNCHANGED <<dep, answer, store, cache, checkpoint, traced, faults>>
  PROVE  PipelineInv'
<1>1. PICK m : m = [flights[f] EXCEPT !.at = "begin", !.dep = dep[c]]
  OBVIOUS
<1>2. dep[c] \in Deps \cup {Nothing} /\ flights[f] \in Execution
  BY Typed DEF PipelineInv
<1>3. /\ m \in Execution /\ m.at = "begin" /\ m.state = flights[f].state
      /\ m.concept = flights[f].concept /\ m.lab = flights[f].lab
      /\ m.assessment = flights[f].assessment /\ m.pair = flights[f].pair
      /\ m.kept = flights[f].kept
  BY <1>1, <1>2 DEF Execution, Places
<1>4. flights' = [flights EXCEPT ![f] = m] /\ flights \in [Flight -> Execution]
  BY <1>1 DEF PipelineInv
<1>5. /\ flights' \in [Flight -> Execution] /\ flights'[f] = m
      /\ \A g \in Flight : g # f => flights'[g] = flights[g]
  BY <1>3, <1>4
<1>6. ASSUME NEW g \in Flight PROVE FlightInv(g)'
  <2>1. CASE g = f
    <3>1. flights[f].state = "PLANNED" /\ flights[f].lab = Nothing
      BY AtPlace DEF StateFits, PartsFit
    <3>2. StateFits("begin", m.state) /\ PartsFit("begin", m.state, m)
      BY <1>3, <3>1 DEF StateFits, PartsFit, Generating, Complete
    <3>3. m.state # "READY"
      BY <1>3, <3>1
    <3> QED BY <1>3, <1>5, <2>1, <3>2, <3>3 DEF FlightInv
  <2>2. CASE g # f
    BY <1>5, <2>2 DEF PipelineInv, FlightInv
  <2> QED BY <2>1, <2>2
<1>7. NothingLeftBehind'
  BY <1>3, <1>5 DEF PipelineInv, NothingLeftBehind
<1>8. CheckpointInv' /\ Coherent'
  BY DEF PipelineInv, CheckpointInv, Coherent
<1>9. /\ pc' \in [Callers -> {"idle", "cache", "check", "waits", "answered"}]
      /\ dep' \in [Callers -> Deps \cup {Nothing}]
      /\ DOMAIN got' = Callers /\ DOMAIN answer' = Callers
      /\ \A b \in Callers : got'[b] # Nothing => Fine(got'[b])
      /\ cache' # Nothing => Fine(cache')
      /\ store' \subseteq Flight /\ faults' \in Nat /\ traced' \in Nat
  BY DEF PipelineInv, Joins
<1> QED BY <1>5, <1>6, <1>7, <1>8, <1>9 DEF PipelineInv

LEMMA CheckKeeps ==
  ASSUME PipelineInv, NEW c \in Callers, ChecksCache(c) \/ OutOfFlights(c)
  PROVE  PipelineInv'
<1>1. /\ UNCHANGED <<dep, store, cache, checkpoint, traced, faults>>
      /\ got' = [got EXCEPT ![c] = Nothing]
  BY DEF ChecksCache, OutOfFlights, sharedVars, bounds
<1>2. \/ \E f \in Flight :
           /\ flights[f].at = "none" /\ Joins(c, f) /\ UNCHANGED answer
           /\ flights' = [flights EXCEPT ![f].at = "begin", ![f].dep = dep[c]]
      \/ /\ UNCHANGED flights
         /\ \E place \in {"answered", "waits", "idle"} : pc' = [pc EXCEPT ![c] = place]
         /\ \/ UNCHANGED answer
            \/ got[c] # Nothing /\ answer' = [answer EXCEPT ![c] = got[c]]
  <2>1. CASE OutOfFlights(c)
    BY <2>1 DEF OutOfFlights
  <2>2. CASE ChecksCache(c) /\ Usable(got[c])
    BY <2>2 DEF ChecksCache, Usable, Answers
  <2>3. CASE ChecksCache(c) /\ ~Usable(got[c])
    <3>1. UNCHANGED answer
      BY <2>3 DEF ChecksCache
    <3>2. \/ \E f \in Joinable(c) : Joins(c, f) /\ UNCHANGED flights
          \/ \E f \in Flight :
               /\ flights[f].at = "none" /\ Joins(c, f)
               /\ flights' = [flights EXCEPT ![f].at = "begin", ![f].dep = dep[c]]
      BY <2>3, Zenon DEF ChecksCache
    <3> QED BY <3>1, <3>2 DEF Joins
  <2> QED BY <2>1, <2>2, <2>3
<1>3. ASSUME NEW f \in Flight, flights[f].at = "none", Joins(c, f), UNCHANGED answer,
             flights' = [flights EXCEPT ![f].at = "begin", ![f].dep = dep[c]]
      PROVE  PipelineInv'
  BY <1>1, <1>3, StartKeeps
<1>4. CASE /\ UNCHANGED flights
           /\ \E place \in {"answered", "waits", "idle"} : pc' = [pc EXCEPT ![c] = place]
           /\ \/ UNCHANGED answer
              \/ got[c] # Nothing /\ answer' = [answer EXCEPT ![c] = got[c]]
  <2>1. /\ pc' \in [Callers -> {"idle", "cache", "check", "waits", "answered"}]
        /\ dep' \in [Callers -> Deps \cup {Nothing}]
        /\ DOMAIN got' = Callers /\ DOMAIN answer' = Callers
        /\ \A b \in Callers : got'[b] # Nothing => Fine(got'[b])
        /\ \A b \in Callers : answer'[b] # Nothing => Fine(answer'[b])
        /\ faults' \in Nat /\ faults' >= faults
    BY <1>1, <1>4 DEF PipelineInv, Coherent, Fine
  <2> QED BY <1>1, <1>4, <2>1, CallerKeeps
<1> QED BY <1>2, <1>3, <1>4

-----------------------------------------------------------------------------
LEMMA StopKeeps ==
  ASSUME PipelineInv, ProcessStops
  PROVE  PipelineInv'
<1>1. PICK m : m = [Idle EXCEPT !.at = "stopped"]
  OBVIOUS
<1>2. m \in Execution /\ m.at = "stopped" /\ m.state = "PLANNED" /\ m.lab = Nothing /\ m.concept = Nothing
  BY <1>1 DEF Idle, Execution, State, Places
<1>3. flights' = [f \in Flight |-> IF Active(f) THEN m ELSE flights[f]]
  BY <1>1 DEF ProcessStops
<1>4. /\ UNCHANGED <<store, cache, traced, faults>> /\ checkpoint' = Nothing
      /\ pc' = [c \in Callers |-> "idle"] /\ dep' = [c \in Callers |-> Nothing]
      /\ got' = [c \in Callers |-> Nothing] /\ answer' = [c \in Callers |-> Nothing]
  BY DEF ProcessStops
<1>5. flights' \in [Flight -> Execution]
  BY <1>2, <1>3, Typed
<1>6. ASSUME NEW f \in Flight PROVE FlightInv(f)'
  <2>1. CASE Active(f)
    <3>1. flights'[f] = m
      BY <1>3, <2>1
    <3>2. StateFits("stopped", "PLANNED") /\ PartsFit("stopped", "PLANNED", m)
      BY <1>2 DEF StateFits, PartsFit, Generating, Complete
    <3> QED BY <1>2, <3>1, <3>2 DEF FlightInv
  <2>2. CASE ~Active(f)
    BY <1>3, <1>4, <2>2 DEF PipelineInv, FlightInv
  <2> QED BY <2>1, <2>2
<1>7. NothingLeftBehind'
  BY <1>2, <1>3, <1>4 DEF PipelineInv, NothingLeftBehind
<1>8. Coherent' /\ CheckpointInv'
  BY <1>4 DEF Coherent, CheckpointInv
<1> QED BY <1>4, <1>5, <1>6, <1>7, <1>8 DEF PipelineInv

LEMMA RemoveKeeps ==
  ASSUME PipelineInv, Removes
  PROVE  PipelineInv'
<1>1. PICK p \in store : store' = store \ {p} /\ ~Active(p)
  BY DEF Removes
<1>2. UNCHANGED <<pc, dep, on, got, answer, flights, cache, checkpoint, traced, faults>>
  BY DEF Removes, callVars
<1>3. ASSUME NEW f \in Flight PROVE FlightInv(f)'
  <2>1. flights[f].state = "READY" => Active(f)
    BY AtPlace DEF StateFits, Active
  <2> QED BY <1>1, <1>2, <2>1 DEF PipelineInv, FlightInv
<1>4. NothingLeftBehind'
  BY <1>1, <1>2 DEF PipelineInv, NothingLeftBehind
<1>5. Coherent' /\ CheckpointInv'
  BY <1>2 DEF PipelineInv, Coherent, CheckpointInv
<1> QED BY <1>1, <1>2, <1>3, <1>4, <1>5 DEF PipelineInv

LEMMA PipelineStarts == PipelineInit => PipelineInv
<1> SUFFICES ASSUME PipelineInit PROVE PipelineInv
  OBVIOUS
<1>1. /\ Idle \in Execution /\ Idle.at = "none" /\ Idle.state = "PLANNED" /\ Idle.lab = Nothing
      /\ Idle.concept = Nothing
  BY DEF Idle, Execution, State, Places
<1>2. flights = [f \in Flight |-> Idle] /\ store = {}
  BY DEF PipelineInit
<1>3. \A f \in Flight : FlightInv(f)
  BY <1>1, <1>2 DEF FlightInv, StateFits, PartsFit, Generating, Complete
<1>4. flights \in [Flight -> Execution]
  BY <1>1, <1>2
<1>5. Coherent /\ CheckpointInv /\ NothingLeftBehind
  BY DEF PipelineInit, Coherent, CheckpointInv, NothingLeftBehind
<1> QED BY <1>3, <1>4, <1>5 DEF PipelineInit, PipelineInv

LEMMA PipelineGoesOn == PipelineInv /\ [PipelineNext]_pipelineVars => PipelineInv'
<1> SUFFICES ASSUME PipelineInv, [PipelineNext]_pipelineVars PROVE PipelineInv'
  OBVIOUS
<1>1. CASE UNCHANGED pipelineVars
  BY <1>1 DEF pipelineVars, PipelineInv, FlightInv, CheckpointInv, Coherent, NothingLeftBehind
<1>2. ASSUME NEW c \in Callers, Call(c) \/ CallerStep(c) PROVE PipelineInv'
  BY <1>2, CallKeeps, AskKeeps, CheckKeeps DEF CallerStep
<1>3. ASSUME NEW f \in Flight, FlightStep(f) PROVE PipelineInv'
  BY <1>3, FlightKeeps, ReturnKeeps
<1> QED BY <1>1, <1>2, <1>3, StopKeeps, RemoveKeeps DEF PipelineNext

(* The inductive invariant of runCPipeline: place, state and parts of every *)
(* execution fit, and so do the checkpoint, the cache and the answers.     *)
THEOREM PipelineInvariance == PipelineSpec => []PipelineInv
BY PipelineStarts, PipelineGoesOn, PTL DEF PipelineSpec

(* Every answer is of one piece and compared without objection, however it *)
(* came about: in one go, resumed, revised or cached.                      *)
THEOREM AlwaysCoherent == PipelineSpec => []Coherent
<1>1. PipelineInv => Coherent
  BY DEF PipelineInv
<1> QED BY <1>1, PipelineInvariance, PTL

(* A pair whose flight neither published it nor was stopped is deleted,     *)
(* unless the deletion of that pair failed.                                *)
THEOREM NothingIsLeft == PipelineSpec => []NothingLeftBehind
<1>1. PipelineInv => NothingLeftBehind
  BY DEF PipelineInv
<1> QED BY <1>1, PipelineInvariance, PTL

LEMMA ServedStep ==
  ASSUME PipelineInv, [PipelineNext]_pipelineVars, NEW c \in Callers,
         pc[c] # "answered", pc'[c] = "answered", answer'[c].state = "READY"
  PROVE  answer'[c].pair \in store'
<1>1. \/ \E f \in Flight : Returns(f)
      \/ ChecksCache(c) /\ Usable(got[c])
  <2>1. CASE UNCHANGED pipelineVars
    BY <2>1 DEF pipelineVars
  <2>2. ASSUME NEW b \in Callers, Call(b) \/ AsksCache(b) \/ OutOfFlights(b) PROVE FALSE
    BY <2>2 DEF PipelineInv, Call, Joins, AsksCache, OutOfFlights
  <2>3. ASSUME NEW b \in Callers, ChecksCache(b) PROVE ChecksCache(c) /\ Usable(got[c])
    BY <2>3 DEF PipelineInv, ChecksCache, Answers, Joins
  <2>4. ASSUME NEW f \in Flight, FlightStep(f), ~Returns(f) PROVE FALSE
    <3>1. Private(f) \/ StoresPair(f)
      BY <2>4, Zenon DEF FlightStep, Private
    <3>2. UNCHANGED callVars
      BY <3>1, CallersRest
    <3> QED BY <3>2 DEF callVars
  <2>5. CASE ProcessStops \/ Removes
    BY <2>5 DEF ProcessStops, Removes, callVars
  <2> QED BY <2>1, <2>2, <2>3, <2>4, <2>5 DEF PipelineNext, CallerStep
<1>2. ASSUME NEW f \in Flight, Returns(f) PROVE answer'[c].pair \in store'
  <2>1. answer'[c] = Result(f, flights[f].state) /\ store' = store
    BY <1>2 DEF Returns, sharedVars
  <2>2. flights[f].state = "READY" /\ answer'[c].pair = flights[f].pair
    BY <2>1 DEF Result
  <2> QED BY <2>1, <2>2 DEF PipelineInv, FlightInv
<1>3. CASE ChecksCache(c) /\ Usable(got[c])
  BY <1>3 DEF ChecksCache, Usable, Answers, PipelineInv, sharedVars
<1> QED BY <1>1, <1>2, <1>3

(* A ready answer, fresh or cached, names a pair that can be read when it  *)
(* is given.                                                               *)
THEOREM ServedAreReadable == PipelineSpec => ServedIsReadable
<1>1. PipelineInv /\ [PipelineNext]_pipelineVars =>
        [\A c \in Callers : pc[c] # "answered" /\ pc'[c] = "answered" /\ answer'[c].state = "READY"
           => answer'[c].pair \in store']_pipelineVars
  BY ServedStep
<1> QED BY <1>1, PipelineInvariance, PTL DEF PipelineSpec, ServedIsReadable

-----------------------------------------------------------------------------
(* Types and bounds.  An execution takes the number after the last stored  *)
(* one, and a number is stored by the execution that took it: no number    *)
(* is greater than the number of executions that have begun.               *)
Begun == {f \in Flight : flights[f].at \notin {"none", "begin"}}

WaitsFor(c) == on[c] \in Flight \cup {Nothing} /\ (pc[c] = "waits" <=> on[c] # Nothing)

Numbered ==
  /\ DOMAIN on = Callers /\ \A c \in Callers : WaitsFor(c)
  /\ traced <= Cardinality(Begun)
  /\ \A f \in Flight : flights[f].start <= Cardinality(Begun)
  /\ faults \in 0..MaxFaults /\ stops \in 0..MaxStops /\ removals \in 0..MaxRemovals

LEMMA FlightsFinite == IsFiniteSet(Flight) /\ Cardinality(Flight) = MaxFlights
<1>1. MaxFlights \in Nat /\ Flight = 1..MaxFlights
  BY DEF Flight
<1> QED BY <1>1, FS_Interval

LEMMA BegunGrows ==
  ASSUME NEW S, NEW T, S \subseteq T, T \subseteq Flight
  PROVE  /\ Cardinality(S) \in Nat /\ Cardinality(T) \in Nat
         /\ Cardinality(S) <= Cardinality(T) /\ Cardinality(T) <= MaxFlights
         /\ \A f \in T : f \notin S => Cardinality(S) + 1 <= Cardinality(T)
<1>1. IsFiniteSet(S) /\ IsFiniteSet(T)
  BY FlightsFinite, FS_Subset
<1>2. /\ Cardinality(S) \in Nat /\ Cardinality(T) \in Nat
      /\ Cardinality(S) <= Cardinality(T) /\ Cardinality(T) <= MaxFlights
  BY <1>1, FlightsFinite, FS_CardinalityType, FS_Subset
<1>3. ASSUME NEW f \in T, f \notin S PROVE Cardinality(S) + 1 <= Cardinality(T)
  <2>1. S \cup {f} \subseteq T
    BY <1>3
  <2>2. Cardinality(S \cup {f}) = Cardinality(S) + 1
    BY <1>1, <1>3, FS_AddElement
  <2> QED BY <1>1, <2>1, <2>2, FS_Subset
<1> QED BY <1>2, <1>3

(* The steps of an execution, as far as its number is concerned.           *)
Numbers(f) ==
  /\ traced' \in {traced, flights[f].start}
  /\ faults' \in {faults, faults + 1} /\ faults' \in 0..MaxFaults
  /\ UNCHANGED <<callVars, stops, removals>>

LEMMA NumbersKeep ==
  ASSUME PipelineInv, Numbered, NEW f \in Flight, Advances(f), Numbers(f)
  PROVE  Numbered'
<1>1. Begun \subseteq Begun' /\ Begun' \subseteq Flight /\ f \in Begun'
  BY DEF Begun, Advances
<1>2. /\ Cardinality(Begun) \in Nat /\ Cardinality(Begun') \in Nat
      /\ Cardinality(Begun) <= Cardinality(Begun')
      /\ \A g \in Begun' : g \notin Begun => Cardinality(Begun) + 1 <= Cardinality(Begun')
  BY <1>1, BegunGrows
<1>3. traced \in Nat /\ \A g \in Flight : flights[g].start \in Nat
  BY Typed DEF PipelineInv, Execution
<1>4. flights[f].at = "begin" => Cardinality(Begun) + 1 <= Cardinality(Begun')
  <2>1. flights[f].at = "begin" => f \notin Begun
    BY DEF Begun
  <2> QED BY <1>1, <1>2, <2>1
<1>5. traced' <= Cardinality(Begun')
  BY <1>2, <1>3 DEF Numbered, Numbers
<1>6. ASSUME NEW g \in Flight PROVE flights'[g].start <= Cardinality(Begun')
  <2>1. CASE g # f
    <3>1. flights'[g] = flights[g]
      BY <2>1 DEF Advances
    <3> QED BY <1>2, <1>3, <3>1 DEF Numbered
  <2>2. CASE g = f
    BY <1>2, <1>3, <1>4, <2>2 DEF Numbered, Advances, Counts
  <2> QED BY <2>1, <2>2
<1>7. DOMAIN on' = Callers /\ \A c \in Callers : WaitsFor(c)'
  BY DEF Numbered, Numbers, WaitsFor, callVars
<1> QED BY <1>5, <1>6, <1>7 DEF Numbered, Numbers

LEMMA FlightNumbers ==
  ASSUME PipelineInv, Numbered, NEW f \in Flight, FlightStep(f), ~Returns(f)
  PROVE  Numbers(f)
<1>1. Private(f) \/ StoresPair(f)
  BY Zenon DEF FlightStep, Private
<1>2. (Works \/ Fails) /\ (AppendsTrace(f) \/ UNCHANGED traced)
  <2>1. StoresPair(f) => (Works \/ Fails) /\ UNCHANGED traced
    BY Zenon DEF StoresPair
  <2> QED BY <1>1, <2>1, Effects
<1>3. faults' \in {faults, faults + 1} /\ faults' \in 0..MaxFaults
  BY <1>2 DEF Works, Fails, Numbered
<1>4. traced' \in {traced, flights[f].start}
  BY <1>2 DEF AppendsTrace
<1> QED BY <1>1, <1>3, <1>4, CallersRest DEF Numbers

(* The other steps: no execution gets a number.                            *)
LEMMA OthersKeep ==
  ASSUME PipelineInv, Numbered,
         UNCHANGED traced, faults' \in 0..MaxFaults, stops' \in 0..MaxStops,
         removals' \in 0..MaxRemovals, DOMAIN on' = Callers,
         \A c \in Callers : WaitsFor(c)',
         \A f \in Flight : flights'[f].start \in {0, flights[f].start},
         \A f \in Flight : flights[f].at \notin {"none", "begin"} => flights'[f].at \notin {"none", "begin"}
  PROVE  Numbered'
<1>1. Begun \subseteq Begun' /\ Begun' \subseteq Flight
  BY DEF Begun
<1>2. /\ Cardinality(Begun) \in Nat /\ Cardinality(Begun') \in Nat
      /\ Cardinality(Begun) <= Cardinality(Begun')
  BY <1>1, BegunGrows
<1>3. traced \in Nat /\ \A g \in Flight : flights[g].start \in Nat
  BY Typed DEF PipelineInv, Execution
<1> QED BY <1>2, <1>3 DEF Numbered

LEMMA ReturnNumbers ==
  ASSUME PipelineInv, Numbered, NEW f \in Flight, Returns(f)
  PROVE  Numbered'
<1>1. PICK m : m = [Idle EXCEPT !.at = "done", !.pair = flights[f].pair,
                                !.kept = flights[f].kept]
  OBVIOUS
<1>2. m.at = "done" /\ m.start = 0
  BY <1>1 DEF Idle
<1>3. flights' = [flights EXCEPT ![f] = m] /\ flights \in [Flight -> Execution]
  BY <1>1 DEF Returns, PipelineInv
<1>4. UNCHANGED <<traced, faults, stops, removals>>
  BY DEF Returns, sharedVars, bounds
<1>5. /\ pc' = [c \in Callers |-> IF pc[c] = "waits" /\ on[c] = f THEN "answered" ELSE pc[c]]
      /\ on' = [c \in Callers |-> IF on[c] = f THEN Nothing ELSE on[c]]
  BY DEF Returns, Released
<1>6. DOMAIN on' = Callers /\ \A c \in Callers : WaitsFor(c)'
  BY <1>5, NothingOutside DEF Numbered, WaitsFor
<1>7. \A g \in Flight : /\ flights'[g].start \in {0, flights[g].start}
                        /\ flights[g].at \notin {"none", "begin"} =>
                             flights'[g].at \notin {"none", "begin"}
  BY <1>2, <1>3
<1> QED BY <1>4, <1>6, <1>7, OthersKeep DEF Numbered

LEMMA CallerNumbers ==
  ASSUME PipelineInv, Numbered, NEW c \in Callers, Call(c) \/ CallerStep(c)
  PROVE  Numbered'
<1>1. /\ UNCHANGED <<traced, stops, removals>>
      /\ Works \/ Fails
  BY DEF Call, CallerStep, AsksCache, ChecksCache, OutOfFlights, sharedVars, bounds, Works
<1>2. faults' \in 0..MaxFaults
  BY <1>1 DEF Works, Fails, Numbered
<1>3. /\ pc[c] # "waits"
      /\ \/ \E f \in Flight : Joins(c, f)
         \/ on' = on /\ \E place \in {"idle", "cache", "check", "answered"} : pc' = [pc EXCEPT ![c] = place]
  <2>1. CASE Call(c)
    BY <2>1 DEF Call, FlightOf
  <2>2. CASE AsksCache(c) \/ OutOfFlights(c)
    BY <2>2 DEF AsksCache, OutOfFlights
  <2>3. CASE ChecksCache(c)
    BY <2>3 DEF ChecksCache, Answers, Joinable, FlightOf
  <2> QED BY <2>1, <2>2, <2>3 DEF CallerStep
<1>4. DOMAIN on' = Callers /\ \A b \in Callers : WaitsFor(b)'
  BY <1>3, NothingOutside DEF Numbered, WaitsFor, Joins, PipelineInv
<1>5. \/ UNCHANGED flights
      \/ \E f \in Flight : /\ flights[f].at = "none"
                           /\ flights' = [flights EXCEPT ![f].at = "begin", ![f].dep = dep[c]]
  BY DEF Call, CallerStep, AsksCache, ChecksCache, OutOfFlights
<1>6. \A g \in Flight : /\ flights'[g].start \in {0, flights[g].start}
                        /\ flights[g].at \notin {"none", "begin"} =>
                             flights'[g].at \notin {"none", "begin"}
  <2>1. CASE UNCHANGED flights
    BY <2>1
  <2>2. ASSUME NEW f \in Flight, flights[f].at = "none",
               flights' = [flights EXCEPT ![f].at = "begin", ![f].dep = dep[c]],
               NEW g \in Flight
        PROVE  /\ flights'[g].start \in {0, flights[g].start}
               /\ flights[g].at \notin {"none", "begin"} => flights'[g].at \notin {"none", "begin"}
    <3>1. PICK m : m = [flights[f] EXCEPT !.at = "begin", !.dep = dep[c]]
      OBVIOUS
    <3>2. flights' = [flights EXCEPT ![f] = m] /\ flights \in [Flight -> Execution]
      BY <2>2, <3>1 DEF PipelineInv
    <3>3. m.start = flights[f].start
      BY <3>1, Typed DEF Execution
    <3> QED BY <2>2, <3>2, <3>3
  <2> QED BY <1>5, <2>1, <2>2
<1> QED BY <1>1, <1>2, <1>4, <1>6, OthersKeep DEF Numbered

LEMMA StopNumbers ==
  ASSUME PipelineInv, Numbered, ProcessStops \/ Removes
  PROVE  Numbered'
<1>1. CASE ProcessStops
  <2>1. PICK m : m = [Idle EXCEPT !.at = "stopped"]
    OBVIOUS
  <2>2. m.at = "stopped" /\ m.start = 0
    BY <2>1 DEF Idle
  <2>3. flights' = [f \in Flight |-> IF Active(f) THEN m ELSE flights[f]]
    BY <1>1, <2>1 DEF ProcessStops
  <2>4. UNCHANGED <<traced, faults, removals>> /\ stops' \in 0..MaxStops
    BY <1>1 DEF ProcessStops, Numbered
  <2>5. DOMAIN on' = Callers /\ \A c \in Callers : WaitsFor(c)'
    BY <1>1 DEF ProcessStops, WaitsFor
  <2> QED BY <2>2, <2>3, <2>4, <2>5, OthersKeep DEF Numbered
<1>2. CASE Removes
  <2>1. UNCHANGED <<traced, faults, stops, on, pc, flights>> /\ removals' \in 0..MaxRemovals
    BY <1>2 DEF Removes, callVars, Numbered
  <2>2. \A c \in Callers : WaitsFor(c)'
    BY <2>1 DEF Numbered, WaitsFor
  <2> QED BY <2>1, <2>2, OthersKeep DEF Numbered
<1> QED BY <1>1, <1>2

LEMMA NumberedHolds == PipelineSpec => []Numbered
<1>1. PipelineInit => Numbered
  <2> SUFFICES ASSUME PipelineInit PROVE Numbered
    OBVIOUS
  <2>1. Begun \subseteq Flight
    BY DEF Begun
  <2>2. Cardinality(Begun) \in Nat
    BY <2>1, BegunGrows
  <2>3. \A f \in Flight : flights[f].start = 0
    BY DEF PipelineInit, Idle
  <2> QED BY <2>2, <2>3 DEF PipelineInit, Numbered, WaitsFor
<1>2. PipelineInv /\ Numbered /\ [PipelineNext]_pipelineVars => Numbered'
  <2> SUFFICES ASSUME PipelineInv, Numbered, [PipelineNext]_pipelineVars PROVE Numbered'
    OBVIOUS
  <2>1. CASE UNCHANGED pipelineVars
    BY <2>1 DEF pipelineVars, Numbered, WaitsFor, Begun
  <2>2. ASSUME NEW f \in Flight, FlightStep(f) PROVE Numbered'
    BY <2>2, FlightNumbers, FlightAdvances, NumbersKeep, ReturnNumbers
  <2> QED BY <2>1, <2>2, CallerNumbers, StopNumbers DEF PipelineNext
<1> QED BY <1>1, <1>2, PipelineInvariance, PTL DEF PipelineSpec

(* Every variable keeps its type; no flight is in an illegal state of the  *)
(* state machine, and no number of the trace exceeds the executions.       *)
THEOREM PipelineTypesHold == PipelineSpec => []PipelineTypeOK
<1>1. PipelineInv /\ Numbered => PipelineTypeOK
  <2> SUFFICES ASSUME PipelineInv, Numbered PROVE PipelineTypeOK
    OBVIOUS
  <2>1. Cardinality(Begun) \in Nat /\ Cardinality(Begun) <= MaxFlights
    BY BegunGrows DEF Begun
  <2>2. traced \in 0..MaxFlights
    BY <2>1 DEF PipelineInv, Numbered
  <2>3. ASSUME NEW f \in Flight
        PROVE  /\ flights[f].state \in State /\ flights[f].start \in 0..MaxFlights
               /\ Made(flights[f].concept, flights[f].lab)
    <3>1. flights[f].start \in Nat
      BY Typed DEF Execution
    <3>2. /\ flights[f].concept \in Concepts \cup {Nothing} /\ flights[f].lab \in Labs \cup {Nothing}
          /\ flights[f].lab # Nothing => flights[f].concept # Nothing
      BY Typed, AtPlace DEF PartsFit
    <3>3. \A x \in Concepts : x \in Concept(x.by, x.rev) /\ x.by \in Flight /\ x.rev \in {1, 2}
      BY DEF Concepts, Concept
    <3>4. flights[f].concept \in {Nothing} \cup UNION {Concept(g, rev) : g \in Flight, rev \in {1, 2}}
      BY <3>2, <3>3
    <3>5. flights[f].lab \in Labs => flights[f].lab.by \in Flight /\ flights[f].lab.rev \in {1, 2}
      BY DEF Labs
    <3> QED BY <2>1, <3>1, <3>2, <3>4, <3>5, Typed DEF Numbered, Made
  <2> QED BY <2>2, <2>3 DEF PipelineTypeOK, PipelineInv, Numbered, WaitsFor
<1> QED BY <1>1, PipelineInvariance, NumberedHolds, PTL
=============================================================================

--------------------------- MODULE DraftAuthoring ---------------------------
(***************************************************************************)
(* One call of a content agent (concept-tutor, code-lab, tiered-evaluator): *)
(* the model writes a draft stage by stage, every stage may be repaired a  *)
(* bounded number of times, a draft with a private half is executed by an  *)
(* independent verifier and repaired after it, and the trust boundary turns *)
(* the last draft into artifacts.  A lesson is written in segments by       *)
(* several threads that share one cursor; when one thread fails the others *)
(* are not stopped.                                                        *)
(*                                                                         *)
(* Wording, citations and schemas are one bit of a half, "sound"; of the   *)
(* code only what the verifier can see is kept: whether the reference      *)
(* passes the hidden tests, whether the starter does, and whether the      *)
(* public half tells enough to rebuild the reference.                      *)
(***************************************************************************)
EXTENDS Naturals, FiniteSets, FiniteSetsExt

CONSTANTS
  Segments,      \* parts of the lesson (groups of objectives)
  Concurrency,   \* threads writing parts of the lesson
  MaxRepairs,    \* repairs of one stage: boundedRepairs
  MaxTransport,  \* times a request is sent again after the transport failed
  MaxRounds,     \* repairs after verification: max_tool_retry
  None

ASSUME AuthoringAssumption ==
  /\ {Segments, Concurrency} \subseteq Nat \ {0}
  /\ {MaxRepairs, MaxTransport, MaxRounds} \subseteq Nat
  /\ None \notin {"ready", "invalid", "unverified", "unavailable", "threw"}

Job == {"concept", "code_lab", "assessment"}
Thread == 1..Concurrency
Part == 1..Segments

(* Where a thread is: writing a part of the lesson, a half of a pair, a     *)
(* repair of the public half (safety, starter) or of the private half       *)
(* (reference), a whole draft at once, or nowhere.                          *)
Stage == {"off", "segment", "public", "secure", "safety", "starter",
          "reference", "whole"}

(* over is the revision of the public half the private half was normalised *)
(* to.                                                                     *)
Public == [rev : Nat, sound : BOOLEAN, starter : {"todo", "whole"}, tells : BOOLEAN]
Secure == [rev : Nat, sound : BOOLEAN, right : BOOLEAN, over : Nat]
Draft == [pub : Public, sec : Secure]
Finding == [reference : {"none", "passed", "failed", "broken"},
            starter : {"none", "passed", "failed", "broken"}, draft : Draft]
Outcome == {"ready", "invalid", "unverified", "unavailable", "threw"}

VARIABLES
  job, strategy,
  at, seg, attempt, tries,   \* of each thread
  cursor, lesson, authored,  \* next part, what each part of the lesson teaches, times it was written
  draft,                     \* the draft of the call, None before its first half
  phase,                     \* what the call is at
  round,                     \* repairs after verification
  seen,                      \* last finding of the verifier, with the draft it looked at
  result                     \* outcome of the public and of the private half

lessonVars == <<cursor, lesson, authored>>
vars == <<job, strategy, at, seg, attempt, tries, cursor, lesson, authored,
          draft, phase, round, seen, result>>

NoDraft == [pub |-> [rev |-> 0, sound |-> FALSE, starter |-> "todo", tells |-> FALSE],
            sec |-> [rev |-> 0, sound |-> FALSE, right |-> FALSE, over |-> 0]]
Both(outcome) == [pub |-> outcome, sec |-> outcome]
Unseen == [reference |-> "none", starter |-> "none", draft |-> NoDraft]

Workers == IF job = "concept" THEN 1..Min({Concurrency, Segments}) ELSE {1}
Staged == strategy = "staged"
FirstStage ==
  IF job = "concept" THEN (IF Staged THEN "segment" ELSE "whole")
  ELSE IF Staged THEN "public" ELSE "whole"

(* The structural gates: a lesson is sound by itself; of a pair each half   *)
(* is sound, both are of one contract, and no answer is in what the learner *)
(* sees.                                                                   *)
Separated(d) == ~d.pub.tells
Contracted(d) == d.sec.over = d.pub.rev
LessonStructured(d) == d.pub.sound
PairStructured(d) == d.pub.sound /\ d.sec.sound /\ Contracted(d) /\ Separated(d)
Structured(d) == IF job = "concept" THEN LessonStructured(d) ELSE PairStructured(d)

(* What the trust boundary makes of an accepted answer: identifiers, plan   *)
(* and contract are the program's own.                                     *)
PublicOf(starter) == [rev |-> 1, sound |-> TRUE, starter |-> starter, tells |-> FALSE]
ItemsOf == PublicOf("todo")
SecureOf(right) == [rev |-> 1, sound |-> TRUE, right |-> right, over |-> 0]

(* normalizeCodeLabSecure: the private half takes over the contract of the *)
(* public half it will ship with; normalizeAssessmentPair does so for the  *)
(* items of an assessment.                                                 *)
Renormalised(d) == [pub |-> d.pub, sec |-> [d.sec EXCEPT !.over = d.pub.rev]]
Paired(d) == [pub |-> d.pub, sec |-> [d.sec EXCEPT !.over = d.pub.rev]]

-----------------------------------------------------------------------------
Init ==
  /\ job \in Job /\ strategy \in {"staged", "monolithic"}
  /\ at = [t \in Thread |-> "off"] /\ seg = [t \in Thread |-> 0]
  /\ attempt = [t \in Thread |-> 0] /\ tries = [t \in Thread |-> 0]
  /\ cursor = 1 /\ lesson = [p \in Part |-> 0] /\ authored = [p \in Part |-> 0]
  /\ draft = NoDraft /\ phase = "start" /\ round = 0 /\ seen = Unseen
  /\ result = Both(None)

(* assertVersionCompatibility: prompts or model of the spec are not those  *)
(* of the provider; the call ends before the model is asked.               *)
Incompatible ==
  /\ phase = "start"
  /\ phase' = "ended" /\ result' = Both("unavailable")
  /\ UNCHANGED <<job, strategy, at, seg, attempt, tries, lessonVars, draft,
                 round, seen>>

(* The part a free thread takes: cursor is read and advanced in one step   *)
(* of the event loop.                                                      *)
Taken == cursor
Advanced_Late == cursor
Advanced == cursor + 1

Starts ==
  /\ phase = "start" /\ phase' = "draft"
  /\ IF FirstStage = "segment"
     THEN /\ at' = [t \in Thread |-> IF t \in Workers THEN "segment" ELSE "off"]
          /\ seg' = [t \in Thread |-> IF t \in Workers THEN t ELSE 0]
          /\ cursor' = Cardinality(Workers) + 1
     ELSE at' = [at EXCEPT ![1] = FirstStage] /\ UNCHANGED <<seg, cursor>>
  /\ UNCHANGED <<job, strategy, attempt, tries, lesson, authored, draft, round,
                 seen, result>>

-----------------------------------------------------------------------------
(* Ends of the call.  An error of one thread rejects the call; the others  *)
(* go on and their answers reach nobody.                                   *)
EndsWith(outcome) ==
  IF result = Both(None) THEN phase' = "ended" /\ result' = Both(outcome)
  ELSE UNCHANGED <<phase, result>>

Stops(t) ==
  /\ at' = [at EXCEPT ![t] = "off"] /\ attempt' = [attempt EXCEPT ![t] = 0]
  /\ tries' = [tries EXCEPT ![t] = 0]

Enters(t, stage) ==
  /\ at' = [at EXCEPT ![t] = stage] /\ attempt' = [attempt EXCEPT ![t] = 0]
  /\ tries' = [tries EXCEPT ![t] = 0]

(* The transport fails (no answer in time, network, 429 or 5xx): the same  *)
(* request again, or the error of the gateway ends the call.               *)
TransportFails(t) ==
  /\ at[t] # "off"
  /\ IF tries[t] < MaxTransport
     THEN tries' = [tries EXCEPT ![t] = @ + 1] /\ UNCHANGED <<at, attempt, phase, result>>
     ELSE Stops(t) /\ EndsWith("threw")
  /\ UNCHANGED <<job, strategy, seg, lessonVars, draft, round, seen>>

(* The server refuses (any other HTTP status): not sent again.             *)
ServerRefuses(t) ==
  /\ at[t] # "off" /\ Stops(t) /\ EndsWith("threw")
  /\ UNCHANGED <<job, strategy, seg, lessonVars, draft, round, seen>>

(* What a failed attempt leaves: the next attempt of the stage.            *)
Spent(t) == [attempt EXCEPT ![t] = @ + 1]
AgainOr(t, outcome) ==
  IF attempt[t] < MaxRepairs
  THEN attempt' = Spent(t) /\ tries' = [tries EXCEPT ![t] = 0] /\ UNCHANGED <<at, phase, result>>
  ELSE Stops(t) /\ EndsWith(outcome)

(* No JSON comes back: repaired like a bad answer, but the last time it is *)
(* the gateway's error that ends the call.  The monolithic path does not   *)
(* repair an answer that was cut off.                                      *)
Garbled(t, cut) ==
  /\ at[t] # "off"
  /\ IF cut /\ ~Staged THEN Stops(t) /\ EndsWith("threw") ELSE AgainOr(t, "threw")
  /\ UNCHANGED <<job, strategy, seg, lessonVars, draft, round, seen>>

-----------------------------------------------------------------------------
(* The lesson.  An accepted part goes to its own place; the thread takes   *)
(* the next part, also when the call has failed meanwhile.                 *)
WritesPart(t) ==
  /\ at[t] = "segment"
  /\ \E sound \in BOOLEAN :
       IF ~sound
       THEN AgainOr(t, "invalid") /\ UNCHANGED <<seg, lessonVars>>
       ELSE /\ lesson' = [lesson EXCEPT ![seg[t]] = seg[t]]
            /\ authored' = [authored EXCEPT ![seg[t]] = @ + 1]
            /\ IF Taken <= Segments
               THEN seg' = [seg EXCEPT ![t] = Taken] /\ cursor' = Advanced /\ Enters(t, "segment")
               ELSE Stops(t) /\ UNCHANGED <<seg, cursor>>
            /\ UNCHANGED <<phase, result>>
  /\ UNCHANGED <<job, strategy, draft, round, seen>>

(* The agent's own check of a lesson.                                      *)
LessonOutcome == [pub : {"ready", "invalid"}, sec : {None}]

(* mergeConceptSegments                                                    *)
Merges ==
  /\ job = "concept" /\ Staged /\ phase = "draft"
  /\ \A t \in Workers : at[t] = "off"
  /\ phase' = "ended" /\ result' \in LessonOutcome
  /\ UNCHANGED <<job, strategy, at, seg, attempt, tries, lessonVars, draft, round, seen>>

(* The whole draft in one answer; after the last attempt a bad draft is    *)
(* returned as it is, and the agent refuses it.                            *)
WritesAll(t) ==
  /\ at[t] = "whole"
  /\ \E sound, right, tells \in BOOLEAN, starter \in {"todo", "whole"} :
       /\ job = "assessment" => starter = "todo"
       /\ LET d == [pub |-> [rev |-> 1, sound |-> sound, starter |-> starter, tells |-> tells],
                    sec |-> [rev |-> 1, sound |-> sound, right |-> right, over |-> 1]] IN
          IF ~Structured(d)
          THEN AgainOr(t, "invalid") /\ UNCHANGED draft
          ELSE /\ Stops(t) /\ draft' = d
               /\ IF job = "concept"
                  THEN phase' = "ended" /\ result' \in LessonOutcome
                  ELSE phase' = "verify" /\ UNCHANGED result
  /\ UNCHANGED <<job, strategy, seg, lessonVars, round, seen>>

(* The public half turns out to tell the answer, or no longer to do so; the *)
(* private half is written again.                                          *)
Told(tells) == [draft.pub EXCEPT !.tells = tells]
Reworked(changed, right) ==
  [draft.sec EXCEPT !.rev = @ + (IF changed THEN 1 ELSE 0), !.right = right]

WritesHalf(t, next, half) ==
  /\ Enters(t, next) /\ draft' = [pub |-> half, sec |-> draft.sec] /\ UNCHANGED <<phase, result>>
Refused(t) == AgainOr(t, "invalid") /\ UNCHANGED draft

WritesPublic(t) ==
  /\ job = "code_lab" /\ at[t] = "public"
  /\ Refused(t) \/ \E starter \in {"todo", "whole"} : WritesHalf(t, "secure", PublicOf(starter))
  /\ UNCHANGED <<job, strategy, seg, lessonVars, round, seen>>

WritesItems(t) ==
  /\ job = "assessment" /\ at[t] = "public"
  /\ Refused(t) \/ WritesHalf(t, "secure", ItemsOf)
  /\ UNCHANGED <<job, strategy, seg, lessonVars, round, seen>>

(* Whether the public half tells the answer is known only now that there   *)
(* is one.  That does not refuse the private half of a lab: its public     *)
(* half is rewritten.                                                      *)
WritesSecure(t) ==
  /\ job = "code_lab" /\ at[t] = "secure"
  /\ \/ Refused(t)
     \/ \E right, tells \in BOOLEAN :
          /\ draft' = Renormalised([pub |-> Told(tells), sec |-> SecureOf(right)])
          /\ IF tells THEN Enters(t, "safety") /\ UNCHANGED <<phase, result>>
             ELSE Stops(t) /\ phase' = "verify" /\ UNCHANGED result
  /\ UNCHANGED <<job, strategy, seg, lessonVars, round, seen>>

WritesAnswers(t) ==
  /\ job = "assessment" /\ at[t] = "secure"
  /\ \/ Refused(t)
     \/ \E right \in BOOLEAN :
          /\ draft' = Paired([pub |-> draft.pub, sec |-> SecureOf(right)])
          /\ Stops(t) /\ phase' = "verify" /\ UNCHANGED result
  /\ UNCHANGED <<job, strategy, seg, lessonVars, round, seen>>

(* A new public half for the private half as it is: it must differ, and    *)
(* the two together must pass.                                             *)
Patched(changed, starter, tells) ==
  Renormalised([pub |-> [draft.pub EXCEPT !.rev = @ + (IF changed THEN 1 ELSE 0),
                                          !.starter = starter, !.tells = tells],
                sec |-> draft.sec])
Accepts_Unchanged(changed, sound, tells) == sound /\ ~tells
Accepts(changed, sound, tells) == changed /\ sound /\ ~tells

Conservative == Patched(TRUE, "todo", FALSE)

(* repairCodeLabPublicSafety: when the model fails, a fixed conservative   *)
(* text is tried before the call is given up.                              *)
MakesSafe(t) ==
  /\ at[t] = "safety"
  /\ \E changed, sound, tells \in BOOLEAN, starter \in {"todo", "whole"} :
       IF Accepts(changed, sound, tells)
       THEN /\ draft' = Patched(changed, starter, tells)
            /\ Stops(t) /\ phase' = "verify" /\ UNCHANGED result
       ELSE IF attempt[t] < MaxRepairs
       THEN Refused(t)
       ELSE /\ Stops(t)
            /\ \/ draft' = Conservative /\ phase' = "verify" /\ UNCHANGED result
               \/ UNCHANGED draft /\ EndsWith("invalid")
  /\ UNCHANGED <<job, strategy, seg, lessonVars, round, seen>>

-----------------------------------------------------------------------------
(* The verifier runs the reference and, for a lab, the starter.  A runner  *)
(* that does not answer or does not finish, after its own retries, is      *)
(* reported like a failure of the reference.                               *)
Good(f) == f.reference = "passed" /\ f.starter = "failed"
Limit == MaxRounds

Finds(reference, starter) ==
  /\ phase = "verify"
  /\ LET f == [reference |-> reference, starter |-> starter, draft |-> draft] IN
     seen' = f /\ phase' = IF Good(f) THEN "finalize" ELSE "judge"
  /\ UNCHANGED <<job, strategy, at, seg, attempt, tries, lessonVars, draft,
                 round, result>>

Verifies ==
  \E reference, starter \in {"passed", "failed", "broken"} :
    /\ reference = "passed" => draft.sec.right
    /\ reference = "failed" => ~draft.sec.right
    /\ starter = "passed" => draft.pub.starter = "whole"
    /\ starter = "failed" => draft.pub.starter = "todo" \/ ~draft.sec.right
    /\ job = "assessment" => starter = "failed"
    /\ Finds(reference, starter)

(* What is repaired: a starter that already passes, then a reference that  *)
(* does not; anything else is only verified once more.                     *)
RepairsStarter == job = "code_lab" /\ seen.starter = "passed"
RepairsReference == seen.reference # "passed"

Repairs ==
  /\ phase = "judge" /\ round < Limit /\ round' = round + 1
  /\ IF ~Staged THEN phase' = "ended" /\ result' = Both("unavailable") /\ UNCHANGED <<at, attempt, tries, draft>>
     ELSE IF RepairsStarter THEN Enters(1, "starter") /\ phase' = "draft" /\ UNCHANGED <<draft, result>>
     ELSE IF RepairsReference THEN Enters(1, "reference") /\ phase' = "draft" /\ UNCHANGED <<draft, result>>
     ELSE phase' = "verify" /\ draft' = Renormalised(draft) /\ UNCHANGED <<at, attempt, tries, result>>
  /\ UNCHANGED <<job, strategy, seg, lessonVars, seen>>

(* Every accepted repair is verified again.                                *)
AfterRepair_Publishes == "finalize"
AfterRepair == "verify"

(* repairCodeLabStarter                                                    *)
MendsStarter(t) ==
  /\ at[t] = "starter"
  /\ \E changed, sound, tells \in BOOLEAN, starter \in {"todo", "whole"} :
       IF ~Accepts(changed, sound, tells)
       THEN Refused(t)
       ELSE /\ draft' = Patched(changed, starter, tells) /\ UNCHANGED result
            /\ IF RepairsReference THEN Enters(t, "reference") /\ UNCHANGED phase
               ELSE Stops(t) /\ phase' = AfterRepair
  /\ UNCHANGED <<job, strategy, seg, lessonVars, round, seen>>

(* The reference or the hidden tests of a lab that failed are rewritten;   *)
(* what comes out must differ from what failed.                            *)
MendsReference(t) ==
  /\ job = "code_lab" /\ at[t] = "reference"
  /\ \E changed, sound, tells, right \in BOOLEAN :
       /\ ~changed => right = draft.sec.right
       /\ IF ~Accepts(changed, sound, tells)
          THEN Refused(t)
          ELSE /\ draft' = Renormalised([pub |-> Told(tells), sec |-> Reworked(changed, right)])
               /\ Stops(t) /\ phase' = AfterRepair /\ UNCHANGED result
  /\ UNCHANGED <<job, strategy, seg, lessonVars, round, seen>>

(* The answers of an assessment are written anew; nobody compares them     *)
(* with those that failed.                                                 *)
MendsAnswers(t) ==
  /\ job = "assessment" /\ at[t] = "reference"
  /\ \/ Refused(t)
     \/ \E changed, right \in BOOLEAN :
          /\ ~changed => right = draft.sec.right
          /\ draft' = Paired([pub |-> draft.pub, sec |-> Reworked(changed, right)])
          /\ Stops(t) /\ phase' = AfterRepair /\ UNCHANGED result
  /\ UNCHANGED <<job, strategy, seg, lessonVars, round, seen>>

Exhausted_Over == round > Limit
Exhausted == round >= Limit

GivesUp ==
  /\ phase = "judge" /\ Exhausted
  /\ phase' = "ended" /\ result' = Both("unverified")
  /\ UNCHANGED <<job, strategy, at, seg, attempt, tries, lessonVars, draft,
                 round, seen>>

(* finalizeDraft on each half by itself: its own citations and its own     *)
(* schema may still refuse one of them.                                    *)
Finalizes ==
  /\ phase = "finalize" /\ phase' = "ended"
  /\ \E pub, sec \in {"ready", "invalid"} : result' = [pub |-> pub, sec |-> sec]
  /\ UNCHANGED <<job, strategy, at, seg, attempt, tries, lessonVars, draft,
                 round, seen>>

ThreadStep(t) ==
  \/ TransportFails(t) \/ ServerRefuses(t) \/ \E cut \in BOOLEAN : Garbled(t, cut)
  \/ WritesPart(t) \/ WritesAll(t)
  \/ WritesPublic(t) \/ WritesSecure(t) \/ WritesItems(t) \/ WritesAnswers(t)
  \/ MakesSafe(t) \/ MendsStarter(t) \/ MendsReference(t) \/ MendsAnswers(t)
CallStep == Incompatible \/ Starts \/ Merges \/ Verifies \/ Repairs \/ GivesUp \/ Finalizes

Next == CallStep \/ \E t \in Thread : ThreadStep(t)
Spec == Init /\ [][Next]_vars

-----------------------------------------------------------------------------
(* Types and the bounds of the repairs: the attempts of a stage, the        *)
(* transport's repetitions and the repairs after verification stay within  *)
(* what the configuration allows, and so do the answers asked of the model. *)
TypeOK ==
  /\ job \in Job /\ strategy \in {"staged", "monolithic"}
  /\ at \in [Thread -> Stage] /\ seg \in [Thread -> 0..Segments]
  /\ attempt \in [Thread -> 0..MaxRepairs] /\ tries \in [Thread -> 0..MaxTransport]
  /\ cursor \in 1..(Segments + 1) /\ lesson \in [Part -> 0..Segments]
  /\ authored \in [Part -> Nat] /\ draft \in Draft /\ seen \in Finding
  /\ phase \in {"start", "draft", "verify", "judge", "finalize", "ended"}
  /\ round \in 0..MaxRounds
  /\ result \in [pub : Outcome \cup {None}, sec : Outcome \cup {None}]

(* What the verifier approved is what is published: the pair that becomes  *)
(* two ready artifacts is the very pair the last, good finding is about,   *)
(* however many repairs of one half or the other there were; its private   *)
(* half is the one of the public half beside it, its reference passes its  *)
(* hidden tests, what the learner starts from does not, and what the       *)
(* learner sees does not tell the answer (code-lab.ts 58-131).             *)
PublishedAsVerified ==
  (job # "concept" /\ "ready" \in {result.pub, result.sec}) =>
    /\ Good(seen) /\ seen.draft = draft /\ Structured(draft)
    /\ draft.sec.over = draft.pub.rev
    /\ draft.sec.right /\ draft.pub.starter = "todo" /\ ~draft.pub.tells

(* A repair of a lab after verification changes what failed: the verifier  *)
(* is never shown again the pair whose reference failed or whose starter   *)
(* passed (validateCodeLabExecutionRepairProgress, and the check of the    *)
(* starter in repairCodeLabStarter).                                       *)
RepairsMakeProgress ==
  job = "code_lab" /\ phase = "verify" /\ (seen.reference \in {"failed", "broken"} \/ seen.starter = "passed")
    => draft # seen.draft

(* The parts of a lesson are written once each, by whichever thread, and   *)
(* end up in their places whatever the order of the answers: a ready       *)
(* lesson teaches part p at place p (mapWithConcurrency).                  *)
EachPartOnce ==
  /\ \A p \in Part : lesson[p] \in {0, p} /\ authored[p] <= 1
  /\ job = "concept" /\ Staged /\ result.pub = "ready" => \A p \in Part : lesson[p] = p
=============================================================================

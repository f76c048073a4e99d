--------------------------- MODULE ReviewedPipeline ---------------------------
(***************************************************************************)
(* One call of runRecoverableReviewedCPipeline: generate the three public  *)
(* artifacts, have them reviewed (facts by role A's audit, teaching by     *)
(* role B's), revise them at most MaxRounds times under one GenerationSpec,*)
(* and, when the reviewers want other evidence or another path, build a    *)
(* new GenerationSpec and start over, at most MaxRecoveries times.  Only   *)
(* content that passed goes to the secure store and to on_ready.           *)
(*                                                                         *)
(* Generation, the reviewer, role A, role B, the secure store and on_ready *)
(* are remote: each answer is a step and may be a failure.  A spec is what *)
(* the reviews and recoveries tell apart: the path, the profile and the    *)
(* evidence it was built from, and the number of the recovery that built   *)
(* it, which stands for its ids and hashes.                                *)
(***************************************************************************)
EXTENDS Naturals, FiniteSets, Sequences

CONSTANTS
  Kind,        \* the reviewed artifacts: concept, code_lab, assessment
  First,       \* the artifact that carries the findings about the path
  Topic, Level,
  Suits,       \* the levels a topic suits, with its prerequisites: <<topic, level>>
  Dangling,    \* topics whose prerequisites the knowledge base does not have
  Packs,       \* the sets of topics an evidence pack may have strong facts of
  Flaws,       \* flaws of generated blocks that the audits can find
  MaxRounds,   \* max_external_revisions
  MaxRecoveries,
  None

ASSUME KindAssumption == First \in Kind
ASSUME RoundAssumption == MaxRounds \in 0..2 /\ MaxRecoveries \in 0..2
ASSUME SuitAssumption == Suits \subseteq Topic \X Level /\ Dangling \subseteq Topic
                            /\ Packs \subseteq SUBSET Topic

Flaw == {"missing_citation", "unsupported", "external_knowledge",
         "unsupported_citation", "missing_evidence_anchor"}
ASSUME FlawAssumption == Flaws \subseteq Flaw

VARIABLES
  spec,       \* the current input with the profile snapshot
  plan,       \* B's draft that waits for evidence, or None
  round,
  cand,       \* the candidate: its spec and round, and the flaws of its artifacts
  heard,      \* cumulativeInstructions: per artifact, what its agent is told
  report,     \* the answer of the reviewer in hand, or None
  reports,    \* the accepted reports of the current run of the reviewed pipeline
  made,       \* the report the reviewer made for the last request it got
  store,      \* candidates with a secure pair in the actual store
  registered, \* what on_ready was given
  history,    \* recovery_history: the scopes recovered from
  dirty,      \* an answer of the secure store or of on_ready was a failure
  result,     \* status of the reviewed pipeline and the recovery summary
  pc

vars == <<spec, plan, round, cand, heard, report, reports, made,
          store, registered, history, dirty, result, pc>>
runVars == <<round, cand, heard, report, reports>>

-----------------------------------------------------------------------------
Profile  == [learner : {"me", "other"}, version : 0..1, level : Level]
Evidence == [covers : Packs, level : Level]
Path     == [topic : Topic, bound : BOOLEAN]
Input    == [n : 0..MaxRecoveries, path : Path, profile : Profile,
             evidence : Evidence]
Note     == [kind : Kind, scope : {"artifact", "new_evidence", "new_spec"},
             code : Flaw \cup {"path"}]
Decision == {"pass", "revise", "reject"}
PC == {"generate", "review", "validate", "put", "verify", "clean", "ready",
       "recover", "plan", "refresh", "done"}

Init ==
  /\ spec \in [n : {0}, path : Path, evidence : Evidence,
               profile : [learner : {"me"}, version : {0}, level : Level]]
  /\ spec.path.bound /\ spec.path.topic \in spec.evidence.covers
  /\ spec.evidence.level = spec.profile.level
  /\ plan = None /\ round = 0 /\ cand = None
  /\ heard = [k \in Kind |-> {}]
  /\ report = None /\ reports = <<>> /\ made = None
  /\ store = {} /\ registered = {} /\ history = <<>> /\ dirty = FALSE
  /\ result = None /\ pc = "generate"

-----------------------------------------------------------------------------
(* The reviewer: A's fact audit per artifact, B's teaching audit per path. *)

Terminal == {"external_knowledge", "unsupported_citation"}

FactStatus(flaws) ==
  IF flaws \cap Terminal # {} THEN "reject"
  ELSE IF flaws # {} THEN "revise" ELSE "pass"

TeachingStatus(s) ==
  IF s.path.topic \in Dangling \/ <<s.path.topic, s.profile.level>> \notin Suits
  THEN "reject" ELSE "pass"

Arbitrate(fact, teaching, r) ==
  IF "reject" \in {fact, teaching} THEN "reject"
  ELSE IF "revise" \notin {fact, teaching} THEN "pass"
  ELSE IF r < MaxRounds THEN "revise" ELSE "reject"

Aggregate(decisions) ==
  IF "reject" \in decisions THEN "reject"
  ELSE IF "revise" \in decisions THEN "revise" ELSE "pass"

Scope(flaw) == IF flaw = "external_knowledge" THEN "new_evidence" ELSE "artifact"

FactNotes(flaws, k) ==
  {[kind |-> k, scope |-> Scope(f), code |-> f] : f \in flaws}
PathNotes(s) ==
  IF TeachingStatus(s) = "pass" THEN {}
  ELSE {[kind |-> First, scope |-> "new_spec", code |-> "path"]}

WidestScope(notes) ==
  LET scopes == {i.scope : i \in notes} IN
  IF "new_spec" \in scopes THEN "new_spec"
  ELSE IF "new_evidence" \in scopes THEN "new_evidence" ELSE "artifact"

(* The ContentReviewResult of the local review of candidate c under s.     *)
Review(c, s) ==
  LET decide == [k \in Kind |-> Arbitrate(FactStatus(c.flaws[k]), TeachingStatus(s), c.round)]
      notes  == PathNotes(s) \cup UNION {FactNotes(c.flaws[k], k) : k \in Kind}
      scope  == WidestScope(notes)
  IN [spec |-> s.n, round |-> c.round, teaching |-> TeachingStatus(s),
      fact |-> [k \in Kind |-> FactStatus(c.flaws[k])],
      decide |-> decide, decision |-> Aggregate({decide[k] : k \in Kind}),
      notes |-> notes, scope |-> scope,
      unsupported |-> FALSE, unknown |-> s.path.topic \in Dangling,
      canRecover |-> scope # "new_spec" \/ s.path.topic \notin Dangling]

(* Answers that are no review of this candidate: late ones to an earlier   *)
(* request, and ones whose decisions do not follow from their statuses or  *)
(* miss an artifact.                                                       *)
Garbled(r) ==
  {[r EXCEPT !.decision = d] : d \in Decision \ {r.decision}}
    \cup {[r EXCEPT !.decide[k] = d] : k \in Kind, d \in Decision}
    \cup {[r EXCEPT !.decide = [k \in K |-> r.decide[k]]] : K \in (SUBSET Kind) \ {Kind}}

(* Mutant: a report for another round of the spec is taken.                *)
ForRequest_AnyRound(r) == r.spec = spec.n
ForRequest(r) == r.spec = spec.n /\ r.round = round

Consistent(r) ==
  /\ DOMAIN r.decide = Kind
  /\ \A k \in Kind : r.decide[k] = Arbitrate(r.fact[k], r.teaching, r.round)
  /\ r.decision = Aggregate({r.decide[k] : k \in Kind})
  /\ \A i \in r.notes : r.decide[i.kind] # "pass"

Valid(r) == ForRequest(r) /\ Consistent(r)

CanRevise(r) ==
  /\ r.decision = "revise" /\ round < MaxRounds
  /\ r.notes # {} /\ \A i \in r.notes : i.scope = "artifact"

(* Mutant: an agent hears of the last report only.                         *)
Merged_Last(notes) == [k \in Kind |-> {i \in notes : i.kind = k}]

Merged(notes) == [k \in Kind |-> heard[k] \cup {i \in notes : i.kind = k}]

-----------------------------------------------------------------------------
(* The reviewed pipeline: runReviewedCPipeline.                            *)

Return(status, reason, reps) ==
  /\ result' = [status |-> status, reason |-> reason, code |-> None, scope |-> None]
  /\ reports' = reps /\ pc' = "recover"

(* runCPipeline with a temporary store: all three artifacts or none.       *)
Generate(f) ==
  /\ pc = "generate"
  /\ cand' = [spec |-> spec, round |-> round, flaws |-> f]
  /\ pc' = "review"
  /\ UNCHANGED <<spec, plan, round, heard, report, reports, made, store,
                 registered, history, dirty, result>>

NotReady ==
  /\ pc = "generate" /\ Return("blocked", "generation", reports)
  /\ UNCHANGED <<spec, plan, round, cand, heard, report, made,
                 store, registered, history, dirty>>

(* The provider cannot teach the target: the report says so in place of    *)
(* the reviewers.                                                          *)
Unsupported ==
  /\ pc = "generate"
  /\ Return("blocked", "unsupported",
            <<[spec |-> spec.n, round |-> 0, teaching |-> "reject",
               fact |-> [k \in Kind |-> "pass"], decide |-> [k \in Kind |-> "reject"],
               decision |-> "reject", notes |-> {}, scope |-> "new_spec",
               unsupported |-> TRUE, unknown |-> FALSE, canRecover |-> FALSE]>>)
  /\ UNCHANGED <<spec, plan, round, cand, heard, report, made,
                 store, registered, history, dirty>>

Answered(r) ==
  /\ pc = "review" /\ report' = r /\ pc' = "validate"
  /\ made' = Review(cand, spec)
  /\ UNCHANGED <<spec, plan, round, cand, heard, reports, store,
                 registered, history, dirty, result>>

Reviews == Answered(Review(cand, spec))
AnswersLate == made # None /\ Answered(made)
AnswersWrongly ==
  pc = "review" /\ \E r \in Garbled(Review(cand, spec)) : Answered(r)

(* The service is down, or its answer is no review of this request.        *)
ReviewFails ==
  /\ \/ pc = "review"
     \/ pc = "validate" /\ ~Valid(report)
  /\ Return("failed", "PROVIDER_ERROR", reports) /\ report' = None
  /\ UNCHANGED <<spec, plan, round, cand, heard, made, store,
                 registered, history, dirty>>

Passes ==
  /\ pc = "validate" /\ Valid(report) /\ report.decision = "pass"
  /\ reports' = Append(reports, report) /\ report' = None /\ pc' = "put"
  /\ UNCHANGED <<spec, plan, round, cand, heard, made, store,
                 registered, history, dirty, result>>

Revise ==
  /\ pc = "validate" /\ Valid(report) /\ CanRevise(report)
  /\ heard' = Merged(report.notes)
  /\ reports' = Append(reports, report) /\ report' = None
  /\ round' = round + 1 /\ cand' = None /\ pc' = "generate"
  /\ UNCHANGED <<spec, plan, made, store, registered, history,
                 dirty, result>>

Rejects ==
  /\ pc = "validate" /\ Valid(report) /\ report.decision # "pass" /\ ~CanRevise(report)
  /\ Return("blocked", "review", Append(reports, report)) /\ report' = None
  /\ UNCHANGED <<spec, plan, round, cand, heard, made, store,
                 registered, history, dirty>>

(* commitSecureArtifacts: putBatch, read back, compare, clean up.          *)
Put ==
  /\ pc = "put" /\ store' = store \cup {cand} /\ pc' = "verify"
  /\ UNCHANGED <<spec, plan, runVars, made, registered, history, dirty,
                 result>>

PutFails(stored) ==
  /\ pc = "put"
  /\ store' = IF stored THEN store \cup {cand} ELSE store
  /\ dirty' = (dirty \/ stored) /\ Return("failed", "SECURE_STORE_ERROR", reports)
  /\ UNCHANGED <<spec, plan, round, cand, heard, report, made,
                 registered, history>>

Verified(same) ==
  /\ pc = "verify" /\ pc' = IF same THEN "ready" ELSE "clean"
  /\ UNCHANGED <<spec, plan, runVars, made, store, registered, history,
                 dirty, result>>

(* Mutant: a pair that fails its check stays in the store.                 *)
Cleaned_Kept == store

Cleaned == store \ {cand}

Clean(fails) ==
  /\ pc = "clean"
  /\ store' = IF fails THEN store ELSE Cleaned
  /\ dirty' = (dirty \/ fails) /\ Return("failed", "SECURE_STORE_ERROR", reports)
  /\ UNCHANGED <<spec, plan, round, cand, heard, report, made,
                 registered, history>>

-----------------------------------------------------------------------------
(* The recoverable pipeline: runRecoverableReviewedCPipeline.              *)

Done(status, reason, code, scope) ==
  /\ result' = [status |-> status, reason |-> reason, code |-> code, scope |-> scope]
  /\ pc' = "done"

End(code, scope) == Done(result.status, result.reason, code, scope)

(* on_ready registers the run before READY is returned; if it throws, the  *)
(* call throws and the secure pair stays.                                  *)
OnReady ==
  /\ pc = "ready" /\ registered' = registered \cup {cand}
  /\ Done("ready", "released", "READY", None)
  /\ UNCHANGED <<spec, plan, runVars, made, store, history, dirty>>

OnReadyThrows ==
  /\ pc = "ready" /\ dirty' = TRUE /\ Done("thrown", "on_ready", None, None)
  /\ UNCHANGED <<spec, plan, runVars, made, store, registered, history>>

HasDirective == reports # <<>> /\ reports[Len(reports)].decision # "pass"
Directive == reports[Len(reports)]

Recoverable ==
  /\ HasDirective /\ ~Directive.unknown /\ Directive.scope # "artifact"
  /\ Directive.canRecover /\ Len(history) < MaxRecoveries

GiveUp ==
  /\ pc = "recover" /\ ~Recoverable
  /\ IF ~HasDirective THEN End("BLOCKED", "none")
     ELSE IF Directive.unsupported THEN End("UNSUPPORTED_TARGET", Directive.scope)
     ELSE End("BLOCKED", Directive.scope)
  /\ UNCHANGED <<spec, plan, runVars, made, store, registered, history,
                 dirty>>

Recover ==
  /\ pc = "recover" /\ Recoverable
  /\ history' = Append(history, Directive.scope)
  /\ pc' = IF Directive.scope = "new_evidence" THEN "refresh" ELSE "plan"
  /\ UNCHANGED <<spec, plan, runVars, made, store, registered, dirty,
                 result>>

(* The call goes on with the reviewed pipeline under the next spec.        *)
(* Mutant: reports of the last spec stay.                                  *)
ReportsKept_Stale == reports

ReportsKept == <<>>

StartOver(path, profile, evidence) ==
  /\ spec' = [n |-> spec.n + 1, path |-> [path EXCEPT !.bound = TRUE],
              profile |-> profile, evidence |-> evidence]
  /\ plan' = None /\ round' = 0 /\ cand' = None
  /\ heard' = [k \in Kind |-> {}] /\ reports' = ReportsKept /\ result' = None
  /\ pc' = "generate"
  /\ UNCHANGED <<report, made, store, registered, history, dirty>>

Covers(e, path, profile) == path.topic \in e.covers /\ e.level = profile.level

Acceptable(path, profile) ==
  /\ profile.learner = spec.profile.learner
  /\ profile # spec.profile => profile.version # spec.profile.version
  /\ path # spec.path \/ profile # spec.profile

(* replanLearningPath answers with a draft whose objectives may have no    *)
(* facts yet, and a profile or none.                                       *)
Plans(path, profile) ==
  /\ pc = "plan"
  /\ IF ~Acceptable(path, profile)
     THEN /\ End("BLOCKED", "new_spec")
          /\ UNCHANGED <<spec, plan, runVars, made, store, registered,
                         history, dirty>>
     ELSE IF Covers(spec.evidence, path, profile)
     THEN StartOver(path, profile, spec.evidence)
     ELSE /\ plan' = [path |-> path, profile |-> profile] /\ pc' = "refresh"
          /\ UNCHANGED <<spec, runVars, made, store, registered, history,
                         dirty, result>>

(* B is not there, fails, answers something else, or says no.              *)
NoPlan(code) ==
  /\ pc = "plan" /\ End(code, "new_spec")
  /\ UNCHANGED <<spec, plan, runVars, made, store, registered, history,
                 dirty>>

WantedPath    == IF plan = None THEN spec.path ELSE plan.path
WantedProfile == IF plan = None THEN spec.profile ELSE plan.profile

(* A's new evidence pack, for B's draft or for the path as it is.          *)
Refreshes(e) ==
  /\ pc = "refresh" /\ Covers(e, WantedPath, WantedProfile)
  /\ StartOver(WantedPath, WantedProfile, e)

NoEvidence ==
  /\ pc = "refresh"
  /\ End("BLOCKED", IF plan = None THEN "new_evidence" ELSE "new_spec")
  /\ UNCHANGED <<spec, plan, runVars, made, store, registered, history,
                 dirty>>

-----------------------------------------------------------------------------
Reviewed ==
  \/ \E f \in [Kind -> {{}} \cup {{x} : x \in Flaws}] : Generate(f)
  \/ NotReady \/ Unsupported
  \/ Reviews \/ AnswersLate \/ AnswersWrongly \/ ReviewFails
  \/ Passes \/ Revise \/ Rejects
  \/ Put \/ \E b \in BOOLEAN : PutFails(b) \/ Verified(b) \/ Clean(b)

Recovery ==
  \/ OnReady \/ OnReadyThrows \/ GiveUp \/ Recover
  \/ \E p \in Path, q \in Profile : Plans(p, q)
  \/ \E code \in {"BLOCKED", "UNSUPPORTED_TARGET"} : NoPlan(code)
  \/ \E e \in Evidence : Refreshes(e)
  \/ NoEvidence

Next == Reviewed \/ Recovery

Spec == Init /\ [][Next]_vars

-----------------------------------------------------------------------------
Report == [spec : 0..MaxRecoveries, round : 0..MaxRounds, teaching : Decision,
           fact : [Kind -> Decision], decide : [Kind -> Decision],
           decision : Decision, notes : SUBSET Note,
           scope : {"artifact", "new_evidence", "new_spec"},
           unsupported : BOOLEAN, unknown : BOOLEAN, canRecover : BOOLEAN]
Candidate == [spec : Input, round : 0..MaxRounds, flaws : [Kind -> SUBSET Flaws]]

(* Types; the accepted reports are complete ones.                          *)
TypeOK ==
  /\ spec \in Input /\ spec.path.bound
  /\ plan \in {None} \cup [path : Path, profile : Profile]
  /\ round \in 0..MaxRounds /\ cand \in Candidate \cup {None}
  /\ heard \in [Kind -> SUBSET Note]
  /\ reports \in Seq(Report) /\ made \in Report \cup {None}
  /\ store \subseteq Candidate /\ registered \subseteq store
  /\ history \in Seq({"new_evidence", "new_spec"}) /\ Len(history) <= MaxRecoveries
  /\ dirty \in BOOLEAN /\ pc \in PC

(* Whatever the reviewer answers, late, inconsistent or incomplete, no     *)
(* secure pair is committed for content one of whose artifacts fails the   *)
(* fact audit or whose path fails the teaching audit; and what is released *)
(* was made from evidence that has the facts of its path at the level of   *)
(* its profile, for the learner of the call, however often path, profile   *)
(* and evidence were replaced on the way.                                  *)
GateHolds ==
  /\ \A c \in store :
       TeachingStatus(c.spec) = "pass" /\ \A k \in Kind : FactStatus(c.flaws[k]) = "pass"
  /\ \A c \in registered :
       /\ Covers(c.spec.evidence, c.spec.path, c.spec.profile)
       /\ c.spec.evidence.level = c.spec.profile.level
       /\ c.spec.profile.learner = "me"

(* The gate of registration and publication: assertReviewedReadyPipeline.  *)
ReviewSequence(reps) ==
  /\ Len(reps) \in 1..(MaxRounds + 1)
  /\ \A i \in DOMAIN reps :
       /\ reps[i].spec = spec.n /\ reps[i].round = i - 1
       /\ i < Len(reps) => reps[i].decision = "revise"

Releasable(reps) ==
  /\ ReviewSequence(reps)
  /\ LET last == reps[Len(reps)] IN
       /\ last.decision = "pass" /\ last.notes = {} /\ last.teaching = "pass"
       /\ \A k \in Kind : last.fact[k] = "pass" /\ last.decide[k] = "pass"

(* What the pipeline calls READY always gets through the gate that         *)
(* registration and publication check on their own: one report per round   *)
(* from the first, all about this spec, each but the last asking for a     *)
(* revision and the last passing everything without a finding.             *)
ReadyIsReleasable == registered # {} => Releasable(reports)

(* When content is regenerated, the agent of each artifact was told all    *)
(* that the reviews of this spec have asked of that artifact so far, and   *)
(* nothing else.                                                           *)
AuthorHearsReviews ==
  pc = "review" =>
    \A k \in Kind :
      heard[k] = UNION {{n \in reports[i].notes : n.kind = k} : i \in DOMAIN reports}

(* A call that ends without a release leaves no secure pair behind, unless *)
(* the store or on_ready failed at it.                                     *)
NothingLeftBehind == pc = "done" /\ registered = {} /\ ~dirty => store = {}
=============================================================================

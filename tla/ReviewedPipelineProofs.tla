------------------------- MODULE ReviewedPipelineProofs -------------------------
(***************************************************************************)
(* Safety of the reviewed and recoverable pipeline, for any artifacts,     *)
(* topics, levels, packs and flaws.                                        *)
(*                                                                         *)
(* The reviewer is not trusted: what it answers may be a report it made    *)
(* for an earlier request, or one that contradicts itself.  The argument   *)
(* is that such an answer never survives the validation: a late report is  *)
(* about an earlier round or spec (MadeInv), and of the reports about this *)
(* candidate only the review itself is consistent (ReportInv).  So what is *)
(* accepted says what the audits say of the candidate (PassInv), and the   *)
(* accepted reports of a spec are one per round (RoundsInv).  StoreInv     *)
(* follows the one pair a call may have in the secure store.               *)
(***************************************************************************)
EXTENDS ReviewedPipeline, SequenceTheorems, TLAPS

USE RoundAssumption

(* What a spec may be: for the learner of the call, with evidence for its  *)
(* path.                                                                   *)
Fitting(s) == Covers(s.evidence, s.path, s.profile) /\ s.profile.learner = "me"

SpecInv ==
  /\ Fitting(spec)
  /\ plan = None \/ plan.profile.learner = "me"
  /\ \A c \in registered : Fitting(c.spec)

Reviewing == {"generate", "review", "validate"}
Storing == {"put", "verify", "clean", "ready"}

(* Each recovery is in the history before its spec is there.               *)
CountInv == /\ spec.n <= Len(history)
            /\ pc \in {"plan", "refresh"} => spec.n < Len(history)

CandInv ==
  pc \in {"review", "validate"} \cup Storing =>
    cand \in Candidate /\ cand.spec = spec /\ cand.round = round

(* The report made for an earlier request cannot be taken for this one.    *)
Before(r, n, i) == r.spec < n \/ (r.spec = n /\ r.round < i)

MadeInv ==
  made # None =>
    Before(made, spec.n, IF pc \in {"generate", "review"} THEN round ELSE round + 1)

ReportInv == pc = "validate" /\ Valid(report) => report = Review(cand, spec)

(* All rounds so far asked for a revision of this spec.                    *)
Revisions(reps) ==
  \A i \in 1..Len(reps) :
    reps[i].spec = spec.n /\ reps[i].round = i - 1 /\ reps[i].decision = "revise"

Asked(k, reps) == UNION {{n \in reps[i].notes : n.kind = k} : i \in DOMAIN reps}

RoundsInv ==
  pc \in Reviewing =>
    /\ Len(reports) = round /\ Revisions(reports)
    /\ \A k \in Kind : heard[k] = Asked(k, reports)

Clear(c) ==
  TeachingStatus(c.spec) = "pass" /\ \A k \in Kind : FactStatus(c.flaws[k]) = "pass"

PassInv ==
  /\ pc \in Storing => Clear(cand) /\ Releasable(reports)
  /\ \A c \in store : Clear(c)
  /\ registered # {} => pc = "done" /\ Releasable(reports)

StoreInv ==
  /\ pc \in Storing \ {"put"} => cand \in store
  /\ ~dirty => \/ pc \in Storing \ {"put"} /\ store = {cand}
               \/ pc = "done" /\ registered # {}
               \/ pc \notin Storing \ {"put"} /\ store = {}

Inv == /\ TypeOK /\ SpecInv /\ CountInv /\ CandInv /\ MadeInv /\ ReportInv
       /\ RoundsInv /\ PassInv /\ StoreInv

-----------------------------------------------------------------------------
(* The review of a candidate.                                              *)
LEMMA Statuses ==
  /\ \A flaws : FactStatus(flaws) \in Decision
  /\ \A s : TeachingStatus(s) \in {"pass", "reject"}
  /\ \A fact, teaching, r : Arbitrate(fact, teaching, r) \in Decision
  /\ \A decisions : Aggregate(decisions) \in Decision
BY DEF FactStatus, TeachingStatus, Arbitrate, Aggregate, Decision

(* What the fields of a review are.                                        *)
IsReview(r, c, s) ==
  /\ r.spec = s.n /\ r.round = c.round /\ r.teaching = TeachingStatus(s)
  /\ r.fact = [k \in Kind |-> FactStatus(c.flaws[k])]
  /\ r.decide = [k \in Kind |-> Arbitrate(r.fact[k], r.teaching, r.round)]
  /\ r.decision = Aggregate({r.decide[k] : k \in Kind})
  /\ r.notes = PathNotes(s) \cup UNION {FactNotes(c.flaws[k], k) : k \in Kind}
  /\ r = [spec |-> r.spec, round |-> r.round, teaching |-> r.teaching,
          fact |-> r.fact, decide |-> r.decide, decision |-> r.decision,
          notes |-> r.notes, scope |-> r.scope, unsupported |-> r.unsupported,
          unknown |-> r.unknown, canRecover |-> r.canRecover]
  /\ r.scope = WidestScope(r.notes)
  /\ r.unsupported \in BOOLEAN /\ r.unknown \in BOOLEAN /\ r.canRecover \in BOOLEAN

LEMMA ReviewFields ==
  ASSUME NEW c, NEW s
  PROVE  IsReview(Review(c, s), c, s)
<1> DEFINE fact == [k \in Kind |-> FactStatus(c.flaws[k])]
           decide == [k \in Kind |-> Arbitrate(FactStatus(c.flaws[k]), TeachingStatus(s), c.round)]
           notes == PathNotes(s) \cup UNION {FactNotes(c.flaws[k], k) : k \in Kind}
           scope == WidestScope(notes)
           r == [spec |-> s.n, round |-> c.round, teaching |-> TeachingStatus(s),
                 fact |-> fact, decide |-> decide,
                 decision |-> Aggregate({decide[k] : k \in Kind}),
                 notes |-> notes, scope |-> scope,
                 unsupported |-> FALSE, unknown |-> s.path.topic \in Dangling,
                 canRecover |-> scope # "new_spec" \/ s.path.topic \notin Dangling]
<1>1. Review(c, s) = r
  BY DEF Review
<1>2. decide = [k \in Kind |-> Arbitrate(fact[k], TeachingStatus(s), c.round)]
  OBVIOUS
<1>3. (s.path.topic \in Dangling) \in BOOLEAN
      /\ (scope # "new_spec" \/ s.path.topic \notin Dangling) \in BOOLEAN
  OBVIOUS
<1> HIDE DEF fact, decide, notes, scope
<1>4. IsReview(r, c, s)
  BY <1>2, <1>3 DEF IsReview, fact, notes, scope
<1> QED BY <1>1, <1>4

LEMMA ReviewTyped ==
  ASSUME NEW c \in Candidate, NEW s \in Input
  PROVE  Review(c, s) \in Report
<1> DEFINE r == Review(c, s)
<1>0. IsReview(r, c, s)
  BY ReviewFields
<1> HIDE DEF r
<1>1. s.n \in 0..MaxRecoveries /\ c.round \in 0..MaxRounds /\ c.flaws \in [Kind -> SUBSET Flaws]
  BY DEF Candidate, Input
<1>2. PathNotes(s) \subseteq Note
  BY KindAssumption DEF PathNotes, Note
<1>3. \A k \in Kind : FactNotes(c.flaws[k], k) \subseteq Note
  BY <1>1, FlawAssumption DEF FactNotes, Note, Scope
<1>4. r.notes \in SUBSET Note
  BY <1>0, <1>2, <1>3 DEF IsReview
<1>5. /\ r.spec \in 0..MaxRecoveries /\ r.round \in 0..MaxRounds
      /\ r.teaching \in Decision /\ r.decision \in Decision
      /\ r.fact \in [Kind -> Decision] /\ r.decide \in [Kind -> Decision]
  BY <1>0, <1>1, Statuses DEF IsReview, Decision
<1>6. /\ r.scope \in {"artifact", "new_evidence", "new_spec"}
      /\ r.unsupported \in BOOLEAN /\ r.unknown \in BOOLEAN /\ r.canRecover \in BOOLEAN
  BY <1>0 DEF IsReview, WidestScope
<1>7. r \in Report
  BY <1>0, <1>4, <1>5, <1>6 DEF IsReview, Report
<1> QED BY <1>7 DEF r

(* Of all answers about a candidate the review alone is consistent.        *)
LEMMA OnlyTheReview ==
  ASSUME NEW c, NEW s, NEW r \in Garbled(Review(c, s)), Consistent(r)
  PROVE  r = Review(c, s)
<1> DEFINE R == Review(c, s)
<1>1. IsReview(R, c, s)
  BY ReviewFields
<1> HIDE DEF R
<1>2. /\ R.decide = [k \in Kind |-> Arbitrate(R.fact[k], R.teaching, R.round)]
      /\ R.decision = Aggregate({R.decide[k] : k \in Kind})
      /\ R = [spec |-> R.spec, round |-> R.round, teaching |-> R.teaching,
              fact |-> R.fact, decide |-> R.decide, decision |-> R.decision,
              notes |-> R.notes, scope |-> R.scope, unsupported |-> R.unsupported,
              unknown |-> R.unknown, canRecover |-> R.canRecover]
  BY <1>1 DEF IsReview
<1>0. /\ DOMAIN r.decide = Kind
      /\ \A k \in Kind : r.decide[k] = Arbitrate(r.fact[k], r.teaching, r.round)
      /\ r.decision = Aggregate({r.decide[k] : k \in Kind})
  BY DEF Consistent
<1>3. \/ \E d \in Decision \ {R.decision} : r = [R EXCEPT !.decision = d]
      \/ \E k \in Kind, d \in Decision : r = [R EXCEPT !.decide[k] = d]
      \/ \E K \in (SUBSET Kind) \ {Kind} : r = [R EXCEPT !.decide = [k \in K |-> R.decide[k]]]
  BY DEF Garbled, R
<1>4. CASE \E d \in Decision \ {R.decision} : r = [R EXCEPT !.decision = d]
  <2>1. PICK d \in Decision \ {R.decision} : r = [R EXCEPT !.decision = d]
    BY <1>4
  <2>2. r.decision = d /\ r.decide = R.decide
    BY <1>2, <2>1
  <2>3. {r.decide[k] : k \in Kind} = {R.decide[k] : k \in Kind}
    BY <2>2
  <2>4. r.decision = R.decision
    <3> DEFINE x == {r.decide[k] : k \in Kind}
               y == {R.decide[k] : k \in Kind}
    <3>1. x = y /\ r.decision = Aggregate(x) /\ R.decision = Aggregate(y)
      BY <1>0, <1>2, <2>3
    <3> HIDE DEF x, y
    <3> QED BY <3>1
  <2> QED BY <2>1, <2>2, <2>4
<1>5. CASE \E k \in Kind, d \in Decision : r = [R EXCEPT !.decide[k] = d]
  <2>1. PICK k \in Kind, d \in Decision : r = [R EXCEPT !.decide[k] = d]
    BY <1>5
  <2>2. /\ r.decide = [R.decide EXCEPT ![k] = d] /\ r.fact = R.fact
        /\ r.teaching = R.teaching /\ r.round = R.round
    BY <1>2, <2>1
  <2>3. r.decide[k] = d /\ r.decide[k] = R.decide[k]
    BY <1>0, <1>2, <2>2
  <2>4. r.decide = R.decide
    BY <1>2, <2>2, <2>3
  <2> QED BY <1>2, <2>1, <2>2, <2>3, <2>4 DEF R
<1>6. CASE \E K \in (SUBSET Kind) \ {Kind} : r = [R EXCEPT !.decide = [k \in K |-> R.decide[k]]]
  <2>1. PICK K \in (SUBSET Kind) \ {Kind} : r = [R EXCEPT !.decide = [k \in K |-> R.decide[k]]]
    BY <1>6
  <2>2. r.decide = [k \in K |-> R.decide[k]]
    BY <1>2, <2>1
  <2>3. DOMAIN r.decide = K
    BY <2>2
  <2>4. K # Kind /\ DOMAIN r.decide = Kind
    BY <1>0, <2>1
  <2> QED BY <2>3, <2>4
<1> QED BY <1>3, <1>4, <1>5, <1>6

(* A review passes only what the audits pass, and then it has no findings. *)
LEMMA PassedIsClear ==
  ASSUME NEW c, NEW s, Review(c, s).decision = "pass"
  PROVE  /\ TeachingStatus(s) = "pass" /\ \A k \in Kind : FactStatus(c.flaws[k]) = "pass"
         /\ Review(c, s).notes = {} /\ Review(c, s).teaching = "pass"
         /\ \A k \in Kind : Review(c, s).fact[k] = "pass" /\ Review(c, s).decide[k] = "pass"
<1> DEFINE r == Review(c, s)
<1>0. IsReview(r, c, s)
  BY ReviewFields
<1>2. r.decision = "pass"
  OBVIOUS
<1> HIDE DEF r
<1>1. /\ r.teaching = TeachingStatus(s)
      /\ r.fact = [k \in Kind |-> FactStatus(c.flaws[k])]
      /\ r.decide = [k \in Kind |-> Arbitrate(r.fact[k], r.teaching, r.round)]
      /\ r.decision = Aggregate({r.decide[k] : k \in Kind})
      /\ r.notes = PathNotes(s) \cup UNION {FactNotes(c.flaws[k], k) : k \in Kind}
  BY <1>0 DEF IsReview
<1>3. \A k \in Kind : r.decide[k] = "pass"
  BY <1>1, <1>2, Statuses DEF Aggregate, Decision
<1>4. \A k \in Kind : r.fact[k] = "pass" /\ r.teaching = "pass"
  BY <1>1, <1>3, Statuses DEF Arbitrate, Decision
<1>5. r.teaching = "pass" /\ \A k \in Kind : FactStatus(c.flaws[k]) = "pass"
  BY <1>1, <1>4, KindAssumption
<1>6. PathNotes(s) = {}
  BY <1>1, <1>5 DEF PathNotes
<1>7. \A k \in Kind : FactNotes(c.flaws[k], k) = {}
  BY <1>5 DEF FactStatus, FactNotes
<1> QED BY <1>1, <1>3, <1>4, <1>5, <1>6, <1>7 DEF r

-----------------------------------------------------------------------------
(* The steps.                                                              *)
LEMMA InitInv == Init => Inv
<1> SUFFICES ASSUME Init PROVE Inv
  OBVIOUS
<1>1. TypeOK
  <2>1. reports \in Seq(Report) /\ history \in Seq({"new_evidence", "new_spec"})
        /\ Len(history) = 0
    BY DEF Init
  <2>2. spec \in Input /\ spec.path.bound
    BY DEF Init, Input, Profile
  <2>3. heard \in [Kind -> SUBSET Note]
    BY DEF Init
  <2>4. /\ plan = None /\ cand = None /\ made = None /\ round = 0 /\ pc = "generate"
        /\ store = {} /\ registered = {} /\ dirty = FALSE
    BY DEF Init
  <2>5. round \in 0..MaxRounds /\ Len(history) <= MaxRecoveries
    BY <2>1, <2>4
  <2>6. pc \in PC
    BY <2>4 DEF PC
  <2> QED BY <2>1, <2>2, <2>3, <2>4, <2>5, <2>6 DEF TypeOK
<1>2. SpecInv /\ CountInv
  <2>1. spec.n = 0 /\ spec.profile.learner = "me"
    BY DEF Init
  <2> QED BY <2>1 DEF Init, SpecInv, Fitting, Covers, CountInv
<1>3. CandInv /\ MadeInv /\ ReportInv
  BY DEF Init, CandInv, MadeInv, ReportInv, Storing
<1>4. RoundsInv
  BY DEF Init, RoundsInv, Revisions, Asked
<1>5. PassInv /\ StoreInv
  BY DEF Init, PassInv, StoreInv, Storing
<1> QED BY <1>1, <1>2, <1>3, <1>4, <1>5 DEF Inv

(* Nothing is registered before the end.                                   *)
LEMMA NotYet ==
  ASSUME Inv, pc # "done"
  PROVE  registered = {}
BY DEF Inv, PassInv

LEMMA GenerateInv ==
  ASSUME Inv, NEW f \in [Kind -> {{}} \cup {{x} : x \in Flaws}], Generate(f)
  PROVE  Inv'
<1>1. /\ pc = "generate" /\ pc' = "review"
      /\ cand' = [spec |-> spec, round |-> round, flaws |-> f]
      /\ UNCHANGED <<spec, plan, round, heard, report, reports, made, store,
                     registered, history, dirty, result>>
  BY DEF Generate
<1>2. cand' \in Candidate /\ cand'.spec = spec /\ cand'.round = round
  <2>1. f \in [Kind -> SUBSET Flaws]
    OBVIOUS
  <2> QED BY <1>1, <2>1 DEF Inv, TypeOK, Candidate
<1>3. TypeOK' /\ SpecInv' /\ CountInv'
  BY <1>1, <1>2 DEF Inv, TypeOK, SpecInv, CountInv, PC
<1>4. CandInv' /\ MadeInv' /\ ReportInv'
  BY <1>1, <1>2 DEF Inv, CandInv, MadeInv, ReportInv
<1>5. RoundsInv'
  BY <1>1 DEF Inv, RoundsInv, Revisions, Reviewing
<1>6. PassInv' /\ StoreInv'
  BY <1>1 DEF Inv, PassInv, StoreInv, Storing
<1> QED BY <1>3, <1>4, <1>5, <1>6 DEF Inv

(* The reviewed pipeline returns without READY.                            *)
LEMMA ReturnInv ==
  ASSUME Inv, pc # "done", pc' = "recover",
         UNCHANGED <<spec, plan, round, cand, heard, made, registered, history>>,
         reports' \in Seq(Report), dirty' \in BOOLEAN, dirty => dirty',
         store' \subseteq Candidate, \A c \in store' : Clear(c), ~dirty' => store' = {}
  PROVE  Inv'
<1>1. registered = {}
  BY NotYet
<1>2. TypeOK' /\ SpecInv' /\ CountInv'
  BY <1>1 DEF Inv, TypeOK, SpecInv, CountInv, PC
<1>3. CandInv' /\ ReportInv' /\ RoundsInv'
  BY DEF CandInv, ReportInv, RoundsInv, Storing, Reviewing
<1>4. MadeInv'
  <2> SUFFICES ASSUME made # None PROVE Before(made, spec.n, round + 1)
    BY DEF MadeInv
  <2>1. made \in Report /\ round \in Nat
    BY DEF Inv, TypeOK
  <2>2. made.round \in Nat
    BY <2>1 DEF Report
  <2> QED BY <2>1, <2>2 DEF Inv, MadeInv, Before
<1>5. PassInv' /\ StoreInv'
  BY <1>1 DEF PassInv, StoreInv, Storing
<1> QED BY <1>2, <1>3, <1>4, <1>5 DEF Inv

LEMMA ReturnsInv ==
  ASSUME Inv, NotReady \/ Unsupported \/ ReviewFails \/ Rejects
                \/ (\E b \in BOOLEAN : PutFails(b) \/ Clean(b))
  PROVE  Inv'
<1>1. /\ reports \in Seq(Report) /\ dirty \in BOOLEAN /\ store \subseteq Candidate
      /\ \A c \in store : Clear(c)
  BY DEF Inv, TypeOK, PassInv
<1>2. CASE NotReady \/ ReviewFails
  <2>1. /\ pc \in Reviewing /\ pc' = "recover" /\ UNCHANGED <<reports, dirty, store>>
        /\ UNCHANGED <<spec, plan, round, cand, heard, made, registered, history>>
    BY <1>2 DEF NotReady, ReviewFails, Return, Reviewing
  <2>2. pc # "done" /\ (~dirty' => store' = {})
    BY <2>1 DEF Inv, StoreInv, Reviewing, Storing
  <2> QED BY <1>1, <2>1, <2>2, ReturnInv
<1>3. CASE Unsupported
  <2> DEFINE r == [spec |-> spec.n, round |-> 0, teaching |-> "reject",
                   fact |-> [k \in Kind |-> "pass"], decide |-> [k \in Kind |-> "reject"],
                   decision |-> "reject", notes |-> {}, scope |-> "new_spec",
                   unsupported |-> TRUE, unknown |-> FALSE, canRecover |-> FALSE]
  <2>1. r \in Report
    <3>1. spec.n \in 0..MaxRecoveries
      BY DEF Inv, TypeOK, Input
    <3> QED BY <3>1 DEF Report, Decision
  <2>2. /\ pc = "generate" /\ pc' = "recover" /\ reports' = <<r>>
        /\ UNCHANGED <<spec, plan, round, cand, heard, made, store, registered,
                       history, dirty>>
    BY <1>3 DEF Unsupported, Return
  <2> HIDE DEF r
  <2>3. reports' \in Seq(Report)
    BY <2>1, <2>2
  <2>4. ~dirty' => store' = {}
    BY <2>2 DEF Inv, StoreInv, Storing
  <2> QED BY <1>1, <2>2, <2>3, <2>4, ReturnInv
<1>4. CASE Rejects
  <2>1. /\ pc = "validate" /\ Valid(report) /\ pc' = "recover"
        /\ reports' = Append(reports, report)
        /\ UNCHANGED <<spec, plan, round, cand, heard, made, store, registered,
                       history, dirty>>
    BY <1>4 DEF Rejects, Return
  <2>2. report \in Report
    BY <2>1, ReviewTyped DEF Inv, TypeOK, ReportInv, CandInv
  <2>3. reports' \in Seq(Report)
    BY <1>1, <2>1, <2>2
  <2>4. ~dirty' => store' = {}
    BY <2>1 DEF Inv, StoreInv, Storing
  <2> QED BY <1>1, <2>1, <2>3, <2>4, ReturnInv
<1>5. ASSUME NEW b \in BOOLEAN, PutFails(b) PROVE Inv'
  <2>1. /\ pc = "put" /\ pc' = "recover" /\ dirty' = (dirty \/ b)
        /\ store' = IF b THEN store \cup {cand} ELSE store
        /\ UNCHANGED <<spec, plan, round, cand, heard, made, reports, registered, history>>
    BY <1>5 DEF PutFails, Return
  <2>2. cand \in Candidate /\ Clear(cand) /\ (~dirty => store = {})
    BY <2>1 DEF Inv, CandInv, PassInv, StoreInv, Storing
  <2> QED BY <1>1, <2>1, <2>2, ReturnInv
<1>6. ASSUME NEW b \in BOOLEAN, Clean(b) PROVE Inv'
  <2>1. /\ pc = "clean" /\ pc' = "recover" /\ dirty' = (dirty \/ b)
        /\ store' = IF b THEN store ELSE store \ {cand}
        /\ UNCHANGED <<spec, plan, round, cand, heard, made, reports, registered, history>>
    BY <1>6 DEF Clean, Cleaned, Return
  <2>2. ~dirty => store = {cand}
    BY <2>1 DEF Inv, StoreInv, Storing
  <2> QED BY <1>1, <2>1, <2>2, ReturnInv
<1> QED BY <1>2, <1>3, <1>4, <1>5, <1>6

LEMMA AnsweredInv ==
  ASSUME Inv, NEW r, Answered(r),
         r = Review(cand, spec) \/ (made # None /\ r = made) \/ r \in Garbled(Review(cand, spec))
  PROVE  Inv'
<1>1. /\ pc = "review" /\ pc' = "validate" /\ report' = r /\ made' = Review(cand, spec)
      /\ UNCHANGED <<spec, plan, round, cand, heard, reports, store, registered,
                     history, dirty, result>>
  BY DEF Answered
<1>2. /\ cand \in Candidate /\ cand.spec = spec /\ cand.round = round /\ spec \in Input
      /\ round \in Nat
  BY <1>1 DEF Inv, CandInv, TypeOK
<1>3. made' \in Report /\ made'.spec = spec.n /\ made'.round = round
  <2>1. IsReview(made', cand, spec)
    BY <1>1, ReviewFields
  <2> QED BY <1>1, <1>2, <2>1, ReviewTyped DEF IsReview
<1>4. TypeOK' /\ SpecInv' /\ CountInv'
  BY <1>1, <1>3 DEF Inv, TypeOK, SpecInv, CountInv, PC
<1>5. CandInv' /\ MadeInv'
  BY <1>1, <1>2, <1>3 DEF Inv, CandInv, MadeInv, Before
<1>6. ReportInv'
  <2> SUFFICES ASSUME Valid(r) PROVE r = Review(cand, spec)
    <3>1. Valid(r)' <=> Valid(r)
      BY <1>1 DEF Valid, ForRequest, Consistent
    <3> QED BY <1>1, <3>1 DEF ReportInv, Valid, ForRequest, Consistent
  <2>1. CASE made # None /\ r = made
    <3>1. Before(r, spec.n, round)
      BY <1>1, <2>1 DEF Inv, MadeInv
    <3>2. r.spec = spec.n /\ r.round = round
      BY DEF Valid, ForRequest
    <3>3. spec.n \in Nat
      BY <1>2 DEF Input
    <3> QED BY <1>2, <3>1, <3>2, <3>3 DEF Before
  <2>2. CASE r \in Garbled(Review(cand, spec))
    BY <2>2, OnlyTheReview DEF Valid
  <2> QED BY <2>1, <2>2
<1>7. RoundsInv'
  BY <1>1 DEF Inv, RoundsInv, Revisions, Reviewing
<1>8. PassInv' /\ StoreInv'
  BY <1>1 DEF Inv, PassInv, StoreInv, Storing
<1> QED BY <1>4, <1>5, <1>6, <1>7, <1>8 DEF Inv

(* One more report, about this round.                                      *)
LEMMA OneMoreReport ==
  ASSUME Inv, pc = "validate", Valid(report), reports' = Append(reports, report)
  PROVE  /\ report \in Report /\ report = Review(cand, spec)
         /\ report.spec = spec.n /\ report.round = round
         /\ reports' \in Seq(Report) /\ Len(reports') = round + 1 /\ round \in Nat
         /\ Len(reports) = round /\ reports'[round + 1] = report
         /\ \A i \in 1..round : reports'[i] = reports[i]
         /\ Revisions(reports)
<1>1. report = Review(cand, spec) /\ cand \in Candidate /\ spec \in Input
  BY DEF Inv, ReportInv, CandInv, TypeOK
<1>2. report \in Report
  BY <1>1, ReviewTyped
<1>3. reports \in Seq(Report) /\ Len(reports) = round /\ round \in Nat /\ Revisions(reports)
  BY DEF Inv, TypeOK, RoundsInv, Reviewing
<1> QED BY <1>1, <1>2, <1>3 DEF Valid, ForRequest

LEMMA PassesInv ==
  ASSUME Inv, Passes
  PROVE  Inv'
<1>1. /\ pc = "validate" /\ pc' = "put" /\ Valid(report) /\ report.decision = "pass"
      /\ reports' = Append(reports, report)
      /\ UNCHANGED <<spec, plan, round, cand, heard, made, store, registered,
                     history, dirty, result>>
  BY DEF Passes
<1>2. /\ report = Review(cand, spec) /\ report.spec = spec.n /\ report.round = round
      /\ reports' \in Seq(Report) /\ Len(reports') = round + 1 /\ round \in 0..MaxRounds
      /\ Len(reports) = round /\ reports'[round + 1] = report
      /\ \A i \in 1..round : reports'[i] = reports[i]
      /\ Revisions(reports)
  BY <1>1, OneMoreReport DEF Inv, TypeOK
<1>3. cand \in Candidate /\ cand.spec = spec
  BY <1>1 DEF Inv, CandInv
<1>4. /\ Clear(cand) /\ report.notes = {} /\ report.teaching = "pass"
      /\ \A k \in Kind : report.fact[k] = "pass" /\ report.decide[k] = "pass"
  BY <1>1, <1>2, <1>3, PassedIsClear DEF Clear
<1>5. Releasable(reports')
  <2>1. ReviewSequence(reports')
    <3>1. Len(reports') \in 1..(MaxRounds + 1) /\ DOMAIN reports' = 1..(round + 1)
      BY <1>2
    <3>2. ASSUME NEW i \in 1..(round + 1)
          PROVE  /\ reports'[i].spec = spec.n /\ reports'[i].round = i - 1
                 /\ i < Len(reports') => reports'[i].decision = "revise"
      <4>1. CASE i \in 1..round
        BY <1>2, <4>1 DEF Revisions
      <4>2. CASE i = round + 1
        BY <1>2, <4>2
      <4> QED BY <1>2, <4>1, <4>2
    <3> QED BY <3>1, <3>2 DEF ReviewSequence
  <2> QED BY <1>1, <1>2, <1>4, <2>1 DEF Releasable
<1>6. TypeOK' /\ SpecInv' /\ CountInv'
  BY <1>1, <1>2 DEF Inv, TypeOK, SpecInv, CountInv, PC
<1>7. CandInv' /\ ReportInv' /\ RoundsInv'
  BY <1>1 DEF Inv, CandInv, ReportInv, RoundsInv, Reviewing
<1>8. MadeInv' /\ StoreInv'
  BY <1>1 DEF Inv, MadeInv, StoreInv, Storing
<1>9. PassInv'
  <2>1. Releasable(reports)' <=> Releasable(reports')
    BY <1>1 DEF Releasable, ReviewSequence
  <2> QED BY <1>1, <1>4, <1>5, <2>1, NotYet DEF Inv, PassInv, Clear
<1> QED BY <1>6, <1>7, <1>8, <1>9 DEF Inv

LEMMA ReviseInv ==
  ASSUME Inv, Revise
  PROVE  Inv'
<1>1. /\ pc = "validate" /\ pc' = "generate" /\ Valid(report) /\ CanRevise(report)
      /\ heard' = Merged(report.notes) /\ reports' = Append(reports, report)
      /\ round' = round + 1 /\ cand' = None
      /\ UNCHANGED <<spec, plan, made, store, registered, history, dirty, result>>
  BY DEF Revise
<1>2. /\ report \in Report /\ report.spec = spec.n /\ report.round = round
      /\ reports' \in Seq(Report) /\ Len(reports') = round + 1 /\ round \in Nat
      /\ Len(reports) = round /\ reports'[round + 1] = report
      /\ \A i \in 1..round : reports'[i] = reports[i]
      /\ Revisions(reports)
  BY <1>1, OneMoreReport
<1>3. /\ round < MaxRounds /\ report.decision = "revise" /\ report.notes \subseteq Note
      /\ heard' = [k \in Kind |-> heard[k] \cup {i \in report.notes : i.kind = k}]
  BY <1>1, <1>2 DEF CanRevise, Merged, Report
<1>4. TypeOK'
  <2>1. heard' \in [Kind -> SUBSET Note]
    BY <1>3 DEF Inv, TypeOK
  <2> QED BY <1>1, <1>2, <1>3, <2>1 DEF Inv, TypeOK, PC
<1>5. SpecInv' /\ CountInv' /\ CandInv' /\ ReportInv' /\ MadeInv'
  BY <1>1 DEF Inv, SpecInv, CountInv, CandInv, ReportInv, MadeInv, Storing
<1>6. RoundsInv'
  <2>1. Len(reports') = round' /\ DOMAIN reports' = 1..(round + 1)
    BY <1>1, <1>2
  <2>2. Revisions(reports)'
    <3>1. ASSUME NEW i \in 1..Len(reports')
          PROVE  /\ reports'[i].spec = spec.n /\ reports'[i].round = i - 1
                 /\ reports'[i].decision = "revise"
      <4>1. CASE i \in 1..round
        BY <1>2, <4>1 DEF Revisions
      <4>2. CASE i = round + 1
        BY <1>2, <1>3, <4>2
      <4> QED BY <1>2, <4>1, <4>2
    <3> QED BY <1>1, <3>1 DEF Revisions
  <2>3. ASSUME NEW k \in Kind PROVE heard'[k] = Asked(k, reports')
    <3>1. heard[k] = Asked(k, reports) /\ DOMAIN reports = 1..round
      BY <1>1, <1>2 DEF Inv, RoundsInv, Reviewing, TypeOK
    <3>2. heard'[k] = heard[k] \cup {n \in report.notes : n.kind = k}
      BY <1>3
    <3>3. Asked(k, reports') = Asked(k, reports) \cup {n \in report.notes : n.kind = k}
      BY <1>2, <2>1, <3>1 DEF Asked
    <3> QED BY <3>1, <3>2, <3>3
  <2> QED BY <2>1, <2>2, <2>3 DEF RoundsInv, Asked
<1>7. PassInv' /\ StoreInv'
  BY <1>1, NotYet DEF Inv, PassInv, StoreInv, Storing
<1> QED BY <1>4, <1>5, <1>6, <1>7 DEF Inv

(* The secure store.                                                       *)
LEMMA StoringInv ==
  ASSUME Inv, Put \/ \E b \in BOOLEAN : Verified(b)
  PROVE  Inv'
<1>1. /\ pc \in {"put", "verify"} /\ pc' \in Storing \ {"put"}
      /\ store' = IF pc = "put" THEN store \cup {cand} ELSE store
      /\ UNCHANGED <<spec, plan, round, cand, heard, report, reports, made,
                     registered, history, dirty, result>>
  BY DEF Put, Verified, runVars, Storing
<1>2. cand \in Candidate /\ Clear(cand) /\ Releasable(reports) /\ registered = {}
  BY <1>1, NotYet DEF Inv, CandInv, PassInv, Storing
<1>3. TypeOK' /\ SpecInv' /\ CountInv'
  BY <1>1, <1>2 DEF Inv, TypeOK, SpecInv, CountInv, PC, Storing
<1>4. CandInv' /\ ReportInv' /\ RoundsInv' /\ MadeInv'
  BY <1>1 DEF Inv, CandInv, ReportInv, RoundsInv, MadeInv, Storing, Reviewing
<1>5. PassInv'
  <2>1. Releasable(reports)'
    BY <1>1, <1>2 DEF Releasable, ReviewSequence
  <2> QED BY <1>1, <1>2, <2>1 DEF Inv, PassInv, Clear
<1>6. StoreInv'
  BY <1>1 DEF Inv, StoreInv, Storing
<1> QED BY <1>3, <1>4, <1>5, <1>6 DEF Inv

(* The call ends without a release.                                        *)
LEMMA DoneInv ==
  ASSUME Inv, pc' = "done", pc \in {"ready", "recover", "plan", "refresh"},
         UNCHANGED <<spec, plan, round, cand, heard, reports, made, store,
                     registered, history>>,
         dirty' = IF pc = "ready" THEN TRUE ELSE dirty
  PROVE  Inv'
<1>1. TypeOK' /\ SpecInv' /\ CountInv'
  BY DEF Inv, TypeOK, SpecInv, CountInv, PC
<1>2. CandInv' /\ ReportInv' /\ RoundsInv' /\ MadeInv'
  BY DEF Inv, CandInv, ReportInv, RoundsInv, MadeInv, Storing, Reviewing
<1>3. PassInv' /\ StoreInv'
  BY NotYet DEF Inv, PassInv, StoreInv, Storing
<1> QED BY <1>1, <1>2, <1>3 DEF Inv

LEMMA EndsInv ==
  ASSUME Inv, OnReadyThrows \/ GiveUp \/ NoEvidence
                \/ \E code \in {"BLOCKED", "UNSUPPORTED_TARGET"} : NoPlan(code)
  PROVE  Inv'
<1>1. /\ pc' = "done" /\ pc \in {"ready", "recover", "plan", "refresh"}
      /\ UNCHANGED <<spec, plan, round, cand, heard, reports, made, store,
                     registered, history>>
      /\ dirty' = IF pc = "ready" THEN TRUE ELSE dirty
  BY DEF OnReadyThrows, GiveUp, NoEvidence, NoPlan, End, Done, runVars
<1> QED BY <1>1, DoneInv

LEMMA OnReadyInv ==
  ASSUME Inv, OnReady
  PROVE  Inv'
<1>1. /\ pc = "ready" /\ pc' = "done" /\ registered' = registered \cup {cand}
      /\ UNCHANGED <<spec, plan, round, cand, heard, report, reports, made, store,
                     history, dirty>>
  BY DEF OnReady, Done, runVars
<1>2. /\ cand \in store /\ cand.spec = spec /\ Releasable(reports) /\ registered = {}
  BY <1>1, NotYet DEF Inv, StoreInv, CandInv, PassInv, Storing
<1>3. TypeOK' /\ SpecInv' /\ CountInv'
  BY <1>1, <1>2 DEF Inv, TypeOK, SpecInv, CountInv, PC
<1>4. CandInv' /\ ReportInv' /\ RoundsInv' /\ MadeInv'
  BY <1>1 DEF Inv, CandInv, ReportInv, RoundsInv, MadeInv, Storing, Reviewing
<1>5. PassInv' /\ StoreInv'
  <2>1. Releasable(reports)'
    BY <1>1, <1>2 DEF Releasable, ReviewSequence
  <2> QED BY <1>1, <1>2, <2>1 DEF Inv, PassInv, StoreInv, Storing, Clear
<1> QED BY <1>3, <1>4, <1>5 DEF Inv

-----------------------------------------------------------------------------
(* Recovery.                                                               *)
LEMMA RecoverInv ==
  ASSUME Inv, Recover
  PROVE  Inv'
<1>1. /\ pc = "recover" /\ pc' \in {"refresh", "plan"} /\ Recoverable
      /\ history' = Append(history, Directive.scope)
      /\ UNCHANGED <<spec, plan, round, cand, heard, report, reports, made, store,
                     registered, dirty, result>>
  BY DEF Recover, runVars
<1>2. /\ history' \in Seq({"new_evidence", "new_spec"})
      /\ Len(history') = Len(history) + 1 /\ Len(history') <= MaxRecoveries
  <2>1. reports \in Seq(Report) /\ reports # <<>>
    BY <1>1 DEF Inv, TypeOK, Recoverable, HasDirective
  <2>2. Directive \in Report
    BY <2>1 DEF Directive
  <2>3. Directive.scope \in {"new_evidence", "new_spec"} /\ Len(history) < MaxRecoveries
    BY <1>1, <2>2 DEF Recoverable, Report
  <2> QED BY <1>1, <2>3 DEF Inv, TypeOK
<1>3. TypeOK' /\ SpecInv'
  BY <1>1, <1>2 DEF Inv, TypeOK, SpecInv, PC
<1>4. CountInv'
  <2>1. spec.n \in Nat /\ Len(history) \in Nat
    BY DEF Inv, TypeOK, Input
  <2> QED BY <1>1, <1>2, <2>1 DEF Inv, CountInv
<1>5. CandInv' /\ ReportInv' /\ RoundsInv' /\ MadeInv'
  BY <1>1 DEF Inv, CandInv, ReportInv, RoundsInv, MadeInv, Storing, Reviewing
<1>6. PassInv' /\ StoreInv'
  BY <1>1, NotYet DEF Inv, PassInv, StoreInv, Storing
<1> QED BY <1>3, <1>4, <1>5, <1>6 DEF Inv

LEMMA StartOverInv ==
  ASSUME Inv, pc \in {"plan", "refresh"}, NEW path \in Path, NEW profile \in Profile,
         NEW evidence \in Evidence, Covers(evidence, path, profile),
         profile.learner = "me", StartOver(path, profile, evidence)
  PROVE  Inv'
<1> DEFINE t == [n |-> spec.n + 1, path |-> [path EXCEPT !.bound = TRUE],
                 profile |-> profile, evidence |-> evidence]
<1>1. /\ spec' = t /\ plan' = None /\ round' = 0 /\ cand' = None
      /\ heard' = [k \in Kind |-> {}] /\ reports' = <<>> /\ pc' = "generate"
      /\ UNCHANGED <<report, made, store, registered, history, dirty>>
  BY DEF StartOver, ReportsKept
<1>2. /\ spec.n \in 0..MaxRecoveries /\ spec.n < Len(history)
      /\ Len(history) \in Nat /\ Len(history) <= MaxRecoveries
  BY DEF Inv, TypeOK, CountInv, Input
<1>3. t \in Input /\ t.path.bound /\ Fitting(t) /\ t.n = spec.n + 1
  <2>1. /\ [path EXCEPT !.bound = TRUE] \in Path /\ [path EXCEPT !.bound = TRUE].bound
        /\ [path EXCEPT !.bound = TRUE].topic = path.topic
    BY DEF Path
  <2>2. t.n \in 0..MaxRecoveries /\ t.n = spec.n + 1
    BY <1>2
  <2>3. t \in Input
    BY <2>1, <2>2 DEF Input
  <2>4. t.path.bound
    BY <2>1
  <2>5. Fitting(t)
    BY <2>1 DEF Fitting, Covers
  <2> QED BY <2>2, <2>3, <2>4, <2>5
<1> HIDE DEF t
<1>4. TypeOK'
  <2>1. reports' \in Seq(Report) /\ heard' \in [Kind -> SUBSET Note]
    BY <1>1
  <2> QED BY <1>1, <1>3, <2>1 DEF Inv, TypeOK, PC
<1>5. SpecInv' /\ CountInv'
  BY <1>1, <1>2, <1>3 DEF Inv, SpecInv, CountInv
<1>6. MadeInv'
  <2> SUFFICES ASSUME made # None PROVE Before(made, spec.n + 1, 0)
    BY <1>1, <1>3 DEF MadeInv
  <2>1. made \in Report /\ made.spec \in Nat
    BY DEF Inv, TypeOK, Report
  <2> QED BY <1>2, <2>1 DEF Inv, MadeInv, Before
<1>7. CandInv' /\ ReportInv'
  BY <1>1 DEF CandInv, ReportInv, Storing
<1>8. RoundsInv'
  BY <1>1 DEF RoundsInv, Revisions, Asked
<1>9. PassInv' /\ StoreInv'
  BY <1>1, NotYet DEF Inv, PassInv, StoreInv, Storing
<1> QED BY <1>4, <1>5, <1>6, <1>7, <1>8, <1>9 DEF Inv

LEMMA PlansInv ==
  ASSUME Inv, NEW path \in Path, NEW profile \in Profile, Plans(path, profile)
  PROVE  Inv'
<1>1. pc = "plan" /\ spec.profile.learner = "me" /\ spec.evidence \in Evidence
  BY DEF Plans, Inv, SpecInv, Fitting, TypeOK, Input
<1>2. CASE ~Acceptable(path, profile)
  <2>1. /\ pc' = "done"
        /\ UNCHANGED <<spec, plan, round, cand, heard, reports, made, store,
                       registered, history, dirty>>
    BY <1>2 DEF Plans, End, Done, runVars
  <2> QED BY <1>1, <2>1, DoneInv
<1>3. CASE Acceptable(path, profile) /\ Covers(spec.evidence, path, profile)
  <2>1. StartOver(path, profile, spec.evidence) /\ profile.learner = "me"
    BY <1>1, <1>3 DEF Plans, Acceptable
  <2> QED BY <1>1, <1>3, <2>1, StartOverInv
<1>4. CASE Acceptable(path, profile) /\ ~Covers(spec.evidence, path, profile)
  <2> DEFINE draft == [path |-> path, profile |-> profile]
  <2>1. draft.profile.learner = "me" /\ draft \in [path : Path, profile : Profile]
    BY <1>1, <1>4 DEF Acceptable
  <2>2. /\ plan' = draft /\ pc' = "refresh"
        /\ UNCHANGED <<spec, round, cand, heard, report, reports, made, store,
                       registered, history, dirty, result>>
    BY <1>4 DEF Plans, runVars
  <2> HIDE DEF draft
  <2>3. TypeOK' /\ SpecInv' /\ CountInv'
    BY <1>1, <2>1, <2>2 DEF Inv, TypeOK, SpecInv, CountInv, PC
  <2>4. CandInv' /\ ReportInv' /\ RoundsInv' /\ MadeInv'
    BY <1>1, <2>2 DEF Inv, CandInv, ReportInv, RoundsInv, MadeInv, Storing, Reviewing
  <2>5. PassInv' /\ StoreInv'
    BY <1>1, <2>2, NotYet DEF Inv, PassInv, StoreInv, Storing
  <2> QED BY <2>3, <2>4, <2>5 DEF Inv
<1> QED BY <1>2, <1>3, <1>4

LEMMA RefreshesInv ==
  ASSUME Inv, NEW e \in Evidence, Refreshes(e)
  PROVE  Inv'
<1>1. /\ pc = "refresh" /\ Covers(e, WantedPath, WantedProfile)
      /\ StartOver(WantedPath, WantedProfile, e)
  BY DEF Refreshes
<1>2. WantedPath \in Path /\ WantedProfile \in Profile /\ WantedProfile.learner = "me"
  BY DEF WantedPath, WantedProfile, Inv, TypeOK, SpecInv, Fitting, Input
<1> QED BY <1>1, <1>2, StartOverInv

-----------------------------------------------------------------------------
(* What holds, for any artifacts, topics, packs and flaws.                 *)
THEOREM Invariance == Spec => []Inv
<1>1. Inv /\ Next => Inv'
  <2> SUFFICES ASSUME Inv, Next PROVE Inv'
    OBVIOUS
  <2>1. CASE Reviewed
    <3>1. ASSUME Reviews \/ AnswersLate \/ AnswersWrongly PROVE Inv'
      BY <3>1, AnsweredInv DEF Reviews, AnswersLate, AnswersWrongly
    <3> QED BY <2>1, <3>1, GenerateInv, ReturnsInv, PassesInv, ReviseInv, StoringInv
        DEF Reviewed
  <2>2. CASE Recovery
    BY <2>2, OnReadyInv, EndsInv, RecoverInv, PlansInv, RefreshesInv DEF Recovery
  <2> QED BY <2>1, <2>2 DEF Next
<1>2. Inv /\ UNCHANGED vars => Inv'
  <2> SUFFICES ASSUME Inv, UNCHANGED vars PROVE Inv'
    OBVIOUS
  <2> USE DEF vars, Inv
  <2>1. TypeOK' /\ SpecInv' /\ CountInv'
    BY DEF TypeOK, SpecInv, CountInv
  <2>2. CandInv' /\ MadeInv'
    BY DEF CandInv, MadeInv
  <2>3. ReportInv' /\ RoundsInv'
    BY DEF ReportInv, Valid, ForRequest, Consistent, RoundsInv, Revisions
  <2>4. PassInv' /\ StoreInv'
    BY DEF PassInv, Releasable, ReviewSequence, StoreInv
  <2> QED BY <2>1, <2>2, <2>3, <2>4
<1> QED BY <1>1, <1>2, InitInv, PTL DEF Spec

(* Every variable keeps its type: rounds, recoveries and specs stay within *)
(* their bounds, and what is registered is in the store.                   *)
THEOREM TypesHold == Spec => []TypeOK
BY Invariance, PTL DEF Inv

(* No answer of the reviewer, however late, inconsistent or incomplete,    *)
(* brings content into the secure store that an audit does not pass, and   *)
(* what is released was made from evidence for its path and its learner.   *)
THEOREM GateAlwaysHolds == Spec => []GateHolds
<1>1. Inv => GateHolds
  BY DEF Inv, PassInv, SpecInv, Clear, Fitting, Covers, GateHolds
<1> QED BY <1>1, Invariance, PTL

(* READY always gets through the gate of registration and publication.     *)
THEOREM ReadyIsAlwaysReleasable == Spec => []ReadyIsReleasable
<1>1. Inv => ReadyIsReleasable
  BY DEF Inv, PassInv, ReadyIsReleasable
<1> QED BY <1>1, Invariance, PTL

(* The agents were told exactly what the reviews of this spec asked for.   *)
THEOREM AuthorsAlwaysHear == Spec => []AuthorHearsReviews
<1>1. Inv => AuthorHearsReviews
  BY DEF Inv, RoundsInv, Reviewing, Asked, AuthorHearsReviews
<1> QED BY <1>1, Invariance, PTL

(* A call that ends without a release leaves no secure pair behind, unless *)
(* the store or on_ready failed at it.                                     *)
THEOREM NothingIsLeftBehind == Spec => []NothingLeftBehind
<1>1. Inv => NothingLeftBehind
  BY DEF Inv, StoreInv, Storing, NothingLeftBehind
<1> QED BY <1>1, Invariance, PTL
=============================================================================

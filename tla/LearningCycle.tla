---------------------------- MODULE LearningCycle ----------------------------
(***************************************************************************)
(* The submission side of Role C's LearningCycleService: how one learning  *)
(* session turns submissions into grades, mastery evidence, one frozen     *)
(* feedback and one delivery to Role B, while several service processes    *)
(* work on the same stores.                                                *)
(*                                                                         *)
(* A handler is one run of processSubmissionOnce: the pair of a service    *)
(* process and a submission id (inFlight lets a process run at most one    *)
(* handler per submission).  Every await of the code on a shared store is  *)
(* a step of its own; the code between two awaits belongs to the step      *)
(* before it.  The bounded compare-and-swap loops of claimSession,         *)
(* claimSubmission, completeSession and clearSessionActive are one step:   *)
(* the iteration that succeeds; an exhausted loop throws, which is         *)
(* Abandon.                                                                *)
(***************************************************************************)
EXTENDS Integers, FiniteSets

CONSTANTS
  Worker,        \* service processes; a restarted process has a new random
                 \* worker id, so it is another element
  SubmissionId,  \* submission ids of the session
  Request,       \* submissions a client may send: id, attempt and content
  Objective,     \* the objectives a submission gives evidence about
  Decision,      \* the final round decisions (advance, ..., reprofile)
  None,          \* no value
  MaxAttempts,   \* submission_policy.max_attempts
  RetryLimit,    \* mastery_retry_limit
  FaultKinds,    \* the faults the environment may produce
  MaxFaults,     \* bound: how many of them in one behaviour
  HeartbeatBound \* bound: heartbeats stop at this record revision

ASSUME RequestAssumption ==
  /\ \A q \in Request : /\ q.id \in SubmissionId
                        /\ q.attempt \in Nat \ {0}
                        /\ q = [id |-> q.id, attempt |-> q.attempt,
                                content |-> q.content]
ASSUME NoneAssumption ==
  /\ None \notin Worker \cup SubmissionId \cup Request
  /\ None \notin (SubmissionId \X Decision)
ASSUME BoundAssumption ==
  /\ MaxAttempts \in Nat \ {0} /\ RetryLimit \in Nat \ {0}
  /\ MaxFaults \in Nat /\ HeartbeatBound \in Nat

VARIABLES
  session,    \* the persisted LearningSessionRecord
  store,      \* the persisted LearningSubmissionRecords, or None
  mastery,    \* the mastery store: per objective a revision and the
              \* idempotency keys already counted (processed_artifact_ids)
  delivered,  \* evidence batches Role B has acknowledged
  faults,     \* faults so far (bounds the environment)
  pc, req, ses, rec, plan, tries  \* local state of the handlers

shared == <<session, store, mastery, delivered>>
local  == <<pc, req, ses, rec, plan, tries>>
vars   == <<session, store, mastery, delivered, faults,
            pc, req, ses, rec, plan, tries>>

-----------------------------------------------------------------------------
Handler == Worker \X SubmissionId

Status == {"RECEIVED", "SCORED", "DECIDED", "MASTERY_APPLIED",
           "COMPLETED", "BLOCKED", "NEEDS_REVIEW"}
Terminal == {"COMPLETED", "BLOCKED", "NEEDS_REVIEW"}

(* The idempotency key of an evidence batch hashes the submission and the  *)
(* id of the grade artifact, and that id hashes the decision: the same     *)
(* submission decided differently has another key.                         *)
Key  == SubmissionId \X Decision
Plan == [key : Key, expected : [Objective -> Nat], writes : SUBSET Objective]

Session == [attempt : Nat, active : SubmissionId \cup {None},
            feedback : Key \cup {None}]
Record  == [input : Request, status : Status, rev : Nat,
            owner : Worker \cup {None}, lease : BOOLEAN,
            plan : Plan \cup {None}]
Copy    == [status : Status, rev : Nat, plan : Plan \cup {None}]

ASSUME NoneIsNoRecord ==
  None \notin Plan /\ None \notin Session /\ None \notin Record /\ None \notin Copy

PC == {"idle", "crashed", "load_session", "load_submission", "create",
       "claim_session", "claim_submission", "secure", "work",
       "save_decision", "check_applied", "redecide", "save_applied",
       "clear_session", "complete_session", "deliver"}

Init ==
  /\ session = [attempt |-> 1, active |-> None, feedback |-> None]
  /\ store = [s \in SubmissionId |-> None]
  /\ mastery = [o \in Objective |-> [rev |-> 0, keys |-> {}]]
  /\ delivered = {}
  /\ faults = 0
  /\ pc = [h \in Handler |-> "idle"]
  /\ req = [h \in Handler |-> None]
  /\ ses = [h \in Handler |-> None]
  /\ rec = [h \in Handler |-> None]
  /\ plan = [h \in Handler |-> None]
  /\ tries = [h \in Handler |-> 0]

-----------------------------------------------------------------------------
(* Helpers.                                                                *)

Goto(h, l) == pc' = [pc EXCEPT ![h] = l]

(* The promise settles and the handler leaves inFlight.                    *)
LeaveAs(h, l) ==
  /\ pc' = [pc EXCEPT ![h] = l]
  /\ req' = [req EXCEPT ![h] = None]
  /\ ses' = [ses EXCEPT ![h] = None]
  /\ rec' = [rec EXCEPT ![h] = None]
  /\ plan' = [plan EXCEPT ![h] = None]
  /\ tries' = [tries EXCEPT ![h] = 0]

Leave(h) == LeaveAs(h, "idle")

CopyOf(r) == [status |-> r.status, rev |-> r.rev, plan |-> r.plan]

(* Mutant: the save does not compare revisions.                            *)
Fresh_NoCompare(h) == store[h[2]] # None

(* saveSubmission is a compare-and-swap on the record's revision.          *)
Fresh(h) == store[h[2]] # None /\ rec[h].rev = store[h[2]].rev

Saved(h, status, p, own) ==
  LET old == store[h[2]]
  IN  [input |-> old.input, status |-> status, rev |-> old.rev + 1,
       owner |-> IF own = "kept" THEN old.owner ELSE None,
       lease |-> own = "kept" /\ old.lease, plan |-> p]

(* A process takes, or renews, the lease of a record.                      *)
Leased(r, w) == [input |-> r.input, status |-> r.status, rev |-> r.rev + 1,
                 owner |-> w, lease |-> TRUE, plan |-> r.plan]

Save(h, status, p, own) ==
  /\ Fresh(h)
  /\ store' = [store EXCEPT ![h[2]] = Saved(h, status, p, own)]
  /\ rec' = [rec EXCEPT ![h] = CopyOf(Saved(h, status, p, own))]

(* Only the attempt the session is at may be answered once the session has *)
(* a feedback, and no attempt beyond the last.                             *)
AttemptRefused(x, attempt) ==
  x.feedback # None /\ (x.attempt > MaxAttempts \/ attempt # x.attempt)

(* Mutants: the claim is not looked at; a claim of one's own counts too.   *)
Occupied_Never(x, s) == FALSE
Occupied_EvenByItself(x, s) == x.active # None

(* Another submission occupies the session.                                *)
Occupied(x, s) == x.active \notin {None, s}

(* The mastery transition for one evidence batch: what prepareMasteryUpdate*)
(* FromEvidence reads, and the objectives whose state it changes (those    *)
(* that have not counted the key).                                         *)
PlanFor(key) ==
  [key |-> key,
   expected |-> [o \in Objective |-> mastery[o].rev],
   writes |-> {o \in Objective : key \notin mastery[o].keys}]

(* saveBatch checks the revision of every write before it writes any.      *)
Applicable(p) == \A o \in p.writes : mastery[o].rev = p.expected[o]

Running(w, s) == pc[w, s] \notin {"idle", "crashed"}

MayFail(kind) == kind \in FaultKinds /\ faults < MaxFaults
Fault == faults' = faults + 1

-----------------------------------------------------------------------------
(* Steps of a handler.                                                     *)

(* processSubmissionInternal: a request for a submission this process is   *)
(* already working on joins it (or is refused) and changes nothing.        *)
Receive(h, q) ==
  /\ pc[h] = "idle" /\ q.id = h[2]
  /\ Goto(h, "load_session")
  /\ req' = [req EXCEPT ![h] = q]
  /\ UNCHANGED <<shared, faults, ses, rec, plan, tries>>

LoadSession(h) ==
  /\ pc[h] = "load_session"
  /\ ses' = [ses EXCEPT ![h] = session]
  /\ Goto(h, "load_submission")
  /\ UNCHANGED <<shared, faults, req, rec, plan, tries>>

(* The record is compared with the session copy read one step before.      *)
LoadSubmission(h) ==
  /\ pc[h] = "load_submission"
  /\ LET r == store[h[2]]
         refused == AttemptRefused(ses[h], req[h].attempt)
     IN \/ /\ r # None /\ r.input # req[h]          \* SUBMISSION_ID_CONFLICT
           /\ Leave(h)
        \/ /\ r # None /\ r.input = req[h] /\ r.status = "COMPLETED"
           /\ rec' = [rec EXCEPT ![h] = CopyOf(r)]
           /\ Goto(h, "complete_session")
           /\ UNCHANGED <<req, ses, plan, tries>>
        \/ /\ r # None /\ r.input = req[h]
           /\ r.status \in {"BLOCKED", "NEEDS_REVIEW"}
           /\ Goto(h, "clear_session")
           /\ UNCHANGED <<req, ses, rec, plan, tries>>
        \/ /\ r # None => r.input = req[h] /\ r.status \notin Terminal
           /\ refused                               \* SESSION_ALREADY_COMPLETED
           /\ Leave(h)
        \/ /\ r = None /\ ~refused
           /\ \/ Leave(h)                           \* SESSION_REVISION_CONFLICT
              \/ /\ Occupied(ses[h], h[2])           \* SESSION_BUSY
                 /\ Leave(h)
              \/ /\ ~Occupied(ses[h], h[2])
                 /\ Goto(h, "create")
                 /\ UNCHANGED <<req, ses, rec, plan, tries>>
        \/ /\ r # None /\ r.input = req[h] /\ r.status \notin Terminal
           /\ ~refused
           /\ Goto(h, "claim_session")
           /\ UNCHANGED <<req, ses, rec, plan, tries>>
  /\ UNCHANGED <<shared, faults>>

(* createSubmission is exclusive; the loser of a race goes on with the     *)
(* winner's record when the content is the same.                           *)
Create(h) ==
  /\ pc[h] = "create"
  /\ \/ /\ store[h[2]] = None
        /\ store' = [store EXCEPT ![h[2]] =
             [input |-> req[h], status |-> "RECEIVED", rev |-> 0,
              owner |-> None, lease |-> FALSE, plan |-> None]]
        /\ Goto(h, "claim_session")
        /\ UNCHANGED <<req, ses, rec, plan, tries>>
     \/ /\ store[h[2]] # None /\ store[h[2]].input = req[h]
        /\ Goto(h, "claim_session")
        /\ UNCHANGED <<store, req, ses, rec, plan, tries>>
     \/ /\ store[h[2]] # None /\ store[h[2]].input # req[h]
        /\ Leave(h)
        /\ UNCHANGED store
  /\ UNCHANGED <<session, mastery, delivered, faults>>

ClaimSession(h) ==
  /\ pc[h] = "claim_session"
  /\ \/ /\ \/ AttemptRefused(session, req[h].attempt) \* SESSION_ALREADY_COMPLETED
           \/ Occupied(session, h[2])                 \* SESSION_BUSY
        /\ Leave(h)
        /\ UNCHANGED session
     \/ /\ ~AttemptRefused(session, req[h].attempt)
        /\ ~Occupied(session, h[2])
        /\ session' = [session EXCEPT !.active = h[2]]
        /\ ses' = [ses EXCEPT ![h] = session']
        /\ Goto(h, "claim_submission")
        /\ UNCHANGED <<req, rec, plan, tries>>
  /\ UNCHANGED <<store, mastery, delivered, faults>>

(* The lease: a process keeps what it owns, takes what nobody owns or      *)
(* whose lease has run out, and starts over when the record turned         *)
(* terminal.                                                               *)
ClaimSubmission(h) ==
  /\ pc[h] = "claim_submission"
  /\ LET cur == store[h[2]]
         taken == Leased(cur, h[1])
     IN \/ /\ cur.status \in Terminal
           /\ Goto(h, "load_session")
           /\ ses' = [ses EXCEPT ![h] = None]
           /\ UNCHANGED <<store, req, rec, plan, tries>>
        \/ /\ cur.status \notin Terminal /\ cur.owner = h[1]
           /\ rec' = [rec EXCEPT ![h] = CopyOf(cur)]
           /\ Goto(h, "secure")
           /\ UNCHANGED <<store, req, ses, plan, tries>>
        \/ /\ cur.status \notin Terminal /\ cur.owner \notin {None, h[1]}
           /\ cur.lease                             \* SUBMISSION_BUSY
           /\ Leave(h)
           /\ UNCHANGED store
        \/ /\ cur.status \notin Terminal /\ cur.owner # h[1]
           /\ cur.owner = None \/ ~cur.lease
           /\ store' = [store EXCEPT ![h[2]] = taken]
           /\ rec' = [rec EXCEPT ![h] = CopyOf(taken)]
           /\ Goto(h, "secure")
           /\ UNCHANGED <<req, ses, plan, tries>>
  /\ UNCHANGED <<session, mastery, delivered, faults>>

(* assessment_secure is read on every run, whatever the record's status.   *)
ReadSecure(h) ==
  /\ pc[h] = "secure"
  /\ Goto(h, "work")
  /\ UNCHANGED <<shared, faults, req, ses, rec, plan, tries>>

(* The read failed for now: the lease is given back, then the session.     *)
SecureReadRetryable(h) ==
  /\ pc[h] = "secure" /\ MayFail("secure_retryable")
  /\ Save(h, rec[h].status, rec[h].plan, "released")
  /\ Goto(h, "clear_session")
  /\ Fault
  /\ UNCHANGED <<session, mastery, delivered, req, ses, plan, tries>>

(* The artifact is missing, corrupt or of the wrong type.                  *)
SecureReadPermanent(h) ==
  /\ pc[h] = "secure" /\ MayFail("secure_permanent")
  /\ Save(h, "BLOCKED", rec[h].plan, "released")
  /\ Goto(h, "clear_session")
  /\ Fault
  /\ UNCHANGED <<session, mastery, delivered, req, ses, plan, tries>>

(* gradeSubmission blocks a submission whose attempt is not the session's  *)
(* or is beyond the last.                                                  *)
Gradable(h) ==
  /\ req[h].attempt = ses[h].attempt
  /\ req[h].attempt <= MaxAttempts

Grade(h) ==
  /\ pc[h] = "work" /\ rec[h].status = "RECEIVED"
  /\ \/ /\ Gradable(h)
        /\ Save(h, "SCORED", None, "kept")
        /\ UNCHANGED pc
     \/ /\ Save(h, "BLOCKED", None, "released")
        /\ Goto(h, "clear_session")
     \/ /\ Gradable(h)
        /\ Save(h, "NEEDS_REVIEW", None, "released")
        /\ Goto(h, "clear_session")
  /\ UNCHANGED <<session, mastery, delivered, faults, req, ses, plan, tries>>

(* prepareMasteryDecision reads the mastery store: the decision depends on *)
(* what it finds there (profile drift), the plan on the revisions.         *)
Prepare(h) ==
  /\ \/ pc[h] = "work" /\ rec[h].status = "SCORED"
     \/ pc[h] = "redecide"
  /\ \E d \in Decision :
       plan' = [plan EXCEPT ![h] = PlanFor(<<h[2], d>>)]
  /\ Goto(h, "save_decision")
  /\ UNCHANGED <<shared, faults, req, ses, rec, tries>>

SaveDecision(h) ==
  /\ pc[h] = "save_decision"
  /\ Save(h, "DECIDED", plan[h], "kept")
  /\ plan' = [plan EXCEPT ![h] = None]
  /\ Goto(h, "work")
  /\ UNCHANGED <<session, mastery, delivered, faults, req, ses, tries>>

(* saveBatch of the frozen plan.  It is guarded by the mastery revisions   *)
(* only: the lease of the submission is not checked here.                  *)
Commit(h) ==
  /\ pc[h] = "work" /\ rec[h].status = "DECIDED"
  /\ LET p == rec[h].plan
     IN \/ /\ Applicable(p)
           /\ mastery' = [o \in Objective |->
                IF o \in p.writes
                THEN [rev |-> p.expected[o] + 1,
                      keys |-> mastery[o].keys \cup {p.key}]
                ELSE mastery[o]]
           /\ Goto(h, "save_applied")
        \/ /\ ~Applicable(p)
           /\ Goto(h, "check_applied")
           /\ UNCHANGED mastery
  /\ UNCHANGED <<session, store, delivered, faults, req, ses, rec, plan, tries>>

(* Mutants: a conflict is always, or never, taken for an own commit.       *)
AlreadyApplied_Always(key) == TRUE
AlreadyApplied_Never(key) == FALSE

(* masteryIntentAlreadyApplied                                             *)
AlreadyApplied(key) == \A o \in Objective : key \in mastery[o].keys

CheckApplied(h) ==
  /\ pc[h] = "check_applied"
  /\ LET applied == AlreadyApplied(rec[h].plan.key)
     IN \/ /\ applied
           /\ Goto(h, "save_applied")
           /\ UNCHANGED <<req, ses, rec, plan, tries>>
        \/ /\ ~applied /\ tries[h] + 1 >= RetryLimit \* MASTERY_REVISION_CONFLICT
           /\ Leave(h)
        \/ /\ ~applied /\ tries[h] + 1 < RetryLimit
           /\ tries' = [tries EXCEPT ![h] = @ + 1]
           /\ Goto(h, "redecide")
           /\ UNCHANGED <<req, ses, rec, plan>>
  /\ UNCHANGED <<shared, faults>>

SaveApplied(h) ==
  /\ pc[h] = "save_applied"
  /\ Save(h, "MASTERY_APPLIED", rec[h].plan, "kept")
  /\ tries' = [tries EXCEPT ![h] = 0]
  /\ Goto(h, "work")
  /\ UNCHANGED <<session, mastery, delivered, faults, req, ses, plan>>

SaveCompleted(h) ==
  /\ pc[h] = "work" /\ rec[h].status = "MASTERY_APPLIED"
  /\ Save(h, "COMPLETED", rec[h].plan, "released")
  /\ Goto(h, "complete_session")
  /\ UNCHANGED <<session, mastery, delivered, faults, req, ses, plan, tries>>

(* completeSession, reached by the handler that completed the record and   *)
(* by every replay of a completed submission.                              *)
CompleteSession(h) ==
  /\ pc[h] = "complete_session"
  /\ LET fb == rec[h].plan.key
         newAttempt == session.feedback # fb
         refused == \/ /\ session.feedback # None /\ newAttempt
                       /\ session.attempt > MaxAttempts
                    \/ Occupied(session, h[2])
     IN \/ /\ refused                               \* throws PERSISTENCE_ERROR
           /\ Leave(h)
           /\ UNCHANGED session
        \/ /\ ~refused
           /\ session' = [attempt  |-> IF newAttempt THEN session.attempt + 1
                                       ELSE session.attempt,
                          active   |-> None,
                          feedback |-> fb]
           /\ Goto(h, "deliver")
           /\ UNCHANGED <<req, ses, rec, plan, tries>>
  /\ UNCHANGED <<store, mastery, delivered, faults>>

(* restoreCompletion: Role B acknowledges the batch (a repeated delivery_id*)
(* is acknowledged as a duplicate), then the completion is returned.       *)
Deliver(h) ==
  /\ pc[h] = "deliver"
  /\ delivered' = delivered \cup {rec[h].plan.key}
  /\ Leave(h)
  /\ UNCHANGED <<session, store, mastery, faults>>

(* Mutant: whoever holds the claim loses it.                               *)
Releases_Anyone(x, s) == TRUE

(* Only the submission that holds the session gives it back.               *)
Releases(x, s) == x.active = s

ClearSession(h) ==
  /\ pc[h] = "clear_session"
  /\ session' = IF Releases(session, h[2])
                THEN [session EXCEPT !.active = None] ELSE session
  /\ Leave(h)
  /\ UNCHANGED <<store, mastery, delivered, faults>>

(* A save that finds another revision throws, and so ends the handler; the *)
(* heartbeat that finds another owner ends it the same way.                *)
Saving == {"secure", "save_decision", "save_applied"}
LoseOwnership(h) ==
  /\ \/ pc[h] \in Saving
     \/ pc[h] = "work" /\ rec[h].status # "DECIDED"
  /\ ~Fresh(h)
  /\ Leave(h)
  /\ UNCHANGED <<shared, faults>>

-----------------------------------------------------------------------------
(* Time and faults.                                                        *)

(* The heartbeat runs during the secure read, the grading and the first    *)
(* decision, and renews the lease of the record it finds.                  *)
Beating(h) == \/ pc[h] = "secure"
              \/ /\ pc[h] \in {"work", "save_decision"}
                 /\ rec[h].status \in {"RECEIVED", "SCORED"}

Heartbeat(h) ==
  /\ Beating(h)
  /\ LET cur == store[h[2]]
         renewed == Leased(cur, h[1])
     IN /\ cur.owner = h[1] /\ cur.status \notin Terminal
        /\ cur.rev < HeartbeatBound
        /\ store' = [store EXCEPT ![h[2]] = renewed]
        /\ rec' = [rec EXCEPT ![h] = CopyOf(renewed)]
  /\ UNCHANGED <<session, mastery, delivered, faults, pc, req, ses, plan, tries>>

(* A lease runs out.  While its owner is still working this takes a pause  *)
(* longer than the lease, or a task without heartbeat: a fault.            *)
LeaseExpires(s) ==
  /\ store[s] # None /\ store[s].lease
  /\ store' = [store EXCEPT ![s].lease = FALSE]
  /\ IF Running(store[s].owner, s) THEN MayFail("lease") /\ Fault
     ELSE UNCHANGED faults
  /\ UNCHANGED <<session, mastery, delivered, local>>

(* A store or port call throws, or a compare-and-swap loop is exhausted:   *)
(* the handler ends where it is, its process lives on.                     *)
Abandon(h) ==
  /\ MayFail("abandon") /\ Running(h[1], h[2])
  /\ Leave(h) /\ Fault
  /\ UNCHANGED shared

(* A process dies with all its handlers.                                   *)
Crash(w) ==
  /\ MayFail("crash") /\ Fault
  /\ \E s \in SubmissionId : Running(w, s)
  /\ pc' = [h \in Handler |-> IF h[1] = w THEN "crashed" ELSE pc[h]]
  /\ req' = [h \in Handler |-> IF h[1] = w THEN None ELSE req[h]]
  /\ ses' = [h \in Handler |-> IF h[1] = w THEN None ELSE ses[h]]
  /\ rec' = [h \in Handler |-> IF h[1] = w THEN None ELSE rec[h]]
  /\ plan' = [h \in Handler |-> IF h[1] = w THEN None ELSE plan[h]]
  /\ tries' = [h \in Handler |-> IF h[1] = w THEN 0 ELSE tries[h]]
  /\ UNCHANGED shared

(* Another session of the same learner updates an objective.               *)
OtherUpdate(o) ==
  /\ MayFail("other_update") /\ Fault
  /\ mastery' = [mastery EXCEPT ![o].rev = @ + 1]
  /\ UNCHANGED <<session, store, delivered, local>>

-----------------------------------------------------------------------------
Step(h) ==
  \/ LoadSession(h) \/ LoadSubmission(h) \/ Create(h)
  \/ ClaimSession(h) \/ ClaimSubmission(h)
  \/ ReadSecure(h)
  \/ Grade(h) \/ Prepare(h) \/ SaveDecision(h)
  \/ Commit(h) \/ CheckApplied(h) \/ SaveApplied(h) \/ SaveCompleted(h)
  \/ CompleteSession(h) \/ Deliver(h) \/ ClearSession(h)
  \/ LoseOwnership(h)

Next ==
  \/ \E h \in Handler : \/ \E q \in Request : Receive(h, q)
                        \/ Step(h)
                        \/ SecureReadRetryable(h) \/ SecureReadPermanent(h)
                        \/ Heartbeat(h) \/ Abandon(h)
  \/ \E s \in SubmissionId : LeaseExpires(s)
  \/ \E w \in Worker : Crash(w)
  \/ \E o \in Objective : OtherUpdate(o)

Spec == Init /\ [][Next]_vars

(* The client sends an unanswered submission again, a process that has     *)
(* accepted it goes on, and a lease nobody renews runs out.                *)
Fairness ==
  /\ \A h \in Handler : WF_vars(Step(h))
  /\ \A q \in Request : SF_vars(\E w \in Worker : Receive(<<w, q.id>>, q))
  /\ \A s \in SubmissionId :
       WF_vars(LeaseExpires(s) /\ ~Running(store[s].owner, s))

FairSpec == Spec /\ Fairness

-----------------------------------------------------------------------------
(* Properties.                                                             *)

TypeOK ==
  /\ session \in Session
  /\ store \in [SubmissionId -> Record \cup {None}]
  /\ mastery \in [Objective -> [rev : Nat, keys : SUBSET Key]]
  /\ delivered \in SUBSET Key
  /\ faults \in Nat
  /\ pc \in [Handler -> PC]
  /\ req \in [Handler -> Request \cup {None}]
  /\ ses \in [Handler -> Session \cup {None}]
  /\ rec \in [Handler -> Copy \cup {None}]
  /\ plan \in [Handler -> Plan \cup {None}]
  /\ tries \in [Handler -> Nat]

Has(s, statuses) == store[s] # None /\ store[s].status \in statuses

(* Whatever the mastery store has counted for a submission is the evidence *)
(* its record holds: redeciding after a revision conflict, or after another*)
(* process took the lease over, never counts a submission under two keys   *)
(* (the header of updateMasteryFromEvidence: one submission contributes at *)
(* most one update per objective).                                         *)
CountedIsRecorded ==
  \A o \in Objective : \A k \in mastery[o].keys :
    store[k[1]] # None /\ store[k[1]].plan # None /\ store[k[1]].plan.key = k

(* A record says MASTERY_APPLIED or COMPLETED only after every objective   *)
(* has counted the evidence frozen in it.                                  *)
AppliedIsCounted ==
  \A s \in SubmissionId : Has(s, {"MASTERY_APPLIED", "COMPLETED"}) =>
    \A o \in Objective : store[s].plan.key \in mastery[o].keys

(* What Role B has been told is the evidence of a completed submission, and*)
(* it stays so.                                                            *)
DeliveredIsFinal ==
  \A k \in delivered : Has(k[1], {"COMPLETED"}) /\ store[k[1]].plan.key = k

(* A terminal record never changes again: no late save of a process that   *)
(* lost the lease reaches it.                                              *)
TerminalIsFrozen ==
  [][\A s \in SubmissionId : Has(s, Terminal) => store'[s] = store[s]]_vars

(* Two submissions are never both completed as the same attempt, unless the*)
(* secure store failed for a moment.                                       *)
OneCompletionPerAttempt ==
  \A s, t \in SubmissionId :
    Has(s, {"COMPLETED"}) /\ Has(t, {"COMPLETED"})
      /\ store[s].input.attempt = store[t].input.attempt => s = t

(* Every completed submission has moved the session to its next attempt, or*)
(* still occupies the session: a crash between the two writes loses no     *)
(* attempt and frees no session.                                           *)
CompletionAccounted ==
  LET completed == {s \in SubmissionId : Has(s, {"COMPLETED"})}
      unaccounted == {s \in completed : session.active = s}
  IN  Cardinality(completed) <= session.attempt - 1 + Cardinality(unaccounted)

(* A submission whose client keeps asking is settled in the end: refused,  *)
(* left for review, or completed and acknowledged by Role B, unless every  *)
(* process has stopped.                                                    *)
Settled(s) == \/ Has(s, {"BLOCKED", "NEEDS_REVIEW"})
              \/ \E k \in delivered : k[1] = s
AllStopped == \A h \in Handler : pc[h] = "crashed"
AcceptedIsSettled ==
  \A s \in SubmissionId : store[s] # None ~> Settled(s) \/ AllStopped
=============================================================================

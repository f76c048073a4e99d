------------------------- MODULE LearningCycleProofs -------------------------
(***************************************************************************)
(* Safety of LearningCycle for every set of processes, submissions and     *)
(* objectives, any number of faults and any bound: the inductive invariant *)
(* and its consequences.                                                   *)
(*                                                                         *)
(* The argument: a handler can write a record only while its copy is fresh,*)
(* and its copy is fresh exactly while its process owns the record.  A plan*)
(* that met a revision conflict is dead: mastery revisions only grow, so   *)
(* no process can commit it any more.  A record's plan is replaced only by *)
(* the fresh handler that saw its plan dead and not counted; so what the   *)
(* mastery store has counted is always the plan of the record.             *)
(***************************************************************************)
EXTENDS LearningCycle, FiniteSetTheorems, TLAPS

Holding == {"secure", "work", "save_decision", "check_applied", "redecide",
            "save_applied"}
Closing == {"complete_session", "deliver"}

Counted(k) == \E o \in Objective : k \in mastery[o].keys

(* No revision of the mastery store goes back, so a dead plan stays dead.  *)
Dead(p) == \E o \in p.writes : mastery[o].rev > p.expected[o]

PlanOK(s, p) ==
  /\ p \in Plan /\ p.key[1] = s
  /\ \A o \in Objective : /\ p.expected[o] <= mastery[o].rev
                          /\ o \notin p.writes => p.key \in mastery[o].keys

(* What a status says about the plan stored with it.                       *)
StageOK(s, status, p) ==
  /\ status \in {"RECEIVED", "SCORED"} => p = None
  /\ status \in {"DECIDED", "MASTERY_APPLIED", "COMPLETED"} => p # None
  /\ p # None => PlanOK(s, p)
  /\ status \in {"MASTERY_APPLIED", "COMPLETED"} => AlreadyApplied(p.key)

RecordInv(s) ==
  store[s] # None =>
    /\ StageOK(s, store[s].status, store[s].plan)
    /\ store[s].status \in Terminal => store[s].owner = None
    /\ store[s].owner = None => store[s].lease = FALSE

CopyInv(h) ==
  pc[h] \in Holding \cup Closing =>
    /\ rec[h] # None /\ store[h[2]] # None
    /\ rec[h].rev <= store[h[2]].rev
    /\ StageOK(h[2], rec[h].status, rec[h].plan)

HoldingInv(h) ==
  pc[h] \in Holding =>
    /\ rec[h].status \notin Terminal
    /\ Fresh(h) <=> store[h[2]].owner = h[1]
    /\ Fresh(h) => rec[h] = CopyOf(store[h[2]])

ClosingInv(h) ==
  pc[h] \in Closing =>
    /\ rec[h].status = "COMPLETED" /\ store[h[2]].status = "COMPLETED"
    /\ store[h[2]].plan = rec[h].plan

Redeciding(h) == \/ pc[h] = "redecide"
                 \/ pc[h] = "save_decision" /\ rec[h].status = "DECIDED"

DecisionInv(h) ==
  /\ pc[h] \in {"secure", "work"} /\ rec[h].status = "DECIDED" =>
       Dead(rec[h].plan) \/ store[h[2]].plan = rec[h].plan
  /\ pc[h] = "check_applied" \/ Redeciding(h) =>
       rec[h].status = "DECIDED" /\ Dead(rec[h].plan)
  /\ Redeciding(h) /\ Fresh(h) =>
       \A k \in Key : k[1] = h[2] => ~Counted(k)
  /\ pc[h] = "save_decision" =>
       /\ rec[h].status \in {"SCORED", "DECIDED"}
       /\ plan[h] # None /\ PlanOK(h[2], plan[h])
  /\ pc[h] = "save_applied" =>
       rec[h].status = "DECIDED" /\ AlreadyApplied(rec[h].plan.key)

LocalInv(h) ==
  /\ pc[h] \notin {"idle", "crashed"} => req[h] # None
  /\ pc[h] = "load_submission" => ses[h] # None
  /\ pc[h] \in {"claim_session", "claim_submission"} => store[h[2]] # None

HandlerInv(h) == /\ LocalInv(h) /\ CopyInv(h) /\ HoldingInv(h)
                 /\ ClosingInv(h) /\ DecisionInv(h)

(* A batch is counted for every objective or for none.                     *)
BatchInv == \A k \in Key : Counted(k) => AlreadyApplied(k)

Inv == /\ TypeOK
       /\ \A s \in SubmissionId : RecordInv(s)
       /\ \A h \in Handler : HandlerInv(h)
       /\ BatchInv
       /\ CountedIsRecorded
       /\ DeliveredIsFinal
-----------------------------------------------------------------------------
(* Facts about the data.                                                   *)

LEMMA HandlerPair ==
  ASSUME NEW h \in Handler
  PROVE  /\ h[1] \in Worker /\ h[2] \in SubmissionId
         /\ \A g \in Handler : g[1] = h[1] /\ g[2] = h[2] => g = h
BY DEF Handler

LEMMA KeyPair ==
  ASSUME NEW s \in SubmissionId, NEW d \in Decision
  PROVE  <<s, d>> \in Key /\ <<s, d>>[1] = s
BY DEF Key

LEMMA KeyIsNotNone == None \notin Key
BY NoneAssumption DEF Key

-----------------------------------------------------------------------------
(* The mastery store only grows.                                           *)

MasteryGrows ==
  \A o \in Objective : /\ mastery[o].rev <= mastery'[o].rev
                       /\ mastery[o].keys \subseteq mastery'[o].keys

LEMMA GrowthKeeps ==
  ASSUME TypeOK, TypeOK', MasteryGrows
  PROVE  /\ \A p \in Plan : Dead(p) => Dead(p)'
         /\ \A p \in Plan, s \in SubmissionId : PlanOK(s, p) => PlanOK(s, p)'
         /\ \A k \in Key : AlreadyApplied(k) => AlreadyApplied(k)'
<1>1. ASSUME NEW p \in Plan, Dead(p) PROVE Dead(p)'
  BY <1>1, SMTT(20) DEF TypeOK, MasteryGrows, Dead, Plan
<1>2. ASSUME NEW p \in Plan, NEW s \in SubmissionId, PlanOK(s, p)
      PROVE  PlanOK(s, p)'
  BY <1>2, SMTT(20) DEF TypeOK, MasteryGrows, PlanOK, Plan
<1>3. ASSUME NEW k \in Key, AlreadyApplied(k) PROVE AlreadyApplied(k)'
  BY <1>3 DEF MasteryGrows, AlreadyApplied
<1> QED BY <1>1, <1>2, <1>3

-----------------------------------------------------------------------------
(* What a step of one handler does to the others.                          *)

Frame(g) ==
  \A h \in Handler : h # g =>
    /\ pc'[h] = pc[h] /\ req'[h] = req[h] /\ ses'[h] = ses[h]
    /\ rec'[h] = rec[h] /\ plan'[h] = plan[h] /\ tries'[h] = tries[h]

(* A record only moves on, never into the hands of handler h, and a plan is*)
(* replaced only when it is dead.                                          *)
RecordGrows(h) ==
  LET old == store[h[2]]
      new == store'[h[2]]
  IN  old # None =>
        /\ new # None
        /\ \/ /\ new.rev = old.rev /\ new.status = old.status
              /\ new.plan = old.plan /\ new.owner = old.owner
           \/ /\ new.rev > old.rev /\ new.owner # h[1]
              /\ old.status \notin Terminal
              /\ new.plan = old.plan \/ old.plan = None \/ Dead(old.plan)

NothingNewCounted(h) ==
  Redeciding(h) /\ Fresh(h) =>
    \A k \in Key : k[1] = h[2] /\ Counted(k)' => Counted(k)

LEMMA OtherKeeps ==
  ASSUME TypeOK, TypeOK', NEW h \in Handler, HandlerInv(h), RecordInv(h[2]),
         pc'[h] = pc[h], req'[h] = req[h], ses'[h] = ses[h],
         rec'[h] = rec[h], plan'[h] = plan[h],
         MasteryGrows, RecordGrows(h), NothingNewCounted(h)
  PROVE  HandlerInv(h)'
<1> DEFINE s == h[2]
<1>0. s \in SubmissionId /\ h[1] \in Worker
  BY HandlerPair
<1>1. /\ pc[h] \in PC /\ rec[h] \in Copy \cup {None} /\ plan[h] \in Plan \cup {None}
      /\ store[s] \in Record \cup {None} /\ store'[s] \in Record \cup {None}
  BY <1>0 DEF TypeOK
<1>2. LocalInv(h)'
  BY DEF HandlerInv, LocalInv, RecordGrows
<1>3. CopyInv(h)'
  <2> SUFFICES ASSUME pc[h] \in Holding \cup Closing
               PROVE  CopyInv(h)'
    BY DEF CopyInv
  <2>1. /\ rec[h] \in Copy /\ store[s] \in Record /\ store'[s] \in Record
        /\ rec[h].rev <= store[s].rev /\ StageOK(s, rec[h].status, rec[h].plan)
    BY <1>1 DEF HandlerInv, CopyInv, RecordGrows
  <2>2. rec[h].rev <= store'[s].rev
    <3>1. rec[h].rev \in Nat /\ store[s].rev \in Nat /\ store'[s].rev \in Nat
      BY <2>1 DEF Copy, Record
    <3>2. store[s].rev <= store'[s].rev
      BY <2>1, <3>1, NoneIsNoRecord DEF RecordGrows
    <3> QED BY <2>1, <3>1, <3>2
  <2>3. rec[h].plan \in Plan \cup {None}
    BY <2>1 DEF Copy
  <2>4. StageOK(s, rec[h].status, rec[h].plan)'
    <3>1. rec[h].plan # None => rec[h].plan.key \in Key
      BY <2>3 DEF Plan
    <3> QED BY <1>0, <2>1, <2>3, <3>1, GrowthKeeps DEF StageOK
  <2> QED BY <2>1, <2>2, <2>4, NoneIsNoRecord DEF CopyInv
<1>4. HoldingInv(h)' /\ ClosingInv(h)'
  <2> SUFFICES ASSUME pc[h] \in Holding \cup Closing
               PROVE  HoldingInv(h)' /\ ClosingInv(h)'
    BY DEF HoldingInv, ClosingInv
  <2>1. /\ rec[h] \in Copy /\ store[s] \in Record /\ store'[s] \in Record
        /\ rec[h].rev <= store[s].rev
    BY <1>1 DEF HandlerInv, CopyInv, RecordGrows
  <2>2. rec[h].rev \in Nat /\ store[s].rev \in Nat /\ store'[s].rev \in Nat
    BY <2>1 DEF Copy, Record
  <2>3. \/ /\ store'[s].rev = store[s].rev /\ CopyOf(store'[s]) = CopyOf(store[s])
           /\ store'[s].owner = store[s].owner
        \/ store'[s].rev > store[s].rev /\ store'[s].owner # h[1]
    BY <2>1, NoneIsNoRecord DEF RecordGrows, CopyOf
  <2>4. store[s].status = "COMPLETED" =>
          store'[s].status = "COMPLETED" /\ store'[s].plan = store[s].plan
    BY <2>1, NoneIsNoRecord DEF RecordGrows, Terminal
  <2>5. store[s] # None /\ store'[s] # None
    BY <2>1, NoneIsNoRecord
  <2>6. HoldingInv(h)'
    <3> SUFFICES ASSUME pc[h] \in Holding
                 PROVE  HoldingInv(h)'
      BY DEF HoldingInv
    <3>1. /\ rec[h].status \notin Terminal
          /\ rec[h].rev = store[s].rev <=> store[s].owner = h[1]
          /\ rec[h].rev = store[s].rev => rec[h] = CopyOf(store[s])
      BY <2>5 DEF HandlerInv, HoldingInv, Fresh
    <3>2. /\ rec[h].rev = store'[s].rev <=> store'[s].owner = h[1]
          /\ rec[h].rev = store'[s].rev => rec[h] = CopyOf(store'[s])
      <4>1. CASE store'[s].rev = store[s].rev
        BY <2>2, <2>3, <3>1, <4>1
      <4>2. CASE store'[s].rev > store[s].rev
        BY <2>1, <2>2, <2>3, <3>1, <4>2
      <4> QED BY <2>3, <4>1, <4>2
    <3> QED BY <2>5, <3>1, <3>2 DEF HoldingInv, Fresh, CopyOf
  <2>7. ClosingInv(h)'
    BY <2>4 DEF HandlerInv, ClosingInv
  <2> QED BY <2>6, <2>7
<1>5. DecisionInv(h)'
  <2> SUFFICES ASSUME pc[h] \in Holding
               PROVE  DecisionInv(h)'
    BY DEF DecisionInv, Redeciding, Holding
  <2>1. /\ rec[h] \in Copy /\ store[s] \in Record /\ store'[s] \in Record
        /\ rec[h].rev <= store[s].rev /\ StageOK(s, rec[h].status, rec[h].plan)
    BY <1>1 DEF HandlerInv, CopyInv, RecordGrows
  <2>2. rec[h].rev \in Nat /\ store[s].rev \in Nat /\ store'[s].rev \in Nat
    BY <2>1 DEF Copy, Record
  <2>3. rec[h].status = "DECIDED" =>
          rec[h].plan \in Plan /\ rec[h].plan.key \in Key
    BY <2>1 DEF Copy, StageOK, Plan
  <2>4. rec[h].status = "DECIDED" =>
          /\ Dead(rec[h].plan) => Dead(rec[h].plan)'
          /\ AlreadyApplied(rec[h].plan.key) => AlreadyApplied(rec[h].plan.key)'
    BY <2>3, GrowthKeeps
  <2>5. ASSUME pc[h] \in {"secure", "work"}, rec[h].status = "DECIDED"
        PROVE  Dead(rec[h].plan)' \/ store'[s].plan = rec[h].plan
    <3>1. Dead(rec[h].plan) \/ store[s].plan = rec[h].plan
      BY <2>5 DEF HandlerInv, DecisionInv
    <3>2. rec[h].plan # None
      BY <2>5, <2>3, NoneIsNoRecord
    <3> QED BY <2>1, <2>4, <2>5, <3>1, <3>2, NoneIsNoRecord DEF RecordGrows
  <2>6. pc[h] = "check_applied" \/ Redeciding(h) =>
          rec[h].status = "DECIDED" /\ Dead(rec[h].plan)'
    BY <2>4 DEF HandlerInv, DecisionInv
  <2>7. ASSUME Redeciding(h), Fresh(h)'
        PROVE  \A k \in Key : k[1] = s => ~Counted(k)'
    <3>1. Fresh(h)
      BY <2>1, <2>2, <2>7, NoneIsNoRecord, SMT DEF Fresh, RecordGrows
    <3> QED BY <2>7, <3>1 DEF NothingNewCounted, HandlerInv, DecisionInv
  <2>8. pc[h] = "save_decision" =>
          /\ rec[h].status \in {"SCORED", "DECIDED"}
          /\ plan[h] # None /\ PlanOK(s, plan[h])'
    BY <1>0, <1>1, GrowthKeeps DEF HandlerInv, DecisionInv
  <2>9. pc[h] = "save_applied" =>
          rec[h].status = "DECIDED" /\ AlreadyApplied(rec[h].plan.key)'
    BY <2>4 DEF HandlerInv, DecisionInv
  <2>10. Redeciding(h)' <=> Redeciding(h)
    BY DEF Redeciding
  <2> QED BY <2>5, <2>6, <2>7, <2>8, <2>9, <2>10 DEF DecisionInv
<1> QED BY <1>2, <1>3, <1>4, <1>5 DEF HandlerInv

-----------------------------------------------------------------------------
(* Every action preserves the types, given the invariant.                  *)

LEMMA TypesLeave ==
  ASSUME TypeOK, NEW h \in Handler, NEW l \in PC, LeaveAs(h, l)
  PROVE  /\ pc' \in [Handler -> PC]
         /\ req' \in [Handler -> Request \cup {None}]
         /\ ses' \in [Handler -> Session \cup {None}]
         /\ rec' \in [Handler -> Copy \cup {None}]
         /\ plan' \in [Handler -> Plan \cup {None}]
         /\ tries' \in [Handler -> Nat]
BY DEF TypeOK, LeaveAs

LEMMA CopyTypes ==
  ASSUME NEW r \in Record
  PROVE  CopyOf(r) \in Copy
BY DEF CopyOf, Copy, Record

(* What a handler knows of its record while it works on it.                *)
LEMMA HandlerTypes ==
  ASSUME Inv, NEW h \in Handler, pc[h] \in Holding \cup Closing
  PROVE  /\ store[h[2]] \in Record /\ store[h[2]] # None
         /\ rec[h] \in Copy /\ rec[h] # None
         /\ rec[h].status \in Status /\ rec[h].plan \in Plan \cup {None}
         /\ rec[h].rev \in Nat /\ store[h[2]].rev \in Nat
         /\ rec[h].status \in {"DECIDED", "MASTERY_APPLIED", "COMPLETED"} =>
              rec[h].plan \in Plan /\ rec[h].plan # None
<1>1. store[h[2]] \in Record /\ rec[h] \in Copy /\ rec[h] # None /\ store[h[2]] # None
  BY HandlerPair DEF Inv, TypeOK, HandlerInv, CopyInv
<1>2. StageOK(h[2], rec[h].status, rec[h].plan)
  BY DEF Inv, HandlerInv, CopyInv
<1> QED BY <1>1, <1>2 DEF Record, Copy, StageOK

LEMMA TypesSave ==
  ASSUME Inv, NEW h \in Handler, pc[h] \in Holding,
         NEW status \in Status, NEW p \in Plan \cup {None}, NEW own \in {"kept", "released"},
         Save(h, status, p, own)
  PROVE  /\ store' \in [SubmissionId -> Record \cup {None}]
         /\ rec' \in [Handler -> Copy \cup {None}]
<1>1. store[h[2]] \in Record
  BY HandlerTypes
<1>2. Saved(h, status, p, own) \in Record
  BY <1>1 DEF Saved, Record
<1>3. CopyOf(Saved(h, status, p, own)) \in Copy
  BY <1>2, CopyTypes
<1>4. /\ store' = [store EXCEPT ![h[2]] = Saved(h, status, p, own)]
      /\ rec' = [rec EXCEPT ![h] = CopyOf(Saved(h, status, p, own))]
  BY DEF Save
<1> QED BY <1>2, <1>3, <1>4, HandlerPair DEF Inv, TypeOK

LEMMA TypesGoto ==
  ASSUME TypeOK, NEW h \in Handler, NEW l \in PC, Goto(h, l)
  PROVE  pc' \in [Handler -> PC]
BY DEF TypeOK, Goto

LEMMA PCValues ==
  /\ "idle" \in PC /\ "crashed" \in PC /\ "load_session" \in PC
  /\ "load_submission" \in PC /\ "create" \in PC /\ "claim_session" \in PC
  /\ "claim_submission" \in PC /\ "clear_session" \in PC
  /\ Holding \subseteq PC /\ Closing \subseteq PC
BY DEF PC, Holding, Closing

LEMMA TypesReceive ==
  ASSUME Inv, NEW h \in Handler, NEW q \in Request, Receive(h, q)
  PROVE  TypeOK'
BY PCValues DEF Inv, TypeOK, Receive, Goto, shared

LEMMA TypesLoadSession ==
  ASSUME Inv, NEW h \in Handler, LoadSession(h)
  PROVE  TypeOK'
BY PCValues DEF Inv, TypeOK, LoadSession, Goto, shared

LEMMA TypesLoadSubmission ==
  ASSUME Inv, NEW h \in Handler, LoadSubmission(h)
  PROVE  TypeOK'
<1>1. /\ pc' \in [Handler -> PC]
      /\ req' \in [Handler -> Request \cup {None}]
      /\ ses' \in [Handler -> Session \cup {None}]
      /\ rec' \in [Handler -> Copy \cup {None}]
      /\ plan' \in [Handler -> Plan \cup {None}]
      /\ tries' \in [Handler -> Nat]
  <2>1. CASE Leave(h)
    BY <2>1, TypesLeave, PCValues DEF Inv, Leave
  <2>2. CASE /\ UNCHANGED <<req, ses, plan, tries>>
             /\ \E l \in PC : Goto(h, l)
             /\ \/ UNCHANGED rec
                \/ /\ store[h[2]] # None
                   /\ rec' = [rec EXCEPT ![h] = CopyOf(store[h[2]])]
    <3>1. store[h[2]] # None => CopyOf(store[h[2]]) \in Copy
      BY HandlerPair, CopyTypes DEF Inv, TypeOK
    <3> QED BY <2>2, <3>1 DEF Inv, TypeOK, Goto
  <2> QED
    <3> "complete_session" \in PC /\ "clear_session" \in PC /\ "create" \in PC
          /\ "claim_session" \in PC
      BY DEF PC
    <3> QED BY <2>1, <2>2 DEF LoadSubmission
<1> QED BY <1>1 DEF Inv, TypeOK, LoadSubmission, shared

LEMMA TypesCreate ==
  ASSUME Inv, NEW h \in Handler, Create(h)
  PROVE  TypeOK'
<1>1. CASE Leave(h) /\ UNCHANGED store
  BY <1>1, TypesLeave, PCValues DEF Inv, TypeOK, Leave, Create
<1>2. CASE Goto(h, "claim_session") /\ UNCHANGED <<store, req, ses, rec, plan, tries>>
  BY <1>2, TypesGoto, PCValues DEF Inv, TypeOK, Create
<1>3. CASE /\ store' = [store EXCEPT ![h[2]] =
               [input |-> req[h], status |-> "RECEIVED", rev |-> 0,
                owner |-> None, lease |-> FALSE, plan |-> None]]
           /\ Goto(h, "claim_session")
           /\ UNCHANGED <<req, ses, rec, plan, tries>>
           /\ pc[h] = "create"
  <2>1. req[h] \in Request
    BY <1>3 DEF Inv, HandlerInv, LocalInv, TypeOK
  <2>2. [input |-> req[h], status |-> "RECEIVED", rev |-> 0,
         owner |-> None, lease |-> FALSE, plan |-> None] \in Record
    BY <2>1 DEF Record, Status
  <2> QED BY <1>3, <2>2, TypesGoto, PCValues DEF Inv, TypeOK, Create
<1> QED BY <1>1, <1>2, <1>3 DEF Create

LEMMA TypesClaimSession ==
  ASSUME Inv, NEW h \in Handler, ClaimSession(h)
  PROVE  TypeOK'
<1>1. CASE Leave(h) /\ UNCHANGED session
  BY <1>1, TypesLeave, PCValues DEF Inv, TypeOK, Leave, ClaimSession
<1>2. CASE /\ session' = [session EXCEPT !.active = h[2]]
           /\ ses' = [ses EXCEPT ![h] = session']
           /\ Goto(h, "claim_submission")
           /\ UNCHANGED <<req, rec, plan, tries>>
  <2>1. session' \in Session
    BY <1>2, HandlerPair DEF Inv, TypeOK, Session
  <2> QED BY <1>2, <2>1, TypesGoto, PCValues DEF Inv, TypeOK, ClaimSession
<1> QED BY <1>1, <1>2 DEF ClaimSession

LEMMA TypesClaimSubmission ==
  ASSUME Inv, NEW h \in Handler, ClaimSubmission(h)
  PROVE  TypeOK'
<1> DEFINE cur == store[h[2]]
           taken == Leased(cur, h[1])
<1>1. cur \in Record
  BY HandlerPair DEF Inv, TypeOK, HandlerInv, LocalInv, ClaimSubmission
<1>2. taken \in Record
  BY <1>1, HandlerPair DEF Record, Leased
<1>3. CopyOf(cur) \in Copy /\ CopyOf(taken) \in Copy
  BY <1>1, <1>2, CopyTypes
<1>4. CASE Leave(h) /\ UNCHANGED store
  BY <1>4, TypesLeave, PCValues DEF Inv, TypeOK, Leave, ClaimSubmission
<1>5. CASE /\ Goto(h, "load_session") /\ ses' = [ses EXCEPT ![h] = None]
           /\ UNCHANGED <<store, req, rec, plan, tries>>
  BY <1>5, TypesGoto, PCValues DEF Inv, TypeOK, ClaimSubmission
<1>6. CASE /\ rec' = [rec EXCEPT ![h] = CopyOf(cur)]
           /\ Goto(h, "secure") /\ UNCHANGED <<store, req, ses, plan, tries>>
  BY <1>3, <1>6, TypesGoto DEF Inv, TypeOK, ClaimSubmission, PC
<1>7. CASE /\ store' = [store EXCEPT ![h[2]] = taken]
           /\ rec' = [rec EXCEPT ![h] = CopyOf(taken)]
           /\ Goto(h, "secure") /\ UNCHANGED <<req, ses, plan, tries>>
  BY <1>2, <1>3, <1>7, TypesGoto DEF Inv, TypeOK, ClaimSubmission, PC
<1> QED BY <1>4, <1>5, <1>6, <1>7 DEF ClaimSubmission

LEMMA TypesReadSecure ==
  ASSUME Inv, NEW h \in Handler, ReadSecure(h)
  PROVE  TypeOK'
<1>1. pc' \in [Handler -> PC]
  BY TypesGoto DEF Inv, ReadSecure, PC
<1> QED BY <1>1 DEF Inv, TypeOK, ReadSecure, shared

LEMMA TypesSecureReadRetryable ==
  ASSUME Inv, NEW h \in Handler, SecureReadRetryable(h)
  PROVE  TypeOK'
<1>1. pc[h] \in Holding /\ Save(h, rec[h].status, rec[h].plan, "released") /\ Goto(h, "clear_session")
  BY DEF SecureReadRetryable, Holding
<1>2. rec[h].status \in Status /\ rec[h].plan \in Plan \cup {None}
  BY <1>1, HandlerTypes DEF Status, Inv, TypeOK
<1>3. /\ store' \in [SubmissionId -> Record \cup {None}]
      /\ rec' \in [Handler -> Copy \cup {None}]
  BY <1>1, <1>2, TypesSave
<1>4. pc' \in [Handler -> PC]
  BY <1>1, TypesGoto DEF PC, Inv
<1> QED BY <1>3, <1>4 DEF Inv, TypeOK, SecureReadRetryable, Fault

LEMMA TypesSecureReadPermanent ==
  ASSUME Inv, NEW h \in Handler, SecureReadPermanent(h)
  PROVE  TypeOK'
<1>1. pc[h] \in Holding /\ Save(h, "BLOCKED", rec[h].plan, "released") /\ Goto(h, "clear_session")
  BY DEF SecureReadPermanent, Holding
<1>2. "BLOCKED" \in Status /\ rec[h].plan \in Plan \cup {None}
  BY <1>1, HandlerTypes DEF Status, Inv, TypeOK
<1>3. /\ store' \in [SubmissionId -> Record \cup {None}]
      /\ rec' \in [Handler -> Copy \cup {None}]
  BY <1>1, <1>2, TypesSave
<1>4. pc' \in [Handler -> PC]
  BY <1>1, TypesGoto DEF PC, Inv
<1> QED BY <1>3, <1>4 DEF Inv, TypeOK, SecureReadPermanent, Fault

LEMMA TypesSaveDecision ==
  ASSUME Inv, NEW h \in Handler, SaveDecision(h)
  PROVE  TypeOK'
<1>1. pc[h] \in Holding /\ Save(h, "DECIDED", plan[h], "kept") /\ Goto(h, "work")
  BY DEF SaveDecision, Holding
<1>2. "DECIDED" \in Status /\ plan[h] \in Plan \cup {None}
  BY <1>1, HandlerTypes DEF Status, Inv, TypeOK
<1>3. /\ store' \in [SubmissionId -> Record \cup {None}]
      /\ rec' \in [Handler -> Copy \cup {None}]
  BY <1>1, <1>2, TypesSave
<1>4. pc' \in [Handler -> PC]
  BY <1>1, TypesGoto DEF PC, Inv
<1> QED BY <1>3, <1>4 DEF Inv, TypeOK, SaveDecision, Fault

LEMMA TypesSaveApplied ==
  ASSUME Inv, NEW h \in Handler, SaveApplied(h)
  PROVE  TypeOK'
<1>1. pc[h] \in Holding /\ Save(h, "MASTERY_APPLIED", rec[h].plan, "kept") /\ Goto(h, "work")
  BY DEF SaveApplied, Holding
<1>2. "MASTERY_APPLIED" \in Status /\ rec[h].plan \in Plan \cup {None}
  BY <1>1, HandlerTypes DEF Status, Inv, TypeOK
<1>3. /\ store' \in [SubmissionId -> Record \cup {None}]
      /\ rec' \in [Handler -> Copy \cup {None}]
  BY <1>1, <1>2, TypesSave
<1>4. pc' \in [Handler -> PC]
  BY <1>1, TypesGoto DEF PC, Inv
<1> QED BY <1>3, <1>4 DEF Inv, TypeOK, SaveApplied, Fault

LEMMA TypesSaveCompleted ==
  ASSUME Inv, NEW h \in Handler, SaveCompleted(h)
  PROVE  TypeOK'
<1>1. pc[h] \in Holding /\ Save(h, "COMPLETED", rec[h].plan, "released") /\ Goto(h, "complete_session")
  BY DEF SaveCompleted, Holding
<1>2. "COMPLETED" \in Status /\ rec[h].plan \in Plan \cup {None}
  BY <1>1, HandlerTypes DEF Status, Inv, TypeOK
<1>3. /\ store' \in [SubmissionId -> Record \cup {None}]
      /\ rec' \in [Handler -> Copy \cup {None}]
  BY <1>1, <1>2, TypesSave
<1>4. pc' \in [Handler -> PC]
  BY <1>1, TypesGoto DEF PC, Inv
<1> QED BY <1>3, <1>4 DEF Inv, TypeOK, SaveCompleted, Fault

LEMMA TypesGrade ==
  ASSUME Inv, NEW h \in Handler, Grade(h)
  PROVE  TypeOK'
<1>1. pc[h] \in Holding
  BY DEF Grade, Holding
<1>2. /\ store' \in [SubmissionId -> Record \cup {None}]
      /\ rec' \in [Handler -> Copy \cup {None}]
  BY <1>1, TypesSave DEF Grade, Status
<1>3. pc' \in [Handler -> PC]
  BY TypesGoto, PCValues DEF Inv, TypeOK, Grade
<1> QED BY <1>2, <1>3 DEF Inv, TypeOK, Grade

LEMMA TypesPrepare ==
  ASSUME Inv, NEW h \in Handler, Prepare(h)
  PROVE  TypeOK'
<1>1. pc' \in [Handler -> PC]
  BY TypesGoto DEF Inv, Prepare, PC
<1>2. \A d \in Decision : PlanFor(<<h[2], d>>) \in Plan
  BY HandlerPair, KeyPair DEF PlanFor, Plan, Inv, TypeOK
<1> QED BY <1>1, <1>2 DEF Inv, TypeOK, Prepare, shared

LEMMA TypesCommit ==
  ASSUME Inv, NEW h \in Handler, Commit(h)
  PROVE  TypeOK'
<1>1. pc' \in [Handler -> PC]
  BY TypesGoto DEF Inv, Commit, PC
<1>2. rec[h].plan \in Plan
  BY HandlerTypes DEF Commit, Holding
<1>3. mastery' \in [Objective -> [rev : Nat, keys : SUBSET Key]]
  BY <1>2 DEF Inv, TypeOK, Commit, Plan
<1> QED BY <1>1, <1>3 DEF Inv, TypeOK, Commit

LEMMA TypesCheckApplied ==
  ASSUME Inv, NEW h \in Handler, CheckApplied(h)
  PROVE  TypeOK'
<1>1. CASE Leave(h)
  BY <1>1, TypesLeave, PCValues DEF Inv, TypeOK, Leave, CheckApplied, shared
<1>2. CASE Goto(h, "save_applied") /\ UNCHANGED <<req, ses, rec, plan, tries>>
  BY <1>2, TypesGoto DEF Inv, TypeOK, CheckApplied, shared, PC
<1>3. CASE /\ tries' = [tries EXCEPT ![h] = @ + 1] /\ Goto(h, "redecide")
           /\ UNCHANGED <<req, ses, rec, plan>>
  BY <1>3, TypesGoto DEF Inv, TypeOK, CheckApplied, shared, PC
<1> QED BY <1>1, <1>2, <1>3 DEF CheckApplied

LEMMA TypesCompleteSession ==
  ASSUME Inv, NEW h \in Handler, CompleteSession(h)
  PROVE  TypeOK'
<1>1. CASE Leave(h) /\ UNCHANGED session
  BY <1>1, TypesLeave, PCValues DEF Inv, TypeOK, Leave, CompleteSession
<1>2. CASE /\ session' \in Session
           /\ Goto(h, "deliver") /\ UNCHANGED <<req, ses, rec, plan, tries>>
  BY <1>2, TypesGoto DEF Inv, TypeOK, CompleteSession, PC
<1>3. rec[h].plan.key \in Key
  BY HandlerTypes DEF CompleteSession, Closing, Plan, Inv, HandlerInv, ClosingInv
<1>4. session \in Session
  BY DEF Inv, TypeOK
<1> QED BY <1>1, <1>2, <1>3, <1>4 DEF CompleteSession, Session

LEMMA TypesDeliver ==
  ASSUME Inv, NEW h \in Handler, Deliver(h)
  PROVE  TypeOK'
<1>1. rec[h].plan.key \in Key
  BY HandlerTypes DEF Deliver, Closing, Plan, Inv, HandlerInv, ClosingInv
<1> QED BY <1>1, TypesLeave, PCValues DEF Inv, TypeOK, Deliver, Leave

LEMMA TypesClearSession ==
  ASSUME Inv, NEW h \in Handler, ClearSession(h)
  PROVE  TypeOK'
<1>1. session' \in Session
  BY DEF Inv, TypeOK, ClearSession, Session
<1> QED BY <1>1, TypesLeave, PCValues DEF Inv, TypeOK, ClearSession, Leave

LEMMA TypesLoseOwnership ==
  ASSUME Inv, NEW h \in Handler, LoseOwnership(h)
  PROVE  TypeOK'
BY TypesLeave, PCValues DEF Inv, TypeOK, LoseOwnership, Leave, shared

LEMMA TypesAbandon ==
  ASSUME Inv, NEW h \in Handler, Abandon(h)
  PROVE  TypeOK'
BY TypesLeave, PCValues DEF Inv, TypeOK, Abandon, Leave, shared, Fault

LEMMA TypesHeartbeat ==
  ASSUME Inv, NEW h \in Handler, Heartbeat(h)
  PROVE  TypeOK'
<1> DEFINE cur == store[h[2]]
           renewed == Leased(cur, h[1])
<1>1. cur \in Record
  BY HandlerTypes DEF Heartbeat, Beating, Holding
<1>2. renewed \in Record
  BY <1>1, HandlerPair DEF Record, Leased
<1>3. CopyOf(renewed) \in Copy
  BY <1>2, CopyTypes
<1> QED BY <1>2, <1>3, HandlerPair DEF Inv, TypeOK, Heartbeat

-----------------------------------------------------------------------------
(* The invariant from its parts: a step of handler g, or of nobody.        *)

LEMMA StageKeeps ==
  ASSUME TypeOK, TypeOK', MasteryGrows, NEW s \in SubmissionId, NEW st,
         NEW p \in Plan \cup {None}, StageOK(s, st, p)
  PROVE  StageOK(s, st, p)'
<1>1. p \in Plan => p.key \in Key
  BY DEF Plan
<1> QED BY <1>1, GrowthKeeps, NoneIsNoRecord DEF StageOK

LEMMA RecordKeeps ==
  ASSUME Inv, TypeOK', MasteryGrows, NEW s \in SubmissionId, store'[s] = store[s]
  PROVE  RecordInv(s)'
<1>1. store[s] # None => store[s].plan \in Plan \cup {None}
  BY DEF Inv, TypeOK, Record
<1>2. store[s] # None => StageOK(s, store[s].status, store[s].plan)
  BY DEF Inv, RecordInv
<1>3. store[s] # None => StageOK(s, store[s].status, store[s].plan)'
  BY <1>1, <1>2, StageKeeps DEF Inv
<1> QED BY <1>3 DEF Inv, RecordInv

(* A step that leaves the records and the mastery store alone.             *)
LEMMA LocalStep ==
  ASSUME Inv, TypeOK', NEW g \in Handler, Frame(g),
         store' = store, mastery' = mastery, DeliveredIsFinal',
         HandlerInv(g)'
  PROVE  Inv'
<1>1. MasteryGrows
  BY DEF MasteryGrows, Inv, TypeOK
<1>2. \A s \in SubmissionId : RecordInv(s)'
  BY <1>1, RecordKeeps
<1>3. ASSUME NEW h \in Handler, h # g PROVE HandlerInv(h)'
  <2>1. RecordGrows(h)
    BY HandlerPair DEF RecordGrows, Inv, TypeOK
  <2>2. NothingNewCounted(h)
    BY DEF NothingNewCounted, Counted
  <2> QED BY <1>1, <1>3, <2>1, <2>2, OtherKeeps, HandlerPair DEF Inv, Frame
<1>4. BatchInv' /\ CountedIsRecorded'
  BY DEF Inv, BatchInv, CountedIsRecorded, Counted, AlreadyApplied
<1> QED BY <1>2, <1>3, <1>4 DEF Inv

LEMMA DeliveredKept ==
  ASSUME Inv, store' = store, delivered' = delivered
  PROVE  DeliveredIsFinal'
BY DEF Inv, DeliveredIsFinal, Has

(* A step that writes the record of g's submission only.                   *)
LEMMA RecordStep ==
  ASSUME Inv, TypeOK', NEW g \in Handler, Frame(g), NEW r \in Record,
         store' = [store EXCEPT ![g[2]] = r], mastery' = mastery,
         delivered' = delivered,
         store[g[2]] # None =>
           /\ r.rev > store[g[2]].rev /\ r.owner \in {None, g[1]}
           /\ store[g[2]].status \notin Terminal
           /\ r.plan = store[g[2]].plan \/ store[g[2]].plan = None
                \/ Dead(store[g[2]].plan),
         \A k \in Key : k[1] = g[2] /\ Counted(k) => r.plan # None /\ r.plan.key = k,
         RecordInv(g[2])', HandlerInv(g)'
  PROVE  Inv'
<1>1. MasteryGrows
  BY DEF MasteryGrows, Inv, TypeOK
<1>2. /\ g[2] \in SubmissionId /\ g[1] \in Worker /\ store'[g[2]] = r
      /\ \A s \in SubmissionId : s # g[2] => store'[s] = store[s]
      /\ r # None
  BY HandlerPair, NoneIsNoRecord DEF Inv, TypeOK
<1>3. \A s \in SubmissionId : RecordInv(s)'
  BY <1>1, <1>2, RecordKeeps
<1>4. ASSUME NEW h \in Handler, h # g PROVE HandlerInv(h)'
  <2>1. h[2] \in SubmissionId /\ h[1] \in Worker /\ h[1] # None
    BY HandlerPair, NoneAssumption
  <2>2. h[2] = g[2] => h[1] # g[1]
    BY <1>4, HandlerPair
  <2>3. RecordGrows(h)
    <3>1. CASE h[2] = g[2]
      BY <1>2, <2>1, <2>2, <3>1 DEF RecordGrows
    <3>2. CASE h[2] # g[2]
      BY <1>2, <2>1, <3>2 DEF RecordGrows
    <3> QED BY <3>1, <3>2
  <2>4. NothingNewCounted(h)
    BY DEF NothingNewCounted, Counted
  <2> QED BY <1>1, <1>4, <2>1, <2>3, <2>4, OtherKeeps DEF Inv, Frame
<1>5. BatchInv'
  BY DEF Inv, BatchInv, Counted, AlreadyApplied
<1>6. CountedIsRecorded'
  <2> SUFFICES ASSUME NEW o \in Objective, NEW k \in mastery[o].keys
               PROVE  /\ store'[k[1]] # None /\ store'[k[1]].plan # None
                      /\ store'[k[1]].plan.key = k
    BY DEF CountedIsRecorded
  <2>1. k \in Key /\ Counted(k) /\ k[1] \in SubmissionId
    BY DEF Inv, TypeOK, Counted, Key
  <2>2. store[k[1]] # None /\ store[k[1]].plan # None /\ store[k[1]].plan.key = k
    BY DEF Inv, CountedIsRecorded
  <2> QED BY <1>2, <2>1, <2>2
<1>7. DeliveredIsFinal'
  <2> SUFFICES ASSUME NEW k \in delivered
               PROVE  /\ store'[k[1]] # None /\ store'[k[1]].status = "COMPLETED"
                      /\ store'[k[1]].plan.key = k
    BY DEF DeliveredIsFinal, Has
  <2>1. k[1] \in SubmissionId
    BY DEF Inv, TypeOK, Key
  <2>2. /\ store[k[1]] # None /\ store[k[1]].status = "COMPLETED"
        /\ store[k[1]].plan.key = k
    BY DEF Inv, DeliveredIsFinal, Has
  <2>3. k[1] # g[2]
    BY <2>2 DEF Terminal
  <2> QED BY <1>2, <2>1, <2>2, <2>3
<1> QED BY <1>3, <1>4, <1>5, <1>6, <1>7 DEF Inv

-----------------------------------------------------------------------------
(* The end of a handler, and a save.                                       *)

LEMMA LeaveFrame ==
  ASSUME TypeOK, NEW g \in Handler, NEW l, LeaveAs(g, l)
  PROVE  Frame(g) /\ pc'[g] = l
BY DEF TypeOK, LeaveAs, Frame

LEMMA OutsideInv ==
  ASSUME NEW h, pc[h] \in {"idle", "crashed"}
  PROVE  HandlerInv(h)
BY DEF HandlerInv, LocalInv, CopyInv, HoldingInv, ClosingInv, DecisionInv,
       Redeciding, Holding, Closing

LEMMA LeaveStep ==
  ASSUME Inv, TypeOK', NEW g \in Handler, Leave(g),
         store' = store, mastery' = mastery, delivered' = delivered
  PROVE  Inv'
<1>1. Frame(g) /\ pc'[g] = "idle"
  BY LeaveFrame DEF Inv, Leave
<1>2. HandlerInv(g)'
  BY <1>1 DEF HandlerInv, LocalInv, CopyInv, HoldingInv, ClosingInv, DecisionInv,
              Redeciding, Holding, Closing
<1> QED BY <1>1, <1>2, LocalStep, DeliveredKept

(* What the mastery store has counted is the plan of a fresh copy.         *)
LEMMA FreshCounted ==
  ASSUME Inv, NEW g \in Handler, pc[g] \in Holding, Fresh(g),
         NEW k \in Key, k[1] = g[2], Counted(k)
  PROVE  rec[g].plan # None /\ rec[g].plan.key = k
<1>1. store[g[2]].plan # None /\ store[g[2]].plan.key = k
  BY DEF Inv, CountedIsRecorded, Counted
<1>2. rec[g] = CopyOf(store[g[2]])
  BY DEF Inv, HandlerInv, HoldingInv
<1> QED BY <1>1, <1>2 DEF CopyOf

(* The state after a save.                                                 *)
SaveResult(g, status, p, own) ==
  /\ Saved(g, status, p, own) \in Record
  /\ store' = [store EXCEPT ![g[2]] = Saved(g, status, p, own)]
  /\ store'[g[2]] = Saved(g, status, p, own) /\ store'[g[2]] # None
  /\ store'[g[2]].rev = store[g[2]].rev + 1
  /\ store'[g[2]].owner = (IF own = "kept" THEN g[1] ELSE None)
  /\ own = "released" => store'[g[2]].lease = FALSE
  /\ rec'[g] = CopyOf(store'[g[2]]) /\ rec'[g] # None

LEMMA SaveFacts ==
  ASSUME Inv, NEW g \in Handler, pc[g] \in Holding, NEW status \in Status,
         NEW p \in Plan \cup {None}, NEW own \in {"kept", "released"},
         Save(g, status, p, own)
  PROVE  SaveResult(g, status, p, own)
<1>1. store[g[2]] \in Record /\ store[g[2]].owner = g[1]
  BY HandlerTypes DEF Save, Inv, HandlerInv, HoldingInv
<1>2. Saved(g, status, p, own) \in Record
  BY <1>1 DEF Saved, Record
<1>3. /\ store' = [store EXCEPT ![g[2]] = Saved(g, status, p, own)]
      /\ rec' = [rec EXCEPT ![g] = CopyOf(Saved(g, status, p, own))]
  BY DEF Save
<1>4. store'[g[2]] = Saved(g, status, p, own) /\ rec'[g] = CopyOf(store'[g[2]])
  BY <1>3, HandlerPair DEF Inv, TypeOK
<1>5. CopyOf(store'[g[2]]) \in Copy
  BY <1>2, <1>4, CopyTypes
<1>6. /\ store'[g[2]].rev = store[g[2]].rev + 1
      /\ store'[g[2]].owner = (IF own = "kept" THEN g[1] ELSE None)
      /\ own = "released" => store'[g[2]].lease = FALSE
  <2> DEFINE r == Saved(g, status, p, own)
  <2>1. r.rev = store[g[2]].rev + 1
    BY DEF Saved
  <2>2. r.owner = (IF own = "kept" THEN g[1] ELSE None)
    BY <1>1 DEF Saved
  <2>3. own = "released" => r.lease = FALSE
    BY Zenon DEF Saved
  <2> HIDE DEF r
  <2> QED BY <1>4, <2>1, <2>2, <2>3 DEF r
<1>7. store'[g[2]] # None /\ rec'[g] # None
  BY <1>2, <1>4, <1>5, NoneIsNoRecord
<1> QED BY <1>2, <1>3, <1>4, <1>6, <1>7 DEF SaveResult

LEMMA SaveStep ==
  ASSUME Inv, TypeOK', NEW g \in Handler, Frame(g), pc[g] \in Holding,
         NEW status \in Status, NEW p \in Plan \cup {None}, NEW own \in {"kept", "released"},
         Save(g, status, p, own), mastery' = mastery, delivered' = delivered,
         req'[g] = req[g], StageOK(g[2], status, p), status \in Terminal => own = "released",
         p = rec[g].plan \/ rec[g].plan = None \/ Dead(rec[g].plan),
         \A k \in Key : k[1] = g[2] /\ Counted(k) => p # None /\ p.key = k,
         \/ pc'[g] = "work" /\ own = "kept" /\ status \notin Terminal
         \/ pc'[g] = "clear_session"
         \/ pc'[g] = "complete_session" /\ status = "COMPLETED"
  PROVE  Inv'
<1> DEFINE r == Saved(g, status, p, own)
<1>1. /\ r \in Record /\ store' = [store EXCEPT ![g[2]] = r]
      /\ store'[g[2]] = r /\ r # None /\ r.rev = store[g[2]].rev + 1
      /\ r.status = status /\ r.plan = p
      /\ r.owner = (IF own = "kept" THEN g[1] ELSE None)
      /\ own = "released" => r.lease = FALSE
      /\ rec'[g] = CopyOf(r) /\ rec'[g] # None
  <2>1. SaveResult(g, status, p, own)
    BY SaveFacts
  <2>2. r.status = status /\ r.plan = p
    BY DEF Saved
  <2> HIDE DEF r
  <2> QED BY <2>1, <2>2 DEF SaveResult, r
<1> HIDE DEF r
<1>2. g[1] \in Worker /\ g[1] # None /\ g[2] \in SubmissionId
  BY HandlerPair, NoneAssumption
<1>3. /\ Fresh(g) /\ rec[g] = CopyOf(store[g[2]]) /\ rec[g].status \notin Terminal
      /\ store[g[2]].rev \in Nat
  BY HandlerTypes DEF Save, Inv, HandlerInv, HoldingInv
<1>4. store[g[2]].status = rec[g].status /\ store[g[2]].plan = rec[g].plan
  BY <1>3 DEF CopyOf
<1>5. StageOK(g[2], status, p)'
  BY DEF StageOK, PlanOK, AlreadyApplied
<1>6. RecordInv(g[2])'
  BY <1>1, <1>2, <1>5 DEF RecordInv
<1>7. rec'[g].rev = r.rev /\ rec'[g].status = status /\ rec'[g].plan = p
  BY <1>1 DEF CopyOf
<1>8. r.rev \in Nat /\ r.rev > store[g[2]].rev
  BY <1>1, <1>3
<1>9. HandlerInv(g)'
  <2>1. LocalInv(g)'
    BY <1>1 DEF LocalInv, Inv, HandlerInv, Holding
  <2>2. CopyInv(g)'
    BY <1>1, <1>5, <1>7, <1>8 DEF CopyInv
  <2>3. HoldingInv(g)'
    BY <1>1, <1>2, <1>7 DEF HoldingInv, Holding, Fresh
  <2>4. ClosingInv(g)'
    BY <1>1, <1>7 DEF ClosingInv, Closing
  <2>5. DecisionInv(g)'
    BY <1>1, <1>7 DEF DecisionInv, Redeciding
  <2> QED BY <2>1, <2>2, <2>3, <2>4, <2>5 DEF HandlerInv
<1> QED BY <1>1, <1>2, <1>3, <1>4, <1>6, <1>8, <1>9, RecordStep

-----------------------------------------------------------------------------
(* Every action preserves the invariant: the steps before the work begins. *)

LEMMA QuietStep ==
  ASSUME Inv, TypeOK', NEW g \in Handler, Frame(g),
         store' = store, mastery' = mastery, delivered' = delivered,
         pc'[g] \notin Holding \cup Closing, LocalInv(g)'
  PROVE  Inv'
<1>1. HandlerInv(g)'
  BY DEF HandlerInv, CopyInv, HoldingInv, ClosingInv, DecisionInv, Redeciding,
         Holding, Closing
<1> QED BY <1>1, LocalStep, DeliveredKept

LEMMA InvReceive ==
  ASSUME Inv, NEW h \in Handler, NEW q \in Request, Receive(h, q)
  PROVE  Inv'
<1>1. TypeOK'
  BY TypesReceive
<1>2. Frame(h) /\ pc'[h] = "load_session" /\ req'[h] = q
  BY DEF Receive, Goto, Frame, Inv, TypeOK
<1>3. LocalInv(h)'
  BY <1>2, NoneAssumption DEF LocalInv
<1> QED BY <1>1, <1>2, <1>3, QuietStep DEF Receive, shared, Holding, Closing

LEMMA InvLoadSession ==
  ASSUME Inv, NEW h \in Handler, LoadSession(h)
  PROVE  Inv'
<1>1. TypeOK'
  BY TypesLoadSession
<1>2. /\ Frame(h) /\ pc'[h] = "load_submission" /\ ses'[h] = session
      /\ req'[h] = req[h] /\ req[h] # None
  BY DEF LoadSession, Goto, Frame, Inv, TypeOK, HandlerInv, LocalInv
<1>3. session # None
  BY NoneIsNoRecord DEF Inv, TypeOK
<1>4. LocalInv(h)'
  BY <1>2, <1>3 DEF LocalInv
<1> QED BY <1>1, <1>2, <1>4, QuietStep DEF LoadSession, shared, Holding, Closing

LEMMA InvLoadSubmission ==
  ASSUME Inv, NEW h \in Handler, LoadSubmission(h)
  PROVE  Inv'
<1>1. TypeOK' /\ store' = store /\ mastery' = mastery /\ delivered' = delivered
  BY TypesLoadSubmission DEF LoadSubmission, shared
<1>2. req[h] # None
  BY DEF Inv, HandlerInv, LocalInv, LoadSubmission
<1>3. CASE Leave(h)
  BY <1>1, <1>3, LeaveStep
<1>4. CASE /\ store[h[2]] # None /\ store[h[2]].status = "COMPLETED"
           /\ rec' = [rec EXCEPT ![h] = CopyOf(store[h[2]])]
           /\ Goto(h, "complete_session") /\ UNCHANGED <<req, ses, plan, tries>>
  <2>1. /\ Frame(h) /\ pc'[h] = "complete_session" /\ req'[h] = req[h]
        /\ rec'[h] = CopyOf(store[h[2]])
    BY <1>4 DEF Goto, Frame, Inv, TypeOK
  <2>2. store[h[2]] \in Record /\ h[2] \in SubmissionId
    BY <1>4, HandlerPair DEF Inv, TypeOK
  <2>3. /\ rec'[h] # None /\ rec'[h].rev = store[h[2]].rev /\ store[h[2]].rev \in Nat
        /\ rec'[h].status = store[h[2]].status /\ rec'[h].plan = store[h[2]].plan
    BY <2>1, <2>2, CopyTypes, NoneIsNoRecord DEF CopyOf, Record
  <2>4. StageOK(h[2], store[h[2]].status, store[h[2]].plan)'
    BY <1>1, <1>4, <2>2 DEF Inv, RecordInv, StageOK, PlanOK, AlreadyApplied
  <2>5. HandlerInv(h)'
    BY <1>1, <1>2, <1>4, <2>1, <2>3, <2>4
    DEF HandlerInv, LocalInv, CopyInv, HoldingInv, ClosingInv, DecisionInv,
        Redeciding, Holding, Closing
  <2> QED BY <1>1, <2>1, <2>5, LocalStep, DeliveredKept
<1>5. ASSUME NEW l \in {"clear_session", "create"}, Goto(h, l),
             UNCHANGED <<req, ses, rec, plan, tries>>
      PROVE  Inv'
  <2>1. Frame(h) /\ pc'[h] = l /\ req'[h] = req[h]
    BY <1>5 DEF Goto, Frame, Inv, TypeOK
  <2>2. LocalInv(h)'
    BY <1>2, <1>5, <2>1 DEF LocalInv
  <2> QED BY <1>1, <1>5, <2>1, <2>2, QuietStep DEF Holding, Closing
<1>6. CASE /\ store[h[2]] # None /\ Goto(h, "claim_session")
           /\ UNCHANGED <<req, ses, rec, plan, tries>>
  <2>1. Frame(h) /\ pc'[h] = "claim_session" /\ req'[h] = req[h]
    BY <1>6 DEF Goto, Frame, Inv, TypeOK
  <2>2. LocalInv(h)'
    BY <1>1, <1>2, <1>6, <2>1 DEF LocalInv
  <2> QED BY <1>1, <2>1, <2>2, QuietStep DEF Holding, Closing
<1> QED BY <1>3, <1>4, <1>5, <1>6, Zenon DEF LoadSubmission

LEMMA InvCreate ==
  ASSUME Inv, NEW h \in Handler, Create(h)
  PROVE  Inv'
<1>1. TypeOK' /\ mastery' = mastery /\ delivered' = delivered
  BY TypesCreate DEF Create
<1>2. req[h] # None /\ req[h] \in Request /\ h[2] \in SubmissionId
  BY HandlerPair DEF Inv, TypeOK, HandlerInv, LocalInv, Create
<1>3. CASE /\ store[h[2]] = None
           /\ store' = [store EXCEPT ![h[2]] =
                [input |-> req[h], status |-> "RECEIVED", rev |-> 0,
                 owner |-> None, lease |-> FALSE, plan |-> None]]
           /\ Goto(h, "claim_session") /\ UNCHANGED <<req, ses, rec, plan, tries>>
  <2> DEFINE r == [input |-> req[h], status |-> "RECEIVED", rev |-> 0,
                   owner |-> None, lease |-> FALSE, plan |-> None]
  <2>1. Frame(h) /\ pc'[h] = "claim_session" /\ req'[h] = req[h]
    BY <1>3 DEF Goto, Frame, Inv, TypeOK
  <2>2. /\ r \in Record /\ r.status = "RECEIVED" /\ r.plan = None
        /\ r.owner = None /\ r.lease = FALSE
    BY <1>2 DEF Record, Status
  <2>3. store' = [store EXCEPT ![h[2]] = r]
    BY <1>3
  <2> HIDE DEF r
  <2>4. store'[h[2]] = r /\ r # None
    BY <1>2, <2>2, <2>3, NoneIsNoRecord DEF Inv, TypeOK
  <2>5. \A k \in Key : k[1] = h[2] => ~Counted(k)
    BY <1>3 DEF Inv, CountedIsRecorded, Counted
  <2>6. RecordInv(h[2])'
    BY <2>2, <2>4 DEF RecordInv, StageOK, Terminal
  <2>7. HandlerInv(h)'
    BY <1>2, <2>1, <2>4
    DEF HandlerInv, LocalInv, CopyInv, HoldingInv, ClosingInv, DecisionInv,
        Redeciding, Holding, Closing
  <2> QED BY <1>1, <1>3, <2>1, <2>2, <2>3, <2>5, <2>6, <2>7, RecordStep
<1>4. CASE /\ store[h[2]] # None /\ Goto(h, "claim_session")
           /\ UNCHANGED <<store, req, ses, rec, plan, tries>>
  <2>1. Frame(h) /\ pc'[h] = "claim_session" /\ req'[h] = req[h]
    BY <1>4 DEF Goto, Frame, Inv, TypeOK
  <2>2. LocalInv(h)'
    BY <1>2, <1>4, <2>1 DEF LocalInv
  <2> QED BY <1>1, <1>4, <2>1, <2>2, QuietStep DEF Holding, Closing
<1>5. CASE Leave(h) /\ UNCHANGED store
  BY <1>1, <1>5, LeaveStep
<1> QED BY <1>3, <1>4, <1>5 DEF Create

LEMMA InvClaimSession ==
  ASSUME Inv, NEW h \in Handler, ClaimSession(h)
  PROVE  Inv'
<1>1. TypeOK' /\ store' = store /\ mastery' = mastery /\ delivered' = delivered
  BY TypesClaimSession DEF ClaimSession
<1>2. CASE Leave(h)
  BY <1>1, <1>2, LeaveStep
<1>3. CASE /\ ses' = [ses EXCEPT ![h] = session'] /\ Goto(h, "claim_submission")
           /\ UNCHANGED <<req, rec, plan, tries>>
  <2>1. Frame(h) /\ pc'[h] = "claim_submission" /\ req'[h] = req[h]
    BY <1>3 DEF Goto, Frame, Inv, TypeOK
  <2>2. LocalInv(h)'
    BY <1>1, <2>1 DEF LocalInv, Inv, HandlerInv, ClaimSession
  <2> QED BY <1>1, <2>1, <2>2, QuietStep DEF Holding, Closing
<1> QED BY <1>2, <1>3 DEF ClaimSession

(* A process that takes or renews the lease of a record without a terminal *)
(* status, and whose copy is the record it wrote.                          *)
LEMMA LeaseStep ==
  ASSUME Inv, TypeOK', NEW h \in Handler, Frame(h),
         store[h[2]] # None, store[h[2]].status \notin Terminal,
         store' = [store EXCEPT ![h[2]] = Leased(store[h[2]], h[1])],
         rec' = [rec EXCEPT ![h] = CopyOf(Leased(store[h[2]], h[1]))],
         mastery' = mastery, delivered' = delivered, LocalInv(h)',
         pc'[h] \in Holding, DecisionInv(h)'
  PROVE  Inv'
<1> DEFINE cur == store[h[2]]
           r == Leased(cur, h[1])
<1>1. h[2] \in SubmissionId /\ h[1] \in Worker /\ h[1] # None /\ cur \in Record
  BY HandlerPair, NoneAssumption DEF Inv, TypeOK
<1>2. /\ r \in Record /\ r.status = cur.status /\ r.plan = cur.plan
      /\ r.owner = h[1] /\ r.rev = cur.rev + 1 /\ cur.rev \in Nat
  BY <1>1 DEF Leased, Record
<1>3. store' = [store EXCEPT ![h[2]] = r] /\ rec' = [rec EXCEPT ![h] = CopyOf(r)]
  OBVIOUS
<1> HIDE DEF r
<1>4. store'[h[2]] = r /\ r # None /\ rec'[h] = CopyOf(r)
  BY <1>1, <1>2, <1>3, NoneIsNoRecord DEF Inv, TypeOK
<1>5. /\ rec'[h] # None /\ rec'[h].rev = r.rev
      /\ rec'[h].status = r.status /\ rec'[h].plan = r.plan
  BY <1>2, <1>4, CopyTypes, NoneIsNoRecord DEF CopyOf
<1>6. /\ StageOK(h[2], store[h[2]].status, store[h[2]].plan)'
      /\ StageOK(h[2], rec[h].status, rec[h].plan)'
  <2>1. StageOK(h[2], cur.status, cur.plan)
    BY <1>1 DEF Inv, RecordInv
  <2>2. /\ store'[h[2]].status = cur.status /\ store'[h[2]].plan = cur.plan
        /\ rec'[h].status = cur.status /\ rec'[h].plan = cur.plan
    BY <1>2, <1>4, <1>5
  <2> HIDE DEF cur
  <2> QED BY <2>1, <2>2 DEF StageOK, PlanOK, AlreadyApplied
<1>7. RecordInv(h[2])'
  BY <1>1, <1>2, <1>4, <1>6 DEF RecordInv
<1>8. HandlerInv(h)'
  <2>1. CopyInv(h)'
    BY <1>2, <1>4, <1>5, <1>6 DEF CopyInv, Record
  <2>2. HoldingInv(h)'
    BY <1>2, <1>4, <1>5 DEF HoldingInv, Fresh
  <2>3. ClosingInv(h)'
    BY DEF ClosingInv, Holding, Closing
  <2> QED BY <2>1, <2>2, <2>3 DEF HandlerInv
<1>9. \A k \in Key : k[1] = h[2] /\ Counted(k) => r.plan # None /\ r.plan.key = k
  BY <1>2 DEF Inv, CountedIsRecorded, Counted
<1>10. r.rev > cur.rev
  BY <1>2
<1> QED BY <1>1, <1>2, <1>3, <1>7, <1>8, <1>9, <1>10, RecordStep

LEMMA InvClaimSubmission ==
  ASSUME Inv, NEW h \in Handler, ClaimSubmission(h)
  PROVE  Inv'
<1> DEFINE cur == store[h[2]]
           taken == Leased(cur, h[1])
<1>1. TypeOK' /\ mastery' = mastery /\ delivered' = delivered
  BY TypesClaimSubmission DEF ClaimSubmission
<1>2. /\ cur # None /\ cur \in Record /\ req[h] # None
      /\ h[2] \in SubmissionId /\ h[1] \in Worker /\ h[1] # None
  BY HandlerPair, NoneAssumption
  DEF Inv, TypeOK, HandlerInv, LocalInv, ClaimSubmission
<1>3. CASE /\ Goto(h, "load_session") /\ ses' = [ses EXCEPT ![h] = None]
           /\ UNCHANGED <<store, req, rec, plan, tries>>
  <2>1. Frame(h) /\ pc'[h] = "load_session" /\ req'[h] = req[h]
    BY <1>3 DEF Goto, Frame, Inv, TypeOK
  <2>2. LocalInv(h)'
    BY <1>2, <2>1 DEF LocalInv
  <2> QED BY <1>1, <1>3, <2>1, <2>2, QuietStep DEF Holding, Closing
<1>4. CASE /\ cur.status \notin Terminal /\ cur.owner = h[1]
           /\ rec' = [rec EXCEPT ![h] = CopyOf(cur)] /\ Goto(h, "secure")
           /\ UNCHANGED <<store, req, ses, plan, tries>>
  <2>1. Frame(h) /\ pc'[h] = "secure" /\ req'[h] = req[h] /\ rec'[h] = CopyOf(cur)
    BY <1>4 DEF Goto, Frame, Inv, TypeOK
  <2>2. /\ rec'[h] # None /\ rec'[h].rev = cur.rev /\ cur.rev \in Nat
        /\ rec'[h].status = cur.status /\ rec'[h].plan = cur.plan
    BY <1>2, <2>1, CopyTypes, NoneIsNoRecord DEF CopyOf, Record
  <2>3. StageOK(h[2], cur.status, cur.plan)'
    BY <1>1, <1>2, <1>4 DEF Inv, RecordInv, StageOK, PlanOK, AlreadyApplied
  <2>4. HandlerInv(h)'
    <3>1. LocalInv(h)' /\ ClosingInv(h)' /\ DecisionInv(h)'
      BY <1>2, <1>4, <2>1, <2>2
      DEF LocalInv, ClosingInv, DecisionInv, Redeciding, Closing
    <3>2. CopyInv(h)'
      BY <1>2, <1>4, <2>2, <2>3 DEF CopyInv
    <3>3. HoldingInv(h)'
      BY <1>2, <1>4, <2>1, <2>2 DEF HoldingInv, Fresh
    <3> QED BY <3>1, <3>2, <3>3 DEF HandlerInv
  <2> QED BY <1>1, <1>4, <2>1, <2>4, LocalStep, DeliveredKept
<1>5. CASE Leave(h) /\ UNCHANGED store
  BY <1>1, <1>5, LeaveStep
<1>6. CASE /\ cur.status \notin Terminal
           /\ store' = [store EXCEPT ![h[2]] = taken]
           /\ rec' = [rec EXCEPT ![h] = CopyOf(taken)] /\ Goto(h, "secure")
           /\ UNCHANGED <<req, ses, plan, tries>>
  <2>1. Frame(h) /\ pc'[h] = "secure" /\ req'[h] = req[h]
    BY <1>6 DEF Goto, Frame, Inv, TypeOK
  <2>2. LocalInv(h)'
    BY <1>2, <2>1 DEF LocalInv
  <2>3. rec'[h].plan = store'[h[2]].plan
    BY <1>2, <1>6 DEF Inv, TypeOK, CopyOf
  <2>4. DecisionInv(h)'
    BY <2>1, <2>3 DEF DecisionInv, Redeciding
  <2> QED BY <1>1, <1>2, <1>6, <2>1, <2>2, <2>4, LeaseStep DEF Holding
<1> QED BY <1>3, <1>4, <1>5, <1>6 DEF ClaimSubmission

LEMMA InvHeartbeat ==
  ASSUME Inv, NEW h \in Handler, Heartbeat(h)
  PROVE  Inv'
<1>1. TypeOK' /\ mastery' = mastery /\ delivered' = delivered
  BY TypesHeartbeat DEF Heartbeat
<1>2. /\ pc[h] \in {"secure", "work", "save_decision"} /\ pc[h] \in Holding
      /\ pc[h] \in {"work", "save_decision"} => rec[h].status \in {"RECEIVED", "SCORED"}
  BY DEF Heartbeat, Beating, Holding
<1>3. /\ Frame(h) /\ pc'[h] = pc[h] /\ req'[h] = req[h] /\ plan'[h] = plan[h]
      /\ rec'[h] = CopyOf(Leased(store[h[2]], h[1]))
      /\ store'[h[2]] = Leased(store[h[2]], h[1])
  BY HandlerPair DEF Heartbeat, Frame, Inv, TypeOK
<1>4. /\ store[h[2]] # None /\ store[h[2]].owner = h[1] /\ store[h[2]].status \notin Terminal
      /\ req[h] # None
  BY <1>2, HandlerTypes DEF Heartbeat, Inv, HandlerInv, LocalInv
<1>5. LocalInv(h)'
  BY <1>2, <1>3, <1>4 DEF LocalInv
<1>6. rec[h] = CopyOf(store[h[2]])
  BY <1>2, <1>4 DEF Inv, HandlerInv, HoldingInv
<1>7. /\ rec'[h].status = rec[h].status /\ rec'[h].plan = rec[h].plan
      /\ store'[h[2]].plan = rec[h].plan
  BY <1>3, <1>6 DEF CopyOf, Leased
<1>8. pc[h] = "save_decision" => plan[h] # None /\ PlanOK(h[2], plan[h])'
  BY <1>1, <1>3 DEF Inv, HandlerInv, DecisionInv, PlanOK
<1>9. DecisionInv(h)'
  <2>1. pc[h] = "save_decision" => rec[h].status = "SCORED"
    BY <1>2 DEF Inv, HandlerInv, DecisionInv
  <2> QED BY <1>2, <1>3, <1>7, <1>8, <2>1 DEF DecisionInv, Redeciding
<1> QED BY <1>1, <1>2, <1>3, <1>4, <1>5, <1>9, LeaseStep DEF Heartbeat

LEMMA InvReadSecure ==
  ASSUME Inv, NEW h \in Handler, ReadSecure(h)
  PROVE  Inv'
<1>1. /\ TypeOK' /\ store' = store /\ mastery' = mastery /\ delivered' = delivered
      /\ rec' = rec /\ pc[h] = "secure"
  BY TypesReadSecure DEF ReadSecure, shared
<1>2. Frame(h) /\ pc'[h] = "work" /\ req'[h] = req[h]
  BY DEF ReadSecure, Goto, Frame, Inv, TypeOK
<1>3. HandlerInv(h)'
  <2>1. LocalInv(h)' /\ ClosingInv(h)' /\ HoldingInv(h)'
    BY <1>1, <1>2 DEF Inv, HandlerInv, LocalInv, ClosingInv, HoldingInv, Fresh,
                      Holding, Closing
  <2>2. CopyInv(h)'
    BY <1>1, <1>2 DEF Inv, HandlerInv, CopyInv, Holding, StageOK, PlanOK, AlreadyApplied
  <2>3. DecisionInv(h)'
    BY <1>1, <1>2 DEF Inv, HandlerInv, DecisionInv, Redeciding, Dead
  <2> QED BY <2>1, <2>2, <2>3 DEF HandlerInv
<1> QED BY <1>1, <1>2, <1>3, LocalStep, DeliveredKept

-----------------------------------------------------------------------------
(* The saves.                                                              *)

LEMMA InvSecureReadRetryable ==
  ASSUME Inv, NEW h \in Handler, SecureReadRetryable(h)
  PROVE  Inv'
<1>1. TypeOK' /\ mastery' = mastery /\ delivered' = delivered /\ pc[h] \in Holding
  BY TypesSecureReadRetryable DEF SecureReadRetryable, Holding
<1>2. /\ Save(h, rec[h].status, rec[h].plan, "released")
      /\ Frame(h) /\ pc'[h] = "clear_session" /\ req'[h] = req[h]
  BY DEF SecureReadRetryable, Goto, Save, Frame, Inv, TypeOK
<1>3. rec[h].status \in Status /\ rec[h].plan \in Plan \cup {None}
  BY <1>1, HandlerTypes
<1>4. StageOK(h[2], rec[h].status, rec[h].plan)
  BY <1>1 DEF Inv, HandlerInv, CopyInv, StageOK
<1>5. \A k \in Key : k[1] = h[2] /\ Counted(k) => rec[h].plan # None /\ rec[h].plan.key = k
  BY <1>1, <1>2, FreshCounted DEF Save
<1> QED BY <1>1, <1>2, <1>3, <1>4, <1>5, SaveStep DEF Status

LEMMA InvSecureReadPermanent ==
  ASSUME Inv, NEW h \in Handler, SecureReadPermanent(h)
  PROVE  Inv'
<1>1. TypeOK' /\ mastery' = mastery /\ delivered' = delivered /\ pc[h] \in Holding
  BY TypesSecureReadPermanent DEF SecureReadPermanent, Holding
<1>2. /\ Save(h, "BLOCKED", rec[h].plan, "released")
      /\ Frame(h) /\ pc'[h] = "clear_session" /\ req'[h] = req[h]
  BY DEF SecureReadPermanent, Goto, Save, Frame, Inv, TypeOK
<1>3. rec[h].status \in Status /\ rec[h].plan \in Plan \cup {None}
  BY <1>1, HandlerTypes
<1>4. StageOK(h[2], "BLOCKED", rec[h].plan)
  BY <1>1 DEF Inv, HandlerInv, CopyInv, StageOK
<1>5. \A k \in Key : k[1] = h[2] /\ Counted(k) => rec[h].plan # None /\ rec[h].plan.key = k
  BY <1>1, <1>2, FreshCounted DEF Save
<1> QED BY <1>1, <1>2, <1>3, <1>4, <1>5, SaveStep DEF Status

LEMMA InvGrade ==
  ASSUME Inv, NEW h \in Handler, Grade(h)
  PROVE  Inv'
<1>1. TypeOK' /\ mastery' = mastery /\ delivered' = delivered /\ pc[h] \in Holding
  BY TypesGrade DEF Grade, Holding
<1>2. /\ Fresh(h) /\ rec[h].plan = None
      /\ pc[h] = "work" /\ Frame(h) /\ req'[h] = req[h]
  BY <1>1 DEF Grade, Save, Goto, Frame, Inv, TypeOK, HandlerInv, CopyInv, StageOK
<1>3. \A k \in Key : k[1] = h[2] => ~Counted(k)
  BY <1>1, <1>2, FreshCounted
<1>4. CASE Save(h, "SCORED", None, "kept") /\ UNCHANGED pc
  <2>1. "SCORED" \in Status /\ "SCORED" \notin Terminal /\ StageOK(h[2], "SCORED", None)
    BY DEF Status, Terminal, StageOK
  <2> QED BY <1>1, <1>2, <1>3, <1>4, <2>1, SaveStep
<1>5. ASSUME NEW st \in {"BLOCKED", "NEEDS_REVIEW"},
             Save(h, st, None, "released"), Goto(h, "clear_session")
      PROVE  Inv'
  <2>1. st \in Status /\ StageOK(h[2], st, None)
    BY <1>5 DEF Status, StageOK
  <2>2. pc'[h] = "clear_session"
    BY <1>5 DEF Goto, Inv, TypeOK
  <2> QED BY <1>1, <1>2, <1>3, <1>5, <2>1, <2>2, SaveStep
<1> QED BY <1>4, <1>5 DEF Grade

LEMMA InvSaveDecision ==
  ASSUME Inv, NEW h \in Handler, SaveDecision(h)
  PROVE  Inv'
<1>1. TypeOK' /\ mastery' = mastery /\ delivered' = delivered /\ pc[h] \in Holding
  BY TypesSaveDecision DEF SaveDecision, Holding
<1>2. /\ Save(h, "DECIDED", plan[h], "kept") /\ Fresh(h) /\ pc[h] = "save_decision"
      /\ Frame(h) /\ pc'[h] = "work" /\ req'[h] = req[h]
  BY DEF SaveDecision, Goto, Save, Frame, Inv, TypeOK
<1>3. plan[h] \in Plan \cup {None} /\ plan[h] # None /\ PlanOK(h[2], plan[h])
  BY <1>2 DEF Inv, TypeOK, HandlerInv, DecisionInv
<1>4. "DECIDED" \in Status /\ "DECIDED" \notin Terminal /\ StageOK(h[2], "DECIDED", plan[h])
  BY <1>3 DEF Status, Terminal, StageOK
<1>5. /\ rec[h].plan = None \/ Dead(rec[h].plan)
      /\ \A k \in Key : k[1] = h[2] => ~Counted(k)
  <2>1. CASE rec[h].status = "SCORED"
    <3>1. rec[h].plan = None
      BY <1>1, <2>1 DEF Inv, HandlerInv, CopyInv, StageOK
    <3> QED BY <1>1, <1>2, <3>1, FreshCounted
  <2>2. CASE rec[h].status = "DECIDED"
    BY <1>2, <2>2 DEF Inv, HandlerInv, DecisionInv, Redeciding
  <2> QED BY <1>2, <2>1, <2>2 DEF Inv, HandlerInv, DecisionInv
<1> QED BY <1>1, <1>2, <1>3, <1>4, <1>5, SaveStep

LEMMA InvSaveApplied ==
  ASSUME Inv, NEW h \in Handler, SaveApplied(h)
  PROVE  Inv'
<1>1. TypeOK' /\ mastery' = mastery /\ delivered' = delivered /\ pc[h] \in Holding
  BY TypesSaveApplied DEF SaveApplied, Holding
<1>2. /\ Save(h, "MASTERY_APPLIED", rec[h].plan, "kept") /\ pc[h] = "save_applied"
      /\ Frame(h) /\ pc'[h] = "work" /\ req'[h] = req[h]
  BY DEF SaveApplied, Goto, Save, Frame, Inv, TypeOK
<1>3. rec[h].status = "DECIDED" /\ AlreadyApplied(rec[h].plan.key)
  BY <1>2 DEF Inv, HandlerInv, DecisionInv
<1>4. rec[h].plan \in Plan \cup {None} /\ StageOK(h[2], "MASTERY_APPLIED", rec[h].plan)
  BY <1>1, <1>3, HandlerTypes DEF Inv, HandlerInv, CopyInv, StageOK
<1>5. "MASTERY_APPLIED" \in Status /\ "MASTERY_APPLIED" \notin Terminal
  BY DEF Status, Terminal
<1>6. \A k \in Key : k[1] = h[2] /\ Counted(k) => rec[h].plan # None /\ rec[h].plan.key = k
  BY <1>1, <1>2, FreshCounted DEF Save
<1> QED BY <1>1, <1>2, <1>4, <1>5, <1>6, SaveStep

LEMMA InvSaveCompleted ==
  ASSUME Inv, NEW h \in Handler, SaveCompleted(h)
  PROVE  Inv'
<1>1. TypeOK' /\ mastery' = mastery /\ delivered' = delivered /\ pc[h] \in Holding
  BY TypesSaveCompleted DEF SaveCompleted, Holding
<1>2. /\ Save(h, "COMPLETED", rec[h].plan, "released") /\ rec[h].status = "MASTERY_APPLIED"
      /\ Frame(h) /\ pc'[h] = "complete_session" /\ req'[h] = req[h]
  BY DEF SaveCompleted, Goto, Save, Frame, Inv, TypeOK
<1>3. rec[h].plan \in Plan \cup {None} /\ StageOK(h[2], "COMPLETED", rec[h].plan)
  BY <1>1, <1>2, HandlerTypes DEF Inv, HandlerInv, CopyInv, StageOK
<1>4. "COMPLETED" \in Status
  BY DEF Status
<1>5. \A k \in Key : k[1] = h[2] /\ Counted(k) => rec[h].plan # None /\ rec[h].plan.key = k
  BY <1>1, <1>2, FreshCounted DEF Save
<1> QED BY <1>1, <1>2, <1>3, <1>4, <1>5, SaveStep

-----------------------------------------------------------------------------
(* Decision, commit and the end of a handler.                              *)

LEMMA InvPrepare ==
  ASSUME Inv, NEW h \in Handler, Prepare(h)
  PROVE  Inv'
<1>1. /\ TypeOK' /\ store' = store /\ mastery' = mastery /\ delivered' = delivered
      /\ rec' = rec /\ pc[h] \in Holding /\ req' = req
  BY TypesPrepare DEF Prepare, shared, Holding
<1>2. PICK d \in Decision : plan' = [plan EXCEPT ![h] = PlanFor(<<h[2], d>>)]
  BY DEF Prepare
<1>3. /\ Frame(h) /\ pc'[h] = "save_decision" /\ plan'[h] = PlanFor(<<h[2], d>>)
  BY <1>2 DEF Prepare, Goto, Frame, Inv, TypeOK
<1>4. plan'[h] \in Plan /\ plan'[h] # None
  BY <1>1, <1>3, NoneIsNoRecord, HandlerPair, KeyPair DEF PlanFor, Plan, Inv, TypeOK
<1>5. PlanOK(h[2], plan[h])'
  <2>1. /\ plan'[h].key = <<h[2], d>> /\ <<h[2], d>>[1] = h[2]
        /\ \A o \in Objective : plan'[h].expected[o] = mastery[o].rev
        /\ \A o \in Objective : o \notin plan'[h].writes => <<h[2], d>> \in mastery[o].keys
    BY <1>3 DEF PlanFor
  <2>2. \A o \in Objective : mastery[o].rev \in Nat
    BY DEF Inv, TypeOK
  <2> QED BY <1>1, <1>4, <2>1, <2>2 DEF PlanOK
<1>6. LocalInv(h)' /\ ClosingInv(h)' /\ HoldingInv(h)'
  BY <1>1, <1>3 DEF Inv, HandlerInv, LocalInv, ClosingInv, HoldingInv, Fresh,
                    Holding, Closing
<1>7. CopyInv(h)'
  BY <1>1, <1>3 DEF Inv, HandlerInv, CopyInv, StageOK, PlanOK, AlreadyApplied
<1>8. DecisionInv(h)'
  <2>1. rec[h].status = "SCORED" \/ (Redeciding(h) /\ rec[h].status = "DECIDED")
    BY DEF Prepare, Redeciding, Inv, HandlerInv, DecisionInv
  <2>2. rec[h].status = "DECIDED" =>
          Dead(rec[h].plan) /\ (Fresh(h) => \A k \in Key : k[1] = h[2] => ~Counted(k))
    BY <2>1 DEF Inv, HandlerInv, DecisionInv
  <2> QED BY <1>1, <1>3, <1>4, <1>5, <2>1, <2>2
          DEF DecisionInv, Redeciding, Dead, Fresh, Counted
<1> QED BY <1>1, <1>3, <1>6, <1>7, <1>8, LocalStep, DeliveredKept DEF HandlerInv

LEMMA InvCheckApplied ==
  ASSUME Inv, NEW h \in Handler, CheckApplied(h)
  PROVE  Inv'
<1>1. /\ TypeOK' /\ store' = store /\ mastery' = mastery /\ delivered' = delivered
      /\ pc[h] = "check_applied" /\ pc[h] \in Holding
  BY TypesCheckApplied DEF CheckApplied, shared, Holding
<1>2. rec[h].status = "DECIDED" /\ Dead(rec[h].plan)
  BY <1>1 DEF Inv, HandlerInv, DecisionInv
<1>3. CASE Leave(h)
  BY <1>1, <1>3, LeaveStep
<1>4. ASSUME NEW l \in {"save_applied", "redecide"}, Goto(h, l),
             UNCHANGED <<req, ses, rec, plan>>, Frame(h),
             AlreadyApplied(rec[h].plan.key) <=> l = "save_applied"
      PROVE  Inv'
  <2>1. pc'[h] = l
    BY <1>4 DEF Goto, Inv, TypeOK
  <2>2. LocalInv(h)' /\ ClosingInv(h)' /\ HoldingInv(h)'
    BY <1>1, <1>4, <2>1 DEF Inv, HandlerInv, LocalInv, ClosingInv, HoldingInv, Fresh,
                            Holding, Closing
  <2>3. CopyInv(h)'
    BY <1>1, <1>4, <2>1 DEF Inv, HandlerInv, CopyInv, StageOK, PlanOK, AlreadyApplied
  <2>4. Fresh(h) /\ l = "redecide" => \A k \in Key : k[1] = h[2] => ~Counted(k)
    BY <1>1, <1>4, FreshCounted DEF Inv, BatchInv
  <2>5. DecisionInv(h)'
    BY <1>1, <1>2, <1>4, <2>1, <2>4
    DEF DecisionInv, Redeciding, Dead, Fresh, Counted, AlreadyApplied
  <2> QED BY <1>1, <1>4, <2>2, <2>3, <2>5, LocalStep, DeliveredKept DEF HandlerInv
<1>5. CASE /\ AlreadyApplied(rec[h].plan.key) /\ Goto(h, "save_applied")
           /\ UNCHANGED <<req, ses, rec, plan, tries>>
  <2>1. Frame(h)
    BY <1>5 DEF Goto, Frame, Inv, TypeOK
  <2> QED BY <1>4, <1>5, <2>1
<1>6. CASE /\ ~AlreadyApplied(rec[h].plan.key) /\ Goto(h, "redecide")
           /\ tries' = [tries EXCEPT ![h] = @ + 1]
           /\ UNCHANGED <<req, ses, rec, plan>>
  <2>1. Frame(h)
    BY <1>6 DEF Goto, Frame, Inv, TypeOK
  <2> QED BY <1>4, <1>6, <2>1
<1> QED BY <1>3, <1>5, <1>6 DEF CheckApplied

LEMMA InvCompleteSession ==
  ASSUME Inv, NEW h \in Handler, CompleteSession(h)
  PROVE  Inv'
<1>1. /\ TypeOK' /\ store' = store /\ mastery' = mastery /\ delivered' = delivered
      /\ pc[h] = "complete_session"
  BY TypesCompleteSession DEF CompleteSession
<1>2. CASE Leave(h)
  BY <1>1, <1>2, LeaveStep
<1>3. CASE Goto(h, "deliver") /\ UNCHANGED <<req, ses, rec, plan, tries>>
  <2>1. Frame(h) /\ pc'[h] = "deliver"
    BY <1>3 DEF Goto, Frame, Inv, TypeOK
  <2>2. LocalInv(h)' /\ ClosingInv(h)' /\ HoldingInv(h)' /\ DecisionInv(h)'
    BY <1>1, <1>3, <2>1 DEF Inv, HandlerInv, LocalInv, ClosingInv, HoldingInv,
                            DecisionInv, Redeciding, Holding, Closing
  <2>3. CopyInv(h)'
    BY <1>1, <1>3, <2>1
    DEF Inv, HandlerInv, CopyInv, Closing, StageOK, PlanOK, AlreadyApplied
  <2> QED BY <1>1, <2>1, <2>2, <2>3, LocalStep, DeliveredKept DEF HandlerInv
<1> QED BY <1>2, <1>3 DEF CompleteSession

LEMMA InvDeliver ==
  ASSUME Inv, NEW h \in Handler, Deliver(h)
  PROVE  Inv'
<1>1. /\ TypeOK' /\ store' = store /\ mastery' = mastery /\ Leave(h)
      /\ pc[h] = "deliver" /\ pc[h] \in Closing
      /\ delivered' = delivered \cup {rec[h].plan.key}
  BY TypesDeliver DEF Deliver, Closing
<1>2. /\ store[h[2]] # None /\ store[h[2]].status = "COMPLETED"
      /\ store[h[2]].plan = rec[h].plan /\ rec[h].status = "COMPLETED"
  BY <1>1, HandlerTypes DEF Inv, HandlerInv, ClosingInv
<1>3. rec[h].plan.key[1] = h[2]
  BY <1>1, <1>2 DEF Inv, HandlerInv, CopyInv, StageOK, PlanOK
<1>4. DeliveredIsFinal'
  BY <1>1, <1>2, <1>3 DEF Inv, DeliveredIsFinal, Has
<1>5. Frame(h) /\ pc'[h] = "idle"
  BY <1>1, LeaveFrame DEF Inv, Leave
<1>6. HandlerInv(h)'
  BY <1>5 DEF HandlerInv, LocalInv, CopyInv, HoldingInv, ClosingInv, DecisionInv,
              Redeciding, Holding, Closing
<1> QED BY <1>1, <1>4, <1>5, <1>6, LocalStep

LEMMA InvEnd ==
  ASSUME Inv, NEW h \in Handler, ClearSession(h) \/ LoseOwnership(h) \/ Abandon(h)
  PROVE  Inv'
<1>1. TypeOK'
  BY TypesClearSession, TypesLoseOwnership, TypesAbandon
<1> QED BY <1>1, LeaveStep DEF ClearSession, LoseOwnership, Abandon, shared

LEMMA InvCommit ==
  ASSUME Inv, NEW h \in Handler, Commit(h)
  PROVE  Inv'
<1> DEFINE p == rec[h].plan
<1>1. /\ TypeOK' /\ store' = store /\ delivered' = delivered
      /\ rec' = rec /\ req' = req /\ plan' = plan
      /\ pc[h] = "work" /\ pc[h] \in Holding /\ rec[h].status = "DECIDED"
  BY TypesCommit DEF Commit, Holding
<1>2. /\ p \in Plan /\ p # None /\ p.key \in Key /\ PlanOK(h[2], p)
      /\ p.expected \in [Objective -> Nat] /\ p.writes \subseteq Objective
  BY <1>1, HandlerTypes DEF Inv, HandlerInv, CopyInv, StageOK, Plan
<1>3. Dead(p) \/ store[h[2]].plan = p
  BY <1>1 DEF Inv, HandlerInv, DecisionInv
<1>4. \A o \in Objective : mastery[o].rev \in Nat
  BY DEF Inv, TypeOK
<1>5. CASE Applicable(p) /\ Goto(h, "save_applied")
           /\ mastery' = [o \in Objective |->
                IF o \in p.writes
                THEN [rev |-> p.expected[o] + 1,
                      keys |-> mastery[o].keys \cup {p.key}]
                ELSE mastery[o]]
  <2> HIDE DEF p
  <2>1. Frame(h) /\ pc'[h] = "save_applied"
    BY <1>1, <1>5 DEF Goto, Frame, Inv, TypeOK, Commit
  <2>2. ~Dead(p)
    BY <1>2, <1>4, <1>5 DEF Applicable, Dead
  <2>3. store[h[2]].plan = p
    BY <1>3, <2>2
  <2>4. \A o \in Objective :
          /\ o \in p.writes => /\ mastery'[o].rev = mastery[o].rev + 1
                               /\ mastery'[o].keys = mastery[o].keys \cup {p.key}
          /\ o \notin p.writes => mastery'[o] = mastery[o]
    BY <1>2, <1>5 DEF Applicable
  <2>5. MasteryGrows
    BY <1>4, <2>4 DEF MasteryGrows
  <2>6. AlreadyApplied(p.key)'
    <3>1. \A o \in Objective : p.key \in mastery'[o].keys
      BY <1>2, <2>4 DEF PlanOK
    <3>2. p' = p
      BY <1>1 DEF p
    <3> QED BY <3>1, <3>2 DEF AlreadyApplied
  <2>7. \A k \in Key : Counted(k)' => Counted(k) \/ k = p.key
    BY <2>4 DEF Counted
  <2>8. p.key[1] = h[2]
    BY <1>2 DEF PlanOK
  <2>9. \A s \in SubmissionId : RecordInv(s)'
    BY <1>1, <2>5, RecordKeeps
  <2>10. HandlerInv(h)'
    <3>1. LocalInv(h)' /\ ClosingInv(h)' /\ HoldingInv(h)'
      BY <1>1, <2>1 DEF Inv, HandlerInv, LocalInv, ClosingInv, HoldingInv, Fresh,
                        Holding, Closing
    <3>2. CopyInv(h)'
      <4>1. StageOK(h[2], rec[h].status, rec[h].plan)
        BY <1>1 DEF Inv, HandlerInv, CopyInv
      <4>2. StageOK(h[2], rec[h].status, rec[h].plan)'
        <5>1. h[2] \in SubmissionId /\ rec[h].plan \in Plan \cup {None}
          BY <1>1, HandlerTypes, HandlerPair
        <5>2. PlanOK(h[2], p)'
          BY <1>1, <1>2, <2>5, <5>1, GrowthKeeps DEF Inv, p
        <5> QED BY <1>1, <1>2, <5>2 DEF StageOK, p
      <4> QED BY <1>1, <2>1, <4>2 DEF Inv, HandlerInv, CopyInv
    <3>3. DecisionInv(h)'
      BY <1>1, <2>1, <2>6 DEF DecisionInv, Redeciding, p
    <3> QED BY <3>1, <3>2, <3>3 DEF HandlerInv
  <2>11. ASSUME NEW g \in Handler, g # h PROVE HandlerInv(g)'
    <3>1. RecordGrows(g)
      BY <1>1, HandlerPair DEF RecordGrows, Inv, TypeOK
    <3>2. NothingNewCounted(g)
      <4> SUFFICES ASSUME Redeciding(g), Fresh(g), NEW k \in Key, k[1] = g[2],
                          Counted(k)'
                   PROVE  Counted(k)
        BY DEF NothingNewCounted
      <4>1. rec[g].status = "DECIDED" /\ Dead(rec[g].plan) /\ pc[g] \in Holding
        BY DEF Inv, HandlerInv, DecisionInv, Redeciding, Holding
      <4>2. rec[g].plan = store[g[2]].plan
        <5>1. rec[g] = CopyOf(store[g[2]])
          BY <4>1 DEF Inv, HandlerInv, HoldingInv
        <5> QED BY <5>1 DEF CopyOf
      <4>3. k # p.key
        BY <2>2, <2>3, <2>8, <4>1, <4>2
      <4> QED BY <2>7, <4>3
    <3> QED BY <1>1, <2>1, <2>5, <2>11, <3>1, <3>2, OtherKeeps, HandlerPair
            DEF Inv, Frame
  <2>12. BatchInv'
    <3> SUFFICES ASSUME NEW k \in Key, Counted(k)' PROVE AlreadyApplied(k)'
      BY DEF BatchInv
    <3>1. CASE Counted(k)
      BY <1>1, <2>5, <3>1, GrowthKeeps DEF Inv, BatchInv
    <3>2. CASE k = p.key
      <4>1. \A o \in Objective : p.key \in mastery'[o].keys
        BY <1>2, <2>4 DEF PlanOK
      <4> QED BY <3>2, <4>1 DEF AlreadyApplied
    <3> QED BY <2>7, <3>1, <3>2
  <2>13. CountedIsRecorded'
    <3> SUFFICES ASSUME NEW o \in Objective, NEW k \in mastery'[o].keys
                 PROVE  /\ store[k[1]] # None /\ store[k[1]].plan # None
                        /\ store[k[1]].plan.key = k
      BY <1>1 DEF CountedIsRecorded
    <3>1. CASE k \in mastery[o].keys
      BY <3>1 DEF Inv, CountedIsRecorded
    <3>2. CASE k = p.key
      BY <1>1, <1>2, <2>3, <2>8, <3>2, HandlerTypes
    <3> QED BY <2>4, <3>1, <3>2
  <2> QED BY <1>1, <2>9, <2>10, <2>11, <2>12, <2>13, DeliveredKept DEF Inv
<1>6. CASE ~Applicable(p) /\ Goto(h, "check_applied") /\ UNCHANGED mastery
  <2>1. Frame(h) /\ pc'[h] = "check_applied"
    BY <1>1, <1>6 DEF Goto, Frame, Inv, TypeOK, Commit
  <2>2. Dead(p)
    BY <1>2, <1>4, <1>6 DEF Applicable, Dead, PlanOK
  <2>3. LocalInv(h)' /\ ClosingInv(h)' /\ HoldingInv(h)'
    BY <1>1, <2>1 DEF Inv, HandlerInv, LocalInv, ClosingInv, HoldingInv, Fresh,
                      Holding, Closing
  <2>4. CopyInv(h)'
    BY <1>1, <1>6, <2>1 DEF Inv, HandlerInv, CopyInv, StageOK, PlanOK, AlreadyApplied
  <2>5. DecisionInv(h)'
    BY <1>1, <1>6, <2>1, <2>2 DEF DecisionInv, Redeciding, Dead
  <2> QED BY <1>1, <1>6, <2>1, <2>3, <2>4, <2>5, LocalStep, DeliveredKept
          DEF HandlerInv
<1> QED BY <1>5, <1>6 DEF Commit

-----------------------------------------------------------------------------
(* Steps of nobody's: a lease runs out, a process dies, another session    *)
(* updates an objective.                                                   *)

(* All but the lease stays, and nobody's record has a lease.               *)
SameRecord(s) ==
  \/ store[s] = None /\ store'[s] = None
  \/ /\ store[s] # None /\ store'[s] # None
     /\ store'[s].rev = store[s].rev /\ store'[s].status = store[s].status
     /\ store'[s].plan = store[s].plan /\ store'[s].owner = store[s].owner
     /\ store'[s].owner = None => store'[s].lease = FALSE

SameHandler(h) ==
  /\ pc'[h] = pc[h] /\ req'[h] = req[h] /\ ses'[h] = ses[h]
  /\ rec'[h] = rec[h] /\ plan'[h] = plan[h]

LEMMA EnvironmentStep ==
  ASSUME Inv, TypeOK', MasteryGrows, delivered' = delivered,
         \A s \in SubmissionId : SameRecord(s),
         \A o \in Objective : mastery'[o].keys = mastery[o].keys,
         \A h \in Handler : SameHandler(h) \/ pc'[h] = "crashed"
  PROVE  Inv'
<1>1. \A k : Counted(k)' <=> Counted(k)
  BY DEF Counted
<1>2. ASSUME NEW s \in SubmissionId PROVE RecordInv(s)'
  <2>1. CASE store'[s] = None
    BY <2>1 DEF RecordInv
  <2>2. CASE store[s] # None /\ store'[s] # None
    <3>1. /\ store[s].plan \in Plan \cup {None}
          /\ StageOK(s, store[s].status, store[s].plan)
      BY <2>2 DEF Inv, TypeOK, Record, RecordInv
    <3>2. store'[s].status = store[s].status /\ store'[s].plan = store[s].plan
      BY <2>2 DEF SameRecord
    <3>3. store[s].plan # None =>
            PlanOK(s, store[s].plan)' /\ store[s].plan.key \in Key
      <4>1. store[s].plan # None => store[s].plan \in Plan /\ PlanOK(s, store[s].plan)
        BY <3>1 DEF StageOK
      <4> QED BY <3>2, <4>1, GrowthKeeps DEF Inv, PlanOK, Plan
    <3>4. store'[s].status \in {"MASTERY_APPLIED", "COMPLETED"} =>
            AlreadyApplied(store[s].plan.key)'
      BY <3>1, <3>2 DEF StageOK, AlreadyApplied
    <3>5. StageOK(s, store[s].status, store[s].plan)'
      BY <3>1, <3>2, <3>3, <3>4 DEF StageOK
    <3> QED BY <2>2, <3>5 DEF SameRecord, RecordInv, Inv
  <2> QED BY <2>1, <2>2 DEF SameRecord
<1>3. ASSUME NEW h \in Handler PROVE HandlerInv(h)'
  <2>1. CASE pc'[h] = "crashed"
    BY <2>1 DEF HandlerInv, LocalInv, CopyInv, HoldingInv, ClosingInv, DecisionInv,
                Redeciding, Holding, Closing
  <2>2. CASE SameHandler(h)
    <3>1. RecordGrows(h)
      BY HandlerPair DEF RecordGrows, SameRecord
    <3>2. NothingNewCounted(h)
      BY <1>1 DEF NothingNewCounted
    <3> QED BY <2>2, <3>1, <3>2, OtherKeeps, HandlerPair DEF Inv, SameHandler
  <2> QED BY <2>1, <2>2
<1>4. BatchInv'
  BY DEF Inv, BatchInv, Counted, AlreadyApplied
<1>5. CountedIsRecorded' /\ DeliveredIsFinal'
  <2>1. \A k \in Key : k[1] \in SubmissionId
    BY DEF Key
  <2>2. /\ \A o \in Objective : mastery'[o].keys \subseteq Key
        /\ delivered \subseteq Key
    BY DEF Inv, TypeOK
  <2> QED BY <2>1, <2>2 DEF Inv, CountedIsRecorded, DeliveredIsFinal, Has, SameRecord
<1> QED BY <1>2, <1>3, <1>4, <1>5 DEF Inv

LEMMA InvLeaseExpires ==
  ASSUME Inv, NEW s \in SubmissionId, LeaseExpires(s)
  PROVE  Inv'
<1>1. /\ mastery' = mastery /\ delivered' = delivered /\ UNCHANGED local
      /\ store' = [store EXCEPT ![s].lease = FALSE]
      /\ store[s] # None /\ session' = session /\ faults' \in Nat
  BY DEF LeaseExpires, Fault, Inv, TypeOK
<1>2. \A t \in SubmissionId : store[t] # None => store[t] \in Record
  BY DEF Inv, TypeOK
<1>3. \A t \in SubmissionId :
        store'[t] = IF t = s THEN [store[s] EXCEPT !.lease = FALSE] ELSE store[t]
  BY <1>1 DEF Inv, TypeOK
<1>4. [store[s] EXCEPT !.lease = FALSE] \in Record
  BY <1>1, <1>2 DEF Record
<1>5. TypeOK'
  BY <1>1, <1>4 DEF Inv, TypeOK, local
<1>6. ASSUME NEW t \in SubmissionId PROVE SameRecord(t)
  <2>1. CASE t = s
    <3> DEFINE r == [store[s] EXCEPT !.lease = FALSE]
    <3>1. /\ r.rev = store[s].rev /\ r.status = store[s].status
          /\ r.plan = store[s].plan /\ r.owner = store[s].owner /\ r.lease = FALSE
      BY <1>1, <1>2 DEF Record
    <3>2. store'[s] = r /\ r # None
      BY <1>3, <1>4, NoneIsNoRecord
    <3> HIDE DEF r
    <3> QED BY <1>1, <2>1, <3>1, <3>2 DEF SameRecord
  <2>2. CASE t # s
    BY <1>3, <2>2 DEF SameRecord, Inv, RecordInv
  <2> QED BY <2>1, <2>2
<1>7. MasteryGrows /\ \A h \in Handler : SameHandler(h)
  BY <1>1 DEF MasteryGrows, SameHandler, local, Inv, TypeOK
<1> QED BY <1>1, <1>5, <1>6, <1>7, EnvironmentStep

LEMMA InvCrash ==
  ASSUME Inv, NEW w \in Worker, Crash(w)
  PROVE  Inv'
<1>1. UNCHANGED shared /\ faults' \in Nat
  BY DEF Crash, Fault, Inv, TypeOK
<1>2. TypeOK'
  BY <1>1, PCValues DEF Inv, TypeOK, Crash, shared
<1>3. \A h \in Handler : SameHandler(h) \/ pc'[h] = "crashed"
  BY DEF Crash, SameHandler
<1>4. MasteryGrows
  BY <1>1 DEF MasteryGrows, shared, Inv, TypeOK
<1>5. \A s \in SubmissionId : SameRecord(s)
  BY <1>1 DEF shared, SameRecord, Inv, RecordInv
<1> QED BY <1>1, <1>2, <1>3, <1>4, <1>5, EnvironmentStep DEF shared

LEMMA InvOtherUpdate ==
  ASSUME Inv, NEW o \in Objective, OtherUpdate(o)
  PROVE  Inv'
<1>1. /\ UNCHANGED <<session, store, delivered, local>> /\ faults' \in Nat
      /\ mastery' = [mastery EXCEPT ![o].rev = @ + 1]
  BY DEF OtherUpdate, Fault, Inv, TypeOK
<1>2. TypeOK'
  BY <1>1 DEF Inv, TypeOK, local
<1>3. \A h \in Handler : SameHandler(h)
  BY <1>1 DEF local, SameHandler
<1>4. MasteryGrows /\ \A x \in Objective : mastery'[x].keys = mastery[x].keys
  BY <1>1 DEF MasteryGrows, Inv, TypeOK
<1>5. \A s \in SubmissionId : SameRecord(s)
  BY <1>1 DEF SameRecord, Inv, RecordInv
<1> QED BY <1>1, <1>2, <1>3, <1>4, <1>5, EnvironmentStep

-----------------------------------------------------------------------------
(* The theorems.                                                           *)

LEMMA InitInv ==
  ASSUME Init
  PROVE  Inv
<1>1. /\ pc = [h \in Handler |-> "idle"] /\ delivered = {}
      /\ store = [s \in SubmissionId |-> None]
      /\ mastery = [o \in Objective |-> [rev |-> 0, keys |-> {}]]
  BY DEF Init
<1>2. TypeOK
  BY DEF Init, TypeOK, Session, PC
<1>3. \A s \in SubmissionId : RecordInv(s)
  BY <1>1 DEF RecordInv
<1>4. \A h \in Handler : HandlerInv(h)
  BY <1>1, OutsideInv
<1>5. BatchInv /\ CountedIsRecorded /\ DeliveredIsFinal
  BY <1>1 DEF BatchInv, Counted, CountedIsRecorded, DeliveredIsFinal
<1> QED BY <1>2, <1>3, <1>4, <1>5 DEF Inv

LEMMA StutterInv ==
  ASSUME Inv, UNCHANGED vars
  PROVE  Inv'
<1>1. /\ store' = store /\ mastery' = mastery /\ delivered' = delivered
      /\ \A h \in Handler : SameHandler(h)
  BY DEF vars, SameHandler
<1>2. TypeOK'
  BY DEF Inv, TypeOK, vars
<1>3. MasteryGrows /\ \A s \in SubmissionId : SameRecord(s)
  BY <1>1 DEF MasteryGrows, SameRecord, Inv, TypeOK, RecordInv
<1> QED BY <1>1, <1>2, <1>3, EnvironmentStep

LEMMA StepInv ==
  ASSUME Inv, NEW h \in Handler, Step(h)
  PROVE  Inv'
<1>1. CASE LoadSession(h) \/ LoadSubmission(h) \/ Create(h)
  BY <1>1, InvLoadSession, InvLoadSubmission, InvCreate
<1>2. CASE ClaimSession(h) \/ ClaimSubmission(h) \/ ReadSecure(h)
  BY <1>2, InvClaimSession, InvClaimSubmission, InvReadSecure
<1>3. CASE Grade(h) \/ Prepare(h) \/ SaveDecision(h)
  BY <1>3, InvGrade, InvPrepare, InvSaveDecision
<1>4. CASE Commit(h) \/ CheckApplied(h) \/ SaveApplied(h) \/ SaveCompleted(h)
  BY <1>4, InvCommit, InvCheckApplied, InvSaveApplied, InvSaveCompleted
<1>5. CASE CompleteSession(h) \/ Deliver(h)
  BY <1>5, InvCompleteSession, InvDeliver
<1>6. CASE ClearSession(h) \/ LoseOwnership(h)
  BY <1>6, InvEnd
<1> QED BY <1>1, <1>2, <1>3, <1>4, <1>5, <1>6 DEF Step

LEMMA NextInv ==
  ASSUME Inv, [Next]_vars
  PROVE  Inv'
<1>1. ASSUME NEW h \in Handler, NEW q \in Request, Receive(h, q) PROVE Inv'
  BY <1>1, InvReceive
<1>2. ASSUME NEW h \in Handler, Step(h) PROVE Inv'
  BY <1>2, StepInv
<1>3. ASSUME NEW h \in Handler, SecureReadRetryable(h) \/ SecureReadPermanent(h)
      PROVE  Inv'
  BY <1>3, InvSecureReadRetryable, InvSecureReadPermanent
<1>4. ASSUME NEW h \in Handler, Heartbeat(h) \/ Abandon(h) PROVE Inv'
  BY <1>4, InvHeartbeat, InvEnd
<1>5. ASSUME NEW s \in SubmissionId, LeaseExpires(s) PROVE Inv'
  BY <1>5, InvLeaseExpires
<1>6. ASSUME NEW w \in Worker, Crash(w) PROVE Inv'
  BY <1>6, InvCrash
<1>7. ASSUME NEW o \in Objective, OtherUpdate(o) PROVE Inv'
  BY <1>7, InvOtherUpdate
<1> QED BY <1>1, <1>2, <1>3, <1>4, <1>5, <1>6, <1>7, StutterInv DEF Next

(* The inductive invariant: what a copy, a status and a plan mean while    *)
(* processes take records over from each other.                            *)
THEOREM InvHolds == Spec => []Inv
<1>1. Init => Inv
  BY InitInv
<1>2. Inv /\ [Next]_vars => Inv'
  BY NextInv
<1> QED BY <1>1, <1>2, PTL DEF Spec

(* Every variable keeps its type, whatever the processes and the faults do.*)
THEOREM TypesHold == Spec => []TypeOK
<1>1. Inv => TypeOK
  BY DEF Inv
<1> QED BY InvHolds, <1>1, PTL

(* No submission is counted in the mastery store under a plan its record   *)
(* does not hold: two workers, a takeover or a second decision never make  *)
(* one submission count twice.                                             *)
THEOREM CountedOnce == Spec => []CountedIsRecorded
<1>1. Inv => CountedIsRecorded
  BY DEF Inv
<1> QED BY InvHolds, <1>1, PTL

(* A record whose status says the mastery transition was applied is never  *)
(* ahead of the mastery store.                                             *)
THEOREM AppliedOnlyWhenCounted == Spec => []AppliedIsCounted
<1>1. Inv => AppliedIsCounted
  BY DEF Inv, RecordInv, StageOK, AlreadyApplied, AppliedIsCounted, Has
<1> QED BY InvHolds, <1>1, PTL

(* Role B is told only of completed submissions, and never of a plan that a*)
(* later decision replaces.                                                *)
THEOREM DeliveredStays == Spec => []DeliveredIsFinal
<1>1. Inv => DeliveredIsFinal
  BY DEF Inv
<1> QED BY InvHolds, <1>1, PTL

-----------------------------------------------------------------------------
(* A terminal record is frozen.                                            *)

Frozen == \A s \in SubmissionId : Has(s, Terminal) => store'[s] = store[s]

LEMMA OneWrite ==
  ASSUME Inv, NEW g \in Handler, NEW r, store' = [store EXCEPT ![g[2]] = r],
         store[g[2]] = None \/ store[g[2]].status \notin Terminal
  PROVE  Frozen
<1>1. g[2] \in SubmissionId
  BY HandlerPair
<1> QED BY <1>1 DEF Frozen, Has, Inv, TypeOK

LEMMA SaveFrozen ==
  ASSUME Inv, NEW g \in Handler, pc[g] \in Holding, NEW st, NEW p, NEW own,
         Save(g, st, p, own)
  PROVE  Frozen
<1>1. rec[g].status \notin Terminal /\ rec[g] = CopyOf(store[g[2]])
  BY DEF Save, Inv, HandlerInv, HoldingInv
<1>2. store[g[2]].status \notin Terminal
  BY <1>1 DEF CopyOf
<1>3. store' = [store EXCEPT ![g[2]] = Saved(g, st, p, own)]
  BY DEF Save
<1> QED BY <1>2, <1>3, OneWrite

LEMMA NextFrozen ==
  ASSUME Inv, [Next]_vars
  PROVE  Frozen
<1>1. ASSUME store' = store PROVE Frozen
  BY <1>1 DEF Frozen
<1>2. ASSUME NEW h \in Handler, Step(h) PROVE Frozen
  <2>1. CASE \/ LoadSession(h) \/ LoadSubmission(h) \/ ClaimSession(h) \/ ReadSecure(h)
             \/ Prepare(h) \/ CheckApplied(h) \/ LoseOwnership(h)
    BY <1>1, <2>1 DEF LoadSession, LoadSubmission, ClaimSession, ReadSecure, Prepare,
                      CheckApplied, LoseOwnership, shared
  <2>2. CASE Commit(h) \/ CompleteSession(h) \/ Deliver(h) \/ ClearSession(h)
    BY <1>1, <2>2 DEF Commit, CompleteSession, Deliver, ClearSession
  <2>3. CASE Create(h)
    BY <1>1, <2>3, OneWrite DEF Create
  <2>4. CASE ClaimSubmission(h)
    BY <1>1, <2>4, OneWrite DEF ClaimSubmission
  <2>5. CASE Grade(h)
    BY <2>5, SaveFrozen DEF Grade, Holding
  <2>6. CASE SaveDecision(h)
    BY <2>6, SaveFrozen DEF SaveDecision, Holding
  <2>7. CASE SaveApplied(h)
    BY <2>7, SaveFrozen DEF SaveApplied, Holding
  <2>8. CASE SaveCompleted(h)
    BY <2>8, SaveFrozen DEF SaveCompleted, Holding
  <2> QED BY <1>2, <2>1, <2>2, <2>3, <2>4, <2>5, <2>6, <2>7, <2>8 DEF Step
<1>3. ASSUME NEW h \in Handler, SecureReadRetryable(h) \/ SecureReadPermanent(h)
      PROVE  Frozen
  BY <1>3, SaveFrozen DEF SecureReadRetryable, SecureReadPermanent, Holding
<1>4. ASSUME NEW h \in Handler, Heartbeat(h) PROVE Frozen
  BY <1>4, OneWrite DEF Heartbeat
<1>5. ASSUME NEW s \in SubmissionId, LeaseExpires(s) PROVE Frozen
  <2>1. store[s] # None /\ store[s].lease
    BY <1>5 DEF LeaseExpires
  <2>2. store[s].owner # None
    BY <2>1 DEF Inv, RecordInv
  <2>3. store[s].status \notin Terminal
    BY <2>1, <2>2 DEF Inv, RecordInv
  <2> QED BY <1>5, <2>3 DEF LeaseExpires, Frozen, Has, Inv, TypeOK
<1>6. ASSUME NEW h \in Handler, (\E q \in Request : Receive(h, q)) \/ Abandon(h)
      PROVE  Frozen
  BY <1>1, <1>6 DEF Receive, Abandon, shared
<1>7. ASSUME (\E w \in Worker : Crash(w)) \/ (\E o \in Objective : OtherUpdate(o))
      PROVE  Frozen
  BY <1>1, <1>7 DEF Crash, OtherUpdate, shared
<1>8. CASE UNCHANGED vars
  BY <1>1, <1>8 DEF vars
<1> QED BY <1>2, <1>3, <1>4, <1>5, <1>6, <1>7, <1>8 DEF Next

(* No late save, no renewed lease and no expiry ever changes a record that *)
(* is COMPLETED, BLOCKED or NEEDS_REVIEW.                                  *)
THEOREM TerminalFrozen == Spec => TerminalIsFrozen
<1>1. Inv /\ [Next]_vars =>
        [\A s \in SubmissionId : Has(s, Terminal) => store'[s] = store[s]]_vars
  BY NextFrozen DEF Frozen
<1> QED BY <1>1, InvHolds, PTL DEF Spec, TerminalIsFrozen
-----------------------------------------------------------------------------
(* One completion for each attempt of the session.  A handler works only   *)
(* under the claim of its submission: as long as the record is not         *)
(* terminal, nobody else takes or frees the session, so the attempt it was *)
(* graded for is still the attempt of the session when it completes.  Only *)
(* a momentary failure of the secure store frees the session under a       *)
(* record that is not terminal: the theorems assume it away.               *)

Occupying == {"claim_submission"} \cup Holding
Scored == {"SCORED", "DECIDED", "MASTERY_APPLIED"}
Stopped == {"BLOCKED", "NEEDS_REVIEW"}

(* A handler that claimed the session works under the claim it read, until *)
(* its record is terminal.                                                 *)
ClaimInv(h) ==
  /\ pc[h] \in {"claim_session"} \cup Occupying => store[h[2]].input = req[h]
  /\ pc[h] \in Occupying =>
       \/ Has(h[2], Terminal)
       \/ session.active = h[2] /\ ses[h] = session
  /\ pc[h] = "clear_session" => Has(h[2], Stopped)

(* A graded record occupies the session, at the attempt it was graded for. *)
ScoredInv(s) ==
  Has(s, Scored) =>
    session.active = s /\ session.attempt = store[s].input.attempt

(* A completed one has moved the session on, or still occupies it.         *)
CompletedInv(s) ==
  Has(s, {"COMPLETED"}) =>
    \/ store[s].input.attempt < session.attempt
    \/ session.active = s /\ session.attempt = store[s].input.attempt

(* The feedback of the session is of a submission that has moved it on.    *)
FeedbackInv ==
  session.feedback # None =>
    /\ Has(session.feedback[1], {"COMPLETED"})
    /\ store[session.feedback[1]].input.attempt < session.attempt

AttemptInv == /\ \A s \in SubmissionId : ScoredInv(s) /\ CompletedInv(s)
              /\ FeedbackInv
              /\ session.attempt >= 1
              /\ OneCompletionPerAttempt

Held == AttemptInv /\ \A h \in Handler : ClaimInv(h)

(* What a step does to a record, as far as the attempts tell it.           *)
Moves(s) ==
  \/ store'[s] = store[s]
  \/ store[s] = None /\ store'[s] # None /\ store'[s].status = "RECEIVED"
  \/ /\ store[s] # None /\ store'[s] # None /\ store'[s].input = store[s].input
     /\ \/ store'[s].status = store[s].status
        \/ store[s].status \notin Terminal /\ store'[s].status \in Stopped
        \/ /\ store[s].status = "RECEIVED" /\ store'[s].status = "SCORED"
           /\ session.active = s /\ session.attempt = store[s].input.attempt
        \/ /\ store[s].status \in Scored
           /\ store'[s].status \in Scored \cup {"COMPLETED"}

RecordsMove == session' = session /\ \A s \in SubmissionId : Moves(s)

(* What a step does to the session: a submission takes it, gives it back   *)
(* when it is stopped, or moves it on when it is completed.                *)
Takes(s) == session' = [session EXCEPT !.active = s]
GivesBack(s) == /\ Has(s, Stopped)
                /\ session' = [session EXCEPT !.active = None]
MovesOn(s, k) ==
  /\ Has(s, {"COMPLETED"}) /\ k[1] = s
  /\ session'.attempt = IF session.feedback # k THEN session.attempt + 1
                        ELSE session.attempt
  /\ session'.active = None /\ session'.feedback = k

SessionMoves ==
  /\ store' = store
  /\ \E s \in SubmissionId :
       /\ session.active \in {None, s}
       /\ Takes(s) \/ GivesBack(s) \/ \E k \in Key : MovesOn(s, k)

(* The attempts of the completed records, when a record moves.             *)
LEMMA RecordsHeld ==
  ASSUME Inv, AttemptInv, RecordsMove
  PROVE  AttemptInv'
<1>1. session' = session
  BY DEF RecordsMove
<1>2. ASSUME NEW s \in SubmissionId
      PROVE  /\ ScoredInv(s)' /\ CompletedInv(s)'
             /\ Has(s, {"COMPLETED"}) =>
                  Has(s, {"COMPLETED"})' /\ store'[s].input = store[s].input
             /\ Has(s, {"COMPLETED"})' =>
                  \/ Has(s, {"COMPLETED"}) /\ store'[s].input = store[s].input
                  \/ /\ session.active = s
                     /\ session.attempt = store'[s].input.attempt
  <2>1. Moves(s) /\ ScoredInv(s) /\ CompletedInv(s)
    BY DEF RecordsMove, AttemptInv
  <2> QED BY <1>1, <2>1 DEF Moves, ScoredInv, CompletedInv, Has, Scored, Stopped,
                            Terminal
<1>3. FeedbackInv'
  <2>1. session.feedback # None => session.feedback[1] \in SubmissionId
    BY DEF Inv, TypeOK, Session, Key
  <2> QED BY <1>1, <1>2, <2>1 DEF AttemptInv, FeedbackInv
<1>4. OneCompletionPerAttempt'
  <2> SUFFICES ASSUME NEW s \in SubmissionId, NEW t \in SubmissionId,
                      Has(s, {"COMPLETED"})', Has(t, {"COMPLETED"})',
                      store'[s].input.attempt = store'[t].input.attempt
               PROVE  s = t
    BY DEF OneCompletionPerAttempt
  <2>1. /\ Has(s, {"COMPLETED"}) => store[s].input.attempt \in Nat
        /\ Has(t, {"COMPLETED"}) => store[t].input.attempt \in Nat
        /\ session.attempt \in Nat
    BY RequestAssumption DEF Inv, TypeOK, Record, Has, Session
  <2>2. CASE Has(s, {"COMPLETED"}) /\ Has(t, {"COMPLETED"})
    BY <1>2, <2>2 DEF AttemptInv, OneCompletionPerAttempt
  <2>3. CASE ~Has(s, {"COMPLETED"})
    <3>1. session.active = s /\ session.attempt = store'[s].input.attempt
      BY <1>2, <2>3
    <3>2. CompletedInv(t)
      BY DEF AttemptInv
    <3> QED BY <1>2, <2>1, <3>1, <3>2 DEF CompletedInv
  <2>4. CASE ~Has(t, {"COMPLETED"})
    <3>1. session.active = t /\ session.attempt = store'[t].input.attempt
      BY <1>2, <2>4
    <3>2. CompletedInv(s)
      BY DEF AttemptInv
    <3> QED BY <1>2, <2>1, <3>1, <3>2 DEF CompletedInv
  <2> QED BY <2>2, <2>3, <2>4
<1> QED BY <1>1, <1>2, <1>3, <1>4 DEF AttemptInv

(* The same, when the session moves.                                       *)
LEMMA SessionHeld ==
  ASSUME Inv, AttemptInv, SessionMoves
  PROVE  AttemptInv'
<1>1. PICK s \in SubmissionId :
        /\ session.active \in {None, s}
        /\ Takes(s) \/ GivesBack(s) \/ \E k \in Key : MovesOn(s, k)
  BY DEF SessionMoves
<1>2. /\ store' = store /\ OneCompletionPerAttempt'
      /\ \A t \in SubmissionId : Has(t, {"COMPLETED"}) => store[t].input.attempt \in Nat
      /\ session \in Session /\ session.attempt \in Nat
      /\ s # None
  BY RequestAssumption, NoneAssumption
  DEF SessionMoves, AttemptInv, OneCompletionPerAttempt, Has, Inv, TypeOK, Record, Session
<1>3. \A t \in SubmissionId : t # None
  BY NoneAssumption
<1>4. CASE Takes(s) \/ GivesBack(s)
  <2>1. /\ session'.attempt = session.attempt /\ session'.feedback = session.feedback
        /\ session'.active = s \/ (GivesBack(s) /\ session'.active = None)
    BY <1>2, <1>4 DEF Takes, GivesBack, Session
  <2>2. ASSUME NEW t \in SubmissionId PROVE ScoredInv(t)' /\ CompletedInv(t)'
    <3>1. ScoredInv(t) /\ CompletedInv(t)
      BY DEF AttemptInv
    <3>2. GivesBack(s) => ~Has(s, Scored) /\ ~Has(s, {"COMPLETED"})
      BY DEF GivesBack, Has, Scored, Stopped
    <3> QED BY <1>1, <1>2, <1>3, <2>1, <3>1, <3>2 DEF ScoredInv, CompletedInv, Has
  <2>3. FeedbackInv'
    BY <1>2, <2>1 DEF AttemptInv, FeedbackInv, Has
  <2> QED BY <1>2, <2>1, <2>2, <2>3 DEF AttemptInv
<1>5. ASSUME NEW k \in Key, MovesOn(s, k) PROVE AttemptInv'
  <2>1. /\ Has(s, {"COMPLETED"}) /\ k[1] = s /\ k # None
        /\ session'.active = None /\ session'.feedback = k
        /\ session.feedback # k => session'.attempt = session.attempt + 1
        /\ session.feedback = k => session'.attempt = session.attempt
    BY <1>5, KeyIsNotNone DEF MovesOn
  <2>2. session'.attempt >= session.attempt /\ session'.attempt \in Nat
    BY <1>2, <2>1
  <2>3. store[s].input.attempt < session'.attempt
    <3>1. CASE session.feedback = k
      BY <2>1, <3>1 DEF AttemptInv, FeedbackInv
    <3>2. CASE session.feedback # k
      <4>1. CompletedInv(s)
        BY DEF AttemptInv
      <4> QED BY <1>2, <2>1, <3>2, <4>1 DEF CompletedInv
    <3> QED BY <3>1, <3>2
  <2>4. ASSUME NEW t \in SubmissionId PROVE ScoredInv(t)' /\ CompletedInv(t)'
    <3>1. ScoredInv(t) /\ CompletedInv(t)
      BY DEF AttemptInv
    <3>2. CASE t = s
      <4>1. ~Has(s, Scored)
        BY <2>1 DEF Has, Scored
      <4> QED BY <1>2, <2>3, <3>2, <4>1 DEF ScoredInv, CompletedInv, Has
    <3>3. CASE t # s
      <4>1. session.active # t
        BY <1>1, <1>3, <3>3
      <4>2. ~Has(t, Scored) /\ (Has(t, {"COMPLETED"}) => store[t].input.attempt < session.attempt)
        BY <3>1, <4>1 DEF ScoredInv, CompletedInv
      <4> QED BY <1>2, <2>2, <4>2 DEF ScoredInv, CompletedInv, Has
    <3> QED BY <3>2, <3>3
  <2>5. FeedbackInv'
    BY <1>2, <2>1, <2>3 DEF FeedbackInv, Has
  <2> QED BY <1>2, <2>2, <2>4, <2>5 DEF AttemptInv
<1> QED BY <1>1, <1>4, <1>5

(* A handler that stands still keeps its claim.                            *)
LEMMA ClaimKept ==
  ASSUME Inv, AttemptInv, NEW h \in Handler, SameHandler(h), ClaimInv(h),
         RecordsMove \/ SessionMoves
  PROVE  ClaimInv(h)'
<1>1. /\ h[2] \in SubmissionId /\ h[2] # None
      /\ pc[h] \in {"claim_session"} \cup Occupying => store[h[2]] # None
      /\ pc'[h] = pc[h] /\ req'[h] = req[h] /\ ses'[h] = ses[h]
  BY HandlerPair, NoneAssumption
  DEF Inv, HandlerInv, LocalInv, CopyInv, Occupying, SameHandler
<1>2. CASE RecordsMove
  <2>1. Moves(h[2]) /\ session' = session
    BY <1>1, <1>2 DEF RecordsMove
  <2>2. /\ Has(h[2], Terminal) => Has(h[2], Terminal)'
        /\ Has(h[2], Stopped) => Has(h[2], Stopped)'
        /\ store[h[2]] # None => store'[h[2]].input = store[h[2]].input
    BY <2>1 DEF Moves, Has, Terminal, Stopped, Scored
  <2> QED BY <1>1, <2>1, <2>2 DEF ClaimInv
<1>3. CASE SessionMoves
  <2>1. PICK s \in SubmissionId :
          /\ session.active \in {None, s}
          /\ Takes(s) \/ GivesBack(s) \/ \E k \in Key : MovesOn(s, k)
    BY <1>3 DEF SessionMoves
  <2>2. store' = store /\ session \in Session
    BY <1>3 DEF SessionMoves, Inv, TypeOK
  <2>3. ASSUME pc[h] \in Occupying, ~Has(h[2], Terminal)
        PROVE  session' = session
    <3>1. session.active = h[2] /\ s = h[2]
      BY <1>1, <2>1, <2>3 DEF ClaimInv
    <3>2. Takes(s)
      BY <2>1, <2>3, <3>1 DEF GivesBack, MovesOn, Has, Terminal, Stopped
    <3> QED BY <2>2, <3>1, <3>2 DEF Takes, Session
  <2> QED BY <1>1, <2>2, <2>3 DEF ClaimInv, Has
<1> QED BY <1>2, <1>3

LEMMA HeldStep ==
  ASSUME Inv, Held, NEW g \in Handler, Frame(g), ClaimInv(g)',
         RecordsMove \/ SessionMoves
  PROVE  Held'
<1>1. AttemptInv'
  BY RecordsHeld, SessionHeld DEF Held
<1>2. ASSUME NEW h \in Handler, h # g PROVE ClaimInv(h)'
  BY <1>2, ClaimKept DEF Held, Frame, SameHandler
<1> QED BY <1>1, <1>2 DEF Held

(* A step outside the work of a handler, which changes nothing shared.     *)
LEMMA QuietHeld ==
  ASSUME Inv, Held, NEW g \in Handler, Frame(g), store' = store, session' = session,
         pc'[g] \notin {"claim_session", "clear_session"} \cup Occupying
  PROVE  Held'
<1>1. ClaimInv(g)'
  BY DEF ClaimInv
<1>2. RecordsMove
  BY DEF RecordsMove, Moves
<1> QED BY <1>1, <1>2, HeldStep

(* A step inside it, which changes nothing shared either.                  *)
LEMMA WorkHeld ==
  ASSUME Inv, Held, NEW g \in Handler, Frame(g), store' = store, session' = session,
         pc[g] \in Occupying, pc'[g] \in Occupying,
         req'[g] = req[g], ses'[g] = ses[g]
  PROVE  Held'
<1>1. ClaimInv(g)'
  BY DEF Held, ClaimInv, Has, Occupying, Holding
<1>2. RecordsMove
  BY DEF RecordsMove, Moves
<1> QED BY <1>1, <1>2, HeldStep

(* A step that leaves the session and the other records alone.             *)
LEMMA WriteMoves ==
  ASSUME Inv, NEW g \in Handler, NEW r, store' = [store EXCEPT ![g[2]] = r],
         session' = session, Moves(g[2])
  PROVE  RecordsMove /\ store'[g[2]] = r
<1>1. g[2] \in SubmissionId
  BY HandlerPair
<1> QED BY <1>1 DEF RecordsMove, Moves, Inv, TypeOK

(* A save that stops the submission, grades it under the claim, or goes on *)
(* with what is graded.                                                    *)
LEMMA SaveHeld ==
  ASSUME Inv, Held, NEW g \in Handler, Frame(g), pc[g] \in Holding,
         NEW status \in Status, NEW p \in Plan \cup {None}, NEW own \in {"kept", "released"},
         Save(g, status, p, own), session' = session,
         req'[g] = req[g], ses'[g] = ses[g],
         \/ status \in Stopped /\ pc'[g] = "clear_session"
         \/ /\ rec[g].status = "RECEIVED" /\ status = "SCORED"
            /\ Gradable(g) /\ pc'[g] = "work"
         \/ /\ rec[g].status \in Scored /\ status \in Scored \cup {"COMPLETED"}
            /\ pc'[g] \in {"work", "complete_session"}
  PROVE  Held'
<1>1. /\ store' = [store EXCEPT ![g[2]] = Saved(g, status, p, own)]
      /\ store'[g[2]] = Saved(g, status, p, own) /\ store'[g[2]] # None
  <2>1. SaveResult(g, status, p, own)
    BY SaveFacts
  <2> QED BY <2>1 DEF SaveResult
<1>2. store'[g[2]].status = status /\ store'[g[2]].input = store[g[2]].input
  BY <1>1 DEF Saved
<1>3. /\ store[g[2]] # None /\ store[g[2]].status = rec[g].status
      /\ rec[g].status \notin Terminal
  <2>1. Fresh(g) /\ rec[g] = CopyOf(store[g[2]]) /\ rec[g].status \notin Terminal
    BY DEF Save, Inv, HandlerInv, HoldingInv
  <2> QED BY <2>1, HandlerTypes DEF CopyOf
<1>4. /\ store[g[2]].input = req[g]
      /\ session.active = g[2] /\ ses[g] = session
  BY <1>3 DEF Held, ClaimInv, Has, Occupying
<1>5. Moves(g[2])
  BY <1>1, <1>2, <1>3, <1>4 DEF Moves, Gradable
<1>6. RecordsMove
  BY <1>1, <1>5, WriteMoves
<1>7. ClaimInv(g)'
  BY <1>1, <1>2, <1>4 DEF ClaimInv, Has, Occupying, Holding, Stopped
<1> QED BY <1>6, <1>7, HeldStep

LEMMA HeldLoadSubmission ==
  ASSUME Inv, Held, NEW g \in Handler, LoadSubmission(g)
  PROVE  Held'
<1>1. store' = store /\ session' = session
  BY DEF LoadSubmission, shared
<1>2. CASE Leave(g)
  <2>1. Frame(g) /\ pc'[g] = "idle"
    BY <1>2, LeaveFrame DEF Inv, Leave
  <2> QED BY <1>1, <2>1, QuietHeld DEF Occupying, Holding
<1>3. ASSUME NEW l \in {"complete_session", "create"}, Goto(g, l),
             \/ rec' = [rec EXCEPT ![g] = CopyOf(store[g[2]])]
             \/ rec' = rec,
             UNCHANGED <<req, ses, plan, tries>>
      PROVE  Held'
  <2>1. Frame(g) /\ pc'[g] = l
    BY <1>3 DEF Goto, Frame, Inv, TypeOK
  <2> QED BY <1>1, <2>1, QuietHeld DEF Occupying, Holding
<1>4. ASSUME NEW l \in {"clear_session", "claim_session"}, Goto(g, l),
             UNCHANGED <<req, ses, rec, plan, tries>>,
             store[g[2]] # None, store[g[2]].input = req[g],
             l = "clear_session" => store[g[2]].status \in Stopped
      PROVE  Held'
  <2>1. Frame(g) /\ pc'[g] = l /\ req'[g] = req[g]
    BY <1>4 DEF Goto, Frame, Inv, TypeOK
  <2>2. ClaimInv(g)'
    BY <1>1, <1>4, <2>1 DEF ClaimInv, Has, Occupying, Holding
  <2>3. RecordsMove
    BY <1>1 DEF RecordsMove, Moves
  <2> QED BY <2>1, <2>2, <2>3, HeldStep
<1> QED BY <1>2, <1>3, <1>4 DEF LoadSubmission, Stopped

LEMMA HeldCreate ==
  ASSUME Inv, Held, NEW g \in Handler, Create(g)
  PROVE  Held'
<1>1. session' = session /\ req[g] # None
  BY DEF Create, Inv, HandlerInv, LocalInv
<1>2. CASE Leave(g) /\ UNCHANGED store
  <2>1. Frame(g) /\ pc'[g] = "idle"
    BY <1>2, LeaveFrame DEF Inv, Leave
  <2> QED BY <1>1, <1>2, <2>1, QuietHeld DEF Occupying, Holding
<1>3. ASSUME Goto(g, "claim_session"), UNCHANGED <<req, ses, rec, plan, tries>>,
             store[g[2]] = None \/ (store[g[2]].input = req[g] /\ store' = store)
      PROVE  Held'
  <2>1. Frame(g) /\ pc'[g] = "claim_session" /\ req'[g] = req[g]
    BY <1>3 DEF Goto, Frame, Inv, TypeOK
  <2>2. RecordsMove /\ store'[g[2]].input = req[g]
    <3>1. CASE store' = store /\ store[g[2]].input = req[g]
      BY <1>1, <3>1 DEF RecordsMove, Moves
    <3>2. CASE store[g[2]] = None
      <4> DEFINE r == [input |-> req[g], status |-> "RECEIVED", rev |-> 0,
                       owner |-> None, lease |-> FALSE, plan |-> None]
      <4>1. store' = [store EXCEPT ![g[2]] = r]
        BY <3>2 DEF Create
      <4>2. r.input = req[g] /\ r.status = "RECEIVED" /\ r \in Record
        BY <1>1 DEF Record, Status, Inv, TypeOK
      <4> HIDE DEF r
      <4>3. store'[g[2]] = r /\ r # None
        BY <4>1, <4>2, HandlerPair, NoneIsNoRecord DEF Inv, TypeOK
      <4>4. Moves(g[2])
        BY <3>2, <4>2, <4>3 DEF Moves
      <4> QED BY <1>1, <4>1, <4>2, <4>3, <4>4, WriteMoves
    <3> QED BY <1>3, <3>1, <3>2
  <2>3. ClaimInv(g)'
    BY <2>1, <2>2 DEF ClaimInv, Occupying, Holding
  <2> QED BY <2>1, <2>2, <2>3, HeldStep
<1> QED BY <1>2, <1>3 DEF Create

LEMMA LeaveHeld ==
  ASSUME Inv, Held, NEW g \in Handler, Leave(g), store' = store, session' = session
  PROVE  Held'
<1>1. Frame(g) /\ pc'[g] = "idle"
  BY LeaveFrame DEF Inv, Leave
<1> QED BY <1>1, QuietHeld DEF Occupying, Holding

LEMMA HeldClaimSession ==
  ASSUME Inv, Held, NEW g \in Handler, ClaimSession(g)
  PROVE  Held'
<1>1. store' = store /\ pc[g] = "claim_session"
  BY DEF ClaimSession
<1>2. CASE Leave(g) /\ UNCHANGED session
  BY <1>1, <1>2, LeaveHeld
<1>3. CASE /\ ~Occupied(session, g[2]) /\ session' = [session EXCEPT !.active = g[2]]
           /\ ses' = [ses EXCEPT ![g] = session'] /\ Goto(g, "claim_submission")
           /\ UNCHANGED <<req, rec, plan, tries>>
  <2>1. /\ Frame(g) /\ pc'[g] = "claim_submission" /\ ses'[g] = session'
        /\ req'[g] = req[g]
    BY <1>3 DEF Goto, Frame, Inv, TypeOK
  <2>2. session'.active = g[2] /\ session.active \in {None, g[2]}
    BY <1>3 DEF Occupied, Inv, TypeOK, Session
  <2>3. store[g[2]].input = req[g]
    BY <1>1 DEF Held, ClaimInv
  <2>4. ClaimInv(g)'
    BY <1>1, <2>1, <2>2, <2>3 DEF ClaimInv
  <2>5. SessionMoves
    BY <1>1, <1>3, <2>2, HandlerPair DEF SessionMoves, Takes
  <2> QED BY <2>1, <2>4, <2>5, HeldStep
<1> QED BY <1>2, <1>3 DEF ClaimSession

(* Taking or renewing a lease changes neither the status nor the claim.    *)
LEMMA LeaseHeld ==
  ASSUME Inv, Held, NEW g \in Handler, Frame(g), store[g[2]] # None,
         store' = [store EXCEPT ![g[2]] = Leased(store[g[2]], g[1])],
         session' = session, pc[g] \in Occupying, pc'[g] \in Occupying,
         req'[g] = req[g], ses'[g] = ses[g]
  PROVE  Held'
<1> DEFINE r == Leased(store[g[2]], g[1])
<1>1. store[g[2]] \in Record /\ g[1] \in Worker
  BY HandlerPair DEF Inv, TypeOK
<1>2. /\ r.status = store[g[2]].status /\ r.input = store[g[2]].input
      /\ r \in Record
  BY <1>1 DEF Leased, Record
<1>3. store' = [store EXCEPT ![g[2]] = r]
  OBVIOUS
<1> HIDE DEF r
<1>4. store'[g[2]] = r /\ r # None
  BY <1>2, <1>3, HandlerPair, NoneIsNoRecord DEF Inv, TypeOK
<1>5. Moves(g[2])
  BY <1>2, <1>4 DEF Moves
<1>6. RecordsMove
  BY <1>3, <1>5, WriteMoves
<1>7. ClaimInv(g)'
  BY <1>2, <1>4 DEF Held, ClaimInv, Has, Occupying, Holding
<1> QED BY <1>6, <1>7, HeldStep

LEMMA HeldClaimSubmission ==
  ASSUME Inv, Held, NEW g \in Handler, ClaimSubmission(g)
  PROVE  Held'
<1>1. /\ session' = session /\ pc[g] = "claim_submission" /\ store[g[2]] # None
  BY DEF ClaimSubmission, Inv, HandlerInv, LocalInv
<1>2. CASE Goto(g, "load_session") /\ ses' = [ses EXCEPT ![g] = None]
           /\ UNCHANGED <<store, req, rec, plan, tries>>
  <2>1. Frame(g) /\ pc'[g] = "load_session"
    BY <1>2 DEF Goto, Frame, Inv, TypeOK
  <2> QED BY <1>1, <1>2, <2>1, QuietHeld DEF Occupying, Holding
<1>3. CASE Leave(g) /\ UNCHANGED store
  BY <1>1, <1>3, LeaveHeld
<1>4. ASSUME NEW c, rec' = [rec EXCEPT ![g] = c], Goto(g, "secure"),
             UNCHANGED <<req, ses, plan, tries>>
      PROVE  /\ Frame(g) /\ pc'[g] = "secure" /\ req'[g] = req[g]
             /\ ses'[g] = ses[g] /\ pc[g] \in Occupying /\ pc'[g] \in Occupying
  BY <1>1, <1>4 DEF Goto, Frame, Inv, TypeOK, Occupying, Holding
<1>5. CASE /\ rec' = [rec EXCEPT ![g] = CopyOf(store[g[2]])] /\ Goto(g, "secure")
           /\ UNCHANGED <<store, req, ses, plan, tries>>
  BY <1>1, <1>4, <1>5, WorkHeld
<1>6. CASE /\ store' = [store EXCEPT ![g[2]] = Leased(store[g[2]], g[1])]
           /\ rec' = [rec EXCEPT ![g] = CopyOf(Leased(store[g[2]], g[1]))]
           /\ Goto(g, "secure") /\ UNCHANGED <<req, ses, plan, tries>>
  BY <1>1, <1>4, <1>6, LeaseHeld
<1> QED BY <1>2, <1>3, <1>5, <1>6 DEF ClaimSubmission

LEMMA HeldHeartbeat ==
  ASSUME Inv, Held, NEW g \in Handler, Heartbeat(g)
  PROVE  Held'
<1>1. pc[g] \in Holding /\ pc' = pc /\ req' = req /\ ses' = ses /\ session' = session
  BY DEF Heartbeat, Beating, Holding
<1>2. Frame(g)
  BY DEF Heartbeat, Frame, Inv, TypeOK
<1>3. store[g[2]] # None /\ pc[g] \in Occupying
  BY <1>1, HandlerTypes DEF Occupying
<1> QED BY <1>1, <1>2, <1>3, LeaseHeld DEF Heartbeat

LEMMA HeldCompleteSession ==
  ASSUME Inv, Held, NEW g \in Handler, CompleteSession(g)
  PROVE  Held'
<1>1. store' = store /\ pc[g] \in Closing
  BY DEF CompleteSession, Closing
<1>2. CASE Leave(g) /\ UNCHANGED session
  BY <1>1, <1>2, LeaveHeld
<1>3. CASE /\ ~Occupied(session, g[2])
           /\ session' = [attempt |-> IF session.feedback # rec[g].plan.key
                                      THEN session.attempt + 1 ELSE session.attempt,
                          active |-> None, feedback |-> rec[g].plan.key]
           /\ Goto(g, "deliver") /\ UNCHANGED <<req, ses, rec, plan, tries>>
  <2>1. Frame(g) /\ pc'[g] = "deliver"
    BY <1>3 DEF Goto, Frame, Inv, TypeOK
  <2>2. ClaimInv(g)'
    BY <2>1 DEF ClaimInv, Occupying, Holding
  <2>3. /\ store[g[2]] # None /\ store[g[2]].status = "COMPLETED"
        /\ rec[g].plan \in Plan /\ rec[g].plan # None
        /\ StageOK(g[2], rec[g].status, rec[g].plan)
    BY <1>1, HandlerTypes DEF Inv, HandlerInv, ClosingInv, CopyInv
  <2>4. rec[g].plan.key \in Key /\ rec[g].plan.key[1] = g[2]
    BY <2>3 DEF StageOK, PlanOK, Plan
  <2>5. MovesOn(g[2], rec[g].plan.key)
    BY <1>3, <2>3, <2>4 DEF MovesOn, Has
  <2>6. session.active \in {None, g[2]}
    BY <1>3 DEF Occupied
  <2>7. SessionMoves
    BY <1>1, <2>4, <2>5, <2>6, HandlerPair DEF SessionMoves
  <2> QED BY <2>1, <2>2, <2>7, HeldStep
<1> QED BY <1>2, <1>3 DEF CompleteSession

LEMMA HeldClearSession ==
  ASSUME Inv, Held, NEW g \in Handler, ClearSession(g)
  PROVE  Held'
<1>1. store' = store /\ Leave(g) /\ Has(g[2], Stopped)
  BY DEF ClearSession, Held, ClaimInv
<1>2. CASE session' = session
  BY <1>1, <1>2, LeaveHeld
<1>3. CASE session' # session
  <2>1. session.active = g[2] /\ session' = [session EXCEPT !.active = None]
    BY <1>3 DEF ClearSession, Releases
  <2>2. SessionMoves
    BY <1>1, <2>1, HandlerPair DEF SessionMoves, GivesBack
  <2>3. Frame(g) /\ pc'[g] = "idle"
    BY <1>1, LeaveFrame DEF Inv, Leave
  <2>4. ClaimInv(g)'
    BY <2>3 DEF ClaimInv, Occupying, Holding
  <2> QED BY <2>2, <2>3, <2>4, HeldStep
<1> QED BY <1>2, <1>3

(* The steps that save the record.                                         *)
LEMMA HeldGrade ==
  ASSUME Inv, Held, NEW g \in Handler, Grade(g)
  PROVE  Held'
<1>1. /\ pc[g] \in Holding /\ pc[g] = "work" /\ rec[g].status = "RECEIVED"
      /\ session' = session /\ req' = req /\ ses' = ses
  BY DEF Grade, Holding
<1>2. /\ "SCORED" \in Status /\ "BLOCKED" \in Status /\ "NEEDS_REVIEW" \in Status
      /\ "BLOCKED" \in Stopped /\ "NEEDS_REVIEW" \in Stopped
      /\ None \in Plan \cup {None}
  BY DEF Status, Stopped
<1>3. CASE Gradable(g) /\ Save(g, "SCORED", None, "kept") /\ UNCHANGED pc
  <2>1. Frame(g) /\ pc'[g] = "work"
    BY <1>1, <1>3 DEF Save, Frame, Inv, TypeOK, Grade
  <2> QED BY <1>1, <1>2, <1>3, <2>1, SaveHeld
<1>4. ASSUME NEW st \in Stopped, Save(g, st, None, "released"),
             Goto(g, "clear_session")
      PROVE  Held'
  <2>1. Frame(g) /\ pc'[g] = "clear_session" /\ st \in Status
    BY <1>1, <1>4 DEF Save, Goto, Frame, Inv, TypeOK, Grade, Stopped, Status
  <2> QED BY <1>1, <1>2, <1>4, <2>1, SaveHeld
<1> QED BY <1>2, <1>3, <1>4 DEF Grade

LEMMA HeldSecureReadPermanent ==
  ASSUME Inv, Held, NEW g \in Handler, SecureReadPermanent(g)
  PROVE  Held'
<1>1. /\ pc[g] \in Holding /\ Save(g, "BLOCKED", rec[g].plan, "released")
      /\ session' = session /\ req' = req /\ ses' = ses
  BY DEF SecureReadPermanent, Holding
<1>2. Frame(g) /\ pc'[g] = "clear_session"
  BY <1>1 DEF SecureReadPermanent, Save, Goto, Frame, Inv, TypeOK
<1>3. rec[g].plan \in Plan \cup {None}
  BY <1>1, HandlerTypes
<1>4. "BLOCKED" \in Status /\ "BLOCKED" \in Stopped
  BY DEF Status, Stopped
<1> QED BY <1>1, <1>2, <1>3, <1>4, SaveHeld

LEMMA HeldSaveWork ==
  ASSUME Inv, Held, NEW g \in Handler, SaveDecision(g) \/ SaveApplied(g) \/ SaveCompleted(g)
  PROVE  Held'
<1>1. /\ pc[g] \in Holding /\ session' = session /\ req' = req /\ ses' = ses
      /\ rec[g].status \in Scored
  <2>1. /\ pc[g] \in Holding /\ session' = session /\ req' = req /\ ses' = ses
        /\ \/ pc[g] = "save_decision"
           \/ pc[g] = "save_applied"
           \/ rec[g].status = "MASTERY_APPLIED"
    BY DEF SaveDecision, SaveApplied, SaveCompleted, Holding
  <2>2. DecisionInv(g)
    BY DEF Inv, HandlerInv
  <2> QED BY <2>1, <2>2 DEF DecisionInv, Scored
<1>2. rec[g].plan \in Plan \cup {None} /\ plan[g] \in Plan \cup {None}
  BY <1>1, HandlerTypes DEF Inv, TypeOK
<1>3. /\ "DECIDED" \in Status /\ "MASTERY_APPLIED" \in Status /\ "COMPLETED" \in Status
      /\ "DECIDED" \in Scored /\ "MASTERY_APPLIED" \in Scored
  BY DEF Status, Scored
<1>4. CASE SaveDecision(g)
  <2>1. Frame(g) /\ pc'[g] = "work"
    BY <1>4 DEF SaveDecision, Save, Goto, Frame, Inv, TypeOK
  <2>2. Save(g, "DECIDED", plan[g], "kept")
    BY <1>4 DEF SaveDecision
  <2> QED BY <1>1, <1>2, <1>3, <2>1, <2>2, SaveHeld
<1>5. CASE SaveApplied(g)
  <2>1. Frame(g) /\ pc'[g] = "work"
    BY <1>5 DEF SaveApplied, Save, Goto, Frame, Inv, TypeOK
  <2>2. Save(g, "MASTERY_APPLIED", rec[g].plan, "kept")
    BY <1>5 DEF SaveApplied
  <2> QED BY <1>1, <1>2, <1>3, <2>1, <2>2, SaveHeld
<1>6. CASE SaveCompleted(g)
  <2>1. Frame(g) /\ pc'[g] = "complete_session"
    BY <1>6 DEF SaveCompleted, Save, Goto, Frame, Inv, TypeOK
  <2>2. Save(g, "COMPLETED", rec[g].plan, "released")
    BY <1>6 DEF SaveCompleted
  <2> QED BY <1>1, <1>2, <1>3, <2>1, <2>2, SaveHeld
<1> QED BY <1>4, <1>5, <1>6

(* The steps that leave the records and the session alone.                 *)
LEMMA HeldWork ==
  ASSUME Inv, Held, NEW g \in Handler,
         ReadSecure(g) \/ Prepare(g) \/ Commit(g) \/ CheckApplied(g)
  PROVE  Held'
<1>1. store' = store /\ session' = session /\ pc[g] \in Occupying
  BY DEF ReadSecure, Prepare, Commit, CheckApplied, shared, Occupying, Holding
<1>2. CASE Leave(g)
  BY <1>1, <1>2, LeaveHeld
<1>3. ASSUME NEW l \in Holding, Goto(g, l), req' = req, ses' = ses, rec' = rec,
             \A h \in Handler : h # g => plan'[h] = plan[h] /\ tries'[h] = tries[h]
      PROVE  Held'
  <2>1. Frame(g) /\ pc'[g] = l
    BY <1>3 DEF Goto, Frame, Inv, TypeOK
  <2> QED BY <1>1, <1>3, <2>1, WorkHeld DEF Occupying
<1>4. CASE ReadSecure(g)
  BY <1>3, <1>4 DEF ReadSecure, Holding
<1>5. CASE Prepare(g)
  BY <1>3, <1>5 DEF Prepare, Holding, Inv, TypeOK
<1>6. CASE Commit(g)
  BY <1>3, <1>6 DEF Commit, Holding
<1>7. CASE CheckApplied(g)
  BY <1>2, <1>3, <1>7 DEF CheckApplied, Holding, Inv, TypeOK
<1> QED BY <1>4, <1>5, <1>6, <1>7

LEMMA HeldOutside ==
  ASSUME Inv, Held, NEW g \in Handler,
         \/ \E q \in Request : Receive(g, q)
         \/ LoadSession(g) \/ Deliver(g) \/ LoseOwnership(g) \/ Abandon(g)
  PROVE  Held'
<1>1. store' = store /\ session' = session
  BY DEF Receive, LoadSession, Deliver, LoseOwnership, Abandon, shared
<1>2. CASE Leave(g)
  BY <1>1, <1>2, LeaveHeld
<1>3. CASE (\E q \in Request : Receive(g, q)) \/ LoadSession(g)
  <2>1. Frame(g) /\ pc'[g] \in {"load_session", "load_submission"}
    BY <1>3 DEF Receive, LoadSession, Goto, Frame, Inv, TypeOK
  <2> QED BY <1>1, <2>1, QuietHeld DEF Occupying, Holding
<1> QED BY <1>2, <1>3 DEF Deliver, LoseOwnership, Abandon

(* Steps of nobody's.                                                      *)
LEMMA EnvironmentHeld ==
  ASSUME Inv, Held, RecordsMove,
         \A h \in Handler : SameHandler(h) \/ pc'[h] = "crashed"
  PROVE  Held'
<1>1. AttemptInv'
  BY RecordsHeld DEF Held
<1>2. ASSUME NEW h \in Handler PROVE ClaimInv(h)'
  <2>1. CASE SameHandler(h)
    BY <2>1, ClaimKept DEF Held
  <2>2. CASE pc'[h] = "crashed"
    BY <2>2 DEF ClaimInv, Occupying, Holding
  <2> QED BY <2>1, <2>2
<1> QED BY <1>1, <1>2 DEF Held

LEMMA HeldEnvironment ==
  ASSUME Inv, Held,
         \/ \E s \in SubmissionId : LeaseExpires(s)
         \/ \E w \in Worker : Crash(w)
         \/ \E o \in Objective : OtherUpdate(o)
         \/ UNCHANGED vars
  PROVE  Held'
<1>1. CASE (\E w \in Worker : Crash(w)) \/ (\E o \in Objective : OtherUpdate(o))
           \/ UNCHANGED vars
  <2>1. RecordsMove
    BY <1>1 DEF Crash, OtherUpdate, vars, shared, RecordsMove, Moves
  <2>2. \A h \in Handler : SameHandler(h) \/ pc'[h] = "crashed"
    BY <1>1 DEF Crash, OtherUpdate, vars, local, SameHandler
  <2> QED BY <2>1, <2>2, EnvironmentHeld
<1>2. ASSUME NEW s \in SubmissionId, LeaseExpires(s) PROVE Held'
  <2> DEFINE r == [store[s] EXCEPT !.lease = FALSE]
  <2>1. store[s] \in Record /\ store[s] # None /\ session' = session
    BY <1>2 DEF LeaseExpires, Inv, TypeOK
  <2>2. r.status = store[s].status /\ r.input = store[s].input /\ r \in Record
    BY <2>1 DEF Record
  <2>3. \A t \in SubmissionId : store'[t] = IF t = s THEN r ELSE store[t]
    BY <1>2 DEF LeaseExpires, Inv, TypeOK
  <2> HIDE DEF r
  <2>4. RecordsMove
    BY <2>1, <2>2, <2>3, NoneIsNoRecord DEF RecordsMove, Moves
  <2>5. \A h \in Handler : SameHandler(h)
    BY <1>2 DEF LeaseExpires, local, SameHandler
  <2> QED BY <2>4, <2>5, EnvironmentHeld
<1> QED BY <1>1, <1>2

(* The secure store does not fail for a moment: the claim of a record that *)
(* is not terminal is never given back.                                    *)
LEMMA NextHeld ==
  ASSUME "secure_retryable" \notin FaultKinds, Inv, Held, [Next]_vars
  PROVE  Held'
<1>1. ASSUME NEW h \in Handler, Step(h) PROVE Held'
  <2>1. CASE LoadSubmission(h) \/ Create(h) \/ ClaimSession(h) \/ ClaimSubmission(h)
    BY <2>1, HeldLoadSubmission, HeldCreate, HeldClaimSession, HeldClaimSubmission
  <2>2. CASE ReadSecure(h) \/ Prepare(h) \/ Commit(h) \/ CheckApplied(h)
    BY <2>2, HeldWork
  <2>3. CASE Grade(h) \/ SaveDecision(h) \/ SaveApplied(h) \/ SaveCompleted(h)
    BY <2>3, HeldGrade, HeldSaveWork
  <2>4. CASE CompleteSession(h) \/ ClearSession(h)
    BY <2>4, HeldCompleteSession, HeldClearSession
  <2>5. CASE LoadSession(h) \/ Deliver(h) \/ LoseOwnership(h)
    BY <2>5, HeldOutside
  <2> QED BY <1>1, <2>1, <2>2, <2>3, <2>4, <2>5 DEF Step
<1>2. ASSUME NEW h \in Handler, NEW q \in Request, Receive(h, q) PROVE Held'
  BY <1>2, HeldOutside
<1>3. ASSUME NEW h \in Handler, SecureReadRetryable(h) PROVE Held'
  BY <1>3 DEF SecureReadRetryable, MayFail
<1>4. ASSUME NEW h \in Handler, SecureReadPermanent(h) \/ Heartbeat(h) \/ Abandon(h)
      PROVE  Held'
  BY <1>4, HeldSecureReadPermanent, HeldHeartbeat, HeldOutside
<1> QED BY <1>1, <1>2, <1>3, <1>4, HeldEnvironment DEF Next

LEMMA InitHeld ==
  ASSUME Init
  PROVE  Held
<1>1. \A s \in SubmissionId : store[s] = None
  BY DEF Init
<1>2. AttemptInv
  BY <1>1 DEF Init, AttemptInv, ScoredInv, CompletedInv, FeedbackInv,
              OneCompletionPerAttempt, Has
<1>3. \A h \in Handler : ClaimInv(h)
  BY DEF Init, ClaimInv, Occupying, Holding
<1> QED BY <1>2, <1>3 DEF Held

LEMMA HeldHolds ==
  ASSUME "secure_retryable" \notin FaultKinds
  PROVE  Spec => []Held
<1>1. Init => Held
  BY InitHeld
<1>2. Inv /\ Held /\ [Next]_vars => Held'
  BY NextHeld
<1> QED BY <1>1, <1>2, InvHolds, PTL DEF Spec

(* However many processes work on however many submissions, with crashes,  *)
(* lost leases and abandoned calls: no two submissions are completed as the*)
(* same attempt of the session, while the secure store answers.            *)
THEOREM OneCompletion ==
  ASSUME "secure_retryable" \notin FaultKinds
  PROVE  Spec => []OneCompletionPerAttempt
<1>1. Held => OneCompletionPerAttempt
  BY DEF Held, AttemptInv
<1> QED BY <1>1, HeldHolds, PTL

(* Completed submissions that do not occupy the session have attempts of   *)
(* their own below the one of the session.                                 *)
LEMMA HeldAccounted ==
  ASSUME Inv, Held
  PROVE  CompletionAccounted
<1> DEFINE completed == {s \in SubmissionId : Has(s, {"COMPLETED"})}
           unaccounted == {s \in completed : session.active = s}
           others == completed \ unaccounted
           past == 1..(session.attempt - 1)
           att == [s \in others |-> store[s].input.attempt]
<1>1. session.attempt \in Nat /\ session.attempt >= 1
  BY DEF Inv, TypeOK, Session, Held, AttemptInv
<1>2. \A s \in completed : store[s].input.attempt \in Nat \ {0}
  BY RequestAssumption DEF Has, Inv, TypeOK, Record
<1>3. ASSUME NEW s \in others PROVE store[s].input.attempt \in past
  <2>1. CompletedInv(s) /\ Has(s, {"COMPLETED"}) /\ session.active # s
    BY DEF Held, AttemptInv
  <2> QED BY <1>1, <1>2, <2>1 DEF CompletedInv
<1>4. att \in Injection(others, past)
  <2>1. att \in [others -> past]
    BY <1>3
  <2>2. \A s, t \in others : att[s] = att[t] => s = t
    BY DEF Held, AttemptInv, OneCompletionPerAttempt
  <2> QED BY <2>1, <2>2 DEF Injection, IsInjective
<1>5. IsFiniteSet(past) /\ Cardinality(past) = session.attempt - 1
  <2>1. 1 \in Int /\ session.attempt - 1 \in Int
    BY <1>1
  <2>2. /\ IsFiniteSet(past)
        /\ Cardinality(past) = IF 1 > session.attempt - 1 THEN 0
                               ELSE session.attempt - 1 - 1 + 1
    BY <2>1, FS_Interval
  <2> HIDE DEF past
  <2> QED BY <1>1, <2>2
<1>6. IsFiniteSet(others) /\ Cardinality(others) <= session.attempt - 1
  <2> HIDE DEF others, past, att
  <2> QED BY <1>4, <1>5, FS_Injection
<1>7. IsFiniteSet(unaccounted)
  <2>1. unaccounted \in SUBSET {session.active}
    OBVIOUS
  <2>2. IsFiniteSet({session.active})
    BY FS_Singleton
  <2> HIDE DEF unaccounted
  <2> QED BY <2>1, <2>2, FS_Subset
<1>8. completed = others \cup unaccounted /\ others \cap unaccounted = {}
  OBVIOUS
<1>9. Cardinality(completed) = Cardinality(others) + Cardinality(unaccounted)
  <2>1. /\ Cardinality(others \cup unaccounted) =
             Cardinality(others) + Cardinality(unaccounted)
               - Cardinality(others \cap unaccounted)
        /\ Cardinality(others) \in Nat /\ Cardinality(unaccounted) \in Nat
    <3> HIDE DEF others, unaccounted
    <3> QED BY <1>6, <1>7, FS_Union, FS_CardinalityType
  <2>2. Cardinality(others \cap unaccounted) = 0
    BY <1>8, FS_EmptySet
  <2> HIDE DEF others, unaccounted, completed
  <2> QED BY <1>8, <2>1, <2>2
<1>10. Cardinality(others) \in Nat /\ Cardinality(unaccounted) \in Nat
  <2> HIDE DEF others, unaccounted
  <2> QED BY <1>6, <1>7, FS_CardinalityType
<1>11. Cardinality(completed) <= session.attempt - 1 + Cardinality(unaccounted)
  <2> HIDE DEF others, unaccounted, completed
  <2> QED BY <1>1, <1>6, <1>9, <1>10
<1> QED BY <1>11 DEF CompletionAccounted

(* No attempt is lost or counted twice on the way from a completed record  *)
(* to the session: at every moment of every crash, the completed records   *)
(* are as many as the attempts passed, and the one that still occupies it. *)
THEOREM CompletionIsAccounted ==
  ASSUME "secure_retryable" \notin FaultKinds
  PROVE  Spec => []CompletionAccounted
<1>1. Inv /\ Held => CompletionAccounted
  BY HeldAccounted
<1> QED BY <1>1, InvHolds, HeldHolds, PTL
=============================================================================

-------------------------- MODULE InteractiveSession --------------------------
(***************************************************************************)
(* The main agent's interactive session: one session file, the commands    *)
(* the learner's client sends to it, the per-session lock file, and the    *)
(* generation of the next round in the background, by several service      *)
(* processes over one data root (InteractiveSessionStore).                 *)
(*                                                                         *)
(* A process works on at most one command of the session at a time         *)
(* (commandQueues); a command that is refused leaves every state as it was *)
(* and is no step.  A background task holds no lock.  Every access to the  *)
(* session file and every call of Role C is a step of its own.             *)
(*                                                                         *)
(* Role C is external: of its state only what its answers depend on is     *)
(* kept (LearningCycle models its submissions).  The next round context,   *)
(* the worker ledger, the events and the reasons are left out.             *)
(***************************************************************************)
EXTENDS Integers, FiniteSets

CONSTANTS
  Process,         \* service processes; a stopped one is started again
  Command,         \* commands a client may send: id, type and answers
  None,            \* no value (null)
  Orphan,          \* the lock file of a process that stopped
  PathLength,      \* nodes of every formal path
  FaultKinds,      \* "crash", "throw" (a worker or a port throws), "save"
                   \* (writing the session file fails)
  OperatorUnlocks, \* whether somebody removes the lock file of a dead process
  MaxRounds,       \* bounds: rounds of a profile,
  MaxProfiles,     \*         profiles built,
  MaxAttempts,     \*         role_c_generation_attempt,
  MaxFaults        \*         faults

CommandTypes == {"diagnosis", "anchor", "assessment", "retry"}

ASSUME CommandAssumption ==
  \A c \in Command : /\ c.type \in CommandTypes
                     /\ c = [id |-> c.id, type |-> c.type, answers |-> c.answers]
                     /\ c.id # None /\ c.answers # None
ASSUME ProcessAssumption == {None, Orphan} \cap Process = {} /\ None # Orphan
ASSUME BoundAssumption ==
  /\ PathLength \in Nat \ {0} /\ MaxRounds \in Nat \ {0}
  /\ MaxProfiles \in Nat /\ MaxAttempts \in Nat /\ MaxFaults \in Nat
  /\ OperatorUnlocks \in BOOLEAN

VARIABLES
  disk,      \* the session file: an InteractiveSessionRecord
  lock,      \* the session's lock file: its owner, Orphan, or None
  tasks,     \* background generations in flight; two of one process that
             \* have come equally far with equal copies count as one
  pc, cmd, rec,  \* per process: where its command is, the command, and the
             \* record it works on
  active,    \* Role C: the submission that holds a run's learning session
  graded,    \* Role C: completed submissions and their decisions
  routed,    \* Role C: the frozen anchor routes
  answered,  \* responses clients got
  profiles, faults  \* how many so far

roleC == <<active, graded, routed>>
vars == <<disk, lock, tasks, pc, cmd, rec, active, graded, routed, answered,
          profiles, faults>>

-----------------------------------------------------------------------------
CommandIds == {c.id : c \in Command}
Answers    == {c.answers : c \in Command}
Decisions  == {"advance", "stay", "reprofile"}  \* stay: remediate, reinforce
RunIds     == (1..MaxRounds) \X (1..(MaxAttempts + 1))
Submission == (1..MaxRounds) \X CommandIds

Status  == {"waiting_for_user", "running", "blocked", "failed", "completed"}
Waiting == {"diagnosis", "anchor", "assessment", None}
Response == [status : Status, waiting : Waiting, round : 1..MaxRounds]
(* private.role_c; profile and node only record what the round is made for *)
Round   == [run : RunIds, profile : 1..MaxProfiles, node : 1..PathLength]
Session == [status : Status, waiting : Waiting, round : 1..MaxRounds,
            attempt : 0..MaxAttempts,
            diagnosed : BOOLEAN,           \* diagnosis_answers are there
            profile : 0..MaxProfiles,      \* profile, path, rag_result; 0: null
            node : 0..PathLength,          \* current_path_node; 0: null
            roleC : Round \cup {None},     \* with assessment and resources
            phase : {"ANCHOR_PENDING", "ROUTE_LOCKED", None},
            anchors : Answers \cup {None},
            feedback : {"advance", "stay", None},
            processed : [CommandIds -> [command : Command, response : Response]
                                         \cup {None}]]
Task == [owner : Process, copy : Session \cup {None},
         stage : {"load", "generate", "check", "store", "fail", "store_failed"}]

ASSUME NoneIsNoRecord ==
  /\ None \notin Session /\ None \notin Round /\ None \notin Command
  /\ None \notin [command : Command, response : Response]
ASSUME NoneIsNoName ==
  None \notin {"diagnosis", "anchor", "assessment", "advance", "stay",
              "ANCHOR_PENDING", "ROUTE_LOCKED"}

PC == {"idle", "diagnose", "generate", "anchor", "submit", "grade", "save", "release"}

NewSession ==
  [status |-> "waiting_for_user", waiting |-> "diagnosis", round |-> 1,
   attempt |-> 0, diagnosed |-> FALSE, profile |-> 0, node |-> 0,
   roleC |-> None, phase |-> None, anchors |-> None, feedback |-> None,
   processed |-> [i \in CommandIds |-> None]]

Init ==
  /\ disk = NewSession
  /\ lock = None /\ tasks = {}
  /\ pc = [p \in Process |-> "idle"]
  /\ cmd = [p \in Process |-> None]
  /\ rec = [p \in Process |-> None]
  /\ active = {} /\ graded = {} /\ routed = {}
  /\ answered = {} /\ profiles = 0 /\ faults = 0

-----------------------------------------------------------------------------
(* The session record                                                      *)

ResponseOf(r) == [status |-> r.status, waiting |-> r.waiting, round |-> r.round]

RunId(r) == <<r.round, r.attempt + 1>>

Block(r) == [r EXCEPT !.status = "blocked"]

(* Mutant: the anchor route of the round before stays.                     *)
Applied_KeepsAnchors(r, anchorFirst) ==
  [r EXCEPT !.status = "waiting_for_user",
            !.waiting = IF anchorFirst THEN "anchor" ELSE "assessment",
            !.roleC = [run |-> RunId(r), profile |-> r.profile, node |-> r.node],
            !.phase = IF anchorFirst THEN "ANCHOR_PENDING" ELSE @]

(* applyFormalRoleCRound                                                   *)
Applied(r, anchorFirst) ==
  [r EXCEPT !.status = "waiting_for_user",
            !.waiting = IF anchorFirst THEN "anchor" ELSE "assessment",
            !.roleC = [run |-> RunId(r), profile |-> r.profile, node |-> r.node],
            !.phase = IF anchorFirst THEN "ANCHOR_PENDING" ELSE None,
            !.anchors = None]

(* Mutant: the content made for the old profile stays.                     *)
Reset_KeepsContent(r) ==
  [NewSession EXCEPT !.attempt = r.attempt + 1, !.processed = r.processed,
                     !.roleC = r.roleC]

(* resetToDiagnosisPhase: only the attempt and the commands survive.       *)
Reset(r) ==
  [NewSession EXCEPT !.attempt = r.attempt + 1, !.processed = r.processed]

(* continueAfterAssessment, once Role C has graded                         *)
AfterDecision(r, decision) ==
  LET next == IF decision = "advance" THEN r.node + 1 ELSE r.node IN
  IF decision = "reprofile" THEN Reset(r)
  ELSE IF next > PathLength
    THEN [r EXCEPT !.feedback = decision, !.node = 0, !.waiting = None,
                   !.status = "completed"]
    ELSE [r EXCEPT !.feedback = decision, !.node = next, !.waiting = None,
                   !.status = "running", !.round = @ + 1, !.attempt = 0]

(* Bound on what Role C may decide.                                        *)
WithinBounds(r, decision) ==
  CASE decision = "reprofile" -> r.attempt < MaxAttempts
    [] decision = "stay"      -> r.round < MaxRounds
    [] decision = "advance"   -> r.round < MaxRounds \/ r.node = PathLength

Fault(kind) == kind \in FaultKinds /\ faults < MaxFaults /\ faults' = faults + 1

-----------------------------------------------------------------------------
(* Commands                                                                *)

(* Mutant: processed commands are not looked up.                           *)
Known_Never(c) == FALSE

(* executeCommand: the command id was processed before.                    *)
Known(c) == disk.processed[c.id] # None

(* executeCommand: what the record must be waiting for.                    *)
Allowed(c) ==
  CASE c.type = "diagnosis"  -> /\ disk.status = "waiting_for_user"
                                /\ disk.waiting = "diagnosis"
    [] c.type = "anchor"     -> /\ disk.status = "waiting_for_user"
                                /\ \/ disk.waiting = "anchor"
                                   \/ /\ disk.phase = "ROUTE_LOCKED"
                                      /\ disk.anchors = c.answers
    [] c.type = "assessment" -> /\ disk.status = "waiting_for_user"
                                /\ disk.waiting = "assessment"
    [] c.type = "retry"      -> disk.status \in {"blocked", "failed"}

(* Mutant: the checkpoint of the last assessment comes before its feedback. *)
MovedOn_Never(r) == FALSE

(* The path has moved on since the assessment of the record.               *)
MovedOn(r) == r.feedback = "advance"

(* retryInteractiveSession: where the retry takes up the work, and with    *)
(* which record.  A blocked session always has a current node once it has  *)
(* a profile, and diagnosis answers once it has neither.                   *)
Retried(r) ==
  LET again == [r EXCEPT !.attempt = @ + 1] IN
  IF MovedOn(r)
    THEN <<"generate", [again EXCEPT !.phase = None, !.anchors = None]>>
  ELSE IF r.roleC # None
    THEN <<"save", [r EXCEPT !.status = "waiting_for_user",
                             !.waiting = IF r.phase = "ANCHOR_PENDING"
                                           THEN "anchor" ELSE "assessment"]>>
  ELSE IF r.profile # 0
    THEN <<"generate", again>>
    ELSE <<"diagnose", r>>

FirstStep(c, r) ==
  CASE c.type = "diagnosis"  -> <<"diagnose", r>>
    [] c.type = "anchor"     -> <<IF r.phase = "ROUTE_LOCKED" THEN "save" ELSE "anchor", r>>
    [] c.type = "assessment" -> <<"submit", r>>
    [] c.type = "retry"      -> Retried(r)

(* command, withSessionLock, executeCommand: a processed command is        *)
(* answered from the record (with other content it is refused); a new one  *)
(* is carried out under the lock.                                          *)
Begin(p, c) ==
  /\ pc[p] = "idle" /\ lock = None
  /\ \/ /\ Known(c) /\ disk.processed[c.id].command = c
        /\ answered' = answered \cup {[id |-> c.id,
                                       response |-> disk.processed[c.id].response]}
        /\ UNCHANGED <<lock, pc, cmd, rec>>
     \/ /\ ~Known(c) /\ Allowed(c)
        /\ FirstStep(c, disk)[2].attempt <= MaxAttempts
        /\ lock' = p
        /\ cmd' = [cmd EXCEPT ![p] = c]
        /\ pc' = [pc EXCEPT ![p] = FirstStep(c, disk)[1]]
        /\ rec' = [rec EXCEPT ![p] = FirstStep(c, disk)[2]]
        /\ UNCHANGED answered
  /\ UNCHANGED <<disk, tasks, roleC, profiles, faults>>

Continue(p, stage, r) ==
  /\ pc' = [pc EXCEPT ![p] = stage]
  /\ rec' = [rec EXCEPT ![p] = r]
  /\ UNCHANGED <<disk, lock, cmd, answered>>

(* continueAfterDiagnosis: profile-builder and path-planner                *)
BuildProfile(p) ==
  /\ pc[p] = "diagnose"
  /\ LET r == [rec[p] EXCEPT !.diagnosed = TRUE, !.waiting = None]
         built == [r EXCEPT !.profile = profiles + 1]
     IN \/ /\ \E s \in {"blocked", "failed"} :
                Continue(p, "save", [r EXCEPT !.status = s])
           /\ UNCHANGED profiles
        \/ /\ profiles < MaxProfiles /\ profiles' = profiles + 1
           /\ \/ Continue(p, "generate", [built EXCEPT !.node = 1])
              \/ Continue(p, "save", [built EXCEPT !.status = "completed"])
  /\ UNCHANGED <<tasks, roleC, faults>>

(* generateFormalRoleCRound in a command                                   *)
Generate(p) ==
  /\ pc[p] = "generate"
  /\ \/ \E anchorFirst \in BOOLEAN : Continue(p, "save", Applied(rec[p], anchorFirst))
     \/ Continue(p, "save", [Block(rec[p]) EXCEPT !.waiting = None])
  /\ UNCHANGED <<tasks, roleC, profiles, faults>>

(* continueAfterAnchorAnswers: Role C freezes a route for a run once, and  *)
(* repeats it only for the same answers under the same submission id.      *)
RouteAnchors(p) ==
  /\ pc[p] = "anchor"
  /\ LET r == rec[p]
         wanted == [run |-> r.roleC.run, answers |-> cmd[p].answers, id |-> cmd[p].id]
         frozen == {x \in routed : x.run = wanted.run}
     IN \/ /\ frozen \subseteq {wanted}
           /\ routed' = routed \cup {wanted}
           /\ Continue(p, "save", [r EXCEPT !.phase = "ROUTE_LOCKED",
                                            !.anchors = cmd[p].answers,
                                            !.waiting = "assessment"])
        \/ Continue(p, "save", Block(r)) /\ UNCHANGED routed
  /\ UNCHANGED <<tasks, active, graded, profiles, faults>>

SubmissionId(p) == <<rec[p].round, cmd[p].id>>

(* Role C lets a submission into a run's session when no other one is in   *)
(* it or was completed in it, and the anchor answers are the frozen ones.  *)
Accepts(p) ==
  LET run == rec[p].roleC.run IN
  /\ \A x \in active \cup graded : x.run = run => x.sub = SubmissionId(p)
  /\ \A x \in routed : x.run = run => x.answers = rec[p].anchors

(* continueAfterAssessment: submitRoleCAssessment                          *)
Submit(p) ==
  /\ pc[p] = "submit"
  /\ \/ /\ Accepts(p)
        /\ active' = active \cup {[run |-> rec[p].roleC.run, sub |-> SubmissionId(p)]}
        /\ Continue(p, "grade", rec[p])
     \/ /\ ~Accepts(p)
        /\ Continue(p, "save", Block(rec[p]))
        /\ UNCHANGED active
  /\ UNCHANGED <<tasks, graded, routed, profiles, faults>>

(* Role C answers; a graded submission starts the background generation    *)
(* before executeCommand saves the record.                                 *)
Grade(p) ==
  /\ pc[p] = "grade"
  /\ LET r == rec[p]
         mine(x) == x.run = r.roleC.run /\ x.sub = SubmissionId(p)
         earlier == {x.decision : x \in {y \in graded : mine(y)}}
     IN /\ active' = {x \in active : ~mine(x)}
        /\ \/ /\ earlier = {}
              /\ Continue(p, "save", Block(r))
              /\ UNCHANGED <<graded, tasks>>
           \/ \E d \in IF earlier = {} THEN Decisions ELSE earlier :
                /\ WithinBounds(r, d)
                /\ graded' = graded \cup {[run |-> r.roleC.run, sub |-> SubmissionId(p),
                                           profile |-> r.profile, decision |-> d]}
                /\ Continue(p, "save", AfterDecision(r, d))
                /\ tasks' = IF AfterDecision(r, d).status = "running"
                              THEN tasks \cup {[owner |-> p, copy |-> None, stage |-> "load"]}
                              ELSE tasks
  /\ UNCHANGED <<routed, profiles, faults>>

(* executeCommand: the response is kept and the record saved.              *)
Save(p) ==
  /\ pc[p] = "save"
  /\ disk' = [rec[p] EXCEPT !.processed[cmd[p].id] =
                [command |-> cmd[p], response |-> ResponseOf(rec[p])]]
  /\ pc' = [pc EXCEPT ![p] = "release"]
  /\ UNCHANGED <<lock, tasks, cmd, rec, roleC, answered, profiles, faults>>

(* A port, a worker or the file system throws: nothing is saved.           *)
Throw(p) ==
  /\ \/ pc[p] \in {"diagnose", "generate", "grade"} /\ Fault("throw")
     \/ pc[p] = "save" /\ Fault("save")
  /\ pc' = [pc EXCEPT ![p] = "release"]
  /\ cmd' = [cmd EXCEPT ![p] = None]
  /\ UNCHANGED <<disk, lock, tasks, rec, roleC, answered, profiles>>

(* withSessionLock, finally; the handler then answers.                     *)
Release(p) ==
  /\ pc[p] = "release"
  /\ lock' = None
  /\ answered' = IF cmd[p] = None THEN answered
                 ELSE answered \cup {[id |-> cmd[p].id, response |-> ResponseOf(rec[p])]}
  /\ pc' = [pc EXCEPT ![p] = "idle"]
  /\ cmd' = [cmd EXCEPT ![p] = None]
  /\ rec' = [rec EXCEPT ![p] = None]
  /\ UNCHANGED <<disk, tasks, roleC, profiles, faults>>

-----------------------------------------------------------------------------
(* generateNextRoundInBackground                                           *)

Move(t, stage, copy) ==
  tasks' = (tasks \ {t}) \cup {[owner |-> t.owner, stage |-> stage, copy |-> copy]}

End(t) == tasks' = tasks \ {t}

Elsewhere == <<lock, pc, cmd, rec, active, graded, routed, answered, profiles>>

(* The first load; without a path node the task throws.                    *)
TaskLoad(t) ==
  /\ t.stage = "load"
  /\ IF disk.node = 0 THEN Move(t, "fail", None) ELSE Move(t, "generate", disk)
  /\ UNCHANGED <<Elsewhere, disk, faults>>

(* Role C is ready, or not, or throws.                                     *)
TaskGenerate(t) ==
  /\ t.stage = "generate"
  /\ \/ /\ \/ \E anchorFirst \in BOOLEAN : Move(t, "check", Applied(t.copy, anchorFirst))
           \/ Move(t, "check", Block(t.copy))
        /\ UNCHANGED faults
     \/ Move(t, "fail", None) /\ Fault("throw")
  /\ UNCHANGED <<Elsewhere, disk>>

(* Mutant: the round is not compared.                                      *)
StillMine_AnyRound(copy) == disk.status = "running"

(* The session is generating this round.                                   *)
StillMine(copy) == disk.status = "running" /\ disk.round = copy.round

TaskCheck(t) ==
  /\ t.stage = "check"
  /\ IF StillMine(t.copy) THEN Move(t, "store", t.copy) ELSE End(t)
  /\ UNCHANGED <<Elsewhere, disk, faults>>

(* The save has no lock; when it throws the session is marked failed.      *)
TaskStore(t) ==
  /\ t.stage = "store"
  /\ \/ disk' = t.copy /\ End(t) /\ UNCHANGED faults
     \/ Move(t, "fail", None) /\ Fault("save") /\ UNCHANGED disk
  /\ UNCHANGED Elsewhere

(* catch: a session that is still running is marked failed.                *)
TaskFail(t) ==
  /\ t.stage = "fail"
  /\ IF disk.status = "running"
       THEN Move(t, "store_failed", [disk EXCEPT !.status = "failed"])
       ELSE End(t)
  /\ UNCHANGED <<Elsewhere, disk, faults>>

TaskStoreFailed(t) ==
  /\ t.stage = "store_failed"
  /\ End(t)
  /\ \/ disk' = t.copy /\ UNCHANGED faults
     \/ Fault("save") /\ UNCHANGED disk
  /\ UNCHANGED Elsewhere

-----------------------------------------------------------------------------
(* A process stops and starts again: what it did is gone, its lock file    *)
(* stays.                                                                  *)
Crash(p) ==
  /\ Fault("crash")
  /\ lock' = IF lock = p THEN Orphan ELSE lock
  /\ tasks' = {t \in tasks : t.owner # p}
  /\ pc' = [pc EXCEPT ![p] = "idle"]
  /\ cmd' = [cmd EXCEPT ![p] = None]
  /\ rec' = [rec EXCEPT ![p] = None]
  /\ UNCHANGED <<disk, roleC, answered, profiles>>

(* Somebody removes the lock file of a process that stopped.               *)
Unlock ==
  /\ OperatorUnlocks /\ lock = Orphan
  /\ lock' = None
  /\ UNCHANGED <<disk, tasks, pc, cmd, rec, roleC, answered, profiles, faults>>

CommandStep(p) ==
  \/ BuildProfile(p) \/ Generate(p) \/ RouteAnchors(p) \/ Submit(p)
  \/ Grade(p) \/ Save(p) \/ Throw(p) \/ Release(p)

TaskStep(t) ==
  \/ TaskLoad(t) \/ TaskGenerate(t) \/ TaskCheck(t) \/ TaskStore(t)
  \/ TaskFail(t) \/ TaskStoreFailed(t)

Next ==
  \/ \E p \in Process : (\E c \in Command : Begin(p, c)) \/ CommandStep(p) \/ Crash(p)
  \/ \E t \in tasks : TaskStep(t)
  \/ Unlock

Spec == Init /\ [][Next]_vars

-----------------------------------------------------------------------------
TypeOK ==
  /\ disk \in Session
  /\ lock \in Process \cup {Orphan, None}
  /\ tasks \subseteq Task
  /\ pc \in [Process -> PC]
  /\ cmd \in [Process -> Command \cup {None}]
  /\ rec \in [Process -> Session \cup {None}]
  /\ active \subseteq [run : RunIds, sub : Submission]
  /\ graded \subseteq [run : RunIds, sub : Submission, profile : 1..MaxProfiles,
                       decision : Decisions]
  /\ routed \subseteq [run : RunIds, answers : Answers, id : CommandIds]
  /\ answered \subseteq [id : CommandIds, response : Response]
  /\ profiles \in 0..MaxProfiles /\ faults \in 0..MaxFaults

(* A command id is answered in one way, however often and to whichever     *)
(* process it is sent (processed_commands), as long as no save of the      *)
(* session file fails: then a late background save may put back a record   *)
(* from before the command.                                                *)
OneAnswerPerCommand ==
  \A a, b \in answered : a.id = b.id => a.response = b.response

(* The learner never answers an assessment that was made for another       *)
(* profile or another path node (reprofile, retry, late background saves). *)
AssessmentFits ==
  disk.status = "waiting_for_user" /\ disk.waiting \in {"anchor", "assessment"} =>
    /\ disk.roleC # None
    /\ disk.roleC.profile = disk.profile
    /\ disk.roleC.node = disk.node

(* A session whose route is locked holds the answers Role C froze for the  *)
(* run: the ones merged into the submission are the ones that were routed. *)
AnchorsAgree ==
  disk.phase = "ROUTE_LOCKED" =>
    \E x \in routed : x.run = disk.roleC.run /\ x.answers = disk.anchors

(* Once the learner was told of a grade the session is past that round: a  *)
(* late background save does not put the graded round back (with failing   *)
(* saves it may: two generations of one round cannot be told apart).       *)
GradeIsKept ==
  \A g \in graded :
    /\ g.profile = disk.profile
    /\ \E a \in answered : a.id = g.sub[2] /\ a.response.status \in {"running", "completed"}
    => disk.round > g.sub[1] \/ disk.status = "completed"
=============================================================================

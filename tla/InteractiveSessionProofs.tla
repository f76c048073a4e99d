----------------------- MODULE InteractiveSessionProofs -----------------------
(***************************************************************************)
(* The safety properties of the session, for any processes, commands, path *)
(* length and faults (the last two as long as no save of the file fails).  *)
(*                                                                         *)
(* AssessmentFits is about the session file alone, but the file is written *)
(* from the records processes and background tasks work on, some of them   *)
(* loaded long ago.  So the invariant says of every record, wherever it    *)
(* is, that it is Sound: its content belongs to its profile, and to its    *)
(* node unless the learner has advanced since; and of every stage of a     *)
(* command or a task what the code there relies on.  RoutesInv follows the *)
(* anchor answers of these records in the same way, and Single is what     *)
(* keeps two of them from reaching the file.                               *)
(***************************************************************************)
EXTENDS InteractiveSession, TLAPS

Sound(r) ==
  /\ r.node # 0 => r.profile # 0
  /\ r.roleC # None => r.roleC.profile = r.profile
  /\ r.roleC # None /\ r.feedback # "advance" => r.roleC.node = r.node
  /\ r.status = "waiting_for_user" /\ r.waiting \in {"anchor", "assessment"} =>
       r.roleC # None /\ r.roleC.node = r.node
  /\ r.status \in {"blocked", "failed", "running"} /\ r.profile # 0 => r.node # 0
  /\ r.waiting = "diagnosis" => r.profile = 0
  /\ r.feedback = "advance" => r.profile # 0

(* What a command relies on at its stage.                                  *)
Fit(stage, c, r) ==
  stage # "idle" =>
    /\ r \in Session /\ Sound(r)
    /\ stage # "release" => c \in Command
    /\ stage = "diagnose" => r.profile = 0
    /\ stage = "generate" => r.profile # 0 /\ r.node # 0
    /\ stage \in {"anchor", "submit", "grade"} =>
         r.status = "waiting_for_user" /\ r.waiting \in {"anchor", "assessment"}

(* What a background task relies on at its stage.                          *)
TaskFit(t) ==
  t.stage \notin {"load", "fail"} =>
    /\ t.copy \in Session /\ Sound(t.copy)
    /\ t.stage = "generate" => t.copy.node # 0

DiskInv == disk \in Session /\ Sound(disk)

LocalInv ==
  /\ pc \in [Process -> PC]
  /\ cmd \in [Process -> Command \cup {None}]
  /\ rec \in [Process -> Session \cup {None}]
  /\ \A p \in Process : Fit(pc[p], cmd[p], rec[p])

TaskInv == tasks \subseteq Task /\ \A t \in tasks : TaskFit(t)

RoleCInv ==
  /\ active \subseteq [run : RunIds, sub : Submission]
  /\ graded \subseteq [run : RunIds, sub : Submission, profile : 1..MaxProfiles,
                       decision : Decisions]
  /\ routed \subseteq [run : RunIds, answers : Answers, id : CommandIds]

RestInv ==
  /\ lock \in Process \cup {Orphan, None}
  /\ answered \subseteq [id : CommandIds, response : Response]
  /\ profiles \in 0..MaxProfiles /\ faults \in 0..MaxFaults

Inv == DiskInv /\ LocalInv /\ TaskInv /\ RoleCInv /\ RestInv

USE BoundAssumption, NoneIsNoName

-----------------------------------------------------------------------------
(* The operators on records keep them typed and sound.                     *)

LEMMA AppliedSound ==
  ASSUME NEW r \in Session, NEW a \in BOOLEAN, Sound(r), r.profile # 0, r.node # 0
  PROVE  Applied(r, a) \in Session /\ Sound(Applied(r, a))
<1> DEFINE c == [run |-> RunId(r), profile |-> r.profile, node |-> r.node]
<1>1. c \in Round
  BY DEF Round, RunId, RunIds, Session
<1>2. Applied(r, a) \in Session
  BY <1>1 DEF Applied, Session, Status, Waiting
<1>3. Sound(Applied(r, a))
  BY <1>1, NoneIsNoRecord DEF Applied, Session, Sound, Round
<1> QED BY <1>2, <1>3

LEMMA BlockSound ==
  ASSUME NEW r \in Session, Sound(r), r.profile # 0 => r.node # 0
  PROVE  /\ Block(r) \in Session /\ Sound(Block(r))
         /\ [Block(r) EXCEPT !.waiting = None] \in Session
         /\ Sound([Block(r) EXCEPT !.waiting = None])
<1>1. Block(r) \in Session /\ [Block(r) EXCEPT !.waiting = None] \in Session
  BY DEF Block, Session, Status, Waiting
<1>2. Sound(Block(r)) /\ Sound([Block(r) EXCEPT !.waiting = None])
  BY DEF Block, Session, Sound
<1> QED BY <1>1, <1>2

LEMMA NewSound == NewSession \in Session /\ Sound(NewSession)
<1>1. NewSession \in Session
  BY DEF NewSession, Session, Status, Waiting
<1>2. Sound(NewSession)
  BY DEF NewSession, Sound
<1> QED BY <1>1, <1>2

LEMMA ResetSound ==
  ASSUME NEW r \in Session, r.attempt < MaxAttempts
  PROVE  Reset(r) \in Session /\ Sound(Reset(r))
<1>1. Reset(r) \in Session
  <2>1. NewSession \in Session /\ r.attempt + 1 \in 0..MaxAttempts
    BY NewSound DEF Session
  <2>2. [NewSession EXCEPT !.attempt = r.attempt + 1] \in Session
    BY <2>1 DEF Session
  <2> QED BY <2>2 DEF Reset, Session
<1>2. Sound(Reset(r))
  BY DEF Reset, NewSession, Sound
<1> QED BY <1>1, <1>2

(* The session moves on to the next round.                                 *)
Moved(r, decision, next) ==
  [r EXCEPT !.feedback = decision, !.node = next, !.waiting = None,
            !.status = "running", !.round = @ + 1, !.attempt = 0]

LEMMA FeedbackTyped ==
  ASSUME NEW r \in Session, NEW d \in {"advance", "stay"}, NEW n \in 0..PathLength
  PROVE  [r EXCEPT !.feedback = d, !.node = n] \in Session
BY DEF Session

LEMMA MovedTyped ==
  ASSUME NEW r \in Session, NEW d \in {"advance", "stay"}, NEW n \in 0..PathLength,
         r.round < MaxRounds
  PROVE  Moved(r, d, n) \in Session
<1> DEFINE a == [r EXCEPT !.feedback = d, !.node = n]
           b == [a EXCEPT !.waiting = None, !.status = "running"]
<1>1. a \in Session /\ a.round = r.round
  BY FeedbackTyped DEF Session
<1>2. b \in Session /\ b.round = r.round
  <2> HIDE DEF a
  <2> QED BY <1>1 DEF Session, Status, Waiting
<1>3. [b EXCEPT !.round = @ + 1, !.attempt = 0] \in Session
  <2> HIDE DEF b
  <2>1. b.round + 1 \in 1..MaxRounds
    BY <1>2 DEF Session
  <2> DEFINE e == [b EXCEPT !.round = @ + 1]
  <2>2. e \in Session
    BY <1>2, <2>1 DEF Session
  <2>3. [e EXCEPT !.attempt = 0] \in Session
    <3> HIDE DEF e
    <3> QED BY <2>2 DEF Session
  <2> QED BY <2>3
<1>4. Moved(r, d, n) = [b EXCEPT !.round = @ + 1, !.attempt = 0]
  BY DEF Moved, Session
<1> QED BY <1>3, <1>4

LEMMA DecisionSound ==
  ASSUME NEW r \in Session, NEW d \in Decisions, Sound(r), WithinBounds(r, d),
         r.status = "waiting_for_user", r.waiting \in {"anchor", "assessment"}
  PROVE  AfterDecision(r, d) \in Session /\ Sound(AfterDecision(r, d))
<1>1. r.roleC \in Round /\ r.roleC.node = r.node /\ r.node # 0 /\ r.profile # 0
  BY DEF Sound, Session, Round
<1>2. CASE d = "reprofile"
  BY <1>2, ResetSound DEF AfterDecision, WithinBounds
<1>3. CASE d = "stay"
  <2>1. AfterDecision(r, d) = Moved(r, "stay", r.node)
    BY <1>1, <1>3 DEF AfterDecision, Moved, Session
  <2>2. r.round < MaxRounds
    BY <1>3 DEF WithinBounds
  <2>3. Moved(r, "stay", r.node) \in Session
    BY <2>2, MovedTyped DEF Session
  <2>4. Sound(AfterDecision(r, d))
    BY <1>1, <2>1, <2>2 DEF Moved, Session, Sound, Round
  <2> QED BY <2>1, <2>3, <2>4
<1>4. CASE d = "advance" /\ r.node = PathLength
  <2> DEFINE a == [r EXCEPT !.feedback = "advance", !.node = 0]
  <2>1. AfterDecision(r, d) = [a EXCEPT !.waiting = None, !.status = "completed"]
    BY <1>1, <1>4 DEF AfterDecision, Session
  <2>2. a \in Session
    <3>1. 0 \in 0..PathLength
      OBVIOUS
    <3> QED BY <3>1, FeedbackTyped
  <2>3. [a EXCEPT !.waiting = None, !.status = "completed"] \in Session
    <3> HIDE DEF a
    <3> QED BY <2>2 DEF Session, Status, Waiting
  <2>4. Sound(AfterDecision(r, d))
    BY <1>1, <2>1 DEF Session, Sound, Round
  <2> QED BY <2>1, <2>3, <2>4
<1>5. CASE d = "advance" /\ r.node # PathLength
  <2>1. AfterDecision(r, d) = Moved(r, "advance", r.node + 1)
    BY <1>1, <1>5 DEF AfterDecision, Moved, Session
  <2>2. r.round < MaxRounds /\ r.node + 1 \in 1..PathLength /\ r.node + 1 \in 0..PathLength
    BY <1>5, <1>1 DEF WithinBounds, Session
  <2>3. Moved(r, "advance", r.node + 1) \in Session
    BY <2>2, MovedTyped
  <2>4. Sound(AfterDecision(r, d))
    BY <1>1, <2>1, <2>2 DEF Moved, Session, Sound, Round
  <2> QED BY <2>1, <2>3, <2>4
<1> QED BY <1>2, <1>3, <1>4, <1>5 DEF Decisions

(* Where a command starts it finds what it relies on.                      *)
LEMMA FirstStepFits ==
  ASSUME NEW c \in Command, DiskInv, Allowed(c),
         FirstStep(c, disk)[2].attempt <= MaxAttempts
  PROVE  /\ FirstStep(c, disk)[1] \in PC \ {"idle"}
         /\ Fit(FirstStep(c, disk)[1], c, FirstStep(c, disk)[2])
<1> DEFINE r == disk
           again == [r EXCEPT !.attempt = @ + 1]
<1>1. r \in Session /\ c.type \in CommandTypes
  BY CommandAssumption DEF DiskInv
<1>2. CASE c.type = "diagnosis"
  BY <1>1, <1>2 DEF DiskInv, FirstStep, Allowed, Fit, Sound, PC
<1>3. CASE c.type = "anchor"
  BY <1>1, <1>3 DEF DiskInv, FirstStep, Allowed, Fit, PC
<1>4. CASE c.type = "assessment"
  BY <1>1, <1>4 DEF DiskInv, FirstStep, Allowed, Fit, PC
<1>5. CASE c.type = "retry"
  <2>1. FirstStep(c, r) = Retried(r) /\ r.status \in {"blocked", "failed"}
    BY <1>5 DEF FirstStep, Allowed
  <2>0. Sound(r)
    BY DEF DiskInv
  <2>2. CASE MovedOn(r)
    <3> DEFINE s == [again EXCEPT !.phase = None, !.anchors = None]
    <3>1. Retried(r) = <<"generate", s>>
      BY <2>2 DEF Retried
    <3> HIDE DEF s
    <3>2. s.attempt <= MaxAttempts
      BY <2>1, <3>1
    <3> USE DEF s
    <3>3. s \in Session
      <4>1. again \in Session
        BY <1>1, <3>2 DEF Session
      <4> QED BY <4>1 DEF Session
    <3>4. Sound(s) /\ s.profile # 0 /\ s.node # 0
      BY <1>1, <2>1, <2>2, <2>0 DEF Session, Sound, MovedOn
    <3>5. Fit("generate", c, s)
      BY <3>3, <3>4 DEF Fit
    <3> HIDE DEF s
    <3> QED BY <2>1, <3>1, <3>5 DEF PC
  <2>3. CASE ~MovedOn(r) /\ r.roleC # None
    <3> DEFINE w == IF r.phase = "ANCHOR_PENDING" THEN "anchor" ELSE "assessment"
               s == [r EXCEPT !.status = "waiting_for_user", !.waiting = w]
    <3>1. Retried(r) = <<"save", s>>
      BY <2>3 DEF Retried
    <3>2. s \in Session
      BY <1>1 DEF Session, Status, Waiting
    <3>3. r.roleC \in Round
      BY <1>1, <2>3 DEF Session
    <3>4. Sound(s)
      BY <1>1, <2>3, <3>3, <2>0 DEF Session, Sound, MovedOn, Round
    <3> QED BY <2>1, <3>1, <3>2, <3>4 DEF Fit, PC
  <2>4. CASE ~MovedOn(r) /\ r.roleC = None /\ r.profile # 0
    <3>1. Retried(r) = <<"generate", again>>
      BY <2>4 DEF Retried
    <3> HIDE DEF again
    <3>2. again.attempt <= MaxAttempts
      BY <2>1, <3>1
    <3> USE DEF again
    <3>3. again \in Session
      BY <1>1, <3>2 DEF Session
    <3>4. Sound(again) /\ again.profile # 0 /\ again.node # 0
      BY <1>1, <2>1, <2>4, <2>0 DEF Session, Sound
    <3>5. Fit("generate", c, again)
      BY <3>3, <3>4 DEF Fit
    <3> HIDE DEF again
    <3> QED BY <2>1, <3>1, <3>5 DEF PC
  <2>5. CASE ~MovedOn(r) /\ r.roleC = None /\ r.profile = 0
    <3>1. Retried(r) = <<"diagnose", r>>
      BY <2>5 DEF Retried
    <3> QED BY <1>1, <2>1, <2>5, <3>1, <2>0 DEF Fit, PC
  <2> QED BY <2>2, <2>3, <2>4, <2>5
<1> QED BY <1>1, <1>2, <1>3, <1>4, <1>5 DEF CommandTypes

-----------------------------------------------------------------------------
(* The steps of a command.                                                 *)

LEMMA ContinueKeeps ==
  ASSUME LocalInv, NEW p \in Process, NEW stage \in PC, NEW r,
         Continue(p, stage, r), stage # "idle", Fit(stage, cmd[p], r)
  PROVE  LocalInv'
<1>1. r \in Session
  BY DEF Fit
<1>2. /\ pc' = [pc EXCEPT ![p] = stage] /\ rec' = [rec EXCEPT ![p] = r]
      /\ cmd' = cmd
  BY DEF Continue
<1>3. /\ pc' \in [Process -> PC] /\ rec' \in [Process -> Session \cup {None}]
      /\ cmd' \in [Process -> Command \cup {None}]
  BY <1>1, <1>2 DEF LocalInv
<1>4. ASSUME NEW q \in Process PROVE Fit(pc'[q], cmd'[q], rec'[q])
  <2>1. CASE q = p
    BY <1>2, <2>1 DEF LocalInv
  <2>2. CASE q # p
    BY <1>2, <2>2 DEF LocalInv
  <2> QED BY <2>1, <2>2
<1> QED BY <1>3, <1>4 DEF LocalInv

LEMMA ContinueFrame ==
  ASSUME NEW p, NEW stage, NEW r, Continue(p, stage, r)
  PROVE  UNCHANGED <<disk, lock, cmd, answered>>
BY DEF Continue

LEMMA ResponseTyped ==
  ASSUME NEW r \in Session
  PROVE  ResponseOf(r) \in Response
BY DEF ResponseOf, Response, Session

LEMMA BeginKeeps ==
  ASSUME Inv, NEW p \in Process, NEW c \in Command, Begin(p, c)
  PROVE  Inv'
<1>1. DiskInv' /\ TaskInv' /\ RoleCInv'
  BY DEF Begin, Inv, DiskInv, TaskInv, RoleCInv, roleC, Sound, TaskFit
<1>2. CASE Known(c) /\ disk.processed[c.id].command = c
              /\ answered' = answered \cup {[id |-> c.id,
                                             response |-> disk.processed[c.id].response]}
              /\ UNCHANGED <<lock, pc, cmd, rec>>
  <2>1. disk.processed[c.id].response \in Response /\ c.id \in CommandIds
    BY <1>2 DEF Inv, DiskInv, Session, Known, CommandIds
  <2>2. LocalInv'
    BY <1>2 DEF Inv, LocalInv
  <2>3. RestInv'
    BY <1>2, <2>1 DEF Begin, Inv, RestInv
  <2> QED BY <1>1, <2>2, <2>3 DEF Inv
<1>3. CASE ~Known(c) /\ Allowed(c) /\ FirstStep(c, disk)[2].attempt <= MaxAttempts
              /\ lock' = p /\ cmd' = [cmd EXCEPT ![p] = c]
              /\ pc' = [pc EXCEPT ![p] = FirstStep(c, disk)[1]]
              /\ rec' = [rec EXCEPT ![p] = FirstStep(c, disk)[2]]
              /\ UNCHANGED answered
  <2> DEFINE stage == FirstStep(c, disk)[1]
             r == FirstStep(c, disk)[2]
  <2>1. stage \in PC \ {"idle"} /\ Fit(stage, c, r)
    BY <1>3, FirstStepFits DEF Inv
  <2>2. r \in Session \cup {None}
    BY <2>1 DEF Fit
  <2>3. LocalInv'
    <3>1. ASSUME NEW q \in Process PROVE Fit(pc'[q], cmd'[q], rec'[q])
      <4>1. CASE q = p
        BY <1>3, <2>1, <4>1 DEF Inv, LocalInv
      <4>2. CASE q # p
        BY <1>3, <4>2 DEF Inv, LocalInv
      <4> QED BY <4>1, <4>2
    <3> HIDE DEF stage, r
    <3>2. pc' \in [Process -> PC] /\ cmd' \in [Process -> Command \cup {None}]
          /\ rec' \in [Process -> Session \cup {None}]
      BY <1>3, <2>1, <2>2 DEF Inv, LocalInv, stage, r
    <3> QED BY <3>1, <3>2 DEF LocalInv
  <2>4. RestInv'
    BY <1>3 DEF Begin, Inv, RestInv
  <2> QED BY <1>1, <2>3, <2>4 DEF Inv
<1> QED BY <1>2, <1>3 DEF Begin

LEMMA BuildProfileKeeps ==
  ASSUME Inv, NEW p \in Process, BuildProfile(p)
  PROVE  Inv'
<1> DEFINE r == [rec[p] EXCEPT !.diagnosed = TRUE, !.waiting = None]
           built == [r EXCEPT !.profile = profiles + 1]
<1>1. rec[p] \in Session /\ Sound(rec[p]) /\ rec[p].profile = 0 /\ cmd[p] \in Command
  BY DEF BuildProfile, Inv, LocalInv, Fit
<1>2. r \in Session /\ Sound(r) /\ r.profile = 0 /\ r.roleC = None /\ r.node = 0
      /\ r.feedback # "advance" /\ r.waiting = None
  <2>1. rec[p].roleC = None /\ rec[p].node = 0 /\ rec[p].feedback # "advance"
    BY <1>1 DEF Session, Sound, Round
  <2>2. r \in Session
    BY <1>1 DEF Session, Waiting
  <2>3. r.profile = 0 /\ r.roleC = None /\ r.node = 0 /\ r.feedback # "advance"
        /\ r.waiting = None
    BY <1>1, <2>1 DEF Session
  <2>4. Sound(r)
    BY <2>3 DEF Sound
  <2> QED BY <2>2, <2>3, <2>4
<1>3. TaskInv' /\ RoleCInv' /\ faults' = faults
  BY DEF BuildProfile, Inv, TaskInv, RoleCInv, roleC, TaskFit, Sound
<1> HIDE DEF r
<1>4. ASSUME NEW s \in {"blocked", "failed"}, UNCHANGED profiles,
             Continue(p, "save", [r EXCEPT !.status = s])
      PROVE  Inv'
  <2>1. [r EXCEPT !.status = s] \in Session /\ Sound([r EXCEPT !.status = s])
    BY <1>2 DEF Session, Status, Sound
  <2>2. Fit("save", cmd[p], [r EXCEPT !.status = s])
    BY <1>1, <2>1 DEF Fit
  <2>3. LocalInv'
    BY <1>4, <2>2, ContinueKeeps DEF Inv, PC
  <2> QED BY <1>3, <1>4, <2>3, ContinueFrame DEF Inv, DiskInv, RestInv, Sound
<1>5. ASSUME profiles < MaxProfiles, profiles' = profiles + 1,
             Continue(p, "generate", [built EXCEPT !.node = 1])
             \/ Continue(p, "save", [built EXCEPT !.status = "completed"])
      PROVE  Inv'
  <2>1. profiles + 1 \in 0..MaxProfiles /\ profiles + 1 # 0
    BY <1>5 DEF Inv, RestInv
  <2>2. built \in Session /\ built.profile # 0 /\ built.roleC = None /\ built.node = 0
        /\ built.waiting = None
    BY <1>2, <2>1 DEF Session
  <2> HIDE DEF built
  <2>3. [built EXCEPT !.node = 1] \in Session /\ Sound([built EXCEPT !.node = 1])
    BY <2>2 DEF Session, Sound
  <2>4. [built EXCEPT !.status = "completed"] \in Session
        /\ Sound([built EXCEPT !.status = "completed"])
    BY <2>2 DEF Session, Status, Sound
  <2>5. Fit("generate", cmd[p], [built EXCEPT !.node = 1])
    BY <1>1, <2>2, <2>3 DEF Fit, Session
  <2>6. Fit("save", cmd[p], [built EXCEPT !.status = "completed"])
    BY <1>1, <2>4 DEF Fit
  <2>7. LocalInv'
    BY <1>5, <2>5, <2>6, ContinueKeeps DEF Inv, PC
  <2> QED BY <1>3, <1>5, <2>1, <2>7, ContinueFrame DEF Inv, DiskInv, RestInv, Sound
<1> QED BY <1>4, <1>5 DEF BuildProfile, r

LEMMA GenerateKeeps ==
  ASSUME Inv, NEW p \in Process, Generate(p)
  PROVE  Inv'
<1> DEFINE r == rec[p]
<1>1. r \in Session /\ Sound(r) /\ r.profile # 0 /\ r.node # 0 /\ cmd[p] \in Command
  BY DEF Generate, Inv, LocalInv, Fit
<1>2. TaskInv' /\ UNCHANGED <<profiles, faults>>
  BY DEF Generate, Inv, TaskInv
<1>3. RoleCInv'
  BY DEF Generate, Inv, RoleCInv, roleC
<1>4. PICK x : /\ Continue(p, "save", x)
               /\ \/ \E a \in BOOLEAN : x = Applied(r, a)
                  \/ x = [Block(r) EXCEPT !.waiting = None]
  BY DEF Generate
<1>5. x \in Session /\ Sound(x)
  BY <1>1, <1>4, AppliedSound, BlockSound
<1>6. Fit("save", cmd[p], x)
  BY <1>1, <1>5 DEF Fit
<1>7. LocalInv'
  BY <1>4, <1>6, ContinueKeeps DEF Inv, PC
<1> QED BY <1>2, <1>3, <1>4, <1>7, ContinueFrame DEF Inv, DiskInv, RestInv, Sound

(* A record at a waiting point has content, and blocking it keeps it sound. *)
LEMMA WaitingRecord ==
  ASSUME Inv, NEW p \in Process, pc[p] \in {"anchor", "submit", "grade"}
  PROVE  /\ rec[p] \in Session /\ Sound(rec[p]) /\ cmd[p] \in Command
         /\ rec[p].status = "waiting_for_user"
         /\ rec[p].waiting \in {"anchor", "assessment"}
         /\ rec[p].roleC \in Round /\ rec[p].node # 0 /\ rec[p].profile # 0
         /\ Fit("save", cmd[p], Block(rec[p]))
<1>1. /\ rec[p] \in Session /\ Sound(rec[p]) /\ cmd[p] \in Command
      /\ rec[p].status = "waiting_for_user"
      /\ rec[p].waiting \in {"anchor", "assessment"}
  BY DEF Inv, LocalInv, Fit
<1>2. rec[p].roleC \in Round /\ rec[p].roleC.node = rec[p].node
  BY <1>1 DEF Sound, Session
<1>3. rec[p].node # 0 /\ rec[p].profile # 0
  BY <1>1, <1>2 DEF Sound, Round
<1>4. Block(rec[p]) \in Session /\ Sound(Block(rec[p]))
  BY <1>1, <1>3, BlockSound
<1> QED BY <1>1, <1>2, <1>3, <1>4 DEF Fit

LEMMA RouteAnchorsKeeps ==
  ASSUME Inv, NEW p \in Process, RouteAnchors(p)
  PROVE  Inv'
<1> DEFINE r == rec[p]
           wanted == [run |-> r.roleC.run, answers |-> cmd[p].answers, id |-> cmd[p].id]
           locked == [r EXCEPT !.phase = "ROUTE_LOCKED", !.anchors = cmd[p].answers,
                               !.waiting = "assessment"]
<1>1. r \in Session /\ Sound(r) /\ cmd[p] \in Command /\ r.status = "waiting_for_user"
      /\ r.waiting \in {"anchor", "assessment"}
      /\ r.roleC \in Round /\ Fit("save", cmd[p], Block(r))
  BY WaitingRecord DEF RouteAnchors
<1>2. TaskInv' /\ UNCHANGED <<profiles, faults>>
  BY DEF RouteAnchors, Inv, TaskInv
<1>3. wanted \in [run : RunIds, answers : Answers, id : CommandIds]
  BY <1>1 DEF Round, Answers, CommandIds
<1>4. RoleCInv'
  <2> HIDE DEF wanted
  <2>1. routed' = routed \cup {wanted} \/ routed' = routed
    BY DEF RouteAnchors, wanted
  <2> QED BY <1>3, <2>1 DEF RouteAnchors, Inv, RoleCInv
<1>5. Fit("save", cmd[p], locked)
  <2>1. cmd[p].answers \in Answers
    BY <1>1 DEF Answers
  <2>2. locked \in Session
    BY <1>1, <2>1 DEF Session, Waiting
  <2>3. Sound(locked)
    BY <1>1 DEF Session, Sound
  <2> QED BY <1>1, <2>2, <2>3 DEF Fit
<1>6. Continue(p, "save", locked) \/ Continue(p, "save", Block(r))
  BY DEF RouteAnchors
<1>7. LocalInv'
  BY <1>1, <1>5, <1>6, ContinueKeeps DEF Inv, PC
<1> QED BY <1>2, <1>4, <1>6, <1>7, ContinueFrame DEF Inv, DiskInv, RestInv, Sound

LEMMA SubmissionTyped ==
  ASSUME Inv, NEW p \in Process, pc[p] \in {"submit", "grade"}
  PROVE  SubmissionId(p) \in Submission
<1>1. rec[p] \in Session /\ cmd[p] \in Command
  BY WaitingRecord
<1> QED BY <1>1 DEF SubmissionId, Submission, CommandIds, Session

LEMMA SubmitKeeps ==
  ASSUME Inv, NEW p \in Process, Submit(p)
  PROVE  Inv'
<1> DEFINE r == rec[p]
           entry == [run |-> r.roleC.run, sub |-> SubmissionId(p)]
<1>1. r \in Session /\ Sound(r) /\ cmd[p] \in Command /\ r.status = "waiting_for_user"
      /\ r.waiting \in {"anchor", "assessment"}
      /\ r.roleC \in Round /\ Fit("save", cmd[p], Block(r))
  BY WaitingRecord DEF Submit
<1>2. TaskInv' /\ UNCHANGED <<profiles, faults>>
  BY DEF Submit, Inv, TaskInv
<1>3. entry \in [run : RunIds, sub : Submission]
  BY <1>1, SubmissionTyped DEF Round, Submit
<1>4. RoleCInv'
  <2> HIDE DEF entry
  <2>1. active' = active \cup {entry} \/ active' = active
    BY DEF Submit, entry
  <2> QED BY <1>3, <2>1 DEF Submit, Inv, RoleCInv
<1>5. Fit("grade", cmd[p], r)
  BY <1>1 DEF Fit
<1>6. Continue(p, "grade", r) \/ Continue(p, "save", Block(r))
  BY DEF Submit
<1>7. LocalInv'
  BY <1>1, <1>5, <1>6, ContinueKeeps DEF Inv, PC
<1> QED BY <1>2, <1>4, <1>6, <1>7, ContinueFrame DEF Inv, DiskInv, RestInv, Sound

LEMMA GradeKeeps ==
  ASSUME Inv, NEW p \in Process, Grade(p)
  PROVE  Inv'
<1> DEFINE r == rec[p]
           mine(x) == x.run = r.roleC.run /\ x.sub = SubmissionId(p)
           earlier == {x.decision : x \in {y \in graded : mine(y)}}
           entry(d) == [run |-> r.roleC.run, sub |-> SubmissionId(p),
                        profile |-> r.profile, decision |-> d]
           task == [owner |-> p, copy |-> None, stage |-> "load"]
<1>1. r \in Session /\ Sound(r) /\ cmd[p] \in Command /\ r.status = "waiting_for_user"
      /\ r.waiting \in {"anchor", "assessment"} /\ r.profile # 0
      /\ r.roleC \in Round /\ Fit("save", cmd[p], Block(r))
  BY WaitingRecord DEF Grade
<1>2. UNCHANGED <<routed, profiles, faults>> /\ active' \subseteq active
  BY DEF Grade
<1>3. CASE Continue(p, "save", Block(r)) /\ UNCHANGED <<graded, tasks>>
  <2>1. LocalInv'
    BY <1>1, <1>3, ContinueKeeps DEF Inv, PC
  <2> QED BY <1>2, <1>3, <2>1, ContinueFrame
          DEF Inv, DiskInv, TaskInv, RoleCInv, RestInv, Sound, TaskFit
<1>4. ASSUME NEW d \in Decisions, WithinBounds(r, d), graded' = graded \cup {entry(d)},
             Continue(p, "save", AfterDecision(r, d)),
             tasks' = tasks \cup {task} \/ tasks' = tasks
      PROVE  Inv'
  <2>1. entry(d) \in [run : RunIds, sub : Submission, profile : 1..MaxProfiles,
                       decision : Decisions]
    BY <1>1, SubmissionTyped DEF Round, Session, Grade
  <2>2. RoleCInv'
    <3> HIDE DEF entry
    <3> QED BY <1>2, <1>4, <2>1 DEF Inv, RoleCInv
  <2>3. Fit("save", cmd[p], AfterDecision(r, d))
    BY <1>1, <1>4, DecisionSound DEF Fit
  <2>4. LocalInv'
    BY <1>4, <2>3, ContinueKeeps DEF Inv, PC
  <2>5. task \in Task /\ TaskFit(task)
    BY DEF Task, TaskFit
  <2>6. TaskInv'
    <3> HIDE DEF task
    <3> QED BY <1>4, <2>5 DEF Inv, TaskInv
  <2> QED BY <1>2, <1>4, <2>2, <2>4, <2>6, ContinueFrame DEF Inv, DiskInv, RestInv, Sound
<1>5. earlier \subseteq Decisions
  BY DEF Inv, RoleCInv
<1> QED
  <2> HIDE DEF r, mine, earlier, entry, task
  <2>1. \/ Continue(p, "save", Block(r)) /\ UNCHANGED <<graded, tasks>>
        \/ \E d \in IF earlier = {} THEN Decisions ELSE earlier :
             /\ WithinBounds(r, d) /\ graded' = graded \cup {entry(d)}
             /\ Continue(p, "save", AfterDecision(r, d))
             /\ tasks' = IF AfterDecision(r, d).status = "running"
                           THEN tasks \cup {task} ELSE tasks
    BY DEF Grade, r, mine, earlier, entry, task
  <2> QED BY <1>3, <1>4, <1>5, <2>1

LEMMA SaveKeeps ==
  ASSUME Inv, NEW p \in Process, Save(p)
  PROVE  Inv'
<1> DEFINE r == rec[p]
           entry == [command |-> cmd[p], response |-> ResponseOf(r)]
           saved == [r EXCEPT !.processed[cmd[p].id] = entry]
<1>1. r \in Session /\ Sound(r) /\ cmd[p] \in Command
  BY DEF Save, Inv, LocalInv, Fit
<1>2. entry \in [command : Command, response : Response] /\ cmd[p].id \in CommandIds
  BY <1>1, ResponseTyped DEF CommandIds
<1>3. saved \in Session /\ Sound(saved)
  <2> HIDE DEF entry
  <2>1. saved \in Session
    BY <1>1, <1>2 DEF Session
  <2>2. Sound(saved)
    BY <1>1 DEF Session, Sound
  <2> QED BY <2>1, <2>2
<1>4. DiskInv'
  BY <1>3 DEF Save, DiskInv
<1>5. LocalInv'
  <2>1. ASSUME NEW q \in Process PROVE Fit(pc'[q], cmd'[q], rec'[q])
    <3>1. CASE q = p
      BY <1>1, <3>1 DEF Save, Inv, LocalInv, Fit
    <3>2. CASE q # p
      BY <3>2 DEF Save, Inv, LocalInv
    <3> QED BY <3>1, <3>2
  <2> QED BY <2>1 DEF Save, Inv, LocalInv, PC
<1> QED BY <1>4, <1>5 DEF Save, Inv, TaskInv, TaskFit, Sound, RoleCInv, RestInv, roleC

LEMMA ThrowKeeps ==
  ASSUME Inv, NEW p \in Process, Throw(p)
  PROVE  Inv'
<1>1. faults' \in 0..MaxFaults
  BY DEF Throw, Fault, Inv, RestInv
<1>2. LocalInv'
  <2>1. pc[p] # "idle"
    BY DEF Throw
  <2>2. ASSUME NEW q \in Process PROVE Fit(pc'[q], cmd'[q], rec'[q])
    <3>1. CASE q = p
      BY <2>1, <3>1 DEF Throw, Inv, LocalInv, Fit
    <3>2. CASE q # p
      BY <3>2 DEF Throw, Inv, LocalInv
    <3> QED BY <3>1, <3>2
  <2> QED BY <2>2 DEF Throw, Inv, LocalInv, PC
<1> QED BY <1>1, <1>2 DEF Throw, Inv, DiskInv, TaskInv, TaskFit, Sound, RoleCInv, RestInv, roleC

LEMMA ReleaseKeeps ==
  ASSUME Inv, NEW p \in Process, Release(p)
  PROVE  Inv'
<1>1. cmd[p] \in Command \cup {None} /\ rec[p] \in Session
  BY DEF Release, Inv, LocalInv, Fit
<1>2. answered' \subseteq [id : CommandIds, response : Response]
  <2>1. CASE cmd[p] = None
    BY <2>1 DEF Release, Inv, RestInv
  <2>2. CASE cmd[p] # None
    <3>1. [id |-> cmd[p].id, response |-> ResponseOf(rec[p])]
            \in [id : CommandIds, response : Response]
      BY <1>1, <2>2, ResponseTyped DEF CommandIds
    <3> QED BY <2>2, <3>1 DEF Release, Inv, RestInv
  <2> QED BY <2>1, <2>2
<1>3. LocalInv'
  <2>1. ASSUME NEW q \in Process PROVE Fit(pc'[q], cmd'[q], rec'[q])
    <3>1. CASE q = p
      BY <3>1 DEF Release, Inv, LocalInv, Fit
    <3>2. CASE q # p
      BY <3>2 DEF Release, Inv, LocalInv
    <3> QED BY <3>1, <3>2
  <2> QED BY <2>1 DEF Release, Inv, LocalInv, PC
<1>4. RestInv'
  BY <1>2 DEF Release, Inv, RestInv
<1> QED BY <1>3, <1>4 DEF Release, Inv, DiskInv, TaskInv, TaskFit, Sound, RoleCInv, roleC

LEMMA CrashKeeps ==
  ASSUME Inv, NEW p \in Process, Crash(p)
  PROVE  Inv'
<1>1. RestInv'
  BY DEF Crash, Fault, Inv, RestInv
<1>2. LocalInv'
  <2>1. ASSUME NEW q \in Process PROVE Fit(pc'[q], cmd'[q], rec'[q])
    <3>1. CASE q = p
      BY <3>1 DEF Crash, Inv, LocalInv, Fit
    <3>2. CASE q # p
      BY <3>2 DEF Crash, Inv, LocalInv
    <3> QED BY <3>1, <3>2
  <2> QED BY <2>1 DEF Crash, Inv, LocalInv, PC
<1>3. TaskInv'
  BY DEF Crash, Inv, TaskInv, TaskFit, Sound
<1> QED BY <1>1, <1>2, <1>3 DEF Crash, Inv, DiskInv, Sound, RoleCInv, roleC

LEMMA CommandStepKeeps ==
  ASSUME Inv, NEW p \in Process, CommandStep(p)
  PROVE  Inv'
BY BuildProfileKeeps, GenerateKeeps, RouteAnchorsKeeps, SubmitKeeps, GradeKeeps,
   SaveKeeps, ThrowKeeps, ReleaseKeeps DEF CommandStep

-----------------------------------------------------------------------------
(* The steps of a background task.                                         *)

LEMMA MoveKeeps ==
  ASSUME TaskInv, NEW t \in tasks, NEW stage, NEW copy, Move(t, stage, copy),
         [owner |-> t.owner, stage |-> stage, copy |-> copy] \in Task,
         TaskFit([owner |-> t.owner, stage |-> stage, copy |-> copy])
  PROVE  TaskInv'
<1> DEFINE u == [owner |-> t.owner, stage |-> stage, copy |-> copy]
<1>1. tasks' = (tasks \ {t}) \cup {u} /\ u \in Task /\ TaskFit(u)
  BY DEF Move
<1> HIDE DEF u
<1> QED BY <1>1 DEF TaskInv

LEMMA FailKeeps ==
  ASSUME TaskInv, NEW t \in tasks, Move(t, "fail", None)
  PROVE  TaskInv'
<1> DEFINE u == [owner |-> t.owner, stage |-> "fail", copy |-> None]
<1>1. u \in Task /\ TaskFit(u)
  BY DEF TaskInv, Task, TaskFit
<1> QED BY <1>1, MoveKeeps

LEMMA EndKeeps ==
  ASSUME TaskInv, NEW t \in tasks, End(t)
  PROVE  TaskInv'
BY DEF TaskInv, End

(* A task that moves on to a stage with a sound copy.                      *)
LEMMA MoveWithCopyKeeps ==
  ASSUME TaskInv, NEW t \in tasks,
         NEW stage \in {"generate", "check", "store", "store_failed"},
         NEW copy \in Session, Sound(copy), stage = "generate" => copy.node # 0,
         Move(t, stage, copy)
  PROVE  TaskInv'
<1> DEFINE u == [owner |-> t.owner, stage |-> stage, copy |-> copy]
<1>1. u \in Task
  BY DEF TaskInv, Task
<1>2. TaskFit(u)
  BY DEF TaskFit
<1> HIDE DEF u
<1> QED BY <1>1, <1>2, MoveKeeps DEF u

(* What a step of a task leaves alone.                                     *)
LEMMA ElsewhereFrame ==
  ASSUME Inv, UNCHANGED Elsewhere, faults' \in 0..MaxFaults, RoleCInv',
         DiskInv', TaskInv'
  PROVE  Inv'
<1>1. LocalInv'
  BY DEF Inv, LocalInv, Elsewhere
<1>2. RestInv'
  BY DEF Inv, RestInv, Elsewhere
<1> QED BY <1>1, <1>2 DEF Inv

LEMMA TaskStepKeeps ==
  ASSUME Inv, NEW t \in tasks, TaskStep(t)
  PROVE  Inv'
<1>0. /\ disk \in Session /\ Sound(disk) /\ TaskInv /\ RoleCInv
      /\ t \in Task /\ TaskFit(t) /\ faults \in 0..MaxFaults
  BY DEF Inv, DiskInv, TaskInv, RestInv
<1>1. CASE TaskLoad(t)
  <2>1. Move(t, "fail", None) \/ (disk.node # 0 /\ Move(t, "generate", disk))
    BY <1>1 DEF TaskLoad
  <2>2. TaskInv'
    BY <1>0, <2>1, FailKeeps, MoveWithCopyKeeps
  <2>3. RoleCInv' /\ DiskInv' /\ UNCHANGED <<Elsewhere, faults>>
    BY <1>0, <1>1 DEF TaskLoad, RoleCInv, Elsewhere, DiskInv
  <2> QED BY <1>0, <2>2, <2>3, ElsewhereFrame
<1>2. CASE TaskGenerate(t)
  <2>1. t.copy \in Session /\ Sound(t.copy) /\ t.copy.node # 0 /\ t.copy.profile # 0
    BY <1>0, <1>2 DEF TaskGenerate, TaskFit, Sound
  <2>2. \/ /\ \/ \E a \in BOOLEAN : Move(t, "check", Applied(t.copy, a))
              \/ Move(t, "check", Block(t.copy))
           /\ UNCHANGED faults
        \/ Move(t, "fail", None) /\ Fault("throw")
    BY <1>2 DEF TaskGenerate
  <2>3. TaskInv'
    BY <1>0, <2>1, <2>2, FailKeeps, MoveWithCopyKeeps, AppliedSound, BlockSound
  <2>4. RoleCInv'
    BY <1>0, <1>2 DEF TaskGenerate, Elsewhere, RoleCInv
  <2>5. DiskInv' /\ UNCHANGED Elsewhere
    BY <1>0, <1>2 DEF TaskGenerate, DiskInv
  <2>6. faults' \in 0..MaxFaults
    BY <1>0, <2>2 DEF Fault
  <2> QED BY <2>3, <2>4, <2>5, <2>6, ElsewhereFrame
<1>3. CASE TaskCheck(t)
  <2>1. t.copy \in Session /\ Sound(t.copy)
    BY <1>0, <1>3 DEF TaskCheck, TaskFit
  <2>2. Move(t, "store", t.copy) \/ End(t)
    BY <1>3 DEF TaskCheck
  <2>3. TaskInv'
    BY <1>0, <2>1, <2>2, EndKeeps, MoveWithCopyKeeps
  <2>4. RoleCInv' /\ DiskInv' /\ UNCHANGED <<Elsewhere, faults>>
    BY <1>0, <1>3 DEF TaskCheck, RoleCInv, Elsewhere, DiskInv
  <2> QED BY <1>0, <2>3, <2>4, ElsewhereFrame
<1>4. CASE TaskStore(t)
  <2>1. t.copy \in Session /\ Sound(t.copy)
    BY <1>0, <1>4 DEF TaskStore, TaskFit
  <2>2. \/ disk' = t.copy /\ End(t) /\ UNCHANGED faults
        \/ Move(t, "fail", None) /\ Fault("save") /\ UNCHANGED disk
    BY <1>4 DEF TaskStore
  <2>3. TaskInv'
    BY <1>0, <2>2, EndKeeps, FailKeeps
  <2>4. DiskInv' /\ faults' \in 0..MaxFaults
    BY <1>0, <2>1, <2>2 DEF DiskInv, Fault
  <2>5. RoleCInv' /\ UNCHANGED Elsewhere
    BY <1>0, <1>4 DEF TaskStore, RoleCInv, Elsewhere
  <2> QED BY <2>3, <2>4, <2>5, ElsewhereFrame
<1>5. CASE TaskFail(t)
  <2> DEFINE failed == [disk EXCEPT !.status = "failed"]
  <2>1. (disk.status = "running" /\ Move(t, "store_failed", failed)) \/ End(t)
    BY <1>5 DEF TaskFail
  <2>2. ASSUME disk.status = "running" PROVE failed \in Session /\ Sound(failed)
    BY <1>0, <2>2 DEF Session, Status, Sound
  <2> HIDE DEF failed
  <2>3. TaskInv'
    BY <1>0, <2>1, <2>2, EndKeeps, MoveWithCopyKeeps
  <2>4. RoleCInv' /\ DiskInv' /\ UNCHANGED <<Elsewhere, faults>>
    BY <1>0, <1>5 DEF TaskFail, RoleCInv, Elsewhere, DiskInv
  <2> QED BY <1>0, <2>3, <2>4, ElsewhereFrame
<1>6. CASE TaskStoreFailed(t)
  <2>1. t.copy \in Session /\ Sound(t.copy)
    BY <1>0, <1>6 DEF TaskStoreFailed, TaskFit
  <2>2. TaskInv'
    BY <1>0, <1>6, EndKeeps DEF TaskStoreFailed
  <2>3. DiskInv' /\ faults' \in 0..MaxFaults
    BY <1>0, <1>6, <2>1 DEF TaskStoreFailed, DiskInv, Fault
  <2>4. RoleCInv' /\ UNCHANGED Elsewhere
    BY <1>0, <1>6 DEF TaskStoreFailed, RoleCInv, Elsewhere
  <2> QED BY <2>2, <2>3, <2>4, ElsewhereFrame
<1> QED BY <1>1, <1>2, <1>3, <1>4, <1>5, <1>6 DEF TaskStep

-----------------------------------------------------------------------------
LEMMA UnlockKeeps ==
  ASSUME Inv, Unlock
  PROVE  Inv'
<1>1. LocalInv' /\ RestInv'
  BY DEF Unlock, Inv, LocalInv, RestInv
<1> QED BY <1>1 DEF Unlock, Inv, DiskInv, TaskInv, RoleCInv, roleC

LEMMA StutterKeeps ==
  ASSUME Inv, UNCHANGED vars
  PROVE  Inv'
<1>1. LocalInv' /\ RestInv'
  BY DEF vars, Inv, LocalInv, RestInv
<1> QED BY <1>1 DEF vars, Inv, DiskInv, TaskInv, RoleCInv

(* Every record of the session, in the file, in a process or in a          *)
(* background task, is sound, and every stage finds what it relies on      *)
(* (executeCommand, generateNextRoundInBackground).                        *)
THEOREM RecordsStaySound == Spec => []Inv
<1>1. Init => Inv
  <2> SUFFICES ASSUME Init PROVE Inv
    OBVIOUS
  <2>1. DiskInv
    BY NewSound DEF Init, DiskInv
  <2>2. LocalInv
    BY DEF Init, LocalInv, PC, Fit
  <2>3. TaskInv /\ RoleCInv /\ RestInv
    BY DEF Init, TaskInv, RoleCInv, RestInv
  <2> QED BY <2>1, <2>2, <2>3 DEF Inv
<1>2. Inv /\ [Next]_vars => Inv'
  <2> SUFFICES ASSUME Inv, [Next]_vars PROVE Inv'
    OBVIOUS
  <2>1. CASE \E p \in Process : (\E c \in Command : Begin(p, c)) \/ CommandStep(p) \/ Crash(p)
    BY <2>1, BeginKeeps, CommandStepKeeps, CrashKeeps
  <2>2. CASE \E t \in tasks : TaskStep(t)
    BY <2>2, TaskStepKeeps
  <2>3. CASE Unlock
    BY <2>3, UnlockKeeps
  <2>4. CASE UNCHANGED vars
    BY <2>4, StutterKeeps
  <2> QED BY <2>1, <2>2, <2>3, <2>4 DEF Next
<1> QED BY <1>1, <1>2, PTL DEF Spec

(* The state keeps its types, for any processes, commands and bounds.      *)
THEOREM TypesHold == Spec => []TypeOK
<1>1. Inv => TypeOK
  BY DEF Inv, DiskInv, LocalInv, TaskInv, RoleCInv, RestInv, TypeOK
<1> QED BY <1>1, RecordsStaySound, PTL

(* The learner is never asked to answer an assessment made for another     *)
(* profile or another path node, whatever commands, retries, background    *)
(* generations and faults came before (applyFormalRoleCRound,              *)
(* resetToDiagnosisPhase, retryInteractiveSession).                        *)
THEOREM AssessmentAlwaysFits == Spec => []AssessmentFits
<1>1. Inv => AssessmentFits
  BY DEF Inv, DiskInv, Sound, AssessmentFits
<1> QED BY <1>1, RecordsStaySound, PTL

-----------------------------------------------------------------------------
(* The anchor answers: a record that says the route of its run is locked   *)
(* holds the answers Role C froze, wherever the record is.                 *)

Locked(r, routes) ==
  r.phase = "ROUTE_LOCKED" =>
    \E x \in routes : x.run = r.roleC.run /\ x.answers = r.anchors

RoutesInv ==
  /\ Locked(disk, routed)
  /\ \A p \in Process : pc[p] # "idle" => Locked(rec[p], routed)
  /\ \A t \in tasks : t.stage \notin {"load", "fail"} => Locked(t.copy, routed)

LEMMA LockedGrows ==
  ASSUME NEW r, NEW R, NEW S, R \subseteq S, Locked(r, R)
  PROVE  Locked(r, S)
BY DEF Locked

LEMMA LockedRecords ==
  ASSUME NEW r \in Session, NEW R
  PROVE  /\ \A a \in BOOLEAN : Locked(Applied(r, a), R)
         /\ Locked(Reset(r), R)
         /\ Locked(r, R) =>
              /\ Locked(Block(r), R)
              /\ Locked([Block(r) EXCEPT !.waiting = None], R)
              /\ Locked([r EXCEPT !.status = "failed"], R)
              /\ \A d \in Decisions : Locked(AfterDecision(r, d), R)
              /\ \A i, x : Locked([r EXCEPT !.processed[i] = x], R)
<1>1. ASSUME NEW a \in BOOLEAN PROVE Applied(r, a).phase # "ROUTE_LOCKED"
  BY DEF Applied, Session
<1>2. Reset(r).phase # "ROUTE_LOCKED"
  BY DEF Reset, NewSession
<1>3. /\ Block(r).phase = r.phase /\ Block(r).roleC = r.roleC
      /\ Block(r).anchors = r.anchors
  BY DEF Block, Session
<1>4. LET b == [Block(r) EXCEPT !.waiting = None] IN
      b.phase = r.phase /\ b.roleC = r.roleC /\ b.anchors = r.anchors
  BY DEF Block, Session
<1>5. LET b == [r EXCEPT !.status = "failed"] IN
      b.phase = r.phase /\ b.roleC = r.roleC /\ b.anchors = r.anchors
  BY DEF Session
<1>6. ASSUME NEW d \in Decisions, d # "reprofile"
      PROVE  LET b == AfterDecision(r, d) IN
             b.phase = r.phase /\ b.roleC = r.roleC /\ b.anchors = r.anchors
  BY <1>6 DEF AfterDecision, Session
<1>7. AfterDecision(r, "reprofile") = Reset(r)
  BY DEF AfterDecision
<1>8. ASSUME NEW i, NEW x
      PROVE  LET b == [r EXCEPT !.processed[i] = x] IN
             b.phase = r.phase /\ b.roleC = r.roleC /\ b.anchors = r.anchors
  BY DEF Session
<1> QED BY <1>1, <1>2, <1>3, <1>4, <1>5, <1>6, <1>7, <1>8 DEF Locked

(* What a command starts with has the route of the session, or none.       *)
LEMMA FirstStepLocked ==
  ASSUME NEW c \in Command, DiskInv, NEW R, Locked(disk, R)
  PROVE  Locked(FirstStep(c, disk)[2], R)
<1> DEFINE r == disk
           again == [r EXCEPT !.attempt = @ + 1]
           clean == [again EXCEPT !.phase = None, !.anchors = None]
           waits == [r EXCEPT !.status = "waiting_for_user",
                              !.waiting = IF r.phase = "ANCHOR_PENDING"
                                            THEN "anchor" ELSE "assessment"]
<1>1. r \in Session /\ c.type \in CommandTypes
  BY CommandAssumption DEF DiskInv
<1>2. again.phase = r.phase /\ again.roleC = r.roleC /\ again.anchors = r.anchors
  BY <1>1 DEF Session
<1>3. clean.phase = None
  BY <1>1 DEF Session
<1>4. waits.phase = r.phase /\ waits.roleC = r.roleC /\ waits.anchors = r.anchors
  BY <1>1 DEF Session
<1>5. FirstStep(c, r)[2] \in {r, again, clean, waits}
  <2>1. Retried(r)[2] \in {r, again, clean, waits}
    BY DEF Retried
  <2> HIDE DEF r, again, clean, waits
  <2> QED BY <1>1, <2>1 DEF FirstStep, CommandTypes
<1> HIDE DEF again, clean, waits
<1> QED BY <1>2, <1>3, <1>4, <1>5 DEF Locked

LEMMA RoutesStep ==
  ASSUME RoutesInv, routed \subseteq routed', Locked(disk', routed'),
         \A p \in Process : pc'[p] # "idle" =>
           \/ Locked(rec'[p], routed')
           \/ pc[p] # "idle" /\ rec'[p] = rec[p],
         \A t \in tasks' : \/ t \in tasks
                           \/ t.stage \in {"load", "fail"}
                           \/ Locked(t.copy, routed')
  PROVE  RoutesInv'
<1>1. ASSUME NEW p \in Process, pc'[p] # "idle" PROVE Locked(rec'[p], routed')
  BY <1>1, LockedGrows DEF RoutesInv
<1>2. ASSUME NEW t \in tasks', t.stage \notin {"load", "fail"}
      PROVE  Locked(t.copy, routed')
  BY <1>2, LockedGrows DEF RoutesInv
<1> QED BY <1>1, <1>2 DEF RoutesInv

LEMMA ContinueRoutes ==
  ASSUME Inv, RoutesInv, NEW p \in Process, NEW stage, NEW r,
         Continue(p, stage, r), routed \subseteq routed', Locked(r, routed'),
         \A t \in tasks' : t \in tasks \/ t.stage = "load"
  PROVE  RoutesInv'
<1>1. /\ disk' = disk /\ rec'[p] = r
      /\ \A q \in Process : q # p => pc'[q] = pc[q] /\ rec'[q] = rec[q]
  BY DEF Continue, Inv, LocalInv
<1>2. Locked(disk', routed')
  BY <1>1, LockedGrows DEF RoutesInv
<1> QED BY <1>1, <1>2, RoutesStep

LEMMA CommandRoutes ==
  ASSUME Inv, RoutesInv, NEW p \in Process, CommandStep(p)
  PROVE  RoutesInv'
<1>1. rec[p] \in Session /\ Locked(rec[p], routed)
  <2>1. pc[p] # "idle"
    BY DEF CommandStep, BuildProfile, Generate, RouteAnchors, Submit, Grade, Save,
           Throw, Release
  <2> QED BY <2>1 DEF Inv, LocalInv, Fit, RoutesInv
<1>2. CASE BuildProfile(p)
  <2> DEFINE r == [rec[p] EXCEPT !.diagnosed = TRUE, !.waiting = None]
             built == [r EXCEPT !.profile = profiles + 1]
  <2>1. /\ r.phase = rec[p].phase /\ r.roleC = rec[p].roleC /\ r.anchors = rec[p].anchors
        /\ r \in Session
    BY <1>1 DEF Session, Waiting
  <2> HIDE DEF r
  <2>2. \A s : Locked([r EXCEPT !.status = s], routed)
    BY <1>1, <2>1 DEF Session, Locked
  <2>3. /\ Locked([built EXCEPT !.node = 1], routed)
        /\ Locked([built EXCEPT !.status = "completed"], routed)
    BY <1>1, <2>1 DEF Session, Locked
  <2>4. routed' = routed /\ tasks' = tasks
    BY <1>2 DEF BuildProfile, roleC
  <2>5. \/ \E s \in {"blocked", "failed"} : Continue(p, "save", [r EXCEPT !.status = s])
        \/ Continue(p, "generate", [built EXCEPT !.node = 1])
        \/ Continue(p, "save", [built EXCEPT !.status = "completed"])
    BY <1>2 DEF BuildProfile, r
  <2> HIDE DEF built
  <2> QED BY <2>2, <2>3, <2>4, <2>5, ContinueRoutes
<1>3. CASE Generate(p)
  <2>1. routed' = routed /\ tasks' = tasks
    BY <1>3 DEF Generate, roleC
  <2>2. \/ \E a \in BOOLEAN : Continue(p, "save", Applied(rec[p], a))
        \/ Continue(p, "save", [Block(rec[p]) EXCEPT !.waiting = None])
    BY <1>3 DEF Generate
  <2> QED BY <1>1, <2>1, <2>2, LockedRecords, ContinueRoutes
<1>4. CASE RouteAnchors(p)
  <2> DEFINE r == rec[p]
             wanted == [run |-> r.roleC.run, answers |-> cmd[p].answers, id |-> cmd[p].id]
             locked == [r EXCEPT !.phase = "ROUTE_LOCKED", !.anchors = cmd[p].answers,
                                 !.waiting = "assessment"]
  <2>1. tasks' = tasks
    BY <1>4 DEF RouteAnchors
  <2>2. CASE routed' = routed \cup {wanted} /\ Continue(p, "save", locked)
    <3>1. locked.roleC = r.roleC /\ locked.anchors = cmd[p].answers
      BY <1>1 DEF Session
    <3>2. wanted.run = r.roleC.run /\ wanted.answers = cmd[p].answers
      OBVIOUS
    <3>3. Locked(locked, routed \cup {wanted})
      <4> HIDE DEF locked, wanted
      <4> QED BY <3>1, <3>2 DEF Locked
    <3> HIDE DEF locked, wanted
    <3> QED BY <2>1, <2>2, <3>3, ContinueRoutes
  <2>3. CASE routed' = routed /\ Continue(p, "save", Block(r))
    BY <1>1, <2>1, <2>3, LockedRecords, ContinueRoutes
  <2> QED BY <1>4, <2>2, <2>3 DEF RouteAnchors
<1>5. CASE Submit(p)
  <2>1. routed' = routed /\ tasks' = tasks
    BY <1>5 DEF Submit
  <2>2. Continue(p, "grade", rec[p]) \/ Continue(p, "save", Block(rec[p]))
    BY <1>5 DEF Submit
  <2> QED BY <1>1, <2>1, <2>2, LockedRecords, ContinueRoutes
<1>6. CASE Grade(p)
  <2>1. /\ routed' = routed
        /\ \A t \in tasks' : t \in tasks \/ t.stage = "load"
    BY <1>6 DEF Grade
  <2>2. Continue(p, "save", Block(rec[p]))
          \/ \E d \in Decisions : Continue(p, "save", AfterDecision(rec[p], d))
    BY <1>6 DEF Grade, Inv, RoleCInv
  <2> QED BY <1>1, <2>1, <2>2, LockedRecords, ContinueRoutes
<1>7. CASE Save(p) \/ Throw(p) \/ Release(p)
  <2>1. routed' = routed /\ tasks' = tasks
    BY <1>7 DEF Save, Throw, Release, roleC
  <2>2. \A q \in Process : pc'[q] # "idle" => pc[q] # "idle" /\ rec'[q] = rec[q]
    BY <1>7 DEF Save, Throw, Release, Inv, LocalInv
  <2>3. Locked(disk', routed')
    <3>1. CASE disk' = disk
      BY <2>1, <3>1 DEF RoutesInv
    <3>2. CASE Save(p)
      <4>1. disk' = [rec[p] EXCEPT !.processed[cmd[p].id] =
                       [command |-> cmd[p], response |-> ResponseOf(rec[p])]]
        BY <3>2 DEF Save
      <4> QED BY <1>1, <2>1, <4>1, LockedRecords
    <3> QED BY <1>7, <3>1, <3>2 DEF Throw, Release
  <2> QED BY <2>1, <2>2, <2>3, RoutesStep
<1> QED BY <1>2, <1>3, <1>4, <1>5, <1>6, <1>7 DEF CommandStep

LEMMA TaskRoutes ==
  ASSUME Inv, RoutesInv, NEW t \in tasks, TaskStep(t)
  PROVE  RoutesInv'
<1>1. routed' = routed /\ pc' = pc /\ rec' = rec
  BY DEF TaskStep, TaskLoad, TaskGenerate, TaskCheck, TaskStore, TaskFail,
         TaskStoreFailed, Elsewhere
<1>2. /\ disk \in Session /\ Locked(disk, routed) /\ TaskFit(t)
      /\ t.stage \notin {"load", "fail"} => Locked(t.copy, routed)
  BY DEF Inv, DiskInv, TaskInv, RoutesInv
<1>3. ASSUME NEW stage, NEW copy, Move(t, stage, copy), disk' = disk,
             stage = "fail" \/ Locked(copy, routed)
      PROVE  RoutesInv'
  <2> DEFINE u == [owner |-> t.owner, stage |-> stage, copy |-> copy]
  <2>1. tasks' = (tasks \ {t}) \cup {u} /\ u.stage = stage /\ u.copy = copy
    BY <1>3 DEF Move
  <2> HIDE DEF u
  <2> QED BY <1>1, <1>2, <1>3, <2>1, RoutesStep
<1>4. ASSUME End(t), disk' = disk \/ Locked(disk', routed) PROVE RoutesInv'
  BY <1>1, <1>2, <1>4, RoutesStep DEF End
<1>5. CASE TaskLoad(t)
  BY <1>2, <1>3, <1>5 DEF TaskLoad
<1>6. CASE TaskGenerate(t)
  <2>1. /\ disk' = disk /\ t.copy \in Session /\ Locked(t.copy, routed)
        /\ \/ \E a \in BOOLEAN : Move(t, "check", Applied(t.copy, a))
           \/ Move(t, "check", Block(t.copy))
           \/ Move(t, "fail", None)
    BY <1>2, <1>6 DEF TaskGenerate, TaskFit
  <2> QED BY <1>3, <2>1, LockedRecords
<1>7. CASE TaskCheck(t)
  BY <1>2, <1>3, <1>4, <1>7 DEF TaskCheck
<1>8. CASE TaskStore(t) \/ TaskStoreFailed(t)
  <2>1. Locked(t.copy, routed)
    BY <1>2, <1>8 DEF TaskStore, TaskStoreFailed
  <2>2. (End(t) /\ (disk' = t.copy \/ disk' = disk)) \/ (Move(t, "fail", None) /\ disk' = disk)
    BY <1>8 DEF TaskStore, TaskStoreFailed
  <2> QED BY <1>3, <1>4, <2>1, <2>2
<1>9. CASE TaskFail(t)
  <2>1. disk' = disk /\ (Move(t, "store_failed", [disk EXCEPT !.status = "failed"]) \/ End(t))
    BY <1>9 DEF TaskFail
  <2> QED BY <1>2, <1>3, <1>4, <2>1, LockedRecords
<1> QED BY <1>5, <1>6, <1>7, <1>8, <1>9 DEF TaskStep

LEMMA NextRoutes ==
  ASSUME Inv, RoutesInv, [Next]_vars
  PROVE  RoutesInv'
<1>1. ASSUME NEW p \in Process, NEW c \in Command, Begin(p, c) PROVE RoutesInv'
  <2>1. UNCHANGED <<disk, tasks, routed>>
    BY <1>1 DEF Begin, roleC
  <2>2. \A q \in Process :
          \/ pc'[q] = pc[q] /\ rec'[q] = rec[q]
          \/ rec'[q] = FirstStep(c, disk)[2]
    BY <1>1 DEF Begin, Inv, LocalInv
  <2>3. Locked(FirstStep(c, disk)[2], routed) /\ Locked(disk, routed)
    BY FirstStepLocked DEF Inv, RoutesInv
  <2> QED BY <2>1, <2>2, <2>3, RoutesStep
<1>2. ASSUME NEW p \in Process, CommandStep(p) PROVE RoutesInv'
  BY <1>2, CommandRoutes
<1>3. ASSUME NEW p \in Process, Crash(p) PROVE RoutesInv'
  <2>1. UNCHANGED <<disk, routed>> /\ tasks' \subseteq tasks
    BY <1>3 DEF Crash, roleC
  <2>2. \A q \in Process : pc'[q] # "idle" => pc[q] # "idle" /\ rec'[q] = rec[q]
    BY <1>3 DEF Crash, Inv, LocalInv
  <2> QED BY <2>1, <2>2, RoutesStep DEF RoutesInv
<1>4. ASSUME NEW t \in tasks, TaskStep(t) PROVE RoutesInv'
  BY <1>4, TaskRoutes
<1>5. CASE Unlock \/ UNCHANGED vars
  BY <1>5 DEF Unlock, vars, roleC, RoutesInv
<1> QED BY <1>1, <1>2, <1>3, <1>4, <1>5 DEF Next

LEMMA RoutesHold == Spec => []RoutesInv
<1>1. Init => RoutesInv
  BY DEF Init, RoutesInv, Locked, NewSession
<1>2. Inv /\ RoutesInv /\ [Next]_vars => RoutesInv'
  BY NextRoutes
<1> QED BY <1>1, <1>2, RecordsStaySound, PTL DEF Spec

(* The answers merged into a submission are the ones Role C routed: no     *)
(* retry, no late background save and no repeated anchor command leaves a  *)
(* locked route with other answers, whatever fails in between.             *)
THEOREM AnchorsAlwaysAgree == Spec => []AnchorsAgree
<1>1. RoutesInv => AnchorsAgree
  BY DEF RoutesInv, Locked, AnchorsAgree
<1> QED BY <1>1, RoutesHold, PTL

-----------------------------------------------------------------------------
(* One answer per command, and no graded round put back.  Both hold because*)
(* only one record is on its way to the session file at any time: a command*)
(* works alone under the lock, on a session that is not generating, and    *)
(* the background task of a round is the only one that may store while it  *)
(* is.  A save that fails breaks this (a retried command and an earlier    *)
(* task may then work on the same round): the theorems assume none does.   *)

LockInv == \A p \in Process : pc[p] # "idle" => lock = p

Working == {"diagnose", "generate", "anchor", "submit", "grade", "save"}

(* No submission was graded in a later round of the record's profile, and  *)
(* none in its own when it is already generating the next one.             *)
Past(r, gs) ==
  \A g \in gs : g.profile = r.profile =>
    /\ g.sub[1] <= r.round
    /\ r.status = "running" => g.sub[1] < r.round

NewProfile(r, gs) == \A g \in gs : g.profile # r.profile

(* What a command works on, against the session file and the grades.       *)
WorkFit(stage, c, r, d, gs) ==
  /\ d.status \notin {"running", "completed"}
  /\ d.processed[c.id] = None
  /\ r.processed = d.processed
  /\ \/ NewProfile(r, gs)
     \/ r.profile = d.profile /\ r.round >= d.round
  /\ Past(r, gs)
  /\ stage \in {"diagnose", "anchor", "submit", "grade"} => r = d
  /\ r.status = "running" => stage = "save" /\ r.round > d.round

WorkInv(p) ==
  pc[p] \in Working => /\ WorkFit(pc[p], cmd[p], rec[p], disk, graded)
                       /\ rec[p].profile <= profiles

ReleaseInv(p) ==
  pc[p] = "release" /\ cmd[p] # None =>
    /\ disk.processed[cmd[p].id] # None
    /\ disk.processed[cmd[p].id].response = ResponseOf(rec[p])

(* A copy of the round the session is generating.                          *)
Ours(copy, d) ==
  /\ copy.round = d.round /\ copy.profile = d.profile
  /\ copy.processed = d.processed

(* A task works for a grade that is not saved yet, and can store nothing,  *)
(* or for a session that is generating, and stores its round only.         *)
Early(t) ==
  /\ pc[t.owner] = "save" /\ rec[t.owner].status = "running"
  /\ t.stage \notin {"store", "store_failed"}
  /\ t.stage \in {"generate", "check"} => t.copy.round < rec[t.owner].round

InTime(t) ==
  /\ disk.status = "running"
  /\ t.stage \in {"generate", "check"} => t.copy.round < disk.round \/ Ours(t.copy, disk)
  /\ t.stage \in {"store", "store_failed"} => Ours(t.copy, disk)

TasksInv == /\ \A t, u \in tasks : t = u
            /\ \A t \in tasks : Early(t) \/ InTime(t)

AnswerInv ==
  \A a \in answered : /\ disk.processed[a.id] # None
                      /\ disk.processed[a.id].response = a.response

(* A command that answered for a grade of the session's profile has moved  *)
(* the session past that round.                                            *)
GradeFit(gs, d, n) ==
  /\ d.profile <= n
  /\ \A g \in gs : g.profile <= n
  /\ Past(d, gs)
  /\ \A g \in gs :
       (/\ g.profile = d.profile
        /\ d.processed[g.sub[2]] # None
        /\ d.processed[g.sub[2]].response.status \in {"running", "completed"})
       => d.round > g.sub[1] \/ d.status = "completed"

Single == /\ \A p \in Process : WorkInv(p) /\ ReleaseInv(p)
          /\ TasksInv /\ AnswerInv /\ GradeFit(graded, disk, profiles)

LEMMA NextLock ==
  ASSUME Inv, LockInv, [Next]_vars
  PROVE  LockInv'
<1>1. ASSUME NEW p \in Process, NEW c \in Command, Begin(p, c) PROVE LockInv'
  BY <1>1, ProcessAssumption DEF Begin, Inv, LocalInv, LockInv
<1>2. ASSUME NEW p \in Process, CommandStep(p) PROVE LockInv'
  <2>1. \A q \in Process : q # p => pc'[q] = pc[q]
    BY <1>2 DEF CommandStep, BuildProfile, Generate, RouteAnchors, Submit, Grade, Save,
                Throw, Release, Continue, Inv, LocalInv
  <2>2. lock' = lock \/ pc'[p] = "idle"
    BY <1>2 DEF CommandStep, BuildProfile, Generate, RouteAnchors, Submit, Grade, Save,
                Throw, Release, Continue, Inv, LocalInv
  <2>3. pc[p] # "idle"
    BY <1>2 DEF CommandStep, BuildProfile, Generate, RouteAnchors, Submit, Grade, Save,
                Throw, Release
  <2> QED BY <2>1, <2>2, <2>3 DEF LockInv
<1>3. ASSUME NEW p \in Process, Crash(p) PROVE LockInv'
  BY <1>3 DEF Crash, Inv, LocalInv, LockInv
<1>4. ASSUME NEW t \in tasks, TaskStep(t) PROVE LockInv'
  BY <1>4 DEF TaskStep, TaskLoad, TaskGenerate, TaskCheck, TaskStore, TaskFail,
              TaskStoreFailed, Elsewhere, LockInv
<1>5. CASE Unlock
  BY <1>5, ProcessAssumption DEF Unlock, LockInv
<1>6. CASE UNCHANGED vars
  BY <1>6 DEF vars, LockInv
<1> QED BY <1>1, <1>2, <1>3, <1>4, <1>5, <1>6 DEF Next

(* A command that works on its record works alone, and before it saves     *)
(* there is no background task either.                                     *)
LEMMA Alone ==
  ASSUME Inv, LockInv, Single, NEW p \in Process, pc[p] # "idle"
  PROVE  /\ \A q \in Process : q # p => pc[q] = "idle"
         /\ pc[p] \in Working \ {"save"} => tasks = {}
         /\ pc[p] = "save" => \A t \in tasks : t.owner = p /\ Early(t)
<1>1. \A q \in Process : q # p => pc[q] = "idle"
  BY DEF LockInv
<1>2. ASSUME pc[p] \in Working, NEW t \in tasks PROVE t.owner = p /\ Early(t)
  <2>1. disk.status # "running"
    BY <1>2 DEF Single, WorkInv, WorkFit
  <2>2. Early(t) /\ t.owner \in Process
    BY <2>1 DEF Single, TasksInv, InTime, Inv, TaskInv, Task
  <2>3. pc[t.owner] = "save"
    BY <2>2 DEF Early
  <2> QED BY <1>1, <2>2, <2>3
<1>3. pc[p] = "save" => pc[p] \in Working
  BY DEF Working
<1> QED BY <1>1, <1>2, <1>3 DEF Early

(* The same round of the same profile, not generating the next one.        *)
Later(b, r) ==
  /\ b.processed = r.processed /\ b.profile = r.profile /\ b.round = r.round
  /\ b.status # "running"

LEMMA LaterRecords ==
  ASSUME NEW r \in Session
  PROVE  /\ \A a \in BOOLEAN : Later(Applied(r, a), r)
         /\ Later(Block(r), r)
         /\ Later([Block(r) EXCEPT !.waiting = None], r)
         /\ Later([r EXCEPT !.status = "failed"], r)
<1>1. \A a \in BOOLEAN : Later(Applied(r, a), r)
  BY DEF Applied, Session, Later
<1>2. /\ Later(Block(r), r)
      /\ Later([Block(r) EXCEPT !.waiting = None], r)
      /\ Later([r EXCEPT !.status = "failed"], r)
  BY DEF Block, Session, Later
<1> QED BY <1>1, <1>2

LEMMA PastLater ==
  ASSUME NEW b, NEW r, NEW gs, Later(b, r)
  PROVE  /\ Past(r, gs) => Past(b, gs)
         /\ NewProfile(r, gs) => NewProfile(b, gs)
BY DEF Later, Past, NewProfile

(* A command starts with the record of the session, under a new attempt at *)
(* most.                                                                   *)
LEMMA FirstStepLater ==
  ASSUME NEW c \in Command, DiskInv, Allowed(c)
  PROVE  /\ disk.status \notin {"running", "completed"}
         /\ FirstStep(c, disk)[1] \in Working
         /\ Later(FirstStep(c, disk)[2], disk)
         /\ FirstStep(c, disk)[1] \in {"diagnose", "anchor", "submit", "grade"} =>
              FirstStep(c, disk)[2] = disk
<1> DEFINE r == disk
           again == [r EXCEPT !.attempt = @ + 1]
           clean == [again EXCEPT !.phase = None, !.anchors = None]
           waits == [r EXCEPT !.status = "waiting_for_user",
                              !.waiting = IF r.phase = "ANCHOR_PENDING"
                                            THEN "anchor" ELSE "assessment"]
<1>1. r \in Session /\ c.type \in CommandTypes
  BY CommandAssumption DEF DiskInv
<1>2. r.status \notin {"running", "completed"}
  BY <1>1 DEF Allowed, CommandTypes
<1>3. Later(r, r) /\ Later(again, r) /\ Later(clean, r) /\ Later(waits, r)
  BY <1>1, <1>2 DEF Session, Later
<1>4. \/ FirstStep(c, r) \in {<<"generate", clean>>, <<"save", waits>>, <<"generate", again>>}
      \/ FirstStep(c, r) \in {<<x, r>> : x \in {"diagnose", "save", "anchor", "submit"}}
  <2>1. Retried(r) \in {<<"generate", clean>>, <<"save", waits>>, <<"generate", again>>,
                        <<"diagnose", r>>}
    BY DEF Retried
  <2> HIDE DEF r, again, clean, waits
  <2> QED BY <1>1, <2>1 DEF FirstStep, CommandTypes
<1> HIDE DEF again, clean, waits
<1> QED BY <1>2, <1>3, <1>4 DEF Working

-----------------------------------------------------------------------------
(* The steps of a command.                                                 *)

LEMMA ContinueSingle ==
  ASSUME Inv, LockInv, Single, NEW p \in Process, pc[p] \in Working \ {"save"},
         NEW stage \in Working, NEW r, Continue(p, stage, r),
         WorkFit(stage, cmd[p], r, disk, graded'), r.profile <= profiles',
         GradeFit(graded', disk, profiles'),
         \A t, u \in tasks' : t = u,
         \A t \in tasks' : /\ stage = "save" /\ r.status = "running"
                           /\ t.owner = p /\ t.stage = "load"
  PROVE  Single'
<1>1. /\ disk' = disk /\ cmd' = cmd /\ answered' = answered
      /\ pc'[p] = stage /\ rec'[p] = r
      /\ \A q \in Process : q # p => pc'[q] = "idle"
  BY Alone DEF Continue, Inv, LocalInv, Working
<1>2. ASSUME NEW q \in Process PROVE WorkInv(q)' /\ ReleaseInv(q)'
  BY <1>1 DEF WorkInv, ReleaseInv, Working
<1>3. TasksInv'
  BY <1>1 DEF TasksInv, Early
<1>4. AnswerInv'
  BY <1>1 DEF Single, AnswerInv
<1> QED BY <1>1, <1>2, <1>3, <1>4 DEF Single

LEMMA LaterSingle ==
  ASSUME Inv, LockInv, Single, NEW p \in Process, pc[p] \in Working \ {"save"},
         NEW stage \in {"generate", "save"}, NEW r, Continue(p, stage, r),
         Later(r, rec[p]), UNCHANGED <<graded, tasks, profiles>>
  PROVE  Single'
<1>1. /\ WorkFit(pc[p], cmd[p], rec[p], disk, graded) /\ tasks = {}
      /\ rec[p].profile <= profiles
  BY Alone DEF Single, WorkInv, Working
<1>2. WorkFit(stage, cmd[p], r, disk, graded) /\ r.profile <= profiles
  BY <1>1, PastLater DEF WorkFit, Later
<1> QED BY <1>1, <1>2, ContinueSingle DEF Single, Working

LEMMA BuildProfileSingle ==
  ASSUME Inv, LockInv, Single, NEW p \in Process, BuildProfile(p)
  PROVE  Single'
<1> DEFINE r == [rec[p] EXCEPT !.diagnosed = TRUE, !.waiting = None]
           built == [r EXCEPT !.profile = profiles + 1]
<1>1. /\ rec[p] \in Session /\ pc[p] = "diagnose" /\ pc[p] \in Working \ {"save"}
      /\ UNCHANGED <<graded, tasks>>
  BY DEF BuildProfile, Inv, LocalInv, Fit, roleC, Working
<1>2. /\ WorkFit(pc[p], cmd[p], rec[p], disk, graded) /\ tasks = {}
      /\ GradeFit(graded, disk, profiles) /\ profiles \in Nat
      /\ graded \subseteq [run : RunIds, sub : Submission, profile : 1..MaxProfiles,
                           decision : Decisions]
  BY <1>1, Alone DEF Single, WorkInv, Inv, RoleCInv, RestInv
<1>3. rec[p] = disk /\ rec[p].status # "running"
  BY <1>1, <1>2 DEF WorkFit
<1>4. /\ r.processed = disk.processed /\ r.profile = disk.profile
      /\ r.round = disk.round /\ r.status = rec[p].status /\ r \in Session
  BY <1>1, <1>3 DEF Session, Waiting
<1> HIDE DEF r
<1>5. ASSUME NEW s \in {"blocked", "failed"}, UNCHANGED profiles,
             Continue(p, "save", [r EXCEPT !.status = s])
      PROVE  Single'
  <2>1. Later([r EXCEPT !.status = s], rec[p])
    BY <1>3, <1>4 DEF Session, Later
  <2> QED BY <1>1, <1>5, <2>1, LaterSingle
<1>6. ASSUME NEW stage \in {"generate", "save"}, NEW b, Continue(p, stage, b),
             profiles' = profiles + 1, b.processed = r.processed,
             b.profile = profiles + 1, b.status # "running"
      PROVE  Single'
  <2>1. \A g \in graded : g.profile \in Nat /\ g.profile <= profiles
    BY <1>2 DEF GradeFit
  <2>2. NewProfile(b, graded) /\ Past(b, graded)
    BY <1>2, <1>6, <2>1 DEF NewProfile, Past
  <2>3. WorkFit(stage, cmd[p], b, disk, graded)
    BY <1>2, <1>4, <1>6, <2>2 DEF WorkFit
  <2>4. GradeFit(graded, disk, profiles')
    <3>1. disk.profile \in Nat
      BY <1>1, <1>3 DEF Session
    <3> QED BY <1>2, <1>6, <2>1, <3>1 DEF GradeFit
  <2> QED BY <1>1, <1>2, <1>6, <2>3, <2>4, ContinueSingle DEF Working
<1>7. LET b == [built EXCEPT !.node = 1] IN
        b.processed = r.processed /\ b.profile = profiles + 1 /\ b.status # "running"
  BY <1>3, <1>4 DEF Session
<1>8. LET b == [built EXCEPT !.status = "completed"] IN
        b.processed = r.processed /\ b.profile = profiles + 1 /\ b.status # "running"
  BY <1>3, <1>4 DEF Session
<1>9. \/ /\ UNCHANGED profiles
         /\ \E s \in {"blocked", "failed"} : Continue(p, "save", [r EXCEPT !.status = s])
      \/ /\ profiles' = profiles + 1
         /\ \/ Continue(p, "generate", [built EXCEPT !.node = 1])
            \/ Continue(p, "save", [built EXCEPT !.status = "completed"])
  BY DEF BuildProfile, r
<1> HIDE DEF built
<1> QED BY <1>5, <1>6, <1>7, <1>8, <1>9

LEMMA MiddleSingle ==
  ASSUME Inv, LockInv, Single, NEW p \in Process,
         Generate(p) \/ RouteAnchors(p) \/ Submit(p)
  PROVE  Single'
<1>1. /\ rec[p] \in Session /\ pc[p] \in Working \ {"save"}
      /\ UNCHANGED <<graded, tasks, profiles>>
  BY DEF Generate, RouteAnchors, Submit, Inv, LocalInv, Fit, roleC, Working
<1>2. CASE Generate(p)
  <2>1. \/ \E a \in BOOLEAN : Continue(p, "save", Applied(rec[p], a))
        \/ Continue(p, "save", [Block(rec[p]) EXCEPT !.waiting = None])
    BY <1>2 DEF Generate
  <2> QED BY <1>1, <2>1, LaterRecords, LaterSingle
<1>3. CASE RouteAnchors(p)
  <2> DEFINE r == rec[p]
             locked == [r EXCEPT !.phase = "ROUTE_LOCKED", !.anchors = cmd[p].answers,
                                 !.waiting = "assessment"]
  <2>1. r.status # "running"
    BY <1>3 DEF RouteAnchors, Single, WorkInv, WorkFit, Working
  <2>2. Later(locked, r)
    BY <1>1, <2>1 DEF Session, Later
  <2>3. Continue(p, "save", locked) \/ Continue(p, "save", Block(r))
    BY <1>3 DEF RouteAnchors
  <2> HIDE DEF locked
  <2> QED BY <1>1, <2>2, <2>3, LaterRecords, LaterSingle
<1>4. CASE Submit(p)
  <2>1. Continue(p, "save", Block(rec[p])) \/ Continue(p, "grade", rec[p])
    BY <1>4 DEF Submit
  <2>2. ASSUME Continue(p, "grade", rec[p]) PROVE Single'
    <3>1. pc[p] = "submit" /\ tasks = {}
      BY <1>1, <1>4, Alone DEF Submit, Working
    <3>2. /\ WorkFit("grade", cmd[p], rec[p], disk, graded)
          /\ rec[p].profile <= profiles
      BY <1>1, <3>1 DEF Single, WorkInv, WorkFit
    <3> QED BY <1>1, <2>2, <3>1, <3>2, ContinueSingle DEF Single, Working
  <2> QED BY <1>1, <2>1, <2>2, LaterRecords, LaterSingle
<1> QED BY <1>2, <1>3, <1>4

(* What a decision makes of the record.                                    *)
LEMMA DecisionFields ==
  ASSUME NEW r \in Session, NEW d \in Decisions
  PROVE  /\ AfterDecision(r, d).processed = r.processed
         /\ \/ /\ AfterDecision(r, d).profile = 0
               /\ AfterDecision(r, d).status = "waiting_for_user"
            \/ /\ AfterDecision(r, d).profile = r.profile
               /\ \/ /\ AfterDecision(r, d).status = "completed"
                     /\ AfterDecision(r, d).round = r.round
                  \/ /\ AfterDecision(r, d).status = "running"
                     /\ AfterDecision(r, d).round = r.round + 1
<1>1. CASE d = "reprofile"
  BY <1>1 DEF AfterDecision, Reset, NewSession
<1>2. CASE d # "reprofile"
  BY <1>2 DEF AfterDecision, Session
<1> QED BY <1>1, <1>2

LEMMA GradeSingle ==
  ASSUME Inv, Inv', LockInv, Single, NEW p \in Process, Grade(p)
  PROVE  Single'
<1> DEFINE r == rec[p]
           mine(x) == x.run = r.roleC.run /\ x.sub = SubmissionId(p)
           earlier == {x.decision : x \in {y \in graded : mine(y)}}
           entry(d) == [run |-> r.roleC.run, sub |-> SubmissionId(p),
                        profile |-> r.profile, decision |-> d]
           task == [owner |-> p, copy |-> None, stage |-> "load"]
<1>1. /\ r \in Session /\ pc[p] = "grade" /\ pc[p] \in Working \ {"save"}
      /\ UNCHANGED profiles
  BY DEF Grade, Inv, LocalInv, Fit, Working
<1>2. /\ WorkFit(pc[p], cmd[p], r, disk, graded) /\ tasks = {}
      /\ GradeFit(graded, disk, profiles) /\ profiles \in Nat
      /\ graded \subseteq [run : RunIds, sub : Submission, profile : 1..MaxProfiles,
                           decision : Decisions]
      /\ earlier \subseteq Decisions
  BY <1>1, Alone DEF Single, WorkInv, Inv, RoleCInv, RestInv
<1>3. CASE Continue(p, "save", Block(r)) /\ UNCHANGED <<graded, tasks>>
  BY <1>1, <1>3, LaterRecords, LaterSingle
<1>4. ASSUME NEW d \in Decisions, graded' = graded \cup {entry(d)},
             Continue(p, "save", AfterDecision(r, d)),
             tasks' = IF AfterDecision(r, d).status = "running"
                        THEN tasks \cup {task} ELSE tasks
      PROVE  Single'
  <2> DEFINE b == AfterDecision(r, d)
             e == entry(d)
  <2>1. /\ b.processed = r.processed
        /\ \/ b.profile = 0 /\ b.status = "waiting_for_user"
           \/ /\ b.profile = r.profile
              /\ \/ b.status = "completed" /\ b.round = r.round
                 \/ b.status = "running" /\ b.round = r.round + 1
    BY <1>1, DecisionFields
  <2>2. /\ e.profile = r.profile /\ e.sub[1] = r.round /\ e.sub[2] = cmd[p].id
    BY DEF SubmissionId
  <2>3. task.owner = p /\ task.stage = "load"
    OBVIOUS
  <2> HIDE DEF b, e, task
  <2>4. /\ r = disk /\ disk.processed[cmd[p].id] = None
        /\ disk.status \notin {"running", "completed"}
        /\ r.round \in Nat /\ r.profile \in Nat /\ disk.round \in Nat
    BY <1>1, <1>2 DEF WorkFit, Session
  <2>5. /\ \A g \in graded : g.profile \in Nat \ {0} /\ g.sub[1] \in Nat
        /\ graded' = graded \cup {e}
    BY <1>2, <1>4 DEF Submission, e
  <2>6. \A g \in graded' : g.profile # 0
    BY DEF Inv, RoleCInv
  <2>7. Past(b, graded')
    BY <1>2, <2>1, <2>2, <2>4, <2>5, <2>6 DEF WorkFit, Past
  <2>8. NewProfile(b, graded') \/ (b.profile = disk.profile /\ b.round >= disk.round)
    BY <2>1, <2>4, <2>6 DEF NewProfile
  <2>9. WorkFit("save", cmd[p], b, disk, graded')
    BY <1>2, <2>1, <2>4, <2>7, <2>8 DEF WorkFit
  <2>10. b.profile <= profiles
    BY <1>2, <2>1, <2>4 DEF GradeFit
  <2>11. GradeFit(graded', disk, profiles)
    <3>1. Past(disk, graded')
      BY <1>2, <2>2, <2>4, <2>5 DEF WorkFit, Past
    <3> QED BY <1>2, <2>2, <2>4, <2>5, <3>1 DEF GradeFit
  <2>12. Continue(p, "save", b) /\ tasks' = IF b.status = "running" THEN {task} ELSE {}
    BY <1>2, <1>4 DEF b
  <2> QED BY <1>1, <2>3, <2>9, <2>10, <2>11, <2>12, ContinueSingle DEF Working
<1> QED
  <2> HIDE DEF r, mine, earlier, entry, task
  <2>1. \/ Continue(p, "save", Block(r)) /\ UNCHANGED <<graded, tasks>>
        \/ \E d \in IF earlier = {} THEN Decisions ELSE earlier :
             /\ WithinBounds(r, d) /\ graded' = graded \cup {entry(d)}
             /\ Continue(p, "save", AfterDecision(r, d))
             /\ tasks' = IF AfterDecision(r, d).status = "running"
                           THEN tasks \cup {task} ELSE tasks
    BY DEF Grade, r, mine, earlier, entry, task
  <2> QED BY <1>2, <1>3, <1>4, <2>1

LEMMA SaveSingle ==
  ASSUME Inv, LockInv, Single, NEW p \in Process, Save(p)
  PROVE  Single'
<1> DEFINE r == rec[p]
           i == cmd[p].id
           entry == [command |-> cmd[p], response |-> ResponseOf(r)]
           S == [r EXCEPT !.processed[i] = entry]
<1>1. /\ r \in Session /\ cmd[p] \in Command /\ i \in CommandIds /\ pc[p] = "save"
      /\ disk \in Session
  BY DEF Save, Inv, DiskInv, LocalInv, Fit, CommandIds
<1>2. /\ disk' = S /\ pc'[p] = "release"
      /\ \A q \in Process : q # p => pc'[q] = "idle"
      /\ UNCHANGED <<tasks, cmd, rec, graded, answered, profiles>>
  BY Alone DEF Save, Inv, LocalInv, roleC
<1>3. /\ WorkFit(pc[p], cmd[p], r, disk, graded) /\ r.profile <= profiles
      /\ GradeFit(graded, disk, profiles) /\ AnswerInv
  BY <1>1 DEF Single, WorkInv, Working
<1>4. /\ S.processed[i] = entry
      /\ \A j \in CommandIds : j # i => S.processed[j] = disk.processed[j]
      /\ S.profile = r.profile /\ S.round = r.round /\ S.status = r.status
  <2>1. r.processed = disk.processed
    BY <1>3 DEF WorkFit
  <2> HIDE DEF entry
  <2> QED BY <1>1, <2>1 DEF Session
<1>5. /\ entry # None /\ entry.response = ResponseOf(r)
      /\ entry.response.status = r.status
  BY <1>1, ResponseTyped, NoneIsNoRecord DEF ResponseOf
<1> HIDE DEF S, entry
<1>6. ASSUME NEW q \in Process PROVE WorkInv(q)' /\ ReleaseInv(q)'
  BY <1>2, <1>4, <1>5 DEF WorkInv, ReleaseInv, Working
<1>7. TasksInv'
  <2>1. \A t, u \in tasks : t = u
    BY DEF Single, TasksInv
  <2>2. ASSUME NEW t \in tasks PROVE InTime(t)'
    <3>1. t.owner = p /\ Early(t)
      BY <1>1, Alone
    <3> QED BY <1>2, <1>4, <3>1 DEF Early, InTime
  <2> QED BY <1>2, <2>1, <2>2 DEF TasksInv
<1>8. AnswerInv'
  <2> SUFFICES ASSUME NEW a \in answered
               PROVE  S.processed[a.id] # None /\ S.processed[a.id].response = a.response
    BY <1>2 DEF AnswerInv
  <2>1. disk.processed[a.id] # None /\ disk.processed[a.id].response = a.response
    BY <1>3 DEF AnswerInv
  <2>2. a.id \in CommandIds
    BY DEF Inv, RestInv
  <2>3. a.id # i
    BY <1>3, <2>1 DEF WorkFit
  <2> QED BY <1>4, <2>1, <2>2, <2>3
<1>9. GradeFit(graded, S, profiles)
  <2>1. Past(S, graded)
    BY <1>3, <1>4 DEF WorkFit, Past
  <2>2. ASSUME NEW g \in graded, g.profile = S.profile, S.processed[g.sub[2]] # None,
               S.processed[g.sub[2]].response.status \in {"running", "completed"}
        PROVE  S.round > g.sub[1] \/ S.status = "completed"
    <3>1. g.sub[2] \in CommandIds /\ g.sub[1] \in Nat /\ S.round \in Nat /\ disk.round \in Nat
      BY <1>1, <1>4 DEF Inv, RoleCInv, Submission, Session
    <3>2. CASE g.sub[2] = i
      <4>1. r.status \in {"running", "completed"}
        BY <1>4, <1>5, <2>2, <3>2
      <4> QED BY <1>4, <2>1, <2>2, <3>1, <4>1 DEF Past
    <3>3. CASE g.sub[2] # i
      <4>1. /\ r.profile = disk.profile /\ r.round >= disk.round
            /\ disk.status # "completed"
        BY <1>3, <1>4, <2>2 DEF WorkFit, NewProfile
      <4>2. disk.processed[g.sub[2]] = S.processed[g.sub[2]]
        BY <1>4, <3>1, <3>3
      <4>3. disk.round > g.sub[1]
        BY <1>3, <1>4, <2>2, <4>1, <4>2 DEF GradeFit
      <4> QED BY <1>4, <3>1, <4>1, <4>3
    <3> QED BY <3>2, <3>3
  <2> QED BY <1>3, <1>4, <2>1, <2>2 DEF GradeFit
<1> QED BY <1>2, <1>6, <1>7, <1>8, <1>9 DEF Single

(* The steps that leave the file, the grades and the tasks as they are.    *)
LEMMA QuietSingle ==
  ASSUME Inv, LockInv, Single, UNCHANGED <<disk, graded, profiles>>,
         \A p \in Process :
           \/ pc'[p] = pc[p] /\ cmd'[p] = cmd[p] /\ rec'[p] = rec[p]
           \/ pc'[p] \in {"idle", "release"} /\ cmd'[p] = None,
         \A t \in tasks' : /\ t \in tasks
                           /\ Early(t) => pc'[t.owner] = pc[t.owner]
                                            /\ rec'[t.owner] = rec[t.owner],
         AnswerInv'
  PROVE  Single'
<1>1. ASSUME NEW p \in Process PROVE WorkInv(p)' /\ ReleaseInv(p)'
  BY DEF Single, WorkInv, ReleaseInv, Working
<1>2. TasksInv'
  BY DEF Single, TasksInv, Early, InTime
<1> QED BY <1>1, <1>2 DEF Single

LEMMA EndSingle ==
  ASSUME "save" \notin FaultKinds, Inv, LockInv, Single, NEW p \in Process,
         Throw(p) \/ Release(p) \/ Crash(p)
  PROVE  Single'
<1>1. /\ UNCHANGED <<disk, graded, profiles>>
      /\ \A q \in Process : q # p => pc'[q] = pc[q] /\ cmd'[q] = cmd[q] /\ rec'[q] = rec[q]
      /\ pc'[p] \in {"idle", "release"} /\ cmd'[p] = None
  BY DEF Throw, Release, Crash, roleC, Inv, LocalInv
<1>2. \A t \in tasks' : t \in tasks /\ (Early(t) => t.owner # p)
  <2>1. CASE Crash(p)
    BY <2>1 DEF Crash
  <2>2. CASE Throw(p) \/ Release(p)
    <3>1. tasks' = tasks /\ pc[p] # "save"
      BY <2>2 DEF Throw, Release, Fault
    <3> QED BY <3>1 DEF Early
  <2> QED BY <2>1, <2>2
<1>3. \A t \in tasks : t.owner \in Process
  BY DEF Inv, TaskInv, Task
<1>4. AnswerInv'
  <2>1. CASE answered' = answered
    BY <1>1, <2>1 DEF Single, AnswerInv
  <2>2. CASE Release(p) /\ cmd[p] # None
    <3>1. ReleaseInv(p) /\ pc[p] = "release" /\ AnswerInv
      BY <2>2 DEF Release, Single
    <3>2. answered' = answered \cup {[id |-> cmd[p].id, response |-> ResponseOf(rec[p])]}
      BY <2>2 DEF Release
    <3> QED BY <1>1, <2>2, <3>1, <3>2 DEF ReleaseInv, AnswerInv
  <2> QED BY <2>1, <2>2 DEF Throw, Release, Crash
<1> QED BY <1>1, <1>2, <1>3, <1>4, QuietSingle

LEMMA BeginSingle ==
  ASSUME Inv, LockInv, Single, NEW p \in Process, NEW c \in Command, Begin(p, c)
  PROVE  Single'
<1>1. UNCHANGED <<disk, tasks, graded, profiles>> /\ lock = None
  BY DEF Begin, roleC
<1>2. \A q \in Process : pc[q] = "idle"
  BY <1>1, ProcessAssumption DEF LockInv
<1>3. CASE /\ Known(c) /\ UNCHANGED <<pc, cmd, rec>>
           /\ answered' = answered \cup {[id |-> c.id,
                                          response |-> disk.processed[c.id].response]}
  <2>1. AnswerInv'
    BY <1>1, <1>3 DEF Single, AnswerInv, Known
  <2> QED BY <1>1, <1>3, <2>1, QuietSingle
<1>4. CASE /\ ~Known(c) /\ Allowed(c)
           /\ cmd' = [cmd EXCEPT ![p] = c]
           /\ pc' = [pc EXCEPT ![p] = FirstStep(c, disk)[1]]
           /\ rec' = [rec EXCEPT ![p] = FirstStep(c, disk)[2]]
           /\ UNCHANGED answered
  <2> DEFINE stage == FirstStep(c, disk)[1]
             r == FirstStep(c, disk)[2]
  <2>1. /\ disk.status \notin {"running", "completed"} /\ stage \in Working
        /\ Later(r, disk)
        /\ stage \in {"diagnose", "anchor", "submit", "grade"} => r = disk
    BY <1>4, FirstStepLater DEF Inv
  <2>2. /\ pc'[p] = stage /\ cmd'[p] = c /\ rec'[p] = r
        /\ \A q \in Process : q # p => pc'[q] = "idle"
    BY <1>2, <1>4 DEF Inv, LocalInv
  <2> HIDE DEF stage, r
  <2>3. tasks = {}
    <3>1. ASSUME NEW t \in tasks PROVE FALSE
      <4>1. Early(t) /\ t.owner \in Process
        BY <2>1 DEF Single, TasksInv, InTime, Inv, TaskInv, Task
      <4> QED BY <1>2, <4>1 DEF Early
    <3> QED BY <3>1
  <2>4. /\ GradeFit(graded, disk, profiles) /\ AnswerInv
        /\ disk.round \in Nat
    BY DEF Single, Inv, DiskInv, Session
  <2>5. WorkFit(stage, c, r, disk, graded) /\ r.profile <= profiles
    <3>1. Past(r, graded)
      BY <2>1, <2>4, PastLater DEF GradeFit
    <3> QED BY <1>4, <2>1, <2>4, <3>1 DEF WorkFit, Later, Known, GradeFit
  <2>6. ASSUME NEW q \in Process PROVE WorkInv(q)' /\ ReleaseInv(q)'
    BY <1>1, <2>1, <2>2, <2>5 DEF WorkInv, ReleaseInv, Working
  <2>7. TasksInv' /\ AnswerInv' /\ GradeFit(graded', disk', profiles')
    BY <1>1, <1>4, <2>3, <2>4 DEF TasksInv, AnswerInv
  <2> QED BY <2>6, <2>7 DEF Single
<1> QED BY <1>3, <1>4 DEF Begin

-----------------------------------------------------------------------------
(* The steps of a background task: it is the only one.                     *)

LEMMA MoveSingle ==
  ASSUME Inv, LockInv, Single, NEW t \in tasks, UNCHANGED <<Elsewhere, disk>>,
         NEW stage, NEW copy, Move(t, stage, copy),
         Early(t) =>
           /\ stage \notin {"store", "store_failed"}
           /\ stage \in {"generate", "check"} => copy.round < rec[t.owner].round,
         InTime(t) =>
           /\ stage \in {"generate", "check"} => copy.round < disk.round \/ Ours(copy, disk)
           /\ stage \in {"store", "store_failed"} => Ours(copy, disk)
  PROVE  Single'
<1> DEFINE u == [owner |-> t.owner, stage |-> stage, copy |-> copy]
<1>1. UNCHANGED <<disk, lock, pc, cmd, rec, graded, answered, profiles>>
  BY DEF Elsewhere
<1>2. tasks = {t}
  BY DEF Single, TasksInv
<1>3. tasks' = {u} /\ u.owner = t.owner /\ u.stage = stage /\ u.copy = copy
  BY <1>2 DEF Move
<1> HIDE DEF u
<1>4. \A q \in Process : WorkInv(q)' /\ ReleaseInv(q)'
  BY <1>1 DEF Single, WorkInv, ReleaseInv
<1>5. Early(u)' \/ InTime(u)'
  <2>1. Early(t) => Early(u)'
    BY <1>1, <1>3 DEF Early
  <2>2. InTime(t) => InTime(u)'
    BY <1>1, <1>3 DEF InTime
  <2> QED BY <2>1, <2>2 DEF Single, TasksInv
<1>6. TasksInv'
  BY <1>3, <1>5 DEF TasksInv
<1>7. AnswerInv' /\ GradeFit(graded, disk, profiles)'
  BY <1>1 DEF Single, AnswerInv
<1> QED BY <1>4, <1>6, <1>7 DEF Single

LEMMA EndTaskSingle ==
  ASSUME Inv, LockInv, Single, NEW t \in tasks, UNCHANGED <<Elsewhere, disk>>, End(t)
  PROVE  Single'
<1>1. /\ UNCHANGED <<disk, graded, profiles, answered, pc, cmd, rec>>
      /\ \A u \in tasks' : u \in tasks
  BY DEF Elsewhere, End
<1>2. AnswerInv'
  BY <1>1 DEF Single, AnswerInv
<1> QED BY <1>1, <1>2, QuietSingle

LEMMA StoreSingle ==
  ASSUME Inv, LockInv, Single, NEW t \in tasks, UNCHANGED Elsewhere, End(t),
         t.stage \in {"store", "store_failed"}, disk' = t.copy
  PROVE  Single'
<1>1. UNCHANGED <<pc, cmd, rec, graded, answered, profiles>> /\ tasks' = {}
  BY DEF Elsewhere, End, Single, TasksInv
<1>2. disk.status = "running" /\ Ours(disk', disk)
  BY DEF Single, TasksInv, Early, InTime
<1>3. \A q \in Process : pc[q] \notin Working
  BY <1>2 DEF Single, WorkInv, WorkFit
<1>4. \A q \in Process : WorkInv(q)' /\ ReleaseInv(q)'
  BY <1>1, <1>2, <1>3 DEF Single, WorkInv, ReleaseInv, Ours
<1>5. TasksInv' /\ AnswerInv'
  BY <1>1, <1>2 DEF Single, TasksInv, AnswerInv, Ours
<1>6. /\ GradeFit(graded, disk, profiles)
      /\ \A g \in graded : g.sub[1] \in Nat /\ disk.round \in Nat
  BY DEF Single, Inv, DiskInv, RoleCInv, Session, Submission
<1>7. \A g \in graded : g.profile = disk'.profile => g.sub[1] < disk'.round
  BY <1>2, <1>6 DEF GradeFit, Past, Ours
<1>8. GradeFit(graded, disk', profiles)
  BY <1>2, <1>6, <1>7 DEF GradeFit, Past, Ours
<1> QED BY <1>1, <1>4, <1>5, <1>8 DEF Single

LEMMA TaskSingle ==
  ASSUME "save" \notin FaultKinds, Inv, LockInv, Single, NEW t \in tasks, TaskStep(t)
  PROVE  Single'
<1>1. /\ UNCHANGED Elsewhere /\ TaskFit(t) /\ disk \in Session
      /\ t.owner \in Process /\ rec[t.owner] \in Session \cup {None}
      /\ \/ t.stage \in {"store", "store_failed"} => ~Early(t)
  BY DEF TaskStep, TaskLoad, TaskGenerate, TaskCheck, TaskStore, TaskFail,
         TaskStoreFailed, Inv, DiskInv, TaskInv, LocalInv, Task, Early
<1>2. Early(t) => /\ disk.status # "running"
                  /\ disk.round < rec[t.owner].round
                  /\ rec[t.owner] \in Session
  <2> SUFFICES ASSUME Early(t)
               PROVE  /\ disk.status # "running" /\ disk.round < rec[t.owner].round
                      /\ rec[t.owner] \in Session
    OBVIOUS
  <2>1. pc[t.owner] = "save" /\ rec[t.owner].status = "running"
    BY DEF Early
  <2>2. WorkFit("save", cmd[t.owner], rec[t.owner], disk, graded)
    BY <1>1, <2>1 DEF Single, WorkInv, Working
  <2>3. rec[t.owner] \in Session
    BY <1>1, <2>1 DEF Inv, LocalInv, Fit
  <2>4. disk.round \in Nat /\ rec[t.owner].round \in Nat
    BY <1>1, <2>3 DEF Session
  <2> QED BY <2>1, <2>2, <2>3, <2>4 DEF WorkFit
<1>3. CASE TaskLoad(t)
  <2>1. Ours(disk, disk)
    BY DEF Ours
  <2>2. \/ Move(t, "fail", None) /\ disk' = disk
        \/ Move(t, "generate", disk) /\ disk' = disk
    BY <1>3 DEF TaskLoad
  <2> QED BY <1>1, <1>2, <2>1, <2>2, MoveSingle
<1>4. CASE TaskGenerate(t)
  <2>1. /\ disk' = disk /\ t.copy \in Session /\ t.stage = "generate"
        /\ \/ \E a \in BOOLEAN : Move(t, "check", Applied(t.copy, a))
           \/ Move(t, "check", Block(t.copy))
           \/ Move(t, "fail", None)
    BY <1>1, <1>4 DEF TaskGenerate, TaskFit
  <2>2. ASSUME NEW b, Later(b, t.copy), Move(t, "check", b) PROVE Single'
    <3>1. Early(t) => b.round < rec[t.owner].round
      BY <2>1, <2>2 DEF Early, Later
    <3>2. InTime(t) => b.round < disk.round \/ Ours(b, disk)
      BY <2>1, <2>2 DEF InTime, Later, Ours
    <3> QED BY <1>1, <2>1, <2>2, <3>1, <3>2, MoveSingle
  <2>3. Later(Block(t.copy), t.copy) /\ \A a \in BOOLEAN : Later(Applied(t.copy, a), t.copy)
    BY <2>1, LaterRecords
  <2>4. CASE Move(t, "fail", None)
    BY <1>1, <2>1, <2>4, MoveSingle
  <2> QED BY <2>1, <2>2, <2>3, <2>4
<1>5. CASE TaskCheck(t)
  <2>1. /\ disk' = disk /\ t.stage = "check" /\ t.copy \in Session
        /\ \/ StillMine(t.copy) /\ Move(t, "store", t.copy)
           \/ End(t)
    BY <1>1, <1>5 DEF TaskCheck, TaskFit
  <2>2. ASSUME StillMine(t.copy), Move(t, "store", t.copy) PROVE Single'
    <3>1. ~Early(t)
      BY <1>2, <2>2 DEF StillMine
    <3>2. InTime(t) => Ours(t.copy, disk)
      BY <1>1, <2>1, <2>2 DEF InTime, StillMine, Session
    <3> QED BY <1>1, <2>1, <2>2, <3>1, <3>2, MoveSingle
  <2> QED BY <1>1, <2>1, <2>2, EndTaskSingle
<1>6. CASE TaskStore(t) \/ TaskStoreFailed(t)
  <2>1. t.stage \in {"store", "store_failed"} /\ disk' = t.copy /\ End(t)
    BY <1>6 DEF TaskStore, TaskStoreFailed, Fault
  <2> QED BY <1>1, <2>1, StoreSingle
<1>7. CASE TaskFail(t)
  <2> DEFINE b == [disk EXCEPT !.status = "failed"]
  <2>1. /\ disk' = disk
        /\ \/ disk.status = "running" /\ Move(t, "store_failed", b)
           \/ End(t)
    BY <1>7 DEF TaskFail
  <2>2. Later(b, disk)
    BY <1>1, LaterRecords
  <2> HIDE DEF b
  <2>3. Ours(b, disk)
    BY <2>2 DEF Later, Ours
  <2> QED BY <1>1, <1>2, <2>1, <2>3, MoveSingle, EndTaskSingle
<1> QED BY <1>3, <1>4, <1>5, <1>6, <1>7 DEF TaskStep

LEMMA NextSingle ==
  ASSUME "save" \notin FaultKinds, Inv, Inv', LockInv, Single, [Next]_vars
  PROVE  Single'
<1>1. ASSUME NEW p \in Process, CommandStep(p) PROVE Single'
  BY <1>1, BuildProfileSingle, MiddleSingle, GradeSingle, SaveSingle, EndSingle
  DEF CommandStep
<1>2. CASE Unlock \/ UNCHANGED vars
  <2>1. UNCHANGED <<disk, tasks, pc, cmd, rec, graded, answered, profiles>>
    BY <1>2 DEF Unlock, vars, roleC
  <2>2. AnswerInv'
    BY <2>1 DEF Single, AnswerInv
  <2> QED BY <2>1, <2>2, QuietSingle
<1> QED BY <1>1, <1>2, BeginSingle, EndSingle, TaskSingle DEF Next

LEMMA SingleHolds ==
  ASSUME "save" \notin FaultKinds
  PROVE  Spec => [](LockInv /\ Single)
<1>1. Init => LockInv /\ Single
  <2> SUFFICES ASSUME Init PROVE LockInv /\ Single
    OBVIOUS
  <2>1. LockInv /\ \A p \in Process : WorkInv(p) /\ ReleaseInv(p)
    BY DEF Init, LockInv, WorkInv, ReleaseInv, Working
  <2>2. TasksInv /\ AnswerInv /\ GradeFit(graded, disk, profiles)
    BY DEF Init, TasksInv, AnswerInv, GradeFit, Past, NewSession
  <2> QED BY <2>1, <2>2 DEF Single
<1>2. Inv /\ Inv' /\ LockInv /\ Single /\ [Next]_vars => (LockInv /\ Single)'
  BY NextLock, NextSingle
<1> QED BY <1>1, <1>2, RecordsStaySound, PTL DEF Spec

(* Nobody is told two things about one command: as long as no save of the  *)
(* session file fails, its response is the one in the session file from    *)
(* the moment anybody hears it, however often and to whichever process the *)
(* command is sent, whatever stops and whatever throws.                    *)
THEOREM OneAnswer ==
  ASSUME "save" \notin FaultKinds
  PROVE  Spec => []OneAnswerPerCommand
<1>1. Single => OneAnswerPerCommand
  BY DEF Single, AnswerInv, OneAnswerPerCommand
<1> QED BY <1>1, SingleHolds, PTL

(* A grade the learner was told of is not taken back by a late background  *)
(* generation, under the same assumption.                                  *)
THEOREM GradesStay ==
  ASSUME "save" \notin FaultKinds
  PROVE  Spec => []GradeIsKept
<1>1. Single => GradeIsKept
  BY DEF Single, AnswerInv, GradeFit, GradeIsKept
<1> QED BY <1>1, SingleHolds, PTL
=============================================================================

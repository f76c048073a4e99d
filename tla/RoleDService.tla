----------------------------- MODULE RoleDService -----------------------------
(***************************************************************************)
(* The entry points Role D calls: generate a first round (up to five       *)
(* attempts, each under a run name of its own, each registered by the      *)
(* pipeline's on_ready and given a session), run its code lab, freeze the  *)
(* route of its assessment from the learner's answers to the anchor items, *)
(* submit, and continue after a submission.  A continuation reloads what it needs, has role B plan the  *)
(* next node when the feedback says "advance" and the caller names none,   *)
(* refreshes the evidence, and hands over to the adaptive loop, which is   *)
(* here the abstract RoundOutcome, one per execution key.                  *)
(*                                                                         *)
(* Every await is a step; a process may stop at any of them, and an answer *)
(* may be lost, so that the caller asks again.  What the pipeline writes   *)
(* is a number, a new one for every execution.  A data directory is        *)
(* configured: without one every store is in memory and a stop starts over. *)
(***************************************************************************)
EXTENDS Naturals, FiniteSets

CONSTANTS
  Caller,       \* processes with one call at a time
  Input,        \* submissions of anchor answers, no two with the same answers
  MaxRetries,   \* repeats of a code execution (max_tool_retry, 2 in the code)
  MaxAttempts,  \* executions of one generate call (5 in the code)
  None,
  MaxMade,      \* bound: executions of the pipeline
  MaxPlans,     \* bound: plans of the local planner
  MaxStops      \* bound: stops of a process

(* "remediate" and "reinforce" are treated alike here.                       *)
Action == {"advance", "remediate", "reprofile"}

(* The node of a continuation: the one of this round, one the caller gives, *)
(* the nth one role B plans.                                               *)
Key == [kind : {"same", "given"}, n : {0}] \cup [kind : {"planned"}, n : 1..MaxPlans]
Same == [kind |-> "same", n |-> 0]
Given == [kind |-> "given", n |-> 0]

(* A next round's name is hashed from less than the key: within one          *)
(* configuration, as here, two keys have two names.                          *)
FirstRun(k) == [first |-> TRUE, n |-> k]
NextRun(k) == [first |-> FALSE, key |-> k]
Runs == {FirstRun(k) : k \in 1..MaxAttempts} \cup {NextRun(k) : k \in Key}

ASSUME ServiceAssumption ==
  /\ MaxAttempts \in Nat \ {0} /\ {MaxRetries, MaxMade, MaxPlans, MaxStops} \subseteq Nat
  /\ None \notin Input \cup Runs

Content == 1..MaxMade
Refused == MaxMade + 1

Answer ==
  [of : {"generate", "continue"}, given : BOOLEAN, run : Runs, content : Content]
    \cup [of : {"routed"}, run : Runs, input : Input]

VARIABLES
  runs,       \* content registered under a run name, 0 for none
  sessions,   \* runs with an opened session
  route,      \* anchor answers that froze the route of the session, or None
  parent,     \* run whose session was submitted to, or None
  feedback,   \* final decision of the completed submission, or None
  journal,    \* outcome of each continuation: 0 none, a content, or Refused
  made, plans, stops,
  pc, attempt, asked, key, content, run, input,  \* of each call
  heard       \* answers that reached the caller

storeVars == <<runs, sessions, route, parent, feedback, journal>>
countVars == <<made, plans, stops>>
callVars == <<attempt, asked, key, content, run, input>>
vars == <<storeVars, countVars, pc, callVars, heard>>

(* What a caller asked for; continue_given names the next node itself.     *)
Asked == {"none", "generate", "lab", "route", "continue", "continue_given"}

PC == {"idle", "attempt", "register", "open", "lab", "lock",
       "plan", "refresh", "decide", "activate", "handoff", "answer"}

Goto(c, l) == pc' = [pc EXCEPT ![c] = l]

Reset(c) ==
  /\ attempt' = [attempt EXCEPT ![c] = 0] /\ asked' = [asked EXCEPT ![c] = "none"]
  /\ key' = [key EXCEPT ![c] = Same] /\ content' = [content EXCEPT ![c] = 0]
  /\ run' = [run EXCEPT ![c] = None] /\ input' = [input EXCEPT ![c] = None]

(* A blocked or failed answer, or an exception: the caller may ask again.   *)
Returns(c) == Goto(c, "idle") /\ Reset(c) /\ UNCHANGED <<storeVars, countVars, heard>>

Init ==
  /\ runs = [r \in Runs |-> 0] /\ sessions = {} /\ route = [r \in Runs |-> None]
  /\ parent = None /\ feedback = None
  /\ journal = [k \in Key |-> 0] /\ made = 0 /\ plans = 0 /\ stops = 0
  /\ pc = [c \in Caller |-> "idle"] /\ attempt = [c \in Caller |-> 0]
  /\ asked = [c \in Caller |-> "none"] /\ key = [c \in Caller |-> Same]
  /\ content = [c \in Caller |-> 0] /\ run = [c \in Caller |-> None]
  /\ input = [c \in Caller |-> None] /\ heard = {}

-----------------------------------------------------------------------------
(* generateRoleCForRoleDWithRuntime                                        *)

(* With a provider, a gateway and a runner; without, the call just ends.    *)
Generate(c) ==
  /\ pc[c] = "idle" /\ parent = None
  /\ Goto(c, "attempt") /\ asked' = [asked EXCEPT ![c] = "generate"]
  /\ attempt' = [attempt EXCEPT ![c] = 1]
  /\ UNCHANGED <<storeVars, countVars, key, content, run, input, heard>>

AttemptRun(k) == FirstRun(k)

(* One execution of the recoverable pipeline; on_ready is the next step.    *)
Attempts(c) ==
  /\ pc[c] = "attempt"
  /\ \/ /\ made < MaxMade /\ made' = made + 1
        /\ content' = [content EXCEPT ![c] = made + 1]
        /\ run' = [run EXCEPT ![c] = AttemptRun(attempt[c])]
        /\ Goto(c, "register") /\ UNCHANGED <<storeVars, plans, stops, attempt, asked, key, input, heard>>
     \/ /\ attempt[c] < MaxAttempts
        /\ attempt' = [attempt EXCEPT ![c] = @ + 1]
        /\ UNCHANGED <<storeVars, countVars, pc, asked, key, content, run, input, heard>>
     \/ attempt[c] = MaxAttempts /\ Returns(c)
     \/ attempt[c] = 1 /\ Returns(c)   \* the spec cannot be built

(* registerReadyRun keeps the content a name is bound to; a conflict throws *)
(* through the pipeline and ends the call.                                 *)
Bindable_Any(r, x) == TRUE
Bindable(r, x) == runs[r] \in {0, x}

Bound(r, x) == runs' = [runs EXCEPT ![r] = x]

(* The private pair is read back and held against the public one before    *)
(* the run is written; what does not match, a conflict or a failing store  *)
(* ends the call.                                                          *)
RefusesRun(c) == Returns(c)

Registers(c) ==
  /\ pc[c] = "register"
  /\ \/ RefusesRun(c)
     \/ /\ Bindable(run[c], content[c]) /\ Bound(run[c], content[c])
        /\ Goto(c, "open")
        /\ UNCHANGED <<sessions, route, parent, feedback, journal, countVars, callVars, heard>>

OpensSession(c) ==
  /\ pc[c] = "open"
  /\ \/ Returns(c)
     \/ /\ sessions' = sessions \cup {run[c]} /\ Goto(c, "answer")
        /\ UNCHANGED <<runs, route, parent, feedback, journal, countVars, callVars, heard>>

-----------------------------------------------------------------------------
(* runRoleCCodeLab: the session, the run and the pair are read, and the     *)
(* code is executed until the runner itself does not fail.                 *)

Published == {a.run : a \in {x \in heard : x.of = "generate"}}

Executable == Published \cap sessions

Lab(c) ==
  /\ pc[c] = "idle"
  /\ \E r \in Executable : run' = [run EXCEPT ![c] = r]
  /\ asked' = [asked EXCEPT ![c] = "lab"] /\ Goto(c, "lab")
  /\ UNCHANGED <<storeVars, countVars, attempt, key, content, input, heard>>

ExecutesLab(c) ==
  /\ pc[c] = "lab"
  /\ \/ Goto(c, "answer") /\ UNCHANGED <<storeVars, countVars, callVars, heard>>
     \/ /\ attempt[c] < MaxRetries /\ attempt' = [attempt EXCEPT ![c] = @ + 1]
        /\ UNCHANGED <<storeVars, countVars, pc, asked, key, content, run, input, heard>>
     \/ Returns(c)   \* the pair is unreadable, or the runner failed again

(* routeRoleCAssessmentAnchors: a frozen route answers the answers that     *)
(* froze it and refuses any other; else they are graded.  A session whose   *)
(* first attempt is completed refuses all.                                 *)
Routable(r, i) == r \in sessions /\ parent # r /\ route[r] \in {None, i}

Route(c) ==
  /\ pc[c] = "idle"
  /\ \E r \in Published, i \in Input :
       /\ Routable(r, i)
       /\ run' = [run EXCEPT ![c] = r] /\ input' = [input EXCEPT ![c] = i]
       /\ Goto(c, IF route[r] = None THEN "lock" ELSE "answer")
  /\ asked' = [asked EXCEPT ![c] = "route"]
  /\ UNCHANGED <<storeVars, countVars, attempt, key, content, heard>>

(* The session is saved only as it was read; who comes second looks what    *)
(* the first one froze.                                                    *)
Lockable(c) == route[run[c]] = None

LocksRoute(c) ==
  /\ pc[c] = "lock"
  /\ \/ Returns(c)   \* needs review, blocked, or frozen by other answers
     \/ /\ Lockable(c) /\ route' = [route EXCEPT ![run[c]] = input[c]]
        /\ Goto(c, "answer")
        /\ UNCHANGED <<runs, sessions, parent, feedback, journal, countVars, callVars, heard>>
     \/ /\ route[run[c]] = input[c] /\ Goto(c, "answer")
        /\ UNCHANGED <<storeVars, countVars, callVars, heard>>

(* submitRoleCAssessment: the final answers repeat those that froze the     *)
(* route.  What is compared contains the number of the attempt, so that a  *)
(* session routed in its first attempt never takes a second one.           *)
AttemptOf(r) == IF parent = r THEN 2 ELSE 1
AnchorAnswers(i, n) == [input |-> i, attempt |-> n]

Submits ==
  /\ \E r \in Published \cap sessions, i \in Input, f \in Action :
       /\ parent \in {None, r} /\ AnchorAnswers(i, AttemptOf(r)) = AnchorAnswers(route[r], 1)
       /\ parent' = r /\ feedback' = f
  /\ UNCHANGED <<runs, sessions, route, journal, countVars, pc, callVars, heard>>

-----------------------------------------------------------------------------
(* continueRoleCAfterSubmission                                            *)

(* The session, the knowledge base and the run of the submission are there, *)
(* and so are a provider, a gateway and a runner.                           *)
Continue(c) ==
  /\ pc[c] = "idle" /\ parent # None /\ runs[parent] # 0
  /\ \E a \in {"continue", "continue_given"} : asked' = [asked EXCEPT ![c] = a]
  /\ Goto(c, "plan")
  /\ UNCHANGED <<storeVars, countVars, attempt, key, content, run, input, heard>>

(* Only "advance" lets role B plan.  The local planner puts Date.now() into *)
(* the name of the node, so that no two of its nodes have the same name,   *)
(* although the request it answers has a stable one.                       *)
Planned(n) == [kind |-> "planned", n |-> n]

PlansNode(c) ==
  /\ pc[c] = "plan"
  /\ \/ /\ asked[c] = "continue" /\ feedback = "advance" /\ plans < MaxPlans
        /\ plans' = plans + 1 /\ key' = [key EXCEPT ![c] = Planned(plans + 1)]
        /\ Goto(c, "refresh")
        /\ UNCHANGED <<storeVars, made, stops, attempt, asked, content, run, input, heard>>
     \/ asked[c] = "continue" /\ feedback = "advance" /\ Returns(c)
     \/ /\ asked[c] = "continue" /\ feedback # "advance"
        /\ key' = [key EXCEPT ![c] = Same] /\ Goto(c, "decide")
        /\ UNCHANGED <<storeVars, countVars, attempt, asked, content, run, input, heard>>
     \/ /\ asked[c] = "continue_given"
        /\ key' = [key EXCEPT ![c] = Given] /\ Goto(c, "refresh")
        /\ UNCHANGED <<storeVars, countVars, attempt, asked, content, run, input, heard>>

(* The evidence is complete and every objective has its facts, or the call  *)
(* ends.                                                                   *)
Refreshes(c) ==
  /\ pc[c] = "refresh"
  /\ \/ Returns(c)
     \/ Goto(c, "decide") /\ UNCHANGED <<storeVars, countVars, callVars, heard>>

(* What the preparation of the next round accepts: a new node for "advance" *)
(* and "reprofile", none for the others; a reprofile without one awaits it. *)
Prepared(k) == (feedback \in {"advance", "reprofile"}) <=> (k # Same)

(* The adaptive loop settles each key once, on a content or on a refusal,   *)
(* and answers a settled key as it was settled.                            *)
Settled(k) == journal[k] # 0

Undecided(c) == ~ Settled(key[c]) /\ made < MaxMade

Decides(c) ==
  /\ pc[c] = "decide" /\ Prepared(key[c]) /\ Undecided(c)
  /\ made' = made + 1
  /\ \E o \in {made + 1, Refused} : journal' = [journal EXCEPT ![key[c]] = o]
  /\ UNCHANGED <<runs, sessions, route, parent, feedback, plans, stops, pc, callVars, heard>>

(* Awaiting input, blocked by the preparation, refused, or an exception.    *)
EndsUndecided(c) ==
  /\ pc[c] = "decide"
  /\ Returns(c)

Activates(c) ==
  /\ pc[c] = "decide" /\ Prepared(key[c]) /\ journal[key[c]] \in Content
  /\ run' = [run EXCEPT ![c] = NextRun(key[c])]
  /\ content' = [content EXCEPT ![c] = journal[key[c]]]
  /\ Goto(c, "activate")
  /\ UNCHANGED <<storeVars, countVars, attempt, asked, key, input, heard>>

(* The run and the session of the next round, repeated until they are there. *)
RegistersNext(c) ==
  /\ pc[c] = "activate" /\ Bindable(run[c], content[c])
  /\ Bound(run[c], content[c]) /\ sessions' = sessions \cup {run[c]}
  /\ Goto(c, "handoff")
  /\ UNCHANGED <<route, parent, feedback, journal, countVars, callVars, heard>>

FailsToActivate(c) == pc[c] = "activate" /\ Returns(c)

(* The published run is read back for the answer.                           *)
HandsOff(c) ==
  /\ pc[c] = "handoff"
  /\ \/ Returns(c)
     \/ /\ runs[run[c]] # 0 /\ content' = [content EXCEPT ![c] = runs[run[c]]]
        /\ Goto(c, "answer")
        /\ UNCHANGED <<storeVars, countVars, attempt, asked, key, run, input, heard>>

-----------------------------------------------------------------------------
(* The answer reaches the caller, or is lost and the call is simply over.   *)
Said(c) ==
  CASE asked[c] = "route" -> {[of |-> "routed", run |-> run[c], input |-> input[c]]}
    [] asked[c] = "lab" -> {}   \* the checks that passed
    [] OTHER -> {[of |-> IF asked[c] = "generate" THEN "generate" ELSE "continue",
                  given |-> asked[c] = "continue_given",
                  run |-> run[c], content |-> content[c]]}

Answers(c) ==
  /\ pc[c] = "answer" /\ heard' = heard \cup Said(c)
  /\ Goto(c, "idle") /\ Reset(c) /\ UNCHANGED <<storeVars, countVars>>

LosesAnswer(c) == pc[c] = "answer" /\ Returns(c)

(* A stop of the process that serves all calls: the stores and the journal  *)
(* of the adaptive loop are in the data directory.                         *)
Kept_RunsOnly == UNCHANGED <<runs, sessions, route, parent, feedback>> /\ journal' = [k \in Key |-> 0]
Kept == UNCHANGED storeVars

Stops ==
  /\ stops < MaxStops /\ stops' = stops + 1
  /\ Kept
  /\ pc' = [c \in Caller |-> "idle"] /\ attempt' = [c \in Caller |-> 0]
  /\ asked' = [c \in Caller |-> "none"] /\ key' = [c \in Caller |-> Same]
  /\ content' = [c \in Caller |-> 0] /\ run' = [c \in Caller |-> None]
  /\ input' = [c \in Caller |-> None] /\ UNCHANGED <<made, plans, heard>>

Next ==
  \/ \E c \in Caller :
       \/ Generate(c) \/ Attempts(c) \/ Registers(c) \/ OpensSession(c)
       \/ Lab(c) \/ ExecutesLab(c) \/ Route(c) \/ LocksRoute(c)
       \/ Continue(c) \/ PlansNode(c) \/ Refreshes(c) \/ Decides(c)
       \/ EndsUndecided(c) \/ Activates(c) \/ RegistersNext(c) \/ FailsToActivate(c)
       \/ HandsOff(c) \/ Answers(c) \/ LosesAnswer(c)
  \/ Submits \/ Stops

Spec == Init /\ [][Next]_vars

-----------------------------------------------------------------------------
TypeOK ==
  /\ runs \in [Runs -> 0..MaxMade] /\ sessions \subseteq Runs
  /\ route \in [Runs -> Input \cup {None}] /\ input \in [Caller -> Input \cup {None}]
  /\ parent \in Runs \cup {None} /\ feedback \in Action \cup {None}
  /\ journal \in [Key -> 0..Refused]
  /\ made \in 0..MaxMade /\ plans \in 0..MaxPlans /\ stops \in 0..MaxStops
  /\ pc \in [Caller -> PC] /\ attempt \in [Caller -> Nat] /\ asked \in [Caller -> Asked]
  /\ key \in [Caller -> Key] /\ content \in [Caller -> 0..MaxMade]
  /\ run \in [Caller -> Runs \cup {None}] /\ heard \subseteq Answer

-----------------------------------------------------------------------------
(* What role D was told it can rely on, whatever other calls, lost answers  *)
(* and stops came after it: the run of every answer is registered and its  *)
(* session open, with the content or the route it answered.                *)
AnswersAreBacked ==
  \A a \in heard :
    /\ a.run \in sessions
    /\ IF a.of = "routed" THEN route[a.run] = a.input ELSE runs[a.run] = a.content

(* A round that is decided can still be registered and opened: the name it *)
(* will be bound to is never taken by another content, across the stops    *)
(* between the decision and the activation.                                *)
DecidedCanBeActivated ==
  \A k \in Key : journal[k] \in Content => Bindable(NextRun(k), journal[k])

(* No call, of whatever caller and however often repeated, gives another   *)
(* content to a run that was registered, or another route to a session     *)
(* whose items were already revealed by one.                               *)
RecordsAreKept ==
  [][\A r \in Runs : /\ runs[r] # 0 => runs'[r] = runs[r]
                     /\ route[r] # None => route'[r] = route[r]]_vars

(* The round the learner submitted is a round that was routed, and what    *)
(* follows is decided only after it.                                       *)
SubmittedWasRouted ==
  /\ parent # None => route[parent] # None /\ runs[parent] # 0
  /\ (\E k \in Key : journal[k] # 0) => parent # None
=============================================================================

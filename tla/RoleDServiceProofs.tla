-------------------------- MODULE RoleDServiceProofs --------------------------
(***************************************************************************)
(* Safety of RoleDService for every number of callers, answers, repeats,   *)
(* plans and stops.                                                        *)
(*                                                                         *)
(* The argument: a name, once bound, and a route, once frozen, are kept by *)
(* every step (Keeps).  So what a call has seen of the stores when it      *)
(* reaches a place in its program is still true when it answers (CallInv). *)
(* The name of a next round is bound only to what the journal holds under  *)
(* its key, and the journal is written once, while the name is still free  *)
(* (NamesInv).                                                             *)
(***************************************************************************)
EXTENDS RoleDService, TLAPS

USE ServiceAssumption

Carrying == {"register", "open", "lab", "lock", "activate", "handoff", "answer"}

AnswerInv(c) ==
  /\ asked[c] # "none"
  /\ asked[c] = "route" =>
       run[c] \in sessions /\ input[c] \in Input /\ route[run[c]] = input[c]
  /\ asked[c] \in {"generate", "continue", "continue_given"} =>
       run[c] \in sessions /\ content[c] \in Content /\ runs[run[c]] = content[c]
(* What a call knows at each place.                                        *)
CallInv(c) ==
  /\ pc[c] \in Carrying => run[c] \in Runs
  /\ pc[c] = "attempt" => asked[c] = "generate" /\ attempt[c] \in 1..MaxAttempts
  /\ pc[c] = "register" => /\ asked[c] = "generate" /\ content[c] \in Content
                           /\ \E k \in 1..MaxAttempts : run[c] = FirstRun(k)
  /\ pc[c] = "open" => /\ asked[c] = "generate" /\ content[c] \in Content
                       /\ runs[run[c]] = content[c]
  /\ pc[c] = "lab" => asked[c] = "lab"
  /\ pc[c] = "lock" => asked[c] = "route" /\ run[c] \in sessions /\ input[c] \in Input
  /\ pc[c] \in {"plan", "refresh", "decide", "activate", "handoff"} =>
       asked[c] \in {"continue", "continue_given"} /\ parent # None
  /\ pc[c] = "activate" => /\ run[c] = NextRun(key[c]) /\ content[c] \in Content
                           /\ journal[key[c]] = content[c]
  /\ pc[c] = "handoff" => run[c] \in sessions /\ runs[run[c]] # 0
  /\ pc[c] = "answer" => AnswerInv(c)


CallsInv == \A c \in Caller : CallInv(c)

(* A name of a next round is bound to what was decided under its key.      *)
NamesInv == \A k \in Key : runs[NextRun(k)] # 0 => runs[NextRun(k)] = journal[k]

HeardInv ==
  \A a \in heard : a.of = "routed" \/ a.content # 0

IInv == TypeOK /\ CallsInv /\ AnswersAreBacked /\ HeardInv /\ NamesInv /\ SubmittedWasRouted

-----------------------------------------------------------------------------
(* Names.                                                                  *)

LEMMA Names ==
  /\ \A k \in 1..MaxAttempts : FirstRun(k) \in Runs
  /\ \A k \in Key : NextRun(k) \in Runs
  /\ \A k \in Key, j \in Key : NextRun(k) = NextRun(j) => k = j
  /\ \A k \in 1..MaxAttempts, j \in Key : FirstRun(k) # NextRun(j)
  /\ Same \in Key /\ Given \in Key /\ Same # Given
  /\ \A n \in 1..MaxPlans : Planned(n) \in Key
<1>1. \A k \in Key, j \in Key : NextRun(k) = NextRun(j) => k = j
  <2> SUFFICES ASSUME NEW k \in Key, NEW j \in Key, NextRun(k) = NextRun(j) PROVE k = j
    OBVIOUS
  <2>1. NextRun(k).key = k /\ NextRun(j).key = j
    BY DEF NextRun
  <2> QED BY <2>1
<1>2. \A k \in 1..MaxAttempts, j \in Key : FirstRun(k) # NextRun(j)
  <2> SUFFICES ASSUME NEW k \in 1..MaxAttempts, NEW j \in Key PROVE FirstRun(k) # NextRun(j)
    OBVIOUS
  <2>1. FirstRun(k).first = TRUE /\ NextRun(j).first = FALSE
    BY DEF FirstRun, NextRun
  <2> QED BY <2>1
<1>3. /\ \A k \in 1..MaxAttempts : FirstRun(k) \in Runs
      /\ \A k \in Key : NextRun(k) \in Runs
  BY DEF Runs
<1>4. Same \in Key /\ Given \in Key /\ Same # Given
  BY DEF Same, Given, Key
<1>5. \A n \in 1..MaxPlans : Planned(n) \in Key
  BY DEF Planned, Key
<1> QED BY <1>1, <1>2, <1>3, <1>4, <1>5

(* Each published name and content, and who may call.                      *)
LEMMA InitInv == Init => IInv
<1> SUFFICES ASSUME Init PROVE IInv
  OBVIOUS
<1>1. TypeOK
  BY Names DEF Init, TypeOK, PC, Asked, Refused
<1>2. CallsInv
  BY DEF Init, CallsInv, CallInv, Carrying
<1>3. NamesInv
  BY Names DEF Init, NamesInv
<1>4. AnswersAreBacked /\ HeardInv /\ SubmittedWasRouted
  BY DEF Init, AnswersAreBacked, HeardInv, SubmittedWasRouted
<1> QED BY <1>1, <1>2, <1>3, <1>4 DEF IInv

-----------------------------------------------------------------------------
(* What no step undoes.                                                    *)
Keeps ==
  /\ \A r \in Runs : /\ runs[r] # 0 => runs'[r] = runs[r]
                     /\ route[r] # None => route'[r] = route[r]
  /\ sessions \subseteq sessions'
  /\ \A k \in Key : journal[k] # 0 => journal'[k] = journal[k]
  /\ heard \subseteq heard'
  /\ parent # None => parent' # None

CallStep(c) ==
  \/ Generate(c) \/ Attempts(c) \/ Registers(c) \/ OpensSession(c)
  \/ Lab(c) \/ ExecutesLab(c) \/ Route(c) \/ LocksRoute(c)
  \/ Continue(c) \/ PlansNode(c) \/ Refreshes(c) \/ Decides(c)
  \/ EndsUndecided(c) \/ Activates(c) \/ RegistersNext(c) \/ FailsToActivate(c)
  \/ HandsOff(c) \/ Answers(c) \/ LosesAnswer(c)

(* Every step keeps the types.                                             *)
LEMMA StepType ==
  ASSUME TypeOK, CallsInv, NEW c \in Caller, CallStep(c)
  PROVE  TypeOK'
<1> USE Names DEF TypeOK, PC, Asked, Goto, storeVars, countVars, callVars
<1>r. CallInv(c)
  BY DEF CallsInv
<1>0. CASE Returns(c)
  BY <1>0 DEF Returns, Reset
<1>1. CASE Generate(c)
  BY <1>1 DEF Generate
<1>2. CASE Attempts(c)
  <2>1. FirstRun(attempt[c]) \in Runs
    BY <1>2, <1>r DEF Attempts, CallInv
  <2>2. made < MaxMade => made + 1 \in 0..MaxMade
    OBVIOUS
  <2> HIDE DEF FirstRun, Runs
  <2> QED BY <1>2, <1>0, <2>1, <2>2 DEF Attempts, AttemptRun
<1>3. CASE Registers(c)
  BY <1>3, <1>0, <1>r DEF Registers, RefusesRun, Bound, CallInv, Carrying
<1>4. CASE OpensSession(c)
  <2>1. run[c] \in Runs
    BY <1>4, <1>r DEF OpensSession, CallInv, Carrying
  <2> QED BY <1>4, <1>0, <2>1 DEF OpensSession
<1>5. CASE Lab(c)
  BY <1>5 DEF Lab, Executable
<1>6. CASE ExecutesLab(c)
  BY <1>6, <1>0 DEF ExecutesLab
<1>7. CASE Route(c)
  BY <1>7 DEF Route, Routable
<1>8. CASE LocksRoute(c)
  BY <1>8, <1>0 DEF LocksRoute
<1>9. CASE Continue(c)
  BY <1>9 DEF Continue
<1>10. CASE PlansNode(c)
  <2>1. ASSUME plans < MaxPlans PROVE plans + 1 \in 0..MaxPlans /\ Planned(plans + 1) \in Key
    <3>1. plans + 1 \in 1..MaxPlans
      BY <2>1
    <3> QED BY <3>1
  <2>2. ASSUME NEW k \in Key, key' = [key EXCEPT ![c] = k] PROVE key' \in [Caller -> Key]
    BY <2>2
  <2>3. key' = key \/ (\E k \in Key : key' = [key EXCEPT ![c] = k])
    BY <1>10, <2>1 DEF PlansNode, Returns, Reset
  <2> HIDE DEF Key, Same, Given, Planned
  <2>4. key' \in [Caller -> Key] /\ plans' \in 0..MaxPlans
    BY <1>10, <2>1, <2>2, <2>3 DEF PlansNode, Returns
  <2>5. pc' \in [Caller -> PC]
    BY <1>10 DEF PlansNode, Returns
  <2>6. /\ attempt' \in [Caller -> Nat] /\ asked' \in [Caller -> Asked]
        /\ content' \in [Caller -> 0..MaxMade] /\ run' \in [Caller -> Runs \cup {None}]
        /\ input' \in [Caller -> Input \cup {None}]
    BY <1>10 DEF PlansNode, Returns, Reset
  <2> QED BY <1>10, <2>4, <2>5, <2>6 DEF PlansNode, Returns
<1>11. CASE Refreshes(c)
  BY <1>11, <1>0 DEF Refreshes
<1>12. CASE Decides(c)
  BY <1>12 DEF Decides, Undecided, Refused
<1>13. CASE EndsUndecided(c)
  BY <1>13, <1>0 DEF EndsUndecided
<1>14. CASE Activates(c)
  BY <1>14 DEF Activates, Content
<1>15. CASE RegistersNext(c)
  BY <1>15, <1>r DEF RegistersNext, Bound, CallInv, Carrying
<1>16. CASE FailsToActivate(c)
  BY <1>16, <1>0 DEF FailsToActivate
<1>17. CASE HandsOff(c)
  BY <1>17, <1>0, <1>r DEF HandsOff, CallInv, Carrying
<1>18. CASE Answers(c)
  <2>0. AnswerInv(c) /\ run[c] \in Runs /\ asked[c] # "none"
    BY <1>18, <1>r DEF Answers, CallInv, AnswerInv, Carrying
  <2>1. Said(c) \subseteq Answer
    <3>a. CASE asked[c] = "route"
      BY <3>a, <2>0 DEF Said, Answer, AnswerInv
    <3>b. CASE asked[c] = "lab"
      BY <3>b DEF Said
    <3>c. CASE asked[c] \notin {"route", "lab"}
      <4>1. content[c] \in Content
        BY <3>c, <2>0 DEF AnswerInv
      <4> DEFINE a == [of |-> IF asked[c] = "generate" THEN "generate" ELSE "continue",
                       given |-> asked[c] = "continue_given",
                       run |-> run[c], content |-> content[c]]
      <4>2. a \in Answer
        BY <4>1, <2>0 DEF Answer
      <4> QED BY <4>2, <3>c DEF Said
    <3> QED BY <3>a, <3>b, <3>c
  <2> QED BY <1>18, <2>1 DEF Answers, Reset
<1>19. CASE LosesAnswer(c)
  BY <1>19, <1>0 DEF LosesAnswer
<1> QED BY <1>1, <1>2, <1>3, <1>4, <1>5, <1>6, <1>7, <1>8, <1>9, <1>10, <1>11, <1>12,
           <1>13, <1>14, <1>15, <1>16, <1>17, <1>18, <1>19 DEF CallStep

(* Every step changes at most one of the stores, and only where it is empty. *)
LEMMA StepKeeps ==
  ASSUME TypeOK, CallsInv, NEW c \in Caller, CallStep(c)
  PROVE  Keeps
<1> USE Names DEF TypeOK, Keeps, storeVars, Carrying
<1>r. CallInv(c)
  BY DEF CallsInv
<1>1. CASE Registers(c)
  BY <1>1, <1>r DEF Registers, RefusesRun, Returns, Bindable, Bound, CallInv
<1>2. CASE OpensSession(c)
  BY <1>2 DEF OpensSession, Returns
<1>3. CASE LocksRoute(c)
  BY <1>3, <1>r DEF LocksRoute, Lockable, Returns, CallInv
<1>4. CASE Decides(c)
  BY <1>4 DEF Decides, Undecided, Settled
<1>5. CASE RegistersNext(c)
  BY <1>5, <1>r DEF RegistersNext, Bindable, Bound, CallInv
<1>6. CASE Answers(c)
  BY <1>6 DEF Answers
<1>7. CASE \/ Generate(c) \/ Attempts(c) \/ Lab(c) \/ ExecutesLab(c) \/ Route(c)
  BY <1>7 DEF Generate, Attempts, Returns, Lab, ExecutesLab, Route
<1>8. CASE \/ Continue(c) \/ PlansNode(c) \/ Refreshes(c) \/ EndsUndecided(c) \/ Activates(c)
           \/ FailsToActivate(c) \/ HandsOff(c) \/ LosesAnswer(c)
  BY <1>8 DEF Continue, PlansNode, Returns, Refreshes, EndsUndecided, Activates,
     FailsToActivate, HandsOff, LosesAnswer
<1> QED BY <1>1, <1>2, <1>3, <1>4, <1>5, <1>6, <1>7, <1>8 DEF CallStep

(* A call that does not move keeps what it knows.                          *)
LEMMA Stays ==
  ASSUME TypeOK, Keeps, NEW c \in Caller, CallInv(c),
         <<pc[c], attempt[c], asked[c], key[c], content[c], run[c], input[c]>>'
           = <<pc[c], attempt[c], asked[c], key[c], content[c], run[c], input[c]>>
  PROVE  CallInv(c)'
<1>1. /\ pc'[c] = pc[c] /\ attempt'[c] = attempt[c] /\ asked'[c] = asked[c]
      /\ key'[c] = key[c] /\ content'[c] = content[c] /\ run'[c] = run[c] /\ input'[c] = input[c]
  OBVIOUS
<1>2. run[c] \in Runs /\ runs[run[c]] # 0 => runs'[run[c]] = runs[run[c]]
  BY DEF Keeps
<1>3. run[c] \in Runs /\ route[run[c]] # None => route'[run[c]] = route[run[c]]
  BY DEF Keeps
<1>4. key[c] \in Key
  BY DEF TypeOK
<1>5. journal[key[c]] # 0 => journal'[key[c]] = journal[key[c]]
  BY <1>4 DEF Keeps
<1>6. sessions \subseteq sessions' /\ (parent # None => parent' # None)
  BY DEF Keeps
<1>7. 0 \notin Content /\ None \notin Input
  BY DEF Content
<1>8. AnswerInv(c) /\ run[c] \in Runs => AnswerInv(c)'
  BY <1>1, <1>2, <1>3, <1>6, <1>7 DEF AnswerInv, Content
<1> QED BY <1>1, <1>2, <1>3, <1>5, <1>6, <1>7, <1>8 DEF CallInv, Carrying, Content

(* A call that moves knows at its next place what it has to.               *)
LEMMA Moves ==
  ASSUME TypeOK, TypeOK', CallsInv, AnswersAreBacked, HeardInv, SubmittedWasRouted,
         Keeps, NEW c \in Caller, CallStep(c)
  PROVE  CallInv(c)'
<1> USE Names DEF TypeOK, Goto, CallInv, AnswerInv, Carrying
<1>r. CallInv(c)
  BY DEF CallsInv
<1>0. CASE Returns(c)
  BY <1>0 DEF Returns
<1>1. CASE Generate(c)
  BY <1>1 DEF Generate
<1>2. CASE Attempts(c)
  BY <1>2, <1>0, <1>r DEF Attempts, AttemptRun, Content
<1>3. CASE Registers(c)
  BY <1>3, <1>0, <1>r DEF Registers, RefusesRun, Bound, callVars
<1>4. CASE OpensSession(c)
  BY <1>4, <1>0, <1>r DEF OpensSession, callVars
<1>5. CASE Lab(c)
  BY <1>5 DEF Lab, Executable
<1>6. CASE ExecutesLab(c)
  BY <1>6, <1>0, <1>r DEF ExecutesLab, callVars, countVars, storeVars
<1>7. CASE Route(c)
  BY <1>7 DEF Route, Routable, storeVars
<1>8. CASE LocksRoute(c)
  BY <1>8, <1>0, <1>r DEF LocksRoute, callVars, storeVars
<1>9. CASE Continue(c)
  BY <1>9 DEF Continue, storeVars
<1>10. CASE PlansNode(c)
  BY <1>10, <1>0, <1>r DEF PlansNode, storeVars, countVars
<1>11. CASE Refreshes(c)
  BY <1>11, <1>0, <1>r DEF Refreshes, storeVars, countVars, callVars
<1>12. CASE Decides(c)
  BY <1>12, <1>r DEF Decides, callVars
<1>13. CASE EndsUndecided(c)
  BY <1>13, <1>0 DEF EndsUndecided
<1>14. CASE Activates(c)
  BY <1>14, <1>r DEF Activates, storeVars
<1>15. CASE RegistersNext(c)
  BY <1>15, <1>r DEF RegistersNext, Bound, callVars, Content
<1>16. CASE FailsToActivate(c)
  BY <1>16, <1>0 DEF FailsToActivate
<1>17. CASE HandsOff(c)
  BY <1>17, <1>0, <1>r DEF HandsOff, storeVars, Content
<1>18. CASE Answers(c)
  BY <1>18 DEF Answers
<1>19. CASE LosesAnswer(c)
  BY <1>19, <1>0 DEF LosesAnswer
<1> QED BY <1>1, <1>2, <1>3, <1>4, <1>5, <1>6, <1>7, <1>8, <1>9, <1>10, <1>11, <1>12,
           <1>13, <1>14, <1>15, <1>16, <1>17, <1>18, <1>19 DEF CallStep

LEMMA StepCalls ==
  ASSUME TypeOK, TypeOK', CallsInv, AnswersAreBacked, HeardInv, SubmittedWasRouted,
         Keeps, NEW c \in Caller, CallStep(c)
  PROVE  CallsInv'
<1> SUFFICES ASSUME NEW d \in Caller PROVE CallInv(d)'
  BY DEF CallsInv
<1>1. CASE d = c
  BY <1>1, Moves
<1>2. CASE d # c
  <2>1. <<pc[d], attempt[d], asked[d], key[d], content[d], run[d], input[d]>>'
          = <<pc[d], attempt[d], asked[d], key[d], content[d], run[d], input[d]>>
    <3> USE <1>2 DEF TypeOK, Goto, callVars
    <3>0. CASE Returns(c)
      BY <3>0 DEF Returns, Reset
    <3>1. CASE Generate(c) \/ Attempts(c) \/ Registers(c) \/ OpensSession(c)
      BY <3>0, <3>1 DEF Generate, Attempts, Registers, RefusesRun, OpensSession
    <3>2. CASE Lab(c) \/ ExecutesLab(c) \/ Route(c) \/ LocksRoute(c)
      BY <3>0, <3>2 DEF Lab, ExecutesLab, Route, LocksRoute
    <3>3. CASE Continue(c) \/ PlansNode(c) \/ Refreshes(c) \/ Decides(c)
      BY <3>0, <3>3 DEF Continue, PlansNode, Refreshes, Decides
    <3>4. CASE EndsUndecided(c) \/ Activates(c) \/ RegistersNext(c) \/ FailsToActivate(c)
      BY <3>0, <3>4 DEF EndsUndecided, Activates, RegistersNext, FailsToActivate
    <3>5. CASE HandsOff(c) \/ Answers(c) \/ LosesAnswer(c)
      BY <3>0, <3>5 DEF HandsOff, Answers, Reset, LosesAnswer
    <3> QED BY <3>1, <3>2, <3>3, <3>4, <3>5 DEF CallStep
  <2> QED BY <2>1, Stays DEF CallsInv
<1> QED BY <1>1, <1>2

-----------------------------------------------------------------------------
(* What was heard, what is bound and what was submitted.                   *)

(* What is kept keeps what was heard.                                      *)
LEMMA KeptHeard ==
  ASSUME TypeOK, Keeps, AnswersAreBacked, HeardInv, heard' = heard
  PROVE  AnswersAreBacked' /\ HeardInv'
<1>1. HeardInv'
  BY DEF HeardInv
<1>2. ASSUME NEW a \in heard
      PROVE  /\ a.run \in sessions'
             /\ IF a.of = "routed" THEN route'[a.run] = a.input ELSE runs'[a.run] = a.content
  <2>1. a.run \in sessions /\ a.run \in Runs
    BY DEF AnswersAreBacked, TypeOK
  <2>2. a.of = "routed" => a.input \in Input
    BY DEF TypeOK, Answer
  <2>3. a.of = "routed" => route[a.run] = a.input /\ route[a.run] # None
    BY <2>2 DEF AnswersAreBacked
  <2>4. a.of # "routed" => runs[a.run] = a.content /\ runs[a.run] # 0
    BY DEF AnswersAreBacked, HeardInv
  <2> QED BY <2>1, <2>3, <2>4 DEF Keeps
<1> QED BY <1>1, <1>2 DEF AnswersAreBacked

LEMMA StepHeard ==
  ASSUME TypeOK, Keeps, CallsInv, AnswersAreBacked, HeardInv, NEW c \in Caller, CallStep(c)
  PROVE  AnswersAreBacked' /\ HeardInv'
<1>1. CASE Answers(c)
  <2>1. pc[c] = "answer" /\ heard' = heard \cup Said(c) /\ UNCHANGED storeVars
    BY <1>1 DEF Answers
  <2>2. AnswerInv(c)
    BY <2>1 DEF CallsInv, CallInv
  <2>3. ASSUME NEW a \in Said(c)
        PROVE  /\ a.run \in sessions
               /\ a.of = "routed" \/ a.content # 0
               /\ IF a.of = "routed" THEN route[a.run] = a.input ELSE runs[a.run] = a.content
    <3>1. CASE asked[c] = "route"
      BY <3>1, <2>2 DEF Said, AnswerInv
    <3>2. CASE asked[c] = "lab"
      BY <3>2 DEF Said
    <3>3. CASE asked[c] \notin {"route", "lab"}
      <4>1. asked[c] \in {"generate", "continue", "continue_given"}
        BY <3>3, <2>2 DEF TypeOK, Asked, AnswerInv
      <4>2. a.of # "routed" /\ a.run = run[c] /\ a.content = content[c]
        BY <3>3 DEF Said
      <4> QED BY <4>1, <4>2, <2>2 DEF AnswerInv, Content
    <3> QED BY <3>1, <3>2, <3>3
  <2> QED BY <2>1, <2>3 DEF storeVars, AnswersAreBacked, HeardInv
<1>2. CASE heard' = heard
  BY <1>2, KeptHeard
<1>3. ~Answers(c) => heard' = heard
  BY DEF CallStep, Returns, Generate, Attempts, Registers, RefusesRun, OpensSession, Lab,
     ExecutesLab, Route, LocksRoute, Continue, PlansNode, Refreshes, Decides, EndsUndecided,
     Activates, RegistersNext, FailsToActivate, HandsOff, LosesAnswer
<1> QED BY <1>1, <1>2, <1>3

LEMMA StepNames ==
  ASSUME TypeOK, CallsInv, NamesInv, NEW c \in Caller, CallStep(c)
  PROVE  NamesInv'
<1> USE Names DEF TypeOK, NamesInv, storeVars
<1>r. CallInv(c)
  BY DEF CallsInv
<1>1. CASE Registers(c)
  <2>1. CASE Returns(c)
    BY <2>1 DEF Returns
  <2>2. CASE Bound(run[c], content[c]) /\ journal' = journal
    <3>1. PICK k \in 1..MaxAttempts : run[c] = FirstRun(k)
      BY <1>1, <1>r DEF Registers, CallInv
    <3> QED BY <2>2, <3>1 DEF Bound
  <2> QED BY <1>1, <2>1, <2>2 DEF Registers, RefusesRun
<1>2. CASE Decides(c)
  BY <1>2 DEF Decides, Undecided, Settled
<1>3. CASE RegistersNext(c)
  <2>1. run[c] = NextRun(key[c]) /\ journal[key[c]] = content[c]
    BY <1>3, <1>r DEF RegistersNext, CallInv
  <2> QED BY <1>3, <2>1 DEF RegistersNext, Bound
<1>4. CASE runs' = runs /\ journal' = journal
  BY <1>4
<1>5. \/ Registers(c) \/ Decides(c) \/ RegistersNext(c)
      \/ runs' = runs /\ journal' = journal
  BY DEF CallStep, Returns, Generate, Attempts, OpensSession, Lab,
     ExecutesLab, Route, LocksRoute, Continue, PlansNode, Refreshes, EndsUndecided,
     Activates, FailsToActivate, HandsOff, Answers, LosesAnswer
<1> QED BY <1>1, <1>2, <1>3, <1>4, <1>5

LEMMA StepSubmitted ==
  ASSUME TypeOK, Keeps, CallsInv, SubmittedWasRouted, NEW c \in Caller, CallStep(c)
  PROVE  SubmittedWasRouted'
<1>r. CallInv(c)
  BY DEF CallsInv
<1>1. parent' = parent
  BY DEF CallStep, Returns, storeVars, Generate, Attempts, Registers, RefusesRun, OpensSession,
     Lab, ExecutesLab, Route, LocksRoute, Continue, PlansNode, Refreshes, Decides, EndsUndecided,
     Activates, RegistersNext, FailsToActivate, HandsOff, Answers, LosesAnswer
<1>2. parent # None => parent \in Runs
  BY DEF TypeOK
<1>3. parent' # None => route'[parent'] # None /\ runs'[parent'] # 0
  BY <1>1, <1>2 DEF Keeps, SubmittedWasRouted
<1>4. CASE Decides(c)
  <2>1. parent # None
    BY <1>4, <1>r DEF Decides, CallInv
  <2> QED BY <2>1, <1>1, <1>3 DEF SubmittedWasRouted
<1>5. CASE journal' = journal
  BY <1>5, <1>1, <1>3 DEF SubmittedWasRouted
<1>6. Decides(c) \/ journal' = journal
  BY DEF CallStep, Returns, storeVars, Generate, Attempts, Registers, RefusesRun, OpensSession,
     Lab, ExecutesLab, Route, LocksRoute, Continue, PlansNode, Refreshes, EndsUndecided,
     Activates, RegistersNext, FailsToActivate, HandsOff, Answers, LosesAnswer
<1> QED BY <1>4, <1>5, <1>6

-----------------------------------------------------------------------------
(* Submissions and stops.                                                  *)

LEMMA SubmitsInv == ASSUME IInv, Submits PROVE IInv' /\ Keeps
<1> USE DEF IInv
<1>1. PICK r \in Published \cap sessions, i \in Input, f \in Action :
        /\ parent \in {None, r} /\ AnchorAnswers(i, AttemptOf(r)) = AnchorAnswers(route[r], 1)
        /\ parent' = r /\ feedback' = f
  BY DEF Submits
<1>2. UNCHANGED <<runs, sessions, route, journal, countVars, pc, callVars, heard>>
  BY DEF Submits
<1>3. r \in Runs
  BY DEF TypeOK
<1>4. TypeOK'
  BY <1>1, <1>2, <1>3 DEF TypeOK, countVars, callVars
<1>5. route[r] = i
  BY <1>1 DEF AnchorAnswers
<1>6. runs[r] # 0
  <2>1. PICK a \in heard : a.of = "generate" /\ a.run = r
    BY <1>1 DEF Published
  <2> QED BY <2>1 DEF AnswersAreBacked, HeardInv
<1>7. r # None
  BY <1>3
<1>8. Keeps
  BY <1>1, <1>2, <1>7 DEF Keeps
<1>9. CallsInv'
  BY <1>2, <1>8, Stays DEF CallsInv, callVars
<1>10. AnswersAreBacked' /\ HeardInv' /\ NamesInv'
  BY <1>2, <1>8, KeptHeard DEF NamesInv
<1>11. SubmittedWasRouted'
  BY <1>1, <1>2, <1>5, <1>6, <1>7 DEF SubmittedWasRouted
<1> QED BY <1>4, <1>8, <1>9, <1>10, <1>11

(* The stores survive a stop, the calls do not.                            *)
LEMMA StopsInv == ASSUME IInv, Stops PROVE IInv' /\ Keeps
<1> USE DEF IInv
<1>1. UNCHANGED <<storeVars, made, plans, heard>> /\ stops < MaxStops /\ stops' = stops + 1
  BY DEF Stops, Kept
<1>2. /\ pc' = [c \in Caller |-> "idle"] /\ attempt' = [c \in Caller |-> 0]
      /\ asked' = [c \in Caller |-> "none"] /\ key' = [c \in Caller |-> Same]
      /\ content' = [c \in Caller |-> 0] /\ run' = [c \in Caller |-> None]
      /\ input' = [c \in Caller |-> None]
  BY DEF Stops
<1>3. TypeOK'
  BY <1>1, <1>2, Names DEF TypeOK, storeVars, PC, Asked
<1>4. CallsInv'
  BY <1>2 DEF CallsInv, CallInv, Carrying
<1>5. Keeps
  BY <1>1 DEF Keeps, storeVars
<1>6. AnswersAreBacked' /\ HeardInv' /\ NamesInv' /\ SubmittedWasRouted'
  BY <1>1 DEF storeVars, AnswersAreBacked, HeardInv, NamesInv, SubmittedWasRouted
<1> QED BY <1>3, <1>4, <1>5, <1>6

LEMMA NextInv == IInv /\ [Next]_vars => IInv' /\ Keeps
<1> SUFFICES ASSUME IInv, [Next]_vars PROVE IInv' /\ Keeps
  OBVIOUS
<1>1. ASSUME NEW c \in Caller, CallStep(c) PROVE IInv' /\ Keeps
  <2>1. TypeOK'
    BY <1>1, StepType DEF IInv
  <2>2. Keeps
    BY <1>1, StepKeeps DEF IInv
  <2>3. CallsInv'
    BY <1>1, <2>1, <2>2, StepCalls DEF IInv
  <2>4. AnswersAreBacked' /\ HeardInv'
    BY <1>1, <2>2, StepHeard DEF IInv
  <2>5. NamesInv' /\ SubmittedWasRouted'
    BY <1>1, <2>2, StepNames, StepSubmitted DEF IInv
  <2> QED BY <2>1, <2>2, <2>3, <2>4, <2>5 DEF IInv
<1>2. CASE Submits
  BY <1>2, SubmitsInv
<1>3. CASE Stops
  BY <1>3, StopsInv
<1>4. CASE UNCHANGED vars
  <2>1. UNCHANGED <<storeVars, countVars, pc, callVars, heard>>
    BY <1>4 DEF vars
  <2>2. Keeps
    BY <2>1 DEF Keeps, storeVars
  <2>3. TypeOK'
    BY <2>1 DEF IInv, TypeOK, storeVars, countVars, callVars
  <2>4. CallsInv'
    BY <2>1, <2>2, Stays DEF IInv, CallsInv, callVars
  <2>5. AnswersAreBacked' /\ HeardInv' /\ NamesInv' /\ SubmittedWasRouted'
    BY <2>1 DEF IInv, storeVars, AnswersAreBacked, HeardInv, NamesInv, SubmittedWasRouted
  <2> QED BY <2>2, <2>3, <2>4, <2>5 DEF IInv
<1> QED BY <1>1, <1>2, <1>3, <1>4 DEF Next, CallStep

-----------------------------------------------------------------------------
LEMMA InvHolds == Spec => []IInv
BY InitInv, NextInv, PTL DEF Spec

(* Every variable keeps its type.                                          *)
THEOREM TypesHold == Spec => []TypeOK
<1>1. IInv => TypeOK
  BY DEF IInv
<1> QED BY <1>1, InvHolds, PTL

(* Whatever is asked, repeated, lost or stopped: what role D was answered  *)
(* is registered and open, with the content or the route it was told.      *)
THEOREM AnswersStayTrue == Spec => []AnswersAreBacked
<1>1. IInv => AnswersAreBacked
  BY DEF IInv
<1> QED BY <1>1, InvHolds, PTL

(* A decided round is never shut out of the name it is registered under:   *)
(* the name is free, or bound to it already.                               *)
THEOREM DecidedStaysOpen == Spec => []DecidedCanBeActivated
<1>1. IInv => DecidedCanBeActivated
  <2> SUFFICES ASSUME IInv, NEW k \in Key, journal[k] \in Content
               PROVE  Bindable(NextRun(k), journal[k])
    BY DEF DecidedCanBeActivated
  <2> QED BY DEF IInv, NamesInv, Bindable
<1> QED BY <1>1, InvHolds, PTL

(* The round that is submitted was routed by anchors before, and what      *)
(* follows is decided only after a submission.                             *)
THEOREM OnlyRoutedIsSubmitted == Spec => []SubmittedWasRouted
<1>1. IInv => SubmittedWasRouted
  BY DEF IInv
<1> QED BY <1>1, InvHolds, PTL

(* Runs, once registered, keep their content and sessions, once routed,    *)
(* their route.                                                            *)
THEOREM RecordsStay == Spec => RecordsAreKept
<1>1. IInv /\ [Next]_vars =>
        [\A r \in Runs : /\ runs[r] # 0 => runs'[r] = runs[r]
                         /\ route[r] # None => route'[r] = route[r]]_vars
  BY NextInv DEF Keeps
<1> QED BY <1>1, InvHolds, PTL DEF Spec, RecordsAreKept
=============================================================================

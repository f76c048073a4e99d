------------------------- MODULE VerifiedAuthoring -------------------------
(***************************************************************************)
(* DraftAuthoring with the verifier's executions in place of its finding:  *)
(* the reference of a pair is run in a container and, for a lab, then the  *)
(* starter; what the runner says of both is the finding.                   *)
(***************************************************************************)
EXTENDS DraftAuthoring, Sequences

CONSTANTS
  MaxRetries,  \* repetitions of an execution
  Budget,      \* output a command may give, in chunks
  Removals     \* tries to remove a container

ASSUME RunnerAssumption == {MaxRetries, Budget} \subseteq Nat /\ Removals \in Nat \ {0}

VARIABLES
  executor, policy, good, stage, cli, box, exit, room, timer, late, over,
  removal, failed, early, verdicts, left, excused,
  subject,    \* program that is being run: "none", "reference", "starter"
  reference   \* what was found of the reference

R == INSTANCE CodeRunner

verifierVars == <<subject, reference>>
runnerVars == <<executor, policy, good, stage, cli, box, exit, room, timer, late, over,
                removal, failed, early, verdicts, left, excused>>
verifiedVars == <<vars, runnerVars, verifierVars>>

VInit == Init /\ R!Init /\ subject = "none" /\ reference = "none"

(* An execution that times out or that the runner cannot judge says nothing *)
(* about the program, and is found broken.                                 *)
Heard_Lenient(verdict) == IF verdict = "failed" THEN "failed" ELSE "passed"
Heard(verdict) == IF verdict \in {"passed", "failed"} THEN verdict ELSE "broken"
Answer == Heard(verdicts[Len(verdicts)])

(* A starter with a task in it fails its tests; a whole one passes them if *)
(* the tests are right.                                                    *)
Passes(starter) ==
  IF starter = "todo" THEN {FALSE} ELSE IF draft.sec.right THEN {TRUE} ELSE BOOLEAN

RunsReference ==
  /\ phase = "verify" /\ subject = "none" /\ subject' = "reference"
  /\ R!Asks("trusted", draft.sec.right)
  /\ UNCHANGED <<vars, reference>>

HearsReference ==
  /\ subject = "reference" /\ stage = "answered" /\ R!Taken
  /\ IF job = "assessment"
     THEN Finds(Answer, "failed") /\ subject' = "none" /\ UNCHANGED reference
     ELSE subject' = "between" /\ reference' = Answer /\ UNCHANGED vars

RunsStarter ==
  /\ subject = "between" /\ subject' = "starter"
  /\ \E passes \in Passes(draft.pub.starter) : R!Asks("learner", passes)
  /\ UNCHANGED <<vars, reference>>

HearsStarter ==
  /\ subject = "starter" /\ stage = "answered" /\ R!Taken
  /\ Finds(reference, Answer)
  /\ subject' = "none" /\ reference' = "none"

Verifier == RunsReference \/ HearsReference \/ RunsStarter \/ HearsStarter
Author ==
  /\ \/ Incompatible \/ Starts \/ Merges \/ Repairs \/ GivesUp \/ Finalizes
     \/ \E t \in Thread : ThreadStep(t)
  /\ UNCHANGED <<runnerVars, verifierVars>>
RunnerActs == R!Acts /\ UNCHANGED <<vars, verifierVars>>
DockerActs == R!Happens /\ UNCHANGED <<vars, verifierVars>>

VNext == Author \/ Verifier \/ RunnerActs \/ DockerActs
VSpec == VInit /\ [][VNext]_verifiedVars

(* Every request is answered or given up in the end, timers fire, a        *)
(* command that was killed exits, and the event loop runs what is ready.   *)
(* Nothing is asked of docker or of the program that runs.                 *)
FairVSpec == VSpec /\ WF_verifiedVars(Author \/ Verifier) /\ WF_verifiedVars(RunnerActs)
-----------------------------------------------------------------------------
(* A pass is earned by a program that ran to its end, a verdict that is not *)
(* the runner's own error is final, and a container stays behind for a     *)
(* cause only, in whatever order the timer, the output, the exit and the   *)
(* removals of every attempt were heard of.                                *)
RunnerKeepsItsWord == R!PassIsEarned /\ R!VerdictIsFinal /\ R!LeftForCause

(* The verifier with its containers finds only what DraftAuthoring allows   *)
(* it to find, once for each pair, while nothing else of the call moves.   *)
ImplementsAuthoring == Spec

(* The call ends, the threads a failure left behind end too, and a call of *)
(* the runner is answered - but for an execution under the "bun" executor  *)
(* whose command was only asked to stop and whose container could not be   *)
(* removed in as many tries as there are, or came after its removal: that  *)
(* one waits for the program.                                              *)
Waiting == executor = "bun" /\ cli = "told" /\ box # "gone" /\ removal = "done"
CallEnds ==
  <>[](phase = "ended" /\ (\A t \in Thread : at[t] = "off") /\ stage = "idle") \/ <>[]Waiting
=============================================================================

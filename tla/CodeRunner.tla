----------------------------- MODULE CodeRunner -----------------------------
(***************************************************************************)
(* One program executed in a container, with its retries: the checks before *)
(* it, the docker command line (cli), the container behind it (box), the   *)
(* output budget that stdout and stderr share, the timer, the forced       *)
(* removal of the container and the verdict.  The two executors differ in  *)
(* how they stop the command: "node" kills it, "bun" asks it to stop.      *)
(*                                                                         *)
(* Docker is outside the repository.  A container that was asked for may    *)
(* appear after the command was killed; removing one that is not there may *)
(* answer success or failure; a command that is asked to stop may stay      *)
(* until its container is gone; a command may lose its container.           *)
(***************************************************************************)
EXTENDS Naturals, Sequences, SequencesExt

CONSTANTS
  MaxRetries,   \* repetitions of an execution
  Budget,       \* output a command may give, in chunks of one
  Removals      \* times the removal of a container is tried

Verdicts == {"passed", "failed", "timeout", "runner_error"}

VARIABLES
  executor,     \* which of the two runs the commands
  policy, good, \* who wrote the program; whether it passes its tests within its limits
  stage,        \* idle, asked, running, settled, answered
  cli, box,     \* the command and its container
  exit,         \* exit code of the command
  room,         \* output that is still accepted
  timer, late,  \* armed; fired
  over,         \* output was cut
  removal, failed, \* the forced removal, its failures
  early,        \* the removal answered success before there was a container
  verdicts,     \* of the attempts of this call
  left, excused \* attempts that ended with a container; that could not help it

execVars == <<cli, box, exit, room, timer, late, over, removal, failed, early>>
runnerVars == <<executor, policy, good, stage, execVars, verdicts, left, excused>>

Blank ==
  /\ cli' = "none" /\ box' = "none" /\ exit' = "none" /\ room' = Budget
  /\ timer' = FALSE /\ late' = FALSE /\ over' = FALSE
  /\ removal' = "off" /\ failed' = 0 /\ early' = FALSE

Init ==
  /\ executor \in {"node", "bun"} /\ policy = "learner" /\ good = FALSE
  /\ stage = "idle" /\ cli = "none" /\ box = "none" /\ exit = "none" /\ room = Budget
  /\ timer = FALSE /\ late = FALSE /\ over = FALSE
  /\ removal = "off" /\ failed = 0 /\ early = FALSE
  /\ verdicts = <<>> /\ left = 0 /\ excused = 0

Asks(who, passes) ==
  /\ stage = "idle" /\ stage' = "asked"
  /\ policy' = who /\ good' = passes /\ verdicts' = <<>> /\ left' = 0 /\ excused' = 0
  /\ UNCHANGED <<executor, execVars>>

(* The caller has taken the answer.                                        *)
Taken ==
  /\ stage' = "idle" /\ policy' = "learner" /\ good' = FALSE
  /\ verdicts' = <<>> /\ left' = 0 /\ excused' = 0
  /\ Blank /\ UNCHANGED executor

-----------------------------------------------------------------------------
(* A verdict ends the call or is followed by another attempt.  The answer  *)
(* of the runner about a learner's program is final, whatever it is; for   *)
(* a program of the platform's own a timeout is taken for a slow start.    *)
Retried == IF policy = "trusted" THEN {"runner_error", "timeout"} ELSE {"runner_error"}

Gives(verdict) ==
  /\ verdicts' = Append(verdicts, verdict)
  /\ stage' = IF verdict \in Retried /\ Len(verdicts) < MaxRetries THEN "asked" ELSE "answered"
  /\ UNCHANGED <<executor, policy, good>>

(* Refused before there is a container: no suite, too many tests, limits   *)
(* out of range, a payload too large, no docker; or by static analysis.    *)
Refuses ==
  /\ stage = "asked"
  /\ \E verdict \in {"runner_error"} \cup (IF good THEN {} ELSE {"failed"}) : Gives(verdict)
  /\ UNCHANGED <<execVars, left, excused>>

Starts ==
  /\ stage = "asked" /\ stage' = "running"
  /\ cli' = "up" /\ box' = "coming" /\ exit' = "none" /\ room' = Budget
  /\ timer' = TRUE /\ late' = FALSE /\ over' = FALSE
  /\ removal' = "off" /\ failed' = 0 /\ early' = FALSE
  /\ UNCHANGED <<executor, policy, good, verdicts, left, excused>>

(* terminate: the command is stopped and the removal begins, both once.    *)
Terminate ==
  IF removal # "off" THEN UNCHANGED <<cli, removal>>
  ELSE /\ removal' = "trying"
       /\ cli' = IF cli = "gone" THEN cli ELSE IF executor = "node" THEN "killed" ELSE "told"

(* The timer may also fire after the command exited and before that was    *)
(* heard of.                                                               *)
TimerFires ==
  /\ stage = "running" /\ timer
  /\ timer' = FALSE /\ late' = TRUE /\ Terminate
  /\ UNCHANGED <<executor, policy, good, stage, box, exit, room, over, failed, early,
                 verdicts, left, excused>>

(* What does not fit is dropped, and the execution is over.  A program that *)
(* passes keeps within the budget.                                         *)
Outputs ==
  /\ stage = "running" /\ box = "up" /\ cli \in {"up", "told"} /\ ~over
  /\ \E size \in 1..(Budget + 1) :
       /\ good => size <= room
       /\ IF size <= room
          THEN room' = room - size /\ UNCHANGED <<cli, removal, over>>
          ELSE room' = 0 /\ over' = TRUE /\ Terminate
  /\ UNCHANGED <<executor, policy, good, stage, box, exit, timer, late, failed, early,
                 verdicts, left, excused>>

(* A removal that answers failure is tried again after a pause, a bounded  *)
(* number of times.                                                        *)
GivesUpRemoval == failed + 1 >= Removals

RemovalFails ==
  /\ removal = "trying" /\ failed' = failed + 1
  /\ removal' = IF GivesUpRemoval THEN "done" ELSE "trying"
  /\ UNCHANGED <<executor, policy, good, stage, cli, box, exit, room, timer, late, over,
                 early, verdicts, left, excused>>

RemovalWorks ==
  /\ removal = "trying" /\ removal' = "done"
  /\ early' = (box = "coming")
  /\ box' = IF box = "up" THEN "gone" ELSE box
  /\ exit' = IF box = "up" THEN "killed" ELSE exit
  /\ UNCHANGED <<executor, policy, good, stage, cli, room, timer, late, over, failed,
                 verdicts, left, excused>>

(* The command has closed: the timer goes, and a termination that began is  *)
(* waited for.                                                             *)
Closes ==
  /\ stage = "running" /\ cli = "gone"
  /\ stage' = "settled" /\ timer' = FALSE
  /\ UNCHANGED <<executor, policy, good, cli, box, exit, room, late, over, removal, failed,
                 early, verdicts, left, excused>>

(* What the harness says of each test; an answer of another form is a       *)
(* failure of the runner.                                                  *)
Judged == {IF good THEN "passed" ELSE "failed", "runner_error"}

(* How an execution that ended is judged: a program that was stopped for    *)
(* time first, then the exit code, then what the harness says.             *)
Verdict_ByExit ==
  IF exit # "zero" \/ over
  THEN IF exit = "term" THEN {"timeout"} ELSE IF exit = "killed" THEN {"failed"} ELSE {"runner_error"}
  ELSE Judged
Verdict == IF late THEN {"timeout"} ELSE Verdict_ByExit

Waits == removal = "trying"

Resolves ==
  /\ stage = "settled" /\ ~Waits
  /\ \E verdict \in Verdict : Gives(verdict)
  /\ left' = left + (IF box \in {"coming", "up"} THEN 1 ELSE 0)
  /\ excused' = excused + (IF removal = "off" \/ early \/ failed = Removals THEN 1 ELSE 0)
  /\ Blank

-----------------------------------------------------------------------------
(* Docker.                                                                 *)
Docker == stage \in {"running", "settled"} /\ UNCHANGED <<executor, policy, good, stage, room, timer,
            late, over, removal, failed, early, verdicts, left, excused>>

BoxAppears == Docker /\ box = "coming" /\ box' = "up" /\ UNCHANGED <<cli, exit>>
BoxNeverAppears == Docker /\ box = "coming" /\ cli \in {"killed", "gone"} /\ box' = "gone" /\ UNCHANGED <<cli, exit>>
BoxEnds ==
  /\ Docker /\ box = "up" /\ box' = "gone"
  /\ exit' \in IF cli \in {"killed", "gone"} THEN {exit}
               ELSE IF good THEN {"zero"} ELSE {"zero", "killed", "other"}
  /\ UNCHANGED cli
CliExits ==
  /\ Docker /\ cli' = "gone" /\ UNCHANGED box
  /\ \/ cli \in {"up", "told"} /\ box = "gone" /\ UNCHANGED exit
     \/ cli = "killed" /\ exit' = "signal"
CliStops == Docker /\ cli = "told" /\ cli' = "gone" /\ exit' = "term" /\ UNCHANGED box
CliLoses == Docker /\ cli = "up" /\ box # "gone" /\ cli' = "gone" /\ exit' = "other" /\ UNCHANGED box

Acts ==
  \/ Refuses \/ Starts \/ TimerFires \/ Closes \/ Resolves
  \/ RemovalFails \/ RemovalWorks \/ CliExits
Happens == Outputs \/ BoxAppears \/ BoxNeverAppears \/ BoxEnds \/ CliStops \/ CliLoses

Next == Acts \/ Happens \/ (stage = "answered" /\ Taken)
          \/ \E who \in {"trusted", "learner"}, passes \in BOOLEAN : Asks(who, passes)
Spec == Init /\ [][Next]_runnerVars
-----------------------------------------------------------------------------
RunnerTypeOK ==
  /\ executor \in {"node", "bun"} /\ policy \in {"trusted", "learner"} /\ good \in BOOLEAN
  /\ stage \in {"idle", "asked", "running", "settled", "answered"}
  /\ cli \in {"none", "up", "told", "killed", "gone"}
  /\ box \in {"none", "coming", "up", "gone"}
  /\ exit \in {"none", "zero", "term", "killed", "signal", "other"}
  /\ room \in 0..Budget /\ failed \in 0..Removals
  /\ removal \in {"off", "trying", "done"}
  /\ verdicts \in BoundedSeq(Verdicts, MaxRetries + 1)
  /\ left \in 0..(MaxRetries + 1)

(* A program is said to pass only by a container that ended by itself: no  *)
(* output was cut, no time ran out, and nobody was asked to remove it, in  *)
(* whatever order the timer, the output and the exit were heard of         *)
(* (DockerPythonCodeRunner.execute).                                       *)
PassIsEarned ==
  stage = "settled" /\ "passed" \in Verdict =>
    good /\ removal = "off" /\ box = "gone" /\ ~over

(* The first comment of the retries: a failure or a timeout of a learner's *)
(* program is never retried into a success; a program of the platform is   *)
(* retried after a timeout too, but never after a failure.                 *)
VerdictIsFinal ==
  \A i \in 1..Len(verdicts) : \A j \in (i + 1)..Len(verdicts) :
    verdicts[i] = "runner_error" \/ (policy = "trusted" /\ verdicts[i] = "timeout")

(* An attempt is not answered, and the next not begun, while the container *)
(* of the last is being removed; one that stays behind was not removed in  *)
(* as many tries as there are, or appeared after docker had answered that  *)
(* it was removed, or lost its command, which nobody looks for.            *)
LeftForCause == left <= excused
=============================================================================

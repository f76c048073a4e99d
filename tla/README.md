# KnowBalance: verification project

KnowBalance teaches Python to one learner at a time. It diagnoses the learner, builds a profile and a formal path,
generates content and an assessment for the current path node, grades what the learner submits, counts the evidence
in a mastery store, and decides how the path goes on. This directory holds TLA+ models of the parts of it whose
correctness depends on order, concurrency and failure, the configurations TLC checks them with, and proofs for
TLAPS. Paths are relative to the repository; `src/...` is its source directory.

Contents: 1 the system, 2 the modules and the code, 3 the runs, 4 the proofs, 5 observations, 6 what is not modelled,
7 the plan.

## 1. The system

### 1.1 Parts and how they interact

```
 client (role-d-ui-v2) --commands--> HTTP API --> InteractiveSessionStore --file + lock--> session file
                                                    |  (background generation, no lock)
                                                    v
                                  Role D integration (role-c-service.ts)
                                    |                         |
                     submitRoleCAssessment           generateRoleCForRoleD
                                    v                         v
                     LearningCycleService            adaptive loop / next round / pipelines
                      |        |        |                     |           |
             submission+   mastery   Role B            execution journal  secure
             session store  store    (progress)        and loop journal   artifact store
                 \          /
               record files under lock directories
```

| Part (source) | State | Operations | Hard behaviour | What makes it correct |
|---|---|---|---|---|
| Learning cycle (`role-c-content/orchestrator/learning-cycle-service.ts`) | session and submission records with revisions, owner, lease, frozen plan; mastery revisions | processSubmission with its checkpoints RECEIVED, SCORED, DECIDED, MASTERY_APPLIED, COMPLETED; claims, leases, heartbeat; completeSession; delivery to Role B | three stores written one after the other; takeovers of leases; retry of a mastery commit whose outcome is unknown; replays | evidence counted once, under the decision the record froze; one completion per attempt; nothing accepted is stuck |
| Interactive session (`orchestration/interactive-session.ts`) | session file, lock file, commands processed, background generations | command (diagnosis, anchors, assessment, retry), generateNextRoundInBackground | the background task holds no lock and works on a record loaded long ago; commands repeated by clients; lock file without owner; Role C is idempotent only by identifiers the session makes up | one answer per command; content fits profile and node; a grade is not put back; the next round arrives |
| Record files (`reliability/learning-cycle-store.ts`, `mastery-file-store.ts`) | one JSON file per record (one for all mastery), a lock directory with owner.json and .reclaim | saveRecord, withLock, tryReclaimStaleLock, releaseOwnedLock | a lock protocol of a dozen file-system calls, any two of which may be interleaved with other processes, or the last of a process that stops | a save is a compare-and-set on the revision; a lock left behind is reclaimed |
| Beta mastery (`mastery/beta-mastery.ts`) | per objective alpha, beta, revision, processed keys | prepareMasteryUpdateFromEvidence, saveBatch | rounding at the decision thresholds; several evidences folded into one revision | batches are all or nothing and idempotent by key |
| Grading (`grading/`) | none | gradeSubmission, finalizeGradeResult, routing | code execution may fail in between | a blocked grade gives no evidence |
| Adaptive loop and its journal (`adaptive-learning-loop.ts`, `adaptive-learning-loop-journal.ts`) | one journal record per completed submission: phase and results; an exclusive lock | continueCompletedLearningCycle, recovery, activation, delivery | stops between a remote call and its checkpoint; a lock that may be taken over | D gets one content; delivered runs are registered; an answer is final |
| Next round (`next-round.ts`) | execution journal, secure batches, flights | executePreparedNextRound, commit, invalidate | a commit that took effect and failed; losers that clean up | what was returned can be resolved |
| Secure artifact store (`security/secure-artifact-store.ts`) | batches of files | putBatch, get, deleteBatch | partial deletion | a batch is there or not |
| Content, reviewed and recoverable pipelines (`content-pipeline.ts`, `review/`) | flights, cache, checkpoints, revision and recovery counters | runCPipeline, runReviewedCPipeline, recovery by new evidence or path | bounded rounds of review, recovery that changes the input | what is released was reviewed for the last input |
| Code runner (`security/code-runner.ts`) | child process, timer, output budget, container | execute | timer against exit, clean-up that fails | one verdict per execution, nothing left running |
| Trace store (`reliability/trace-store.ts`) | append-only file per run, lock | append, read | reclaim by name, append that stops half-way | sequence without gaps |
| Role D integration (`role-d-integration/`) | in Role C's stores | generate, submit, continue | retries and identifiers of attempts | repeats are idempotent |
| Main agent: state machine, runner, workers, API (`orchestration/`) | run report, learner memory | eight workers in order, contract checks | sequential | every worker's result meets its contract before the next starts |
| Role B (`role-b-profile/`) | path, profile, progress received | advanceToNextNode, progress receiver, planner, auditor | order and repetition of progress | the path only moves as decided |
| Role A, fact audit, validators, model providers, user interfaces, evaluation | static files or none | look-ups, predicates, prompts, rendering | none that a state model shows | |

PROJECT.json lists every part with its status and every hazard with its line.

### 1.2 What is hard here

Everything Role C promises is built from revisions, leases and idempotency keys over files, so the questions are:
what two processes may do between a read and the write that depends on it; what is left when a process stops between
two writes; whether a call repeated by a client, a retry or a restart does its work twice; whether something that was
accepted is finished; and whether a record loaded long ago can be written back. The modules are chosen by these
questions, not by file. Two further kinds of difficulty are sequential but wide: budgets of repairs and revisions that
multiply over several layers (authoring, review, recovery), and pairs of algorithms that must agree without calling
each other (the gate of a specification and the plan of its form; a round and the round that repeats it).

## 2. The modules and the code

Common conventions. Every `await` on shared state (a store, a file, another role) ends a step; the code between two
awaits is part of a step. A call that fails without a change of state is a fault (`FaultKinds`, at most `MaxFaults` in
a behaviour). An operator named `X_Something` next to `X` is a deliberate mutation of `X` that breaks one of the
properties; nothing else uses it. A module's text says which awaits it merges; PROJECT.json ("map") names, for every
definition, the function and the lines it stands for. Contents (prompts, scores, texts, reasons, event lists) are left out: what a property does
not tell apart is one value.

### 2.1 LearningCycle

One learning session of `LearningCycleService`, its submissions, and the mastery states of its objectives.

- `session`: attempt number, `active_submission_id`, `latest_feedback_id`. `store`: per submission the status, the
  revision, owner and lease, and the frozen mastery plan. `mastery`: per objective the revision and the keys counted.
- A handler is a pair of a process and a submission: `inFlight` lets a process run one at a time. `pc` follows
  processSubmissionOnce: load, create, claim the session, claim the submission, read the secure assessment, grade,
  prepare and save the decision, commit, save, complete, close the session, deliver.
- `Fresh`/`Save` are the compare-and-set of saveSubmission; `PlanFor`, `Applicable` and `Commit` are
  prepareMasteryUpdateFromEvidence and saveBatch; `CheckApplied` is masteryIntentAlreadyApplied after a conflict, and
  `Prepare` with "redecide" the second decision.
- Faults: a call that throws, a process that stops, a lease that runs out under a working owner, an update of another
  session of the learner, a secure artifact that cannot be read for a moment or for good.
- Abstractions. A compare-and-set loop is one step (its last, successful turn; an exhausted loop throws, which is
  `Abandon`). A completed submission and its feedback are one (the feedback is named by the key). A second request for
  a submission the same process works on joins it and is no step. Role B's acknowledgement is idempotent by
  `delivery_id`, so `delivered` is a set.

### 2.2 InteractiveSession

One session of `InteractiveSessionStore` over one data root.

- `disk`: the session file. `lock`: the lock file. `rec`: the record a command works on; `tasks`: background
  generations with the copies they loaded.
- `Begin` is the part of executeCommand before the first call of a port: answer from `processed_commands`, or check
  what the session waits for (`Allowed`) and take the lock; a refused command changes nothing and is no step.
  `BuildProfile`, `Generate`, `RouteAnchors`, `Submit` and `Grade` are the continuations; `Save` and `Release` the end.
  `Task*` are the awaits of generateNextRoundInBackground.
- Role C is external. The model keeps of it what its answers depend on: which submission holds or completed a run
  (`active`, `graded`) and the frozen anchor routes (`routed`). `create` is `Init`.
- `stay` stands for the decisions remediate and reinforce, which the session treats alike. The profile and node in
  `roleC` record what content was made for; the code has no such field.
- `OperatorUnlocks`: an operator may remove the lock file of a process that stopped, as nothing in the code does.
- Left out: next_round_context, the worker ledger, events, reasons.

### 2.3 FileStore and RecordRegister

`FileStore` is one record file and its lock directory, one call of the file system per step: withLock (mkdir,
owner.json), tryReclaimStaleLock (inspect, write a claim, link it, inspect, read it back, rename), releaseOwnedLock, and
between them the revision check and the rename that publishes the record. `RecordRegister` is what the users of a store
rely on: a register with compare-and-set. `FileStore` instantiates it on its own `revision`, `base` and `result`, so
the refinement mapping is the identity on these three; the lock directory is what is hidden. LearningCycle uses the
register: its `Save` is a `Commit` or, when the revision has moved, the `LoseOwnership` that follows from a `Refuse`.

Assumed of the machine: one host (a pid of another host is judged by age only, and nothing fences it); a live writer
writes owner.json within the lease; pids are not reused; inodes are not given again while somebody still compares
with the old one; removing a directory tree is one step; that a file written into a lock
directory renews the age of the directory is ignored.

### 2.4 AdaptiveLoop and RoundOutcome

`AdaptiveLoop` is the second half of adaptive-learning-loop.ts over adaptive-learning-loop-journal.ts: what happens to
one completed submission (one execution key) when several processes continue it.

- The lock: `MakeDirectory`, `WriteOwner`, `Inspect`, `MoveAway`, `CheckMoved`, `LookAtOwn` and `RemoveOwn` are the
  file-system calls of withExclusive, one a step. Unlike FileStore's, this lock is reclaimed by renaming it to
  quarantine first and looking whose it was afterwards (two that reclaim at once can let two owners in, 5.4 a). `gen` counts the pids of a process: a directory is stale when its
  maker's pid is gone. `aside` is the directory in quarantine.
- The section: `Load` and `Replay` are the branches on a stored entry; every other action ends in a checkpoint, whose two
  halves are `Compare` (assertRevision) and `Write` (the rename). `Recover`/`Call` are the recovery operations with their
  own status; `Generate`, `Announce`, `Activate`, `Deliver` and `DeliverRefusal` the phases STARTED to PUBLISHED or
  TERMINAL. A remote call may fail with its effect or without.
- `RoundOutcome` is the promise: the round is decided once and then closed. `Decision` and `Closed` map the journal to it.

### 2.5 NextRound

prepareNextRound of next-round.ts as a function `Prepared` of a feedback, the current input and what Roles A and B
supply: refusals in the order of the code, questions for more input, and the new specification (`Remedial`,
`Unchanged`, `Placed`). `rounds` is the set of specifications prepared so far; a content hash is the content it is made
of. `Buildable` is the specification's own validation.

### 2.6 ExecutionJournal

executeReviewedPipelineInput of next-round.ts: single flight within a process, load, resolve the secure pair of a stored
entry, evict an entry whose pair is gone (`Evict`), run the pipeline, store the pair, commit the first entry, and clean up
as the loser of a commit (`Loser`) or after a commit that failed (invalidate, delete). A loser whose deletion fails (`Undeleted`)
runs into the same catch: it withdraws the entry of the winner (`Disown`), deletes its own pair once more and throws. `files` keeps what deletions that
stopped half-way leave of a pair. Durable journal and secure store are external; their calls fail without effect, or with their effect
and a lost answer.

### 2.7 ReviewedPipeline and StagePlan

`ReviewedPipeline` is one call of runRecoverableReviewedCPipeline with runReviewedCPipeline in it: `Generate`, the review
by a local port (whose findings come from the flaws of the content, the path and the level) or by a remote one that
answers late or wrongly, `Revise` within `MaxRounds`, commit with read-back and clean-up, `OnReady`, and the recoveries
that replace the evidence or the path and profile of `spec` and start over, within `MaxRecoveries`.

`StagePlan` follows a round from what a learner lacks to its questions: the depth-first walk of Role B as one step per
visited point (initial path, or closure of a recovery), the path node with its tiers and modalities, the gate
(assessment-measurement.ts, a maximum matching), and the plan of the form (greedy). The walk has
an explicit stack; the sets it is compared with (`Reached`, `Needs`) are defined independently of it, as least sets closed
under prerequisites. The targets of a first path are at most `MaxSlots`: initial-learning-path.ts refuses more
(PATH_TOO_LARGE) before a path node is made.

### 2.8 DraftAuthoring, CodeRunner and VerifiedAuthoring

`DraftAuthoring` is one call of a content agent in model-backed-provider.ts and staged-generation.ts: stages, repairs of a
stage, repetitions of a request, threads that write the parts of a lesson from one shared cursor, the verification of a
pair and the repairs after it. A half of a pair is reduced to what its checks and the verifier can see.

`CodeRunner` is one execution of code-runner.ts with its retries: the docker command (`cli`), the container behind it
(`box`), the timer, the output budget, the exit, the forced removal with its tries, and the verdict, for the executors
of Node (kills the command) and Bun (asks it to stop). Docker is external.

`VerifiedAuthoring` composes the two: in place of the abstract finding, `RunsReference` … `HearsStarter` run the pair's programs through
`CodeRunner`. `ImplementsAuthoring` is the refinement: hiding the runner, it is DraftAuthoring's `Spec`.

### 2.9 ContentPipeline

Calls of runCPipeline in one process: joining a flight of the same dependencies, asking the cache and reading the
pair it names, the checkpoint, the three agents in the order of their dependencies, the comparison, the one revision,
the secure batch, trace and cache. An artifact is what it was written from. Cache, checkpoint
and trace fail silently, as in the code; the process may stop.

### 2.10 RoleDService

The entry points of role-d-integration/role-c-service.ts, several callers at a time: `generate` in up to `MaxAttempts`
attempts with registration through on_ready, opening a session, code labs, routing of the anchor answers, submission, and
continuation, which plans the next node when nobody names one and hands over to the adaptive loop. The loop is RoundOutcome here, one
per execution key; that AdaptiveLoop implements it is section 2.4. Answers are lost and
processes stop.

How the modules fit: RoleDService stands on RoundOutcome, which AdaptiveLoop implements; AdaptiveLoop's `Generate` is
one call of ReviewedPipeline, whose `Generate` is one execution of ContentPipeline, each of whose agents is one call of
VerifiedAuthoring; ExecutionJournal wraps the same pipeline for rounds that need no journal of phases; the input comes
from NextRound and StagePlan; LearningCycle and RecordRegister are below the submission. Only the arrows
FileStore ⇒ RecordRegister, AdaptiveLoop ⇒ RoundOutcome and VerifiedAuthoring ⇒ DraftAuthoring are checked as refinements;
the others are agreements on an interface.

## 3. The runs

| Run | Checks | Instance | Shows |
|---|---|---|---|
| `one_submission` | CountedIsRecorded, AppliedIsCounted, DeliveredIsFinal, TerminalIsFrozen, AcceptedIsSettled | 2 processes, 1 submission, 2 objectives, 2 faults of 6 kinds | evidence is counted once, under the recorded plan; what clients keep sending is settled |
| `two_submissions` | OneCompletionPerAttempt, CompletionAccounted | 2 processes, 2 submissions of one attempt, 1 fault | a double click: one of the two completes, and its completion moves the session on |
| `session` | OneAnswerPerCommand, GradeIsKept, AssessmentFits, AnchorsAgree | 2 processes, 8 commands, 3 rounds, 2 profiles, 1 stop or exception | no answer is given twice, no grade is put back, content fits, frozen anchors are the ones shown |
| `store` | MutualExclusion, SavesAreAtomic, SavesReturn | 3 writers, 2 stops or failing writes | the record file is a compare-and-set register, whatever stops where |
| `adaptive_loop` | AnnouncedIsJournaled, ImplementsOutcome, RecoveryAskedOnce, ExecutionEnds | 2 processes, 2 contents, 1 refusal, 1 crash, 2 failures | one outcome, told and answered alike by everybody, and in the end there is one |
| `adaptive_lock` | Exclusive | 3 processes, 1 crash at work | *violated*: the lock lets two owners in (5.4 a; the finding) |
| `next_round` | AlwaysRepeatable, RepeatsDoNotHarden, AnsweredIsReadable, DanglingIsCured | 3 profiles, 4 packs, 3 paths, 3 rounds; 2 processes, 3 batches, 2 failures, 1 crash | a repeated round is never harder and never refused; what was answered can be read; an entry without its pair is found out |
| `reviewed_pipeline` | GateHolds, ReadyIsReleasable, AuthorHearsReviews, NothingLeftBehind | 2 artifacts, 3 topics, 3 flaws, 2 rounds, 2 recoveries | only what both audits passed is released; a call without a release leaves nothing |
| `verified_authoring` | PublishedAsVerified, EachPartOnce, RepairsMakeProgress, RunnerKeepsItsWord, ImplementsAuthoring, CallEnds | 4 parts, 3 threads, 1 repair of each kind, 1 repetition of each kind | what is published is what was executed; a call ends |
| `content_pipeline` | Coherent, NothingLeftBehind, ServedIsReadable | 2 callers, 2 dependencies, 2 executions, 1 fault, 1 stop, 1 removal | what is published belongs together and can be read |
| `stage_plan` | WalkIsRight, GateAndPlanAgree | every graph over 3 points, up to 3 objectives and 5 questions | the order is learnable; what the gate accepts gets a form |
| `role_d` | AnswersAreBacked, DecidedCanBeActivated | 2 callers, 2 inputs, 2 attempts, 3 executions, 1 stop | what a caller was told stays true; a decided round can be opened |

Every property of a passing run is broken by at least one mutation (PROJECT.json, "mutants"): a dropped guard, an off-by-one, a missing
reset, a forgotten clean-up.

### 3.1 Why the bounds are enough

- *LearningCycle.* The interesting races are between two processes over one record (takeover, second decision) or two
  submissions over one session: two of each. Two faults let a takeover be followed by a conflict or a second stop.
  `HeartbeatBound` only stops an endless renewal; the retry limit 2 is the least value with both a retry and an exhausted
  one. `two_submissions` has no momentary failures of the secure store (5.1 b), and both submissions claim attempt 1;
  second attempts come with observation 5.1 a.
- *InteractiveSession.* Commands run one at a time under the lock, so the actors are a command, a repeated command and the
  background tasks. The eight commands of `Journey` reach every branch of the decision with path length 2: two diagnoses,
  two graded submissions, a retry, anchor answers sent again changed and unchanged. There is no failing save (5.2 c).
- *FileStore.* Three writers with two stops reach an owner that stopped with two reclaimers beside it, and a stopped owner
  with a stopped reclaimer and one that cleans up after both. A fourth writer breaks exclusion (5.3 a). `SavesReturn` makes
  the exception of 5.3 b explicit.
- *AdaptiveLoop.* `adaptive_lock` has the three processes and the one crash that 5.4 a needs. The properties of
  `adaptive_loop` rest on one holder at a time; it has two processes and one crash at every point of the section and of the
  release. Crashes while a directory is without owner.json or another's is in quarantine, which let two owners in
  already with two processes, are left out there by `CrashPoints`. Two failures allow a
  lost activation followed by an unreadable pair. Deadlock is checked: a call can always be made again.
- *ExecutionJournal.* Three batches: a winner, a loser and a new execution after an eviction or a withdrawal. `Tries` is 4 in
  the code; 2 has a repeated and an exhausted loop. In `next_round` the two halves of next-round.ts are composed by
  `HalvesSpec`, each explored while the other rests: they share the input only.
- *NextRound.* Three rounds take the scales from the defaults of a beginner past both of their ends (they have three and four
  steps, and a round takes one); the paths and packs include a malformed one, one with too little and one of another learner.
- *ReviewedPipeline.* Two artifacts separate the one that carries findings about the path from the others; three topics
  are one that fits, one above the level and one whose prerequisites the knowledge base lacks. The bounds on rounds and
  recoveries are the code's own maxima.
- *VerifiedAuthoring.* Three threads over four parts: one thread takes a second part while another fails. One repair of each kind has the
  accepted, refused and exhausted case; repairs multiply only by repetition.
- *ContentPipeline.* Two flights of the same or of different dependencies; a checkpoint, a cached pair and a deleted pair need
  no more.
- *StagePlan.* All graphs over three points include chains, diamonds with a dangling end, cycles and self-references;
  three objectives and three required modalities over five questions include the tightest matchings. Five questions and two of a tier are the least the
  largest recovery asks for (the code has 30 and 20). Concepts are interchangeable. No bound remains in the proofs (section 4).
- *RoleDService.* Two callers with different answers to the anchors; the second attempt of a generation and a third execution of
  the pipeline for the same name; one plan separates the continuation with a planned node from the one with a given node.

Symmetry is used only where nothing but safety is checked. Deadlock checking is off where the system may come to rest
(all writers returned, all processes stopped, all commands or executions used up, the call ended); it is on in
`two_submissions`, `adaptive_loop`, `adaptive_lock`, `stage_plan` and `role_d`.

### 3.2 Fairness

- LearningCycle: weak fairness of every handler step (the event loop runs what is pending; calls of stores return or
  throw), weak fairness of the expiry of a lease whose owner does not work any more, strong fairness of a client's
  request: the client keeps sending a submission it has no answer for. `AcceptedIsSettled` is a promise to such clients
  only; nothing in the service resumes a submission by itself.
- FileStore: weak fairness of every writer's step and of the passing of time.
- AdaptiveLoop: weak fairness of `Proceed(c)`: a call goes on, a stopped process is started again, the client asks again.
  `ExecutionEnds` excepts the lock of an ended call of a live process, which nobody may reclaim (5.4 b).
- ExecutionJournal (`HalvesSpec`): weak fairness of a call's steps, of a repeated request and of a restart.
- VerifiedAuthoring: weak fairness of the agent and of the runner's own steps (timers fire, a killed command exits).
  Nothing is asked of docker or of the program: `CallEnds` excepts the execution of 5.7 a, which waits for the program.
- The other modules state safety only.

## 4. The proofs

The proofs hold for every value of the constants that satisfies the named assumptions in the modules (which TLC
evaluates in the runs): they only say that special values are distinct from ordinary ones, that bounds are numbers, that
commands and requests are records of the expected shape, in NextRound that the first round's specification passes
its own validation and, in StagePlan, that a form and a tier have room for the largest recovery and the three tiers together for a full form,
as 30 questions and 20 of a tier have.

**LearningCycleProofs** (InvHolds, TypesHold, CountedOnce, AppliedOnlyWhenCounted, DeliveredStays,
TerminalFrozen, OneCompletion, CompletionIsAccounted). CountedIsRecorded is not inductive: it says nothing of a handler that lost its lease and still holds
a decision. The invariant adds: a handler's copy of a record is fresh exactly while its process owns the record
(HoldingInv); a plan that met a revision conflict is dead, since revisions of the mastery store never go back (`Dead`,
MasteryGrows); a handler that decides again has seen its plan dead and not counted, and if its copy is fresh nothing is
counted for the submission (DecisionInv); a batch is counted for all objectives or for none (BatchInv). So the plan of a
record is replaced only when it can never be counted. The lemmas are organised by what a step may do to the others: the
mastery store grows, a record only moves on (RecordGrows), and the handlers that did not move keep their invariants.
The last two theorems are about the session and assume that the secure store has no momentary failure
("secure_retryable" is not among `FaultKinds`; 5.1 b shows that they fail with it, and `two_submissions` has none either). Then
a handler works under the claim it read until its record is terminal (ClaimInv), so the attempt a submission was graded
for is still the session's when it completes (ScoredInv), and a completed one has moved the session on or still occupies it
(CompletedInv). CompletionAccounted counts: the completed submissions that no longer occupy the session have different
attempts, all below the session's.

**InteractiveSessionProofs** (RecordsStaySound, TypesHold, AssessmentAlwaysFits, AnchorsAlwaysAgree, OneAnswer, GradesStay). AssessmentFits is about the session
file, but the file is written from copies loaded long ago. The invariant therefore says of every record, in the file, in
a command or in a background task, that it is `Sound`: its content belongs to its profile, and to its path node unless
the learner has advanced since; and of every stage of a command (`Fit`) and of a task (`TaskFit`) what the code there
relies on. It needs no argument about interleavings, because a record is only ever replaced as a whole; AnchorsAgree follows in the same way
(RoutesInv). These theorems cover stops, failing saves and operators removing locks, which the run does not all have.
OneAnswerPerCommand and GradeIsKept are about interleavings, of a command with the background tasks it did not start. They
assume that no save of the session file fails ("save" is not among `FaultKinds`, as in the run; 5.2 c shows why). Then a
command is alone under the lock (LockInv), and there is at most one background task: either its command is still to save the
running session, and the task can store nothing yet (`Early`), or the session is `running`, where no command is allowed, and
the task stores the round the session is generating and nothing else (`InTime`). So the record a command works on is the
one in the file (`WorkFit`), and what it acknowledged stays there.

**FileStoreProofs** (TypesHold, AtomicIfExclusive, ExclusiveUpToOneStop, AtomicUpToOneStop, ExclusiveWithoutStops,
AtomicWithoutStops). Two steps. First, if no two running writers are ever under the lock, FileStore implements
RecordRegister, whoever stops and whatever fails: a writer in the stage "write" has compared the revision (`Compared`), and
only another writer in that stage could change it; every other step is a stutter, a load, a refusal or a failure of the
register. Second, while at most one process has stopped, wherever that was, at most one of any number of writers is under the lock
(`Guarded`). The directory of a running writer under the lock is the one at the path; the only directory that is ever stale is that of
the one that stopped, and only the writer whose claim is linked in it moves it away, once. Whoever put a claim there is running, so no claim is
ever stale and none is swept by another writer. While nobody stops nothing is stale at
all; the two last theorems are that special case. A second stop can leave both a stale lock and a stale claim on it: that case is only
model-checked (three writers, two stops), and 5.3 a shows that with four writers it breaks the premise of the first step.

**AdaptiveLoopProofs** (TypesHold, OutcomeImplemented, OneOutcomeTold, RecoveryNotRepeated, OneAtATime, OneOutcome). Two steps,
as for FileStore. First, while the lock admits one call at a time, the journal implements RoundOutcome wherever processes
crash and whatever remote calls fail: what a call works on is what is stored (`Current`), a checkpoint only ever
`Follows` the stored entry, and what was registered, told or answered is what the entry was decided to be (`Told`). Second, as
long as no two calls are between their inspection of a stale lock and its rename at the same time (`OneReclaims`), at most one of any
number of processes is under the lock, wherever and however often processes crash, before owner.json and with a directory
in quarantine included: what a call judged stale is still at the path when it moves it away, and what it moved is what it judged
(`Placed`); the directory at the path is its holder's, under the present pid, or stale (`Orderly`). So nobody moves a live one.
OneOutcome puts the two together. The code does not see to `OneReclaims`; without it there is the violation of 5.4 a.

**RoleDServiceProofs** (TypesHold, AnswersStayTrue, DecidedStaysOpen, OnlyRoutedIsSubmitted, RecordsStay). The stores only
grow (`Keeps`: a registered run keeps its content, a frozen route and a submission stay), so what was backed stays backed;
what a call still holds in its local variables is backed in the same sense (CallInv), which makes the answer it will give
true. A decided round keeps its name because a next round's name is bound by the journal's decision only, and a first round
is named otherwise (NamesInv).

**NextRoundProofs**, of both halves of next-round.ts and of StagePlan. Of the preparation (NeverHarder, NeverStuck): every specification prepared is
`Buildable` and its shell is related to its parent's by one step of the scales, which never leaves them; a repeated round
has its parent's path, profile and evidence, so what was buildable stays so, for any number of rounds. Of the
execution (ExecutionInvariance, AnsweredAlwaysReadable): a batch has one owner and is private until its commit wins the
journal, and the owner removes it only while it is private (PrivateInv), so what was answered, or is about to be, stays.
As long as every pair can be read and every loser's batch is deleted at the first try nobody withdraws an entry, so the first
entry is the only one ever answered (FirstInv); a loser whose deletion fails withdraws the winner's (5.5 c).
The two halves of the invariant need each other: that a failed invalidation does no harm is FirstInv.

Of the plan of the questions (PlanInvariance, WalksAreRight, GateAndPlanAlwaysAgree, PlanTypesOK), for every graph, learner, list of objectives and size of a form:

- *The walk.* A point leaves a list of prerequisites only when it is listed, visited or known (NothingDropped). So once no
  visit is under way, what is listed or known covers the roots and is closed under prerequisites, and `Reached`, the least
  such set, was all listed. What is on the stack is needed by everything below it (StackSound): meeting it again is a
  cycle. A point is listed when its prerequisites are, and nobody that was listed needs one that is not (OrderSound).
- *The gate accepts what role B plans.* The tiers of a first path count its modalities one by one, and the distinct
  modalities of any list of one or two kinds are known; that is an induction over prefixes. Its first objective, and the
  second if the first asks for code, can be matched to them.
- *The plan never fails where a matching exists.* Placing a modality always finds a question to change: were there none, the questions would be an injection into
  the other required kinds, of which there are too few. While questions are handed out there is always a matching of those
  who wait to open questions (`Room`). Serving may take a question meant for another one. Then the other takes what was meant
  for the one served, and can use it: of two behaviours that share a modality one is measured by all that measures the
  other (MeasuringNested), and who has fewer questions is served first (`Exchangeable`).

The order of serving, the matching and the turns of the remaining questions are stated as choices (a sorted bijection, an injection, the element
with so many below it), which the proofs show to exist by counting. The library's induction theorems cannot be instantiated, but
a least counterexample gives the same for a set of numbers (NatSetInduction, PrefixInduction), and recursive functions on
prefixes follow from it (StepByStep).

**VerifiedAuthoringProofs**, first of DraftAuthoring (Invariance, TypesHold, PartsOnce, VerifiedIsPublished, NeverTheSamePair): every part of the
lesson below the cursor is written or belongs to exactly one thread, also after another thread failed (LessonInv); a pair
enters the verification whole, and only a good finding about the pair as it is leads to publication (PairInv); while a
finding is bad the draft is the one it is about, until a repair is accepted, and accepted repairs raise a revision (ProgressInv).
Then of the runner and the composition (VInvariance, VerifierImplements, ExecutedIsPublished, WordIsKept): a forced removal
has begun only for a program that is late, over its output or does not pass; every verdict is true of the program; only
verdicts that ask for a repetition are followed by another attempt (RunnerInv); while a program of the pair runs nothing
else of the call moves (VerifierInv), so the last verdicts are about the present pair and their combination is a
finding DraftAuthoring allows. Its theorems carry over through the refinement.
Last of ContentPipeline (PipelineInvariance, PipelineTypesHold, AlwaysCoherent, NothingIsLeft, ServedAreReadable), for any number of callers,
executions, swallowed failures, stops and removals. Coherent alone says nothing of an execution under way: the invariant
says of every place which state an execution there has (`StateFits`, so the table of state-machine.ts never refuses a
step), which parts are there and that each was written from the others that are there (`PartsFit`), also when they come
from the checkpoint of another execution (`CheckpointInv`) or from the cascade of the one revision (RevisedIsWhole: an
artifact that is kept was not written from one that is rewritten). That a ready execution has its pair in the store, and
that only the one who was given it deletes it, makes every answer readable when it is given. The types need a count: the trace's
last number is at most the number of executions that have begun (`Numbered`). The assumptions are that `Nothing` is
neither an execution nor a lesson.

**ReviewedPipelineProofs** (Invariance, TypesHold, GateAlwaysHolds, ReadyIsAlwaysReleasable, AuthorsAlwaysHear, NothingIsLeftBehind).
The reviewer is not trusted: it may answer with a report of an earlier request or one that contradicts itself. The proof
shows that no such answer survives the validation: a report made earlier is about an earlier round or specification
(MadeInv), and the only report about this candidate that is consistent with itself and complete is the review (ReportInv).
Hence the accepted reports of a specification are one per round, each asking for a revision (RoundsInv), and what
reaches the store passed the audits (PassInv); StoreInv follows the one pair a call may have in the store, from its commit
to the release or the removal. Nothing is assumed of the reviewer, the store, the planner or the caller.

Only model-checked: MutualExclusion with two stops, which holds only up to the number of writers the run has (5.3 a). Liveness (AcceptedIsSettled, SavesReturn, ExecutionEnds, DanglingIsCured,
CallEnds) is out of the prover's reach. `TypeOK` is proved for all modules but NextRound and
CodeRunner, whose theorems say what they need of their types.

## 5. Observations

Places where the code does less than a reader, a document or a comment expects, met while modelling. Those a run had to
be kept away from are named there; each can be reproduced by adding the fault or the property named. Files of
`role-c-content` are given by name only.

### 5.1 Learning cycle

a. *A replayed submission costs an attempt.* completeSession (learning-cycle-service.ts:2125) takes every completed submission
   but the last one for a new one. Sending the first submission again after the second advances the attempt number,
   counts the exposure of the items again and sets the latest feedback back; docs/role_c_design.md:226 and
   tests/role-c-learning-cycle.test.ts:1377 expect a replay.
b. *Two completions of one attempt.* After a momentary failure of the secure store the handler gives back the record first
   and the session second (learning-cycle-service.ts:1423). A process that resumes the submission in between loses the session it works
   under, and a second submission of the same attempt gets in: OneCompletionPerAttempt fails with "secure_retryable".
c. A session claimed by a submission whose process stopped refuses every other submission until the same one is sent
   again (learning-cycle-service.ts:2061).
d. An anchor-first session has no second attempt: the hash of the anchor answers contains attempt_no, and the frozen
   route keeps the first one (learning-cycle-service.ts:2372).
e. When the secure assessment turns out to be unreadable for good after the batch of a DECIDED record was counted, the record
   ends BLOCKED (learning-cycle-service.ts:1433): what was counted is recorded there, but the learner gets no feedback for it.

### 5.2 Interactive session

a. *The next round never arrives.* The background task is started before the command's save (interactive-session.ts:285), may read the
   session of the previous round and drop its result as outdated; the session stays `running`, where no command is allowed.
b. A process that stops within a command leaves `locks/<session>.lock`, which has no owner and no age; every later
   command is refused as busy until somebody removes the file (interactive-session.ts:382), although
   docs/orchestrator_session_api.md:65 says that a restart with the same data root resumes.
c. When saving a command fails, the background task it started goes on; the repeated command starts a second one of the
   same round, and the check of status and round cannot tell the two apart: the later save may put back a round that
   was graded in between (GradeIsKept fails with failing saves).
d. Run identifiers repeat: a round that advances resets role_c_generation_attempt to 0, and a later diagnosis restarts
   the rounds at 1 with the attempt plus one, which the first profile may have used (interactive-session.ts:597, 1100).
e. After a failed generation of a remedial round retry restores the checkpoint of the graded assessment, and the
   learner is asked for answers Role C can only refuse (interactive-session.ts:474).
f. Anchor answers sent again under a new command id, after the save that followed the routing had failed, are refused for
   ever: the frozen hash contains the submission id (interactive-session.ts:893), and the client draws a new id for every
   try (role-d-ui-v2/src/orchestrator-client.ts:81).
g. next_round_context is cleared by the background task only; a retry that generates the round keeps it (interactive-session.ts:459).
h. Temporary files are named by pid and milliseconds (interactive-session.ts:307): a command and a background task of one process
   may write into the same one.

### 5.3 Record files

a. *Two reclaimers, one claim.* A stale claim is removed by name after two looks (learning-cycle-store.ts:1169). When a lock's owner
   and its first reclaimer have both stopped, two more reclaimers can both think they hold the claim, and the slower one
   moves away the lock the faster one has taken since: with four writers and two stops MutualExclusion fails, against the
   comment at :280.
b. A release that meets a claim removed in between returns without releasing (learning-cycle-store.ts:1107): the lock of a live
   process then stays until the process ends.
c. Device and inode name a lock directory only while the file system does not give the inode again (:1069), and a lock of
   another host is judged by its age only (:1070): a writer slower than the lease loses it while it writes.

### 5.4 Adaptive loop

a. *Two owners* (run `adaptive_lock`, the finding). Exclusive fails with three processes as soon as one crashes under the lock: two of the others judge the dead lock stale, the
   first moves it away, makes its own and works, and the rename of the second (adaptive-learning-loop-journal.ts:331) takes this live
   one aside; before it is put back the third makes a directory and works as well. Two processes are enough when
   the crash is between mkdir and owner.json, when a reclaimer crashes while it holds another's lock in quarantine, or with
   two crashes; the comment at :42-44 promises one holder. The revision check of the journal bounds the damage to one
   checkpoint, except between its two halves.
b. A lock put back after its owner's call had looked for it belongs to a live process and an ended call: nobody reclaims it.
c. A published result is answered only while its secure pair can be read; a momentary failure makes a replay throw
   (docs/role_c_design.md:226 promises the result).

### 5.5 Execution of a round

a. When a process's own committed pair is momentarily unreadable and the invalidation fails too, or the answer of the
   commit is lost, the pair of a committed entry is deleted (next-round.ts:584); the entry dangles until somebody asks again.
b. Retries can leave copies of a pair nobody refers to (comment at next-round.ts:487).
c. *A loser takes the winner down.* The deletion of a loser's batch (next-round.ts:606) is inside the try of the commit. When it
   fails, the catch (:614) invalidates `committed.result_hash`, which is the valid entry of the winner and may have been answered
   already; the batch is deleted again (:628) and the call throws. The next execution finds no entry and answers a second
   result. AnsweredIsReadable therefore promises one answer only as long as no such deletion fails; what was answered
   stays readable in any case.

### 5.6 Review and recovery

a. After a "revise" report, a later failure of the provider makes the summary of the recovery blame artifact revisions
   (run-recoverable-pipeline.ts:238).
b. A recovery's "unchanged path" refusal compares bound drafts, so an unbound draft for the same topic passes; refreshed evidence need not
   differ from the old; Role B may answer an older profile_version with other content.
c. When on_ready throws, the committed pair stays.

### 5.7 Authoring and code execution

a. Under Bun a command that was asked to stop is waited for (code-runner.ts:361): if all five removals fail, or the container
   appears after an early removal that answered success, the execution waits for the program. Node kills and always answers.
b. Output beyond the budget is "timeout" or "failed" under Bun (exit 143 or 137) but "runner_error", and repeated, under Node.
c. The timer may fire between the exit and the close of a finished run, which is then reported as late.
d. A runner_error of the reference is reported as reference_failed, so the model is asked to rewrite a correct reference; if only the
   starter is broken and its repair changes nothing the same draft is verified again.
e. After one part of a lesson failed the other threads go on calling the model (staged-generation.ts:1431).
f. types.ts:135,142 call the public payload frozen; the repair of a starter rewrites it. A draft written in one piece has no
   repair for OUTPUT_TRUNCATED, and the repair of an assessment has no check that it changed anything.
g. The public half of a pair may end ready and the private one invalid.

### 5.8 Content pipeline and traces

a. The checkpoint branches_ready keeps the artifacts from before the revision: a later flight goes on from those.
b. Flights of different dependency objects do not join and write two pairs for one input; cached artifacts are not compared with the
   secure pair they name.
c. Two flights that read the same trace sequence: the second trace is dropped silently. The trace store reclaims a lock by renaming it without
   looking at the owner again (trace-store.ts:197), and several events of one append are written one by one (:93).
d. A pair that somebody deletes before the flight that wrote it has returned may be served all the same: nothing reads it
   again. The model's caller deletes a pair only after its flight has returned (`Removes`), and ServedIsReadable needs that.

### 5.9 Role D integration

a. A continuation that advances without a nextPathNode plans one whose node id contains Date.now() (path-planner.ts:203): a
   repeated continuation has another execution key and starts a second round, against docs/role_c_design.md:210 and :226.
b. A repeated routing after the submission was completed is refused; openAnchorFirstSession repeated after attempt 1 answers
   SESSION_ID_CONFLICT; generating again under a run id that is bound to other content throws through on_ready.
c. With learningPersistence injected and no dataDirectory the adaptive journal is in memory only: after a restart a decided
   round is generated anew and conflicts for ever with the run registered for it. `role_d` has a data directory.
d. The name of a next round (followUpRunId, next-round.ts:1030; for a recovery run-recoverable-pipeline.ts:944) is hashed from less
   than the execution key is (adaptive-learning-loop.ts:571): continuations under two configurations have two journal entries and one
   run name. The model's `NextRun` is injective in the key, which is right within one configuration.

### 5.10 Main agent's runner

The learner's memory is read at the start and the whole snapshot is written at the end of a run, so two runs of one learner
lose an update; a torn write reads as an empty memory; an exception leaves neither summary nor final event; latest.json and
latest.md may be of different runs.

## 6. Not modelled

Generated text, prompts, scores and rendering; Role A's static look-ups; the HTTP layer, which passes each request on; the
session repository, which only a test uses; the main agent's runner, which is sequential and whose defects are single
steps (5.10); the arithmetic of mastery and the decision table (beta-mastery.ts), with its rounding at thresholds; concurrent
mutation runs of the code runner (two at a time, a late one counts as killed), the registry of test suites and the harness inside the
container; the trace store's lock; the snapshot validation of the mastery file store and the file layout of the secure
store; evaluation scripts and the generics experiment.

## 7. The plan

Done, in this order: LearningCycle, InteractiveSession, FileStore with RecordRegister; AdaptiveLoop with RoundOutcome;
NextRound; ExecutionJournal; ReviewedPipeline; StagePlan; DraftAuthoring, CodeRunner and their composition;
ContentPipeline; RoleDService. All have proofs.

Next:

1. Proofs: the two stops after which FileStore's MutualExclusion still holds (with three writers every two do); the theorems of
   LearningCycle and InteractiveSession that assume faults away, stated for the states before the first such fault.
2. `BetaMastery`: alpha, beta and the decision table as functions over exact fractions, against a reference definition
   without rounding.
3. `TraceStore` and the main agent's runner with the learner's memory.
4. AdaptiveLoop in place of RoundOutcome within RoleDService, and LearningCycle's session in place of its abstract
   submission, if the state spaces allow.

--------------------------- MODULE ContentPipeline ---------------------------
(***************************************************************************)
(* runCPipeline: the calls of one process that generate the content of one  *)
(* GenerationSpec.  Calls with the same dependencies share one flight; a   *)
(* cache may answer a call when the private pair it names can still be     *)
(* read; a checkpoint lets a later call go on where an earlier one failed. *)
(* A flight lets three agents write a lesson, a lab and an assessment that *)
(* build on one another, compares them, revises once what the comparison   *)
(* objects to, and stores the private halves together.                     *)
(*                                                                         *)
(* Cache, checkpoints, trace and private store are shared by calls of      *)
(* different dependencies.  Every failure of cache, checkpoints or trace   *)
(* is swallowed.  Of an artifact only what the comparison sees is kept, and *)
(* which lesson and lab it was written from.  The critic's findings are    *)
(* warnings that change nothing and are left out.                          *)
(***************************************************************************)
EXTENDS Naturals, FiniteSets

CONSTANTS
  Callers, Deps,
  DepsOf,      \* the dependencies (agents, ports) each caller may pass
  MaxFlights,  \* executions of the pipeline
  MaxFaults,   \* failures of cache, checkpoints, trace and deletions
  MaxStops,    \* stops of the process
  MaxRemovals, \* pairs deleted by whoever was given them
  Nothing

ASSUME PipelineAssumption ==
  /\ DepsOf \in [Callers -> SUBSET Deps]
  /\ {MaxFlights, MaxFaults, MaxStops, MaxRemovals} \subseteq Nat

Flight == 1..MaxFlights
State == {"PLANNED", "GENERATING", "VALIDATING", "REVISING", "READY", "BLOCKED", "FAILED"}

VARIABLES
  input,      \* what is wrong with the spec and its evidence, if anything
  pc, dep, on, got, answer,  \* of each caller: where it is, what it passes, flight it waits for,
                             \* cached result it looks at, its answer
  flights,    \* executions: where each is and what it has made
  store,      \* private pairs, named by the flight that stored them
  cache, checkpoint,
  traced,     \* last number of the stored trace
  faults, stops, removals

callVars == <<pc, dep, on, got, answer>>
sharedVars == <<store, cache, checkpoint, traced>>
bounds == <<faults, stops, removals>>
pipelineVars == <<input, pc, dep, on, got, answer, flights, store, cache, checkpoint,
          traced, faults, stops, removals>>

Idle == [at |-> "none", dep |-> Nothing, state |-> "PLANNED", concept |-> Nothing, lab |-> Nothing,
         assessment |-> Nothing, pair |-> Nothing, kept |-> FALSE, start |-> 0]
Active(f) == flights[f].at \notin {"none", "done", "stopped"}
FlightOf(d) == {f \in Flight : Active(f) /\ flights[f].dep = d}

Id(artifact) == <<artifact.by, artifact.rev>>

(* inspectAlignment: the artifacts objected to.  (A bridge that only the    *)
(* lab shows to be missing is blamed on the lesson.)                       *)
Objections(m) ==
  {x \in {"concept", "lab", "assessment"} :
     \/ x = "concept" /\ ~m.concept.teaches
     \/ x = "lab" /\ ~m.lab.practises
     \/ x = "assessment" /\ ~m.assessment.measures}

(* Of a result: how it ended, the pair, and of the artifacts whether they  *)
(* were written from one another and what is to be objected to them.       *)
Fits(m) == m.lab.of = Id(m.concept) /\ m.assessment.of = <<Id(m.concept), Id(m.lab)>>
Result(f, state) ==
  [state |-> state, pair |-> flights[f].pair,
   fits |-> state = "READY" => Fits(flights[f]),
   objections |-> IF state = "READY" THEN Objections(flights[f]) ELSE {}]

(* A failure that is swallowed: the step may have no effect.               *)
Works == faults' = faults
Fails == faults < MaxFaults /\ faults' = faults + 1

-----------------------------------------------------------------------------
PipelineInit ==
  /\ input \in {"sound", "malformed", "conflicting", "lacking"}
  /\ pc = [c \in Callers |-> "idle"] /\ dep = [c \in Callers |-> Nothing] /\ on = [c \in Callers |-> Nothing]
  /\ got = [c \in Callers |-> Nothing] /\ answer = [c \in Callers |-> Nothing]
  /\ flights = [f \in Flight |-> Idle]
  /\ store = {} /\ cache = Nothing /\ checkpoint = Nothing /\ traced = 0
  /\ faults = 0 /\ stops = 0 /\ removals = 0

(* A flight of the same dependencies is joined; before the cache is asked  *)
(* and, since asking takes time, again after it.                           *)
Joins(c, f) == pc' = [pc EXCEPT ![c] = "waits"] /\ on' = [on EXCEPT ![c] = f]
Joinable(c) == FlightOf(dep[c])

Call(c) ==
  /\ pc[c] \in {"idle", "answered"} /\ \E f \in Flight : flights[f].at = "none"
  /\ answer' = [answer EXCEPT ![c] = Nothing]
  /\ \E d \in DepsOf[c] :
       /\ dep' = [dep EXCEPT ![c] = d]
       /\ \/ \E f \in FlightOf(d) : Joins(c, f)
          \/ FlightOf(d) = {} /\ pc' = [pc EXCEPT ![c] = "cache"] /\ UNCHANGED on
  /\ UNCHANGED <<input, got, flights, sharedVars, bounds>>

AsksCache(c) ==
  /\ pc[c] = "cache" /\ pc' = [pc EXCEPT ![c] = "check"]
  /\ \/ got' = [got EXCEPT ![c] = cache] /\ Works
     \/ got' = [got EXCEPT ![c] = Nothing] /\ Fails
  /\ UNCHANGED <<input, dep, on, answer, flights, sharedVars, stops, removals>>

(* A cached result counts when it is ready and both private halves are     *)
(* read back; anything else is generated again.                            *)
Usable_Unread(result) == result # Nothing /\ result.state = "READY"
Usable(result) == result # Nothing /\ result.state = "READY" /\ result.pair \in store

Answers(c, result) ==
  /\ pc' = [pc EXCEPT ![c] = "answered"] /\ answer' = [answer EXCEPT ![c] = result]

ChecksCache(c) ==
  /\ pc[c] = "check" /\ got' = [got EXCEPT ![c] = Nothing]
  /\ IF Usable(got[c]) THEN Answers(c, got[c]) /\ UNCHANGED <<on, flights>>
     ELSE UNCHANGED answer /\
       \/ \E f \in Joinable(c) : Joins(c, f) /\ UNCHANGED flights
       \/ /\ Joinable(c) = {}
          /\ \E f \in Flight :
               /\ flights[f].at = "none" /\ \A g \in 1..(f - 1) : flights[g].at # "none"
               /\ Joins(c, f)
               /\ flights' = [flights EXCEPT ![f].at = "begin", ![f].dep = dep[c]]
  /\ UNCHANGED <<input, dep, sharedVars, bounds>>

(* Every flight was started and the last one failed: the bound of the      *)
(* model, the caller goes without an answer.                               *)
OutOfFlights(c) ==
  /\ pc[c] = "check" /\ ~Usable(got[c]) /\ Joinable(c) = {}
  /\ \A f \in Flight : flights[f].at # "none"
  /\ pc' = [pc EXCEPT ![c] = "idle"] /\ got' = [got EXCEPT ![c] = Nothing]
  /\ UNCHANGED <<input, dep, on, answer, flights, sharedVars, bounds>>

-----------------------------------------------------------------------------
(* state-machine.ts: a step that is not in the table throws out of the     *)
(* call.                                                                   *)
Allowed(s) ==
  CASE s = "PLANNED" -> {"GENERATING", "BLOCKED", "FAILED"}
    [] s = "GENERATING" -> {"VALIDATING", "BLOCKED", "FAILED"}
    [] s = "VALIDATING" -> {"READY", "REVISING", "BLOCKED", "FAILED"}
    [] s = "REVISING" -> {"VALIDATING", "BLOCKED", "FAILED"}
    [] OTHER -> {}

Moved(state, next) == IF next \in Allowed(state) THEN next ELSE "illegal"

(* The flight with the parts of made, in a new state, at a new place.      *)
Stays(f, made, at) ==
  flights' = [flights EXCEPT ![f] = [made EXCEPT !.at = IF made.state = "illegal" THEN "threw" ELSE at]]
Goes(f, made, state, at) == Stays(f, [made EXCEPT !.state = Moved(@, state)], at)

Step(f, at) ==
  /\ flights[f].at = at
  /\ UNCHANGED <<input, callVars, stops, removals>>
Alone == Works /\ UNCHANGED sharedVars

(* The gates of the input: its schema and that of the round before, facts  *)
(* that contradict one another, evidence that is not that of the spec.     *)
Malformed == input = "malformed"
Conflicting == input = "conflicting"
Lacking == input = "lacking"

(* The trace is numbered from the last stored event, from one when it      *)
(* cannot be read.  An audit of conflicting facts that cannot be sent is a *)
(* failure.                                                                *)
Begins(f) ==
  /\ Step(f, "begin") /\ UNCHANGED sharedVars
  /\ \E start \in {1, traced + 1} :
       /\ IF start = traced + 1 THEN Works ELSE Fails
       /\ LET made == [flights[f] EXCEPT !.start = start] IN
          \/ (Malformed \/ Conflicting \/ Lacking) /\ Goes(f, made, "BLOCKED", "trace")
          \/ Conflicting /\ Goes(f, made, "FAILED", "trace")
          \/ ~Malformed /\ ~Conflicting /\ ~Lacking /\ Goes(f, made, "GENERATING", "load")

LoadsCheckpoint(f) ==
  /\ Step(f, "load") /\ UNCHANGED sharedVars
  /\ \/ Works /\ checkpoint = Nothing /\ Stays(f, flights[f], "concept")
     \/ Works /\ checkpoint # Nothing
        /\ Stays(f, [flights[f] EXCEPT !.concept = checkpoint.concept, !.lab = checkpoint.lab,
                                       !.assessment = checkpoint.assessment],
                 IF checkpoint.lab = Nothing THEN "lab" ELSE "validate")
     \/ Fails /\ Stays(f, flights[f], "concept")

(* Artifacts: whether a lesson teaches, a lab practises and an assessment  *)
(* measures every core objective.                                          *)
Concept(f, rev) == [by : {f}, rev : {rev}, teaches : BOOLEAN]
Lab(f, rev, concept) == [by : {f}, rev : {rev}, of : {Id(concept)}, practises : BOOLEAN]
Assessment(f, rev, concept, lab) ==
  [by : {f}, rev : {rev}, of : {<<Id(concept), Id(lab)>>}, measures : BOOLEAN]

ASSUME NothingAssumption ==
  Nothing \notin Flight /\ \A f \in Flight, rev \in {1, 2} : Nothing \notin Concept(f, rev)

(* An agent throws, or an artifact is not ready: the flight ends, with     *)
(* what is ready so far.                                                   *)
AgentFails(f) == \E state \in {"FAILED", "BLOCKED"} : Goes(f, flights[f], state, "trace")

WritesConcept(f) ==
  /\ Step(f, "concept") /\ Alone
  /\ \/ AgentFails(f)
     \/ \E x \in Concept(f, 1) : Stays(f, [flights[f] EXCEPT !.concept = x], "saveConcept")

Saved(f) == [concept |-> flights[f].concept, lab |-> flights[f].lab,
             assessment |-> flights[f].assessment]
Saves(f) ==
  \/ Works /\ checkpoint' = Saved(f)
  \/ Fails /\ UNCHANGED checkpoint

SavesConcept(f) ==
  /\ Step(f, "saveConcept") /\ Saves(f) /\ UNCHANGED <<store, cache, traced>>
  /\ Stays(f, flights[f], "lab")

WritesLab(f) ==
  /\ Step(f, "lab") /\ Alone
  /\ \/ AgentFails(f)
     \/ \E x \in Lab(f, 1, flights[f].concept) :
          Stays(f, [flights[f] EXCEPT !.lab = x], "assessment")

WritesAssessment(f) ==
  /\ Step(f, "assessment") /\ Alone
  /\ \/ AgentFails(f)
     \/ \E x \in Assessment(f, 1, flights[f].concept, flights[f].lab) :
          Stays(f, [flights[f] EXCEPT !.assessment = x], "saveBranches")

SavesBranches(f) ==
  /\ Step(f, "saveBranches") /\ Saves(f) /\ UNCHANGED <<store, cache, traced>>
  /\ Stays(f, flights[f], "validate")

-----------------------------------------------------------------------------
(* What is revised: an artifact objected to and everything written from it. *)
Revised_Blamed(objections) == objections
Revised(objections) ==
  objections \cup (IF "concept" \in objections THEN {"lab", "assessment"} ELSE {})
             \cup (IF "lab" \in objections THEN {"assessment"} ELSE {})

(* VALIDATING is entered and left in one go.                               *)
Validates(f) ==
  /\ Step(f, "validate") /\ Alone
  /\ LET validating == [flights[f] EXCEPT !.state = Moved(@, "VALIDATING")] IN
     IF Objections(flights[f]) = {} THEN Stays(f, validating, "put")
     ELSE Goes(f, validating, "REVISING", "revise")

(* The only revision: the agents in order, each with the artifacts as they *)
(* are by then.  An agent that throws leaves the artifacts of before; one  *)
(* that is not ready blocks.                                               *)
Rewritten(f, concept, lab, assessment) ==
  LET due == Revised(Objections(flights[f])) IN
  /\ concept \in IF "concept" \in due THEN Concept(f, 2) ELSE {flights[f].concept}
  /\ lab \in IF "lab" \in due THEN Lab(f, 2, concept) ELSE {flights[f].lab}
  /\ assessment \in IF "assessment" \in due THEN Assessment(f, 2, concept, lab)
                    ELSE {flights[f].assessment}

Revises(f) ==
  /\ Step(f, "revise") /\ Alone
  /\ \E x \in Concept(f, 2) \cup {flights[f].concept} :
     \E y \in Lab(f, 2, x) \cup {flights[f].lab} :
     \E z \in Assessment(f, 2, x, y) \cup {flights[f].assessment} :
       /\ Rewritten(f, x, y, z)
       /\ Stays(f, [flights[f] EXCEPT !.concept = x, !.lab = y, !.assessment = z], "revalidate")

RevisionFails(f) == Step(f, "revise") /\ Alone /\ AgentFails(f)

Revalidated(f) == Objections(flights[f]) = {}

ValidatesAgain(f) ==
  /\ Step(f, "revalidate") /\ Alone
  /\ LET validating == [flights[f] EXCEPT !.state = Moved(@, "VALIDATING")] IN
     IF Revalidated(f) THEN Stays(f, validating, "put")
     ELSE Goes(f, validating, "BLOCKED", "trace")

(* putBatch stores both private halves or throws.  A store that answers    *)
(* with the wrong number of references has its pair deleted again; if that *)
(* fails, the pair is kept unpublished.                                    *)
Discarded_Kept(f) == store \cup {f}
Discarded(f) == store
StoresPair(f) ==
  /\ Step(f, "put") /\ UNCHANGED <<cache, checkpoint, traced>>
  /\ \/ /\ store' = store \cup {f} /\ Works
        /\ Goes(f, [flights[f] EXCEPT !.pair = f], "READY", "trace")
     \/ UNCHANGED store /\ Works /\ Goes(f, flights[f], "FAILED", "trace")
     \/ store' = Discarded(f) /\ Works /\ Goes(f, flights[f], "FAILED", "trace")
     \/ /\ store' = store \cup {f} /\ Fails
        /\ Goes(f, [flights[f] EXCEPT !.kept = TRUE], "FAILED", "trace")

(* The trace is appended only behind what is stored already; a ready       *)
(* result is cached and its checkpoint deleted.                            *)
AppendsTrace(f) ==
  /\ Step(f, "trace") /\ UNCHANGED <<store, cache, checkpoint>>
  /\ \/ Works /\ traced' = IF flights[f].start > traced THEN flights[f].start ELSE traced
     \/ Fails /\ UNCHANGED traced
  /\ Stays(f, flights[f], IF flights[f].state = "READY" THEN "cache" ELSE "return")

PutsCache(f) ==
  /\ Step(f, "cache") /\ UNCHANGED <<store, checkpoint, traced>>
  /\ \/ Works /\ cache' = Result(f, "READY")
     \/ Fails /\ UNCHANGED cache
  /\ Stays(f, flights[f], "clean")

DeletesCheckpoint(f) ==
  /\ Step(f, "clean") /\ UNCHANGED <<store, cache, traced>>
  /\ \/ Works /\ checkpoint' = Nothing
     \/ Fails /\ UNCHANGED checkpoint
  /\ Stays(f, flights[f], "return")

Released(f) == [c \in Callers |-> IF on[c] = f THEN Nothing ELSE on[c]]

(* All who wait get the result, and the flight can no longer be joined.    *)
Returns(f) ==
  /\ flights[f].at = "return"
  /\ flights' = [flights EXCEPT ![f] = [Idle EXCEPT !.at = "done", !.pair = flights[f].pair,
                                                   !.kept = flights[f].kept]]
  /\ pc' = [c \in Callers |-> IF pc[c] = "waits" /\ on[c] = f THEN "answered" ELSE pc[c]]
  /\ answer' = [c \in Callers |-> IF pc[c] = "waits" /\ on[c] = f
                                  THEN Result(f, flights[f].state) ELSE answer[c]]
  /\ on' = Released(f)
  /\ UNCHANGED <<input, dep, got, sharedVars, bounds>>

-----------------------------------------------------------------------------
(* The process stops: calls, flights and the checkpoints in memory are     *)
(* gone, files stay.                                                       *)
ProcessStops ==
  /\ stops < MaxStops /\ stops' = stops + 1
  /\ pc' = [c \in Callers |-> "idle"] /\ dep' = [c \in Callers |-> Nothing] /\ on' = [c \in Callers |-> Nothing]
  /\ got' = [c \in Callers |-> Nothing] /\ answer' = [c \in Callers |-> Nothing]
  /\ flights' = [f \in Flight |-> IF Active(f) THEN [Idle EXCEPT !.at = "stopped"] ELSE flights[f]]
  /\ checkpoint' = Nothing
  /\ UNCHANGED <<input, store, cache, traced, faults, removals>>

(* Who was given a pair deletes it, not before its own flight returned.    *)
Removes ==
  /\ removals < MaxRemovals /\ removals' = removals + 1
  /\ \E c \in Callers : /\ answer[c] # Nothing /\ answer[c].pair \in store
                        /\ ~Active(answer[c].pair)
                        /\ store' = store \ {answer[c].pair}
  /\ UNCHANGED <<input, callVars, flights, cache, checkpoint, traced, faults, stops>>

CallerStep(c) == AsksCache(c) \/ ChecksCache(c) \/ OutOfFlights(c)
FlightStep(f) ==
  \/ Begins(f) \/ LoadsCheckpoint(f) \/ WritesConcept(f) \/ SavesConcept(f)
  \/ WritesLab(f) \/ WritesAssessment(f) \/ SavesBranches(f) \/ Validates(f)
  \/ Revises(f) \/ RevisionFails(f) \/ ValidatesAgain(f)
  \/ StoresPair(f) \/ AppendsTrace(f) \/ PutsCache(f) \/ DeletesCheckpoint(f) \/ Returns(f)

PipelineNext ==
  \/ \E c \in Callers : Call(c) \/ CallerStep(c)
  \/ \E f \in Flight : FlightStep(f)
  \/ ProcessStops \/ Removes
PipelineSpec == PipelineInit /\ [][PipelineNext]_pipelineVars

-----------------------------------------------------------------------------
Made(concept, lab) ==
  /\ concept \in {Nothing} \cup UNION {Concept(f, rev) : f \in Flight, rev \in {1, 2}}
  /\ lab = Nothing \/ (concept # Nothing /\ lab.by \in Flight /\ lab.rev \in {1, 2})

PipelineTypeOK ==
  /\ pc \in [Callers -> {"idle", "cache", "check", "waits", "answered"}]
  /\ dep \in [Callers -> Deps \cup {Nothing}]
  /\ \A c \in Callers : on[c] \in Flight \cup {Nothing} /\ (pc[c] = "waits" <=> on[c] # Nothing)
  /\ \A f \in Flight : /\ flights[f].state \in State \cup {"illegal"} /\ flights[f].start \in 0..MaxFlights
                        /\ Made(flights[f].concept, flights[f].lab)
  /\ store \subseteq Flight /\ traced \in 0..MaxFlights
  /\ faults \in 0..MaxFaults /\ stops \in 0..MaxStops /\ removals \in 0..MaxRemovals

(* What is published is of one piece, whether it was written in one go, in *)
(* part resumed from the checkpoint of another flight, revised, or taken   *)
(* from the cache: the lab was written from the lesson, and the assessment *)
(* from the lesson and the lab, that are published with it; and the last   *)
(* comparison was of these artifacts and not of those before the revision  *)
(* (content-pipeline.ts 690-718, the cascade of revisions).                *)
Coherent ==
  \A c \in Callers : answer[c] # Nothing => answer[c].fits /\ answer[c].objections = {}

(* A pair stays in the store only if its flight was stopped or published   *)
(* it, or if the deletion of this pair failed.                             *)
NothingLeftBehind ==
  \A p \in store : flights[p].at = "stopped" \/ flights[p].pair = p \/ flights[p].kept

(* A ready answer names a pair that is in the store when it is given, also *)
(* from the cache after the pair of an earlier answer was deleted.         *)
ServedIsReadable ==
  [][\A c \in Callers : pc[c] # "answered" /\ pc'[c] = "answered" /\ answer'[c].state = "READY"
       => answer'[c].pair \in store']_pipelineVars

=============================================================================

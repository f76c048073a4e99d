------------------------------ MODULE NextRound ------------------------------
(***************************************************************************)
(* prepareNextRound: from the frozen feedback of a round, and what Roles A *)
(* and B supply, the specification of the next round is built, or the      *)
(* request is refused, or more input is asked for.                         *)
(*                                                                         *)
(* A content hash is the content it is made of, so an identity is a record *)
(* and a run is named by the identity of the request that prepared it.     *)
(* Rounds form a tree: a feedback may prepare several follow-ups when A or *)
(* B supply other input.  ExecutionJournal models how a prepared round is  *)
(* executed; the names of the two modules differ so that one can extend    *)
(* both.                                                                   *)
(***************************************************************************)
EXTENDS Integers, FiniteSets

CONSTANTS
  Profile,    \* [version, level, learner] snapshots of B
  Evidence,   \* [id, level, facts, match] packs of A
  Path,       \* [node, objectives, needs, sound] path nodes of B
  Targets,    \* sets of objectives a decision may name
  First,      \* the specification of the first round
  Absent,
  MaxRounds   \* bound: rounds prepared after the first

ASSUME RoundAssumption == MaxRounds \in Nat

VARIABLE rounds   \* specifications prepared so far
roundVars == <<rounds>>

-----------------------------------------------------------------------------
Action == {"remediate", "reinforce", "advance", "reprofile"}

Dimension == {"domain", "demand", "steps", "code", "prerequisites", "scaffold"}

Least(a, b) == IF a <= b THEN a ELSE b

Decrement(n) == IF n = 0 THEN 0 ELSE n - 1

(* adaptationDefaults: shell and difficulty of a learner's level.          *)
Defaults(level) ==
  LET base == CASE level = "beginner" -> 1 [] level = "basic" -> 2
                [] level = "intermediate" -> 3 [] level = "integrated" -> 4
      support == 4 - base
  IN  [scaffold |-> support,
       density |-> CASE level = "beginner" -> "low" [] level = "integrated" -> "high"
                     [] OTHER -> "medium",
       difficulty |-> [d \in Dimension |->
          CASE d \in {"code", "prerequisites"} -> base - 1
            [] d = "scaffold" -> support [] OTHER -> base]]

(* Mutant: support may pass the highest level.                             *)
Remedial_Unbounded(spec) ==
  [scaffold |-> spec.scaffold + 1,
   density |-> IF spec.density = "high" THEN "medium" ELSE "low",
   difficulty |-> [d \in Dimension |->
      CASE d = "domain" -> spec.difficulty[d]
        [] d = "scaffold" -> spec.difficulty[d] + 1
        [] OTHER -> Decrement(spec.difficulty[d])]]

(* remedialDifficulty, incrementScaffoldLevel, reduceReadingDensity.       *)
Remedial(spec) ==
  [scaffold |-> Least(3, spec.scaffold + 1),
   density |-> IF spec.density = "high" THEN "medium" ELSE "low",
   difficulty |-> [d \in Dimension |->
      CASE d = "domain" -> spec.difficulty[d]
        [] d = "scaffold" -> Least(5, spec.difficulty[d] + 1)
        [] OTHER -> Decrement(spec.difficulty[d])]]

(* Mutant: a repeated round is placed at the learner's level again.        *)
Unchanged_Placed(spec) == Defaults(spec.profile.level)

Unchanged(spec) ==
  [scaffold |-> spec.scaffold, density |-> spec.density, difficulty |-> spec.difficulty]

-----------------------------------------------------------------------------
(* buildGenerationSpec.  The shape of a path node is judged as a whole;    *)
(* the numbers are checked one by one.                                     *)
WellFormed(path, shell) ==
  /\ path.sound
  /\ \A d \in Dimension : shell.difficulty[d] \in 0..5
  /\ shell.scaffold \in 0..3

SpecOf(run, profile, path, evidence, shell) ==
  [run |-> run, profile |-> profile, path |-> path, evidence |-> evidence,
   scaffold |-> shell.scaffold, density |-> shell.density,
   difficulty |-> shell.difficulty]

Blocked(code) == [status |-> "blocked", code |-> code, spec |-> Absent]

Build(run, profile, path, evidence, shell) ==
  CASE ~WellFormed(path, shell) -> Blocked("INVALID_INPUT")
    [] evidence.match = "none" \/ ~(path.needs \subseteq evidence.facts) ->
         Blocked("MISSING_EVIDENCE")
    [] evidence.match = "weak" -> Blocked("WEAK_EVIDENCE")
    [] OTHER -> [status |-> "ready", code |-> Absent,
                 spec |-> SpecOf(run, profile, path, evidence, shell)]

-----------------------------------------------------------------------------
(* The request: parent, feedback and current inputs i; what A and B supply *)
(* may be Absent.                                                          *)

Frozen(i) == i.feedback.frozen

(* validateCurrentIdentity.                                                *)
SameRound(i) ==
  /\ i.feedback.run = i.parent.run
  /\ i.feedback.node = i.parent.path.node
  /\ i.feedback.version = i.parent.profile.version

(* validateDecisionObjectives.                                             *)
KnownTargets(i) ==
  /\ i.feedback.targets \subseteq i.parent.path.objectives
  /\ i.feedback.action \in {"remediate", "reinforce"} => i.feedback.targets # {}

(* validateCurrentInputs.                                                  *)
CurrentInputs(i) == i.profile = i.parent.profile /\ i.evidence = i.parent.evidence

(* validateUpdatedState: new input is new, and fits together.              *)
FreshInputs(i, profile, evidence) ==
  /\ profile.learner = i.profile.learner
  /\ i.newProfile # Absent => profile.version # i.profile.version
  /\ evidence.level = profile.level
  /\ i.newEvidence # Absent => evidence.id # i.evidence.id

Else(x, y) == IF x = Absent THEN y ELSE x

(* feedbackIdentity and what the branches add: followUpRunId hashes it.    *)
Identity(i) ==
  [parent |-> i.parent, feedback |-> i.feedback, path |-> i.newPath,
   profile |-> i.newProfile, evidence |-> i.newEvidence, generation |-> i.generation]

Reprofile(i) ==
  LET updated == i.newPath # Absent \/ i.newEvidence # Absent \/ i.generation # Absent
  IN  CASE updated /\ (i.newPath = Absent \/ i.newEvidence = Absent
                        \/ i.newProfile = Absent \/ i.generation = Absent) ->
             Blocked("INVALID_ADVANCE_INPUT")
        [] ~i.feedback.drift -> Blocked("MISSING_PROFILE_DRIFT")
        [] ~updated -> [status |-> "suggested", code |-> Absent, spec |-> Absent]
        [] ~FreshInputs(i, i.newProfile, i.newEvidence) ->
             Blocked("INVALID_ADVANCE_INPUT")
        [] OTHER -> Build(Identity(i), i.newProfile, i.newPath, i.newEvidence,
                          Defaults(i.newProfile.level))

Advance(i) ==
  LET profile == Else(i.newProfile, i.profile)
  IN  CASE i.newPath = Absent \/ i.newEvidence = Absent ->
             [status |-> "awaiting", code |-> Absent, spec |-> Absent]
        [] i.newPath.node = i.parent.path.node \/ ~FreshInputs(i, profile, i.newEvidence) ->
             Blocked("INVALID_ADVANCE_INPUT")
        [] OTHER -> Build(Identity(i), profile, i.newPath, i.newEvidence,
                          Defaults(profile.level))

PathOf(spec) == spec.path

(* remediate and reinforce stay on the node; only remediate softens it.    *)
Repeat(i) ==
  LET profile == Else(i.newProfile, i.profile)
      evidence == Else(i.newEvidence, i.evidence)
      updated == i.newProfile # Absent \/ i.newEvidence # Absent
  IN  IF i.newPath # Absent \/ i.generation # Absent
            \/ (updated /\ ~FreshInputs(i, profile, evidence))
        THEN Blocked("INVALID_ADVANCE_INPUT")
        ELSE Build(Identity(i), profile, PathOf(i.parent), evidence,
                   IF i.feedback.action = "remediate" THEN Remedial(i.parent)
                                                      ELSE Unchanged(i.parent))

(* The checks before the action is looked at: the first that fails.        *)
Refusal(i) ==
  CASE ~Frozen(i) -> "INVALID_FEEDBACK"
    [] ~SameRound(i) -> "IDENTITY_MISMATCH"
    [] ~KnownTargets(i) -> "INVALID_TARGET_OBJECTIVES"
    [] ~CurrentInputs(i) -> "INVALID_CURRENT_INPUT"
    [] OTHER -> Absent

Prepared(i) ==
  CASE Refusal(i) # Absent -> Blocked(Refusal(i))
    [] i.feedback.action = "reprofile" -> Reprofile(i)
    [] i.feedback.action = "advance" -> Advance(i)
    [] OTHER -> Repeat(i)

-----------------------------------------------------------------------------
(* What a specification that was built has passed.                         *)
Buildable(s) ==
  /\ WellFormed(s.path, s)
  /\ s.path.needs \subseteq s.evidence.facts /\ s.evidence.match \notin {"none", "weak"}

(* The first round was built like every other.                             *)
ASSUME FirstAssumption == Buildable(First)

RoundInit == rounds = {First}

(* The frozen feedback on a round.                                         *)
Feedback(s, action, targets, frozen) ==
  [run |-> s.run, node |-> s.path.node, version |-> s.profile.version,
   action |-> action, targets |-> targets, frozen |-> frozen,
   drift |-> action = "reprofile"]

(* A request names a parent, the feedback on some round, and the profile   *)
(* and the evidence some round was prepared with.                          *)
Request(parent, feedback, held) ==
  [parent |-> parent, feedback |-> feedback,
   profile |-> held.profile, evidence |-> held.evidence, newPath |-> Absent,
   newProfile |-> Absent, newEvidence |-> Absent, generation |-> Absent]

Supplied(i, path, profile, evidence, generation) ==
  [i EXCEPT !.newPath = path, !.newProfile = profile,
            !.newEvidence = evidence, !.generation = generation]

(* A ready round is carried out under the hash of what was prepared, and   *)
(* may be the parent of the next; every other outcome changes nothing.     *)
Prepare ==
  /\ Cardinality(rounds) <= MaxRounds
  /\ \E parent, graded, held \in rounds, action \in Action, targets \in Targets,
       frozen \in BOOLEAN :
       LET i == Request(parent, Feedback(graded, action, targets, frozen), held)
       IN  /\ Refusal(i) = Absent
           /\ \E newPath \in Path \cup {Absent}, newProfile \in Profile \cup {Absent},
                 newEvidence \in Evidence \cup {Absent}, generation \in {Absent, "advance"} :
                LET result == Prepared(Supplied(i, newPath, newProfile, newEvidence, generation))
                IN  /\ result.status = "ready"
                    /\ rounds' = rounds \cup {result.spec}

RoundNext == Prepare

RoundSpec == RoundInit /\ [][RoundNext]_roundVars

-----------------------------------------------------------------------------
RoundTypeOK ==
  /\ Cardinality(rounds) <= MaxRounds + 1
  /\ \A s \in rounds :
       /\ s.profile \in Profile /\ s.path \in {p \in Path : p.sound} /\ s.evidence \in Evidence
       /\ s.scaffold \in 0..3 /\ s.difficulty \in [Dimension -> 0..5]

(* A learner can always be given the round again: whatever rounds came     *)
(* before, frozen feedback that says remediate or reinforce, with the      *)
(* profile and the evidence the round was prepared with, is never blocked. *)
AlwaysRepeatable ==
  \A s \in rounds, a \in {"remediate", "reinforce"} :
    \A targets \in (SUBSET s.path.objectives) \ {{}} :
      Prepared(Request(s, Feedback(s, a, targets, TRUE), s)).status
        = "ready"

(* On one node a repeated round never asks more of the learner than the    *)
(* round it repeats: no demand rises, no support is taken away, whether or *)
(* not B has placed the learner anew in the meantime.                      *)
RepeatsDoNotHarden ==
  \A s \in rounds :
    (s # First /\ s.run.feedback.action \in {"remediate", "reinforce"}) =>
      LET p == s.run.parent
      IN  /\ s.path = p.path /\ s.scaffold >= p.scaffold
          /\ \A d \in Dimension :
               IF d = "scaffold" THEN s.difficulty[d] >= p.difficulty[d]
                                 ELSE s.difficulty[d] <= p.difficulty[d]
=============================================================================

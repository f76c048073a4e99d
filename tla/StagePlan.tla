------------------------------ MODULE StagePlan ------------------------------
(***************************************************************************)
(* From what a learner lacks to the questions of one round.  Role B walks  *)
(* the prerequisite graph depth first, for a first path (the targets and   *)
(* what they need) or for a recovery (the missing prerequisites and what   *)
(* they need, of which one stage takes the first); the path node it makes, *)
(* or one that comes from outside, passes the gate of the generation spec, *)
(* which promises that every objective can be measured; the provider then  *)
(* places the required modalities and gives every objective a question,    *)
(* greedily, before any model is called.                                   *)
(***************************************************************************)
EXTENDS Integers, Sequences, FiniteSets, SequencesExt

CONSTANTS
  Concepts,    \* knowledge points of the knowledge base
  Unlisted,    \* a reference to a knowledge point the base does not have
  MaxGiven,    \* objectives of a path node that comes from outside
  MaxSlots,    \* questions of a round (30 in the code)
  MaxTier,     \* questions of one tier (20 in the code)
  MaxRequired, \* required modalities of a path node that comes from outside
  Nil

ASSUME PlanAssumption ==
  /\ Unlisted \notin Concepts /\ IsFiniteSet(Concepts)
  /\ MaxGiven \in Nat /\ MaxRequired \in Nat
  /\ MaxSlots \in Nat /\ MaxTier \in Nat
  /\ MaxSlots >= 5 /\ MaxTier >= 2   \* the largest form a recovery asks for
  /\ 3 * MaxTier >= MaxSlots         \* the tiers have room for a full form

Behavior == {"recognize", "explain", "trace", "apply", "debug", "create"}
Modality == {"mcq", "true_false", "trace", "short_answer", "code"}
Tier == 1..3

VARIABLES
  search,      \* the walk over the graph, Nil once its outcome was used
  phase,       \* what is being done
  origin,      \* who made the path node: "initial", "recovery", "given"
  objectives,  \* observable behaviour of each core objective
  tiers,       \* questions per tier
  required,    \* required modalities
  slots,       \* modality of each question
  waiting,     \* objectives without a question, in the order they are served
  kept,        \* questions whose modality may not be changed any more
  assigned     \* objective of each question

nodeVars == <<origin, objectives, tiers, required>>
formVars == <<slots, waiting, kept, assigned>>
planVars == <<search, phase, origin, objectives, tiers, required, slots, waiting, kept, assigned>>

-----------------------------------------------------------------------------
(* The walk: stack holds the visits under way, each with the prerequisites *)
(* it has not looked at; every order of a list of prerequisites is tried.  *)

Graph == [Concepts -> SUBSET (Concepts \cup {Unlisted})]

Walk(kind, graph, known, roots) ==
  [kind |-> kind, graph |-> graph, known |-> known, roots |-> roots,
   left |-> roots, stack |-> << >>, ordered |-> << >>, visited |-> {}]

Visiting == {search.stack[i].node : i \in DOMAIN search.stack}

(* What a visit returns from at once.  A recovery walks into a root the     *)
(* learner is said to know, a first path does not.                         *)
Mastered(n) == n \in search.known /\ (search.kind = "recovery" => n \notin search.roots)
PassedOver(n) == n \in search.visited \/ Mastered(n)

Offered == IF search.stack = << >> THEN search.left ELSE Last(search.stack).rest

Dropped(n) ==
  IF search.stack = << >>
  THEN [search EXCEPT !.left = @ \ {n}]
  ELSE [search EXCEPT !.stack[Len(search.stack)].rest = @ \ {n}]

Entered(n) == [node |-> n, rest |-> search.graph[n]]

PassesOver ==
  /\ phase = "walking"
  /\ \E n \in Offered : PassedOver(n) /\ search' = Dropped(n)
  /\ UNCHANGED <<phase, nodeVars, formVars>>

Visits ==
  /\ phase = "walking"
  /\ \E n \in (Offered \cap Concepts) \ Visiting :
       /\ ~ PassedOver(n)
       /\ search' = [Dropped(n) EXCEPT !.stack = Append(@, Entered(n))]
  /\ UNCHANGED <<phase, nodeVars, formVars>>

(* A reference to nothing and a cycle are failures of the graph.            *)
Broken(n) == n = Unlisted \/ n \in Visiting

Refuses ==
  /\ phase = "walking"
  /\ \E n \in Offered : ~ PassedOver(n) /\ Broken(n)
  /\ phase' = "refused"
  /\ UNCHANGED <<search, nodeVars, formVars>>

(* The targets of a first path are no prerequisites of it.                  *)
Listed_First(n) == <<n>> \o search.ordered
Listed(n) ==
  IF search.kind = "initial" /\ n \in search.roots THEN search.ordered
  ELSE Append(search.ordered, n)

Leaves ==
  /\ phase = "walking" /\ search.stack # << >> /\ Offered = {}
  /\ LET n == Last(search.stack).node IN
     search' = [search EXCEPT !.stack = Front(@), !.visited = @ \cup {n},
                              !.ordered = Listed(n)]
  /\ UNCHANGED <<phase, nodeVars, formVars>>

Finishes ==
  /\ phase = "walking" /\ search.stack = << >> /\ search.left = {}
  /\ phase' = "found"
  /\ UNCHANGED <<search, nodeVars, formVars>>

-----------------------------------------------------------------------------
(* The path node.                                                          *)

TierOf == [mcq |-> 1, true_false |-> 1, trace |-> 2, short_answer |-> 2, code |-> 3]
Preferred == [recognize |-> "mcq", explain |-> "short_answer", trace |-> "trace",
              apply |-> "trace", debug |-> "code", create |-> "code"]

Measuring(b) ==
  CASE b = "recognize" -> Modality
    [] b = "explain" -> {"short_answer"}
    [] b = "trace" -> {"trace", "code"}
    [] b = "apply" -> {"trace", "short_answer", "code"}
    [] OTHER -> {"code"}

Total(t) == t[1] + t[2] + t[3]

Distinct(s) ==
  LET kinds[k \in 0..Len(s)] ==
        IF k = 0 THEN << >>
        ELSE IF Contains(kinds[k - 1], s[k]) THEN kinds[k - 1] ELSE Append(kinds[k - 1], s[k])
  IN kinds[Len(s)]

(* One target of a first path asks for the behaviour of the goal, the       *)
(* others for a supporting one.                                            *)
InitialObjectives(goal, n) ==
  [i \in 1..n |-> IF i = 1 \/ goal \notin {"create", "debug"} THEN goal ELSE "apply"]

WithAnchor(modes) ==
  IF Len(modes) < MaxSlots /\ ToSet(modes) = {"code"} THEN <<"mcq">> \o modes ELSE modes

Fallback == <<<<1, 2, 3>>, <<2, 3, 1>>, <<3, 2, 1>>>>

OneMore(t, m) ==
  LET order == Fallback[TierOf[m]]
      open == SelectInSeq(order, LAMBDA k : t[k] < MaxTier)
  IN [t EXCEPT ![order[open]] = @ + 1]

AllocatedTiers(modes) ==
  LET counts[k \in 0..Len(modes)] ==
        IF k = 0 THEN <<0, 0, 0>> ELSE OneMore(counts[k - 1], modes[k])
      all == counts[Len(modes)]
  IN IF all[1] + all[2] = 0 THEN [all EXCEPT ![3] = @ - 1, ![2] = @ + 1] ELSE all

InitialNode(behaviors) ==
  LET modes == WithAnchor([i \in DOMAIN behaviors |-> Preferred[behaviors[i]]])
  IN [tiers |-> AllocatedTiers(modes), required |-> Distinct(modes)]

(* A recovery takes one prerequisite, or up to three substitutes.           *)
RecoveryObjectives(n) == [i \in 1..n |-> CASE i = 1 -> "recognize" [] i = 2 -> "apply" [] OTHER -> "create"]

RecoveryBlueprint(n) ==
  CASE n = 1 -> [tiers |-> <<1, 0, 0>>, required |-> <<"mcq">>]
    [] n = 2 -> [tiers |-> <<1, 1, 0>>, required |-> <<"mcq", "trace">>]
    [] OTHER -> [tiers |-> <<2, 2, 1>>, required |-> <<"mcq", "trace", "code">>]

(* Questions are added, lowest tier first, until every objective has room.  *)
WithCapacity(node, cores) ==
  LET grow(t, k) ==
        LET lack == IF cores > Total(t) THEN cores - Total(t) ELSE 0
        IN [t EXCEPT ![k] = IF @ + lack > MaxTier THEN MaxTier ELSE @ + lack]
  IN [node EXCEPT !.tiers = IF cores > Total(@) THEN FoldLeft(grow, @, <<1, 2, 3>>) ELSE @]

PlansInitial ==
  /\ phase = "found" /\ search.kind = "initial"
  /\ \E goal \in Behavior :
       LET obj == InitialObjectives(goal, Cardinality(search.roots))
           node == InitialNode(obj)
       IN objectives' = obj /\ tiers' = node.tiers /\ required' = node.required
  /\ origin' = "initial" /\ phase' = "offered" /\ search' = Nil
  /\ UNCHANGED formVars

(* With a closure the stage is its first node.                              *)
Stage == Head(search.ordered)

PlansRecovery ==
  /\ phase = "found" /\ search.kind = "recovery"
  /\ objectives' = RecoveryObjectives(1)
  /\ LET node == WithCapacity(RecoveryBlueprint(1), 1)
     IN tiers' = node.tiers /\ required' = node.required
  /\ origin' = "recovery" /\ phase' = "offered" /\ search' = Nil
  /\ UNCHANGED formVars

(* Without one, up to three knowledge points replace the targets, or none   *)
(* is left and the path is unsupported.                                    *)
Replaces ==
  /\ phase = "replacing"
  /\ \/ \E n \in 1..3 :
          LET node == WithCapacity(RecoveryBlueprint(n), n)
          IN /\ objectives' = RecoveryObjectives(n) /\ tiers' = node.tiers
             /\ required' = node.required /\ origin' = "recovery" /\ phase' = "offered"
     \/ phase' = "refused" /\ UNCHANGED nodeVars
  /\ UNCHANGED <<search, formVars>>

(* Any other upstream: another planner, a learner's formal path.            *)
Tiers == {t \in [Tier -> 0..MaxTier] : Total(t) \in 1..MaxSlots}

Given ==
  /\ phase = "given"
  /\ \E n \in 0..MaxRequired : \E modes \in [1..n -> Modality] :
       IsInjective(modes) /\ required' = modes
  /\ \E t \in Tiers : tiers' = <<t[1], t[2], t[3]>>
  /\ phase' = "offered"
  /\ UNCHANGED <<search, origin, objectives, formVars>>

-----------------------------------------------------------------------------
(* The gate of the generation spec.                                        *)

(* The largest number of objectives the required modalities can measure,    *)
(* one objective each: what the augmenting paths of the code compute.      *)
Matchable(S) ==
  \E f \in [S -> DOMAIN required] :
    IsInjective(f) /\ \A i \in S : required[f[i]] \in Measuring(objectives[i])

CanMeasure ==
  /\ Len(required) <= Total(tiers) /\ Len(objectives) <= Total(tiers)
  /\ \E S \in SUBSET DOMAIN objectives :
       /\ Matchable(S)
       /\ Len(objectives) - Cardinality(S) <= Total(tiers) - Len(required)

Acceptable ==
  /\ tiers[1] + tiers[2] >= 1
  /\ Total(tiers) \in 1..MaxSlots /\ \A k \in Tier : tiers[k] <= MaxTier
  /\ CanMeasure

TierSeq == [i \in 1..Total(tiers) |-> IF i <= tiers[1] THEN 1 ELSE IF i <= tiers[1] + tiers[2] THEN 2 ELSE 3]

DefaultSlots ==
  [i \in 1..Total(tiers) |->
     CASE TierSeq[i] = 1 -> <<"mcq", "true_false">>[1 + ((i - 1) % 2)]
       [] TierSeq[i] = 2 -> <<"trace", "short_answer">>[1 + ((i - 1 - tiers[1]) % 2)]
       [] OTHER -> "code"]

Gate ==
  /\ phase = "offered"
  /\ IF Acceptable
     THEN phase' = "placing" /\ slots' = DefaultSlots
          /\ waiting' = required /\ UNCHANGED <<nodeVars, kept, assigned>>
     ELSE phase' = "rejected" /\ UNCHANGED <<nodeVars, formVars>>
  /\ UNCHANGED search

-----------------------------------------------------------------------------
(* The form: ensureRequiredModalities, then assignObjectives.              *)

Times(m) == Cardinality({i \in DOMAIN slots : slots[i] = m})
Spare(i) == ~ Contains(required, slots[i]) \/ Times(slots[i]) > 1

Places ==
  /\ phase = "placing" /\ waiting # << >>
  /\ LET m == Head(waiting)
         own == {i \in DOMAIN slots : Spare(i) /\ TierSeq[i] = TierOf[m]}
         any == {i \in DOMAIN slots : Spare(i)}
         first(S) == CHOOSE i \in S : \A j \in S : i <= j
     IN \/ /\ Contains(slots, m) /\ waiting' = Tail(waiting) /\ UNCHANGED <<phase, slots>>
        \/ /\ ~ Contains(slots, m) /\ any # {}
           /\ slots' = [slots EXCEPT ![first(IF own # {} THEN own ELSE any)] = m]
           /\ waiting' = Tail(waiting) /\ UNCHANGED phase
        \/ /\ ~ Contains(slots, m) /\ any = {}
           /\ phase' = "threw" /\ UNCHANGED <<slots, waiting>>
  /\ UNCHANGED <<search, nodeVars, kept, assigned>>

(* The first question of each required modality keeps its modality.         *)
Protected_None == {}
Protected == {CHOOSE i \in DOMAIN slots : slots[i] = m /\ \A j \in DOMAIN slots : slots[j] = m => i <= j :
                m \in {r \in ToSet(required) : Contains(slots, r)}}

Compatible(b) == {i \in DOMAIN slots : slots[i] \in Measuring(b)}

(* Objectives with the fewest questions that measure them come first.       *)
ServedBefore(i, j) ==
  LET count(o) == Cardinality(Compatible(objectives[o]))
  IN count(i) < count(j) \/ (count(i) = count(j) /\ i < j)

ServingOrder ==
  CHOOSE order \in Bijection(DOMAIN objectives, DOMAIN objectives) :
    \A a, b \in DOMAIN objectives : a < b => ServedBefore(order[a], order[b])

StartsServing ==
  /\ phase = "placing" /\ waiting = << >>
  /\ phase' = "serving" /\ waiting' = ServingOrder /\ kept' = Protected
  /\ assigned' = [s \in DOMAIN slots |-> 0]
  /\ UNCHANGED <<search, nodeVars, slots>>

Open == {s \in DOMAIN slots : assigned[s] = 0}
Lowest(S) == CHOOSE s \in S : \A t \in S : s <= t

(* A question that is kept anyway is used up first.                         *)
Choice(S) == Lowest(IF S \cap kept # {} THEN S \cap kept ELSE S)

Serves ==
  /\ phase = "serving" /\ waiting # << >>
  /\ LET o == Head(waiting)
         fit == Open \cap Compatible(objectives[o])
         free == Open \ kept
     IN \/ /\ fit # {}
           /\ assigned' = [assigned EXCEPT ![Choice(fit)] = o]
           /\ waiting' = Tail(waiting) /\ UNCHANGED <<phase, slots>>
        \/ /\ fit = {} /\ free # {}
           /\ assigned' = [assigned EXCEPT ![Lowest(free)] = o]
           /\ slots' = [slots EXCEPT ![Lowest(free)] = Preferred[objectives[o]]]
           /\ waiting' = Tail(waiting) /\ UNCHANGED phase
        \/ /\ fit = {} /\ free = {}
           /\ phase' = "threw" /\ UNCHANGED <<slots, waiting, assigned>>
  /\ UNCHANGED <<search, nodeVars, kept>>

(* The other questions take turns over what they can measure.               *)
Nth(S, k) == CHOOSE o \in S : Cardinality({p \in S : p < o}) = k

Filled ==
  LET fit(s) == {o \in DOMAIN objectives : slots[s] \in Measuring(objectives[o])}
      pool(s) == IF fit(s) = {} THEN DOMAIN objectives ELSE fit(s)
      cursor(s) == Cardinality({t \in Open : t < s})
  IN [s \in DOMAIN slots |->
        IF assigned[s] # 0 THEN assigned[s] ELSE Nth(pool(s), cursor(s) % Cardinality(pool(s)))]

Fills ==
  /\ phase = "serving" /\ waiting = << >>
  /\ assigned' = Filled /\ phase' = "planned"
  /\ UNCHANGED <<search, nodeVars, slots, waiting, kept>>

(* Up to three questions of the first two tiers open the round.             *)
Anchors == {i \in DOMAIN slots : TierSeq[i] <= 2} \cap 1..3

-----------------------------------------------------------------------------
PlanInit ==
  /\ \/ /\ phase = "walking" /\ origin = Nil /\ objectives = << >>
        /\ \E kind \in {"initial", "recovery"}, graph \in Graph, known \in SUBSET Concepts,
              roots \in (SUBSET Concepts) \ {{}} :
             /\ kind = "initial" => Cardinality(roots) <= MaxSlots
             /\ search = Walk(kind, graph, known, roots)
     \/ /\ phase = "replacing" /\ origin = Nil /\ objectives = << >> /\ search = Nil
     \/ /\ phase = "given" /\ origin = "given" /\ search = Nil
        /\ \E n \in 1..MaxGiven : objectives \in [1..n -> Behavior]
  /\ tiers = <<0, 0, 0>> /\ required = << >>
  /\ slots = << >> /\ waiting = << >> /\ kept = {} /\ assigned = << >>

Stopped == phase \in {"refused", "rejected", "threw", "planned"} /\ UNCHANGED planVars

PlanNext ==
  \/ PassesOver \/ Visits \/ Refuses \/ Leaves \/ Finishes
  \/ PlansInitial \/ PlansRecovery \/ Replaces \/ Given
  \/ Gate \/ Places \/ StartsServing \/ Serves \/ Fills
  \/ Stopped

PlanSpec == PlanInit /\ [][PlanNext]_planVars

-----------------------------------------------------------------------------
PlanTypeOK ==
  /\ phase \in {"walking", "found", "refused", "replacing", "given", "offered", "rejected",
                "placing", "serving", "planned", "threw"}
  /\ origin \in {"initial", "recovery", "given", Nil}
  /\ objectives \in Seq(Behavior) /\ tiers \in Seq(Nat) /\ Len(tiers) = 3
  /\ required \in Seq(Modality) /\ slots \in Seq(Modality)
  /\ waiting \in Seq(IF phase \in {"placing"} THEN Modality ELSE DOMAIN objectives)
  /\ kept \subseteq DOMAIN slots /\ assigned \in Seq(0..Len(objectives))

(* The knowledge points a walk has to look at: the roots, and from a point  *)
(* that is entered its prerequisites, unless they are mastered: the least   *)
(* set of points that has them all.                                        *)
Points == Concepts \cup {Unlisted}

Covers(S) ==
  /\ search.roots \subseteq S
  /\ \A n \in S \cap Concepts : ~ Mastered(n) => search.graph[n] \subseteq S

Reached == {n \in Points : ~ Mastered(n) /\ \A S \in SUBSET Points : Covers(S) => n \in S}

(* What a point needs, its prerequisites and theirs.                       *)
Supports(S, n) ==
  /\ search.graph[n] \cap Reached \subseteq S
  /\ \A m \in S \cap Concepts : search.graph[m] \cap Reached \subseteq S

Needs(n) == {m \in Reached : \A S \in SUBSET Points : Supports(S, n) => m \in S}

(* A path that is found leaves nothing out and is learnable in its order:   *)
(* every point the learner needs and does not know is in it once, after its *)
(* own prerequisites; the first stage of a recovery needs only what is      *)
(* known.  (unresolvedPrerequisiteClosure, dependencyFirstPrerequisites)    *)
FoundIsLearnable ==
  phase = "found" =>
    LET all == IF search.kind = "initial" THEN Reached \ search.roots ELSE Reached
    IN /\ ToSet(search.ordered) = all /\ Len(search.ordered) = Cardinality(all)
       /\ \A i \in DOMAIN search.ordered :
            search.graph[search.ordered[i]] \cap all \subseteq {search.ordered[j] : j \in 1..(i - 1)}
       /\ search.kind = "recovery" => search.graph[Stage] \cap Reached = {}

(* A walk is refused for a reason only: something that has to be looked at  *)
(* does not exist, or needs itself.                                        *)
RefusedForCause ==
  phase = "refused" /\ search # Nil =>
    Unlisted \in Reached \/ \E n \in Reached \cap Concepts : n \in Needs(n)

(* A walk leaves nothing out and ends in a path, or is refused for a       *)
(* reason: the recovery of a learner never starts over a stage that is not *)
(* learnable.                                                              *)
WalkIsRight == FoundIsLearnable /\ RefusedForCause

(* A planned form measures every objective by a question that can, keeps    *)
(* every required modality and opens with a question of the first two       *)
(* tiers, whatever later steps did to earlier choices.                      *)
PlannedMeasures ==
  phase = "planned" =>
    /\ \A o \in DOMAIN objectives : \E s \in DOMAIN slots :
         assigned[s] = o /\ slots[s] \in Measuring(objectives[o])
    /\ ToSet(required) \subseteq ToSet(slots)
    /\ Anchors # {} /\ \A i \in Anchors : TierSeq[i] # 3

(* The promises of the gate before generation: what role B itself plans it *)
(* accepts, and what it accepts never makes the plan of the form throw or  *)
(* leave an objective unmeasured, although the plan is greedy and the gate *)
(* a matching (assignObjectives, assessmentBlueprintCanMeasureCore         *)
(* Objectives).                                                            *)
GateAndPlanAgree ==
  /\ phase = "rejected" => origin = "given"
  /\ phase # "threw"
  /\ PlannedMeasures
=============================================================================

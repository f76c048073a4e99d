------------------------------ MODULE MCNextRound ------------------------------
(***************************************************************************)
(* Both halves of next-round.ts: rounds are prepared, and a prepared input *)
(* is executed.                                                            *)
(*                                                                         *)
(* Rounds of one learner: a beginner placed anew as intermediate, a second *)
(* learner's profile, packs that cover one node, both or too little.  Two  *)
(* processes execute one input.                                            *)
(***************************************************************************)
EXTENDS NextRound, ExecutionJournal
CONSTANTS n1, n2, o1, o2, f1, f2, p1, p2

Processes == {p1, p2}

Beginner == [version |-> 1, level |-> "beginner", learner |-> 1]
Placed   == [version |-> 2, level |-> "intermediate", learner |-> 1]
Other    == [version |-> 3, level |-> "intermediate", learner |-> 2]
Profiles == {Beginner, Placed, Other}

Start == [id |-> 1, level |-> "beginner", facts |-> {f1}, match |-> "strong"]
Full  == [id |-> 2, level |-> "intermediate", facts |-> {f1, f2}, match |-> "strong"]
Again == [id |-> 3, level |-> "beginner", facts |-> {f1, f2}, match |-> "strong"]
Weak  == [id |-> 4, level |-> "intermediate", facts |-> {f1, f2}, match |-> "weak"]
Packs == {Start, Full, Again, Weak}

Node1 == [node |-> n1, objectives |-> {o1}, needs |-> {f1}, sound |-> TRUE]
Node2 == [node |-> n2, objectives |-> {o1, o2}, needs |-> {f2}, sound |-> TRUE]
Malformed == [node |-> n2, objectives |-> {o2}, needs |-> {f2}, sound |-> FALSE]
Paths == {Node1, Node2, Malformed}

TargetSets == {{}, {o1}, {o2}}

FirstRound == SpecOf(Absent, Beginner, Node1, Start, Defaults("beginner"))

-----------------------------------------------------------------------------
(* The halves share the input only, so that each is explored while the     *)
(* other rests: either further rounds are prepared, or the first one's     *)
(* input is executed.                                                      *)
HalvesInit == RoundInit /\ Init

Preparing == Init /\ RoundNext /\ UNCHANGED vars

Executing(A) == A /\ rounds = {First} /\ UNCHANGED roundVars

HalvesNext == Preparing \/ Executing(Next)

halves == <<roundVars, vars>>

HalvesSpec ==
  /\ HalvesInit /\ [][HalvesNext]_halves
  /\ \A p \in Process : /\ WF_halves(Executing(Step(p))) /\ WF_halves(Executing(Ask(p)))
                        /\ WF_halves(Executing(Restart(p)))
=============================================================================

--------------------------- MODULE MCLearningCycle ---------------------------
(* LearningCycle with two processes, two submissions and small faults.     *)
EXTENDS LearningCycle, TLC

CONSTANTS w1, w2, s1, s2

(* Two first attempts of one session: a double click, or two tabs.         *)
FirstAttempts == {[id |-> s1, attempt |-> 1, content |-> 1],
                  [id |-> s2, attempt |-> 1, content |-> 1]}

OneSubmission == {q \in FirstAttempts : q.id = s1}

WorkerSymmetry == Permutations(Worker)
=============================================================================

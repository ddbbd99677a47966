------------------------------ MODULE MCScorer ------------------------------
(* Scorer on small sets of episodes, for TLC. *)
EXTENDS Scorer, TLC

CONSTANTS oom, crash, leak, none, e1, e2, e3

\* Ground truths of the runs' episodes.
AllOom == [e \in Episodes |-> oom]
OomThenCrash == [e \in Episodes |-> IF e = e1 THEN oom ELSE crash]

\* Scorer processes are interchangeable.
ScorerSymmetry == Permutations(Scorers)
=============================================================================

----------------------------- MODULE MCCtiEval -----------------------------
(* Small instances of CtiEval for TLC. *)
EXTENDS CtiEval, TLC

CONSTANTS a1, r1, r2, w1, w2

OnePair  == {a1}
TwoRuns  == {r1, r2}
SamePair == [r \in Runs |-> a1]

(* Rows of one pair, and the flow's workers, are interchangeable. *)
Symmetry == Permutations({r1, r2}) \cup Permutations({w1, w2})
=============================================================================

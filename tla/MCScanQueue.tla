---------------------------- MODULE MCScanQueue ----------------------------
(* Small instances of ScanQueue for TLC. *)
EXTENDS ScanQueue, TLC

CONSTANTS m1, r1, r2, w1, w2

OneModel      == {m1}
TwoRuns       == {r1, r2}
AllOfOneModel == [r \in Runs |-> m1]

(* Rows of one model, and the workers, are interchangeable. *)
Symmetry == Permutations(Runs) \cup Permutations(Workers)
=============================================================================

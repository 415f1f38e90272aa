------------------------------- MODULE Picks -------------------------------
(* Parts of a sequence, and what its elements leave one after the other,   *)
(* written without recursion over operators.                               *)
EXTENDS Naturals, Sequences, FiniteSetsExt

(* The k-th member of a set of positions, and what s has at positions I.   *)
Place(I, k) == CHOOSE i \in I : Cardinality({j \in I : j <= i}) = k
Pick(s, I) == [k \in 1..Cardinality(I) |-> s[Place(I, k)]]

(* The sum of what a function has, 0 if it has nothing.                    *)
SumOf(f) == MapThenSumSet(LAMBDA i : f[i], DOMAIN f)
=============================================================================

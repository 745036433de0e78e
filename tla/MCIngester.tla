----------------------------- MODULE MCIngester -----------------------------
(* Instances of Ingester for TLC.  The ids 8, 9, 10 of r1, r2, r3 sort    *)
(* as text in another order than as numbers.                               *)
EXTENDS Ingester, TLC

CONSTANTS r1, r2, r3

MCIdOrder   == [r \in Rows |-> CASE r = r1 -> 1 [] r = r2 -> 2 [] r = r3 -> 3]
MCTextOrder == [r \in Rows |-> CASE r = r1 -> 2 [] r = r2 -> 3 [] r = r3 -> 1]
Symmetry    == Permutations(Ingesters)
=============================================================================

------------------------------ MODULE MCEvidence ------------------------------
(* Two leads that send the same image; two workers, in one process or two. *)
EXTENDS Evidence, TLC

CONSTANTS l1, l2, i1, w1, w2, p1, p2
MCImageOf == [l \in Leads |-> i1]
Symmetry  ==
    Permutations({l1, l2}) \cup Permutations({w1, w2}) \cup Permutations({p1, p2})
=============================================================================

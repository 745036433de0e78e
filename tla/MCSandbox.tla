------------------------------ MODULE MCSandbox ------------------------------
EXTENDS Sandbox, TLC

CONSTANTS l1, l2, w1, w2
Symmetry == Permutations({l1, l2}) \cup Permutations({w1, w2})
=============================================================================

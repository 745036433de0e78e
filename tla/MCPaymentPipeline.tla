-------------------------- MODULE MCPaymentPipeline --------------------------
(* Instances of PaymentPipeline for TLC.  r1 and r2 are two submissions of *)
(* one payment, r3 is another loan account under the same lead code, r4    *)
(* the next installment of r1, r5 a row without identity, and r6 the       *)
(* payment of r1 in the sandbox.                                           *)
EXTENDS PaymentPipeline, TLC

CONSTANTS r1, r2, r3, r4, r5, r6

Pay(loan, inst, scope) == [code |-> "c1", loan |-> loan, inst |-> inst, scope |-> scope]

RowOf ==
    r1 :> Pay("A", 1, "real") @@ r2 :> Pay("A", 1, "real") @@ r3 :> Pay("B", 1, "real")
    @@ r4 :> Pay("A", 2, "real") @@ r5 :> NoIdentity @@ r6 :> Pay("A", 1, "test")

MCRow         == [j \in Jobs |-> RowOf[j]]
MCIdentities  == {RowOf[j] : j \in Jobs} \ {NoIdentity}
MCPriority    == [j \in Jobs |-> 5]
MCPrecomputed == Jobs \cap {r2, r5, r6}
Symmetry      == Permutations(Workers)
=============================================================================

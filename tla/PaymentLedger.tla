---------------------------- MODULE PaymentLedger ----------------------------
(***************************************************************************)
(* What the duplicate guard promises, with no queue, worker or stage in    *)
(* sight: a payment is taken by at most one lead, for good; only that lead *)
(* is ever counted as the payment; a lead is called a duplicate only while *)
(* another lead has the payment.                                           *)
(***************************************************************************)
CONSTANTS Leads, Payments, NoPayment, Nobody,
          PaymentOf           \* the payment a lead's row identifies

VARIABLES owner, standing

Standing == {"open", "counted", "duplicate"}

Init ==
    /\ owner = [p \in Payments |-> Nobody]
    /\ standing = [l \in Leads |-> "open"]

Take(l) ==
    /\ PaymentOf[l] # NoPayment
    /\ owner[PaymentOf[l]] = Nobody
    /\ owner' = [owner EXCEPT ![PaymentOf[l]] = l]
    /\ UNCHANGED standing

(* A lead without an identity cannot be told from another, and counts. *)
Count(l) ==
    /\ PaymentOf[l] = NoPayment \/ owner[PaymentOf[l]] = l
    /\ standing' = [standing EXCEPT ![l] = "counted"]
    /\ UNCHANGED owner

Refuse(l) ==
    /\ PaymentOf[l] # NoPayment
    /\ owner[PaymentOf[l]] \notin {l, Nobody}
    /\ standing' = [standing EXCEPT ![l] = "duplicate"]
    /\ UNCHANGED owner

Next == \E l \in Leads : Take(l) \/ Count(l) \/ Refuse(l)

Spec == Init /\ [][Next]_<<owner, standing>>
=============================================================================

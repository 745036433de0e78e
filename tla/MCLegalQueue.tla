---------------------------- MODULE MCLegalQueue ----------------------------
(* Instances of LegalQueue for TLC.  Documents and workers are exchangeable; *)
(* leads are too, their order being a state variable.                      *)
EXTENDS LegalQueue, TLC

Symmetry == Permutations(Docs) \cup Permutations(Workers) \cup Permutations(Leads)

\* Two workers on one lead are followed further only if its dossier has one
\* document, or is still to get one.
SmallCrowd ==
    \A v, w \in Workers : v # w /\ lead[v] = lead[w] /\ lead[v] # NoLead =>
        Cardinality({d \in Docs : \/ docStatus[lead[v]][d] # "none"
                                  \/ \E u \in Uploads : d \in scanDocs[u]}) <= 1
=============================================================================

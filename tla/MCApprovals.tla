----------------------------- MODULE MCApprovals -----------------------------
EXTENDS Approvals, TLC

CONSTANTS payee, shop, l1, l2, a1, a2, w1, w2, t1

Doc(p) == [payee |-> p, handle |-> {}, words |-> {}, wrong |-> {}, incoming |-> FALSE,
           flagged |-> FALSE]

\* Two payees nobody knows, the second printed much like the first; a lead the
\* ledger flagged; an incoming credit; a document without a payee.
MCDocs == {Doc(payee), Doc(shop), [Doc(payee) EXCEPT !.flagged = TRUE],
           [Doc(payee) EXCEPT !.incoming = TRUE],
           [Doc(None) EXCEPT !.words = {shop}, !.wrong = {"amount"}]}
MCAlike == {<<shop, payee>>}
Symmetry == Permutations({a1, a2})
=============================================================================

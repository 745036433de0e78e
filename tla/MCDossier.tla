------------------------------ MODULE MCDossier ------------------------------
EXTENDS Dossier, TLC

\* Ann and Anna are one person, Anna and Hanna another likeness; Bob is Bob, also
\* as BOB; Devi is written in Devanagari, which leaves nothing of her name.
LikeNames == {<<"ann", "anna">>, <<"anna", "hanna">>, <<"bob", "BOB">>}
Lengths == [ann |-> 6, anna |-> 7, hanna |-> 12, bob |-> 8, eve |-> 9, home |-> 10, hill |-> 11, five |-> 4, six |-> 3, BOB |-> 5, devi |-> 2]
LatinNames == {"ann", "anna", "hanna", "bob", "BOB", "eve"}
Norms == [v \in DOMAIN Lengths |-> IF v = "BOB" THEN "bob" ELSE IF v = "devi" THEN "" ELSE v]

\* A prompt that asks for all there is, one for the borrower's name only and one
\* for borrowers and their addresses.
Prompts == {{"borrower", "co_borrower", "guarantor"} \X {"name", "address"}, {<<"borrower", "name">>},
            {"borrower", "co_borrower"} \X {"name", "address"}}

B == <<"borrower", 0, "name">>
BA == <<"borrower", 0, "address">>
C == <<"co_borrower", 1, "name">>
CA == <<"co_borrower", 1, "address">>
G == <<"guarantor", 1, "name">>
Page(doc, page, fields) == [doc |-> doc, page |-> page, fields |-> fields]

Pages == {
    Page("loan", 1, (B :> "ann") @@ (C :> "bob") @@ (Amount :> "five")),
    Page("loan", 2, (B :> "bob") @@ (BA :> "home")),
    Page("deed", 1, (B :> "eve") @@ (C :> "anna")),
    Page("deed", 2, (C :> "eve") @@ (CA :> "hill")),
    Page("deed", 3, (C :> "bob") @@ (Amount :> "six")),
    Page("deed", 1, (G :> "bob") @@ (Amount :> "five")),
    Page("loan", 2, (BA :> "hill") @@ (Amount :> "six")),
    Page("deed", 2, (B :> "hanna") @@ (C :> "bob")),
    Page("deed", 3, (B :> "devi") @@ (C :> "BOB")),
    Page("deed", 1, (C :> "devi")),
    Page("loan", 2, (G :> "BOB") @@ (BA :> "home")),
    Page("loan", 1, (B :> "devi") @@ (G :> "anna")),
    Page("loan", 1, (B :> "ann") @@ (C :> "anna"))}

Layers == {
    [loan |-> <<>>, deed |-> <<>>],
    [loan |-> [ann |-> {1}, bob |-> {2}], deed |-> [eve |-> {1, 2}, anna |-> {2}, bob |-> {1}]],
    [loan |-> [ann |-> {1}, bob |-> {1}, five |-> {1}, six |-> {1}], deed |-> [eve |-> {2}, anna |-> {2}, bob |-> {2}, five |-> {1}, six |-> {1}]]}
=============================================================================

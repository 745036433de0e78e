------------------------------ MODULE MCReading ------------------------------
EXTENDS Reading, TLC

\* "ann son of" is cleaned to "ann"; "bank" is the lender.
Clean == [ann |-> "ann", annclause |-> "ann", bob |-> "bob", eve |-> "eve", bankclause |-> "bank", home |-> "home"]
Counts == [deed |-> 3, notice |-> 2]
Order == <<"deed", "notice">>
Wanted == {<<"borrower", "name">>, <<"co_borrower", "name">>, <<"co_borrower", "address">>}

B == <<"borrower", 0, "name">>
C(i) == <<"co_borrower", i, "name">>
CA(i) == <<"co_borrower", i, "address">>
G == <<"guarantor", 1, "name">>
P(name) == [name |-> name, address |-> Nothing]
Flat(flat, evidence, cited) ==
    [head |-> <<>>, co |-> <<>>, single |-> FALSE, flat |-> flat, evidence |-> evidence, cited |-> cited]
Objects(head, co, single) ==
    [head |-> head, co |-> co, single |-> single, flat |-> <<>>, evidence |-> <<>>, cited |-> <<2>>]

Answers == {
    Flat((B :> "ann") @@ (C(1) :> "bob"), (B :> 2) @@ (C(1) :> 1), <<>>),
    Flat((B :> "ann") @@ (C(1) :> "ann") @@ (CA(1) :> "home") @@ (C(2) :> "bob"), (C(1) :> 1) @@ (C(2) :> 2), <<1>>),
    Flat((B :> "ann") @@ (C(1) :> "annclause"), <<>>, <<3, 2>>),
    Flat((C(2) :> "bob") @@ (CA(3) :> "home"), (C(2) :> 3) @@ (CA(3) :> 1), <<>>),
    Flat((G :> "eve"), <<>>, <<>>),
    Flat((B :> "bob") @@ (CA(1) :> "home") @@ (C(2) :> "ann") @@ (C(3) :> "bob") @@ (C(4) :> "eve"),
         (CA(1) :> 3) @@ (C(2) :> 2) @@ (C(4) :> 1), <<1>>),
    Flat((C(1) :> "bankclause"), (C(1) :> 1), <<>>),
    Objects(<<P("ann"), P("bob")>>, <<P("eve")>>, FALSE),
    Objects(<<P("ann"), [name |-> Nothing, address |-> "home"], P("eve")>>, <<P("bob"), P("bankclause")>>, FALSE),
    Objects(<<P("ann"), P("bob")>>, <<P("eve")>>, TRUE),
    [Objects(<<P("ann")>>, <<P("bob")>>, FALSE) EXCEPT !.flat = C(1) :> "eve"]}

Instructions == {
    {},
    {[doc |-> "deed", pages |-> {1}], [doc |-> "notice", pages |-> {}]},
    {[doc |-> Nothing, pages |-> {3}]}}
=============================================================================

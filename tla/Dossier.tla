------------------------------- MODULE Dossier -------------------------------
(***************************************************************************)
(* From many page reads to one set of dossier values (legal workspace):    *)
(* consolidate (consolidate.py), then reattribute (page_attribution.py),   *)
(* then consolidate again, as _process_lead of pipeline.py and rebuild of  *)
(* backfill.py call them.                                                  *)
(*                                                                         *)
(* A field is a triple: role, number and part; a value is a model value    *)
(* with a length and a normal form, and two names may or may not be of the *)
(* same person (name_clean.same_person), a relation that need not be       *)
(* transitive, nor reflexive.  The order of the fields on a page is that   *)
(* of their keys.                                                          *)
(***************************************************************************)
EXTENDS Naturals, Sequences, FiniteSets, FiniteSetsExt, Functions

CONSTANTS Templates,   \* the page reads records are picked from
          MaxRecords,  \* bound
          SamePairs, Latin,    \* of names; names with a Latin letter
          Length, Norm,        \* of values; what _norm leaves of them
          Schemas,     \* what a prompt may ask for: roles and their parts
          PartyDocs,   \* documents whose job is to name the parties
          Bound,       \* documents the prompt names: their reads count triple
          TextLayers   \* what the text of a document may say: normal form -> pages

Keys   == ({"borrower"} \X {0}) \cup ({"co_borrower", "guarantor"} \X (Nat \ {0}))
Parts  == {"name", "address"}
Amount == <<"amount", 0, "value">>
SchemaFields == ({"borrower"} \X {0} \X Parts) \cup ({"co_borrower", "guarantor"} \X (Nat \ {0}) \X Parts)
              \cup {Amount}
AllDocs == {t.doc : t \in Templates}

IsRecord(rec) ==
    /\ rec = [doc |-> rec.doc, page |-> rec.page, fields |-> rec.fields]
    /\ rec.doc \in AllDocs /\ rec.page \in Nat
    /\ IsFiniteSet(DOMAIN rec.fields) /\ DOMAIN rec.fields \subseteq SchemaFields
    /\ rec.fields \in [DOMAIN rec.fields -> DOMAIN Length]

ASSUME DossierAssumption ==
    /\ MaxRecords \in Nat /\ Length \in [DOMAIN Length -> Nat] /\ DOMAIN Norm = DOMAIN Length
    /\ SamePairs \subseteq Latin \X Latin
    /\ \A t \in Templates : IsRecord(t)
    /\ \A layer \in TextLayers : DOMAIN layer = AllDocs /\ \A doc \in AllDocs :
           \A v \in DOMAIN layer[doc] : layer[doc][v] \subseteq Nat /\ IsFiniteSet(layer[doc][v])

VARIABLES
    asked,     \* what the prompt asks for
    read,      \* the records as the batches brought them
    texts,     \* the text layer, by document
    records,   \* as they are now
    values,    \* the dossier's values
    mentioned, \* names of people set aside
    stage

given == <<asked, read, texts>>
dossierVars == <<given, records, values, mentioned, stage>>

\* RunSchema.allows.  An amount is always asked for here.
Allows(field) == field = Amount \/ <<field[1], field[3]>> \in asked

\* _ingest_batch leaves out what the prompt did not ask for.
Asked(rec) == [rec EXCEPT !.fields = Restrict(rec.fields, {f \in DOMAIN rec.fields : Allows(f)})]

DossierInit ==
    /\ asked \in Schemas
    /\ read \in UNION {[1 .. n -> {Asked(t) : t \in Templates}] : n \in 1 .. MaxRecords}
    /\ \A i \in DOMAIN read : read[i].fields # <<>>
    /\ texts \in TextLayers
    /\ records = read /\ values = <<>> /\ mentioned = {} /\ stage = "read"

-----------------------------------------------------------------------------
(* consolidate.py                                                          *)

\* A name without a Latin letter is nobody's, not even its own.
Same(a, b) == (a = b /\ a \in Latin) \/ <<a, b>> \in SamePairs \/ <<b, a>> \in SamePairs

KeyOf(field)   == <<field[1], field[2]>>
FieldAt(key, part) == <<key[1], key[2], part>>
NameOf(key)    == FieldAt(key, "name")
IsName(field)  == field[3] = "name"
Has(rec, field) == field \in DOMAIN rec.fields
Named(rec)  == {KeyOf(f) : f \in {g \in DOMAIN rec.fields : IsName(g)}}
Weight(rec) == IF rec.doc \in Bound THEN 3 ELSE 1

\* Keys are sorted as text: co_borrower_10 before co_borrower_2.  Exact for
\* numbers of up to three digits.
RoleOrder == [borrower |-> 0, co_borrower |-> 1, guarantor |-> 2, amount |-> 3]
Padded(n) == IF n < 10 THEN 100 * n ELSE IF n < 100 THEN 10 * n ELSE n
Before(j, k) ==
    \/ RoleOrder[j[1]] < RoleOrder[k[1]]
    \/ j[1] = k[1] /\ Padded(j[2]) < Padded(k[2])
    \/ j[1] = k[1] /\ Padded(j[2]) = Padded(k[2]) /\ j[2] < k[2]

\* 1. every party read on every page: its record and its key there.
Reads(rs) == UNION {{i} \X Named(rs[i]) : i \in DOMAIN rs}
NameAt(rs, x) == rs[x[1]].fields[NameOf(x[2])]
Solo(rs, x)   == Cardinality(Named(rs[x[1]])) = 1

Sooner(x, y) == x[1] < y[1] \/ (x[1] = y[1] /\ Before(x[2], y[2]))
Earliest(xs) == CHOOSE x \in xs : \A y \in xs \ {x} : Sooner(x, y)

\* 2. people, each by the first read: a read joins the first person who has a
\* name like it.
Like(rs, x) == {y \in Reads(rs) : Sooner(y, x) /\ Same(NameAt(rs, x), NameAt(rs, y))}
Joins(rs, people, x) ==
    LET like == Like(rs, x) IN IF like = {} THEN x ELSE Earliest({people[y] : y \in like})
PersonOf(rs) == LET person[x \in Reads(rs)] == Joins(rs, person, x) IN person

\* 3. who is who.  A page with one party on it only claims a borrower if no
\* other page does.
RoleOf(rs, x) ==
    IF x[2][1] = "borrower" /\ Solo(rs, x)
          /\ \E y \in Reads(rs) : y[2][1] = "borrower" /\ ~Solo(rs, y)
    THEN "co_borrower" ELSE x[2][1]

Vote(rs, x, field) ==
    [by |-> x, value |-> rs[x[1]].fields[field], weight |-> Weight(rs[x[1]])]
Total(votes) == Cardinality({v \in votes \X (1 .. 3) : v[2] <= v[1].weight})

\* Whoever is read as the borrower most, then most in all, then first; nobody,
\* if nobody is read as the borrower.
Borrower(rs, person) ==
    LET people    == Range(person)
        said(xs)  == Total({Vote(rs, x, NameOf(x[2])) : x \in xs})
        claims == [p \in people |-> said({x \in DOMAIN person : person[x] = p /\ RoleOf(rs, x) = "borrower"})]
        reads  == [p \in people |-> said({x \in DOMAIN person : person[x] = p})]
        better(p, q) == \/ claims[p] > claims[q]
                        \/ claims[p] = claims[q] /\ reads[p] > reads[q]
                        \/ claims[p] = claims[q] /\ reads[p] = reads[q] /\ Sooner(p, q)
    IN  {p \in people : claims[p] > 0 /\ \A q \in people \ {p} : better(p, q)}

\* Read with the borrower, in a document for that, or on two pages.
Parties(rs, person, borrower) ==
    LET recs(p) == {x[1] : x \in {y \in DOMAIN person : person[y] = p}}
    IN  {p \in Range(person) : \/ borrower \in {{}, {p}}
                               \/ \E i \in recs(p) : rs[i].doc \in PartyDocs
                               \/ \E b \in borrower : recs(p) \cap recs(b) # {}
                               \/ Cardinality({rs[i].page : i \in recs(p)} \ {0}) >= 2}

\* One borrower; the others are numbered by their first read.
NumberIn(p, group) == Cardinality({q \in group : q = p \/ Sooner(q, p)})
KeysOf(rs, person, borrower, parties) ==
    LET guarantors == {p \in parties \ borrower :
                          \A x \in DOMAIN person : person[x] = p => RoleOf(rs, x) = "guarantor"}
        others     == parties \ (borrower \cup guarantors)
    IN  [p \in parties |->
            IF p \in borrower THEN <<"borrower", 0>>
            ELSE IF p \in guarantors THEN <<"guarantor", NumberIn(p, guarantors)>>
            ELSE <<"co_borrower", NumberIn(p, others)>>]

\* All that is decided from the records, as one record.
Decided(rs) ==
    LET person   == PersonOf(rs)
        borrower == Borrower(rs, person)
    IN  [person |-> person, borrower |-> borrower,
         keyOf |-> KeysOf(rs, person, borrower, Parties(rs, person, borrower))]

TargetsAside(d, i, field) ==   \* mutant: the pages keep the names set aside
    LET x == <<i, KeyOf(field)>>
    IN  IF x \in DOMAIN d.person /\ d.person[x] \in DOMAIN d.keyOf
        THEN {FieldAt(d.keyOf[d.person[x]], field[3])} ELSE {field}
TargetsKept(d, i, field) == {field}   \* mutant: the numbers of the batch stay
\* Where a field of record i goes: nowhere, if the person is set aside or it is
\* the address of nobody.
Targets(d, i, field) ==
    LET x == <<i, KeyOf(field)>>
    IN  IF field = Amount THEN {field}
        ELSE IF x \in DOMAIN d.person
             THEN {FieldAt(d.keyOf[p], field[3]) : p \in {d.person[x]} \cap DOMAIN d.keyOf}
        ELSE IF field[1] = "borrower" /\ d.borrower # {} THEN {field} ELSE {}

\* Of fields, the one with the longest value, among equals the first.
Longest(rec, fs) ==
    CHOOSE f \in fs : \A g \in fs \ {f} :
        LET a == Length[rec.fields[f]]
            b == Length[rec.fields[g]]
        IN  a > b \/ (a = b /\ Before(KeyOf(f), KeyOf(g)))

\* 4. the records with the keys of their people.
Sources(rec, d, i, t) == {f \in DOMAIN rec.fields : t \in Targets(d, i, f)}
Rewritten(rs, d) ==
    [i \in DOMAIN rs |->
        [doc |-> rs[i].doc, page |-> rs[i].page,
         fields |-> [t \in UNION {Targets(d, i, f) : f \in DOMAIN rs[i].fields} |->
                        rs[i].fields[Longest(rs[i], Sources(rs[i], d, i, t))]]]]

\* Of votes, the value with the greatest weight, then the longest.
Winner(votes) ==
    LET for(v) == Total({x \in votes : x.value = v})
        vs     == {x.value : x \in votes}
    IN  CHOOSE v \in vs : \A u \in vs : for(v) > for(u)
                                       \/ (for(v) = for(u) /\ Length[v] >= Length[u])

\* 5., 6. the votes on a field of the dossier: for names and addresses the reads
\* of the person (for the borrower, also addresses on pages without the name),
\* for the rest what the records say.
Ballot(rs, d, f) ==
    LET own   == {x \in DOMAIN d.person : /\ d.person[x] \in DOMAIN d.keyOf
                                          /\ d.keyOf[d.person[x]] = KeyOf(f)
                                          /\ Has(rs[x[1]], FieldAt(x[2], f[3]))}
        lone  == {i \in DOMAIN rs : /\ f = <<"borrower", 0, "address">> /\ d.borrower # {}
                                    /\ Has(rs[i], f) /\ KeyOf(f) \notin Named(rs[i])}
    IN  IF f = Amount THEN {Vote(rs, <<i, f>>, f) : i \in {j \in DOMAIN rs : Has(rs[j], f)}}
        ELSE {Vote(rs, x, FieldAt(x[2], f[3])) : x \in own}
                 \cup {[by |-> <<i>>, value |-> rs[i].fields[f], weight |-> 1] : i \in lone}

\* A party gets the values the prompt asks for.
Valued(rs, d) ==
    LET open == {Amount} \cup {f \in {FieldAt(key, part) : key \in Range(d.keyOf), part \in Parts} : Allows(f)}
    IN  [f \in {g \in open : Ballot(rs, d, g) # {}} |-> Winner(Ballot(rs, d, f))]

\* People who are no party, by their best name.
NamesOf(rs, d, p) ==
    {Vote(rs, x, NameOf(x[2])) : x \in {y \in DOMAIN d.person : d.person[y] = p}}
Aside(rs, d) == {Winner(NamesOf(rs, d, p)) : p \in Range(d.person) \ DOMAIN d.keyOf}

Consolidate(from, to) ==
    /\ stage = from /\ stage' = to
    /\ \E d \in {Decided(records)} :
           /\ records' = Rewritten(records, d)
           /\ values' = Valued(records, d)
           /\ mentioned' = mentioned \cup Aside(records, d)
    /\ UNCHANGED given

-----------------------------------------------------------------------------
(* page_attribution.py                                                     *)

\* Pages whose text holds the normal form; none without a text layer.
Hits(doc, n) == IF n \in DOMAIN texts[doc] THEN texts[doc][n] ELSE {}

Docs(rs)    == {rs[i].doc : i \in DOMAIN rs}
Of(rs, doc) == {i \in DOMAIN rs : rs[i].doc = doc}

\* A value of a field by its normal form, wherever the document has it: of
\* values that are the same but for case, signs and foreign letters the first
\* one stays.
Pairs(rs, doc) == UNION {{<<f, Norm[rs[i].fields[f]]>> : f \in DOMAIN rs[i].fields} : i \in Of(rs, doc)}
Origin(rs, doc, pair) ==
    Min({i \in Of(rs, doc) : Has(rs[i], pair[1]) /\ Norm[rs[i].fields[pair[1]]] = pair[2]})
ValueOf(rs, doc, pair) == rs[Origin(rs, doc, pair)].fields[pair[1]]

\* The page with most values; the claimed one among equals, then the first.
ChosenAway(pages, votes, claim) ==   \* mutant: away from the claim among equals
    CHOOSE p \in pages : \A q \in pages \ {p} :
        \/ votes[p] > votes[q]
        \/ votes[p] = votes[q] /\ (q = claim \/ (p # claim /\ p < q))
Chosen(pages, votes, claim) ==
    CHOOSE p \in pages : \A q \in pages \ {p} :
        \/ votes[p] > votes[q]
        \/ votes[p] = votes[q] /\ (p = claim \/ (q # claim /\ p < q))

PageOf(rs, doc, pair) ==
    LET claim == rs[Origin(rs, doc, pair)].page
        hits  == Hits(doc, pair[2])
        votes == [p \in hits |-> Cardinality({x \in Pairs(rs, doc) : p \in Hits(doc, x[2])})]
    IN  IF hits = {} THEN claim ELSE Chosen(hits, votes, claim)

\* Of several values of a field on a page the last one stays.
FieldsOn(rs, doc, page) ==
    LET on == {x \in Pairs(rs, doc) : PageOf(rs, doc, x) = page}
        last(f) == CHOOSE x \in on : /\ x[1] = f
                                     /\ \A y \in on : y[1] = f => Origin(rs, doc, y) <= Origin(rs, doc, x)
    IN  [f \in {x[1] : x \in on} |-> ValueOf(rs, doc, last(f))]

\* The members of S one after the other, as the pairs in R say.
Listed(S, R) ==
    [n \in 1 .. Cardinality(S) |-> CHOOSE a \in S : Cardinality({b \in S : <<b, a>> \in R}) = n - 1]

\* One record per page; documents in the order of their first record.
Places(rs) == UNION {{<<doc, PageOf(rs, doc, x)>> : x \in Pairs(rs, doc)} : doc \in Docs(rs)}
PlaceOrder(rs) ==
    {c \in Places(rs) \X Places(rs) :
        \/ Min(Of(rs, c[1][1])) < Min(Of(rs, c[2][1]))
        \/ c[1][1] = c[2][1] /\ c[1][2] < c[2][2]}
ReattributedOf(rs) ==
    LET places == Listed(Places(rs), PlaceOrder(rs))
    IN  [n \in DOMAIN places |->
            [doc |-> places[n][1], page |-> places[n][2],
             fields |-> FieldsOn(rs, places[n][1], places[n][2])]]

Reattribute ==
    /\ stage = "named" /\ stage' = "filed"
    /\ records' = ReattributedOf(records)
    /\ UNCHANGED <<given, values, mentioned>>

DossierNext == Consolidate("read", "named") \/ Reattribute \/ Consolidate("filed", "done")

DossierSpec == DossierInit /\ [][DossierNext]_dossierVars

-----------------------------------------------------------------------------
(* Properties                                                              *)

\* Records hold fields of the closed set under their keys (one borrower, the
\* others numbered from one), and so do the values of the dossier.
DossierTypeOK ==
    /\ stage \in {"read", "named", "filed", "done"}
    /\ asked \in Schemas /\ texts \in TextLayers
    /\ \A rs \in {read, records} : rs \in Seq(Range(rs)) /\ \A i \in DOMAIN rs : IsRecord(rs[i])
    /\ DOMAIN values \subseteq SchemaFields /\ Range(values) \subseteq DOMAIN Length
    /\ mentioned \subseteq DOMAIN Length

NamesIn(rs) == {NameAt(rs, x) : x \in Reads(rs)}
PartyNames  == {values[f] : f \in {g \in DOMAIN values : IsName(g)}}
\* Names the pages have under keys the prompt does not ask for.
UnaskedNames == {NameAt(records, x) : x \in {y \in Reads(records) : ~Allows(NameOf(y[2]))}}

\* The names that belong with a name, through any number of likenesses.
Kin(name) ==
    LET names == NamesIn(read)
        whole == {ns \in SUBSET names : \A a \in ns, b \in names : Same(a, b) => b \in ns}
    IN  {b \in names : \A ns \in whole : name \in ns => b \in ns}

\* Nobody is dropped: after every pass, each name that was read belongs with
\* the name of a party, with one set aside or with one that the pages have under
\* a key the prompt does not ask for, however many batches used its key for
\* somebody else and however the pages were filed (consolidate.py:6-17).
NobodyDropped ==
    stage # "read" => \A name \in NamesIn(read) :
        Kin(name) \cap (PartyNames \cup mentioned \cup UnaskedNames) # {}

\* The panels of the pages, the dossier and the dashboard agree about who is
\* who: a name filed under a key the prompt asks for is a name of the party with
\* that key (consolidate.py:16-17), also after the pages were proven.
PanelsAgree ==
    stage # "read" =>
        \A x \in Reads(records) : Allows(NameOf(x[2])) =>
            NameOf(x[2]) \in DOMAIN values /\ values[NameOf(x[2])] \in Kin(NameAt(records, x))

\* Who is who, after every pass: everyone who was read is there, and every panel
\* shows a person under that person's number.
WhoIsWho == DossierTypeOK /\ NobodyDropped /\ PanelsAgree

AllPairs(rs) == UNION {{<<doc, x>> : x \in Pairs(rs, doc)} : doc \in Docs(rs)}

\* Every value is filed where the text has it; where the text has it nowhere, it
\* stays on a page a batch of its document cited (page_attribution.py:9-19).
PagesProven ==
    stage = "filed" =>
        \A i \in DOMAIN records : \A f \in DOMAIN records[i].fields :
            LET doc  == records[i].doc
                hits == Hits(doc, Norm[records[i].fields[f]])
            IN  records[i].page \in (IF hits # {} THEN hits
                                     ELSE {read[j].page : j \in Of(read, doc)})

\* Filing a second time moves nothing, if the first time kept every value: the
\* claim that breaks the tie is then the page chosen before.
SettledPages ==
    stage = "named" =>
        LET once == ReattributedOf(records)
        IN  AllPairs(once) = AllPairs(records) => ReattributedOf(once) = once

\* The pages of the values are proven, and proving them again changes nothing.
PagesSettled == PagesProven /\ SettledPages

\* Likeness of the names of this dossier is transitive.
ClearLikeness == \A a, b \in NamesIn(read) : b \in Kin(a) \ {a} => Same(a, b)

\* Everyone gets one number: two parties never have names that same_person takes
\* for one, wherever it is clear who is like whom.
OneNumberEach ==
    stage # "read" /\ ClearLikeness =>
        \A f, g \in {h \in DOMAIN values : IsName(h)} : Same(values[f], values[g]) => f = g

\* No role has ten people: the tenth is sorted before the second.
FewPeople == \A x \in Reads(records) : x[2][2] < 10

\* Numbers are stable: consolidating the outcome once more (a migration does,
\* backfill.py:77-100) renumbers nobody, sets nobody aside and loses no field,
\* wherever it is clear who is like whom.
StableNumbers ==
    stage \in {"named", "done"} /\ ClearLikeness /\ FewPeople =>
        \A d \in {Decided(records)} :
            Rewritten(records, d) = records /\ DOMAIN Valued(records, d) = DOMAIN values

\* The numbers of the people are good for reading back: one each, and for good.
NumbersHold == OneNumberEach /\ StableNumbers
=============================================================================

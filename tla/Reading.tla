------------------------------- MODULE Reading -------------------------------
(***************************************************************************)
(* The documents of a dossier are read (stage 1 of process_lead in         *)
(* workspaces/legal/pipeline.py): which pages, in which batches, what each *)
(* reply of the model is turned into (_normalize_extracted_fields,         *)
(* _ingest_batch) and what is said of the document in the end.             *)
(*                                                                         *)
(* A field is a triple: role, number and part.  A reply may tell its       *)
(* people as objects (a list, or one) and as numbered keys, all at once.   *)
(* Pages are counted from one.  History variables: "calls" are the replies *)
(* filed, "cut" the documents with pages that could not be rendered,       *)
(* "broken" those left by an exception.                                    *)
(***************************************************************************)
EXTENDS Naturals, Sequences, FiniteSets, FiniteSetsExt, Functions

CONSTANTS Documents,   \* in the order they are read
          PageCount, BatchSize,
          Plans,       \* instructions the planner may find in the prompt
          Asked,       \* <<role, part>> of the run's schema
          Cleaned,     \* what is left of a printed value when it is cleaned
          Lenders,     \* cleaned values that are the lender's own
          Replies,
          MaxMishaps, Nothing

Docs  == Range(Documents)
Parts == {"name", "address"}
Numbers == Nat
Roles  == {"borrower", "co_borrower", "guarantor"}
Fields == Roles \X Numbers \X Parts

Values == DOMAIN Cleaned
Person == [name : Values \cup {Nothing}, address : Values \cup {Nothing}]

ASSUME ReadingAssumption ==
    /\ BatchSize \in Nat \ {0} /\ MaxMishaps \in Nat
    /\ Documents \in Seq(Docs)
    /\ \A i, j \in DOMAIN Documents : Documents[i] = Documents[j] => i = j
    /\ PageCount \in [Docs -> Nat \ {0}]
    /\ \A p \in Plans : \A i \in p : i.pages \subseteq Nat
    /\ Nothing \notin Values /\ Nothing \notin Replies
    /\ \A r \in Replies :
           /\ r.head \in Seq(Person) /\ r.co \in Seq(Person)
           /\ r.single => Len(r.co) = 1
           /\ IsFiniteSet(DOMAIN r.flat) /\ DOMAIN r.flat \subseteq Fields
           /\ r.flat \in [DOMAIN r.flat -> Values]
           /\ r.cited \in Seq(Nat)

-----------------------------------------------------------------------------
(* _normalize_extracted_fields.                                            *)

\* f, and g where f says nothing (@@ of module TLC, whose definition the
\* provers do not see).
Over(f, g) == [k \in DOMAIN f \cup DOMAIN g |-> IF k \in DOMAIN f THEN f[k] ELSE g[k]]

Held(values, keys) == [k \in keys |-> values[k]]
Leading(people) == IF people = <<>> THEN <<>> ELSE <<people[1]>>
Others(people)  == SubSeq(people, 2, Len(people))

\* People told as objects take numbers by their place.
Told(role, people, first) ==
    LET parts == {x \in (1 .. Len(people)) \X Parts : people[x[1]][x[2]] # Nothing}
    IN  [k \in {<<role, first + x[1] - 1, x[2]>> : x \in parts} |-> people[k[2] - first + 1][k[3]]]

\* The first of the borrowers is the borrower, the others are co-borrowers.
Borrowers(r) ==
    Over(Told("co_borrower", Others(r.head), 1), Told("borrower", Leading(r.head), 0))

FirstAlways(values) == 1   \* mutant: the list of co-borrowers starts from one
FirstFree(values) ==
    Min({i \in 1 .. Cardinality(DOMAIN values) + 1 : <<"co_borrower", i, "name">> \notin DOMAIN values})

\* A single co-borrower is the first; numbered keys have the last word.
Gathered(r) ==
    LET told == Borrowers(r)
        first == IF r.single THEN 1 ELSE FirstFree(told)
    IN  Over(r.flat, Over(Told("co_borrower", r.co, first), told))

IsCo(k) == k[1] = "co_borrower"
Twins(values) ==
    {k[2] : k \in {j \in DOMAIN values : /\ IsCo(j) /\ j[3] = "name"
                                         /\ <<"borrower", 0, "name">> \in DOMAIN values
                                         /\ values[j] = values[<<"borrower", 0, "name">>]}}
WithoutTwins(values) ==
    Held(values, {k \in DOMAIN values : ~(IsCo(k) /\ k[2] \in Twins(values))})

\* The co-borrowers are numbered again, without holes.
PlaceNamed(values, k) ==   \* mutant: who has an address only does not count
    IF IsCo(k)
    THEN <<k[1], Cardinality({j[2] : j \in {i \in DOMAIN values :
                                  IsCo(i) /\ i[3] = "name" /\ i[2] <= k[2]}}), k[3]>>
    ELSE k
Place(values, k) ==
    IF IsCo(k)
    THEN <<k[1], Cardinality({j[2] : j \in {i \in DOMAIN values : IsCo(i) /\ i[2] <= k[2]}}), k[3]>>
    ELSE k
Renumbered(values) ==
    [k \in {Place(values, j) : j \in DOMAIN values} |->
        values[CHOOSE j \in DOMAIN values : Place(values, j) = k]]

Normalised(r) == Renumbered(WithoutTwins(Gathered(r)))

-----------------------------------------------------------------------------
(* _ingest_batch.                                                          *)

\* Fields the prompt did not ask for, and the lender's own details, are set
\* aside.
IsKept(k, value) == <<k[1], k[3]>> \in Asked /\ Cleaned[value] \notin Lenders
Kept(r)  == LET all == Normalised(r) IN Held(all, {k \in DOMAIN all : IsKept(k, all[k])})
Aside(r) == LET all == Normalised(r) IN Held(all, {k \in DOMAIN all : ~IsKept(k, all[k])})

Fallback(r, pages) ==
    LET cited == {i \in DOMAIN r.cited : r.cited[i] \in pages}
    IN  IF cited # {} THEN r.cited[Min(cited)] ELSE Min(pages)

\* The page a field is filed under: the one the model gave for it, if it was
\* in the batch.
PageOf(r, k, pages) ==
    IF k \in DOMAIN r.evidence /\ r.evidence[k] \in pages THEN r.evidence[k]
    ELSE Fallback(r, pages)

Ingested(r, doc, pages) ==
    {[doc |-> doc, page |-> PageOf(r, k, pages), field |-> k, printed |-> Kept(r)[k],
      value |-> Cleaned[Kept(r)[k]]] : k \in DOMAIN Kept(r)}

-----------------------------------------------------------------------------
VARIABLES
    plan,
    doc,       \* place in Documents
    stage,     \* "next", "read"
    left,      \* pages of the document that are still to be read
    sent,      \* pages of the call that is being made
    tally,     \* how many calls had values, had none, failed
    filed, extras, status,
    calls, cut, broken, mishaps

history == <<cut, broken, mishaps>>
readingVars == <<plan, doc, stage, left, sent, tally, filed, extras, status, calls, history>>

Zero == [ok |-> 0, empty |-> 0, err |-> 0]
Doc  == Documents[doc]

ReadingTypeOK ==
    /\ plan \in Plans /\ doc \in 1 .. Len(Documents) + 1 /\ stage \in {"next", "read"}
    /\ left \in SUBSET Nat /\ sent \in SUBSET Nat /\ tally \in [DOMAIN Zero -> Nat]
    /\ \A f \in filed : f.doc \in Docs /\ f.field \in Fields /\ f.value \notin Lenders
                            /\ <<f.field[1], f.field[3]>> \in Asked
    /\ DOMAIN extras \subseteq Fields
    /\ status \in [Docs -> {"pending", "processed", "failed"}]
    /\ \A i \in 1 .. Len(Documents) : status[Documents[i]] = "pending" <=> i >= doc
    /\ cut \subseteq Docs /\ broken \subseteq Docs /\ mishaps \in 0 .. MaxMishaps

ReadingInit ==
    /\ plan \in Plans /\ doc = 1 /\ stage = "next"
    /\ left = {} /\ sent = {} /\ tally = Zero
    /\ filed = {} /\ extras = <<>> /\ status = [d \in Docs |-> "pending"]
    /\ calls = {} /\ cut = {} /\ broken = {} /\ mishaps = 0

\* The pages of all instructions of the plan, for every document; all pages
\* where the plan has none of them.
TargetPages == UNION {i.pages : i \in plan}
ToRead(d) ==
    LET there == 1 .. PageCount[d]
    IN  IF TargetPages \cap there # {} THEN TargetPages \cap there ELSE there

Open ==
    /\ stage = "next" /\ doc <= Len(Documents)
    /\ stage' = "read" /\ tally' = Zero
    /\ left' = ToRead(Doc)
    /\ UNCHANGED <<plan, doc, sent, filed, extras, status, calls, history>>

\* The next pages in the order of their numbers.
FirstPages(n) == {p \in left : Cardinality({q \in left : q < p}) < n}
NextPages == FirstPages(BatchSize)
RestLate  == left \ FirstPages(BatchSize + 1)   \* mutant: a page between the batches
Rest      == left \ NextPages

\* Rendering stops at the first page that cannot be read; without any page
\* there is no call.
Render(n) ==
    LET whole == FirstPages(n) = NextPages
    IN  /\ stage = "read" /\ sent = {} /\ left # {}
        /\ whole \/ mishaps < MaxMishaps
        /\ sent' = FirstPages(n) /\ left' = Rest
        /\ mishaps' = mishaps + (IF whole THEN 0 ELSE 1)
        /\ cut' = IF whole THEN cut ELSE cut \cup {Doc}
        /\ UNCHANGED <<plan, doc, stage, tally, filed, extras, status, calls, broken>>

Answered(outcome, reply) ==
    /\ stage = "read" /\ sent # {} /\ sent' = {}
    /\ tally' = [tally EXCEPT ![outcome] = @ + 1]
    /\ calls' = calls \cup {[doc |-> Doc, pages |-> sent, outcome |-> outcome, reply |-> reply]}
    /\ UNCHANGED <<plan, doc, stage, left, status, history>>

NoAnswer   == Answered("empty", Nothing) /\ UNCHANGED <<filed, extras>>
CallRaises == Answered("err", Nothing) /\ UNCHANGED <<filed, extras>>

Reply(r) ==
    /\ Answered(IF DOMAIN Kept(r) = {} THEN "empty" ELSE "ok", r)
    /\ filed' = filed \cup Ingested(r, Doc, sent)
    /\ extras' = Over(extras, Aside(r))

Leave(verdict) ==
    /\ status' = [status EXCEPT ![Doc] = verdict]
    /\ doc' = doc + 1 /\ stage' = "next"
    /\ left' = {} /\ sent' = {} /\ tally' = Zero
    /\ UNCHANGED <<plan, filed, extras, calls, cut>>

\* Failed is a document whose calls all failed.
VerdictStrict(t) == IF t.err > 0 THEN "failed" ELSE "processed"   \* mutant: one failed call is enough
Verdict(t) == IF t.err > 0 /\ t.ok = 0 /\ t.empty = 0 THEN "failed" ELSE "processed"
Close ==
    /\ stage = "read" /\ left = {} /\ sent = {}
    /\ Leave(Verdict(tally)) /\ UNCHANGED <<broken, mishaps>>

Raises ==
    /\ stage = "read" /\ mishaps < MaxMishaps /\ mishaps' = mishaps + 1
    /\ broken' = broken \cup {Doc} /\ Leave("failed")

ReadingNext ==
    \/ Open \/ (\E n \in 0 .. BatchSize : Render(n))
    \/ NoAnswer \/ CallRaises \/ (\E r \in Replies : Reply(r))
    \/ Close \/ Raises

ReadingSpec == ReadingInit /\ [][ReadingNext]_readingVars

-----------------------------------------------------------------------------
(* Properties                                                              *)

Heard == {c \in calls : c.reply # Nothing}
FiledOf(c) == {f \in filed : f.doc = c.doc /\ f \in Ingested(c.reply, c.doc, c.pages)}

\* pipeline.py:636: a person is never both the borrower and a co-borrower, by
\* the name that was printed.
RolesApart ==
    \A c \in Heard : \A f, g \in FiledOf(c) :
        f.field = <<"borrower", 0, "name">> /\ IsCo(g.field) /\ g.field[3] = "name"
            => f.printed # g.printed

\* A reply that tells nobody in two ways: no number is given out twice.
Numbered(r, role) == {k \in DOMAIN r.flat : k[1] = role}
Unmixed(r) ==
    /\ Numbered(r, "borrower") # {} => r.head = <<>>
    /\ Numbered(r, "co_borrower") # {} => Len(r.head) <= 1 /\ r.co = <<>>
    /\ r.co # <<>> => \A i \in 2 .. Len(r.head) : r.head[i].name # Nothing
    /\ r.single => Len(r.head) <= 1

NamesIn(r) ==
    {x \in ({"borrower"} \X {p.name : p \in Range(Leading(r.head))})
        \cup ({"co_borrower"} \X {p.name : p \in Range(r.co) \cup Range(Others(r.head))})
        \cup {<<k[1], r.flat[k]>> : k \in {j \in DOMAIN r.flat : j[3] = "name"}} : x[2] # Nothing}

\* Everyone a reply names, in a role the prompt asks for, is filed - unless
\* the lender, the borrower again, or told in two ways at once.
EveryoneFiled ==
    \A c \in Heard : Unmixed(c.reply) =>
        \A x \in NamesIn(c.reply) :
            \/ <<x[1], "name">> \notin Asked \/ Cleaned[x[2]] \in Lenders
            \/ <<"borrower", x[2]>> \in NamesIn(c.reply) /\ x[1] = "co_borrower"
            \/ \E f \in filed : f.doc = c.doc /\ f.field[1] = x[1] /\ f.printed = x[2]

\* A reply puts everyone it names into the dossier, in one role.
EveryoneOnce == EveryoneFiled /\ RolesApart

\* A value is filed under a page that the model was shown.
PagesWereSent ==
    \A f \in filed : \E c \in Heard : c.doc = f.doc /\ f.page \in c.pages

\* Nobody is missing among the co-borrowers up to this one.
Undisturbed(values, k) ==
    IsCo(k) => {j[2] : j \in {i \in DOMAIN values : IsCo(i) /\ i[2] <= k[2]}} = 1 .. k[2]

\* pipeline.py:222: each field carries the model's own evidence.  Whoever is
\* left out of a reply, and whoever gets another number for it, the others stay
\* under their key, with their value and the page the model gave for it.
EvidenceKept ==
    \A c \in Heard :
        LET rest == WithoutTwins(Gathered(c.reply))
        IN  \A k \in DOMAIN rest \cap DOMAIN c.reply.evidence :
                /\ Undisturbed(rest, k) /\ IsKept(k, rest[k])
                /\ c.reply.evidence[k] \in c.pages
                => \E f \in filed : /\ f.doc = c.doc /\ f.page = c.reply.evidence[k]
                                    /\ f.field = k /\ f.printed = rest[k]

\* A document counts as failed if all its calls failed, and then nothing of
\* it is used; a processed one had a call that did not fail, or none at all.
\* An exception may leave what was filed before it.
VerdictTells ==
    \A d \in Docs \ broken :
        LET outcomes == {c.outcome : c \in {e \in calls : e.doc = d}}
        IN  /\ status[d] = "failed" => outcomes = {"err"} /\ \A f \in filed : f.doc # d
            /\ status[d] = "processed" => outcomes # {"err"}

\* Every page that is to be read was shown to the model, once.
PagesCovered ==
    \A d \in Docs \ (cut \cup broken) : status[d] # "pending" =>
        /\ UNION {c.pages : c \in {e \in calls : e.doc = d}} = ToRead(d)
        /\ \A b, c \in calls : b.doc = d /\ c.doc = d /\ b.pages \cap c.pages # {}
                                   => b.pages = c.pages

\* What was shown to the model and what is filed fit together: every page that
\* is to be read, and no value from another one.
PagesRead == ReadingTypeOK /\ PagesWereSent /\ PagesCovered
=============================================================================

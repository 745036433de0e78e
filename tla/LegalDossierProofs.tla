------------------------- MODULE LegalDossierProofs -------------------------
(***************************************************************************)
(* Theorems about a dossier of the legal workspace.                        *)
(*                                                                         *)
(* First, how it comes about (Dossier.tla), for every set of page reads,   *)
(* any text layers and any likeness of names: nobody is dropped and every  *)
(* panel shows its person, every value is filed where it was proven, and   *)
(* numbers are one each and for good.                                      *)
(*                                                                         *)
(* Then its review (LegalReview.tla), for every set of fields, values and  *)
(* readings and any number of reviewers, jobs and decisions.  The          *)
(* invariant there speaks of every copy of the extraction alike: the two   *)
(* rows, the snapshot and the copies that jobs hold.                       *)
(***************************************************************************)
EXTENDS Dossier, LegalReview, FiniteSetTheorems, WellFoundedInduction, TLAPS

-----------------------------------------------------------------------------
(* Finitely many things in an order.                                       *)
(* Of finitely many things in a strict order one has none before it.        *)
Preceding(S, R, a) == {b \in S : <<b, a>> \in R}

Strict(S, R) ==
    /\ \A x \in S : <<x, x>> \notin R
    /\ \A x, y, z \in S : <<x, y>> \in R /\ <<y, z>> \in R => <<x, z>> \in R

(* Of two things in a strict order the first has fewer before it.           *)
LEMMA FewerPrecede ==
    ASSUME NEW S, IsFiniteSet(S), NEW R, Strict(S, R), NEW a \in S, NEW b \in S, <<b, a>> \in R
    PROVE  /\ Cardinality(Preceding(S, R, b)) \in Nat /\ Cardinality(Preceding(S, R, a)) \in Nat
           /\ Cardinality(Preceding(S, R, b)) < Cardinality(Preceding(S, R, a))
<1>1. Preceding(S, R, a) \in SUBSET S /\ Preceding(S, R, b) \in SUBSET S
  BY DEF Preceding
<1>2. IsFiniteSet(Preceding(S, R, a)) /\ IsFiniteSet(Preceding(S, R, b))
  BY <1>1, FS_Subset
<1>3. Preceding(S, R, b) \in SUBSET Preceding(S, R, a)
  BY DEF Preceding, Strict
<1>4. b \in Preceding(S, R, a) /\ b \notin Preceding(S, R, b)
  BY DEF Preceding, Strict
<1>5. /\ Cardinality(Preceding(S, R, b)) <= Cardinality(Preceding(S, R, a))
      /\ Cardinality(Preceding(S, R, a)) # Cardinality(Preceding(S, R, b))
  BY <1>2, <1>3, <1>4, FS_Subset
<1>6. Cardinality(Preceding(S, R, b)) \in Nat /\ Cardinality(Preceding(S, R, a)) \in Nat
  BY <1>2, FS_CardinalityType
<1> QED
  BY <1>5, <1>6

(* A set of naturals has a least member.                                    *)
LEMMA LeastOf ==
    ASSUME NEW N \in SUBSET Nat, N # {}
    PROVE  \E n \in N : \A m \in N : n <= m
<1> DEFINE R == OpToRel(<, Nat)
<1>1. IsWellFoundedOn(R, Nat)
  BY NatLessThanWellFounded
<1>2. \A x, y \in Nat : <<y, x>> \notin R => x <= y
  BY DEF OpToRel
<1> HIDE DEF R
<1>3. PICK x \in N : \A y \in N : <<y, x>> \notin R
  BY <1>1, WFMin
<1> QED
  BY <1>2, <1>3

(* Min picks it.                                                            *)
LEMMA LeastIsMin ==
    ASSUME NEW N \in SUBSET Nat, N # {}
    PROVE  Min(N) \in N /\ \A m \in N : Min(N) <= m
  BY LeastOf DEF Min

(* A finite set has a member with nothing before it.                        *)
LEMMA FirstOf ==
    ASSUME NEW S, IsFiniteSet(S), S # {}, NEW R, Strict(S, R)
    PROVE  \E x \in S : \A y \in S : <<y, x>> \notin R
<1> DEFINE N == {Cardinality(Preceding(S, R, a)) : a \in S}
<1>1. \A a \in S : Cardinality(Preceding(S, R, a)) \in Nat
  <2> TAKE a \in S
  <2>1. Preceding(S, R, a) \in SUBSET S
    BY DEF Preceding
  <2> QED
    BY <2>1, FS_Subset, FS_CardinalityType
<1>2. N \in SUBSET Nat /\ N # {}
  BY <1>1
<1>3. PICK n \in N : \A m \in N : n <= m
  BY <1>2, LeastOf
<1>4. PICK x \in S : n = Cardinality(Preceding(S, R, x))
  BY <1>3
<1>5. ASSUME NEW y \in S, <<y, x>> \in R PROVE FALSE
  <2>1. Cardinality(Preceding(S, R, y)) < Cardinality(Preceding(S, R, x))
    BY <1>5, FewerPrecede
  <2>2. n <= Cardinality(Preceding(S, R, y))
    BY <1>3
  <2> QED
    BY <2>1, <2>2, <1>4, <1>1
<1> QED
  BY <1>5

(* Listed is the members of the set, each once, in that order.              *)
LEMMA ListedInOrder ==
    ASSUME NEW S, IsFiniteSet(S), NEW R, Strict(S, R),
           \A a, b \in S : a # b => <<a, b>> \in R \/ <<b, a>> \in R
    PROVE  /\ Cardinality(S) \in Nat /\ Listed(S, R) \in [1 .. Cardinality(S) -> S]
           /\ \A a \in S : \E n \in 1 .. Cardinality(S) : Listed(S, R)[n] = a
           /\ \A m, n \in 1 .. Cardinality(S) : m # n => Listed(S, R)[m] # Listed(S, R)[n]
           /\ \A m, n \in 1 .. Cardinality(S) : m < n => <<Listed(S, R)[m], Listed(S, R)[n]>> \in R
<1> DEFINE rank == [a \in S |-> Cardinality(Preceding(S, R, a))]
           N == Cardinality(S)
<1>1. N \in Nat
  BY FS_CardinalityType
<1>2. ASSUME NEW a \in S PROVE rank[a] \in 0 .. N - 1
  <2>1. Preceding(S, R, a) \in SUBSET S /\ a \notin Preceding(S, R, a)
    BY DEF Preceding, Strict
  <2>2. /\ IsFiniteSet(Preceding(S, R, a)) /\ Cardinality(Preceding(S, R, a)) <= N
        /\ N # Cardinality(Preceding(S, R, a))
    BY <2>1, FS_Subset
  <2>3. Cardinality(Preceding(S, R, a)) \in Nat
    BY <2>2, FS_CardinalityType
  <2> QED
    BY <2>2, <2>3, <1>1
<1>a. ASSUME NEW a \in S, NEW b \in S, <<b, a>> \in R PROVE rank[b] < rank[a]
  BY <1>a, FewerPrecede
<1>3. ASSUME NEW a \in S, NEW b \in S, a # b PROVE rank[a] # rank[b]
  <2>1. rank[a] \in Nat /\ rank[b] \in Nat
    BY <1>1, <1>2
  <2>2. rank[b] < rank[a] \/ rank[a] < rank[b]
    BY <1>a, <1>3
  <2> HIDE DEF rank
  <2> QED
    BY <2>1, <2>2
<1>4. rank \in Injection(S, 0 .. N - 1)
  BY <1>2, <1>3 DEF Injection, IsInjective
<1>5. IsFiniteSet(0 .. N - 1) /\ Cardinality(0 .. N - 1) = N
  BY <1>1, FS_Interval
<1>6. rank \in Surjection(S, 0 .. N - 1)
  BY <1>4, <1>5, FS_Injection
<1>7. ASSUME NEW n \in 1 .. N
      PROVE  \E a \in S : Cardinality(Preceding(S, R, a)) = n - 1
  <2>1. n - 1 \in 0 .. N - 1
    BY <1>1
  <2>2. \E a \in S : rank[a] = n - 1
    BY <1>6, <2>1 DEF Surjection
  <2> QED
    BY <2>2
<1>8. ASSUME NEW n \in 1 .. N
      PROVE  Listed(S, R)[n] \in S /\ Cardinality(Preceding(S, R, Listed(S, R)[n])) = n - 1
  BY <1>7 DEF Listed, Preceding
<1>9. Listed(S, R) \in [1 .. N -> S]
  BY <1>8 DEF Listed
<1>10. \A a \in S : \E n \in 1 .. N : Listed(S, R)[n] = a
  <2> TAKE a \in S
  <2>1. rank[a] + 1 \in 1 .. N
    BY <1>1, <1>2
  <2>2. rank[Listed(S, R)[rank[a] + 1]] = rank[a]
    BY <1>8, <2>1, <1>2
  <2>3. Listed(S, R)[rank[a] + 1] = a
    BY <2>2, <2>1, <1>3, <1>8
  <2> QED
    BY <2>1, <2>3
<1>11. \A m, n \in 1 .. N : m # n => Listed(S, R)[m] # Listed(S, R)[n]
  BY <1>8, <1>1
<1>12. ASSUME NEW m \in 1 .. N, NEW n \in 1 .. N, m < n
       PROVE  <<Listed(S, R)[m], Listed(S, R)[n]>> \in R
  <2>1. PICK a \in S, b \in S : a = Listed(S, R)[m] /\ b = Listed(S, R)[n]
    BY <1>8
  <2>2. rank[a] = m - 1 /\ rank[b] = n - 1
    BY <1>8, <2>1
  <2>3. ~(rank[b] < rank[a]) /\ a # b
    BY <2>2, <1>12, <1>1
  <2>4. <<b, a>> \notin R
    BY <2>3, <1>a
  <2> QED
    BY <2>1, <2>3, <2>4
<1> QED
  BY <1>1, <1>9, <1>10, <1>11, <1>12

(* Records as the batches bring them: a sequence of typed records.          *)
IsRecords(rs) == rs \in Seq(Range(rs)) /\ \A i \in DOMAIN rs : IsRecord(rs[i])

(* A sequence of records, as a function.                                    *)
LEMMA RecordsShape ==
    ASSUME NEW rs, IsRecords(rs)
    PROVE  /\ Len(rs) \in Nat /\ DOMAIN rs = 1 .. Len(rs) /\ DOMAIN rs \subseteq Nat \ {0}
           /\ IsFiniteSet(DOMAIN rs) /\ rs = [i \in DOMAIN rs |-> rs[i]]
<1>1. rs \in Seq(Range(rs))
  BY DEF IsRecords
<1>2. Len(rs) \in Nat /\ DOMAIN rs = 1 .. Len(rs) /\ rs \in [1 .. Len(rs) -> Range(rs)]
  BY <1>1
<1>3. IsFiniteSet(1 .. Len(rs))
  BY <1>2, FS_Interval
<1> QED
  BY <1>2, <1>3

(* What a record is made of.                                                *)
LEMMA FieldsTyped ==
    ASSUME NEW rs, IsRecords(rs), NEW i \in DOMAIN rs
    PROVE  /\ rs[i].doc \in AllDocs /\ rs[i].page \in Nat
           /\ IsFiniteSet(DOMAIN rs[i].fields) /\ DOMAIN rs[i].fields \subseteq SchemaFields
           /\ rs[i].fields \in [DOMAIN rs[i].fields -> DOMAIN Length]
  BY DEF IsRecords, IsRecord

(* A function on a finite set has finitely many values.                     *)
LEMMA FiniteRange ==
    ASSUME NEW D, IsFiniteSet(D), NEW f, f = [x \in D |-> f[x]]
    PROVE  IsFiniteSet({f[x] : x \in D})
<1>1. f \in Surjection(D, {f[x] : x \in D})
  BY DEF Surjection
<1> QED
  BY <1>1, FS_Surjection

(* A document with records has a first one.                                 *)
LEMMA DocumentRecords ==
    ASSUME NEW rs, IsRecords(rs), NEW doc \in Docs(rs)
    PROVE  /\ Of(rs, doc) \in SUBSET Nat /\ Of(rs, doc) \subseteq DOMAIN rs /\ Of(rs, doc) # {}
           /\ Min(Of(rs, doc)) \in Of(rs, doc) /\ \A i \in Of(rs, doc) : Min(Of(rs, doc)) <= i
<1>1. Of(rs, doc) \in SUBSET Nat /\ Of(rs, doc) \subseteq DOMAIN rs /\ Of(rs, doc) # {}
  BY RecordsShape DEF Of, Docs
<1> QED
  BY <1>1, LeastIsMin

(* A pair is a value of a field; its origin is a record that has it.        *)
LEMMA PairOrigin ==
    ASSUME NEW rs, IsRecords(rs), NEW doc, NEW pair \in Pairs(rs, doc)
    PROVE  /\ pair = <<pair[1], pair[2]>> /\ pair[1] \in SchemaFields
           /\ doc \in Docs(rs) /\ Origin(rs, doc, pair) \in Of(rs, doc) /\ Origin(rs, doc, pair) \in Nat
           /\ Has(rs[Origin(rs, doc, pair)], pair[1])
           /\ ValueOf(rs, doc, pair) = rs[Origin(rs, doc, pair)].fields[pair[1]]
           /\ ValueOf(rs, doc, pair) \in DOMAIN Length /\ Norm[ValueOf(rs, doc, pair)] = pair[2]
<1>1. PICK i \in Of(rs, doc) : pair \in {<<f, Norm[rs[i].fields[f]]>> : f \in DOMAIN rs[i].fields}
  BY DEF Pairs
<1>2. PICK f \in DOMAIN rs[i].fields : pair = <<f, Norm[rs[i].fields[f]]>>
  BY <1>1
<1>3. i \in DOMAIN rs /\ doc \in Docs(rs) /\ Of(rs, doc) \subseteq Nat
  BY RecordsShape DEF Of, Docs
<1>4. pair[1] \in SchemaFields
  BY <1>2, <1>3, FieldsTyped
<1> DEFINE M == {j \in Of(rs, doc) : Has(rs[j], pair[1]) /\ Norm[rs[j].fields[pair[1]]] = pair[2]}
<1>5. M \in SUBSET Nat /\ i \in M
  BY <1>2, <1>3 DEF Has
<1>6. Min(M) \in M /\ Origin(rs, doc, pair) = Min(M)
  BY <1>5, LeastIsMin DEF Origin
<1>7. ValueOf(rs, doc, pair) = rs[Min(M)].fields[pair[1]]
  BY <1>6 DEF ValueOf
<1>8. rs[Min(M)].fields[pair[1]] \in DOMAIN Length
  BY <1>6, FieldsTyped DEF Of, Has
<1> QED
  BY <1>2, <1>3, <1>4, <1>5, <1>6, <1>7, <1>8

(* A value of a record is a pair of its document.                           *)
LEMMA PairsOfRecord ==
    ASSUME NEW rs, NEW i \in DOMAIN rs, NEW f \in DOMAIN rs[i].fields
    PROVE  <<f, Norm[rs[i].fields[f]]>> \in Pairs(rs, rs[i].doc) /\ rs[i].doc \in Docs(rs)
  BY DEF Pairs, Of, Docs

(* A document has finitely many pairs.                                      *)
LEMMA PairsFinite ==
    ASSUME NEW rs, IsRecords(rs), NEW doc
    PROVE  IsFiniteSet(Pairs(rs, doc))
<1> DEFINE At(i) == {<<f, Norm[rs[i].fields[f]]>> : f \in DOMAIN rs[i].fields}
           all   == [i \in Of(rs, doc) |-> At(i)]
<1>1. ASSUME NEW i \in Of(rs, doc) PROVE IsFiniteSet(At(i))
  <2> DEFINE p == [f \in DOMAIN rs[i].fields |-> <<f, Norm[rs[i].fields[f]]>>]
  <2>1. IsFiniteSet(DOMAIN rs[i].fields)
    BY FieldsTyped DEF Of
  <2>2. IsFiniteSet({p[f] : f \in DOMAIN rs[i].fields})
    BY <2>1, FiniteRange
  <2> QED
    BY <2>2
<1>2. IsFiniteSet(Of(rs, doc))
  <2>1. Of(rs, doc) \in SUBSET DOMAIN rs
    BY DEF Of
  <2> QED
    BY <2>1, RecordsShape, FS_Subset
<1>3. IsFiniteSet({all[i] : i \in Of(rs, doc)})
  BY <1>2, FiniteRange
<1>4. \A T \in {all[i] : i \in Of(rs, doc)} : IsFiniteSet(T)
  BY <1>1
<1>5. IsFiniteSet(UNION {all[i] : i \in Of(rs, doc)})
  BY <1>3, <1>4, FS_UNION
<1>6. \A i \in Of(rs, doc) : all[i] = At(i)
  OBVIOUS
<1>7. UNION {all[i] : i \in Of(rs, doc)} = UNION {At(i) : i \in Of(rs, doc)}
  <2> HIDE DEF At, all
  <2> QED
    BY <1>6
<1>8. Pairs(rs, doc) = UNION {At(i) : i \in Of(rs, doc)}
  BY Zenon DEF Pairs
<1> QED
  BY <1>5, <1>7, <1>8

(* The page chosen for a value: one of its pages, ahead of each other one.  *)
Ahead(votes, claim, p, q) ==
    \/ votes[p] > votes[q]
    \/ votes[p] = votes[q] /\ (p = claim \/ (q # claim /\ p < q))

(* One page is chosen, and it is one of the hits.                           *)
LEMMA ChosenPage ==
    ASSUME NEW pages \in SUBSET Nat, IsFiniteSet(pages), pages # {}, NEW votes \in [pages -> Nat], NEW claim
    PROVE  /\ Chosen(pages, votes, claim) \in pages
           /\ \A q \in pages \ {Chosen(pages, votes, claim)} : Ahead(votes, claim, Chosen(pages, votes, claim), q)
<1> DEFINE R == {c \in pages \X pages : c[1] # c[2] /\ Ahead(votes, claim, c[1], c[2])}
<1>1. \A p, q \in pages : <<p, q>> \in R <=> p # q /\ Ahead(votes, claim, p, q)
  OBVIOUS
<1>2. \A p \in pages : votes[p] \in Nat
  OBVIOUS
<1>3. ASSUME NEW p \in pages, NEW q \in pages, NEW r \in pages, <<p, q>> \in R, <<q, r>> \in R
      PROVE  <<p, r>> \in R
  <2>1. Ahead(votes, claim, p, q) /\ Ahead(votes, claim, q, r) /\ p # q /\ q # r
    BY <1>3, <1>1
  <2>2. p # r
    BY <2>1, <1>2 DEF Ahead
  <2>3. Ahead(votes, claim, p, r)
    BY <2>1, <2>2, <1>2 DEF Ahead
  <2> QED
    BY <2>2, <2>3, <1>1
<1>4. \A p \in pages : <<p, p>> \notin R
  OBVIOUS
<1> HIDE DEF R
<1>5. PICK p \in pages : \A q \in pages : <<q, p>> \notin R
  BY <1>3, <1>4, FirstOf DEF Strict
<1>6. \A q \in pages \ {p} : Ahead(votes, claim, p, q)
  <2> TAKE q \in pages \ {p}
  <2>1. ~Ahead(votes, claim, q, p)
    BY <1>1, <1>5
  <2> QED
    BY <2>1, <1>2 DEF Ahead
<1> QED
  BY <1>6 DEF Chosen, Ahead

(* With the chosen page as the claim the choice is the same.                *)
LEMMA ChosenAgain ==
    ASSUME NEW pages \in SUBSET Nat, IsFiniteSet(pages), pages # {}, NEW votes \in [pages -> Nat], NEW claim
    PROVE  Chosen(pages, votes, Chosen(pages, votes, claim)) = Chosen(pages, votes, claim)
<1> DEFINE p == Chosen(pages, votes, claim)
           q == Chosen(pages, votes, p)
<1>1. p \in pages /\ \A r \in pages \ {p} : Ahead(votes, claim, p, r)
  BY ChosenPage
<1>2. q \in pages /\ \A r \in pages \ {q} : Ahead(votes, p, q, r)
  BY ChosenPage
<1>3. \A r \in pages : votes[r] \in Nat
  OBVIOUS
<1> HIDE DEF p, q
<1>4. ASSUME p # q PROVE FALSE
  BY <1>1, <1>2, <1>3, <1>4 DEF Ahead
<1> QED
  BY <1>4 DEF p, q

HitsTyped == \A doc \in AllDocs : \A v : Hits(doc, v) \in SUBSET Nat /\ IsFiniteSet(Hits(doc, v))

(* The text of a document is typed.                                         *)
LEMMA TextsTyped ==
    ASSUME texts \in TextLayers PROVE HitsTyped
<1> SUFFICES ASSUME NEW doc \in AllDocs, NEW v
             PROVE  Hits(doc, v) \in SUBSET Nat /\ IsFiniteSet(Hits(doc, v))
  BY DEF HitsTyped
<1>1. CASE v \in DOMAIN texts[doc]
  BY <1>1, DossierAssumption DEF Hits
<1>2. CASE v \notin DOMAIN texts[doc]
  BY <1>2, FS_EmptySet DEF Hits
<1> QED
  BY <1>1, <1>2

VotesOn(rs, doc, hits) == [p \in hits |-> Cardinality({x \in Pairs(rs, doc) : p \in Hits(doc, x[2])})]

(* Pages are voted for by naturals.                                         *)
LEMMA VotesTyped ==
    ASSUME NEW rs, IsRecords(rs), NEW doc, NEW hits
    PROVE  VotesOn(rs, doc, hits) \in [hits -> Nat]
<1> SUFFICES ASSUME NEW p \in hits
             PROVE  Cardinality({x \in Pairs(rs, doc) : p \in Hits(doc, x[2])}) \in Nat
  BY DEF VotesOn
<1>1. {x \in Pairs(rs, doc) : p \in Hits(doc, x[2])} \in SUBSET Pairs(rs, doc)
  OBVIOUS
<1> QED
  BY <1>1, PairsFinite, FS_Subset, FS_CardinalityType

(* Documents are documents of the templates.                                *)
LEMMA DocsTyped ==
    ASSUME NEW rs, IsRecords(rs), NEW doc \in Docs(rs) PROVE doc \in AllDocs
  BY FieldsTyped DEF Docs

(* A value is put on a page that has it, or left where it was.              *)
LEMMA PageProven ==
    ASSUME NEW rs, IsRecords(rs), HitsTyped, NEW doc, NEW pair \in Pairs(rs, doc)
    PROVE  LET hits  == Hits(doc, pair[2])
               claim == rs[Origin(rs, doc, pair)].page
           IN  /\ PageOf(rs, doc, pair) \in Nat
               /\ hits # {} => /\ PageOf(rs, doc, pair) = Chosen(hits, VotesOn(rs, doc, hits), claim)
                               /\ PageOf(rs, doc, pair) \in hits
               /\ hits = {} => PageOf(rs, doc, pair) = claim
<1> DEFINE hits  == Hits(doc, pair[2])
           claim == rs[Origin(rs, doc, pair)].page
<1>1. doc \in AllDocs /\ Origin(rs, doc, pair) \in DOMAIN rs
  BY PairOrigin, DocsTyped DEF Of
<1>2. hits \in SUBSET Nat /\ IsFiniteSet(hits) /\ claim \in Nat
  BY <1>1, FieldsTyped DEF HitsTyped
<1>3. CASE hits = {}
  BY <1>2, <1>3 DEF PageOf
<1>4. CASE hits # {}
  <2>1. PageOf(rs, doc, pair) = Chosen(hits, VotesOn(rs, doc, hits), claim)
    BY <1>4 DEF PageOf, VotesOn
  <2>2. Chosen(hits, VotesOn(rs, doc, hits), claim) \in hits
    BY <1>2, <1>4, VotesTyped, ChosenPage
  <2> QED
    BY <1>2, <1>4, <2>1, <2>2
<1> QED
  BY <1>3, <1>4

(* The pairs of a page, and the one of a field that stays.                  *)
On(rs, doc, page) == {x \in Pairs(rs, doc) : PageOf(rs, doc, x) = page}

LastOn(rs, doc, page, f) ==
    CHOOSE x \in On(rs, doc, page) :
        x[1] = f /\ \A y \in On(rs, doc, page) : y[1] = f => Origin(rs, doc, y) <= Origin(rs, doc, x)

(* A page keeps one value per field, of a pair that is put there.           *)
LEMMA LastStays ==
    ASSUME NEW rs, IsRecords(rs), NEW doc, NEW page, NEW f \in {x[1] : x \in On(rs, doc, page)}
    PROVE  /\ LastOn(rs, doc, page, f) \in On(rs, doc, page)
           /\ LastOn(rs, doc, page, f) = <<f, Norm[ValueOf(rs, doc, LastOn(rs, doc, page, f))]>>
<1> DEFINE on == On(rs, doc, page)
           S == {x \in on : x[1] = f}
           R == {c \in S \X S : Origin(rs, doc, c[1]) > Origin(rs, doc, c[2])}
<1>1. IsFiniteSet(S)
  <2>1. S \in SUBSET Pairs(rs, doc)
    BY DEF On
  <2> QED
    BY <2>1, PairsFinite, FS_Subset
<1>2. \A x \in S : Origin(rs, doc, x) \in Nat
  BY PairOrigin DEF On
<1>3. S # {}
  OBVIOUS
<1>4. \A x, y \in S : <<x, y>> \in R <=> Origin(rs, doc, x) > Origin(rs, doc, y)
  OBVIOUS
<1>5. Strict(S, R)
  <2> HIDE DEF R, S
  <2> QED
    BY <1>2, <1>4 DEF Strict
<1> HIDE DEF R
<1>6. PICK x \in S : \A y \in S : <<y, x>> \notin R
  BY <1>1, <1>3, <1>5, FirstOf
<1>7. \A y \in S : Origin(rs, doc, y) <= Origin(rs, doc, x)
  <2> TAKE y \in S
  <2>1. Origin(rs, doc, x) \in Nat /\ Origin(rs, doc, y) \in Nat
    BY <1>2, <1>6
  <2>2. ~(Origin(rs, doc, y) > Origin(rs, doc, x))
    BY <1>4, <1>6
  <2> QED
    BY <2>1, <2>2
<1>8. LastOn(rs, doc, page, f) \in on /\ LastOn(rs, doc, page, f)[1] = f
  BY <1>6, <1>7 DEF LastOn
<1> QED
  BY <1>8, PairOrigin DEF On

(* So it is a function on the fields that are put there.                    *)
LEMMA FieldsStand ==
    ASSUME NEW rs, NEW doc, NEW page
    PROVE  /\ FieldsOn(rs, doc, page) = [f \in {x[1] : x \in On(rs, doc, page)} |-> FieldsOn(rs, doc, page)[f]]
           /\ DOMAIN FieldsOn(rs, doc, page) = {x[1] : x \in On(rs, doc, page)}
  BY DEF FieldsOn, On

(* Its values are those of pairs that are put there.                        *)
LEMMA ValuesStand ==
    ASSUME NEW rs, IsRecords(rs), NEW doc, NEW page
    PROVE  \A f \in DOMAIN FieldsOn(rs, doc, page) :
               /\ <<f, Norm[FieldsOn(rs, doc, page)[f]]>> \in On(rs, doc, page)
               /\ FieldsOn(rs, doc, page)[f] = ValueOf(rs, doc, <<f, Norm[FieldsOn(rs, doc, page)[f]]>>)
<1> TAKE f \in DOMAIN FieldsOn(rs, doc, page)
<1>1. f \in {x[1] : x \in On(rs, doc, page)}
  BY FieldsStand
<1>2. FieldsOn(rs, doc, page)[f] = ValueOf(rs, doc, LastOn(rs, doc, page, f))
  BY <1>1 DEF FieldsOn, On, LastOn
<1> QED
  BY <1>1, <1>2, LastStays

(* One record per place, every pair at the place of its page.               *)
LEMMA PlacesOrdered ==
    ASSUME NEW rs, IsRecords(rs), HitsTyped
    PROVE  /\ IsFiniteSet(Places(rs)) /\ Places(rs) \subseteq Docs(rs) \X Nat
           /\ Strict(Places(rs), PlaceOrder(rs))
           /\ \A a, b \in Places(rs) : a # b => <<a, b>> \in PlaceOrder(rs) \/ <<b, a>> \in PlaceOrder(rs)
<1> DEFINE of(doc) == {<<doc, PageOf(rs, doc, x)>> : x \in Pairs(rs, doc)}
           all == [doc \in Docs(rs) |-> of(doc)]
           first(doc) == Min(Of(rs, doc))
<1>1. ASSUME NEW doc \in Docs(rs) PROVE IsFiniteSet(of(doc)) /\ of(doc) \subseteq Docs(rs) \X Nat
  <2> DEFINE p == [x \in Pairs(rs, doc) |-> <<doc, PageOf(rs, doc, x)>>]
  <2>1. IsFiniteSet({p[x] : x \in Pairs(rs, doc)})
    BY PairsFinite, FiniteRange
  <2>2. \A x \in Pairs(rs, doc) : PageOf(rs, doc, x) \in Nat
    BY PageProven
  <2> QED
    BY <2>1, <2>2
<1>2. IsFiniteSet(Docs(rs))
  <2> DEFINE d == [i \in DOMAIN rs |-> rs[i].doc]
  <2>0. IsFiniteSet(DOMAIN rs)
    BY RecordsShape
  <2>1. IsFiniteSet({d[i] : i \in DOMAIN rs})
    BY <2>0, FiniteRange
  <2> QED
    BY <2>1 DEF Docs
<1>3. IsFiniteSet({all[doc] : doc \in Docs(rs)})
  BY <1>2, FiniteRange
<1>4. \A T \in {all[doc] : doc \in Docs(rs)} : IsFiniteSet(T)
  BY <1>1
<1>5. IsFiniteSet(UNION {all[doc] : doc \in Docs(rs)})
  BY <1>3, <1>4, FS_UNION
<1>6. IsFiniteSet(Places(rs))
  BY <1>5 DEF Places
<1>7. Places(rs) \subseteq Docs(rs) \X Nat
  BY <1>1 DEF Places
<1>8. \A doc \in Docs(rs) : first(doc) \in Nat /\ rs[first(doc)].doc = doc
  BY DocumentRecords DEF Of
<1>9. \A a, b \in Places(rs) : <<a, b>> \in PlaceOrder(rs) <=>
         first(a[1]) < first(b[1]) \/ (a[1] = b[1] /\ a[2] < b[2])
  BY DEF PlaceOrder
<1> HIDE DEF first
<1>10. \A a \in Places(rs) : a = <<a[1], a[2]>> /\ a[1] \in Docs(rs) /\ a[2] \in Nat
  BY <1>7
<1>11. Strict(Places(rs), PlaceOrder(rs))
  <2>1. ASSUME NEW a \in Places(rs) PROVE <<a, a>> \notin PlaceOrder(rs)
    BY <1>8, <1>9, <1>10
  <2>2. ASSUME NEW a \in Places(rs), NEW b \in Places(rs), NEW c \in Places(rs),
               <<a, b>> \in PlaceOrder(rs), <<b, c>> \in PlaceOrder(rs)
        PROVE  <<a, c>> \in PlaceOrder(rs)
    <3>1. first(a[1]) \in Nat /\ first(b[1]) \in Nat /\ first(c[1]) \in Nat
      BY <1>8, <1>10
    <3>2. a[2] \in Nat /\ b[2] \in Nat /\ c[2] \in Nat
      BY <1>10
    <3> QED
      BY <2>2, <3>1, <3>2, <1>9
  <2> QED
    BY <2>1, <2>2 DEF Strict
<1>12. ASSUME NEW a \in Places(rs), NEW b \in Places(rs), a # b
       PROVE  <<a, b>> \in PlaceOrder(rs) \/ <<b, a>> \in PlaceOrder(rs)
  <2>1. first(a[1]) \in Nat /\ first(b[1]) \in Nat /\ a[2] \in Nat /\ b[2] \in Nat
    BY <1>8, <1>10
  <2>2. CASE a[1] = b[1]
    <3>1. a[2] # b[2]
      BY <1>10, <1>12, <2>2
    <3> QED
      BY <2>1, <2>2, <3>1, <1>9
  <2>3. CASE a[1] # b[1]
    <3>1. first(a[1]) # first(b[1])
      BY <1>8, <1>10, <2>3
    <3> QED
      BY <2>1, <3>1, <1>9
  <2> QED
    BY <2>2, <2>3
<1> QED
  BY <1>6, <1>7, <1>11, <1>12

(* What filing returns: typed records, one for each place.                  *)
LEMMA FiledShape ==
    ASSUME NEW rs, IsRecords(rs), HitsTyped
    PROVE  LET once   == ReattributedOf(rs)
               places == Listed(Places(rs), PlaceOrder(rs))
           IN  /\ IsRecords(once) /\ DOMAIN once = 1 .. Cardinality(Places(rs)) /\ DOMAIN places = DOMAIN once
               /\ \A n \in DOMAIN once : /\ places[n] \in Places(rs) /\ places[n] = <<once[n].doc, once[n].page>>
                                         /\ once[n].fields = FieldsOn(rs, once[n].doc, once[n].page)
<1> DEFINE once   == ReattributedOf(rs)
           places == Listed(Places(rs), PlaceOrder(rs))
           N      == Cardinality(Places(rs))
<1>1. N \in Nat /\ places \in [1 .. N -> Places(rs)]
  BY PlacesOrdered, ListedInOrder
<1>2. once = [n \in 1 .. N |-> [doc |-> places[n][1], page |-> places[n][2],
                               fields |-> FieldsOn(rs, places[n][1], places[n][2])]]
  BY <1>1 DEF ReattributedOf
<1>3. \A n \in 1 .. N : places[n] = <<places[n][1], places[n][2]>> /\ places[n][1] \in Docs(rs) /\ places[n][2] \in Nat
  <2> TAKE n \in 1 .. N
  <2>1. places[n] \in Docs(rs) \X Nat
    BY <1>1, PlacesOrdered
  <2> QED
    BY <2>1
<1> HIDE DEF places, once, N
<1>4. ASSUME NEW n \in 1 .. N PROVE IsRecord(once[n])
  <2>1. PICK doc \in Docs(rs), page \in Nat : doc = places[n][1] /\ page = places[n][2]
    BY <1>3
  <2>2. once[n] = [doc |-> doc, page |-> page, fields |-> FieldsOn(rs, doc, page)]
    BY <1>2, <2>1
  <2> DEFINE fs == FieldsOn(rs, doc, page)
  <2>3. DOMAIN fs = {x[1] : x \in On(rs, doc, page)} /\ fs = [f \in DOMAIN fs |-> fs[f]]
    BY FieldsStand
  <2>4. \A f \in DOMAIN fs :
           <<f, Norm[fs[f]]>> \in Pairs(rs, doc) /\ fs[f] = ValueOf(rs, doc, <<f, Norm[fs[f]]>>)
    <3>1. \A f \in DOMAIN fs : <<f, Norm[fs[f]]>> \in On(rs, doc, page) /\ fs[f] = ValueOf(rs, doc, <<f, Norm[fs[f]]>>)
      BY ValuesStand
    <3>2. \A x \in On(rs, doc, page) : x \in Pairs(rs, doc)
      BY DEF On
    <3> HIDE DEF fs
    <3> QED
      BY <3>1, <3>2
  <2>5. \A f \in DOMAIN fs : f \in SchemaFields /\ fs[f] \in DOMAIN Length
    <3> TAKE f \in DOMAIN fs
    <3>1. PICK pair \in Pairs(rs, doc) : pair = <<f, Norm[fs[f]]>> /\ fs[f] = ValueOf(rs, doc, pair)
      BY <2>4
    <3>2. pair[1] \in SchemaFields /\ ValueOf(rs, doc, pair) \in DOMAIN Length
      BY PairOrigin
    <3> QED
      BY <3>1, <3>2
  <2>6. IsFiniteSet(DOMAIN fs)
    <3> DEFINE one == [x \in On(rs, doc, page) |-> x[1]]
    <3>1. On(rs, doc, page) \in SUBSET Pairs(rs, doc)
      BY DEF On
    <3>2. IsFiniteSet(On(rs, doc, page))
      BY <3>1, PairsFinite, FS_Subset
    <3>3. IsFiniteSet({one[x] : x \in On(rs, doc, page)})
      BY <3>2, FiniteRange
    <3> QED
      BY <3>3, <2>3
  <2>7. doc \in AllDocs
    BY DocsTyped
  <2> HIDE DEF fs
  <2> QED
    BY <2>2, <2>3, <2>5, <2>6, <2>7 DEF IsRecord, fs
<1>5. once \in Seq(Range(once))
  <2>1. once \in [1 .. N -> Range(once)]
    BY <1>2 DEF Range
  <2> QED
    BY <2>1, <1>1
<1>6. DOMAIN once = 1 .. N /\ DOMAIN places = 1 .. N
  BY <1>1, <1>2
<1>7. IsRecords(once)
  BY <1>4, <1>5, <1>6 DEF IsRecords
<1> QED
  BY <1>1, <1>2, <1>3, <1>6, <1>7 DEF once, places, N

(* Every pair has its place, and a record has the pairs of its page only.   *)
LEMMA FiledPairs ==
    ASSUME NEW rs, IsRecords(rs), HitsTyped
    PROVE  LET once == ReattributedOf(rs)
           IN  /\ \A n \in DOMAIN once : \A f \in DOMAIN once[n].fields :
                      /\ <<f, Norm[once[n].fields[f]]>> \in Pairs(rs, once[n].doc)
                      /\ PageOf(rs, once[n].doc, <<f, Norm[once[n].fields[f]]>>) = once[n].page
                      /\ once[n].fields[f] = ValueOf(rs, once[n].doc, <<f, Norm[once[n].fields[f]]>>)
               /\ \A doc \in Docs(rs) : \A x \in Pairs(rs, doc) : \E n \in DOMAIN once :
                      once[n].doc = doc /\ once[n].page = PageOf(rs, doc, x) /\ x[1] \in DOMAIN once[n].fields
               /\ \A m, n \in DOMAIN once : m # n => once[m].doc # once[n].doc \/ once[m].page # once[n].page
<1> DEFINE once == ReattributedOf(rs)
           places == Listed(Places(rs), PlaceOrder(rs))
<1>1. /\ IsRecords(once) /\ DOMAIN once = 1 .. Cardinality(Places(rs)) /\ DOMAIN places = DOMAIN once
      /\ \A n \in DOMAIN once : /\ places[n] \in Places(rs) /\ places[n] = <<once[n].doc, once[n].page>>
                                /\ once[n].fields = FieldsOn(rs, once[n].doc, once[n].page)
  BY FiledShape
<1>2. /\ \A a \in Places(rs) : \E n \in DOMAIN once : places[n] = a
      /\ \A m, n \in DOMAIN once : m # n => places[m] # places[n]
  <2>1. /\ IsFiniteSet(Places(rs)) /\ Strict(Places(rs), PlaceOrder(rs))
        /\ \A a, b \in Places(rs) : a # b => <<a, b>> \in PlaceOrder(rs) \/ <<b, a>> \in PlaceOrder(rs)
    BY PlacesOrdered
  <2>2. /\ \A a \in Places(rs) : \E n \in 1 .. Cardinality(Places(rs)) : places[n] = a
        /\ \A m, n \in 1 .. Cardinality(Places(rs)) : m # n => places[m] # places[n]
    BY <2>1, ListedInOrder
  <2> QED
    BY <1>1, <2>2
<1> HIDE DEF once, places
<1>3. ASSUME NEW n \in DOMAIN once, NEW f \in DOMAIN once[n].fields
      PROVE  /\ <<f, Norm[once[n].fields[f]]>> \in On(rs, once[n].doc, once[n].page)
             /\ once[n].fields[f] = ValueOf(rs, once[n].doc, <<f, Norm[once[n].fields[f]]>>)
  BY <1>1, ValuesStand
<1>4. ASSUME NEW doc \in Docs(rs), NEW x \in Pairs(rs, doc)
      PROVE  \E n \in DOMAIN once :
                 once[n].doc = doc /\ once[n].page = PageOf(rs, doc, x) /\ x[1] \in DOMAIN once[n].fields
  <2>1. <<doc, PageOf(rs, doc, x)>> \in Places(rs)
    BY DEF Places
  <2>2. PICK n \in DOMAIN once : places[n] = <<doc, PageOf(rs, doc, x)>>
    BY <1>2, <2>1
  <2>3. once[n].doc = doc /\ once[n].page = PageOf(rs, doc, x)
    BY <1>1, <2>2
  <2>4. x \in On(rs, doc, once[n].page)
    BY <2>3 DEF On
  <2>5. x[1] \in DOMAIN FieldsOn(rs, doc, once[n].page)
    <3>1. DOMAIN FieldsOn(rs, doc, once[n].page) = {y[1] : y \in On(rs, doc, once[n].page)}
      BY FieldsStand
    <3> QED
      BY <2>4, <3>1
  <2> QED
    BY <1>1, <2>3, <2>5
<1>5. \A m, n \in DOMAIN once : m # n => once[m].doc # once[n].doc \/ once[m].page # once[n].page
  BY <1>1, <1>2
<1> QED
  BY <1>3, <1>4, <1>5 DEF once, On

(* Filing again: if the first time kept every pair, nothing moves.          *)
LEMMA InAllPairs ==
    ASSUME NEW rs, NEW doc, NEW x
    PROVE  <<doc, x>> \in AllPairs(rs) <=> x \in Pairs(rs, doc)
<1>1. x \in Pairs(rs, doc) => doc \in Docs(rs)
  BY DEF Pairs, Of, Docs
<1> QED
  BY <1>1 DEF AllPairs

(* If filing keeps all pairs, it keeps those of each document.              *)
LEMMA PairsKept ==
    ASSUME NEW rs, NEW once, AllPairs(once) = AllPairs(rs), NEW doc
    PROVE  Pairs(once, doc) = Pairs(rs, doc)
<1>1. \A x : x \in Pairs(once, doc) <=> x \in Pairs(rs, doc)
  BY InAllPairs
<1> QED
  BY <1>1

(* Then the page of a pair is the page it was put on.                       *)
LEMMA ClaimSettled ==
    ASSUME NEW rs, IsRecords(rs), HitsTyped, AllPairs(ReattributedOf(rs)) = AllPairs(rs),
           NEW doc, NEW x \in Pairs(rs, doc)
    PROVE  /\ PageOf(ReattributedOf(rs), doc, x) = PageOf(rs, doc, x)
           /\ FieldsOn(rs, doc, PageOf(rs, doc, x))[x[1]] = ValueOf(ReattributedOf(rs), doc, x)
<1>1. PICK once : once = ReattributedOf(rs)
  OBVIOUS
<1>2. IsRecords(once) /\ Pairs(once, doc) = Pairs(rs, doc)
  BY <1>1, FiledShape, PairsKept
<1>3. PICK o : o = Origin(once, doc, x)
  OBVIOUS
<1>4. o \in Of(once, doc) /\ Has(once[o], x[1]) /\ x = <<x[1], Norm[once[o].fields[x[1]]]>>
      /\ ValueOf(once, doc, x) = once[o].fields[x[1]]
  BY <1>2, <1>3, PairOrigin
<1>5. o \in DOMAIN once /\ once[o].doc = doc /\ x[1] \in DOMAIN once[o].fields
  BY <1>4 DEF Of, Has
<1>6. once[o].page = PageOf(rs, doc, x)
  BY <1>1, <1>4, <1>5, FiledPairs
<1>7. once[o].fields = FieldsOn(rs, doc, PageOf(rs, doc, x))
  BY <1>1, <1>5, <1>6, FiledShape
<1> DEFINE hits  == Hits(doc, x[2])
           claim == rs[Origin(rs, doc, x)].page
           votes == VotesOn(rs, doc, hits)
<1>8. /\ hits # {} => PageOf(rs, doc, x) = Chosen(hits, votes, claim)
      /\ hits = {} => PageOf(rs, doc, x) = claim
  BY PageProven
<1>9. VotesOn(once, doc, hits) = votes
  BY <1>2 DEF VotesOn
<1>10. /\ hits # {} => PageOf(once, doc, x) = Chosen(hits, votes, once[o].page)
       /\ hits = {} => PageOf(once, doc, x) = once[o].page
  BY <1>2, <1>3, <1>9, PageProven
<1>11. hits \in SUBSET Nat /\ IsFiniteSet(hits)
  BY PairOrigin, DocsTyped DEF HitsTyped
<1>12. hits # {} => Chosen(hits, votes, Chosen(hits, votes, claim)) = Chosen(hits, votes, claim)
  BY <1>11, VotesTyped, ChosenAgain
<1> QED
  BY <1>1, <1>4, <1>6, <1>7, <1>8, <1>10, <1>12

(* Then the places, and their order, are the same again.                    *)
LEMMA PlacesSettled ==
    ASSUME NEW rs, IsRecords(rs), HitsTyped, AllPairs(ReattributedOf(rs)) = AllPairs(rs)
    PROVE  Places(ReattributedOf(rs)) = Places(rs) /\ PlaceOrder(ReattributedOf(rs)) = PlaceOrder(rs)
<1>1. PICK once : once = ReattributedOf(rs)
  OBVIOUS
<1>2. PICK places : places = Listed(Places(rs), PlaceOrder(rs))
  OBVIOUS
<1>3. /\ IsRecords(once) /\ DOMAIN once = 1 .. Cardinality(Places(rs)) /\ DOMAIN places = DOMAIN once
      /\ \A n \in DOMAIN once : places[n] \in Places(rs) /\ places[n] = <<once[n].doc, once[n].page>>
  BY <1>1, <1>2, FiledShape
<1>4. /\ IsFiniteSet(Places(rs)) /\ Strict(Places(rs), PlaceOrder(rs)) /\ Places(rs) \subseteq Docs(rs) \X Nat
      /\ \A a, b \in Places(rs) : a # b => <<a, b>> \in PlaceOrder(rs) \/ <<b, a>> \in PlaceOrder(rs)
  BY PlacesOrdered
<1>5. \A m, n \in DOMAIN once : m < n => <<places[m], places[n]>> \in PlaceOrder(rs)
  <2>1. \A m, n \in 1 .. Cardinality(Places(rs)) : m < n => <<places[m], places[n]>> \in PlaceOrder(rs)
    BY <1>2, <1>4, ListedInOrder
  <2> QED
    BY <1>3, <2>1
<1>6. \A doc : Pairs(once, doc) = Pairs(rs, doc)
  BY <1>1, PairsKept
<1>7. \A doc : \A x \in Pairs(rs, doc) : PageOf(once, doc, x) = PageOf(rs, doc, x)
  BY <1>1, ClaimSettled
<1>8. \A doc, x : x \in Pairs(rs, doc) => doc \in Docs(rs) /\ doc \in Docs(once)
  BY <1>3, <1>6, PairOrigin
<1>9. Places(once) = Places(rs)
  <2>1. \A a : a \in Places(rs) <=> \E doc \in Docs(rs) : \E x \in Pairs(rs, doc) : a = <<doc, PageOf(rs, doc, x)>>
    BY DEF Places
  <2>2. \A a : a \in Places(once) <=> \E doc \in Docs(once) : \E x \in Pairs(once, doc) : a = <<doc, PageOf(once, doc, x)>>
    BY DEF Places
  <2>3. \A a : a \in Places(once) <=> a \in Places(rs)
    BY <2>1, <2>2, <1>6, <1>7, <1>8
  <2> QED
    BY <2>3
<1>10. \A c \in Places(rs) : c[1] \in Docs(rs) /\ c[1] \in Docs(once) /\ c[2] \in Nat
  <2> TAKE c \in Places(rs)
  <2>1. PICK doc \in Docs(rs) : c \in {<<doc, PageOf(rs, doc, x)>> : x \in Pairs(rs, doc)}
    BY DEF Places
  <2>2. PICK x \in Pairs(rs, doc) : c = <<doc, PageOf(rs, doc, x)>>
    BY <2>1
  <2> QED
    BY <2>1, <2>2, <1>8, <1>4
<1>11. ASSUME NEW a \in Docs(rs), NEW b \in Docs(rs), a \in Docs(once), b \in Docs(once),
              Min(Of(rs, a)) < Min(Of(rs, b))
       PROVE  Min(Of(once, a)) < Min(Of(once, b))
  <2>1. PICK m, n : m = Min(Of(once, a)) /\ n = Min(Of(once, b))
    OBVIOUS
  <2>2. m \in Of(once, a) /\ n \in Of(once, b) /\ m \in Nat /\ n \in Nat
    BY <2>1, <1>3, <1>11, DocumentRecords
  <2>3. m \in DOMAIN once /\ n \in DOMAIN once /\ once[m].doc = a /\ once[n].doc = b
    BY <2>2 DEF Of
  <2>4. places[m] \in Places(rs) /\ places[n] \in Places(rs) /\ places[m][1] = a /\ places[n][1] = b
    BY <2>3, <1>3
  <2>5. <<places[m], places[n]>> \in PlaceOrder(rs)
    BY <2>4, <1>11 DEF PlaceOrder
  <2>6. a # b
    <3>1. Min(Of(rs, a)) \in Nat
      BY DocumentRecords
    <3> QED
      BY <3>1, <1>11
  <2>7. m # n
    BY <2>3, <2>6
  <2>8. ~(n < m)
    <3>1. <<places[n], places[m]>> \notin PlaceOrder(rs)
      BY <2>4, <2>5, <1>4 DEF Strict
    <3> QED
      BY <3>1, <2>3, <1>5
  <2> QED
    BY <2>1, <2>2, <2>7, <2>8
<1>12. \A doc \in Docs(rs) : Min(Of(rs, doc)) \in Nat /\ rs[Min(Of(rs, doc))].doc = doc
  BY DocumentRecords DEF Of
<1>13. \A doc \in Docs(once) : Min(Of(once, doc)) \in Nat
  BY <1>3, DocumentRecords
<1>14. ASSUME NEW a \in Docs(rs), NEW b \in Docs(rs), a \in Docs(once), b \in Docs(once)
       PROVE  Min(Of(rs, a)) < Min(Of(rs, b)) <=> Min(Of(once, a)) < Min(Of(once, b))
  <2>1. Min(Of(rs, a)) < Min(Of(rs, b)) => Min(Of(once, a)) < Min(Of(once, b))
    BY <1>11, <1>14
  <2>2. Min(Of(rs, b)) < Min(Of(rs, a)) => Min(Of(once, b)) < Min(Of(once, a))
    BY <1>11, <1>14
  <2>3. a # b => Min(Of(rs, a)) # Min(Of(rs, b))
    BY <1>12
  <2>4. /\ Min(Of(rs, a)) \in Nat /\ Min(Of(rs, b)) \in Nat
        /\ Min(Of(once, a)) \in Nat /\ Min(Of(once, b)) \in Nat
    BY <1>12, <1>13, <1>14
  <2> QED
    BY <2>1, <2>2, <2>3, <2>4
<1>15. \A c \in Places(rs) \X Places(rs) : c \in PlaceOrder(once) <=> c \in PlaceOrder(rs)
  <2> TAKE c \in Places(rs) \X Places(rs)
  <2>1. c[1] \in Places(rs) /\ c[2] \in Places(rs)
    OBVIOUS
  <2>2. Min(Of(rs, c[1][1])) < Min(Of(rs, c[2][1])) <=> Min(Of(once, c[1][1])) < Min(Of(once, c[2][1]))
    BY <2>1, <1>10, <1>14
  <2> QED
    BY <2>2, <1>9 DEF PlaceOrder
<1>16. PlaceOrder(once) = PlaceOrder(rs)
  BY <1>15, <1>9 DEF PlaceOrder
<1> QED
  BY <1>1, <1>9, <1>16

(* Then filing a second time moves nothing.                                 *)
LEMMA FiledOnce ==
    ASSUME NEW rs, IsRecords(rs), HitsTyped, AllPairs(ReattributedOf(rs)) = AllPairs(rs)
    PROVE  ReattributedOf(ReattributedOf(rs)) = ReattributedOf(rs)
<1>1. PICK once : once = ReattributedOf(rs)
  OBVIOUS
<1>2. PICK places : places = Listed(Places(rs), PlaceOrder(rs))
  OBVIOUS
<1>3. /\ IsRecords(once) /\ DOMAIN places = DOMAIN once
      /\ \A n \in DOMAIN once : /\ places[n] = <<once[n].doc, once[n].page>>
                                /\ once[n].fields = FieldsOn(rs, once[n].doc, once[n].page)
  BY <1>1, <1>2, FiledShape
<1>4. Listed(Places(once), PlaceOrder(once)) = places
  BY <1>1, <1>2, PlacesSettled
<1>5. ASSUME NEW doc, NEW page PROVE FieldsOn(once, doc, page) = FieldsOn(rs, doc, page)
  <2>1. Pairs(once, doc) = Pairs(rs, doc)
    BY <1>1, PairsKept
  <2>2. \A x \in Pairs(rs, doc) : PageOf(once, doc, x) = PageOf(rs, doc, x)
    BY <1>1, ClaimSettled
  <2>3. On(once, doc, page) = On(rs, doc, page)
    BY <2>1, <2>2 DEF On
  <2> DEFINE D == {x[1] : x \in On(rs, doc, page)}
             g == FieldsOn(once, doc, page)
             h == FieldsOn(rs, doc, page)
  <2>4. /\ g = [f \in D |-> g[f]]
        /\ \A f \in D : /\ <<f, Norm[g[f]]>> \in On(rs, doc, page)
                        /\ g[f] = ValueOf(once, doc, <<f, Norm[g[f]]>>)
    <3>1. IsRecords(once)
      BY <1>3
    <3>2. g = [f \in {x[1] : x \in On(once, doc, page)} |-> g[f]] /\ DOMAIN g = {x[1] : x \in On(once, doc, page)}
      BY FieldsStand
    <3>3. \A f \in DOMAIN g : /\ <<f, Norm[g[f]]>> \in On(once, doc, page)
                              /\ g[f] = ValueOf(once, doc, <<f, Norm[g[f]]>>)
      BY <3>1, ValuesStand
    <3> HIDE DEF g
    <3> QED
      BY <3>2, <3>3, <2>3
  <2>5. h = [f \in D |-> h[f]]
    BY FieldsStand
  <2>6. \A x \in On(rs, doc, page) : h[x[1]] = ValueOf(once, doc, x)
    BY <1>1, ClaimSettled DEF On
  <2>7. \A f \in D : g[f] = h[f]
    BY <2>4, <2>6
  <2> HIDE DEF D, g, h
  <2>8. g = h
    BY <2>4, <2>5, <2>7
  <2> QED
    BY <2>8 DEF g, h
<1>6. ReattributedOf(once) =
          [n \in DOMAIN once |-> [doc |-> once[n].doc, page |-> once[n].page, fields |-> once[n].fields]]
  <2>1. ReattributedOf(once) =
            [n \in DOMAIN places |-> [doc |-> places[n][1], page |-> places[n][2],
                                     fields |-> FieldsOn(once, places[n][1], places[n][2])]]
    BY <1>4 DEF ReattributedOf
  <2> QED
    BY <1>3, <1>5, <2>1
<1>7. once = [n \in DOMAIN once |-> [doc |-> once[n].doc, page |-> once[n].page, fields |-> once[n].fields]]
  <2>1. once = [n \in DOMAIN once |-> once[n]]
    BY <1>3, RecordsShape
  <2>2. \A n \in DOMAIN once : once[n] = [doc |-> once[n].doc, page |-> once[n].page, fields |-> once[n].fields]
    BY <1>3 DEF IsRecords, IsRecord
  <2> QED
    BY <2>1, <2>2
<1> QED
  BY <1>1, <1>6, <1>7

(* So the pages are settled, wherever records are typed.                    *)
LEMMA PagesSettle ==
    ASSUME IsRecords(records), texts \in TextLayers
    PROVE  SettledPages
<1>1. HitsTyped
  BY TextsTyped
<1>2. AllPairs(ReattributedOf(records)) = AllPairs(records) =>
          ReattributedOf(ReattributedOf(records)) = ReattributedOf(records)
  BY <1>1, FiledOnce
<1> QED
  BY <1>2 DEF SettledPages

-----------------------------------------------------------------------------
(* Keys, and the order of the reads.                                       *)
LEMMA KeyShape ==
    ASSUME NEW k \in Keys
    PROVE  /\ k = <<k[1], k[2]>> /\ k[1] \in {"borrower", "co_borrower", "guarantor"} /\ k[2] \in Nat
           /\ k[1] = "borrower" => k[2] = 0
           /\ k[1] # "borrower" => k[2] \in Nat \ {0}
  BY DEF Keys

(* The field of a key and a part has that key and that part.                *)
LEMMA FieldOfKey ==
    ASSUME NEW k \in Keys, NEW part \in Parts
    PROVE  /\ FieldAt(k, part) \in SchemaFields /\ FieldAt(k, part) # Amount
           /\ KeyOf(FieldAt(k, part)) = k /\ FieldAt(k, part)[3] = part
           /\ FieldAt(k, part)[1] = k[1] /\ FieldAt(k, part)[2] = k[2]
<1>1. FieldAt(k, part) = <<k[1], k[2], part>>
  BY DEF FieldAt
<1>2. <<k[1], k[2], part>> \in SchemaFields
  BY KeyShape DEF SchemaFields, Keys
<1>3. part # "value"
  BY DEF Parts
<1> QED
  BY <1>1, <1>2, <1>3, KeyShape DEF KeyOf, Amount

(* A field other than the amount is one of a key and a part.                *)
LEMMA FieldShape ==
    ASSUME NEW f \in SchemaFields, f # Amount
    PROVE  /\ KeyOf(f) \in Keys /\ f[3] \in Parts /\ f = FieldAt(KeyOf(f), f[3])
           /\ KeyOf(f)[1] = f[1] /\ KeyOf(f)[2] = f[2]
  BY DEF SchemaFields, Keys, KeyOf, FieldAt

(* The amount is the field of nobody.                                       *)
LEMMA AmountShape == Amount \in SchemaFields /\ ~IsName(Amount) /\ KeyOf(Amount) \notin Keys /\ Amount[3] \notin Parts
  BY DEF Amount, SchemaFields, IsName, KeyOf, Keys, Parts

(* A name is the name field of its key.                                     *)
LEMMA NameField ==
    ASSUME NEW f \in SchemaFields, IsName(f)
    PROVE  f # Amount /\ KeyOf(f) \in Keys /\ f = NameOf(KeyOf(f))
  BY FieldShape, AmountShape DEF IsName, NameOf

(* The name field of a key is a name, with that key.                        *)
LEMMA NameOfKey ==
    ASSUME NEW k \in Keys
    PROVE  NameOf(k) \in SchemaFields /\ IsName(NameOf(k)) /\ KeyOf(NameOf(k)) = k /\ NameOf(k) # Amount
  BY FieldOfKey DEF NameOf, IsName, Parts

(* Roles and numbers are compared as naturals.                              *)
LEMMA RoleNumbers ==
    ASSUME NEW k \in Keys
    PROVE  /\ RoleOrder[k[1]] \in Nat /\ Padded(k[2]) \in Nat
           /\ k[1] = "borrower" => RoleOrder[k[1]] = 0
           /\ k[1] = "co_borrower" => RoleOrder[k[1]] = 1
           /\ k[1] = "guarantor" => RoleOrder[k[1]] = 2
<1>1. /\ k[1] = "borrower" => RoleOrder[k[1]] = 0
      /\ k[1] = "co_borrower" => RoleOrder[k[1]] = 1
      /\ k[1] = "guarantor" => RoleOrder[k[1]] = 2
  BY DEF RoleOrder
<1>2. Padded(k[2]) \in Nat
  BY KeyShape DEF Padded
<1> QED
  BY <1>1, <1>2, KeyShape

(* Before is a strict total order of the keys.                              *)
LEMMA KeysOrdered ==
    /\ \A k \in Keys : ~Before(k, k)
    /\ \A j, k, l \in Keys : Before(j, k) /\ Before(k, l) => Before(j, l)
    /\ \A j, k \in Keys : j # k => Before(j, k) \/ Before(k, j)
<1> DEFINE a(k) == RoleOrder[k[1]]
           b(k) == Padded(k[2])
<1>1. \A k \in Keys : a(k) \in Nat /\ b(k) \in Nat /\ k[2] \in Nat
  BY RoleNumbers, KeyShape
<1>2. \A j, k \in Keys : j[1] = k[1] <=> a(j) = a(k)
  BY RoleNumbers, KeyShape
<1>3. \A j, k : Before(j, k) <=> \/ a(j) < a(k)
                                 \/ j[1] = k[1] /\ b(j) < b(k)
                                 \/ j[1] = k[1] /\ b(j) = b(k) /\ j[2] < k[2]
  BY DEF Before
<1> HIDE DEF a, b
<1>4. \A k \in Keys : ~Before(k, k)
  BY <1>1, <1>3
<1>5. \A j, k, l \in Keys : Before(j, k) /\ Before(k, l) => Before(j, l)
  BY <1>1, <1>2, <1>3
<1>6. ASSUME NEW j \in Keys, NEW k \in Keys, j # k PROVE Before(j, k) \/ Before(k, j)
  <2>1. j[1] # k[1] \/ j[2] # k[2]
    BY <1>6, KeyShape
  <2> QED
    BY <1>1, <1>2, <1>3, <2>1
<1> QED
  BY <1>4, <1>5, <1>6

(* A place to read from: a number of a record and a key.                    *)
Spots == Nat \X Keys

(* What a spot is made of.                                                  *)
LEMMA SpotShape ==
    ASSUME NEW x \in Spots PROVE x = <<x[1], x[2]>> /\ x[1] \in Nat /\ x[2] \in Keys
  BY DEF Spots

(* Sooner is a strict total order of the spots.                             *)
LEMMA SoonerOrder ==
    /\ \A x \in Spots : ~Sooner(x, x)
    /\ \A x, y, z \in Spots : Sooner(x, y) /\ Sooner(y, z) => Sooner(x, z)
    /\ \A x, y \in Spots : x # y => Sooner(x, y) \/ Sooner(y, x)
<1>1. \A x \in Spots : ~Sooner(x, x)
  BY SpotShape, KeysOrdered DEF Sooner
<1>2. ASSUME NEW x \in Spots, NEW y \in Spots, NEW z \in Spots, Sooner(x, y), Sooner(y, z)
      PROVE  Sooner(x, z)
  <2>1. Before(x[2], y[2]) /\ Before(y[2], z[2]) => Before(x[2], z[2])
    BY SpotShape, KeysOrdered
  <2>2. x[1] \in Nat /\ y[1] \in Nat /\ z[1] \in Nat
    BY SpotShape
  <2> QED
    BY <1>2, <2>1, <2>2 DEF Sooner
<1>3. ASSUME NEW x \in Spots, NEW y \in Spots, x # y PROVE Sooner(x, y) \/ Sooner(y, x)
  <2>1. x[2] # y[2] => Before(x[2], y[2]) \/ Before(y[2], x[2])
    BY SpotShape, KeysOrdered
  <2>2. x[1] \in Nat /\ y[1] \in Nat /\ (x[1] # y[1] \/ x[2] # y[2])
    BY SpotShape, <1>3
  <2> QED
    BY <2>1, <2>2 DEF Sooner
<1> QED
  BY <1>1, <1>2, <1>3

(* Earliest picks the one that is sooner than the others.                   *)
LEMMA EarliestIs ==
    ASSUME NEW xs \in SUBSET Spots, IsFiniteSet(xs), xs # {}
    PROVE  /\ Earliest(xs) \in xs /\ \A y \in xs \ {Earliest(xs)} : Sooner(Earliest(xs), y)
           /\ \A x \in xs : (\A y \in xs \ {x} : Sooner(x, y)) => x = Earliest(xs)
<1> DEFINE R == {c \in xs \X xs : Sooner(c[1], c[2])}
<1>1. \A x, y \in xs : <<x, y>> \in R <=> Sooner(x, y)
  OBVIOUS
<1> HIDE DEF R
<1>2. Strict(xs, R)
  <2>1. \A x \in xs : <<x, x>> \notin R
    BY <1>1, SoonerOrder
  <2>2. \A x, y, z \in xs : <<x, y>> \in R /\ <<y, z>> \in R => <<x, z>> \in R
    BY <1>1, SoonerOrder
  <2> QED
    BY <2>1, <2>2 DEF Strict
<1>3. PICK x \in xs : \A y \in xs : <<y, x>> \notin R
  BY <1>2, FirstOf
<1>4. \A y \in xs \ {x} : Sooner(x, y)
  BY <1>1, <1>3, SoonerOrder
<1>5. Earliest(xs) \in xs /\ \A y \in xs \ {Earliest(xs)} : Sooner(Earliest(xs), y)
  BY <1>4 DEF Earliest
<1>6. ASSUME NEW z \in xs, \A y \in xs \ {z} : Sooner(z, y), z # Earliest(xs) PROVE FALSE
  <2>1. Sooner(z, Earliest(xs)) /\ Sooner(Earliest(xs), z)
    BY <1>5, <1>6
  <2>2. z \in Spots /\ Earliest(xs) \in Spots
    BY <1>5
  <2> QED
    BY <2>1, <2>2, SoonerOrder
<1> QED
  BY <1>5, <1>6

-----------------------------------------------------------------------------
(* Reads, and the people they are of.                                      *)
LEMMA ReadShape ==
    ASSUME NEW rs, IsRecords(rs), NEW x \in Reads(rs)
    PROVE  /\ x \in Spots /\ x = <<x[1], x[2]>> /\ x[1] \in DOMAIN rs /\ x[2] \in Keys
           /\ x[2] \in Named(rs[x[1]]) /\ NameOf(x[2]) \in DOMAIN rs[x[1]].fields
           /\ NameAt(rs, x) \in DOMAIN Length
<1>1. PICK i \in DOMAIN rs : x \in {i} \X Named(rs[i])
  BY DEF Reads
<1>2. x = <<x[1], x[2]>> /\ x[1] = i /\ x[2] \in Named(rs[i])
  BY <1>1
<1>3. PICK f \in DOMAIN rs[i].fields : IsName(f) /\ x[2] = KeyOf(f)
  BY <1>2 DEF Named
<1>4. f \in SchemaFields /\ rs[i].fields[f] \in DOMAIN Length
  BY FieldsTyped
<1>5. x[2] \in Keys /\ NameOf(x[2]) = f
  BY <1>3, <1>4, NameField
<1>6. i \in Nat
  BY RecordsShape
<1> QED
  BY <1>2, <1>3, <1>4, <1>5, <1>6 DEF Spots, NameAt

(* A name on a record is a read.                                            *)
LEMMA ReadIs ==
    ASSUME NEW rs, IsRecords(rs), NEW i \in DOMAIN rs, NEW f \in DOMAIN rs[i].fields, IsName(f)
    PROVE  <<i, KeyOf(f)>> \in Reads(rs) /\ NameAt(rs, <<i, KeyOf(f)>>) = rs[i].fields[f]
<1>1. KeyOf(f) \in Named(rs[i])
  BY DEF Named
<1>2. NameOf(KeyOf(f)) = f
  BY FieldsTyped, NameField
<1> QED
  BY <1>1, <1>2 DEF Reads, NameAt

(* A key whose name is on a record is read there.                           *)
LEMMA ReadOfKey ==
    ASSUME NEW rs, IsRecords(rs), NEW i \in DOMAIN rs, NEW k \in Keys, NameOf(k) \in DOMAIN rs[i].fields
    PROVE  <<i, k>> \in Reads(rs) /\ NameAt(rs, <<i, k>>) = rs[i].fields[NameOf(k)]
  BY ReadIs, NameOfKey

(* There are finitely many reads.                                           *)
LEMMA ReadsFinite ==
    ASSUME NEW rs, IsRecords(rs)
    PROVE  IsFiniteSet(Reads(rs)) /\ Reads(rs) \in SUBSET Spots
<1> DEFINE all == [i \in DOMAIN rs |-> {i} \X Named(rs[i])]
<1>1. ASSUME NEW i \in DOMAIN rs PROVE IsFiniteSet({i} \X Named(rs[i]))
  <2> DEFINE S == {g \in DOMAIN rs[i].fields : IsName(g)}
             key == [f \in S |-> KeyOf(f)]
  <2>1. IsFiniteSet(DOMAIN rs[i].fields) /\ S \in SUBSET DOMAIN rs[i].fields
    BY FieldsTyped
  <2>2. IsFiniteSet(S)
    BY <2>1, FS_Subset
  <2>3. IsFiniteSet({key[f] : f \in S})
    BY <2>2, FiniteRange
  <2>4. IsFiniteSet(Named(rs[i]))
    BY <2>3 DEF Named
  <2> QED
    BY <2>4, FS_Singleton, FS_Product
<1>2. IsFiniteSet(DOMAIN rs)
  BY RecordsShape
<1>3. IsFiniteSet({all[i] : i \in DOMAIN rs})
  <2>1. all = [i \in DOMAIN rs |-> all[i]]
    OBVIOUS
  <2> HIDE DEF all
  <2> QED
    BY <1>2, <2>1, FiniteRange
<1>4. \A T \in {all[i] : i \in DOMAIN rs} : IsFiniteSet(T)
  BY <1>1
<1>5. IsFiniteSet(UNION {all[i] : i \in DOMAIN rs})
  BY <1>3, <1>4, FS_UNION
<1>6. IsFiniteSet(Reads(rs))
  BY <1>5 DEF Reads
<1> QED
  BY <1>6, ReadShape

(* Of some reads one has none of them before it.                            *)
LEMMA FirstRead ==
    ASSUME NEW rs, IsRecords(rs), NEW B \in SUBSET Reads(rs), B # {}
    PROVE  \E x \in B : \A y \in Reads(rs) : Sooner(y, x) => y \notin B
<1>1. IsFiniteSet(B) /\ B \in SUBSET Spots
  BY ReadsFinite, FS_Subset
<1>2. PICK x \in B : \A y \in B \ {x} : Sooner(x, y)
  BY <1>1, EarliestIs
<1>3. \A y \in B : ~Sooner(y, x)
  BY <1>1, <1>2, SoonerOrder
<1> QED
  BY <1>3

(* Likeness is symmetric, and a name that is like any is like itself.       *)
LEMMA SameNames == \A a, b : Same(a, b) => Same(b, a) /\ Same(a, a) /\ Same(b, b)
<1>1. SamePairs \subseteq Latin \X Latin
  BY DossierAssumption
<1>2. \A a, b : Same(a, b) => a \in Latin /\ b \in Latin
  BY <1>1 DEF Same
<1>3. \A a \in Latin : Same(a, a)
  BY DEF Same
<1>4. \A a, b : Same(a, b) => Same(b, a)
  BY DEF Same
<1> QED
  BY <1>2, <1>3, <1>4

(* A read is like earlier reads only.                                       *)
LEMMA LikeSooner ==
    ASSUME NEW rs, IsRecords(rs), NEW x
    PROVE  Like(rs, x) \in SUBSET Reads(rs) /\ IsFiniteSet(Like(rs, x)) /\ \A y \in Like(rs, x) : Sooner(y, x)
<1>1. Like(rs, x) \in SUBSET Reads(rs) /\ \A y \in Like(rs, x) : Sooner(y, x)
  BY DEF Like
<1> QED
  BY <1>1, ReadsFinite, FS_Subset

(* The reads up to one are told apart by what comes before each.            *)
Upto(rs, x) == {y \in Reads(rs) : y = x \/ Sooner(y, x)}
Told(rs, x, g) == g = [y \in Upto(rs, x) |-> Joins(rs, g, y)]

(* Whom a read joins depends on earlier reads only.                         *)
LEMMA JoinsSame ==
    ASSUME NEW rs, NEW x, NEW f, NEW g, \A y \in Like(rs, x) : f[y] = g[y]
    PROVE  Joins(rs, f, x) = Joins(rs, g, x)
<1>1. {f[y] : y \in Like(rs, x)} = {g[y] : y \in Like(rs, x)}
  OBVIOUS
<1> QED
  BY <1>1 DEF Joins

(* The reads like x are among the reads up to x.                            *)
LEMMA LikeUpto ==
    ASSUME NEW rs, IsRecords(rs), NEW x \in Reads(rs), NEW y \in Upto(rs, x)
    PROVE  Like(rs, y) \subseteq Upto(rs, x) /\ y \in Reads(rs)
<1>1. y \in Reads(rs) /\ \A z \in Like(rs, y) : z \in Reads(rs) /\ Sooner(z, y)
  BY LikeSooner DEF Upto
<1>2. \A z \in Like(rs, y) : Sooner(z, x)
  <2> TAKE z \in Like(rs, y)
  <2>1. x \in Spots /\ y \in Spots /\ z \in Spots
    BY <1>1, ReadsFinite
  <2>2. y = x \/ Sooner(y, x)
    BY DEF Upto
  <2> QED
    BY <2>1, <2>2, <1>1, SoonerOrder
<1> QED
  BY <1>1, <1>2 DEF Upto

(* Two accounts of who is who agree where both go.                          *)
LEMMA ToldAlike ==
    ASSUME NEW rs, IsRecords(rs), NEW x \in Reads(rs), NEW z \in Reads(rs),
           NEW f, Told(rs, x, f), NEW g, Told(rs, z, g), NEW y \in Upto(rs, x) \cap Upto(rs, z)
    PROVE  f[y] = g[y]
<1> DEFINE B == {w \in Upto(rs, x) \cap Upto(rs, z) : f[w] # g[w]}
<1> SUFFICES ASSUME B # {} PROVE FALSE
  OBVIOUS
<1>1. B \in SUBSET Reads(rs)
  BY DEF Upto
<1>2. PICK w \in B : \A v \in Reads(rs) : Sooner(v, w) => v \notin B
  BY <1>1, FirstRead
<1>3. \A v \in Like(rs, w) : v \in Reads(rs) /\ Sooner(v, w) /\ v \in Upto(rs, x) /\ v \in Upto(rs, z)
  BY LikeSooner, LikeUpto
<1>4. \A v \in Like(rs, w) : f[v] = g[v]
  BY <1>2, <1>3
<1>5. Joins(rs, f, w) = Joins(rs, g, w)
  BY <1>4, JoinsSame
<1>6. f[w] = Joins(rs, f, w) /\ g[w] = Joins(rs, g, w)
  BY DEF Told
<1> QED
  BY <1>5, <1>6

(* There is an account up to every read, by the order of the reads.         *)
LEMMA ToldExists ==
    ASSUME NEW rs, IsRecords(rs), NEW x \in Reads(rs)
    PROVE  \E g : Told(rs, x, g)
<1> DEFINE B == {w \in Reads(rs) : ~\E g : Told(rs, w, g)}
<1> SUFFICES ASSUME B # {} PROVE FALSE
  OBVIOUS
<1>1. PICK w \in B : \A v \in Reads(rs) : Sooner(v, w) => v \notin B
  <2>1. B \in SUBSET Reads(rs)
    OBVIOUS
  <2> QED
    BY <2>1, FirstRead
<1>2. \A v \in Reads(rs) : Sooner(v, w) => \E g : Told(rs, v, g)
  BY <1>1
<1> DEFINE told(v) == CHOOSE g : Told(rs, v, g)
           before == [v \in Upto(rs, w) \ {w} |-> told(v)[v]]
           whole == [v \in Upto(rs, w) |-> IF v = w THEN Joins(rs, before, w) ELSE before[v]]
<1>3. \A v \in Upto(rs, w) \ {w} : v \in Reads(rs) /\ Sooner(v, w) /\ Told(rs, v, told(v))
  BY <1>2 DEF Upto
<1>4. ASSUME NEW v \in Upto(rs, w) PROVE whole[v] = Joins(rs, whole, v)
  <2>1. w \in Reads(rs) /\ v \in Reads(rs)
    BY DEF Upto
  <2>2. ASSUME NEW u \in Like(rs, v) PROVE u \in Upto(rs, w) \ {w} /\ whole[u] = before[u]
    <3>1. u \in Upto(rs, w) /\ Sooner(u, v) /\ u \in Reads(rs)
      BY <2>1, LikeUpto, LikeSooner
    <3>2. u # w
      <4>1. v \in Spots /\ w \in Spots /\ (v = w \/ Sooner(v, w))
        BY <2>1, ReadsFinite DEF Upto
      <4> QED
        BY <3>1, <4>1, SoonerOrder
    <3> QED
      BY <3>1, <3>2
  <2>3. CASE v = w
    <3>1. Joins(rs, whole, w) = Joins(rs, before, w)
      BY <2>2, <2>3, JoinsSame
    <3> QED
      BY <2>3, <3>1
  <2>4. CASE v # w
    <3>1. v \in Upto(rs, w) \ {w} /\ Told(rs, v, told(v))
      BY <2>4, <1>3
    <3>2. whole[v] = told(v)[v]
      BY <3>1
    <3>3. v \in Upto(rs, v)
      BY <2>1 DEF Upto
    <3>4. told(v)[v] = Joins(rs, told(v), v)
      BY <3>1, <3>3 DEF Told
    <3>5. ASSUME NEW u \in Like(rs, v) PROVE told(v)[u] = whole[u]
      <4>1. u \in Upto(rs, w) \ {w} /\ whole[u] = told(u)[u] /\ Told(rs, u, told(u)) /\ u \in Reads(rs)
        BY <2>2, <1>3
      <4>2. u \in Upto(rs, v) /\ u \in Upto(rs, u)
        BY <2>1, <3>3, <4>1, LikeUpto DEF Upto
      <4> HIDE DEF told, whole
      <4>3. told(v)[u] = told(u)[u]
        BY <2>1, <3>1, <4>1, <4>2, ToldAlike
      <4> QED
        BY <4>1, <4>3
    <3> HIDE DEF told, whole
    <3>6. Joins(rs, told(v), v) = Joins(rs, whole, v)
      BY <3>5, JoinsSame
    <3> QED
      BY <3>2, <3>4, <3>6
  <2> QED
    BY <2>3, <2>4
<1>5. Told(rs, w, whole)
  BY <1>4 DEF Told
<1> QED
  BY <1>5

(* PersonOf is the account of all reads: the recursion has its one value.  *)
LEMMA PersonIs ==
    ASSUME NEW rs, IsRecords(rs)
    PROVE  PersonOf(rs) = [x \in Reads(rs) |-> Joins(rs, PersonOf(rs), x)]
<1> DEFINE told(v) == CHOOSE g : Told(rs, v, g)
           whole == [v \in Reads(rs) |-> told(v)[v]]
<1>1. ASSUME NEW v \in Reads(rs) PROVE whole[v] = Joins(rs, whole, v)
  <2>1. Told(rs, v, told(v))
    BY ToldExists
  <2>2. v \in Upto(rs, v)
    BY DEF Upto
  <2>3. told(v)[v] = Joins(rs, told(v), v)
    BY <2>1, <2>2 DEF Told
  <2>4. ASSUME NEW u \in Like(rs, v) PROVE told(v)[u] = whole[u]
    <3>1. u \in Reads(rs) /\ u \in Upto(rs, v) /\ u \in Upto(rs, u)
      BY <2>2, LikeUpto, LikeSooner DEF Upto
    <3>2. Told(rs, u, told(u)) /\ whole[u] = told(u)[u]
      BY <3>1, ToldExists
    <3> HIDE DEF told, whole
    <3> QED
      BY <2>1, <3>1, <3>2, ToldAlike
  <2>5. whole[v] = told(v)[v]
    OBVIOUS
  <2> HIDE DEF told, whole
  <2> QED
    BY <2>3, <2>4, <2>5, JoinsSame
<1>2. whole = [v \in Reads(rs) |-> Joins(rs, whole, v)]
  BY <1>1
<1> HIDE DEF whole
<1>3. PersonOf(rs) = CHOOSE person : person = [x \in Reads(rs) |-> Joins(rs, person, x)]
  BY DEF PersonOf
<1> QED
  BY <1>2, <1>3

(* PersonOf tells of every read.                                            *)
LEMMA PersonDomain ==
    ASSUME NEW rs, IsRecords(rs) PROVE DOMAIN PersonOf(rs) = Reads(rs)
  BY PersonIs

(* A person is the first read of the person, and is of that person.         *)
LEMMA PersonTyped ==
    ASSUME NEW rs, IsRecords(rs), NEW person, person = PersonOf(rs), NEW z \in Reads(rs)
    PROVE  /\ person[z] \in Reads(rs) /\ person[person[z]] = person[z]
           /\ person[z] = z \/ Sooner(person[z], z)
           /\ Like(rs, z) = {} => person[z] = z
           /\ Like(rs, z) # {} => \E y \in Like(rs, z) : person[z] = person[y]
<1>1. person = [x \in Reads(rs) |-> Joins(rs, person, x)]
  BY PersonIs
<1>2. ASSUME NEW x \in Reads(rs)
      PROVE  /\ Like(rs, x) = {} => person[x] = x
             /\ Like(rs, x) # {} => person[x] = Earliest({person[y] : y \in Like(rs, x)})
  BY <1>1 DEF Joins
<1> DEFINE Good(x) == /\ person[x] \in Reads(rs) /\ person[person[x]] = person[x]
                      /\ person[x] = x \/ Sooner(person[x], x)
                      /\ Like(rs, x) # {} => \E y \in Like(rs, x) : person[x] = person[y]
           B == {x \in Reads(rs) : ~Good(x)}
<1>3. ASSUME B # {} PROVE FALSE
  <2>1. PICK x \in B : \A y \in Reads(rs) : Sooner(y, x) => y \notin B
    <3>1. B \in SUBSET Reads(rs)
      OBVIOUS
    <3> HIDE DEF B
    <3> QED
      BY <1>3, <3>1, FirstRead
  <2>2. x \in Reads(rs) /\ ~Good(x)
    OBVIOUS
  <2>3. \A y \in Like(rs, x) : y \in Reads(rs) /\ Sooner(y, x)
    BY LikeSooner
  <2>4. \A y \in Like(rs, x) : Good(y)
    BY <2>1, <2>3
  <2>5. CASE Like(rs, x) = {}
    BY <2>2, <2>5, <1>2
  <2>6. CASE Like(rs, x) # {}
    <3> DEFINE S == {person[y] : y \in Like(rs, x)}
               f == [y \in Like(rs, x) |-> person[y]]
    <3>1. S \subseteq Reads(rs)
      BY <2>4
    <3>2. IsFiniteSet(S) /\ S \in SUBSET Spots
      BY <3>1, ReadsFinite, FS_Subset
    <3>3. S # {}
      BY <2>6
    <3>4. Earliest(S) \in S
      BY <3>2, <3>3, EarliestIs
    <3>5. PICK y \in Like(rs, x) : person[x] = person[y]
      BY <3>4, <1>2, <2>2, <2>6
    <3>6. person[y] = y \/ Sooner(person[y], y)
      BY <2>4
    <3>7. Sooner(person[y], x)
      <4>1. x \in Spots /\ y \in Spots /\ person[y] \in Spots
        BY <2>2, <2>3, <2>4, ReadsFinite
      <4> QED
        BY <4>1, <3>6, <2>3, SoonerOrder
    <3> QED
      BY <2>2, <2>4, <3>5, <3>7
  <2> QED
    BY <2>5, <2>6
<1>4. \A x \in Reads(rs) : Good(x)
  BY <1>3
<1> HIDE DEF B
<1> QED
  BY <1>2, <1>4

(* The first read of a person is like no read before it.                   *)
LEMMA FounderAlone ==
    ASSUME NEW rs, IsRecords(rs), NEW person, person = PersonOf(rs), NEW x \in Reads(rs), person[x] = x
    PROVE  Like(rs, x) = {}
<1> SUFFICES ASSUME Like(rs, x) # {} PROVE FALSE
  OBVIOUS
<1>1. PICK y \in Like(rs, x) : person[x] = person[y]
  BY PersonTyped
<1>2. y \in Reads(rs) /\ Sooner(y, x)
  BY LikeSooner
<1>3. x = y \/ Sooner(x, y)
  BY <1>1, <1>2, PersonTyped
<1>4. x \in Spots /\ y \in Spots
  BY <1>2, ReadsFinite
<1> QED
  BY <1>2, <1>3, <1>4, SoonerOrder

(* Whatever set of names is closed under likeness has all the names of a    *)
(* person or none of them.                                                  *)
Whole(ns, names) == ns \subseteq names /\ \A a \in ns, b \in names : Same(a, b) => b \in ns

(* A set that is closed under likeness has all names of a person or none.  *)
LEMMA OnePerson ==
    ASSUME NEW rs, IsRecords(rs), NEW person, person = PersonOf(rs), NEW names, NamesIn(rs) \subseteq names,
           NEW ns, Whole(ns, names), NEW x \in Reads(rs)
    PROVE  NameAt(rs, x) \in ns <=> NameAt(rs, person[x]) \in ns
<1> DEFINE B == {z \in Reads(rs) : ~(NameAt(rs, z) \in ns <=> NameAt(rs, person[z]) \in ns)}
<1>1. ASSUME B # {} PROVE FALSE
  <2>1. PICK z \in B : \A y \in Reads(rs) : Sooner(y, z) => y \notin B
    <3>1. B \in SUBSET Reads(rs)
      OBVIOUS
    <3> HIDE DEF B
    <3> QED
      BY <1>1, <3>1, FirstRead
  <2>2. z \in Reads(rs)
    OBVIOUS
  <2>3. Like(rs, z) # {}
    BY <2>2, PersonTyped
  <2>4. PICK y \in Like(rs, z) : person[z] = person[y]
    BY <2>2, <2>3, PersonTyped
  <2>5. y \in Reads(rs) /\ Sooner(y, z) /\ Same(NameAt(rs, z), NameAt(rs, y))
    BY DEF Like
  <2>6. NameAt(rs, y) \in names /\ NameAt(rs, z) \in names
    BY <2>2, <2>5 DEF NamesIn
  <2>7. NameAt(rs, y) \in ns <=> NameAt(rs, z) \in ns
    BY <2>5, <2>6, SameNames DEF Whole
  <2>8. NameAt(rs, y) \in ns <=> NameAt(rs, person[y]) \in ns
    BY <2>1, <2>5
  <2> QED
    BY <2>1, <2>4, <2>7, <2>8
<1> QED
  BY <1>1

(* Where likeness is clear, it is transitive.                               *)
Clear(names) == \A a, b, c \in names : Same(a, b) /\ Same(b, c) => Same(a, c)

(* Where likeness is clear, a read is like the first read of its person.    *)
LEMMA LikeFounder ==
    ASSUME NEW rs, IsRecords(rs), NEW person, person = PersonOf(rs), Clear(NamesIn(rs)), NEW x \in Reads(rs)
    PROVE  person[x] = x \/ Same(NameAt(rs, x), NameAt(rs, person[x]))
<1> DEFINE B == {z \in Reads(rs) : ~(person[z] = z \/ Same(NameAt(rs, z), NameAt(rs, person[z])))}
<1>1. ASSUME B # {} PROVE FALSE
  <2>1. PICK z \in B : \A y \in Reads(rs) : Sooner(y, z) => y \notin B
    <3>1. B \in SUBSET Reads(rs)
      OBVIOUS
    <3> HIDE DEF B
    <3> QED
      BY <1>1, <3>1, FirstRead
  <2>2. z \in Reads(rs) /\ person[z] # z
    OBVIOUS
  <2>3. PICK y \in Like(rs, z) : person[z] = person[y]
    BY <2>2, PersonTyped
  <2>4. y \in Reads(rs) /\ Sooner(y, z) /\ Same(NameAt(rs, z), NameAt(rs, y))
    BY DEF Like
  <2>5. person[y] \in Reads(rs)
    BY <2>4, PersonTyped
  <2>6. NameAt(rs, y) \in NamesIn(rs) /\ NameAt(rs, z) \in NamesIn(rs) /\ NameAt(rs, person[y]) \in NamesIn(rs)
    BY <2>2, <2>4, <2>5 DEF NamesIn
  <2>7. person[y] = y \/ Same(NameAt(rs, y), NameAt(rs, person[y]))
    BY <2>1, <2>4
  <2> QED
    BY <2>1, <2>3, <2>4, <2>6, <2>7 DEF Clear
<1> QED
  BY <1>1

(* Where likeness is clear, people are told apart just as names are.       *)
LEMMA OneEach ==
    ASSUME NEW rs, IsRecords(rs), NEW person, person = PersonOf(rs), Clear(NamesIn(rs)),
           NEW x \in Reads(rs), NEW y \in Reads(rs)
    PROVE  x = y \/ Same(NameAt(rs, x), NameAt(rs, y)) <=> person[x] = person[y]
<1>1. PICK p \in Reads(rs), q \in Reads(rs) : p = person[x] /\ q = person[y] /\ person[p] = p /\ person[q] = q
  BY PersonTyped
<1>2. (x = p \/ Same(NameAt(rs, x), NameAt(rs, p))) /\ (y = q \/ Same(NameAt(rs, y), NameAt(rs, q)))
  BY <1>1, LikeFounder
<1>3. /\ NameAt(rs, x) \in NamesIn(rs) /\ NameAt(rs, y) \in NamesIn(rs)
      /\ NameAt(rs, p) \in NamesIn(rs) /\ NameAt(rs, q) \in NamesIn(rs)
  BY DEF NamesIn
<1>4. ASSUME p = q, x # y PROVE Same(NameAt(rs, x), NameAt(rs, y))
  BY <1>2, <1>3, <1>4, SameNames DEF Clear
<1>5. ASSUME Same(NameAt(rs, x), NameAt(rs, y)), p # q PROVE FALSE
  <2>1. Same(NameAt(rs, p), NameAt(rs, y))
    BY <1>2, <1>3, <1>5, SameNames DEF Clear
  <2>2. Same(NameAt(rs, p), NameAt(rs, q)) /\ Same(NameAt(rs, q), NameAt(rs, p))
    BY <1>2, <1>3, <2>1, SameNames DEF Clear
  <2>3. Like(rs, p) = {} /\ Like(rs, q) = {}
    BY <1>1, FounderAlone
  <2>4. Sooner(p, q) \/ Sooner(q, p)
    BY <1>1, <1>5, ReadsFinite, SoonerOrder
  <2>5. p \in Like(rs, q) \/ q \in Like(rs, p)
    BY <2>2, <2>4 DEF Like
  <2> QED
    BY <2>3, <2>5
<1> QED
  BY <1>1, <1>4, <1>5

-----------------------------------------------------------------------------
(* Votes.                                                                  *)
AreVotes(votes) ==
    IsFiniteSet(votes) /\ \A v \in votes : v.weight \in Nat \ {0} /\ v.value \in DOMAIN Length

(* A total of votes is a natural, and positive if there are votes.          *)
LEMMA TotalTyped ==
    ASSUME NEW votes, AreVotes(votes)
    PROVE  Total(votes) \in Nat /\ (Total(votes) = 0 <=> votes = {})
<1> DEFINE S == {v \in votes \X (1 .. 3) : v[2] <= v[1].weight}
<1>0. IsFiniteSet(1 .. 3)
  <2>1. \A a, b \in Int : IsFiniteSet(a .. b)
    BY FS_Interval
  <2>2. 1 \in Int /\ 3 \in Int
    OBVIOUS
  <2> QED
    BY <2>1, <2>2
<1>1. IsFiniteSet(votes) /\ IsFiniteSet(1 .. 3)
  BY <1>0 DEF AreVotes
<1>2. IsFiniteSet(votes \X (1 .. 3))
  BY <1>1, FS_Product
<1>3. S \in SUBSET (votes \X (1 .. 3))
  OBVIOUS
<1>4. IsFiniteSet(S)
  BY <1>2, <1>3, FS_Subset
<1>5. S = {} <=> votes = {}
  <2>1. ASSUME NEW v \in votes PROVE <<v, 1>> \in S
    BY <2>1 DEF AreVotes
  <2> QED
    BY <2>1
<1> HIDE DEF S
<1>6. Cardinality(S) \in Nat /\ (Cardinality(S) = 0 <=> S = {})
  BY <1>4, FS_EmptySet, FS_CardinalityType
<1>7. Total(votes) = Cardinality(S)
  BY DEF Total, S
<1> QED
  BY <1>5, <1>6, <1>7

(* The winner is the value of a vote.                                       *)
LEMMA WinnerIs ==
    ASSUME NEW votes, AreVotes(votes), votes # {}
    PROVE  \E x \in votes : Winner(votes) = x.value
<1> DEFINE vs == {x.value : x \in votes}
           for == [v \in vs |-> Total({x \in votes : x.value = v})]
           R == {c \in vs \X vs : for[c[1]] > for[c[2]] \/ (for[c[1]] = for[c[2]] /\ Length[c[1]] > Length[c[2]])}
<1>1. IsFiniteSet(vs)
  <2> DEFINE value == [x \in votes |-> x.value]
  <2>1. IsFiniteSet(votes)
    BY DEF AreVotes
  <2>2. IsFiniteSet({value[x] : x \in votes})
    BY <2>1, FiniteRange
  <2> QED
    BY <2>2
<1>2. ASSUME NEW v \in vs PROVE for[v] \in Nat /\ Length[v] \in Nat
  <2>1. {x \in votes : x.value = v} \in SUBSET votes
    OBVIOUS
  <2>2. AreVotes({x \in votes : x.value = v})
    BY <2>1, FS_Subset DEF AreVotes
  <2>3. v \in DOMAIN Length
    BY DEF AreVotes
  <2> QED
    BY <2>2, <2>3, TotalTyped, DossierAssumption
<1>3. \A v, u \in vs : <<v, u>> \in R <=> for[v] > for[u] \/ (for[v] = for[u] /\ Length[v] > Length[u])
  OBVIOUS
<1>4. vs # {}
  OBVIOUS
<1>5. \A v \in vs : for[v] = Total({x \in votes : x.value = v})
  OBVIOUS
<1>6. Winner(votes) = CHOOSE v \in vs : \A u \in vs :
          \/ Total({x \in votes : x.value = v}) > Total({x \in votes : x.value = u})
          \/ Total({x \in votes : x.value = v}) = Total({x \in votes : x.value = u}) /\ Length[v] >= Length[u]
  BY DEF Winner
<1>7. \A w : w \in vs => \E x \in votes : w = x.value
  OBVIOUS
<1> HIDE DEF vs, for, R
<1>8. Strict(vs, R)
  <2>1. \A v \in vs : <<v, v>> \notin R
    BY <1>2, <1>3
  <2>2. \A v, u, w \in vs : <<v, u>> \in R /\ <<u, w>> \in R => <<v, w>> \in R
    BY <1>2, <1>3
  <2> QED
    BY <2>1, <2>2 DEF Strict
<1>9. PICK v \in vs : \A u \in vs : <<u, v>> \notin R
  BY <1>1, <1>4, <1>8, FirstOf
<1>10. \A u \in vs : for[v] > for[u] \/ (for[v] = for[u] /\ Length[v] >= Length[u])
  <2> TAKE u \in vs
  <2>1. for[v] \in Nat /\ for[u] \in Nat /\ Length[v] \in Nat /\ Length[u] \in Nat
    BY <1>2
  <2>2. ~(for[u] > for[v] \/ (for[u] = for[v] /\ Length[u] > Length[v]))
    BY <1>3, <1>9
  <2> QED
    BY <2>1, <2>2
<1>11. Winner(votes) \in vs
  BY <1>5, <1>6, <1>10
<1> QED
  BY <1>7, <1>11

(* Longest picks one of the fields.                                         *)
LEMMA LongestIs ==
    ASSUME NEW rec, NEW fs \in SUBSET DOMAIN rec.fields, IsFiniteSet(fs), fs # {},
           \A f \in fs : Length[rec.fields[f]] \in Nat,
           \A f \in fs : KeyOf(f) \in Keys, \A f, g \in fs : KeyOf(f) = KeyOf(g) => f = g
    PROVE  Longest(rec, fs) \in fs
<1> DEFINE a == [f \in fs |-> Length[rec.fields[f]]]
           R == {c \in fs \X fs : a[c[1]] > a[c[2]] \/ (a[c[1]] = a[c[2]] /\ Before(KeyOf(c[1]), KeyOf(c[2])))}
<1>1. \A f \in fs : a[f] \in Nat
  OBVIOUS
<1>2. \A f, g \in fs : <<f, g>> \in R <=> a[f] > a[g] \/ (a[f] = a[g] /\ Before(KeyOf(f), KeyOf(g)))
  OBVIOUS
<1>3. Longest(rec, fs) = CHOOSE f \in fs : \A g \in fs \ {f} :
          a[f] > a[g] \/ (a[f] = a[g] /\ Before(KeyOf(f), KeyOf(g)))
  BY DEF Longest
<1> HIDE DEF a, R
<1>4. Strict(fs, R)
  <2>1. \A f \in fs : <<f, f>> \notin R
    BY <1>1, <1>2, KeysOrdered
  <2>2. ASSUME NEW f \in fs, NEW g \in fs, NEW h \in fs, <<f, g>> \in R, <<g, h>> \in R PROVE <<f, h>> \in R
    <3>1. Before(KeyOf(f), KeyOf(g)) /\ Before(KeyOf(g), KeyOf(h)) => Before(KeyOf(f), KeyOf(h))
      BY KeysOrdered
    <3> QED
      BY <2>2, <3>1, <1>1, <1>2
  <2> QED
    BY <2>1, <2>2 DEF Strict
<1>5. PICK f \in fs : \A g \in fs : <<g, f>> \notin R
  BY <1>4, FirstOf
<1>6. ASSUME NEW g \in fs \ {f} PROVE a[f] > a[g] \/ (a[f] = a[g] /\ Before(KeyOf(f), KeyOf(g)))
  <2>1. Before(KeyOf(f), KeyOf(g)) \/ Before(KeyOf(g), KeyOf(f))
    BY KeysOrdered
  <2>2. a[f] \in Nat /\ a[g] \in Nat
    BY <1>1
  <2>3. ~(a[g] > a[f] \/ (a[g] = a[f] /\ Before(KeyOf(g), KeyOf(f))))
    BY <1>2, <1>5
  <2> QED
    BY <2>1, <2>2, <2>3
<1> QED
  BY <1>3, <1>6

PartsRead(rs, xs, part) == {Vote(rs, x, FieldAt(x[2], part)) : x \in xs}
NamesRead(rs, xs) == {Vote(rs, x, NameOf(x[2])) : x \in xs}

(* The reads of a part of some people are votes.                            *)
LEMMA VotesOfReads ==
    ASSUME NEW rs, IsRecords(rs), NEW xs \in SUBSET Reads(rs), NEW part,
           \A x \in xs : Has(rs[x[1]], FieldAt(x[2], part))
    PROVE  /\ AreVotes(PartsRead(rs, xs, part)) /\ (PartsRead(rs, xs, part) = {} <=> xs = {})
           /\ \A v \in PartsRead(rs, xs, part) : \E x \in xs : v.value = rs[x[1]].fields[FieldAt(x[2], part)]
<1> DEFINE vote == [x \in xs |-> Vote(rs, x, FieldAt(x[2], part))]
<1>1. IsFiniteSet(xs)
  BY ReadsFinite, FS_Subset
<1>2. IsFiniteSet({vote[x] : x \in xs})
  BY <1>1, FiniteRange
<1>3. \A x \in xs : vote[x].weight \in Nat \ {0} /\ vote[x].value \in DOMAIN Length
  <2> TAKE x \in xs
  <2>1. x[1] \in DOMAIN rs /\ FieldAt(x[2], part) \in DOMAIN rs[x[1]].fields
    BY ReadShape DEF Has
  <2>2. rs[x[1]].fields[FieldAt(x[2], part)] \in DOMAIN Length
    BY <2>1, FieldsTyped
  <2> QED
    BY <2>2 DEF Vote, Weight
<1>4. AreVotes(PartsRead(rs, xs, part))
  BY <1>2, <1>3 DEF AreVotes, PartsRead
<1>5. PartsRead(rs, xs, part) = {} <=> xs = {}
  BY DEF PartsRead
<1>6. \A v \in PartsRead(rs, xs, part) : \E x \in xs : v.value = rs[x[1]].fields[FieldAt(x[2], part)]
  BY DEF PartsRead, Vote
<1> QED
  BY <1>4, <1>5, <1>6

(* The reads of the names of a person elect a name that was read.           *)
LEMMA NamesReadVotes ==
    ASSUME NEW rs, IsRecords(rs), NEW xs \in SUBSET Reads(rs)
    PROVE  /\ AreVotes(NamesRead(rs, xs)) /\ (NamesRead(rs, xs) = {} <=> xs = {})
           /\ xs # {} => \E x \in xs : Winner(NamesRead(rs, xs)) = NameAt(rs, x)
<1>1. PICK part : part = "name"
  OBVIOUS
<1>2. \A x \in xs : Has(rs[x[1]], FieldAt(x[2], part))
  BY <1>1, ReadShape DEF Has, NameOf
<1>3. AreVotes(PartsRead(rs, xs, part)) /\ (PartsRead(rs, xs, part) = {} <=> xs = {})
  BY <1>2, VotesOfReads
<1>5. NamesRead(rs, xs) = PartsRead(rs, xs, part)
  BY <1>1 DEF NamesRead, NameOf, PartsRead
<1>4. \A v \in NamesRead(rs, xs) : \E x \in xs : v.value = NameAt(rs, x)
  BY DEF NamesRead, Vote, NameAt
<1> QED
  BY <1>3, <1>4, <1>5, WinnerIs

(* The best of people: at most one, and one if anybody has a claim.         *)
Better(claims, said, p, q) ==
    \/ claims[p] > claims[q]
    \/ claims[p] = claims[q] /\ said[p] > said[q]
    \/ claims[p] = claims[q] /\ said[p] = said[q] /\ Sooner(p, q)
Best(people, claims, said) ==
    {p \in people : claims[p] > 0 /\ \A q \in people \ {p} : Better(claims, said, p, q)}

(* At most one is the best; with a claim there is one.                      *)
LEMMA BestIsOne ==
    ASSUME NEW people \in SUBSET Spots, IsFiniteSet(people),
           NEW claims \in [people -> Nat], NEW said \in [people -> Nat]
    PROVE  /\ \A p, q \in Best(people, claims, said) : p = q
           /\ Best(people, claims, said) # {} <=> \E p \in people : claims[p] > 0
<1> DEFINE C == {p \in people : claims[p] > 0}
           R == {c \in C \X C : Better(claims, said, c[1], c[2])}
<1>1. \A p \in people : claims[p] \in Nat /\ said[p] \in Nat /\ p \in Spots
  OBVIOUS
<1>2. \A p, q \in people : p # q => Better(claims, said, p, q) \/ Better(claims, said, q, p)
  <2> SUFFICES ASSUME NEW p \in people, NEW q \in people, p # q
               PROVE  Better(claims, said, p, q) \/ Better(claims, said, q, p)
    OBVIOUS
  <2>1. Sooner(p, q) \/ Sooner(q, p)
    BY SoonerOrder
  <2>2. claims[p] \in Nat /\ said[p] \in Nat /\ claims[q] \in Nat /\ said[q] \in Nat
    BY <1>1
  <2> QED
    BY <2>1, <2>2 DEF Better
<1>3. ASSUME NEW p \in people, NEW q \in people, NEW r \in people,
             Better(claims, said, p, q), Better(claims, said, q, r)
      PROVE  Better(claims, said, p, r)
  <2>1. Sooner(p, q) /\ Sooner(q, r) => Sooner(p, r)
    BY <1>1, SoonerOrder
  <2>2. /\ claims[p] \in Nat /\ said[p] \in Nat /\ claims[q] \in Nat /\ said[q] \in Nat
        /\ claims[r] \in Nat /\ said[r] \in Nat
    BY <1>1
  <2> QED
    BY <1>3, <2>1, <2>2 DEF Better
<1>4. \A p \in people : ~Better(claims, said, p, p)
  <2> TAKE p \in people
  <2>1. claims[p] \in Nat /\ said[p] \in Nat /\ ~Sooner(p, p)
    BY <1>1, SoonerOrder
  <2> QED
    BY <2>1 DEF Better
<1>5. \A p, q \in C : <<p, q>> \in R <=> Better(claims, said, p, q)
  OBVIOUS
<1>6. C \in SUBSET people /\ IsFiniteSet(C)
  <2>1. C \in SUBSET people
    OBVIOUS
  <2> QED
    BY <2>1, FS_Subset
<1> HIDE DEF R
<1>7. Strict(C, R)
  BY <1>3, <1>4, <1>5 DEF Strict
<1>8. ASSUME C # {} PROVE Best(people, claims, said) # {}
  <2>1. PICK p \in C : \A q \in C : <<q, p>> \notin R
    BY <1>6, <1>7, <1>8, FirstOf
  <2>2. ASSUME NEW q \in people \ {p} PROVE Better(claims, said, p, q)
    <3>1. CASE q \in C
      BY <3>1, <2>1, <1>2, <1>5
    <3>2. CASE q \notin C
      <4>1. claims[p] > claims[q]
        BY <3>2, <1>1
      <4> QED
        BY <4>1 DEF Better
    <3> QED
      BY <3>1, <3>2
  <2> QED
    BY <2>2 DEF Best
<1>9. ASSUME NEW p \in Best(people, claims, said), NEW q \in Best(people, claims, said), p # q PROVE FALSE
  <2>1. Better(claims, said, p, q) /\ Better(claims, said, q, p) /\ p \in people /\ q \in people
    BY <1>9 DEF Best
  <2> QED
    BY <2>1, <1>3, <1>4
<1>10. Best(people, claims, said) \subseteq C
  BY DEF Best
<1> QED
  BY <1>8, <1>9, <1>10

(* People are finitely many reads, each of itself.                          *)
LEMMA FoundersTyped ==
    ASSUME NEW rs, IsRecords(rs), NEW person, person = PersonOf(rs)
    PROVE  /\ Range(person) \in SUBSET Reads(rs) /\ IsFiniteSet(Range(person)) /\ Range(person) \in SUBSET Spots
           /\ \A p \in Range(person) : person[p] = p
           /\ \A x \in Reads(rs) : person[x] \in Range(person)
<1>1. DOMAIN person = Reads(rs)
  BY PersonDomain
<1>2. Range(person) \in SUBSET Reads(rs)
  BY <1>1, PersonTyped DEF Range
<1>3. \A p \in Range(person) : person[p] = p
  BY <1>1, PersonTyped DEF Range
<1>4. \A x \in Reads(rs) : person[x] \in Range(person)
  BY <1>1 DEF Range
<1>5. IsFiniteSet(Reads(rs)) /\ Reads(rs) \in SUBSET Spots
  BY ReadsFinite
<1>6. IsFiniteSet(Range(person))
  BY <1>2, <1>5, FS_Subset
<1> QED
  BY <1>2, <1>3, <1>4, <1>5, <1>6

(* A role other than the one read is only given to borrowers.               *)
LEMMA RoleRead ==
    ASSUME NEW rs, NEW x
    PROVE  /\ RoleOf(rs, x) = "guarantor" <=> x[2][1] = "guarantor"
           /\ RoleOf(rs, x) = "borrower" => x[2][1] = "borrower"
           /\ x \in Reads(rs) /\ x[2][1] = "borrower" => \E y \in Reads(rs) : RoleOf(rs, y) = "borrower"
  BY DEF RoleOf

(* There is at most one borrower, and one if anybody was read as one.       *)
LEMMA BorrowerIs ==
    ASSUME NEW rs, IsRecords(rs), NEW person, person = PersonOf(rs)
    PROVE  LET b == Borrower(rs, person)
           IN  /\ b \in SUBSET Range(person) /\ \A p, q \in b : p = q
               /\ b # {} <=> \E x \in Reads(rs) : x[2][1] = "borrower"
               /\ \A p \in b : \E x \in Reads(rs) : person[x] = p /\ RoleOf(rs, x) = "borrower"
<1> DEFINE people == Range(person)
           xs(p)  == {x \in Reads(rs) : person[x] = p}
           ys(p)  == {x \in Reads(rs) : person[x] = p /\ RoleOf(rs, x) = "borrower"}
           claims == [p \in people |-> Total(NamesRead(rs, ys(p)))]
           said   == [p \in people |-> Total(NamesRead(rs, xs(p)))]
<1>1. DOMAIN person = Reads(rs)
  BY PersonDomain
<1>2. Borrower(rs, person) = Best(people, claims, said)
  BY <1>1 DEF Borrower, Best, Better, NamesRead
<1>3. \A p \in people : claims[p] \in Nat /\ (claims[p] > 0 <=> ys(p) # {}) /\ said[p] \in Nat
  <2> TAKE p \in people
  <2>1. xs(p) \in SUBSET Reads(rs) /\ ys(p) \in SUBSET Reads(rs)
    OBVIOUS
  <2>2. AreVotes(NamesRead(rs, xs(p))) /\ AreVotes(NamesRead(rs, ys(p))) /\ (NamesRead(rs, ys(p)) = {} <=> ys(p) = {})
    BY <2>1, NamesReadVotes
  <2>3. Total(NamesRead(rs, xs(p))) \in Nat /\ Total(NamesRead(rs, ys(p))) \in Nat
    BY <2>2, TotalTyped
  <2>4. Total(NamesRead(rs, ys(p))) = 0 <=> ys(p) = {}
    BY <2>2, TotalTyped
  <2> HIDE DEF xs, ys
  <2> QED
    BY <2>3, <2>4
<1>4. claims \in [people -> Nat] /\ said \in [people -> Nat]
  BY <1>3
<1>5. people \in SUBSET Spots /\ IsFiniteSet(people)
  BY FoundersTyped
<1>6. \A x \in Reads(rs) : RoleOf(rs, x) = "borrower" => ys(person[x]) # {} /\ person[x] \in people
  BY <1>1 DEF Range
<1>7. \A p : ys(p) # {} => \E x \in Reads(rs) : person[x] = p /\ RoleOf(rs, x) = "borrower"
  OBVIOUS
<1> HIDE DEF claims, said, people, ys
<1>8. /\ \A p, q \in Best(people, claims, said) : p = q
      /\ Best(people, claims, said) # {} <=> \E p \in people : claims[p] > 0
  BY <1>4, <1>5, BestIsOne
<1>9. Best(people, claims, said) \subseteq people /\ \A p \in Best(people, claims, said) : ys(p) # {}
  BY <1>3 DEF Best
<1>10. (\E p \in people : claims[p] > 0) <=> \E x \in Reads(rs) : x[2][1] = "borrower"
  BY <1>3, <1>6, <1>7, RoleRead
<1> QED
  BY <1>2, <1>7, <1>8, <1>9, <1>10 DEF people

-----------------------------------------------------------------------------
(* Numbers.                                                                *)
LEMMA NumberTyped ==
    ASSUME NEW group \in SUBSET Spots, IsFiniteSet(group), NEW p \in group
    PROVE  NumberIn(p, group) \in Nat \ {0}
<1> DEFINE S == {q \in group : q = p \/ Sooner(q, p)}
<1>1. S \in SUBSET group /\ p \in S
  OBVIOUS
<1>2. IsFiniteSet(S)
  BY <1>1, FS_Subset
<1> HIDE DEF S
<1>3. Cardinality(S) \in Nat /\ Cardinality(S) # 0
  BY <1>1, <1>2, FS_CardinalityType, FS_EmptySet
<1> QED
  BY <1>3 DEF NumberIn, S

(* Numbers grow with the order of the first reads.                          *)
LEMMA NumbersGrow ==
    ASSUME NEW group \in SUBSET Spots, IsFiniteSet(group), NEW p \in group, NEW q \in group, Sooner(p, q)
    PROVE  NumberIn(p, group) < NumberIn(q, group)
<1> DEFINE S == {r \in group : r = p \/ Sooner(r, p)}
           T == {r \in group : r = q \/ Sooner(r, q)}
<1>1. S \in SUBSET T
  <2>1. \A r \in group : Sooner(r, p) => Sooner(r, q)
    BY SoonerOrder
  <2> QED
    BY <2>1
<1>2. q \in T /\ q \notin S
  <2>1. q # p /\ ~Sooner(q, p)
    BY SoonerOrder
  <2> QED
    BY <2>1
<1>3. IsFiniteSet(T)
  <2>1. T \in SUBSET group
    OBVIOUS
  <2> QED
    BY <2>1, FS_Subset
<1>4. NumberIn(p, group) = Cardinality(S) /\ NumberIn(q, group) = Cardinality(T)
  BY DEF NumberIn
<1> HIDE DEF S, T
<1>5. Cardinality(S) <= Cardinality(T) /\ Cardinality(T) # Cardinality(S)
  BY <1>1, <1>2, <1>3, FS_Subset
<1>6. Cardinality(S) \in Nat /\ Cardinality(T) \in Nat
  BY NumberTyped, <1>4
<1> QED
  BY <1>4, <1>5, <1>6

(* Nobody in a group has the number of another.                             *)
LEMMA NumbersApart ==
    ASSUME NEW group \in SUBSET Spots, IsFiniteSet(group), NEW p \in group, NEW q \in group, p # q
    PROVE  NumberIn(p, group) # NumberIn(q, group)
<1>1. Sooner(p, q) \/ Sooner(q, p)
  BY SoonerOrder
<1>2. NumberIn(p, group) \in Nat /\ NumberIn(q, group) \in Nat
  BY NumberTyped
<1> QED
  BY <1>1, <1>2, NumbersGrow

(* What is decided from the records.                                        *)
GuarantorsOf(rs, d) ==
    {p \in DOMAIN d.keyOf \ d.borrower : \A x \in Reads(rs) : d.person[x] = p => x[2][1] = "guarantor"}
OthersOf(rs, d) == DOMAIN d.keyOf \ (d.borrower \cup GuarantorsOf(rs, d))
PartiesOf(rs, d) == Parties(rs, d.person, d.borrower)
DecidedOn(rs, d) ==
    /\ IsRecords(rs) /\ d = Decided(rs)

(* The parts of a decision.                                                 *)
LEMMA DecisionIs ==
    ASSUME NEW rs, NEW d, DecidedOn(rs, d)
    PROVE  /\ IsRecords(rs) /\ d.person = PersonOf(rs) /\ DOMAIN d.person = Reads(rs)
           /\ d.borrower = Borrower(rs, d.person)
           /\ d.keyOf = KeysOf(rs, d.person, d.borrower, PartiesOf(rs, d))
  BY PersonDomain DEF DecidedOn, Decided, PartiesOf

(* Parties are people; the borrower is one; without a borrower everyone is. *)
LEMMA PartiesTyped ==
    ASSUME NEW rs, NEW d, DecidedOn(rs, d)
    PROVE  /\ DOMAIN d.keyOf = PartiesOf(rs, d) /\ DOMAIN d.keyOf \in SUBSET Range(d.person)
           /\ d.borrower \in SUBSET DOMAIN d.keyOf /\ \A p, q \in d.borrower : p = q
           /\ DOMAIN d.keyOf \in SUBSET Spots /\ IsFiniteSet(DOMAIN d.keyOf)
           /\ d.borrower = {} => DOMAIN d.keyOf = Range(d.person)
<1>1. IsRecords(rs) /\ d.person = PersonOf(rs)
  BY DecisionIs
<1>2. d.borrower \in SUBSET Range(d.person) /\ \A p, q \in d.borrower : p = q
  <2>1. d.borrower = Borrower(rs, d.person)
    BY DecisionIs
  <2> QED
    BY <1>1, <2>1, BorrowerIs
<1>3. DOMAIN d.keyOf = PartiesOf(rs, d)
  <2>1. d.keyOf = KeysOf(rs, d.person, d.borrower, PartiesOf(rs, d))
    BY DecisionIs
  <2>2. DOMAIN KeysOf(rs, d.person, d.borrower, PartiesOf(rs, d)) = PartiesOf(rs, d)
    BY DEF KeysOf
  <2> QED
    BY <2>1, <2>2
<1>4. PartiesOf(rs, d) \in SUBSET Range(d.person)
  BY DEF PartiesOf, Parties
<1>5. \A p \in Range(d.person) : d.borrower \in {{}, {p}} => p \in PartiesOf(rs, d)
  BY DEF PartiesOf, Parties
<1>6. \A p \in d.borrower : d.borrower = {p}
  BY <1>2
<1>7. IsFiniteSet(Range(d.person)) /\ Range(d.person) \in SUBSET Spots
  BY <1>1, FoundersTyped
<1>8. IsFiniteSet(PartiesOf(rs, d)) /\ PartiesOf(rs, d) \in SUBSET Spots
  BY <1>4, <1>7, FS_Subset
<1> QED
  BY <1>2, <1>3, <1>4, <1>5, <1>6, <1>8

(* The key of a party: its role and its number.                             *)
LEMMA KeysAre ==
    ASSUME NEW rs, NEW d, DecidedOn(rs, d), NEW p \in DOMAIN d.keyOf
    PROVE  /\ p \in d.borrower => d.keyOf[p] = <<"borrower", 0>>
           /\ p \in GuarantorsOf(rs, d) => d.keyOf[p] = <<"guarantor", NumberIn(p, GuarantorsOf(rs, d))>>
           /\ p \in OthersOf(rs, d) => d.keyOf[p] = <<"co_borrower", NumberIn(p, OthersOf(rs, d))>>
           /\ p \in d.borrower \/ p \in GuarantorsOf(rs, d) \/ p \in OthersOf(rs, d)
           /\ GuarantorsOf(rs, d) \cap d.borrower = {} /\ OthersOf(rs, d) \cap d.borrower = {}
           /\ GuarantorsOf(rs, d) \cap OthersOf(rs, d) = {}
<1> DEFINE parties == PartiesOf(rs, d)
           guarantors == {q \in parties \ d.borrower :
                             \A x \in DOMAIN d.person : d.person[x] = q => RoleOf(rs, x) = "guarantor"}
           others == parties \ (d.borrower \cup guarantors)
<1>1. DOMAIN d.keyOf = parties /\ DOMAIN d.person = Reads(rs)
  BY PartiesTyped, DecisionIs
<1>2. guarantors = GuarantorsOf(rs, d)
  BY <1>1, RoleRead DEF GuarantorsOf
<1>3. others = OthersOf(rs, d)
  BY <1>1, <1>2 DEF OthersOf
<1>4. d.keyOf = [q \in parties |-> IF q \in d.borrower THEN <<"borrower", 0>>
                                  ELSE IF q \in guarantors THEN <<"guarantor", NumberIn(q, guarantors)>>
                                  ELSE <<"co_borrower", NumberIn(q, others)>>]
  BY DecisionIs DEF KeysOf
<1>5. p \in parties
  BY <1>1
<1>6. /\ p \in d.borrower => d.keyOf[p] = <<"borrower", 0>>
      /\ p \in guarantors => d.keyOf[p] = <<"guarantor", NumberIn(p, guarantors)>>
      /\ p \in others => d.keyOf[p] = <<"co_borrower", NumberIn(p, others)>>
  BY <1>4, <1>5
<1>7. /\ p \in d.borrower \/ p \in guarantors \/ p \in others
      /\ guarantors \cap d.borrower = {} /\ others \cap d.borrower = {} /\ guarantors \cap others = {}
  BY <1>5
<1> HIDE DEF parties, guarantors, others
<1> QED
  BY <1>2, <1>3, <1>6, <1>7

(* Keys are keys, and no two parties have one.                              *)
LEMMA KeysApart ==
    ASSUME NEW rs, NEW d, DecidedOn(rs, d)
    PROVE  /\ \A p \in DOMAIN d.keyOf : d.keyOf[p] \in Keys
           /\ \A p, q \in DOMAIN d.keyOf : d.keyOf[p] = d.keyOf[q] => p = q
<1>1. PICK gs, os : gs = GuarantorsOf(rs, d) /\ os = OthersOf(rs, d)
  OBVIOUS
<1>2. /\ gs \in SUBSET Spots /\ IsFiniteSet(gs)
      /\ os \in SUBSET Spots /\ IsFiniteSet(os)
  <2>1. gs \in SUBSET DOMAIN d.keyOf /\ os \in SUBSET DOMAIN d.keyOf
    BY <1>1 DEF GuarantorsOf, OthersOf
  <2> QED
    BY <2>1, PartiesTyped, FS_Subset
<1>3. \A p \in DOMAIN d.keyOf :
          /\ p \in d.borrower => d.keyOf[p] = <<"borrower", 0>>
          /\ p \in gs => d.keyOf[p] = <<"guarantor", NumberIn(p, gs)>>
          /\ p \in os => d.keyOf[p] = <<"co_borrower", NumberIn(p, os)>>
          /\ p \in d.borrower \/ p \in gs \/ p \in os
  BY <1>1, KeysAre
<1>4. /\ \A p \in gs : NumberIn(p, gs) \in Nat \ {0}
      /\ \A p \in os : NumberIn(p, os) \in Nat \ {0}
  BY <1>2, NumberTyped
<1>5. /\ \A p, q \in gs : p # q => NumberIn(p, gs) # NumberIn(q, gs)
      /\ \A p, q \in os : p # q => NumberIn(p, os) # NumberIn(q, os)
  BY <1>2, NumbersApart
<1>6. \A p, q \in d.borrower : p = q
  BY PartiesTyped
<1>7. \A p \in DOMAIN d.keyOf : d.keyOf[p] \in Keys
  BY <1>3, <1>4 DEF Keys
<1>8. \A p, q \in DOMAIN d.keyOf : d.keyOf[p] = d.keyOf[q] => p = q
  BY <1>3, <1>5, <1>6
<1> QED
  BY <1>7, <1>8

-----------------------------------------------------------------------------
(* Where the fields of a record go.                                        *)
LEMMA TargetOfAmount ==
    ASSUME NEW d, NEW i PROVE Targets(d, i, Amount) = {Amount}
  BY DEF Targets

(* A field of a party goes under the key of the party, others nowhere.      *)
LEMMA TargetOfRead ==
    ASSUME NEW rs, NEW d, DecidedOn(rs, d), NEW i \in DOMAIN rs, NEW f \in DOMAIN rs[i].fields, f # Amount,
           <<i, KeyOf(f)>> \in Reads(rs), NEW p, p = d.person[<<i, KeyOf(f)>>]
    PROVE  /\ p \in DOMAIN d.keyOf => /\ Targets(d, i, f) = {FieldAt(d.keyOf[p], f[3])}
                                      /\ FieldAt(d.keyOf[p], f[3]) \in SchemaFields \ {Amount}
                                      /\ KeyOf(FieldAt(d.keyOf[p], f[3])) = d.keyOf[p]
                                      /\ FieldAt(d.keyOf[p], f[3])[3] = f[3]
           /\ p \notin DOMAIN d.keyOf => Targets(d, i, f) = {}
<1>1. DOMAIN d.person = Reads(rs) /\ IsRecords(rs)
  BY DecisionIs
<1>2. Targets(d, i, f) = {FieldAt(d.keyOf[q], f[3]) : q \in {p} \cap DOMAIN d.keyOf}
  BY <1>1 DEF Targets
<1>3. f \in SchemaFields
  BY <1>1, FieldsTyped
<1>4. f[3] \in Parts
  BY <1>3, FieldShape
<1>5. CASE p \in DOMAIN d.keyOf
  <2>1. Targets(d, i, f) = {FieldAt(d.keyOf[p], f[3])}
    BY <1>2, <1>5
  <2>2. d.keyOf[p] \in Keys
    BY <1>5, KeysApart
  <2> QED
    BY <2>1, <2>2, <1>4, <1>5, FieldOfKey
<1>6. CASE p \notin DOMAIN d.keyOf
  BY <1>2, <1>6
<1> QED
  BY <1>5, <1>6

(* A field of nobody stays with a borrower, or goes.                        *)
LEMMA TargetOfRest ==
    ASSUME NEW rs, NEW d, DecidedOn(rs, d), NEW i \in DOMAIN rs, NEW f \in DOMAIN rs[i].fields, f # Amount,
           <<i, KeyOf(f)>> \notin Reads(rs)
    PROVE  /\ Targets(d, i, f) = IF f[1] = "borrower" /\ d.borrower # {} THEN {f} ELSE {}
           /\ ~IsName(f) /\ f \in SchemaFields
<1>1. DOMAIN d.person = Reads(rs) /\ IsRecords(rs)
  BY DecisionIs
<1>2. Targets(d, i, f) = IF f[1] = "borrower" /\ d.borrower # {} THEN {f} ELSE {}
  BY <1>1 DEF Targets
<1> QED
  BY <1>1, <1>2, ReadIs, FieldsTyped

(* A target is a field of the same part, and the only one.                  *)
LEMMA TargetIs ==
    ASSUME NEW rs, NEW d, DecidedOn(rs, d), NEW i \in DOMAIN rs, NEW f \in DOMAIN rs[i].fields,
           NEW t \in Targets(d, i, f)
    PROVE  /\ t \in SchemaFields /\ t[3] = f[3] /\ (t = Amount <=> f = Amount) /\ Targets(d, i, f) = {t}
           /\ IsName(f) => /\ <<i, KeyOf(f)>> \in Reads(rs)
                           /\ d.person[<<i, KeyOf(f)>>] \in DOMAIN d.keyOf
                           /\ KeyOf(t) = d.keyOf[d.person[<<i, KeyOf(f)>>]]
<1>1. IsRecords(rs)
  BY DecisionIs
<1>2. CASE f = Amount
  BY <1>2, TargetOfAmount, AmountShape
<1>3. CASE f # Amount /\ <<i, KeyOf(f)>> \in Reads(rs)
  <2>1. PICK p : p = d.person[<<i, KeyOf(f)>>]
    OBVIOUS
  <2>2. p \in DOMAIN d.keyOf
    BY <1>3, <2>1, TargetOfRead
  <2>3. /\ Targets(d, i, f) = {FieldAt(d.keyOf[p], f[3])} /\ FieldAt(d.keyOf[p], f[3]) \in SchemaFields \ {Amount}
        /\ KeyOf(FieldAt(d.keyOf[p], f[3])) = d.keyOf[p] /\ FieldAt(d.keyOf[p], f[3])[3] = f[3]
    BY <1>3, <2>1, <2>2, TargetOfRead
  <2>4. t = FieldAt(d.keyOf[p], f[3])
    BY <2>3
  <2> QED
    BY <1>3, <2>1, <2>2, <2>3, <2>4
<1>4. CASE f # Amount /\ <<i, KeyOf(f)>> \notin Reads(rs)
  <2>1. Targets(d, i, f) = (IF f[1] = "borrower" /\ d.borrower # {} THEN {f} ELSE {}) /\ ~IsName(f) /\ f \in SchemaFields
    BY <1>4, TargetOfRest
  <2>2. t = f
    BY <2>1
  <2> QED
    BY <1>4, <2>1, <2>2
<1> QED
  BY <1>2, <1>3, <1>4

(* The same, without the names.                                             *)
LEMMA TargetTyped ==
    ASSUME NEW rs, NEW d, DecidedOn(rs, d), NEW i \in DOMAIN rs, NEW f \in DOMAIN rs[i].fields,
           NEW t \in Targets(d, i, f)
    PROVE  t \in SchemaFields /\ t[3] = f[3] /\ (t = Amount <=> f = Amount) /\ Targets(d, i, f) = {t}
<1>1. /\ t \in SchemaFields /\ t[3] = f[3] /\ (t = Amount <=> f = Amount) /\ Targets(d, i, f) = {t}
      /\ IsName(f) => /\ <<i, KeyOf(f)>> \in Reads(rs)
                      /\ d.person[<<i, KeyOf(f)>>] \in DOMAIN d.keyOf
                      /\ KeyOf(t) = d.keyOf[d.person[<<i, KeyOf(f)>>]]
  BY TargetIs
<1> QED
  BY <1>1

(* The value that is kept under a target comes from a field that goes there. *)
LEMMA LongestSource ==
    ASSUME NEW rs, NEW d, DecidedOn(rs, d), NEW i \in DOMAIN rs, NEW f \in DOMAIN rs[i].fields,
           NEW t \in Targets(d, i, f)
    PROVE  LET g == Longest(rs[i], Sources(rs[i], d, i, t))
           IN  g \in DOMAIN rs[i].fields /\ t \in Targets(d, i, g)
<1> DEFINE fs == Sources(rs[i], d, i, t)
<1>1. IsRecords(rs)
  BY DecisionIs
<1>2. fs \in SUBSET DOMAIN rs[i].fields /\ f \in fs /\ \A g \in fs : t \in Targets(d, i, g)
  BY DEF Sources
<1>3. IsFiniteSet(fs)
  BY <1>1, <1>2, FieldsTyped, FS_Subset
<1>4. CASE t = Amount
  <2>1. \A g \in fs : g = Amount
    BY <1>2, <1>4, TargetTyped
  <2>2. fs = {f}
    BY <1>2, <2>1
  <2>3. Longest(rs[i], fs) = f
    BY <2>2 DEF Longest
  <2> QED
    BY <2>3
<1>5. CASE t # Amount
  <2>1. \A g \in fs : g \in SchemaFields /\ g # Amount /\ g[3] = t[3]
    <3> TAKE g \in fs
    <3>1. g \in DOMAIN rs[i].fields /\ t \in Targets(d, i, g)
      BY <1>2
    <3>2. g \in SchemaFields
      BY <1>1, <3>1, FieldsTyped
    <3>3. g # Amount /\ g[3] = t[3]
      BY <1>5, <3>1, TargetTyped
    <3> QED
      BY <3>2, <3>3
  <2>2. \A g \in fs : KeyOf(g) \in Keys /\ g = FieldAt(KeyOf(g), t[3])
    BY <2>1, FieldShape
  <2>3. \A g \in fs : Length[rs[i].fields[g]] \in Nat
    <3> TAKE g \in fs
    <3>1. rs[i].fields[g] \in DOMAIN Length
      BY <1>1, <1>2, FieldsTyped
    <3> QED
      BY <3>1, DossierAssumption
  <2>4. \A g, h \in fs : KeyOf(g) = KeyOf(h) => g = h
    BY <2>2
  <2> HIDE DEF fs
  <2>5. Longest(rs[i], fs) \in fs
    BY <1>2, <1>3, <2>2, <2>3, <2>4, LongestIs
  <2> QED
    BY <1>2, <2>5 DEF fs
<1> QED
  BY <1>4, <1>5

(* What rewriting returns: typed records, of the same pages, of moved fields. *)
LEMMA RewrittenShape ==
    ASSUME NEW rs, NEW d, DecidedOn(rs, d), NEW out, out = Rewritten(rs, d)
    PROVE  /\ IsRecords(out) /\ DOMAIN out = DOMAIN rs
           /\ \A i \in DOMAIN rs :
                  /\ out[i].doc = rs[i].doc /\ out[i].page = rs[i].page
                  /\ \A t : t \in DOMAIN out[i].fields <=> \E f \in DOMAIN rs[i].fields : t \in Targets(d, i, f)
                  /\ \A t \in DOMAIN out[i].fields : \E f \in DOMAIN rs[i].fields :
                         t \in Targets(d, i, f) /\ out[i].fields[t] = rs[i].fields[f]
<1>1. IsRecords(rs)
  BY DecisionIs
<1> DEFINE ts(i) == UNION {Targets(d, i, f) : f \in DOMAIN rs[i].fields}
           val(i, t) == rs[i].fields[Longest(rs[i], Sources(rs[i], d, i, t))]
<1>2. out = [i \in DOMAIN rs |-> [doc |-> rs[i].doc, page |-> rs[i].page, fields |-> [t \in ts(i) |-> val(i, t)]]]
  BY DEF Rewritten
<1>3. ASSUME NEW i \in DOMAIN rs
      PROVE  \A t : t \in ts(i) <=> \E f \in DOMAIN rs[i].fields : t \in Targets(d, i, f)
  OBVIOUS
<1>4. ASSUME NEW i \in DOMAIN rs, NEW t \in ts(i)
      PROVE  \E f \in DOMAIN rs[i].fields : t \in Targets(d, i, f) /\ val(i, t) = rs[i].fields[f]
  <2>1. PICK f \in DOMAIN rs[i].fields : t \in Targets(d, i, f)
    BY <1>3
  <2> QED
    BY <2>1, LongestSource
<1>5. ASSUME NEW i \in DOMAIN rs PROVE IsFiniteSet(ts(i))
  <2> DEFINE all == [f \in DOMAIN rs[i].fields |-> Targets(d, i, f)]
  <2>1. IsFiniteSet(DOMAIN rs[i].fields)
    BY <1>1, FieldsTyped
  <2>2. IsFiniteSet({all[f] : f \in DOMAIN rs[i].fields})
    <3>1. all = [f \in DOMAIN rs[i].fields |-> all[f]]
      OBVIOUS
    <3> HIDE DEF all
    <3> QED
      BY <2>1, <3>1, FiniteRange
  <2>3. ASSUME NEW f \in DOMAIN rs[i].fields PROVE IsFiniteSet(Targets(d, i, f))
    <3>1. CASE Targets(d, i, f) = {}
      BY <3>1, FS_EmptySet
    <3>2. CASE Targets(d, i, f) # {}
      <4>1. PICK t \in Targets(d, i, f) : Targets(d, i, f) = {t}
        BY <3>2, TargetTyped
      <4> QED
        BY <4>1, FS_Singleton
    <3> QED
      BY <3>1, <3>2
  <2>4. \A T \in {all[f] : f \in DOMAIN rs[i].fields} : IsFiniteSet(T)
    BY <2>3
  <2>5. IsFiniteSet(UNION {all[f] : f \in DOMAIN rs[i].fields})
    BY <2>2, <2>4, FS_UNION
  <2> QED
    BY <2>5
<1>6. ASSUME NEW i \in DOMAIN rs, NEW t \in ts(i) PROVE t \in SchemaFields /\ val(i, t) \in DOMAIN Length
  <2>1. PICK f \in DOMAIN rs[i].fields : t \in Targets(d, i, f) /\ val(i, t) = rs[i].fields[f]
    BY <1>4
  <2>2. t \in SchemaFields
    BY <2>1, TargetTyped
  <2>3. rs[i].fields[f] \in DOMAIN Length
    BY <1>1, FieldsTyped
  <2> QED
    BY <2>1, <2>2, <2>3
<1> HIDE DEF ts, val
<1>7. DOMAIN out = DOMAIN rs /\ \A i \in DOMAIN rs :
          /\ out[i] = [doc |-> out[i].doc, page |-> out[i].page, fields |-> out[i].fields]
          /\ out[i].doc = rs[i].doc /\ out[i].page = rs[i].page
          /\ DOMAIN out[i].fields = ts(i) /\ out[i].fields = [t \in ts(i) |-> val(i, t)]
  BY <1>2
<1>8. ASSUME NEW i \in DOMAIN rs PROVE IsRecord(out[i])
  <2>1. rs[i].doc \in AllDocs /\ rs[i].page \in Nat
    BY <1>1, FieldsTyped
  <2>2. out[i].fields \in [ts(i) -> DOMAIN Length] /\ ts(i) \subseteq SchemaFields
    BY <1>6, <1>7
  <2>3. IsFiniteSet(ts(i))
    BY <1>5
  <2> QED
    BY <1>7, <2>1, <2>2, <2>3 DEF IsRecord
<1>9. IsRecords(out)
  <2>1. Len(rs) \in Nat /\ DOMAIN rs = 1 .. Len(rs)
    BY <1>1, RecordsShape
  <2>2. out \in [1 .. Len(rs) -> Range(out)]
    BY <1>2, <2>1 DEF Range
  <2>3. out \in Seq(Range(out))
    BY <2>1, <2>2
  <2> QED
    BY <2>3, <1>7, <1>8 DEF IsRecords
<1>10. ASSUME NEW i \in DOMAIN rs
       PROVE  /\ out[i].doc = rs[i].doc /\ out[i].page = rs[i].page
              /\ \A t : t \in DOMAIN out[i].fields <=> \E f \in DOMAIN rs[i].fields : t \in Targets(d, i, f)
              /\ \A t \in DOMAIN out[i].fields : \E f \in DOMAIN rs[i].fields :
                     t \in Targets(d, i, f) /\ out[i].fields[t] = rs[i].fields[f]
  <2>1. out[i].doc = rs[i].doc /\ out[i].page = rs[i].page
    BY <1>7
  <2>2. DOMAIN out[i].fields = ts(i)
    BY <1>7
  <2>3. \A t \in ts(i) : out[i].fields[t] = val(i, t)
    BY <1>7
  <2>4. \A t \in ts(i) : \E f \in DOMAIN rs[i].fields : t \in Targets(d, i, f) /\ out[i].fields[t] = rs[i].fields[f]
    BY <2>3, <1>4
  <2> QED
    BY <2>1, <2>2, <2>4, <1>3
<1> QED
  BY <1>7, <1>9, <1>10

(* The reads of the rewritten records are the reads of the parties.         *)
LEMMA PartyReads ==
    ASSUME NEW rs, NEW d, DecidedOn(rs, d), NEW out, out = Rewritten(rs, d),
           NEW x \in Reads(rs), d.person[x] \in DOMAIN d.keyOf
    PROVE  <<x[1], d.keyOf[d.person[x]]>> \in Reads(out)
<1>1. IsRecords(rs) /\ IsRecords(out) /\ DOMAIN out = DOMAIN rs
  BY DecisionIs, RewrittenShape
<1>2. PICK i, k, p : i = x[1] /\ k = x[2] /\ p = d.person[x]
  OBVIOUS
<1>3. x = <<i, k>> /\ i \in DOMAIN rs /\ k \in Keys /\ NameOf(k) \in DOMAIN rs[i].fields
  BY <1>1, <1>2, ReadShape
<1>4. KeyOf(NameOf(k)) = k /\ NameOf(k) # Amount /\ NameOf(k)[3] = "name"
  BY <1>3, NameOfKey DEF IsName
<1>5. Targets(d, i, NameOf(k)) = {FieldAt(d.keyOf[p], "name")}
  BY <1>2, <1>3, <1>4, TargetOfRead
<1>6. NameOf(d.keyOf[p]) \in Targets(d, i, NameOf(k))
  BY <1>5 DEF NameOf
<1>7. NameOf(d.keyOf[p]) \in DOMAIN out[i].fields
  BY <1>3, <1>6, RewrittenShape
<1>8. d.keyOf[p] \in Keys
  BY <1>2, KeysApart
<1> QED
  BY <1>1, <1>2, <1>3, <1>7, <1>8, ReadOfKey

(* A read of the rewritten records is a read of a party.                    *)
LEMMA ReadOfParty ==
    ASSUME NEW rs, NEW d, DecidedOn(rs, d), NEW out, out = Rewritten(rs, d), NEW y \in Reads(out)
    PROVE  \E x \in Reads(rs) : /\ x[1] = y[1] /\ d.person[x] \in DOMAIN d.keyOf
                                /\ y[2] = d.keyOf[d.person[x]] /\ NameAt(out, y) = NameAt(rs, x)
<1>1. IsRecords(rs) /\ IsRecords(out) /\ DOMAIN out = DOMAIN rs
  BY DecisionIs, RewrittenShape
<1>2. PICK i, k, t : i = y[1] /\ k = y[2] /\ t = NameOf(k)
  OBVIOUS
<1>3. i \in DOMAIN rs /\ k \in Keys /\ t \in DOMAIN out[i].fields
  BY <1>1, <1>2, ReadShape
<1>4. IsName(t) /\ KeyOf(t) = k /\ t[3] = "name"
  BY <1>2, <1>3, NameOfKey DEF IsName
<1>5. PICK f \in DOMAIN rs[i].fields : t \in Targets(d, i, f) /\ out[i].fields[t] = rs[i].fields[f]
  BY <1>3, RewrittenShape
<1>6. IsName(f)
  BY <1>3, <1>4, <1>5, TargetTyped DEF IsName
<1>7. /\ <<i, KeyOf(f)>> \in Reads(rs) /\ d.person[<<i, KeyOf(f)>>] \in DOMAIN d.keyOf
      /\ KeyOf(t) = d.keyOf[d.person[<<i, KeyOf(f)>>]]
  BY <1>3, <1>5, <1>6, TargetIs
<1>8. NameAt(rs, <<i, KeyOf(f)>>) = rs[i].fields[f]
  BY <1>1, <1>3, <1>6, ReadIs
<1>9. NameAt(out, y) = out[i].fields[t]
  BY <1>2 DEF NameAt
<1> QED
  BY <1>2, <1>4, <1>5, <1>7, <1>8, <1>9

(* The dossier's values.                                                    *)
Open(d) == {Amount} \cup {FieldAt(key, part) : key \in Range(d.keyOf), part \in Parts}

(* What the dossier may have a value for.                                   *)
LEMMA OpenFields ==
    ASSUME NEW rs, NEW d, DecidedOn(rs, d), NEW f \in Open(d)
    PROVE  /\ f \in SchemaFields /\ (f # Amount => KeyOf(f) \in Range(d.keyOf))
           /\ f # Amount => KeyOf(f) \in Keys /\ f[3] \in Parts /\ f = FieldAt(KeyOf(f), f[3])
<1>1. CASE f = Amount
  BY <1>1, AmountShape
<1>2. CASE f # Amount
  <2>1. PICK key \in Range(d.keyOf), part \in Parts : f = FieldAt(key, part)
    BY <1>2 DEF Open
  <2>2. key \in Keys
    BY KeysApart DEF Range
  <2> QED
    BY <2>1, <2>2, FieldOfKey
<1> QED
  BY <1>1, <1>2

Own(rs, d, f) == {x \in Reads(rs) : /\ d.person[x] \in DOMAIN d.keyOf /\ d.keyOf[d.person[x]] = KeyOf(f)
                                    /\ Has(rs[x[1]], FieldAt(x[2], f[3]))}
Lone(rs, d, f) == {i \in DOMAIN rs : /\ f = <<"borrower", 0, "address">> /\ d.borrower # {}
                                     /\ Has(rs[i], f) /\ KeyOf(f) \notin Named(rs[i])}
Single(rs, f) == {Vote(rs, <<i, f>>, f) : i \in {j \in DOMAIN rs : Has(rs[j], f)}}
Strays(rs, d, f) == {[by |-> <<i>>, value |-> rs[i].fields[f], weight |-> 1] : i \in Lone(rs, d, f)}

(* The votes on a field, by where they come from.                           *)
LEMMA BallotIs ==
    ASSUME NEW rs, NEW d, DecidedOn(rs, d), NEW f
    PROVE  Ballot(rs, d, f) = IF f = Amount THEN Single(rs, f)
                              ELSE PartsRead(rs, Own(rs, d, f), f[3]) \cup Strays(rs, d, f)
<1>1. DOMAIN d.person = Reads(rs)
  BY DecisionIs
<1> QED
  BY <1>1 DEF Ballot, Single, PartsRead, Own, Strays, Lone

(* They are votes.                                                          *)
LEMMA BallotVotes ==
    ASSUME NEW rs, NEW d, DecidedOn(rs, d), NEW f \in Open(d)
    PROVE  AreVotes(Ballot(rs, d, f))
<1>1. IsRecords(rs)
  BY DecisionIs
<1>2. \A i \in DOMAIN rs : Has(rs[i], f) => rs[i].fields[f] \in DOMAIN Length
  BY <1>1, FieldsTyped DEF Has
<1>3. CASE f = Amount
  <2> DEFINE D == {j \in DOMAIN rs : Has(rs[j], f)}
             vote == [i \in D |-> Vote(rs, <<i, f>>, f)]
  <2>1. IsFiniteSet(D)
    <3>1. D \in SUBSET DOMAIN rs
      OBVIOUS
    <3>2. IsFiniteSet(DOMAIN rs)
      BY <1>1, RecordsShape
    <3> HIDE DEF D
    <3> QED
      BY <3>1, <3>2, FS_Subset
  <2>2. IsFiniteSet({vote[i] : i \in D})
    <3>1. vote = [i \in D |-> vote[i]]
      OBVIOUS
    <3> HIDE DEF vote, D
    <3> QED
      BY <2>1, <3>1, FiniteRange
  <2>3. Single(rs, f) = {vote[i] : i \in D}
    BY DEF Single
  <2>4. \A i \in D : vote[i].weight \in Nat \ {0} /\ vote[i].value \in DOMAIN Length
    BY <1>2 DEF Vote, Weight
  <2> HIDE DEF vote, D
  <2>5. AreVotes(Single(rs, f))
    BY <2>2, <2>3, <2>4 DEF AreVotes
  <2> QED
    BY <1>3, <2>5, BallotIs
<1>4. CASE f # Amount
  <2>1. Own(rs, d, f) \in SUBSET Reads(rs) /\ \A x \in Own(rs, d, f) : Has(rs[x[1]], FieldAt(x[2], f[3]))
    BY DEF Own
  <2>2. AreVotes(PartsRead(rs, Own(rs, d, f), f[3]))
    BY <1>1, <2>1, VotesOfReads
  <2> DEFINE stray == [i \in Lone(rs, d, f) |-> [by |-> <<i>>, value |-> rs[i].fields[f], weight |-> 1]]
  <2>3. Lone(rs, d, f) \in SUBSET DOMAIN rs
    BY DEF Lone
  <2>4. IsFiniteSet(DOMAIN rs)
    BY <1>1, RecordsShape
  <2>5. IsFiniteSet(Lone(rs, d, f))
    BY <2>3, <2>4, FS_Subset
  <2>6. IsFiniteSet({stray[i] : i \in Lone(rs, d, f)})
    <3>1. stray = [i \in Lone(rs, d, f) |-> stray[i]]
      OBVIOUS
    <3> HIDE DEF stray
    <3> QED
      BY <2>5, <3>1, FiniteRange
  <2>7. IsFiniteSet(Strays(rs, d, f))
    BY <2>6 DEF Strays
  <2>8. \A v \in Strays(rs, d, f) : v.weight \in Nat \ {0} /\ v.value \in DOMAIN Length
    BY <1>2 DEF Strays, Lone
  <2>9. AreVotes(PartsRead(rs, Own(rs, d, f), f[3]) \cup Strays(rs, d, f))
    BY <2>2, <2>7, <2>8, FS_Union DEF AreVotes
  <2> QED
    BY <1>4, <2>9, BallotIs
<1> QED
  BY <1>3, <1>4

ReadsOf(rs, d, p) == {x \in Reads(rs) : d.person[x] = p}

(* On the name of a party its reads vote.                                   *)
LEMMA NameBallot ==
    ASSUME NEW rs, NEW d, DecidedOn(rs, d), NEW p \in DOMAIN d.keyOf
    PROVE  /\ NameOf(d.keyOf[p]) \in Open(d)
           /\ Ballot(rs, d, NameOf(d.keyOf[p])) = NamesRead(rs, ReadsOf(rs, d, p))
<1>1. IsRecords(rs)
  BY DecisionIs
<1>2. PICK k, f : k = d.keyOf[p] /\ f = NameOf(k)
  OBVIOUS
<1>3. k \in Keys /\ k \in Range(d.keyOf)
  BY <1>2, KeysApart DEF Range
<1>4. f \in Open(d) /\ f # Amount /\ KeyOf(f) = k /\ f[3] = "name"
  BY <1>2, <1>3, NameOfKey DEF Open, NameOf, Parts, IsName
<1>5. Lone(rs, d, f) = {}
  BY <1>4 DEF Lone
<1>6. Own(rs, d, f) = ReadsOf(rs, d, p)
  <2>1. \A x \in Reads(rs) : Has(rs[x[1]], FieldAt(x[2], f[3]))
    BY <1>1, <1>4, ReadShape DEF Has, NameOf
  <2>2. \A q \in DOMAIN d.keyOf : d.keyOf[q] = KeyOf(f) <=> q = p
    BY <1>2, <1>4, KeysApart
  <2> QED
    BY <2>1, <2>2 DEF Own, ReadsOf
<1>7. Strays(rs, d, f) = {}
  BY <1>5 DEF Strays
<1>8. Ballot(rs, d, f) = PartsRead(rs, ReadsOf(rs, d, p), "name")
  BY <1>4, <1>6, <1>7, BallotIs
<1> QED
  BY <1>2, <1>4, <1>8 DEF PartsRead, NamesRead, NameOf

(* The values of the dossier, typed.                                        *)
LEMMA ValuedTyped ==
    ASSUME NEW rs, NEW d, DecidedOn(rs, d), NEW vals, vals = Valued(rs, d)
    PROVE  /\ DOMAIN vals = {g \in Open(d) : Allows(g) /\ Ballot(rs, d, g) # {}}
           /\ DOMAIN vals \subseteq SchemaFields
           /\ \A f \in DOMAIN vals : vals[f] = Winner(Ballot(rs, d, f)) /\ vals[f] \in DOMAIN Length
<1>1. vals = [f \in {g \in Open(d) : Allows(g) /\ Ballot(rs, d, g) # {}} |-> Winner(Ballot(rs, d, f))]
  <2> DEFINE some == {f \in {FieldAt(key, part) : key \in Range(d.keyOf), part \in Parts} : Allows(f)}
  <2>1. vals = [f \in {g \in {Amount} \cup some : Ballot(rs, d, g) # {}} |-> Winner(Ballot(rs, d, f))]
    BY DEF Valued
  <2>2. Allows(Amount)
    BY DEF Allows
  <2>3. {g \in {Amount} \cup some : Ballot(rs, d, g) # {}} = {g \in Open(d) : Allows(g) /\ Ballot(rs, d, g) # {}}
    BY <2>2 DEF Open
  <2> HIDE DEF some
  <2> QED
    BY <2>1, <2>3
<1>2. ASSUME NEW f \in Open(d), Ballot(rs, d, f) # {} PROVE Winner(Ballot(rs, d, f)) \in DOMAIN Length
  <2>1. AreVotes(Ballot(rs, d, f))
    BY BallotVotes
  <2>2. \E v \in Ballot(rs, d, f) : Winner(Ballot(rs, d, f)) = v.value
    BY <2>1, <1>2, WinnerIs
  <2> QED
    BY <2>1, <2>2 DEF AreVotes
<1>3. \A f \in Open(d) : f \in SchemaFields
  BY OpenFields
<1> QED
  BY <1>1, <1>2, <1>3

(* A party has a name in the dossier, if the prompt asks for it, and it is  *)
(* one of its reads.                                                        *)
LEMMA PartyNamed ==
    ASSUME NEW rs, NEW d, DecidedOn(rs, d), NEW vals, vals = Valued(rs, d), NEW p \in DOMAIN d.keyOf,
           Allows(NameOf(d.keyOf[p]))
    PROVE  /\ NameOf(d.keyOf[p]) \in DOMAIN vals
           /\ \E z \in Reads(rs) : d.person[z] = p /\ vals[NameOf(d.keyOf[p])] = NameAt(rs, z)
<1>1. IsRecords(rs) /\ d.person = PersonOf(rs)
  BY DecisionIs
<1>2. p \in Range(d.person)
  BY PartiesTyped
<1>3. p \in Reads(rs) /\ d.person[p] = p
  BY <1>1, <1>2, FoundersTyped
<1>4. ReadsOf(rs, d, p) \in SUBSET Reads(rs) /\ ReadsOf(rs, d, p) # {}
  BY <1>3 DEF ReadsOf
<1>5. PICK votes : votes = NamesRead(rs, ReadsOf(rs, d, p))
  OBVIOUS
<1>6. votes # {} /\ \E z \in ReadsOf(rs, d, p) : Winner(votes) = NameAt(rs, z)
  BY <1>1, <1>4, <1>5, NamesReadVotes
<1>7. NameOf(d.keyOf[p]) \in Open(d) /\ Ballot(rs, d, NameOf(d.keyOf[p])) = votes
  BY <1>5, NameBallot
<1>8. NameOf(d.keyOf[p]) \in DOMAIN vals
  <2>1. DOMAIN vals = {g \in Open(d) : Allows(g) /\ Ballot(rs, d, g) # {}}
    BY ValuedTyped
  <2> QED
    BY <1>6, <1>7, <2>1
<1>9. vals[NameOf(d.keyOf[p])] = Winner(votes)
  BY <1>7, <1>8, ValuedTyped
<1> QED
  BY <1>6, <1>8, <1>9 DEF ReadsOf

(* A name in the dossier is of a party.                                     *)
LEMMA NamedParty ==
    ASSUME NEW rs, NEW d, DecidedOn(rs, d), NEW vals, vals = Valued(rs, d), NEW f \in DOMAIN vals, IsName(f)
    PROVE  \E p \in DOMAIN d.keyOf : f = NameOf(d.keyOf[p]) /\ Allows(NameOf(d.keyOf[p]))
<1>1. f \in Open(d) /\ Allows(f)
  BY ValuedTyped
<1>2. f # Amount
  BY AmountShape
<1>3. KeyOf(f) \in Range(d.keyOf) /\ f = FieldAt(KeyOf(f), f[3])
  BY <1>1, <1>2, OpenFields
<1> QED
  BY <1>1, <1>3 DEF Range, NameOf, IsName

(* Whoever is no party is set aside under one of the names read.            *)
LEMMA AsideNamed ==
    ASSUME NEW rs, NEW d, DecidedOn(rs, d)
    PROVE  /\ \A p \in Range(d.person) \ DOMAIN d.keyOf :
                  \E z \in Reads(rs) : d.person[z] = p /\ NameAt(rs, z) \in Aside(rs, d)
           /\ Aside(rs, d) \subseteq DOMAIN Length
<1>1. IsRecords(rs) /\ d.person = PersonOf(rs) /\ DOMAIN d.person = Reads(rs)
  BY DecisionIs
<1>2. ASSUME NEW p \in Range(d.person)
      PROVE  \E z \in Reads(rs) : d.person[z] = p /\ Winner(NamesOf(rs, d, p)) = NameAt(rs, z)
  <2>1. p \in Reads(rs) /\ d.person[p] = p
    BY <1>1, FoundersTyped
  <2>2. ReadsOf(rs, d, p) \in SUBSET Reads(rs) /\ ReadsOf(rs, d, p) # {}
    BY <2>1 DEF ReadsOf
  <2>3. \E z \in ReadsOf(rs, d, p) : Winner(NamesRead(rs, ReadsOf(rs, d, p))) = NameAt(rs, z)
    BY <1>1, <2>2, NamesReadVotes
  <2>4. NamesOf(rs, d, p) = NamesRead(rs, ReadsOf(rs, d, p))
    BY <1>1 DEF NamesOf, NamesRead, ReadsOf
  <2> QED
    BY <2>3, <2>4 DEF ReadsOf
<1>3. \A z \in Reads(rs) : NameAt(rs, z) \in DOMAIN Length
  BY <1>1, ReadShape
<1>4. Aside(rs, d) \subseteq DOMAIN Length
  BY <1>2, <1>3 DEF Aside
<1>5. \A p \in Range(d.person) \ DOMAIN d.keyOf : Winner(NamesOf(rs, d, p)) \in Aside(rs, d)
  BY DEF Aside
<1>6. ASSUME NEW p \in Range(d.person) \ DOMAIN d.keyOf
      PROVE  \E z \in Reads(rs) : d.person[z] = p /\ NameAt(rs, z) \in Aside(rs, d)
  <2>1. PICK z \in Reads(rs) : d.person[z] = p /\ Winner(NamesOf(rs, d, p)) = NameAt(rs, z)
    BY <1>2
  <2> QED
    BY <2>1, <1>5
<1> QED
  BY <1>4, <1>6

-----------------------------------------------------------------------------
(* What a consolidation keeps of the people.                               *)
(* Rewriting makes no names up.                                             *)
LEMMA NoNewNames ==
    ASSUME NEW rs, NEW d, DecidedOn(rs, d), NEW out, out = Rewritten(rs, d)
    PROVE  NamesIn(out) \subseteq NamesIn(rs)
<1> SUFFICES ASSUME NEW y \in Reads(out) PROVE NameAt(out, y) \in NamesIn(rs)
  BY DEF NamesIn
<1>1. PICK x \in Reads(rs) : NameAt(out, y) = NameAt(rs, x)
  BY ReadOfParty
<1> QED
  BY <1>1 DEF NamesIn

(* Of every person a name is on the pages or set aside.                     *)
LEMMA EveryoneKept ==
    ASSUME NEW rs, NEW d, DecidedOn(rs, d), NEW out, out = Rewritten(rs, d), NEW x \in Reads(rs)
    PROVE  \E z \in Reads(rs) : d.person[z] = d.person[x] /\ NameAt(rs, z) \in NamesIn(out) \cup Aside(rs, d)
<1>1. IsRecords(rs) /\ d.person = PersonOf(rs) /\ IsRecords(out)
  BY DecisionIs, RewrittenShape
<1>2. PICK p \in Range(d.person) : p = d.person[x]
  BY <1>1, FoundersTyped
<1>3. CASE p \notin DOMAIN d.keyOf
  <2>1. \E z \in Reads(rs) : d.person[z] = p /\ NameAt(rs, z) \in Aside(rs, d)
    BY <1>3, AsideNamed
  <2> QED
    BY <1>2, <2>1
<1>4. CASE p \in DOMAIN d.keyOf
  <2>1. PICK y \in Reads(out) : y[2] = d.keyOf[p]
    <3>1. <<x[1], d.keyOf[p]>> \in Reads(out)
      BY <1>2, <1>4, PartyReads
    <3> QED
      BY <3>1
  <2>2. PICK z \in Reads(rs) : /\ d.person[z] \in DOMAIN d.keyOf
                              /\ y[2] = d.keyOf[d.person[z]] /\ NameAt(out, y) = NameAt(rs, z)
    BY ReadOfParty
  <2>3. d.person[z] = p
    BY <1>4, <2>1, <2>2, KeysApart
  <2>4. NameAt(rs, z) \in NamesIn(out)
    BY <2>2 DEF NamesIn
  <2> QED
    BY <1>2, <2>3, <2>4
<1> QED
  BY <1>3, <1>4

(* A panel shows the person that the dossier has under that key, if the     *)
(* prompt asks for it.                                                      *)
LEMMA PanelsRight ==
    ASSUME NEW rs, NEW d, DecidedOn(rs, d), NEW out, out = Rewritten(rs, d), NEW vals, vals = Valued(rs, d),
           NEW y \in Reads(out), Allows(NameOf(y[2]))
    PROVE  /\ NameOf(y[2]) \in DOMAIN vals
           /\ \E x, z \in Reads(rs) : /\ d.person[x] = d.person[z] /\ NameAt(out, y) = NameAt(rs, x)
                                      /\ vals[NameOf(y[2])] = NameAt(rs, z)
<1>1. PICK x \in Reads(rs) : /\ d.person[x] \in DOMAIN d.keyOf
                            /\ y[2] = d.keyOf[d.person[x]] /\ NameAt(out, y) = NameAt(rs, x)
  BY ReadOfParty
<1>2. PICK p \in DOMAIN d.keyOf : p = d.person[x]
  BY <1>1
<1>3. /\ NameOf(d.keyOf[p]) \in DOMAIN vals
      /\ \E z \in Reads(rs) : d.person[z] = p /\ vals[NameOf(d.keyOf[p])] = NameAt(rs, z)
  BY <1>1, <1>2, PartyNamed
<1> QED
  BY <1>1, <1>2, <1>3

(* All panels show one person under a key.                                  *)
LEMMA OnePanel ==
    ASSUME NEW rs, NEW d, DecidedOn(rs, d), NEW out, out = Rewritten(rs, d),
           NEW y \in Reads(out), NEW v \in Reads(out), y[2] = v[2]
    PROVE  \E x, z \in Reads(rs) : /\ d.person[x] = d.person[z]
                                   /\ NameAt(out, y) = NameAt(rs, x) /\ NameAt(out, v) = NameAt(rs, z)
<1>1. PICK x \in Reads(rs) : /\ d.person[x] \in DOMAIN d.keyOf
                            /\ y[2] = d.keyOf[d.person[x]] /\ NameAt(out, y) = NameAt(rs, x)
  BY ReadOfParty
<1>2. PICK z \in Reads(rs) : /\ d.person[z] \in DOMAIN d.keyOf
                            /\ v[2] = d.keyOf[d.person[z]] /\ NameAt(out, v) = NameAt(rs, z)
  BY ReadOfParty
<1>3. d.person[x] = d.person[z]
  BY <1>1, <1>2, KeysApart
<1> QED
  BY <1>1, <1>2, <1>3

(* Where likeness is clear, no two names of the dossier are alike.          *)
LEMMA NumbersApartIn ==
    ASSUME NEW rs, NEW d, DecidedOn(rs, d), NEW vals, vals = Valued(rs, d), Clear(NamesIn(rs)),
           NEW f \in DOMAIN vals, NEW g \in DOMAIN vals, IsName(f), IsName(g), Same(vals[f], vals[g])
    PROVE  f = g
<1>1. IsRecords(rs) /\ d.person = PersonOf(rs)
  BY DecisionIs
<1>2. PICK p \in DOMAIN d.keyOf : f = NameOf(d.keyOf[p]) /\ Allows(NameOf(d.keyOf[p]))
  BY NamedParty
<1>3. PICK q \in DOMAIN d.keyOf : g = NameOf(d.keyOf[q]) /\ Allows(NameOf(d.keyOf[q]))
  BY NamedParty
<1>4. PICK x \in Reads(rs) : d.person[x] = p /\ vals[f] = NameAt(rs, x)
  BY <1>2, PartyNamed
<1>5. PICK y \in Reads(rs) : d.person[y] = q /\ vals[g] = NameAt(rs, y)
  BY <1>3, PartyNamed
<1>6. p = q
  <2>1. x = y \/ Same(NameAt(rs, x), NameAt(rs, y))
    BY <1>4, <1>5
  <2> QED
    BY <1>1, <1>4, <1>5, <2>1, OneEach
<1> QED
  BY <1>2, <1>3, <1>6

(* The names that belong together.                                          *)
KinIn(names, name) == {b \in names : \A ns \in SUBSET names : Whole(ns, names) /\ name \in ns => b \in ns}

(* The names that belong with a name, as an operator of the names read.     *)
LEMMA KinIs == \A name : Kin(name) = KinIn(NamesIn(read), name)
<1> TAKE name
<1> DEFINE names == NamesIn(read)
           whole == {ns \in SUBSET names : \A a \in ns, b \in names : Same(a, b) => b \in ns}
<1>1. \A ns \in SUBSET names : ns \in whole <=> Whole(ns, names)
  BY DEF Whole
<1>2. Kin(name) = {b \in names : \A ns \in whole : name \in ns => b \in ns}
  BY DEF Kin
<1> HIDE DEF names
<1>3. \A b : (\A ns \in whole : name \in ns => b \in ns)
               <=> (\A ns \in SUBSET names : Whole(ns, names) /\ name \in ns => b \in ns)
  BY <1>1
<1> QED
  BY <1>2, <1>3 DEF KinIn, names

(* To belong together is an equivalence, and whoever is alike does.         *)
LEMMA KinAlike ==
    ASSUME NEW names, NEW a \in names
    PROVE  /\ a \in KinIn(names, a)
           /\ \A b \in KinIn(names, a) : b \in names /\ a \in KinIn(names, b)
           /\ \A b \in KinIn(names, a) : \A c \in KinIn(names, b) : c \in KinIn(names, a)
           /\ \A b \in names : Same(a, b) => b \in KinIn(names, a)
<1>1. a \in KinIn(names, a)
  BY DEF KinIn
<1>2. ASSUME NEW b \in KinIn(names, a), NEW ns \in SUBSET names, Whole(ns, names), b \in ns, a \notin ns
      PROVE  FALSE
  <2>1. Whole(names \ ns, names)
    BY <1>2, SameNames DEF Whole
  <2>2. a \in names \ ns /\ (names \ ns) \in SUBSET names
    BY <1>2
  <2>3. b \in names \ ns
    BY <2>1, <2>2 DEF KinIn
  <2> QED
    BY <1>2, <2>3
<1>3. \A b \in KinIn(names, a) : b \in names /\ a \in KinIn(names, b)
  BY <1>2 DEF KinIn
<1>4. \A b \in KinIn(names, a) : \A c \in KinIn(names, b) : c \in KinIn(names, a)
  BY DEF KinIn
<1>5. \A b \in names : Same(a, b) => b \in KinIn(names, a)
  BY DEF KinIn, Whole
<1> QED
  BY <1>1, <1>3, <1>4, <1>5

(* The names of one person belong together in what was read.                *)
LEMMA KinOfPerson ==
    ASSUME NEW rs, IsRecords(rs), NEW names, NamesIn(rs) \subseteq names, NEW person, person = PersonOf(rs),
           NEW x \in Reads(rs), NEW y \in Reads(rs), person[x] = person[y]
    PROVE  NameAt(rs, y) \in KinIn(names, NameAt(rs, x))
<1>1. NameAt(rs, y) \in names
  BY DEF NamesIn
<1>2. ASSUME NEW ns \in SUBSET names, Whole(ns, names), NameAt(rs, x) \in ns PROVE NameAt(rs, y) \in ns
  <2>1. NameAt(rs, person[x]) \in ns
    BY <1>2, OnePerson
  <2> QED
    BY <1>2, <2>1, OnePerson
<1> QED
  BY <1>1, <1>2 DEF KinIn

(* The invariants of the people, of what they speak about.                  *)
AllowsBy(ask, field) == field = Amount \/ <<field[1], field[3]>> \in ask
Kept(rd, rs, aside) ==
    \A name \in NamesIn(rd) : KinIn(NamesIn(rd), name) \cap (NamesIn(rs) \cup aside) # {}
Folks(rd, rs) ==
    \A x, y \in Reads(rs) : x[2] = y[2] => NameAt(rs, y) \in KinIn(NamesIn(rd), NameAt(rs, x))
Agree(ask, rd, rs, vals) ==
    \A x \in Reads(rs) : AllowsBy(ask, NameOf(x[2])) => /\ NameOf(x[2]) \in DOMAIN vals
                                                        /\ vals[NameOf(x[2])] \in KinIn(NamesIn(rd), NameAt(rs, x))

(* A consolidation keeps the invariant of the people.                       *)
LEMMA PassKeeps ==
    ASSUME NEW rd, NEW rs, NEW d, DecidedOn(rs, d), NEW aside, NEW out, out = Rewritten(rs, d),
           NEW vals, vals = Valued(rs, d), NEW more, more = aside \cup Aside(rs, d),
           NamesIn(rs) \subseteq NamesIn(rd), Kept(rd, rs, aside)
    PROVE  Kept(rd, out, more) /\ Folks(rd, out) /\ Agree(asked, rd, out, vals)
<1>1. IsRecords(rs) /\ d.person = PersonOf(rs)
  BY DecisionIs
<1>2. PICK names : names = NamesIn(rd)
  OBVIOUS
<1>3. ASSUME NEW name \in names PROVE KinIn(names, name) \cap (NamesIn(out) \cup more) # {}
  <2>1. PICK b : b \in KinIn(names, name) /\ b \in NamesIn(rs) \cup aside
    BY <1>2, <1>3 DEF Kept
  <2>2. CASE b \in aside
    BY <2>1, <2>2
  <2>3. CASE b \in NamesIn(rs)
    <3>1. PICK x \in Reads(rs) : b = NameAt(rs, x)
      BY <2>3 DEF NamesIn
    <3>2. \A z \in Reads(rs) : d.person[z] = d.person[x] => NameAt(rs, z) \in KinIn(names, name)
      <4> TAKE z \in Reads(rs)
      <4>1. d.person[x] = d.person[z] => NameAt(rs, z) \in KinIn(names, b)
        BY <1>1, <1>2, <3>1, KinOfPerson
      <4> QED
        BY <4>1, <2>1, <1>3, KinAlike
    <3>3. \E z \in Reads(rs) : d.person[z] = d.person[x] /\ NameAt(rs, z) \in NamesIn(out) \cup Aside(rs, d)
      BY EveryoneKept
    <3> QED
      BY <3>2, <3>3
  <2> QED
    BY <2>1, <2>2, <2>3
<1>4. ASSUME NEW y \in Reads(out), NEW v \in Reads(out), y[2] = v[2]
      PROVE  NameAt(out, v) \in KinIn(names, NameAt(out, y))
  <2>1. PICK x \in Reads(rs), z \in Reads(rs) :
            d.person[x] = d.person[z] /\ NameAt(out, y) = NameAt(rs, x) /\ NameAt(out, v) = NameAt(rs, z)
    BY <1>4, OnePanel
  <2> QED
    BY <1>1, <1>2, <2>1, KinOfPerson
<1>5. ASSUME NEW y \in Reads(out), AllowsBy(asked, NameOf(y[2]))
      PROVE  NameOf(y[2]) \in DOMAIN vals /\ vals[NameOf(y[2])] \in KinIn(names, NameAt(out, y))
  <2>0. Allows(NameOf(y[2]))
    BY <1>5 DEF Allows, AllowsBy
  <2>1. NameOf(y[2]) \in DOMAIN vals
    BY <2>0, PanelsRight
  <2>2. PICK x \in Reads(rs), z \in Reads(rs) :
            d.person[x] = d.person[z] /\ NameAt(out, y) = NameAt(rs, x) /\ vals[NameOf(y[2])] = NameAt(rs, z)
    BY <2>0, PanelsRight
  <2>3. NameAt(rs, z) \in KinIn(names, NameAt(rs, x))
    BY <1>1, <1>2, <2>2, KinOfPerson
  <2> QED
    BY <2>1, <2>2, <2>3
<1> QED
  BY <1>2, <1>3, <1>4, <1>5 DEF Kept, Folks, Agree

-----------------------------------------------------------------------------
(* What filing keeps of the people: every key, and under it a name of it.   *)
LEMMA ReadFiled ==
    ASSUME NEW rs, IsRecords(rs), HitsTyped, NEW out, out = ReattributedOf(rs), NEW x \in Reads(rs)
    PROVE  \E y \in Reads(out) : y[2] = x[2]
<1>1. PICK i, k, f : i = x[1] /\ k = x[2] /\ f = NameOf(k)
  OBVIOUS
<1>2. i \in DOMAIN rs /\ k \in Keys /\ f \in DOMAIN rs[i].fields
  BY <1>1, ReadShape
<1>3. <<f, Norm[rs[i].fields[f]]>> \in Pairs(rs, rs[i].doc) /\ rs[i].doc \in Docs(rs)
  BY <1>2, PairsOfRecord
<1>4. PICK n \in DOMAIN out : f \in DOMAIN out[n].fields
  <2>1. \E n \in DOMAIN out : <<f, Norm[rs[i].fields[f]]>>[1] \in DOMAIN out[n].fields
    BY <1>3, FiledPairs
  <2> QED
    BY <2>1
<1>5. IsRecords(out)
  BY FiledShape
<1>6. <<n, k>> \in Reads(out)
  BY <1>1, <1>2, <1>4, <1>5, ReadOfKey
<1> QED
  BY <1>1, <1>6

(* Filing makes no reads up.                                                *)
LEMMA FiledRead ==
    ASSUME NEW rs, IsRecords(rs), HitsTyped, NEW out, out = ReattributedOf(rs), NEW y \in Reads(out)
    PROVE  \E x \in Reads(rs) : x[2] = y[2] /\ NameAt(rs, x) = NameAt(out, y)
<1>1. IsRecords(out)
  BY FiledShape
<1>2. PICK n, k, f : n = y[1] /\ k = y[2] /\ f = NameOf(k)
  OBVIOUS
<1>3. n \in DOMAIN out /\ k \in Keys /\ f \in DOMAIN out[n].fields
  BY <1>1, <1>2, ReadShape
<1>4. PICK doc, pair, i : doc = out[n].doc /\ pair = <<f, Norm[out[n].fields[f]]>> /\ i = Origin(rs, doc, pair)
  OBVIOUS
<1>5. pair \in Pairs(rs, doc) /\ out[n].fields[f] = ValueOf(rs, doc, pair) /\ pair[1] = f
  BY <1>3, <1>4, FiledPairs
<1>6. i \in Of(rs, doc) /\ f \in DOMAIN rs[i].fields /\ rs[i].fields[f] = out[n].fields[f]
  BY <1>4, <1>5, PairOrigin DEF Has, ValueOf
<1>7. i \in DOMAIN rs
  BY <1>6 DEF Of
<1>8. <<i, k>> \in Reads(rs) /\ NameAt(rs, <<i, k>>) = rs[i].fields[f]
  BY <1>2, <1>3, <1>6, <1>7, ReadOfKey
<1>9. NameAt(out, y) = out[n].fields[f]
  BY <1>2 DEF NameAt
<1> QED
  BY <1>2, <1>6, <1>8, <1>9

(* So does filing.                                                          *)
LEMMA FilingKeeps ==
    ASSUME NEW rd, NEW rs, IsRecords(rs), HitsTyped, NEW out, out = ReattributedOf(rs), NEW aside, NEW vals,
           NamesIn(rs) \subseteq NamesIn(rd), Kept(rd, rs, aside), Folks(rd, rs), NEW ask, Agree(ask, rd, rs, vals)
    PROVE  NamesIn(out) \subseteq NamesIn(rs) /\ Kept(rd, out, aside) /\ Folks(rd, out) /\ Agree(ask, rd, out, vals)
<1>1. PICK names : names = NamesIn(rd)
  OBVIOUS
<1>2. ASSUME NEW y \in Reads(out) PROVE NameAt(out, y) \in NamesIn(rs)
  BY FiledRead DEF NamesIn
<1>3. ASSUME NEW name \in names PROVE KinIn(names, name) \cap (NamesIn(out) \cup aside) # {}
  <2>1. PICK b : b \in KinIn(names, name) /\ b \in NamesIn(rs) \cup aside
    BY <1>1, <1>3 DEF Kept
  <2>2. CASE b \in aside
    BY <2>1, <2>2
  <2>3. CASE b \in NamesIn(rs)
    <3>1. PICK x \in Reads(rs) : b = NameAt(rs, x)
      BY <2>3 DEF NamesIn
    <3>2. PICK y \in Reads(out) : y[2] = x[2]
      BY ReadFiled
    <3>3. PICK z \in Reads(rs) : z[2] = y[2] /\ NameAt(rs, z) = NameAt(out, y)
      BY FiledRead
    <3>4. NameAt(rs, z) \in KinIn(names, NameAt(rs, x))
      BY <1>1, <3>2, <3>3 DEF Folks
    <3>5. NameAt(rs, z) \in KinIn(names, name)
      BY <2>1, <1>3, <3>1, <3>4, KinAlike
    <3>6. NameAt(rs, z) \in NamesIn(out)
      BY <3>3 DEF NamesIn
    <3> QED
      BY <3>5, <3>6
  <2> QED
    BY <2>1, <2>2, <2>3
<1>4. ASSUME NEW y \in Reads(out), AllowsBy(ask, NameOf(y[2]))
      PROVE  NameOf(y[2]) \in DOMAIN vals /\ vals[NameOf(y[2])] \in KinIn(names, NameAt(out, y))
  <2>1. PICK x \in Reads(rs) : x[2] = y[2] /\ NameAt(rs, x) = NameAt(out, y)
    BY FiledRead
  <2>2. NameOf(x[2]) \in DOMAIN vals /\ vals[NameOf(x[2])] \in KinIn(names, NameAt(rs, x))
    BY <1>1, <1>4, <2>1 DEF Agree
  <2> QED
    BY <2>1, <2>2
<1>5. ASSUME NEW y \in Reads(out), NEW v \in Reads(out), y[2] = v[2]
      PROVE  NameAt(out, v) \in KinIn(names, NameAt(out, y))
  <2>1. PICK x \in Reads(rs) : x[2] = y[2] /\ NameAt(rs, x) = NameAt(out, y)
    BY FiledRead
  <2>2. PICK z \in Reads(rs) : z[2] = v[2] /\ NameAt(rs, z) = NameAt(out, v)
    BY FiledRead
  <2> QED
    BY <1>1, <1>5, <2>1, <2>2 DEF Folks
<1> QED
  BY <1>1, <1>2, <1>3, <1>4, <1>5 DEF NamesIn, Kept, Folks, Agree

-----------------------------------------------------------------------------
(* The inductive invariant of the people.                                  *)
PeopleInv ==
    /\ DossierTypeOK
    /\ stage = "read" => records = read
    /\ NamesIn(records) \subseteq NamesIn(read)
    /\ Kept(read, records, mentioned)
    /\ stage # "read" => Folks(read, records) /\ Agree(asked, read, records, values)

(* The type invariant, with its records by their name.                      *)
LEMMA TypesAre ==
    DossierTypeOK <=> /\ stage \in {"read", "named", "filed", "done"} /\ asked \in Schemas /\ texts \in TextLayers
                      /\ IsRecords(read) /\ IsRecords(records)
                      /\ DOMAIN values \subseteq SchemaFields /\ Range(values) \subseteq DOMAIN Length
                      /\ mentioned \subseteq DOMAIN Length
  BY DEF DossierTypeOK, IsRecords

(* The same of the next state.                                              *)
LEMMA TypesAreNext ==
    DossierTypeOK' <=> /\ stage' \in {"read", "named", "filed", "done"} /\ asked' \in Schemas /\ texts' \in TextLayers
                       /\ IsRecords(read') /\ IsRecords(records')
                       /\ DOMAIN values' \subseteq SchemaFields /\ Range(values') \subseteq DOMAIN Length
                       /\ mentioned' \subseteq DOMAIN Length
  BY DEF DossierTypeOK, IsRecords

(* What a prompt leaves of a record is a record.                            *)
LEMMA AskedRecord == \A t \in Templates : IsRecord(Asked(t))
<1> TAKE t \in Templates
<1> DEFINE fs == {f \in DOMAIN t.fields : Allows(f)}
           left == Restrict(t.fields, fs)
<1>1. IsRecord(t)
  BY DossierAssumption
<1>2. left = [f \in fs |-> t.fields[f]]
  BY DEF Restrict
<1>3. Asked(t) = [doc |-> t.doc, page |-> t.page, fields |-> left]
  BY <1>1 DEF IsRecord, Asked
<1>4. IsFiniteSet(fs)
  <2>1. fs \in SUBSET DOMAIN t.fields
    OBVIOUS
  <2> QED
    BY <1>1, <2>1, FS_Subset DEF IsRecord
<1>5. DOMAIN left = fs /\ left \in [DOMAIN left -> DOMAIN Length] /\ fs \subseteq SchemaFields
  BY <1>1, <1>2 DEF IsRecord
<1> HIDE DEF left, fs
<1> QED
  BY <1>1, <1>3, <1>4, <1>5 DEF IsRecord

(* The invariant of the people holds at the start,                          *)
LEMMA PeopleInit == DossierInit => PeopleInv
<1> SUFFICES ASSUME DossierInit PROVE PeopleInv
  OBVIOUS
<1>1. PICK n \in 1 .. MaxRecords : read \in [1 .. n -> {Asked(t) : t \in Templates}]
  BY DEF DossierInit
<1>2. n \in Nat
  BY DossierAssumption
<1>3. read \in Seq(Range(read))
  <2>1. read \in [1 .. n -> Range(read)]
    BY <1>1 DEF Range
  <2> QED
    BY <2>1, <1>2
<1>4. IsRecords(read)
  <2>1. \A i \in DOMAIN read : IsRecord(read[i])
    BY <1>1, AskedRecord
  <2> QED
    BY <2>1, <1>3 DEF IsRecords
<1>5. /\ records = read /\ values = <<>> /\ mentioned = {} /\ stage = "read"
      /\ asked \in Schemas /\ texts \in TextLayers
  BY DEF DossierInit
<1>6. DOMAIN values = {} /\ Range(values) = {}
  BY <1>5 DEF Range
<1>7. DossierTypeOK
  BY <1>4, <1>5, <1>6, TypesAre
<1>8. Kept(read, records, mentioned)
  BY <1>5, KinAlike DEF Kept
<1> QED
  BY <1>5, <1>7, <1>8 DEF PeopleInv

(* after a consolidation,                                                   *)
LEMMA PassStep ==
    ASSUME PeopleInv, NEW from, NEW to \in {"named", "done"}, Consolidate(from, to)
    PROVE  PeopleInv'
<1>1. PICK d : /\ d = Decided(records) /\ records' = Rewritten(records, d) /\ values' = Valued(records, d)
               /\ mentioned' = mentioned \cup Aside(records, d) /\ stage' = to /\ read' = read /\ texts' = texts /\ asked' = asked
  BY DEF Consolidate, given
<1>2. DossierTypeOK
  BY DEF PeopleInv
<1>3. /\ IsRecords(read) /\ IsRecords(records) /\ mentioned \subseteq DOMAIN Length
      /\ asked \in Schemas /\ texts \in TextLayers
  BY <1>2, TypesAre
<1>4. DecidedOn(records, d)
  BY <1>1, <1>3 DEF DecidedOn
<1>5. IsRecords(records')
  BY <1>1, <1>4, RewrittenShape
<1>6. DOMAIN values' \subseteq SchemaFields /\ Range(values') \subseteq DOMAIN Length
  <2>1. PICK vals : vals = Valued(records, d)
    OBVIOUS
  <2>2. DOMAIN vals \subseteq SchemaFields /\ \A f \in DOMAIN vals : vals[f] \in DOMAIN Length
    BY <1>4, <2>1, ValuedTyped
  <2>3. values' = vals
    BY <1>1, <2>1
  <2> QED
    BY <2>2, <2>3 DEF Range
<1>7. mentioned' \subseteq DOMAIN Length
  BY <1>1, <1>3, <1>4, AsideNamed
<1>8. DossierTypeOK'
  BY <1>1, <1>3, <1>5, <1>6, <1>7, TypesAreNext
<1>9. NamesIn(records) \subseteq NamesIn(read) /\ Kept(read, records, mentioned)
  BY DEF PeopleInv
<1>10. NamesIn(records') \subseteq NamesIn(read)
  BY <1>1, <1>4, <1>9, NoNewNames
<1>11. Kept(read, records', mentioned') /\ Folks(read, records') /\ Agree(asked, read, records', values')
  BY <1>1, <1>4, <1>9, PassKeeps
<1>12. stage' # "read"
  BY <1>1
<1> QED
  BY <1>1, <1>8, <1>10, <1>11, <1>12 DEF PeopleInv

(* after filing,                                                            *)
LEMMA FilingStep ==
    ASSUME PeopleInv, Reattribute
    PROVE  PeopleInv'
<1>1. /\ stage = "named" /\ stage' = "filed" /\ records' = ReattributedOf(records)
      /\ read' = read /\ texts' = texts /\ asked' = asked /\ values' = values /\ mentioned' = mentioned
  BY DEF Reattribute, given
<1>2. DossierTypeOK
  BY DEF PeopleInv
<1>3. /\ IsRecords(read) /\ IsRecords(records) /\ mentioned \subseteq DOMAIN Length
      /\ asked \in Schemas /\ texts \in TextLayers
      /\ DOMAIN values \subseteq SchemaFields /\ Range(values) \subseteq DOMAIN Length
  BY <1>2, TypesAre
<1>4. HitsTyped
  BY <1>3, TextsTyped
<1>5. IsRecords(records')
  BY <1>1, <1>3, <1>4, FiledShape
<1>6. DossierTypeOK'
  BY <1>1, <1>3, <1>5, TypesAreNext
<1>7. NamesIn(records) \subseteq NamesIn(read) /\ Kept(read, records, mentioned)
  BY DEF PeopleInv
<1>8. Folks(read, records) /\ Agree(asked, read, records, values)
  BY <1>1 DEF PeopleInv
<1>9. /\ NamesIn(records') \subseteq NamesIn(records) /\ Kept(read, records', mentioned)
      /\ Folks(read, records') /\ Agree(asked, read, records', values)
  BY <1>1, <1>3, <1>4, <1>7, <1>8, FilingKeeps
<1> QED
  BY <1>1, <1>6, <1>7, <1>8, <1>9 DEF PeopleInv

(* and so after every step.                                                 *)
LEMMA PeopleStep == PeopleInv /\ [DossierNext]_dossierVars => PeopleInv'
<1> SUFFICES ASSUME PeopleInv, [DossierNext]_dossierVars PROVE PeopleInv'
  OBVIOUS
<1>1. CASE Consolidate("read", "named")
  BY <1>1, PassStep
<1>2. CASE Reattribute
  BY <1>2, FilingStep
<1>3. CASE Consolidate("filed", "done")
  BY <1>3, PassStep
<1>4. CASE UNCHANGED dossierVars
  <2>1. DossierTypeOK'
    BY <1>4 DEF PeopleInv, DossierTypeOK, dossierVars, given
  <2> QED
    BY <1>4, <2>1 DEF PeopleInv, dossierVars, given
<1> QED
  BY <1>1, <1>2, <1>3, <1>4 DEF DossierNext

(* It says who is who.                                                      *)
LEMMA PeopleKnow == PeopleInv => WhoIsWho
<1> SUFFICES ASSUME PeopleInv PROVE WhoIsWho
  OBVIOUS
<1>1. DossierTypeOK
  BY DEF PeopleInv
<1>2. \A f : Allows(f) <=> AllowsBy(asked, f)
  BY DEF Allows, AllowsBy
<1>3. ASSUME stage # "read", NEW name \in NamesIn(read)
      PROVE  Kin(name) \cap (PartyNames \cup mentioned \cup UnaskedNames) # {}
  <2>1. PICK b : b \in Kin(name) /\ b \in NamesIn(records) \cup mentioned
    BY KinIs DEF PeopleInv, Kept
  <2>2. CASE b \in mentioned
    BY <2>1, <2>2
  <2>3. CASE b \in NamesIn(records)
    <3>1. PICK x \in Reads(records) : b = NameAt(records, x)
      BY <2>3 DEF NamesIn
    <3>2. CASE ~Allows(NameOf(x[2]))
      BY <2>1, <3>1, <3>2 DEF UnaskedNames
    <3>3. CASE Allows(NameOf(x[2]))
      <4>1. /\ NameOf(x[2]) \in DOMAIN values
            /\ values[NameOf(x[2])] \in KinIn(NamesIn(read), b)
        BY <1>2, <1>3, <3>1, <3>3 DEF PeopleInv, Agree
      <4>2. IsName(NameOf(x[2]))
        BY DEF IsName, NameOf, FieldAt
      <4>3. values[NameOf(x[2])] \in PartyNames
        BY <4>1, <4>2 DEF PartyNames
      <4>4. values[NameOf(x[2])] \in Kin(name)
        BY <2>1, <4>1, KinIs, KinAlike
      <4> QED
        BY <4>3, <4>4
    <3> QED
      BY <3>2, <3>3
  <2> QED
    BY <2>1, <2>2, <2>3
<1>4. NobodyDropped
  BY <1>3 DEF NobodyDropped
<1>5. PanelsAgree
  BY <1>2, KinIs DEF PanelsAgree, Agree, PeopleInv
<1> QED
  BY <1>1, <1>4, <1>5 DEF WhoIsWho

(* Everyone who was read is a party, set aside, or on the pages under a key *)
(* the prompt does not ask for; and every panel with a key it asks for      *)
(* shows a person under that person's number, after every pass.             *)
THEOREM EveryoneIsThere == DossierSpec => []WhoIsWho
<1>1. DossierInit => PeopleInv
  BY PeopleInit
<1>2. PeopleInv /\ [DossierNext]_dossierVars => PeopleInv'
  BY PeopleStep
<1>3. PeopleInv => WhoIsWho
  BY PeopleKnow
<1> QED
  BY <1>1, <1>2, <1>3, PTL DEF DossierSpec

-----------------------------------------------------------------------------
(* The pages.                                                              *)
Claimed(rd, rs) == DOMAIN rs = DOMAIN rd /\ \A i \in DOMAIN rs : rs[i].doc = rd[i].doc /\ rs[i].page = rd[i].page
HitsIn(text, doc, n) == IF n \in DOMAIN text[doc] THEN text[doc][n] ELSE {}
Proven(text, rd, rs) ==
    \A i \in DOMAIN rs : \A f \in DOMAIN rs[i].fields :
        LET hits == HitsIn(text, rs[i].doc, Norm[rs[i].fields[f]])
        IN  rs[i].page \in (IF hits # {} THEN hits ELSE {rd[j].page : j \in Of(rd, rs[i].doc)})

(* Filing proves every value.                                               *)
LEMMA FilingProves ==
    ASSUME NEW rd, NEW rs, IsRecords(rs), HitsTyped, Claimed(rd, rs), NEW out, out = ReattributedOf(rs)
    PROVE  Proven(texts, rd, out)
<1> SUFFICES ASSUME NEW n \in DOMAIN out, NEW f \in DOMAIN out[n].fields
             PROVE  LET hits == Hits(out[n].doc, Norm[out[n].fields[f]])
                    IN  out[n].page \in (IF hits # {} THEN hits ELSE {rd[j].page : j \in Of(rd, out[n].doc)})
  BY DEF Proven, HitsIn, Hits
<1>1. PICK doc, v, x : doc = out[n].doc /\ v = Norm[out[n].fields[f]] /\ x = <<f, v>>
  OBVIOUS
<1>2. x \in Pairs(rs, doc) /\ PageOf(rs, doc, x) = out[n].page
  BY <1>1, FiledPairs
<1>3. PICK o : o = Origin(rs, doc, x)
  OBVIOUS
<1>4. o \in Of(rs, doc)
  BY <1>2, <1>3, PairOrigin
<1>5. /\ Hits(doc, x[2]) # {} => PageOf(rs, doc, x) \in Hits(doc, x[2])
      /\ Hits(doc, x[2]) = {} => PageOf(rs, doc, x) = rs[o].page
  BY <1>2, <1>3, PageProven
<1>6. o \in Of(rd, doc) /\ rd[o].page = rs[o].page
  BY <1>4 DEF Claimed, Of
<1>7. x[2] = v
  BY <1>1
<1> QED
  BY <1>1, <1>2, <1>5, <1>6, <1>7

PagesInv ==
    /\ PeopleInv
    /\ stage \in {"read", "named"} => Claimed(read, records)
    /\ stage = "filed" => Proven(texts, read, records)

(* The invariant of the pages holds at the start,                           *)
LEMMA PagesInit == DossierInit => PagesInv
  BY PeopleInit DEF DossierInit, PagesInv, Claimed

(* and after every step.                                                    *)
LEMMA PagesStep == PagesInv /\ [DossierNext]_dossierVars => PagesInv'
<1> SUFFICES ASSUME PagesInv, [DossierNext]_dossierVars PROVE PagesInv'
  OBVIOUS
<1>1. PeopleInv /\ PeopleInv'
  BY PeopleStep DEF PagesInv
<1>2. DossierTypeOK
  BY <1>1 DEF PeopleInv
<1>3. IsRecords(records) /\ texts \in TextLayers
  BY <1>2, TypesAre
<1>4. CASE Consolidate("read", "named")
  <2>1. PICK d, out : /\ d = Decided(records) /\ out = Rewritten(records, d) /\ records' = out
                      /\ stage = "read" /\ stage' = "named" /\ read' = read
    BY <1>4 DEF Consolidate, given
  <2>2. DecidedOn(records, d)
    BY <1>3, <2>1 DEF DecidedOn
  <2>3. DOMAIN out = DOMAIN records
    BY <2>1, <2>2, RewrittenShape
  <2>4. \A i \in DOMAIN records : out[i].doc = records[i].doc /\ out[i].page = records[i].page
    BY <2>1, <2>2, RewrittenShape
  <2>5. Claimed(read, records)
    BY <2>1 DEF PagesInv
  <2>6. Claimed(read, out)
    BY <2>3, <2>4, <2>5 DEF Claimed
  <2> QED
    BY <1>1, <2>1, <2>6 DEF PagesInv
<1>5. CASE Reattribute
  <2>1. PICK out : /\ out = ReattributedOf(records) /\ records' = out
                   /\ stage = "named" /\ stage' = "filed" /\ read' = read /\ texts' = texts
    BY <1>5 DEF Reattribute, given
  <2>2. Claimed(read, records)
    BY <2>1 DEF PagesInv
  <2>3. Proven(texts, read, out)
    BY <1>3, <2>1, <2>2, TextsTyped, FilingProves
  <2>4. Proven(texts, read, records)'
    BY <2>1, <2>3
  <2> QED
    BY <1>1, <2>1, <2>4 DEF PagesInv
<1>6. CASE Consolidate("filed", "done")
  BY <1>1, <1>6 DEF PagesInv, Consolidate
<1>7. CASE UNCHANGED dossierVars
  BY <1>1, <1>7 DEF PagesInv, dossierVars, given
<1> QED
  BY <1>4, <1>5, <1>6, <1>7 DEF DossierNext

(* It says that pages are settled.                                          *)
LEMMA PagesKnow == PagesInv => PagesSettled
<1> SUFFICES ASSUME PagesInv PROVE PagesSettled
  OBVIOUS
<1>1. DossierTypeOK
  BY DEF PagesInv, PeopleInv
<1>2. SettledPages
  BY <1>1, TypesAre, PagesSettle
<1>3. PagesProven
  BY DEF PagesInv, Proven, HitsIn, Hits, PagesProven
<1> QED
  BY <1>2, <1>3 DEF PagesSettled

(* Every value is on a page that has it, or on one that was cited for it,   *)
(* and filing the dossier once more moves nothing.                          *)
THEOREM PagesAreSettled == DossierSpec => []PagesSettled
<1>1. DossierInit => PagesInv
  BY PagesInit
<1>2. PagesInv /\ [DossierNext]_dossierVars => PagesInv'
  BY PagesStep
<1>3. PagesInv => PagesSettled
  BY PagesKnow
<1> QED
  BY <1>1, <1>2, <1>3, PTL DEF DossierSpec

-----------------------------------------------------------------------------
(* The dossier has a value for the fields its pages have, and no others.    *)
LEMMA FieldsValued ==
    ASSUME NEW rs, NEW d, DecidedOn(rs, d), NEW out, out = Rewritten(rs, d), NEW f \in Open(d)
    PROVE  Ballot(rs, d, f) # {} <=> \E i \in DOMAIN rs : f \in DOMAIN out[i].fields
<1>1. IsRecords(rs) /\ DOMAIN d.person = Reads(rs)
  BY DecisionIs
<1>2. \A i \in DOMAIN rs : f \in DOMAIN out[i].fields <=> \E g \in DOMAIN rs[i].fields : f \in Targets(d, i, g)
  BY RewrittenShape
<1>3. CASE f = Amount
  <2>1. Ballot(rs, d, f) # {} <=> \E i \in DOMAIN rs : f \in DOMAIN rs[i].fields
    <3>1. Ballot(rs, d, f) = Single(rs, f)
      BY <1>3, BallotIs
    <3>2. Single(rs, f) # {} <=> \E i \in DOMAIN rs : f \in DOMAIN rs[i].fields
      BY DEF Single, Has
    <3> QED
      BY <3>1, <3>2
  <2>2. \A i \in DOMAIN rs : f \in DOMAIN rs[i].fields <=> \E g \in DOMAIN rs[i].fields : f \in Targets(d, i, g)
    BY <1>3, TargetOfAmount, TargetTyped
  <2> QED
    BY <1>2, <2>1, <2>2
<1>4. CASE f # Amount
  <2>1. PICK key, part : key = KeyOf(f) /\ part = f[3]
    OBVIOUS
  <2>2. key \in Keys /\ part \in Parts /\ f = FieldAt(key, part)
    BY <1>4, <2>1, OpenFields
  <2>3. Ballot(rs, d, f) # {} <=> Own(rs, d, f) # {} \/ Lone(rs, d, f) # {}
    <3>1. Own(rs, d, f) \in SUBSET Reads(rs) /\ \A x \in Own(rs, d, f) : Has(rs[x[1]], FieldAt(x[2], part))
      BY <2>1 DEF Own
    <3>2. PartsRead(rs, Own(rs, d, f), part) = {} <=> Own(rs, d, f) = {}
      BY <1>1, <3>1, VotesOfReads
    <3>3. Strays(rs, d, f) = {} <=> Lone(rs, d, f) = {}
      BY DEF Strays
    <3> QED
      BY <1>4, <2>1, <3>2, <3>3, BallotIs
  <2>4. ASSUME NEW x \in Own(rs, d, f) PROVE \E i \in DOMAIN rs : f \in DOMAIN out[i].fields
    <3>1. PICK i, k, p, g : i = x[1] /\ k = x[2] /\ p = d.person[x] /\ g = FieldAt(k, part)
      OBVIOUS
    <3>2. x \in Reads(rs) /\ p \in DOMAIN d.keyOf /\ d.keyOf[p] = key /\ Has(rs[i], g)
      BY <2>1, <3>1 DEF Own
    <3>3. i \in DOMAIN rs /\ k \in Keys /\ x = <<i, k>> /\ g \in DOMAIN rs[i].fields
      BY <1>1, <3>1, <3>2, ReadShape DEF Has
    <3>4. g # Amount /\ KeyOf(g) = k /\ g[3] = part
      BY <2>2, <3>1, <3>3, FieldOfKey
    <3>5. Targets(d, i, g) = {FieldAt(d.keyOf[p], g[3])}
      BY <3>1, <3>2, <3>3, <3>4, TargetOfRead
    <3> QED
      BY <1>2, <2>2, <3>2, <3>3, <3>4, <3>5
  <2>5. ASSUME NEW i \in Lone(rs, d, f) PROVE f \in DOMAIN out[i].fields /\ i \in DOMAIN rs
    <3>1. /\ i \in DOMAIN rs /\ f = <<"borrower", 0, "address">> /\ d.borrower # {}
          /\ f \in DOMAIN rs[i].fields /\ KeyOf(f) \notin Named(rs[i])
      BY DEF Lone, Has
    <3>2. <<i, KeyOf(f)>> \notin Reads(rs)
      <4>1. <<i, KeyOf(f)>> \in Reads(rs) => KeyOf(f) \in Named(rs[i])
        BY DEF Reads
      <4> QED
        BY <3>1, <4>1
    <3>3. f[1] = "borrower"
      BY <3>1
    <3>4. Targets(d, i, f) = {f}
      BY <1>4, <3>1, <3>2, <3>3, TargetOfRest
    <3> QED
      BY <1>2, <3>1, <3>4
  <2>6. ASSUME NEW i \in DOMAIN rs, f \in DOMAIN out[i].fields, Own(rs, d, f) = {} PROVE i \in Lone(rs, d, f)
    <3>1. PICK g \in DOMAIN rs[i].fields : f \in Targets(d, i, g)
      BY <1>2, <2>6
    <3>2. g \in SchemaFields /\ g # Amount /\ g[3] = part
      BY <1>1, <1>4, <2>1, <3>1, TargetTyped, FieldsTyped
    <3>3. g = FieldAt(KeyOf(g), part) /\ KeyOf(g) \in Keys
      BY <3>2, FieldShape
    <3>4. ASSUME <<i, KeyOf(g)>> \in Reads(rs) PROVE FALSE
      <4>1. PICK x, p : x = <<i, KeyOf(g)>> /\ p = d.person[x]
        OBVIOUS
      <4>2. p \in DOMAIN d.keyOf
        BY <3>1, <3>2, <3>4, <4>1, TargetOfRead
      <4>3. Targets(d, i, g) = {FieldAt(d.keyOf[p], g[3])} /\ KeyOf(FieldAt(d.keyOf[p], g[3])) = d.keyOf[p]
        BY <3>2, <3>4, <4>1, <4>2, TargetOfRead
      <4>4. d.keyOf[p] = KeyOf(f)
        BY <3>1, <4>3
      <4>5. x[1] = i /\ x[2] = KeyOf(g)
        BY <4>1
      <4>6. x \in Own(rs, d, f)
        BY <2>1, <3>3, <3>4, <4>1, <4>2, <4>4, <4>5 DEF Own, Has
      <4> QED
        BY <2>6, <4>6
    <3>5. Targets(d, i, g) = (IF g[1] = "borrower" /\ d.borrower # {} THEN {g} ELSE {}) /\ ~IsName(g)
      BY <3>2, <3>4, TargetOfRest
    <3>6. f = g /\ g[1] = "borrower" /\ d.borrower # {}
      BY <3>1, <3>5
    <3>7. f = <<"borrower", 0, "address">>
      <4>1. KeyOf(g)[1] = "borrower" /\ KeyOf(g)[2] = 0
        BY <3>2, <3>3, <3>6, FieldShape, KeyShape
      <4>2. part = "address"
        BY <2>1, <2>2, <3>5, <3>6 DEF Parts, IsName
      <4> QED
        BY <3>3, <3>6, <4>1, <4>2 DEF FieldAt
    <3>8. KeyOf(f) \notin Named(rs[i])
      BY <3>4, <3>6 DEF Reads
    <3> QED
      BY <3>6, <3>7, <3>8 DEF Lone, Has
  <2> QED
    BY <2>3, <2>4, <2>5, <2>6
<1> QED
  BY <1>3, <1>4

-----------------------------------------------------------------------------
(* The outcome of a consolidation, consolidated again.                     *)
Twice(rs, d, out, e) ==
    DecidedOn(rs, d) /\ Clear(NamesIn(rs)) /\ out = Rewritten(rs, d) /\ e = Decided(out)

(* What there is to know about two decisions in a row.                      *)
LEMMA TwiceIs ==
    ASSUME NEW rs, NEW d, NEW out, NEW e, Twice(rs, d, out, e)
    PROVE  /\ DecidedOn(rs, d) /\ DecidedOn(out, e) /\ IsRecords(rs) /\ IsRecords(out)
           /\ out = Rewritten(rs, d) /\ DOMAIN out = DOMAIN rs
           /\ d.person = PersonOf(rs) /\ e.person = PersonOf(out)
           /\ DOMAIN d.person = Reads(rs) /\ DOMAIN e.person = Reads(out)
           /\ Clear(NamesIn(rs)) /\ Clear(NamesIn(out))
<1>1. DecidedOn(rs, d) /\ out = Rewritten(rs, d) /\ Clear(NamesIn(rs)) /\ e = Decided(out)
  BY DEF Twice
<1>2. IsRecords(out) /\ DOMAIN out = DOMAIN rs
  BY <1>1, RewrittenShape
<1>3. DecidedOn(out, e)
  BY <1>1, <1>2 DEF DecidedOn
<1>4. IsRecords(rs) /\ d.person = PersonOf(rs) /\ DOMAIN d.person = Reads(rs)
  BY <1>1, DecisionIs
<1>5. e.person = PersonOf(out) /\ DOMAIN e.person = Reads(out)
  BY <1>3, DecisionIs
<1>6. Clear(NamesIn(out))
  <2>1. NamesIn(out) \subseteq NamesIn(rs)
    BY <1>1, NoNewNames
  <2> QED
    BY <1>1, <2>1 DEF Clear
<1> QED
  BY <1>1, <1>2, <1>3, <1>4, <1>5, <1>6

(* A person of the outcome is a key of it.                                  *)
LEMMA OnePersonPerKey ==
    ASSUME NEW rs, NEW d, NEW out, NEW e, Twice(rs, d, out, e), NEW y \in Reads(out), NEW z \in Reads(out)
    PROVE  e.person[y] = e.person[z] <=> y[2] = z[2]
<1>1. DecidedOn(rs, d) /\ out = Rewritten(rs, d) /\ IsRecords(out) /\ IsRecords(rs)
  BY TwiceIs
<1>2. PICK v \in Reads(rs) : /\ v[1] = y[1] /\ d.person[v] \in DOMAIN d.keyOf
                            /\ y[2] = d.keyOf[d.person[v]] /\ NameAt(out, y) = NameAt(rs, v)
  BY <1>1, ReadOfParty
<1>3. PICK w \in Reads(rs) : /\ w[1] = z[1] /\ d.person[w] \in DOMAIN d.keyOf
                            /\ z[2] = d.keyOf[d.person[w]] /\ NameAt(out, z) = NameAt(rs, w)
  BY <1>1, ReadOfParty
<1>4. y[2] = z[2] <=> d.person[v] = d.person[w]
  BY <1>1, <1>2, <1>3, KeysApart
<1>5. d.person = PersonOf(rs) /\ e.person = PersonOf(out) /\ Clear(NamesIn(rs)) /\ Clear(NamesIn(out))
  BY TwiceIs
<1>6. v = w \/ Same(NameAt(rs, v), NameAt(rs, w)) <=> d.person[v] = d.person[w]
  BY <1>1, <1>5, OneEach
<1>7. y = z \/ Same(NameAt(out, y), NameAt(out, z)) <=> e.person[y] = e.person[z]
  BY <1>1, <1>5, OneEach
<1>8. ASSUME y # z, y[2] = z[2] PROVE v # w
  <2>1. y = <<y[1], y[2]>> /\ z = <<z[1], z[2]>>
    BY <1>1, ReadShape
  <2> QED
    BY <1>2, <1>3, <1>8, <2>1
<1> QED
  BY <1>2, <1>3, <1>4, <1>6, <1>7, <1>8

(* The first read of a person of the outcome has the person's key.          *)
LEMMA PersonKey ==
    ASSUME NEW rs, NEW d, NEW out, NEW e, Twice(rs, d, out, e), NEW y \in Reads(out)
    PROVE  e.person[y] \in Reads(out) /\ e.person[y][2] = y[2] /\ e.person[y] \in Range(e.person)
<1>1. IsRecords(out) /\ e.person = PersonOf(out)
  BY TwiceIs
<1>2. e.person[y] \in Reads(out) /\ e.person[e.person[y]] = e.person[y] /\ e.person[y] \in Range(e.person)
  BY <1>1, PersonTyped, FoundersTyped
<1> QED
  BY <1>2, OnePersonPerKey

(* The first read of a party's key is in the record of the party's first.   *)
Moved(d, p) == <<p[1], d.keyOf[p]>>

(* A party's first read, under its new key, is the first read of that key.  *)
LEMMA FirstMoved ==
    ASSUME NEW rs, NEW d, NEW out, NEW e, Twice(rs, d, out, e), NEW p \in DOMAIN d.keyOf
    PROVE  /\ Moved(d, p) \in Reads(out) /\ e.person[Moved(d, p)] = Moved(d, p) /\ Moved(d, p) \in Range(e.person)
           /\ Moved(d, p)[1] = p[1] /\ Moved(d, p)[2] = d.keyOf[p] /\ p \in Reads(rs) /\ d.person[p] = p
<1>1. /\ DecidedOn(rs, d) /\ IsRecords(rs) /\ IsRecords(out) /\ out = Rewritten(rs, d)
      /\ d.person = PersonOf(rs) /\ e.person = PersonOf(out)
  BY TwiceIs
<1>2. p \in Reads(rs) /\ d.person[p] = p
  BY <1>1, PartiesTyped, FoundersTyped
<1>3. PICK m : m = Moved(d, p)
  OBVIOUS
<1>4. m[1] = p[1] /\ m[2] = d.keyOf[p] /\ m = <<p[1], d.keyOf[p]>>
  BY <1>3 DEF Moved
<1>5. m \in Reads(out)
  BY <1>1, <1>2, <1>4, PartyReads
<1>6. PICK q \in Reads(out) : q = e.person[m]
  BY <1>5, PersonKey
<1>7. q[2] = d.keyOf[p] /\ q \in Range(e.person)
  BY <1>4, <1>5, <1>6, PersonKey
<1>8. q = m \/ Sooner(q, m)
  BY <1>1, <1>5, <1>6, PersonTyped
<1>9. PICK x \in Reads(rs) : x[1] = q[1] /\ d.person[x] \in DOMAIN d.keyOf /\ q[2] = d.keyOf[d.person[x]]
  BY <1>1, ReadOfParty
<1>10. d.person[x] = p
  BY <1>1, <1>7, <1>9, KeysApart
<1>11. p = x \/ Sooner(p, x)
  BY <1>1, <1>10, PersonTyped
<1>12. /\ p \in Spots /\ x \in Spots /\ m \in Spots /\ q \in Spots
       /\ q[1] \in Nat /\ p[1] \in Nat /\ x[1] \in Nat
  BY <1>1, <1>2, <1>5, ReadsFinite, SpotShape
<1>13. p[1] <= q[1]
  BY <1>9, <1>11, <1>12 DEF Sooner
<1>14. ~Sooner(q, m)
  <2>1. ~Before(q[2], m[2])
    BY <1>4, <1>7, <1>12, SpotShape, KeysOrdered
  <2> QED
    BY <2>1, <1>4, <1>12, <1>13 DEF Sooner
<1>15. q = m
  BY <1>8, <1>14
<1> QED
  BY <1>2, <1>3, <1>4, <1>5, <1>6, <1>7, <1>15

(* There is nobody else in the outcome.                                     *)
LEMMA MovedIs ==
    ASSUME NEW rs, NEW d, NEW out, NEW e, Twice(rs, d, out, e), NEW q \in Range(e.person)
    PROVE  \E p \in DOMAIN d.keyOf : q = Moved(d, p)
<1>1. DecidedOn(rs, d) /\ IsRecords(out) /\ out = Rewritten(rs, d) /\ e.person = PersonOf(out)
  BY TwiceIs
<1>2. q \in Reads(out) /\ e.person[q] = q
  BY <1>1, FoundersTyped
<1>3. PICK x \in Reads(rs) : d.person[x] \in DOMAIN d.keyOf /\ q[2] = d.keyOf[d.person[x]]
  BY <1>1, <1>2, ReadOfParty
<1>4. PICK p \in DOMAIN d.keyOf : q[2] = d.keyOf[p]
  BY <1>3
<1>5. Moved(d, p) \in Reads(out) /\ e.person[Moved(d, p)] = Moved(d, p) /\ Moved(d, p)[2] = q[2]
  BY <1>4, FirstMoved
<1>6. e.person[Moved(d, p)] = e.person[q]
  BY <1>2, <1>5, OnePersonPerKey
<1> QED
  BY <1>2, <1>5, <1>6

RecsOf(person, p) == {x[1] : x \in {y \in DOMAIN person : person[y] = p}}

(* A party is read in the same records as before.                           *)
LEMMA MovedRecords ==
    ASSUME NEW rs, NEW d, NEW out, NEW e, Twice(rs, d, out, e), NEW p \in DOMAIN d.keyOf
    PROVE  RecsOf(e.person, Moved(d, p)) = RecsOf(d.person, p) /\ RecsOf(d.person, p) \subseteq DOMAIN rs
<1>1. /\ DecidedOn(rs, d) /\ out = Rewritten(rs, d) /\ IsRecords(rs)
      /\ DOMAIN d.person = Reads(rs) /\ DOMAIN e.person = Reads(out)
  BY TwiceIs
<1>2. PICK m : m = Moved(d, p)
  OBVIOUS
<1>3. m \in Reads(out) /\ m[2] = d.keyOf[p] /\ e.person[m] = m
  BY <1>2, FirstMoved
<1>4. ASSUME NEW x \in Reads(rs), d.person[x] = p PROVE x[1] \in RecsOf(e.person, m)
  <2>1. PICK y : y = <<x[1], d.keyOf[p]>>
    OBVIOUS
  <2>2. y \in Reads(out)
    BY <1>1, <1>4, <2>1, PartyReads
  <2>3. y[1] = x[1] /\ y[2] = m[2]
    BY <1>3, <2>1
  <2>4. e.person[y] = m
    BY <1>3, <2>2, <2>3, OnePersonPerKey
  <2> QED
    BY <1>1, <2>2, <2>3, <2>4 DEF RecsOf
<1>5. ASSUME NEW y \in Reads(out), e.person[y] = m PROVE y[1] \in RecsOf(d.person, p)
  <2>1. y[2] = d.keyOf[p]
    BY <1>3, <1>5, OnePersonPerKey
  <2>2. PICK x \in Reads(rs) : x[1] = y[1] /\ d.person[x] \in DOMAIN d.keyOf /\ y[2] = d.keyOf[d.person[x]]
    BY <1>1, ReadOfParty
  <2>3. d.person[x] = p
    BY <1>1, <2>1, <2>2, KeysApart
  <2> QED
    BY <1>1, <2>2, <2>3 DEF RecsOf
<1>6. \A i : i \in RecsOf(d.person, p) <=> \E x \in Reads(rs) : d.person[x] = p /\ i = x[1]
  BY <1>1 DEF RecsOf
<1>7. \A i : i \in RecsOf(e.person, m) <=> \E y \in Reads(out) : e.person[y] = m /\ i = y[1]
  BY <1>1 DEF RecsOf
<1>8. RecsOf(e.person, m) = RecsOf(d.person, p)
  <2>1. \A i : i \in RecsOf(d.person, p) => i \in RecsOf(e.person, m)
    BY <1>4, <1>6
  <2>2. \A i : i \in RecsOf(e.person, m) => i \in RecsOf(d.person, p)
    BY <1>5, <1>7
  <2> QED
    BY <2>1, <2>2
<1>9. RecsOf(d.person, p) \subseteq DOMAIN rs
  BY <1>1, <1>6, ReadShape
<1> QED
  BY <1>2, <1>8, <1>9

(* The borrower stays the borrower.                                         *)
LEMMA BorrowerStays ==
    ASSUME NEW rs, NEW d, NEW out, NEW e, Twice(rs, d, out, e)
    PROVE  /\ \A p \in DOMAIN d.keyOf : Moved(d, p) \in e.borrower <=> p \in d.borrower
           /\ e.borrower = {} <=> d.borrower = {}
           /\ \A p \in DOMAIN d.keyOf : d.keyOf[p][1] = "borrower" <=> p \in d.borrower
<1>1. /\ DecidedOn(rs, d) /\ DecidedOn(out, e) /\ out = Rewritten(rs, d) /\ IsRecords(out)
      /\ e.person = PersonOf(out)
  BY TwiceIs
<1>2. e.borrower = Borrower(out, e.person)
  BY <1>1, DecisionIs
<1>3. PICK b : b = e.borrower
  OBVIOUS
<1>4. /\ b \in SUBSET Range(e.person) /\ \A p, q \in b : p = q
      /\ b # {} <=> \E x \in Reads(out) : x[2][1] = "borrower"
      /\ \A p \in b : \E x \in Reads(out) : e.person[x] = p /\ RoleOf(out, x) = "borrower"
  BY <1>1, <1>2, <1>3, BorrowerIs
<1>5. ASSUME NEW p \in DOMAIN d.keyOf PROVE d.keyOf[p][1] = "borrower" <=> p \in d.borrower
  BY <1>1, KeysAre
<1>6. ASSUME NEW q \in b PROVE q[2][1] = "borrower"
  <2>1. PICK x \in Reads(out) : e.person[x] = q /\ RoleOf(out, x) = "borrower"
    BY <1>4
  <2>2. x[2][1] = "borrower"
    BY <2>1, RoleRead
  <2> QED
    BY <2>1, <2>2, PersonKey
<1>7. ASSUME NEW p \in DOMAIN d.keyOf PROVE Moved(d, p) \in b <=> p \in d.borrower
  <2>1. /\ Moved(d, p) \in Reads(out) /\ Moved(d, p)[2] = d.keyOf[p]
        /\ e.person[Moved(d, p)] = Moved(d, p)
    BY FirstMoved
  <2>2. Moved(d, p) \in b => p \in d.borrower
    BY <1>5, <1>6, <2>1
  <2>3. ASSUME p \in d.borrower PROVE Moved(d, p) \in b
    <3>1. Moved(d, p)[2][1] = "borrower"
      BY <1>5, <2>1, <2>3
    <3>2. PICK q \in b : TRUE
      BY <1>4, <2>1, <3>1
    <3>3. q \in Range(e.person)
      BY <1>4
    <3>4. PICK r \in DOMAIN d.keyOf : q = Moved(d, r)
      BY <3>3, MovedIs
    <3>5. q[2] = d.keyOf[r]
      BY <3>4, FirstMoved
    <3>6. r \in d.borrower
      BY <1>5, <1>6, <3>5
    <3>7. r = p
      BY <1>1, <2>3, <3>6, PartiesTyped
    <3> QED
      BY <3>4, <3>7
  <2> QED
    BY <2>2, <2>3
<1>8. b = {} <=> d.borrower = {}
  <2>1. d.borrower \in SUBSET DOMAIN d.keyOf
    BY <1>1, PartiesTyped
  <2>2. \A q \in b : \E p \in DOMAIN d.keyOf : q = Moved(d, p)
    BY <1>4, MovedIs
  <2> QED
    BY <2>1, <2>2, <1>7
<1> QED
  BY <1>3, <1>5, <1>7, <1>8

(* Whoever is a party stays one.                                            *)
PartyIn(rs, person, borrower, p) ==
    \/ borrower \in {{}, {p}}
    \/ \E i \in RecsOf(person, p) : rs[i].doc \in PartyDocs
    \/ \E b \in borrower : RecsOf(person, p) \cap RecsOf(person, b) # {}
    \/ Cardinality({rs[i].page : i \in RecsOf(person, p)} \ {0}) >= 2

(* Who is a party, by the records of people.                                *)
LEMMA PartiesAre ==
    ASSUME NEW rs, NEW d, DecidedOn(rs, d)
    PROVE  DOMAIN d.keyOf = {p \in Range(d.person) : PartyIn(rs, d.person, d.borrower, p)}
<1>1. DOMAIN d.keyOf = PartiesOf(rs, d)
  BY PartiesTyped
<1> QED
  BY <1>1 DEF PartiesOf, Parties, PartyIn, RecsOf

(* Whoever was a party is one of the outcome.                               *)
LEMMA PartiesStay ==
    ASSUME NEW rs, NEW d, NEW out, NEW e, Twice(rs, d, out, e), NEW p \in DOMAIN d.keyOf
    PROVE  Moved(d, p) \in DOMAIN e.keyOf
<1>1. DecidedOn(rs, d) /\ DecidedOn(out, e) /\ out = Rewritten(rs, d) /\ DOMAIN out = DOMAIN rs
  BY TwiceIs
<1>2. PICK m : m = Moved(d, p)
  OBVIOUS
<1>3. m \in Range(e.person)
  BY <1>2, FirstMoved
<1>4. PartyIn(rs, d.person, d.borrower, p)
  BY <1>1, PartiesAre
<1>5. RecsOf(e.person, m) = RecsOf(d.person, p) /\ RecsOf(d.person, p) \subseteq DOMAIN rs
  BY <1>2, MovedRecords
<1>6. \A i \in DOMAIN rs : out[i].doc = rs[i].doc /\ out[i].page = rs[i].page
  BY <1>1, RewrittenShape
<1>7. \A q, r \in e.borrower : q = r
  BY <1>1, PartiesTyped
<1>8. CASE d.borrower = {}
  <2>1. e.borrower = {}
    BY <1>8, BorrowerStays
  <2>2. PartyIn(out, e.person, e.borrower, m)
    BY <2>1 DEF PartyIn
  <2> QED
    BY <1>1, <1>2, <1>3, <2>2, PartiesAre
<1>9. CASE d.borrower = {p}
  <2>1. m \in e.borrower
    BY <1>2, <1>9, BorrowerStays
  <2>2. e.borrower = {m}
    BY <1>7, <2>1
  <2>3. PartyIn(out, e.person, e.borrower, m)
    BY <2>2 DEF PartyIn
  <2> QED
    BY <1>1, <1>2, <1>3, <2>3, PartiesAre
<1>10. CASE \E i \in RecsOf(d.person, p) : rs[i].doc \in PartyDocs
  <2>1. PartyIn(out, e.person, e.borrower, m)
    BY <1>5, <1>6, <1>10 DEF PartyIn
  <2> QED
    BY <1>1, <1>2, <1>3, <2>1, PartiesAre
<1>11. CASE \E b \in d.borrower : RecsOf(d.person, p) \cap RecsOf(d.person, b) # {}
  <2>1. PICK b \in d.borrower : RecsOf(d.person, p) \cap RecsOf(d.person, b) # {}
    BY <1>11
  <2>2. b \in DOMAIN d.keyOf
    BY <1>1, PartiesTyped
  <2>3. Moved(d, b) \in e.borrower
    BY <2>2, BorrowerStays
  <2>4. RecsOf(e.person, Moved(d, b)) = RecsOf(d.person, b)
    BY <2>2, MovedRecords
  <2>5. PartyIn(out, e.person, e.borrower, m)
    BY <1>5, <2>1, <2>3, <2>4 DEF PartyIn
  <2> QED
    BY <1>1, <1>2, <1>3, <2>5, PartiesAre
<1>12. CASE Cardinality({rs[i].page : i \in RecsOf(d.person, p)} \ {0}) >= 2
  <2>1. {rs[i].page : i \in RecsOf(d.person, p)} = {out[i].page : i \in RecsOf(e.person, m)}
    BY <1>5, <1>6
  <2>2. PartyIn(out, e.person, e.borrower, m)
    BY <2>1, <1>12 DEF PartyIn
  <2> QED
    BY <1>1, <1>2, <1>3, <2>2, PartiesAre
<1> QED
  BY <1>2, <1>4, <1>8, <1>9, <1>10, <1>11, <1>12 DEF PartyIn

(* The parties of the outcome, and their roles.                             *)
LEMMA PartiesMoved ==
    ASSUME NEW rs, NEW d, NEW out, NEW e, Twice(rs, d, out, e)
    PROVE  /\ \A p \in DOMAIN d.keyOf : Moved(d, p) \in DOMAIN e.keyOf
           /\ \A q \in DOMAIN e.keyOf : \E p \in DOMAIN d.keyOf : q = Moved(d, p)
           /\ Range(e.person) = DOMAIN e.keyOf
           /\ \A p, q \in DOMAIN d.keyOf : Moved(d, p) = Moved(d, q) => p = q
<1>1. DecidedOn(rs, d) /\ DecidedOn(out, e)
  BY TwiceIs
<1>2. \A p \in DOMAIN d.keyOf : Moved(d, p) \in DOMAIN e.keyOf
  BY PartiesStay
<1>3. \A q \in Range(e.person) : \E p \in DOMAIN d.keyOf : q = Moved(d, p)
  BY MovedIs
<1>4. DOMAIN e.keyOf \subseteq Range(e.person)
  BY <1>1, PartiesTyped
<1>5. ASSUME NEW p \in DOMAIN d.keyOf, NEW q \in DOMAIN d.keyOf, Moved(d, p) = Moved(d, q) PROVE p = q
  <2>1. d.keyOf[p] = d.keyOf[q]
    BY <1>5 DEF Moved
  <2> QED
    BY <1>1, <2>1, KeysApart
<1> QED
  BY <1>2, <1>3, <1>4, <1>5

(* A party of the outcome has the role it was written with.                 *)
LEMMA RolesStay ==
    ASSUME NEW rs, NEW d, NEW out, NEW e, Twice(rs, d, out, e), NEW p \in DOMAIN d.keyOf
    PROVE  /\ Moved(d, p) \in GuarantorsOf(out, e) <=> p \in GuarantorsOf(rs, d)
           /\ Moved(d, p) \in OthersOf(out, e) <=> p \in OthersOf(rs, d)
<1>1. DecidedOn(rs, d) /\ DecidedOn(out, e)
  BY TwiceIs
<1>2. PICK m : m = Moved(d, p)
  OBVIOUS
<1>3. m \in DOMAIN e.keyOf /\ (m \in e.borrower <=> p \in d.borrower)
  BY <1>2, PartiesMoved, BorrowerStays
<1>4. m \in Reads(out) /\ e.person[m] = m /\ m[2] = d.keyOf[p]
  BY <1>2, FirstMoved
<1>5. \A y \in Reads(out) : e.person[y] = m => y[2] = m[2]
  BY <1>4, OnePersonPerKey
<1>6. m \in GuarantorsOf(out, e) <=> p \notin d.borrower /\ d.keyOf[p][1] = "guarantor"
  BY <1>3, <1>4, <1>5 DEF GuarantorsOf
<1>7. d.keyOf[p][1] = "guarantor" <=> p \in GuarantorsOf(rs, d)
  BY <1>1, KeysAre
<1>8. p \in GuarantorsOf(rs, d) => p \notin d.borrower
  BY DEF GuarantorsOf
<1>9. m \in GuarantorsOf(out, e) <=> p \in GuarantorsOf(rs, d)
  BY <1>6, <1>7, <1>8
<1> QED
  BY <1>2, <1>3, <1>9 DEF OthersOf

(* Two groups in the same order have the same numbers.                      *)
LEMMA SameNumber ==
    ASSUME NEW A, IsFiniteSet(A), NEW B, NEW f \in [A -> B], NEW p \in A,
           \A r, s \in A : f[r] = f[s] => r = s, \A b \in B : \E a \in A : f[a] = b,
           \A r, s \in A : Sooner(r, s) <=> Sooner(f[r], f[s])
    PROVE  NumberIn(f[p], B) = NumberIn(p, A)
<1>1. PICK S : S = {q \in A : q = p \/ Sooner(q, p)}
  OBVIOUS
<1>2. PICK T : T = {q \in B : q = f[p] \/ Sooner(q, f[p])}
  OBVIOUS
<1>3. PICK g : g = [s \in S |-> f[s]]
  OBVIOUS
<1>4. S \in SUBSET A
  BY <1>1
<1>5. IsFiniteSet(S)
  BY <1>4, FS_Subset
<1>6. \A s \in A : f[s] \in B /\ (s \in S <=> f[s] \in T)
  BY <1>1, <1>2
<1>7. g \in [S -> T]
  BY <1>3, <1>4, <1>6
<1>8. \A r, s \in S : g[r] = g[s] => r = s
  BY <1>3, <1>4
<1>9. \A t \in T : \E s \in S : g[s] = t
  BY <1>2, <1>3, <1>6
<1>10. g \in Surjection(S, T) /\ g \in Injection(S, T)
  BY <1>7, <1>8, <1>9 DEF Surjection, Injection, IsInjective
<1>11. Cardinality(T) = Cardinality(S)
  BY <1>5, <1>10, FS_Surjection
<1> QED
  BY <1>1, <1>2, <1>11 DEF NumberIn

(* In a group of less than ten the order of the keys is that of the numbers. *)
LEMMA OrderStays ==
    ASSUME NEW rs, NEW d, NEW out, NEW e, Twice(rs, d, out, e), \A p \in DOMAIN d.keyOf : d.keyOf[p][2] < 10,
           NEW group, group \in {GuarantorsOf(rs, d), OthersOf(rs, d)}, NEW p \in group, NEW q \in group
    PROVE  Sooner(p, q) <=> Sooner(Moved(d, p), Moved(d, q))
<1>1. DecidedOn(rs, d) /\ IsRecords(out)
  BY TwiceIs
<1>2. group \in SUBSET DOMAIN d.keyOf
  BY DEF GuarantorsOf, OthersOf
<1>3. IsFiniteSet(group) /\ group \in SUBSET Spots
  BY <1>1, <1>2, PartiesTyped, FS_Subset
<1>4. \A r \in group : Moved(d, r)[1] = r[1] /\ Moved(d, r)[2] = d.keyOf[r] /\ Moved(d, r) \in Spots /\ r[1] \in Nat
  <2> TAKE r \in group
  <2>1. Moved(d, r)[1] = r[1] /\ Moved(d, r)[2] = d.keyOf[r] /\ Moved(d, r) \in Reads(out)
    BY <1>2, FirstMoved
  <2>2. Moved(d, r) \in Spots
    BY <1>1, <2>1, ReadsFinite
  <2> QED
    BY <1>3, <2>1, <2>2, SpotShape
<1>5. \E role : \A r \in group : d.keyOf[r] = <<role, NumberIn(r, group)>>
  <2>1. CASE group = GuarantorsOf(rs, d)
    <3>1. \A r \in group : d.keyOf[r] = <<"guarantor", NumberIn(r, group)>>
      BY <1>1, <1>2, <2>1, KeysAre
    <3> QED
      BY <3>1
  <2>2. CASE group = OthersOf(rs, d)
    <3>1. \A r \in group : d.keyOf[r] = <<"co_borrower", NumberIn(r, group)>>
      BY <1>1, <1>2, <2>2, KeysAre
    <3> QED
      BY <3>1
  <2> QED
    BY <2>1, <2>2
<1>6. PICK role : \A r \in group : d.keyOf[r] = <<role, NumberIn(r, group)>>
  BY <1>5
<1>7. \A r \in group : NumberIn(r, group) \in Nat /\ NumberIn(r, group) < 10
  <2> TAKE r \in group
  <2>1. NumberIn(r, group) \in Nat
    BY <1>3, NumberTyped
  <2>2. d.keyOf[r][2] < 10
    BY <1>2
  <2> QED
    BY <1>6, <2>1, <2>2
<1>8. ASSUME NEW r \in group, NEW s \in group, Sooner(r, s) PROVE Sooner(Moved(d, r), Moved(d, s))
  <2>1. NumberIn(r, group) < NumberIn(s, group)
    BY <1>3, <1>8, NumbersGrow
  <2>2. PICK m, n : m = NumberIn(r, group) /\ n = NumberIn(s, group)
    OBVIOUS
  <2>3. m \in Nat /\ n \in Nat /\ m < n /\ m < 10 /\ n < 10
    BY <1>7, <2>1, <2>2
  <2>4. Padded(m) = 100 * m /\ Padded(n) = 100 * n
    BY <2>3 DEF Padded
  <2>5. Padded(m) < Padded(n)
    BY <2>3, <2>4
  <2>6. d.keyOf[r][1] = role /\ d.keyOf[s][1] = role /\ d.keyOf[r][2] = m /\ d.keyOf[s][2] = n
    BY <1>6, <2>2
  <2>7. Before(d.keyOf[r], d.keyOf[s])
    BY <2>5, <2>6 DEF Before
  <2>8. r[1] < s[1] \/ r[1] = s[1]
    BY <1>8 DEF Sooner
  <2> QED
    BY <1>4, <2>7, <2>8 DEF Sooner
<1>9. ASSUME Sooner(Moved(d, p), Moved(d, q)), ~Sooner(p, q) PROVE FALSE
  <2>1. p # q
    BY <1>4, <1>9, SoonerOrder
  <2>2. Sooner(q, p)
    BY <1>3, <1>9, <2>1, SoonerOrder
  <2>3. Sooner(Moved(d, q), Moved(d, p))
    BY <1>8, <2>2
  <2> QED
    BY <1>4, <1>9, <2>3, SoonerOrder
<1> QED
  BY <1>8, <1>9

(* So the numbers in a group stay.                                          *)
LEMMA NumberStays ==
    ASSUME NEW rs, NEW d, NEW out, NEW e, Twice(rs, d, out, e), \A p \in DOMAIN d.keyOf : d.keyOf[p][2] < 10,
           NEW A, NEW B, NEW p \in A, \/ A = GuarantorsOf(rs, d) /\ B = GuarantorsOf(out, e)
                                      \/ A = OthersOf(rs, d) /\ B = OthersOf(out, e)
    PROVE  NumberIn(Moved(d, p), B) = NumberIn(p, A)
<1>1. DecidedOn(rs, d) /\ DecidedOn(out, e)
  BY TwiceIs
<1>2. A \in SUBSET DOMAIN d.keyOf /\ B \in SUBSET DOMAIN e.keyOf
  BY DEF GuarantorsOf, OthersOf
<1>3. IsFiniteSet(A)
  BY <1>1, <1>2, PartiesTyped, FS_Subset
<1>4. \A r \in DOMAIN d.keyOf : Moved(d, r) \in B <=> r \in A
  BY RolesStay
<1>5. PICK f : f = [r \in A |-> Moved(d, r)]
  OBVIOUS
<1>6. f \in [A -> B] /\ \A r \in A : f[r] = Moved(d, r)
  BY <1>2, <1>4, <1>5
<1>7. \A r, s \in A : f[r] = f[s] => r = s
  BY <1>2, <1>6, PartiesMoved
<1>8. \A b \in B : \E a \in A : f[a] = b
  <2> TAKE b \in B
  <2>1. PICK a \in DOMAIN d.keyOf : b = Moved(d, a)
    BY <1>2, PartiesMoved
  <2> QED
    BY <1>4, <1>6, <2>1
<1>9. \A r, s \in A : Sooner(r, s) <=> Sooner(f[r], f[s])
  <2> TAKE r, s \in A
  <2>1. Sooner(r, s) <=> Sooner(Moved(d, r), Moved(d, s))
    BY OrderStays
  <2> QED
    BY <1>6, <2>1
<1>10. NumberIn(f[p], B) = NumberIn(p, A)
  BY <1>3, <1>6, <1>7, <1>8, <1>9, SameNumber
<1> QED
  BY <1>6, <1>10

(* The keys of the outcome are the keys it was written with.                *)
LEMMA KeysStay ==
    ASSUME NEW rs, NEW d, NEW out, NEW e, Twice(rs, d, out, e), \A p \in DOMAIN d.keyOf : d.keyOf[p][2] < 10
    PROVE  /\ \A p \in DOMAIN d.keyOf : e.keyOf[Moved(d, p)] = d.keyOf[p]
           /\ \A y \in Reads(out) : e.person[y] \in DOMAIN e.keyOf /\ e.keyOf[e.person[y]] = y[2]
           /\ Range(e.keyOf) = Range(d.keyOf)
<1>1. DecidedOn(rs, d) /\ DecidedOn(out, e)
  BY TwiceIs
<1>2. ASSUME NEW p \in DOMAIN d.keyOf PROVE e.keyOf[Moved(d, p)] = d.keyOf[p]
  <2>1. PICK m : m = Moved(d, p)
    OBVIOUS
  <2>2. m \in DOMAIN e.keyOf
    BY <2>1, PartiesMoved
  <2>3. CASE p \in d.borrower
    <3>1. m \in e.borrower
      BY <2>1, <2>3, BorrowerStays
    <3> QED
      BY <1>1, <2>1, <2>2, <2>3, <3>1, KeysAre
  <2>4. CASE p \in GuarantorsOf(rs, d)
    <3>1. m \in GuarantorsOf(out, e)
      BY <2>1, <2>4, RolesStay
    <3>2. NumberIn(m, GuarantorsOf(out, e)) = NumberIn(p, GuarantorsOf(rs, d))
      BY <2>1, <2>4, NumberStays
    <3> QED
      BY <1>1, <2>1, <2>2, <2>4, <3>1, <3>2, KeysAre
  <2>5. CASE p \in OthersOf(rs, d)
    <3>1. m \in OthersOf(out, e)
      BY <2>1, <2>5, RolesStay
    <3>2. NumberIn(m, OthersOf(out, e)) = NumberIn(p, OthersOf(rs, d))
      BY <2>1, <2>5, NumberStays
    <3> QED
      BY <1>1, <2>1, <2>2, <2>5, <3>1, <3>2, KeysAre
  <2> QED
    BY <1>1, <2>3, <2>4, <2>5, KeysAre
<1>3. ASSUME NEW y \in Reads(out) PROVE e.person[y] \in DOMAIN e.keyOf /\ e.keyOf[e.person[y]] = y[2]
  <2>1. PICK q : q = e.person[y]
    OBVIOUS
  <2>2. q \in DOMAIN e.keyOf /\ q[2] = y[2]
    BY <2>1, PersonKey, PartiesMoved
  <2>3. PICK p \in DOMAIN d.keyOf : q = Moved(d, p)
    BY <2>2, PartiesMoved
  <2>4. e.keyOf[q] = d.keyOf[p] /\ q[2] = d.keyOf[p]
    BY <1>2, <2>3, FirstMoved
  <2> QED
    BY <2>1, <2>2, <2>4
<1>4. Range(e.keyOf) = Range(d.keyOf)
  <2>1. \A p \in DOMAIN d.keyOf : \E q \in DOMAIN e.keyOf : e.keyOf[q] = d.keyOf[p]
    BY <1>2, PartiesMoved
  <2>2. \A q \in DOMAIN e.keyOf : \E p \in DOMAIN d.keyOf : e.keyOf[q] = d.keyOf[p]
    BY <1>2, PartiesMoved
  <2> QED
    BY <2>1, <2>2 DEF Range
<1> QED
  BY <1>2, <1>3, <1>4

(* So no field of the outcome moves.                                        *)
LEMMA FieldsStay ==
    ASSUME NEW rs, NEW d, NEW out, NEW e, Twice(rs, d, out, e), \A p \in DOMAIN d.keyOf : d.keyOf[p][2] < 10,
           NEW i \in DOMAIN out, NEW t \in DOMAIN out[i].fields
    PROVE  Targets(e, i, t) = {t}
<1>1. /\ DecidedOn(rs, d) /\ DecidedOn(out, e) /\ out = Rewritten(rs, d) /\ IsRecords(out) /\ i \in DOMAIN rs
  BY TwiceIs
<1>2. t \in SchemaFields
  BY <1>1, FieldsTyped
<1>3. CASE t = Amount
  BY <1>3, TargetOfAmount
<1>4. CASE t # Amount /\ <<i, KeyOf(t)>> \in Reads(out)
  <2>1. PICK y, q : y = <<i, KeyOf(t)>> /\ q = e.person[y]
    OBVIOUS
  <2>2. q \in DOMAIN e.keyOf /\ e.keyOf[q] = KeyOf(t)
    BY <1>4, <2>1, KeysStay
  <2>3. Targets(e, i, t) = {FieldAt(e.keyOf[q], t[3])}
    BY <1>1, <1>4, <2>1, <2>2, TargetOfRead
  <2> QED
    BY <1>2, <1>4, <2>2, <2>3, FieldShape
<1>5. CASE t # Amount /\ <<i, KeyOf(t)>> \notin Reads(out)
  <2>1. PICK f \in DOMAIN rs[i].fields : t \in Targets(d, i, f)
    BY <1>1, RewrittenShape
  <2>2. f # Amount
    BY <1>1, <1>5, <2>1, TargetTyped
  <2>3. <<i, KeyOf(f)>> \notin Reads(rs)
    <3> SUFFICES ASSUME <<i, KeyOf(f)>> \in Reads(rs) PROVE FALSE
      OBVIOUS
    <3>1. PICK x, p : x = <<i, KeyOf(f)>> /\ p = d.person[x]
      OBVIOUS
    <3>2. p \in DOMAIN d.keyOf
      BY <1>1, <2>1, <2>2, <3>1, TargetOfRead
    <3>3. Targets(d, i, f) = {FieldAt(d.keyOf[p], f[3])} /\ KeyOf(FieldAt(d.keyOf[p], f[3])) = d.keyOf[p]
      BY <1>1, <2>2, <3>1, <3>2, TargetOfRead
    <3>4. KeyOf(t) = d.keyOf[d.person[x]] /\ x[1] = i /\ x \in Reads(rs)
      BY <2>1, <3>1, <3>3
    <3>5. <<x[1], d.keyOf[d.person[x]]>> \in Reads(out)
      BY <1>1, <3>1, <3>2, <3>4, PartyReads
    <3> QED
      BY <1>5, <3>4, <3>5
  <2>4. Targets(d, i, f) = IF f[1] = "borrower" /\ d.borrower # {} THEN {f} ELSE {}
    BY <1>1, <2>2, <2>3, TargetOfRest
  <2>5. t = f /\ t[1] = "borrower" /\ d.borrower # {}
    BY <2>1, <2>4
  <2>6. e.borrower # {}
    BY <2>5, BorrowerStays
  <2>7. Targets(e, i, t) = IF t[1] = "borrower" /\ e.borrower # {} THEN {t} ELSE {}
    BY <1>1, <1>5, TargetOfRest
  <2> QED
    BY <2>5, <2>6, <2>7
<1> QED
  BY <1>3, <1>4, <1>5

(* The second rewriting returns the records it was given.                   *)
LEMMA RecordsStay ==
    ASSUME NEW rs, NEW d, NEW out, NEW e, Twice(rs, d, out, e), \A p \in DOMAIN d.keyOf : d.keyOf[p][2] < 10
    PROVE  Rewritten(out, e) = out
<1>1. DecidedOn(out, e) /\ IsRecords(out)
  BY TwiceIs
<1>2. PICK again : again = Rewritten(out, e)
  OBVIOUS
<1>3. IsRecords(again) /\ DOMAIN again = DOMAIN out
  BY <1>1, <1>2, RewrittenShape
<1>4. ASSUME NEW i \in DOMAIN out PROVE again[i] = out[i]
  <2>1. \A t \in DOMAIN out[i].fields : Targets(e, i, t) = {t}
    BY <1>4, FieldsStay
  <2>2. /\ again[i].doc = out[i].doc /\ again[i].page = out[i].page
        /\ \A t : t \in DOMAIN again[i].fields <=> \E f \in DOMAIN out[i].fields : t \in Targets(e, i, f)
        /\ \A t \in DOMAIN again[i].fields : \E f \in DOMAIN out[i].fields :
               t \in Targets(e, i, f) /\ again[i].fields[t] = out[i].fields[f]
    BY <1>1, <1>2, RewrittenShape
  <2>3. DOMAIN again[i].fields = DOMAIN out[i].fields
    <3>1. \A t : t \in DOMAIN again[i].fields <=> \E f \in DOMAIN out[i].fields : t \in {f}
      BY <2>1, <2>2
    <3> QED
      BY <3>1
  <2>4. \A t \in DOMAIN out[i].fields : again[i].fields[t] = out[i].fields[t]
    BY <2>1, <2>2, <2>3
  <2>5. /\ again[i].fields \in [DOMAIN again[i].fields -> DOMAIN Length]
        /\ out[i].fields \in [DOMAIN out[i].fields -> DOMAIN Length]
    BY <1>1, <1>3, FieldsTyped
  <2>6. again[i].fields = out[i].fields
    BY <2>3, <2>4, <2>5
  <2>7. IsRecord(again[i]) /\ IsRecord(out[i])
    BY <1>1, <1>3 DEF IsRecords
  <2>8. /\ again[i] = [doc |-> again[i].doc, page |-> again[i].page, fields |-> again[i].fields]
        /\ out[i] = [doc |-> out[i].doc, page |-> out[i].page, fields |-> out[i].fields]
    BY <2>7 DEF IsRecord
  <2> QED
    BY <2>2, <2>6, <2>8
<1>5. again = [i \in DOMAIN again |-> again[i]] /\ out = [i \in DOMAIN out |-> out[i]]
  BY <1>1, <1>3, RecordsShape
<1>6. again = out
  BY <1>3, <1>4, <1>5
<1> QED
  BY <1>2, <1>6

(* The second pass has values for the same fields.                          *)
LEMMA ValuesStay ==
    ASSUME NEW rs, NEW d, NEW out, NEW e, Twice(rs, d, out, e), \A p \in DOMAIN d.keyOf : d.keyOf[p][2] < 10
    PROVE  DOMAIN Valued(out, e) = DOMAIN Valued(rs, d)
<1>1. DecidedOn(rs, d) /\ DecidedOn(out, e) /\ out = Rewritten(rs, d) /\ DOMAIN out = DOMAIN rs
  BY TwiceIs
<1>2. out = Rewritten(out, e)
  BY RecordsStay
<1>3. Open(e) = Open(d)
  BY KeysStay DEF Open
<1>4. \A f \in Open(d) : Ballot(rs, d, f) # {} <=> \E i \in DOMAIN rs : f \in DOMAIN out[i].fields
  BY <1>1, FieldsValued
<1>5. \A f \in Open(e) : Ballot(out, e, f) # {} <=> \E i \in DOMAIN out : f \in DOMAIN out[i].fields
  BY <1>1, <1>2, FieldsValued
<1>6. PICK vals, more : vals = Valued(rs, d) /\ more = Valued(out, e)
  OBVIOUS
<1>7. DOMAIN vals = {g \in Open(d) : Allows(g) /\ Ballot(rs, d, g) # {}}
  BY <1>1, <1>6, ValuedTyped
<1>8. DOMAIN more = {g \in Open(e) : Allows(g) /\ Ballot(out, e, g) # {}}
  BY <1>1, <1>6, ValuedTyped
<1>9. {g \in Open(d) : Allows(g) /\ Ballot(rs, d, g) # {}} = {g \in Open(e) : Allows(g) /\ Ballot(out, e, g) # {}}
  BY <1>1, <1>3, <1>4, <1>5
<1> QED
  BY <1>6, <1>7, <1>8, <1>9

-----------------------------------------------------------------------------
(* The inductive invariant of the numbers.  Whoever is like whom, is in what*)
(* was read, and so in the records.                                        *)
ClearIn(rd) == \A a, b \in NamesIn(rd) : b \in KinIn(NamesIn(rd), a) \ {a} => Same(a, b)
OneEachIn(vals) == \A f, g \in {h \in DOMAIN vals : IsName(h)} : Same(vals[f], vals[g]) => f = g
Stable(ask, rs, vals) ==
    \A d \in {Decided(rs)} :
        Rewritten(rs, d) = rs /\ {g \in Open(d) : AllowsBy(ask, g) /\ Ballot(rs, d, g) # {}} = DOMAIN vals
Few(rs) == \A x \in Reads(rs) : x[2][2] < 10

NumbersInv ==
    /\ PeopleInv
    /\ stage # "read" /\ ClearIn(read) => OneEachIn(values)
    /\ stage \in {"named", "done"} /\ ClearIn(read) /\ Few(records) => Stable(asked, records, values)

(* Where likeness is clear in what was read, it is for fewer names.         *)
LEMMA ClearNames ==
    ASSUME NEW rd, ClearIn(rd), NEW names, names \subseteq NamesIn(rd)
    PROVE  Clear(names)
<1> SUFFICES ASSUME NEW a \in names, NEW b \in names, NEW c \in names, Same(a, b), Same(b, c) PROVE Same(a, c)
  BY DEF Clear
<1>1. PICK all : all = NamesIn(rd)
  OBVIOUS
<1>2. a \in all /\ b \in all /\ c \in all
  BY <1>1
<1>3. b \in KinIn(all, a) /\ c \in KinIn(all, b)
  BY <1>2, KinAlike
<1>4. c \in KinIn(all, a)
  BY <1>2, <1>3, KinAlike
<1>5. c = a => Same(a, c)
  BY SameNames
<1> QED
  BY <1>1, <1>2, <1>4, <1>5 DEF ClearIn

(* After a consolidation the numbers are one each, and stable.              *)
LEMMA PassNumbers ==
    ASSUME NEW rd, ClearIn(rd), NEW rs, NamesIn(rs) \subseteq NamesIn(rd), NEW d, DecidedOn(rs, d),
           NEW out, out = Rewritten(rs, d), NEW vals, vals = Valued(rs, d)
    PROVE  /\ OneEachIn(vals)
           /\ Few(out) => Stable(asked, out, vals)
<1>1. Clear(NamesIn(rs))
  BY ClearNames
<1>2. OneEachIn(vals)
  BY <1>1, NumbersApartIn DEF OneEachIn
<1>3. ASSUME Few(out) PROVE Stable(asked, out, vals)
  <2>1. PICK e : e = Decided(out)
    OBVIOUS
  <2>2. Twice(rs, d, out, e)
    BY <1>1, <2>1 DEF Twice
  <2>3. \A p \in DOMAIN d.keyOf : d.keyOf[p][2] < 10
    <3> TAKE p \in DOMAIN d.keyOf
    <3>1. IsRecords(rs) /\ d.person = PersonOf(rs)
      BY DecisionIs
    <3>2. p \in Reads(rs) /\ d.person[p] = p
      BY <3>1, PartiesTyped, FoundersTyped
    <3>3. <<p[1], d.keyOf[p]>> \in Reads(out)
      BY <3>2, PartyReads
    <3> QED
      BY <1>3, <3>3 DEF Few
  <2>4. Rewritten(out, e) = out
    BY <2>2, <2>3, RecordsStay
  <2>5. DOMAIN Valued(out, e) = DOMAIN Valued(rs, d)
    BY <2>2, <2>3, ValuesStay
  <2>6. DecidedOn(out, e)
    BY <2>2, TwiceIs
  <2>7. PICK more : more = Valued(out, e)
    OBVIOUS
  <2>8. DOMAIN more = {g \in Open(e) : Allows(g) /\ Ballot(out, e, g) # {}}
    BY <2>6, <2>7, ValuedTyped
  <2>9. \A f : Allows(f) <=> AllowsBy(asked, f)
    BY DEF Allows, AllowsBy
  <2>10. {g \in Open(e) : AllowsBy(asked, g) /\ Ballot(out, e, g) # {}} = DOMAIN vals
    BY <2>5, <2>7, <2>8, <2>9
  <2> QED
    BY <2>1, <2>4, <2>10 DEF Stable
<1> QED
  BY <1>2, <1>3

(* The invariant of the numbers is kept by every step.                      *)
LEMMA NumbersStep == NumbersInv /\ [DossierNext]_dossierVars => NumbersInv'
<1> SUFFICES ASSUME NumbersInv, [DossierNext]_dossierVars PROVE NumbersInv'
  OBVIOUS
<1>1. PeopleInv /\ PeopleInv'
  BY PeopleStep DEF NumbersInv
<1>2. ASSUME NEW from, NEW to, Consolidate(from, to), ClearIn(read)
      PROVE  OneEachIn(values') /\ (Few(records') => Stable(asked, records', values'))
  <2>1. PICK d : d = Decided(records) /\ records' = Rewritten(records, d) /\ values' = Valued(records, d)
    BY <1>2 DEF Consolidate
  <2>2. IsRecords(records) /\ NamesIn(records) \subseteq NamesIn(read)
    BY <1>1, TypesAre DEF PeopleInv
  <2>3. DecidedOn(records, d)
    BY <2>1, <2>2 DEF DecidedOn
  <2>4. PICK out, vals : out = records' /\ vals = values'
    OBVIOUS
  <2>5. OneEachIn(vals) /\ (Few(out) => Stable(asked, out, vals))
    BY <1>2, <2>1, <2>2, <2>3, <2>4, PassNumbers
  <2> QED
    BY <2>4, <2>5
<1>3. CASE \E from, to \in {"read", "named", "filed", "done"} : Consolidate(from, to)
  <2>1. read' = read /\ asked' = asked
    BY <1>3 DEF Consolidate, given
  <2> QED
    BY <1>1, <1>2, <1>3, <2>1 DEF NumbersInv
<1>4. CASE Reattribute
  <2>1. read' = read /\ values' = values /\ stage = "named" /\ stage' = "filed"
    BY <1>4 DEF Reattribute, given
  <2> QED
    BY <1>1, <2>1 DEF NumbersInv
<1>5. CASE UNCHANGED dossierVars
  BY <1>1, <1>5 DEF NumbersInv, dossierVars, given
<1> QED
  BY <1>3, <1>4, <1>5 DEF DossierNext

(* It says that the numbers hold.                                           *)
LEMMA NumbersKnow == NumbersInv => NumbersHold
<1> SUFFICES ASSUME NumbersInv PROVE NumbersHold
  OBVIOUS
<1>1. ClearLikeness <=> ClearIn(read)
  BY KinIs DEF ClearLikeness, ClearIn
<1>2. OneNumberEach
  BY <1>1 DEF OneNumberEach, OneEachIn, NumbersInv
<1>3. ASSUME stage \in {"named", "done"}, ClearLikeness, FewPeople, NEW d \in {Decided(records)}
      PROVE  Rewritten(records, d) = records /\ DOMAIN Valued(records, d) = DOMAIN values
  <2>1. DossierTypeOK
    BY DEF NumbersInv, PeopleInv
  <2>2. DecidedOn(records, d)
    BY <2>1, TypesAre DEF DecidedOn
  <2>3. Rewritten(records, d) = records
        /\ {g \in Open(d) : AllowsBy(asked, g) /\ Ballot(records, d, g) # {}} = DOMAIN values
    BY <1>1, <1>3 DEF NumbersInv, FewPeople, Few, Stable
  <2>4. PICK vals : vals = Valued(records, d)
    OBVIOUS
  <2>5. DOMAIN vals = {g \in Open(d) : Allows(g) /\ Ballot(records, d, g) # {}}
    BY <2>2, <2>4, ValuedTyped
  <2>6. \A f : Allows(f) <=> AllowsBy(asked, f)
    BY DEF Allows, AllowsBy
  <2> QED
    BY <2>3, <2>4, <2>5, <2>6
<1>4. StableNumbers
  BY <1>3 DEF StableNumbers
<1> QED
  BY <1>2, <1>4 DEF NumbersHold

(* Everyone gets one number, and for good: no two parties have names alike, *)
(* and consolidating the outcome again renumbers nobody and loses nothing.  *)
THEOREM NumbersAreHeld == DossierSpec => []NumbersHold
<1>1. DossierInit => NumbersInv
  <2>1. DossierInit => PeopleInv
    BY PeopleInit
  <2>2. DossierInit => stage = "read"
    BY DEF DossierInit
  <2> QED
    BY <2>1, <2>2 DEF NumbersInv
<1>2. NumbersInv /\ [DossierNext]_dossierVars => NumbersInv'
  BY NumbersStep
<1>3. NumbersInv => NumbersHold
  BY NumbersKnow
<1> QED
  BY <1>1, <1>2, <1>3, PTL DEF DossierSpec

-----------------------------------------------------------------------------
(* The review of the dossier.                                              *)
USE LegalReviewAssumption DEF job

(* The copies jobs are about to write back follow the decisions, apart     *)
(* from the fields they are behind in; restored ones are behind in all.    *)
CopiesFollow ==
    /\ \A j \in Jobs : pc[j] \in {"snapshot", "judging", "saving", "filing", "restoring"}
                        => Follows(held[j])
    /\ \A j \in Jobs : pc[j] \in {"restoring", "restored"} => heldRes[j].behind = Fields

CopiesKeep ==
    /\ \A j \in Jobs : KeepsReading(held[j]) /\ KeepsReading(heldRes[j])
    /\ KeepsReading(snap.data) /\ KeepsReading(snap.results)

ReviewInv == /\ LegalReviewTypeOK
             /\ CorrectionsStand /\ CopiesFollow
             /\ ReadingKept /\ CopiesKeep

Log == [Fields -> Decision]

-----------------------------------------------------------------------------
(* What the operators on extractions do.                                   *)

(* A field's trust is one of the marks.                                     *)
LEMMA FieldTrustType == \A e : FieldTrust(e) \in Trust
  BY DEF FieldTrust, Trust

(* A judged extraction differs in its trust and the replay mark only. *)
LEMMA EvaluateIs ==
    ASSUME NEW e \in Extraction, NEW L \in Log, NEW S \in SUBSET {f \in Fields : Stands(L, f)}
    PROVE  LET x == Evaluate(e, L, S)
           IN  /\ x \in Extraction
               /\ x.value = e.value /\ x.read = e.read /\ x.model = e.model
               /\ x.over = e.over /\ x.behind = e.behind
               /\ x.replay = "none" <=> e.replay = "none"
<1> DEFINE T == [f \in Fields |-> IF e.value[f] = Blank THEN "none"
                                  ELSE IF f \in S THEN L[f].action ELSE FieldTrust(e.proof[f])]
<1>1. T \in [Fields -> Trust]
  <2> SUFFICES ASSUME NEW f \in Fields
               PROVE (IF e.value[f] = Blank THEN "none" ELSE IF f \in S THEN L[f].action
                      ELSE FieldTrust(e.proof[f])) \in Trust
    OBVIOUS
  <2>1. f \in S => L[f].action \in Trust
    BY DEF Stands, Trust
  <2>2. FieldTrust(e.proof[f]) \in Trust
    BY FieldTrustType
  <2> QED
    BY <2>1, <2>2 DEF Trust
<1> DEFINE R == IF e.replay = "unjudged" THEN "judged" ELSE e.replay
<1>2. Evaluate(e, L, S) = [e EXCEPT !.trust = T, !.replay = R]
  BY DEF Evaluate
<1>3. R \in {"none", "unjudged", "judged"} /\ (R = "none" <=> e.replay = "none")
  BY DEF Extraction
<1> HIDE DEF T, R
<1> QED
  BY <1>1, <1>2, <1>3 DEF Extraction

(* Laying decisions over an extraction sets the corrected fields only. *)
LEMMA OverlayIs ==
    ASSUME NEW e \in Extraction, NEW L \in Log
    PROVE  LET x == Overlay(e, L)
           IN  /\ x \in Extraction
               /\ x.read = e.read /\ x.replay = e.replay /\ x.behind = e.behind \ Corrected(L)
               /\ \A f \in Corrected(L) : /\ x.value[f] = L[f].value /\ x.over[f] = L[f].value
                                          /\ x.model[f] = IF e.model[f] = Unset THEN e.value[f] ELSE e.model[f]
               /\ \A f \in Fields \ Corrected(L) : /\ x.value[f] = e.value[f] /\ x.over[f] = e.over[f]
                                                    /\ x.model[f] = e.model[f]
<1> DEFINE V == [f \in Fields |-> IF f \in Corrected(L) THEN L[f].value ELSE e.value[f]]
           M == [f \in Fields |-> IF f \in Corrected(L) /\ e.model[f] = Unset
                                  THEN e.value[f] ELSE e.model[f]]
           O == [f \in Fields |-> IF f \in Corrected(L) THEN L[f].value ELSE e.over[f]]
           B == e.behind \ Corrected(L)
<1>1. Overlay(e, L) = [e EXCEPT !.value = V, !.model = M, !.over = O, !.behind = B]
  BY DEF Overlay
<1>2. /\ V \in [Fields -> Value] /\ M \in [Fields -> Value \cup {Unset}]
      /\ O \in [Fields -> Value \cup {Unset}] /\ B \in SUBSET Fields
  BY DEF Extraction, Log, Decision
<1>3. /\ \A f \in Corrected(L) : V[f] = L[f].value /\ O[f] = L[f].value
                                  /\ M[f] = IF e.model[f] = Unset THEN e.value[f] ELSE e.model[f]
      /\ \A f \in Fields \ Corrected(L) : V[f] = e.value[f] /\ O[f] = e.over[f] /\ M[f] = e.model[f]
  BY DEF Corrected
<1> HIDE DEF V, M, O, B
<1>4. /\ Overlay(e, L) \in Extraction
      /\ Overlay(e, L).value = V /\ Overlay(e, L).model = M /\ Overlay(e, L).over = O
      /\ Overlay(e, L).behind = B /\ Overlay(e, L).read = e.read /\ Overlay(e, L).replay = e.replay
  BY <1>1, <1>2 DEF Extraction
<1> QED
  BY <1>3, <1>4 DEF B

(* A decision only holds where it stands.                                   *)
LEMMA HoldingStands ==
    ASSUME NEW e, NEW L PROVE Holding(e, L) \in SUBSET {f \in Fields : Stands(L, f)}
  BY DEF Holding, Stands

(* Judging changes the marks and nothing else.                              *)
LEMMA JudgeIs ==
    ASSUME NEW e \in Extraction, NEW L \in Log
    PROVE  LET x == Judge(e, L)
           IN  /\ x \in Extraction
               /\ x.value = e.value /\ x.read = e.read /\ x.model = e.model
               /\ x.over = e.over /\ x.behind = e.behind
               /\ x.replay = "none" <=> e.replay = "none"
  BY EvaluateIs, HoldingStands DEF Judge

(* So does judging again.                                                   *)
LEMMA RejudgeIs ==
    ASSUME NEW e \in Extraction, NEW L \in Log
    PROVE  LET x == Rejudge(e, L)
           IN  /\ x \in Extraction
               /\ x.value = e.value /\ x.read = e.read /\ x.model = e.model
               /\ x.over = e.over /\ x.behind = e.behind
               /\ x.replay = "none" <=> e.replay = "none"
  BY EvaluateIs DEF Rejudge

(* A fresh extraction is what was read, behind in the corrected fields.     *)
LEMMA FreshIs ==
    ASSUME NEW r \in [value : [Fields -> Value], proof : [Fields -> Evidence]], NEW L \in Log
    PROVE  /\ Fresh(r, L) \in Extraction
           /\ Fresh(r, L).value = r.value /\ Fresh(r, L).read = r.value
           /\ Fresh(r, L).over = [f \in Fields |-> Unset] /\ Fresh(r, L).model = [f \in Fields |-> Unset]
           /\ Fresh(r, L).behind = Corrected(L)
<1> DEFINE N == [f \in Fields |-> "none"]
           U == [f \in Fields |-> Unset]
<1>1. N \in [Fields -> Trust] /\ U \in [Fields -> Value \cup {Unset}]
  BY DEF Trust
<1>2. Corrected(L) \in SUBSET Fields
  BY DEF Corrected
<1>3. Fresh(r, L) = [value |-> r.value, read |-> r.value, proof |-> r.proof, model |-> U, over |-> U,
                     trust |-> N, behind |-> Corrected(L), replay |-> "none"]
  BY DEF Fresh
<1> HIDE DEF N
<1>4. Fresh(r, L).over = U /\ Fresh(r, L).model = U
  BY <1>3
<1> HIDE DEF U
<1>5. Fresh(r, L) \in Extraction
  BY <1>1, <1>2, <1>3 DEF Extraction
<1> QED
  BY <1>3, <1>4, <1>5 DEF U

(* Without an event nothing is corrected.                                   *)
LEMMA NoEventType == NoEvent \in Log /\ Corrected(NoEvent) = {}
  BY DEF NoEvent, Log, Decision, Value, Corrected

(* The empty extraction is one, and keeps its reading.                      *)
LEMMA EmptyIs == Empty \in Extraction /\ KeepsReading(Empty)
<1> DEFINE r == [value |-> [f \in Fields |-> Blank], proof |-> [f \in Fields |-> NoEvidence]]
<1>1. NoEvidence \in Evidence
  BY DEF NoEvidence, Evidence
<1>2. r.value \in [Fields -> Value] /\ r.proof \in [Fields -> Evidence]
  BY <1>1 DEF Value
<1>3. r \in [value : [Fields -> Value], proof : [Fields -> Evidence]]
  BY <1>2
<1>4. Empty = Fresh(r, NoEvent)
  BY DEF Empty
<1> HIDE DEF r
<1> QED
  BY <1>3, <1>4, FreshIs, NoEventType DEF KeepsReading

(* A rebuild keeps the overrides and awaits judgement.                      *)
LEMMA RebuildIs ==
    ASSUME NEW e \in Extraction, NEW r \in Readings
    PROVE  /\ Rebuild(e, r) \in Extraction
           /\ Rebuild(e, r).over = e.over /\ Rebuild(e, r).behind = e.behind
           /\ Rebuild(e, r).replay = "unjudged"
<1>1. r.value \in [Fields -> Value] /\ r.proof \in [Fields -> Evidence]
  OBVIOUS
<1> QED
  BY <1>1 DEF Rebuild, Extraction

(* An extraction restored from a snapshot is behind in every field.         *)
LEMMA OldIs ==
    ASSUME NEW e \in Extraction
    PROVE  /\ Old(e) \in Extraction /\ Old(e).behind = Fields
           /\ KeepsReading(e) => KeepsReading(Old(e))
<1>1. Old(e) \in Extraction /\ Old(e).behind = Fields
  BY DEF Old, Extraction
<1>2. /\ Old(e).value = e.value /\ Old(e).read = e.read /\ Old(e).model = e.model
      /\ Old(e).over = e.over /\ Old(e).replay = e.replay
  BY DEF Old, Extraction
<1> QED
  BY <1>1, <1>2 DEF KeepsReading

(* A copy that falls behind in one more field. *)
LEMMA LagIs ==
    ASSUME NEW e \in Extraction, NEW f \in Fields
    PROVE  /\ Unaware(e, f) \in Extraction /\ Unaware(e, f).behind = e.behind \cup {f}
           /\ Unaware(e, f).over = e.over /\ (KeepsReading(e) => KeepsReading(Unaware(e, f)))
<1> DEFINE x == Unaware(e, f)
<1>1. x \in Extraction /\ x.behind = e.behind \cup {f}
  BY DEF Extraction, Unaware
<1>2. /\ x.value = e.value /\ x.read = e.read /\ x.model = e.model
      /\ x.over = e.over /\ x.replay = e.replay
  BY DEF Extraction, Unaware
<1> QED
  BY <1>1, <1>2 DEF KeepsReading

-----------------------------------------------------------------------------
(* The row after a save, and the copies of the jobs, which fall behind.    *)
LEMMA SavedIs ==
    ASSUME NEW f \in Fields, NEW e \in Extraction, NEW L \in Log
    PROVE  LET x == Rejudge(Aware(e, f), L)
           IN  /\ x \in Extraction
               /\ x.value = e.value /\ x.read = e.read /\ x.model = e.model
               /\ x.over = e.over /\ x.behind = e.behind \ {f}
               /\ x.replay = "none" <=> e.replay = "none"
<1> DEFINE x == Aware(e, f)
<1>1. /\ x \in Extraction /\ x.value = e.value /\ x.read = e.read /\ x.model = e.model
      /\ x.over = e.over /\ x.behind = e.behind \ {f} /\ x.replay = e.replay
  BY DEF Extraction, Aware
<1> HIDE DEF x
<1>2. x = Aware(e, f)
  BY DEF x
<1> QED
  BY <1>1, <1>2, RejudgeIs

(* A decision leaves the copies of the jobs behind in its field.            *)
LEMMA CopiesLag ==
    ASSUME NEW f \in Fields, held \in [Jobs -> Extraction],
           held' = [j \in Jobs |-> IF pc[j] = "idle" THEN held[j] ELSE Unaware(held[j], f)]
    PROVE  /\ held' \in [Jobs -> Extraction]
           /\ \A j \in Jobs : /\ held'[j].over = held[j].over
                              /\ pc[j] # "idle" => held'[j].behind = held[j].behind \cup {f}
                              /\ KeepsReading(held[j]) => KeepsReading(held'[j])
<1>1. ASSUME NEW j \in Jobs
      PROVE  /\ held'[j] \in Extraction /\ held'[j].over = held[j].over
             /\ pc[j] # "idle" => held'[j].behind = held[j].behind \cup {f}
             /\ KeepsReading(held[j]) => KeepsReading(held'[j])
  BY LagIs
<1> QED
  BY <1>1

(* The extraction a reviewer's decision leaves. *)
LEMMA CorrectIs ==
    ASSUME NEW f \in Fields, NEW v \in Value, NEW e \in Extraction
    PROVE  LET x == WithOverride(e, f, v)
           IN  /\ x \in Extraction /\ x.read = e.read /\ x.behind = e.behind /\ x.replay = e.replay
               /\ x.value[f] = v /\ x.over[f] = v
               /\ x.model[f] = IF e.model[f] = Unset THEN e.value[f] ELSE e.model[f]
               /\ \A g \in Fields \ {f} : /\ x.value[g] = e.value[g] /\ x.over[g] = e.over[g]
                                          /\ x.model[g] = e.model[g]
<1> DEFINE V == [e.value EXCEPT ![f] = v]
           M == [e.model EXCEPT ![f] = IF @ = Unset THEN e.value[f] ELSE @]
           O == [e.over EXCEPT ![f] = v]
<1>1. /\ V \in [Fields -> Value] /\ V[f] = v /\ \A g \in Fields \ {f} : V[g] = e.value[g]
      /\ M \in [Fields -> Value \cup {Unset}]
      /\ M[f] = IF e.model[f] = Unset THEN e.value[f] ELSE e.model[f]
      /\ \A g \in Fields \ {f} : M[g] = e.model[g]
      /\ O \in [Fields -> Value \cup {Unset}] /\ O[f] = v
      /\ \A g \in Fields \ {f} : O[g] = e.over[g]
  BY DEF Extraction
<1>2. WithOverride(e, f, v) = [e EXCEPT !.model = M, !.value = V, !.over = O]
  BY DEF WithOverride
<1> HIDE DEF V, M, O
<1> QED
  BY <1>1, <1>2 DEF Extraction

(* Taking an override back touches its field only.                          *)
LEMMA RevertIs ==
    ASSUME NEW f \in Fields, NEW v \in Value, NEW e \in Extraction
    PROVE  LET x == WithoutOverride(e, f, v)
           IN  /\ x \in Extraction /\ x.read = e.read /\ x.behind = e.behind /\ x.replay = e.replay
               /\ x.value[f] = v /\ x.over[f] = Unset /\ x.model[f] = Unset
               /\ \A g \in Fields \ {f} : /\ x.value[g] = e.value[g] /\ x.over[g] = e.over[g]
                                          /\ x.model[g] = e.model[g]
<1> DEFINE V == [e.value EXCEPT ![f] = v]
           M == [e.model EXCEPT ![f] = Unset]
           O == [e.over EXCEPT ![f] = Unset]
<1>1. /\ V \in [Fields -> Value] /\ V[f] = v /\ \A g \in Fields \ {f} : V[g] = e.value[g]
      /\ M \in [Fields -> Value \cup {Unset}] /\ M[f] = Unset
      /\ \A g \in Fields \ {f} : M[g] = e.model[g]
      /\ O \in [Fields -> Value \cup {Unset}] /\ O[f] = Unset
      /\ \A g \in Fields \ {f} : O[g] = e.over[g]
  BY DEF Extraction
<1>2. WithoutOverride(e, f, v) = [e EXCEPT !.model = M, !.value = V, !.over = O]
  BY DEF WithoutOverride
<1> HIDE DEF V, M, O
<1> QED
  BY <1>1, <1>2 DEF Extraction

(* The value a field is restored to is a value.                             *)
LEMMA RestoredType == ASSUME NEW f \in Fields, LegalReviewTypeOK PROVE Restored(f) \in Value
  BY DEF Restored, LegalReviewTypeOK, Extraction

(* The effect of each decision on the rows and on the copies. *)
Effect(f, a, v) ==
    /\ last' \in Log /\ last'[f] = [action |-> a, value |-> v] /\ v \in Value
    /\ \A g \in Fields \ {f} : last'[g] = last[g]
    /\ ed' \in Extraction /\ res' = ed'
    /\ ed'.read = ed.read /\ ed'.behind = ed.behind \ {f}
    /\ ed'.replay = "none" <=> ed.replay = "none"
    /\ \A g \in Fields \ {f} : /\ ed'.value[g] = ed.value[g] /\ ed'.over[g] = ed.over[g]
                               /\ ed'.model[g] = ed.model[g]
    /\ held' \in [Jobs -> Extraction]
    /\ \A j \in Jobs : /\ held'[j].over = held[j].over
                       /\ pc[j] # "idle" => held'[j].behind = held[j].behind \cup {f}
                       /\ KeepsReading(held[j]) => KeepsReading(held'[j])
    /\ edits' \in 0 .. MaxEdits
    /\ UNCHANGED <<snap, seen, pc, heldRes, jobs, crashed>>

(* What a correction does,                                                  *)
LEMMA CorrectEffect ==
    ASSUME NEW w, NEW f \in Fields, NEW v \in Value, LegalReviewTypeOK, Correct(w, f, v)
    PROVE  /\ Effect(f, "corrected", v)
           /\ ed'.value[f] = v /\ ed'.over[f] = v
           /\ ed'.model[f] = IF ed.model[f] = Unset THEN ed.value[f] ELSE ed.model[f]
<1> DEFINE e == WithOverride(ed, f, v)
<1>1. ed \in Extraction
  BY DEF LegalReviewTypeOK
<1>2. /\ e \in Extraction /\ e.read = ed.read /\ e.behind = ed.behind /\ e.replay = ed.replay
      /\ e.value[f] = v /\ e.over[f] = v
      /\ e.model[f] = IF ed.model[f] = Unset THEN ed.value[f] ELSE ed.model[f]
      /\ \A g \in Fields \ {f} : /\ e.value[g] = ed.value[g] /\ e.over[g] = ed.over[g]
                                 /\ e.model[g] = ed.model[g]
  BY <1>1, CorrectIs
<1>3. Record(w, f, "corrected", v, e)
  BY DEF Correct
<1> HIDE DEF e
<1>4. /\ last' = [last EXCEPT ![f] = [action |-> "corrected", value |-> v]]
      /\ ed' = Rejudge(Aware(e, f), last') /\ res' = ed'
      /\ held' = [j \in Jobs |-> IF pc[j] = "idle" THEN held[j] ELSE Unaware(held[j], f)]
      /\ edits' \in 0 .. MaxEdits
      /\ UNCHANGED <<snap, seen, pc, heldRes, jobs, crashed>>
  BY <1>3 DEF Record, LegalReviewTypeOK
<1>5. v \in Value /\ e \in Extraction /\ ed \in Extraction
  BY <1>1, <1>2
<1>6. last \in Log /\ held \in [Jobs -> Extraction]
  BY DEF LegalReviewTypeOK, Log
<1>7. /\ last' \in Log /\ last'[f] = [action |-> "corrected", value |-> v]
      /\ \A g \in Fields \ {f} : last'[g] = last[g]
  BY <1>4, <1>5, <1>6 DEF Log, Decision
<1>8. /\ ed' \in Extraction /\ ed'.value = e.value /\ ed'.read = e.read
      /\ ed'.model = e.model /\ ed'.over = e.over /\ ed'.behind = e.behind \ {f}
      /\ ed'.replay = "none" <=> e.replay = "none"
  <2> DEFINE x == Rejudge(Aware(e, f), last')
  <2>1. ed' = x
    BY <1>4
  <2>2. /\ x \in Extraction /\ x.value = e.value /\ x.read = e.read
        /\ x.model = e.model /\ x.over = e.over /\ x.behind = e.behind \ {f}
        /\ x.replay = "none" <=> e.replay = "none"
    BY <1>5, <1>7, SavedIs
  <2> HIDE DEF x
  <2> QED
    BY <2>1, <2>2
<1>9. /\ held' \in [Jobs -> Extraction]
      /\ \A j \in Jobs : /\ held'[j].over = held[j].over
                         /\ pc[j] # "idle" => held'[j].behind = held[j].behind \cup {f}
                         /\ KeepsReading(held[j]) => KeepsReading(held'[j])
  BY <1>4, <1>6, CopiesLag
<1> QED
  BY <1>1, <1>2, <1>4, <1>5, <1>7, <1>8, <1>9 DEF Effect

(* a confirmation,                                                          *)
LEMMA ConfirmEffect ==
    ASSUME NEW w, NEW f \in Fields, LegalReviewTypeOK, Confirm(w, f)
    PROVE  /\ Effect(f, "confirmed", ed.value[f])
           /\ ed'.value = ed.value /\ ed'.over = ed.over /\ ed'.model = ed.model
<1>1. ed \in Extraction /\ ed.value[f] \in Value
  BY DEF LegalReviewTypeOK, Extraction
<1>2. ed \in Extraction
  BY <1>1
<1>3. Record(w, f, "confirmed", ed.value[f], ed)
  BY DEF Confirm
<1>4. /\ last' = [last EXCEPT ![f] = [action |-> "confirmed", value |-> ed.value[f]]]
      /\ ed' = Rejudge(Aware(ed, f), last') /\ res' = ed'
      /\ held' = [j \in Jobs |-> IF pc[j] = "idle" THEN held[j] ELSE Unaware(held[j], f)]
      /\ edits' \in 0 .. MaxEdits
      /\ UNCHANGED <<snap, seen, pc, heldRes, jobs, crashed>>
  BY <1>3 DEF Record, LegalReviewTypeOK
<1>5. ed.value[f] \in Value /\ ed \in Extraction /\ ed \in Extraction
  BY <1>1, <1>2
<1>6. last \in Log /\ held \in [Jobs -> Extraction]
  BY DEF LegalReviewTypeOK, Log
<1>7. /\ last' \in Log /\ last'[f] = [action |-> "confirmed", value |-> ed.value[f]]
      /\ \A g \in Fields \ {f} : last'[g] = last[g]
  BY <1>4, <1>5, <1>6 DEF Log, Decision
<1>8. /\ ed' \in Extraction /\ ed'.value = ed.value /\ ed'.read = ed.read
      /\ ed'.model = ed.model /\ ed'.over = ed.over /\ ed'.behind = ed.behind \ {f}
      /\ ed'.replay = "none" <=> ed.replay = "none"
  <2> DEFINE x == Rejudge(Aware(ed, f), last')
  <2>1. ed' = x
    BY <1>4
  <2>2. /\ x \in Extraction /\ x.value = ed.value /\ x.read = ed.read
        /\ x.model = ed.model /\ x.over = ed.over /\ x.behind = ed.behind \ {f}
        /\ x.replay = "none" <=> ed.replay = "none"
    BY <1>5, <1>7, SavedIs
  <2> HIDE DEF x
  <2> QED
    BY <2>1, <2>2
<1>9. /\ held' \in [Jobs -> Extraction]
      /\ \A j \in Jobs : /\ held'[j].over = held[j].over
                         /\ pc[j] # "idle" => held'[j].behind = held[j].behind \cup {f}
                         /\ KeepsReading(held[j]) => KeepsReading(held'[j])
  BY <1>4, <1>6, CopiesLag
<1> QED
  BY <1>1, <1>2, <1>4, <1>5, <1>7, <1>8, <1>9 DEF Effect

(* and a reversal.                                                          *)
LEMMA RevertEffect ==
    ASSUME NEW w, NEW f \in Fields, LegalReviewTypeOK, Revert(w, f)
    PROVE  /\ Effect(f, "reverted", Restored(f))
           /\ ed'.value[f] = Restored(f) /\ ed'.over[f] = Unset /\ ed'.model[f] = Unset
<1> DEFINE e == WithoutOverride(ed, f, Restored(f))
<1>1. ed \in Extraction /\ Restored(f) \in Value
  BY RestoredType DEF LegalReviewTypeOK
<1>2. /\ e \in Extraction /\ e.read = ed.read /\ e.behind = ed.behind /\ e.replay = ed.replay
      /\ e.value[f] = Restored(f) /\ e.over[f] = Unset /\ e.model[f] = Unset
      /\ \A g \in Fields \ {f} : /\ e.value[g] = ed.value[g] /\ e.over[g] = ed.over[g]
                                 /\ e.model[g] = ed.model[g]
  BY <1>1, RevertIs
<1>3. Record(w, f, "reverted", Restored(f), e)
  BY DEF Revert
<1> HIDE DEF e
<1>4. /\ last' = [last EXCEPT ![f] = [action |-> "reverted", value |-> Restored(f)]]
      /\ ed' = Rejudge(Aware(e, f), last') /\ res' = ed'
      /\ held' = [j \in Jobs |-> IF pc[j] = "idle" THEN held[j] ELSE Unaware(held[j], f)]
      /\ edits' \in 0 .. MaxEdits
      /\ UNCHANGED <<snap, seen, pc, heldRes, jobs, crashed>>
  BY <1>3 DEF Record, LegalReviewTypeOK
<1>5. Restored(f) \in Value /\ e \in Extraction /\ ed \in Extraction
  BY <1>1, <1>2
<1>6. last \in Log /\ held \in [Jobs -> Extraction]
  BY DEF LegalReviewTypeOK, Log
<1>7. /\ last' \in Log /\ last'[f] = [action |-> "reverted", value |-> Restored(f)]
      /\ \A g \in Fields \ {f} : last'[g] = last[g]
  BY <1>4, <1>5, <1>6 DEF Log, Decision
<1>8. /\ ed' \in Extraction /\ ed'.value = e.value /\ ed'.read = e.read
      /\ ed'.model = e.model /\ ed'.over = e.over /\ ed'.behind = e.behind \ {f}
      /\ ed'.replay = "none" <=> e.replay = "none"
  <2> DEFINE x == Rejudge(Aware(e, f), last')
  <2>1. ed' = x
    BY <1>4
  <2>2. /\ x \in Extraction /\ x.value = e.value /\ x.read = e.read
        /\ x.model = e.model /\ x.over = e.over /\ x.behind = e.behind \ {f}
        /\ x.replay = "none" <=> e.replay = "none"
    BY <1>5, <1>7, SavedIs
  <2> HIDE DEF x
  <2> QED
    BY <2>1, <2>2
<1>9. /\ held' \in [Jobs -> Extraction]
      /\ \A j \in Jobs : /\ held'[j].over = held[j].over
                         /\ pc[j] # "idle" => held'[j].behind = held[j].behind \cup {f}
                         /\ KeepsReading(held[j]) => KeepsReading(held'[j])
  BY <1>4, <1>6, CopiesLag
<1> QED
  BY <1>1, <1>2, <1>4, <1>5, <1>7, <1>8, <1>9 DEF Effect

(* What a re-run and a judgement of a copy come to. *)
LEMMA JudgedIs ==
    ASSUME NEW e \in Extraction, NEW L \in Log
    PROVE  LET x == Reviewed(e, L)
           IN  /\ x \in Extraction
               /\ x.read = e.read /\ x.behind = e.behind \ Corrected(L)
               /\ x.replay = "none" <=> e.replay = "none"
               /\ \A f \in Corrected(L) : /\ x.value[f] = L[f].value /\ x.over[f] = L[f].value
                                          /\ x.model[f] = IF e.model[f] = Unset THEN e.value[f] ELSE e.model[f]
               /\ \A f \in Fields \ Corrected(L) : /\ x.value[f] = e.value[f] /\ x.over[f] = e.over[f]
                                                    /\ x.model[f] = e.model[f]
<1> DEFINE o == Overlay(e, L)
<1>1. o \in Extraction
  BY OverlayIs
<1> QED
  BY <1>1, JudgeIs, OverlayIs DEF Reviewed

-----------------------------------------------------------------------------
(* Types.                                                                  *)

(* The types hold at the start.                                             *)
LEMMA InitTypes == Init => LegalReviewTypeOK
<1> SUFFICES ASSUME Init PROVE LegalReviewTypeOK
  OBVIOUS
<1>1. PICK r \in Readings : ed = Judge(Fresh(r, NoEvent), NoEvent) /\ seen = [w \in Reviewers |-> r.value]
  BY DEF Init
<1>2. ed \in Extraction /\ r.value \in [Fields -> Value]
  BY <1>1, FreshIs, JudgeIs, NoEventType
<1>3. res = ed
  BY DEF Init
<1>4. /\ snap = [taken |-> FALSE, data |-> Empty, results |-> Empty] /\ last = NoEvent
      /\ pc = [j \in Jobs |-> "idle"]
      /\ held = [j \in Jobs |-> Empty] /\ heldRes = [j \in Jobs |-> Empty]
      /\ edits = 0 /\ jobs = 0 /\ crashed = FALSE
  BY DEF Init
<1>5. snap \in [taken : BOOLEAN, data : Extraction, results : Extraction]
  BY <1>4, EmptyIs
<1>6. held \in [Jobs -> Extraction] /\ heldRes \in [Jobs -> Extraction] /\ last \in [Fields -> Decision]
  BY <1>4, EmptyIs, NoEventType DEF Log
<1>7. seen \in [Reviewers -> [Fields -> Value]] /\ pc \in [Jobs -> Place]
  BY <1>1, <1>2, <1>4 DEF Place
<1>8. edits \in 0 .. MaxEdits /\ jobs \in 0 .. MaxJobs
  BY DEF Init
<1>9. crashed \in BOOLEAN
  BY DEF Init
<1> QED
  BY <1>2, <1>3, <1>5, <1>6, <1>7, <1>8, <1>9 DEF LegalReviewTypeOK

(* Every step keeps every variable in its type. *)
LEMMA StepTypes == LegalReviewTypeOK /\ [Next]_vars => LegalReviewTypeOK'
<1> SUFFICES ASSUME LegalReviewTypeOK, [Next]_vars PROVE LegalReviewTypeOK'
  OBVIOUS
<1> USE EmptyIs
<1> USE DEF LegalReviewTypeOK, Place
<1> HIDE DEF Extraction
<1>1. ASSUME NEW w \in Reviewers, Load(w) PROVE LegalReviewTypeOK'
  BY <1>1 DEF Load, Extraction
<1>2. ASSUME NEW w \in Reviewers, NEW f \in Fields, NEW v \in Value, Correct(w, f, v) PROVE LegalReviewTypeOK'
  BY <1>2, CorrectEffect DEF Effect, Log
<1>3. ASSUME NEW w \in Reviewers, NEW f \in Fields, Confirm(w, f) PROVE LegalReviewTypeOK'
  BY <1>3, ConfirmEffect DEF Effect, Log
<1>4. ASSUME NEW w \in Reviewers, NEW f \in Fields, Revert(w, f) PROVE LegalReviewTypeOK'
  BY <1>4, RevertEffect DEF Effect, Log
<1>5. ASSUME NEW j \in Jobs, NEW r \in Readings, Rerun(j, r) PROVE LegalReviewTypeOK'
  <2> DEFINE x == Reviewed(Fresh(r, last), last)
  <2>1. x \in Extraction
    BY FreshIs, JudgedIs DEF Log
  <2>2. held' = [held EXCEPT ![j] = x]
    BY <1>5 DEF Rerun, Hold
  <2> HIDE DEF x
  <2> QED
    BY <2>1, <2>2, <1>5 DEF Rerun, Start
<1>6. ASSUME NEW j \in Jobs, NEW r \in Readings, RerunUnjudged(j, r) PROVE LegalReviewTypeOK'
  <2>1. Fresh(r, last) \in Extraction /\ Overlay(Fresh(r, last), last) \in Extraction
    BY FreshIs, OverlayIs DEF Log
  <2> QED
    BY <2>1, <1>6 DEF RerunUnjudged, Start, Hold
<1>7. ASSUME NEW j \in Jobs, BackfillRead(j) PROVE LegalReviewTypeOK'
  BY <1>7 DEF BackfillRead, Start, Hold
<1>8. ASSUME NEW j \in Jobs, NEW r \in Readings, BackfillSnapshot(j, r) PROVE LegalReviewTypeOK'
  BY <1>8, RebuildIs DEF BackfillSnapshot, Goto, Hold
<1>9. ASSUME NEW j \in Jobs, TrustRead(j) PROVE LegalReviewTypeOK'
  BY <1>9 DEF TrustRead, Start, Hold
<1>10. ASSUME NEW j \in Jobs, TrustJudge(j) PROVE LegalReviewTypeOK'
  <2> DEFINE x == Reviewed(held[j], last)
  <2>1. x \in Extraction
    BY JudgedIs DEF Log
  <2>2. held' = [held EXCEPT ![j] = x]
    BY <1>10 DEF TrustJudge, Hold
  <2> HIDE DEF x
  <2> QED
    BY <2>1, <2>2, <1>10 DEF TrustJudge, Goto
<1>11. ASSUME NEW j \in Jobs, Save(j) PROVE LegalReviewTypeOK'
  BY <1>11 DEF Save, Goto
<1>12. ASSUME NEW j \in Jobs, File(j) PROVE LegalReviewTypeOK'
  BY <1>12 DEF File, Goto, Hold
<1>13. ASSUME NEW j \in Jobs, RestoreRead(j) PROVE LegalReviewTypeOK'
  BY <1>13, OldIs DEF RestoreRead, Start, Hold
<1>14. ASSUME NEW j \in Jobs, RestoreLead(j) PROVE LegalReviewTypeOK'
  BY <1>14 DEF RestoreLead, Goto, Hold
<1>15. ASSUME NEW j \in Jobs, RestoreResult(j) PROVE LegalReviewTypeOK'
  BY <1>15 DEF RestoreResult, Goto
<1>16. ASSUME NEW j \in Jobs, RestoreDelete(j) PROVE LegalReviewTypeOK'
  BY <1>16 DEF RestoreDelete, Goto, Hold
<1>17. ASSUME NEW j \in Jobs, Crash(j) PROVE LegalReviewTypeOK'
  BY <1>17 DEF Crash, Goto, Hold
<1>18. ASSUME UNCHANGED vars PROVE LegalReviewTypeOK'
  BY <1>18 DEF vars
<1> QED
  BY <1>1, <1>2, <1>3, <1>4, <1>5, <1>6, <1>7, <1>8, <1>9, <1>10, <1>11,
     <1>12, <1>13, <1>14, <1>15, <1>16, <1>17, <1>18 DEF Next, Review,
     JobStep

-----------------------------------------------------------------------------
(* Corrections and readings.                                               *)

(* The invariant of the review holds at the start,                          *)
LEMMA InitReview == Init => ReviewInv
<1> SUFFICES ASSUME Init PROVE ReviewInv
  OBVIOUS
<1>1. PICK r \in Readings : ed = Judge(Fresh(r, NoEvent), NoEvent)
  BY DEF Init
<1>2. /\ ed.value = r.value /\ ed.read = r.value
      /\ ed.over = [f \in Fields |-> Unset] /\ ed.model = [f \in Fields |-> Unset]
  BY <1>1, FreshIs, JudgeIs, NoEventType
<1>3. Follows(ed) /\ KeepsReading(ed)
  BY <1>2 DEF Init, Follows, KeepsReading, NoEvent
<1> QED
  BY <1>3, InitTypes, EmptyIs
  DEF Init, ReviewInv, CorrectionsStand, CopiesFollow, ReadingKept, CopiesKeep

(* Corrections stand in the rows and in every copy. *)
LEMMA StepFollow == ReviewInv /\ [Next]_vars => CorrectionsStand' /\ CopiesFollow'
<1> SUFFICES ASSUME ReviewInv, [Next]_vars PROVE CorrectionsStand' /\ CopiesFollow'
  OBVIOUS
<1>0. /\ LegalReviewTypeOK /\ last \in Log /\ held \in [Jobs -> Extraction]
      /\ snap.data \in Extraction /\ snap.results \in Extraction /\ pc \in [Jobs -> Place]
      /\ heldRes \in [Jobs -> Extraction]
  BY DEF ReviewInv, LegalReviewTypeOK, Log
<1> USE <1>0 DEF ReviewInv, CorrectionsStand, CopiesFollow
<1>1. ASSUME NEW w \in Reviewers, Load(w) PROVE (CorrectionsStand' /\ CopiesFollow')
  BY <1>1 DEF Load, Follows
<1>2. ASSUME NEW w \in Reviewers, NEW f \in Fields, NEW v \in Value, Correct(w, f, v) PROVE (CorrectionsStand' /\ CopiesFollow')
  <2>1. Effect(f, "corrected", v) /\ ed'.over[f] = v
    BY <1>2, CorrectEffect
  <2>2. /\ last'[f].action = "corrected" /\ last'[f].value = v
        /\ \A g \in Fields \ {f} : last'[g] = last[g] /\ ed'.over[g] = ed.over[g]
        /\ ed'.behind = ed.behind \ {f} /\ res' = ed' /\ pc' = pc /\ heldRes' = heldRes
    BY <2>1 DEF Effect
  <2>3. \A j \in Jobs : /\ held'[j].over = held[j].over
                        /\ pc[j] # "idle" => held'[j].behind = held[j].behind \cup {f}
    BY <2>1 DEF Effect
  <2>4. Follows(ed)'
    BY <2>1, <2>2 DEF Follows
  <2>5. Follows(res)'
    BY <2>2, <2>4 DEF Follows
  <2>6. ASSUME NEW j \in Jobs, pc[j] \in {"snapshot", "judging", "saving", "filing", "restoring"}
        PROVE  Follows(held[j])'
    <3>1. Follows(held[j])
      BY <2>6
    <3>2. pc[j] # "idle"
      BY <2>6
    <3>3. held'[j].over = held[j].over /\ held'[j].behind = held[j].behind \cup {f}
      BY <2>3, <3>2
    <3> QED
      BY <2>2, <3>1, <3>3 DEF Follows
  <2> QED
    BY <2>2, <2>4, <2>5, <2>6
<1>3. ASSUME NEW w \in Reviewers, NEW f \in Fields, Confirm(w, f) PROVE (CorrectionsStand' /\ CopiesFollow')
  <2>1. Effect(f, "confirmed", ed.value[f]) /\ ed'.over = ed.over
    BY <1>3, ConfirmEffect
  <2>2. /\ last'[f].action = "confirmed" /\ last'[f].value = ed.value[f]
        /\ \A g \in Fields \ {f} : last'[g] = last[g] /\ ed'.over[g] = ed.over[g]
        /\ ed'.behind = ed.behind \ {f} /\ res' = ed' /\ pc' = pc /\ heldRes' = heldRes
    BY <2>1 DEF Effect
  <2>3. \A j \in Jobs : /\ held'[j].over = held[j].over
                        /\ pc[j] # "idle" => held'[j].behind = held[j].behind \cup {f}
    BY <2>1 DEF Effect
  <2>4. Follows(ed)'
    BY <2>1, <2>2 DEF Follows
  <2>5. Follows(res)'
    BY <2>2, <2>4 DEF Follows
  <2>6. ASSUME NEW j \in Jobs, pc[j] \in {"snapshot", "judging", "saving", "filing", "restoring"}
        PROVE  Follows(held[j])'
    <3>1. Follows(held[j])
      BY <2>6
    <3>2. pc[j] # "idle"
      BY <2>6
    <3>3. held'[j].over = held[j].over /\ held'[j].behind = held[j].behind \cup {f}
      BY <2>3, <3>2
    <3> QED
      BY <2>2, <3>1, <3>3 DEF Follows
  <2> QED
    BY <2>2, <2>4, <2>5, <2>6
<1>4. ASSUME NEW w \in Reviewers, NEW f \in Fields, Revert(w, f) PROVE (CorrectionsStand' /\ CopiesFollow')
  <2>1. Effect(f, "reverted", Restored(f)) /\ ed'.over[f] = Unset
    BY <1>4, RevertEffect
  <2>2. /\ last'[f].action = "reverted" /\ last'[f].value = Restored(f)
        /\ \A g \in Fields \ {f} : last'[g] = last[g] /\ ed'.over[g] = ed.over[g]
        /\ ed'.behind = ed.behind \ {f} /\ res' = ed' /\ pc' = pc /\ heldRes' = heldRes
    BY <2>1 DEF Effect
  <2>3. \A j \in Jobs : /\ held'[j].over = held[j].over
                        /\ pc[j] # "idle" => held'[j].behind = held[j].behind \cup {f}
    BY <2>1 DEF Effect
  <2>4. Follows(ed)'
    BY <2>1, <2>2 DEF Follows
  <2>5. Follows(res)'
    BY <2>2, <2>4 DEF Follows
  <2>6. ASSUME NEW j \in Jobs, pc[j] \in {"snapshot", "judging", "saving", "filing", "restoring"}
        PROVE  Follows(held[j])'
    <3>1. Follows(held[j])
      BY <2>6
    <3>2. pc[j] # "idle"
      BY <2>6
    <3>3. held'[j].over = held[j].over /\ held'[j].behind = held[j].behind \cup {f}
      BY <2>3, <3>2
    <3> QED
      BY <2>2, <3>1, <3>3 DEF Follows
  <2> QED
    BY <2>2, <2>4, <2>5, <2>6
<1>5. ASSUME NEW j \in Jobs, NEW r \in Readings, Rerun(j, r) PROVE (CorrectionsStand' /\ CopiesFollow')
  <2> DEFINE x == Reviewed(Fresh(r, last), last)
  <2>0. /\ Fresh(r, last) \in Extraction /\ Fresh(r, last).behind = Corrected(last)
        /\ Fresh(r, last).over = [f \in Fields |-> Unset]
    BY FreshIs
  <2>1. Follows(x)
    BY <2>0, JudgedIs DEF Follows, Corrected
  <2>2. held' = [held EXCEPT ![j] = x]
    BY <1>5 DEF Rerun, Hold
  <2> HIDE DEF x
  <2> QED
    BY <2>1, <2>2, <1>5 DEF Rerun, Start, Follows
<1>6. ASSUME NEW j \in Jobs, NEW r \in Readings, RerunUnjudged(j, r) PROVE (CorrectionsStand' /\ CopiesFollow')
  <2>0. /\ Fresh(r, last) \in Extraction /\ Fresh(r, last).behind = Corrected(last)
        /\ Fresh(r, last).over = [f \in Fields |-> Unset]
    BY FreshIs
  <2>a. Follows(Fresh(r, last))
    BY <2>0 DEF Follows, Corrected
  <2>b. Follows(Overlay(Fresh(r, last), last))
    BY <2>0, OverlayIs DEF Follows, Corrected
  <2>1. Follows(Fresh(r, last)) /\ Follows(Overlay(Fresh(r, last), last))
    BY <2>a, <2>b
  <2>2. PICK e \in {Fresh(r, last), Overlay(Fresh(r, last), last)} : held' = [held EXCEPT ![j] = e]
    BY <1>6 DEF RerunUnjudged, Hold
  <2>3. Follows(e)
    BY <2>1
  <2> QED
    BY <2>2, <2>3, <1>6 DEF RerunUnjudged, Start, Follows
<1>7. ASSUME NEW j \in Jobs, BackfillRead(j) PROVE (CorrectionsStand' /\ CopiesFollow')
  BY <1>7 DEF BackfillRead, Start, Hold, Follows
<1>8. ASSUME NEW j \in Jobs, NEW r \in Readings, BackfillSnapshot(j, r) PROVE (CorrectionsStand' /\ CopiesFollow')
  <2>1. Follows(Rebuild(held[j], r))
    BY RebuildIs, <1>8 DEF BackfillSnapshot, Follows
  <2> QED
    BY <2>1, <1>8 DEF BackfillSnapshot, Goto, Hold, Follows
<1>9. ASSUME NEW j \in Jobs, TrustRead(j) PROVE (CorrectionsStand' /\ CopiesFollow')
  BY <1>9 DEF TrustRead, Start, Hold, Follows
<1>10. ASSUME NEW j \in Jobs, TrustJudge(j) PROVE (CorrectionsStand' /\ CopiesFollow')
  <2> DEFINE x == Reviewed(held[j], last)
  <2>1. Follows(held[j])
    BY <1>10 DEF TrustJudge
  <2>2. Follows(x)
    BY <2>1, JudgedIs DEF Follows, Corrected
  <2>3. held' = [held EXCEPT ![j] = x]
    BY <1>10 DEF TrustJudge, Hold
  <2> HIDE DEF x
  <2> QED
    BY <2>2, <2>3, <1>10 DEF TrustJudge, Goto, Follows
<1>11. ASSUME NEW j \in Jobs, Save(j) PROVE (CorrectionsStand' /\ CopiesFollow')
  BY <1>11 DEF Save, Goto, Follows
<1>12. ASSUME NEW j \in Jobs, File(j) PROVE (CorrectionsStand' /\ CopiesFollow')
  BY <1>12 DEF File, Goto, Hold, Follows
<1>13. ASSUME NEW j \in Jobs, RestoreRead(j) PROVE (CorrectionsStand' /\ CopiesFollow')
  <2>1. Old(snap.data).behind = Fields /\ Old(snap.results).behind = Fields
    BY OldIs
  <2>2. \A f \in Fields \ Fields : FALSE
    OBVIOUS
  <2> QED
    BY <2>1, <2>2, <1>13 DEF RestoreRead, Start, Hold, Follows
<1>14. ASSUME NEW j \in Jobs, RestoreLead(j) PROVE (CorrectionsStand' /\ CopiesFollow')
  BY <1>14 DEF RestoreLead, Goto, Hold, Follows
<1>15. ASSUME NEW j \in Jobs, RestoreResult(j) PROVE (CorrectionsStand' /\ CopiesFollow')
  BY <1>15 DEF RestoreResult, Goto, Follows
<1>16. ASSUME NEW j \in Jobs, RestoreDelete(j) PROVE (CorrectionsStand' /\ CopiesFollow')
  BY <1>16 DEF RestoreDelete, Goto, Hold, Follows
<1>17. ASSUME NEW j \in Jobs, Crash(j) PROVE (CorrectionsStand' /\ CopiesFollow')
  BY <1>17 DEF Crash, Goto, Hold, Follows
<1>18. ASSUME UNCHANGED vars PROVE (CorrectionsStand' /\ CopiesFollow')
  BY <1>18 DEF vars, Follows
<1> QED
  BY <1>1, <1>2, <1>3, <1>4, <1>5, <1>6, <1>7, <1>8, <1>9, <1>10, <1>11,
     <1>12, <1>13, <1>14, <1>15, <1>16, <1>17, <1>18 DEF Next, Review,
     JobStep

(* A reading survives what is done to each field: nothing, an override, or  *)
(* the end of one.                                                         *)
LEMMA KeepsStep ==
    ASSUME NEW e \in Extraction, NEW x \in Extraction, KeepsReading(e),
           x.read = e.read, x.replay = "none" => e.replay = "none",
           \A g \in Fields :
              \/ x.value[g] = e.value[g] /\ x.over[g] = e.over[g] /\ x.model[g] = e.model[g]
              \/ /\ x.over[g] \in Value /\ x.value[g] = x.over[g]
                 /\ x.model[g] = IF e.model[g] = Unset THEN e.value[g] ELSE e.model[g]
              \/ /\ x.over[g] = Unset /\ x.model[g] = Unset
                 /\ x.value[g] = IF e.model[g] = Unset THEN e.value[g] ELSE e.model[g]
    PROVE  KeepsReading(x)
<1> SUFFICES ASSUME x.replay = "none", NEW g \in Fields
             PROVE  IF x.over[g] = Unset THEN x.value[g] = x.read[g] /\ x.model[g] = Unset
                    ELSE x.value[g] = x.over[g] /\ x.model[g] = x.read[g]
  BY DEF KeepsReading
<1>1. IF e.over[g] = Unset THEN e.value[g] = e.read[g] /\ e.model[g] = Unset
      ELSE e.value[g] = e.over[g] /\ e.model[g] = e.read[g]
  BY DEF KeepsReading
<1>2. e.read[g] # Unset
  BY DEF Extraction
<1> QED
  BY <1>1, <1>2

(* Readings are kept in the rows, in the snapshot and in every copy. *)
LEMMA StepKeep == ReviewInv /\ [Next]_vars => ReadingKept' /\ CopiesKeep'
<1> SUFFICES ASSUME ReviewInv, [Next]_vars PROVE ReadingKept' /\ CopiesKeep'
  OBVIOUS
<1>0. /\ LegalReviewTypeOK /\ last \in Log /\ held \in [Jobs -> Extraction]
      /\ snap.data \in Extraction /\ snap.results \in Extraction
      /\ heldRes \in [Jobs -> Extraction] /\ ed \in Extraction
  BY DEF ReviewInv, LegalReviewTypeOK, Log
<1>a. KeepsReading(Empty)
  BY EmptyIs
<1> USE <1>0, <1>a DEF ReviewInv, ReadingKept, CopiesKeep
<1>1. ASSUME NEW w \in Reviewers, Load(w) PROVE (ReadingKept' /\ CopiesKeep')
  BY <1>1 DEF Load
<1>2. ASSUME NEW w \in Reviewers, NEW f \in Fields, NEW v \in Value, Correct(w, f, v) PROVE (ReadingKept' /\ CopiesKeep')
  <2>1. Effect(f, "corrected", v) /\ ed'.value[f] = v /\ ed'.over[f] = v
        /\ ed'.model[f] = IF ed.model[f] = Unset THEN ed.value[f] ELSE ed.model[f]
    BY <1>2, CorrectEffect
  <2>4. /\ ed' \in Extraction /\ ed'.read = ed.read /\ (ed'.replay = "none" <=> ed.replay = "none")
        /\ \A g \in Fields \ {f} : /\ ed'.value[g] = ed.value[g] /\ ed'.over[g] = ed.over[g]
                                     /\ ed'.model[g] = ed.model[g]
    BY <2>1 DEF Effect
  <2>2. KeepsReading(ed')
    BY <2>1, <2>4, KeepsStep DEF Restored
  <2>3. /\ res' = ed' /\ snap' = snap /\ heldRes' = heldRes
        /\ \A j \in Jobs : KeepsReading(held[j]) => KeepsReading(held'[j])
    BY <2>1 DEF Effect
  <2> QED
    BY <2>2, <2>3
<1>3. ASSUME NEW w \in Reviewers, NEW f \in Fields, Confirm(w, f) PROVE (ReadingKept' /\ CopiesKeep')
  <2>1. Effect(f, "confirmed", ed.value[f]) /\ ed'.value = ed.value /\ ed'.over = ed.over
        /\ ed'.model = ed.model
    BY <1>3, ConfirmEffect
  <2>4. /\ ed' \in Extraction /\ ed'.read = ed.read /\ (ed'.replay = "none" <=> ed.replay = "none")
        /\ \A g \in Fields \ {f} : /\ ed'.value[g] = ed.value[g] /\ ed'.over[g] = ed.over[g]
                                     /\ ed'.model[g] = ed.model[g]
    BY <2>1 DEF Effect
  <2>2. KeepsReading(ed')
    BY <2>1, <2>4, KeepsStep DEF Restored
  <2>3. /\ res' = ed' /\ snap' = snap /\ heldRes' = heldRes
        /\ \A j \in Jobs : KeepsReading(held[j]) => KeepsReading(held'[j])
    BY <2>1 DEF Effect
  <2> QED
    BY <2>2, <2>3
<1>4. ASSUME NEW w \in Reviewers, NEW f \in Fields, Revert(w, f) PROVE (ReadingKept' /\ CopiesKeep')
  <2>1. Effect(f, "reverted", Restored(f)) /\ ed'.value[f] = Restored(f) /\ ed'.over[f] = Unset
        /\ ed'.model[f] = Unset
    BY <1>4, RevertEffect
  <2>4. /\ ed' \in Extraction /\ ed'.read = ed.read /\ (ed'.replay = "none" <=> ed.replay = "none")
        /\ \A g \in Fields \ {f} : /\ ed'.value[g] = ed.value[g] /\ ed'.over[g] = ed.over[g]
                                     /\ ed'.model[g] = ed.model[g]
    BY <2>1 DEF Effect
  <2>2. KeepsReading(ed')
    BY <2>1, <2>4, KeepsStep DEF Restored
  <2>3. /\ res' = ed' /\ snap' = snap /\ heldRes' = heldRes
        /\ \A j \in Jobs : KeepsReading(held[j]) => KeepsReading(held'[j])
    BY <2>1 DEF Effect
  <2> QED
    BY <2>2, <2>3
<1>5. ASSUME NEW j \in Jobs, NEW r \in Readings, Rerun(j, r) PROVE (ReadingKept' /\ CopiesKeep')
  <2> DEFINE x == Reviewed(Fresh(r, last), last)
  <2>0. /\ Fresh(r, last) \in Extraction /\ Fresh(r, last).value = Fresh(r, last).read
        /\ Fresh(r, last).over = [f \in Fields |-> Unset] /\ Fresh(r, last).model = [f \in Fields |-> Unset]
    BY FreshIs
  <2>1. Fresh(r, last) \in Extraction /\ KeepsReading(Fresh(r, last))
    BY <2>0 DEF KeepsReading
  <2>2. KeepsReading(x)
    <3>0. last \in Log
      OBVIOUS
    <3>1. x \in Extraction
      BY <2>1, JudgedIs
    <3>2. \A f \in Corrected(last) : last[f].value \in Value
      BY DEF Log, Decision, Corrected
    <3>3. /\ x.read = Fresh(r, last).read /\ (x.replay = "none" <=> Fresh(r, last).replay = "none")
          /\ \A f \in Corrected(last) :
                /\ x.value[f] = last[f].value /\ x.over[f] = last[f].value
                /\ x.model[f] = IF Fresh(r, last).model[f] = Unset THEN Fresh(r, last).value[f] ELSE Fresh(r, last).model[f]
          /\ \A f \in Fields \ Corrected(last) :
                x.value[f] = Fresh(r, last).value[f] /\ x.over[f] = Fresh(r, last).over[f] /\ x.model[f] = Fresh(r, last).model[f]
      BY <2>1, JudgedIs
    <3> HIDE DEF x
    <3> QED
      BY <2>1, <3>1, <3>2, <3>3, KeepsStep
  <2>3. held' = [held EXCEPT ![j] = x]
    BY <1>5 DEF Rerun, Hold
  <2> HIDE DEF x
  <2> QED
    BY <2>2, <2>3, <1>5 DEF Rerun, Start
<1>6. ASSUME NEW j \in Jobs, NEW r \in Readings, RerunUnjudged(j, r) PROVE (ReadingKept' /\ CopiesKeep')
  <2>1. /\ Fresh(r, last) \in Extraction /\ Fresh(r, last).value = Fresh(r, last).read
        /\ Fresh(r, last).over = [f \in Fields |-> Unset] /\ Fresh(r, last).model = [f \in Fields |-> Unset]
    BY FreshIs
  <2>2. KeepsReading(Fresh(r, last))
    BY <2>1 DEF KeepsReading
  <2>3. KeepsReading(Overlay(Fresh(r, last), last))
    <3>1. Overlay(Fresh(r, last), last) \in Extraction
      BY <2>1, OverlayIs
    <3>2. \A f \in Corrected(last) : last[f].value \in Value
      BY DEF Log, Decision, Corrected
    <3> DEFINE y == Fresh(r, last)
           x == Overlay(y, last)
    <3>3. /\ x.read = y.read /\ x.replay = y.replay
          /\ \A f \in Corrected(last) :
                /\ x.value[f] = last[f].value /\ x.over[f] = last[f].value
                /\ x.model[f] = IF y.model[f] = Unset THEN y.value[f] ELSE y.model[f]
          /\ \A f \in Fields \ Corrected(last) :
                x.value[f] = y.value[f] /\ x.over[f] = y.over[f] /\ x.model[f] = y.model[f]
      BY <2>1, OverlayIs
    <3>4. y \in Extraction /\ KeepsReading(y)
      BY <2>1, <2>2
    <3> HIDE DEF x, y
    <3>5. KeepsReading(x)
      BY <3>1, <3>2, <3>3, <3>4, KeepsStep DEF x, y
    <3> QED
      BY <3>5 DEF x, y
  <2>4. PICK e \in {Fresh(r, last), Overlay(Fresh(r, last), last)} : held' = [held EXCEPT ![j] = e]
    BY <1>6 DEF RerunUnjudged, Hold
  <2>5. KeepsReading(e)
    BY <2>2, <2>3
  <2> QED
    BY <2>4, <2>5, <1>6 DEF RerunUnjudged, Start
<1>7. ASSUME NEW j \in Jobs, BackfillRead(j) PROVE (ReadingKept' /\ CopiesKeep')
  BY <1>7 DEF BackfillRead, Start, Hold
<1>8. ASSUME NEW j \in Jobs, NEW r \in Readings, BackfillSnapshot(j, r) PROVE (ReadingKept' /\ CopiesKeep')
  <2>1. KeepsReading(Rebuild(held[j], r))
    BY RebuildIs DEF KeepsReading
  <2>2. held' = [held EXCEPT ![j] = Rebuild(held[j], r)]
    BY <1>8 DEF BackfillSnapshot, Hold
  <2>3. \A k \in Jobs : KeepsReading(held[k])'
    BY <2>1, <2>2
  <2> QED
    BY <2>3, <1>8 DEF BackfillSnapshot, Goto
<1>9. ASSUME NEW j \in Jobs, TrustRead(j) PROVE (ReadingKept' /\ CopiesKeep')
  BY <1>9 DEF TrustRead, Start, Hold
<1>10. ASSUME NEW j \in Jobs, TrustJudge(j) PROVE (ReadingKept' /\ CopiesKeep')
  <2> DEFINE x == Reviewed(held[j], last)
  <2>0. held[j] \in Extraction /\ KeepsReading(held[j])
    BY DEF CopiesKeep
  <2>1. held[j] \in Extraction /\ KeepsReading(held[j])
    BY <2>0 DEF KeepsReading
  <2>2. KeepsReading(x)
    <3>0. last \in Log
      OBVIOUS
    <3>1. x \in Extraction
      BY <2>1, JudgedIs
    <3>2. \A f \in Corrected(last) : last[f].value \in Value
      BY DEF Log, Decision, Corrected
    <3>3. /\ x.read = held[j].read /\ (x.replay = "none" <=> held[j].replay = "none")
          /\ \A f \in Corrected(last) :
                /\ x.value[f] = last[f].value /\ x.over[f] = last[f].value
                /\ x.model[f] = IF held[j].model[f] = Unset THEN held[j].value[f] ELSE held[j].model[f]
          /\ \A f \in Fields \ Corrected(last) :
                x.value[f] = held[j].value[f] /\ x.over[f] = held[j].over[f] /\ x.model[f] = held[j].model[f]
      BY <2>1, JudgedIs
    <3> HIDE DEF x
    <3> QED
      BY <2>1, <3>1, <3>2, <3>3, KeepsStep
  <2>3. held' = [held EXCEPT ![j] = x]
    BY <1>10 DEF TrustJudge, Hold
  <2> HIDE DEF x
  <2> QED
    BY <2>2, <2>3, <1>10 DEF TrustJudge, Goto
<1>11. ASSUME NEW j \in Jobs, Save(j) PROVE (ReadingKept' /\ CopiesKeep')
  BY <1>11 DEF Save, Goto
<1>12. ASSUME NEW j \in Jobs, File(j) PROVE (ReadingKept' /\ CopiesKeep')
  BY <1>12 DEF File, Goto, Hold
<1>13. ASSUME NEW j \in Jobs, RestoreRead(j) PROVE (ReadingKept' /\ CopiesKeep')
  BY <1>13, OldIs DEF RestoreRead, Start, Hold
<1>14. ASSUME NEW j \in Jobs, RestoreLead(j) PROVE (ReadingKept' /\ CopiesKeep')
  BY <1>14 DEF RestoreLead, Goto, Hold
<1>15. ASSUME NEW j \in Jobs, RestoreResult(j) PROVE (ReadingKept' /\ CopiesKeep')
  BY <1>15 DEF RestoreResult, Goto
<1>16. ASSUME NEW j \in Jobs, RestoreDelete(j) PROVE (ReadingKept' /\ CopiesKeep')
  BY <1>16 DEF RestoreDelete, Goto, Hold
<1>17. ASSUME NEW j \in Jobs, Crash(j) PROVE (ReadingKept' /\ CopiesKeep')
  BY <1>17 DEF Crash, Goto, Hold
<1>18. ASSUME UNCHANGED vars PROVE (ReadingKept' /\ CopiesKeep')
  BY <1>18 DEF vars
<1> QED
  BY <1>1, <1>2, <1>3, <1>4, <1>5, <1>6, <1>7, <1>8, <1>9, <1>10, <1>11,
     <1>12, <1>13, <1>14, <1>15, <1>16, <1>17, <1>18 DEF Next, Review,
     JobStep

-----------------------------------------------------------------------------
(* and after every step.                                                    *)
LEMMA StepReview == ReviewInv /\ [Next]_vars => ReviewInv'
<1>1. ReviewInv /\ [Next]_vars => LegalReviewTypeOK'
  BY StepTypes DEF ReviewInv
<1> QED
  BY <1>1, StepFollow, StepKeep DEF ReviewInv

(* So the invariant of the review holds throughout.                         *)
THEOREM ReviewInvHolds == Spec => []ReviewInv
<1> QED
  BY InitReview, StepReview, PTL DEF Spec

(* Rows, snapshot, decisions and copies stay in their types. *)
THEOREM LegalReviewTypes == Spec => []LegalReviewTypeOK
<1>1. ReviewInv => LegalReviewTypeOK
  BY DEF ReviewInv
<1> QED
  BY <1>1, ReviewInvHolds, PTL

(* A standing correction is in both rows, and a reverted one in neither,   *)
(* unless a job wrote a copy from before the decision.                     *)
THEOREM CorrectionsKept == Spec => []CorrectionsStand
<1>1. ReviewInv => CorrectionsStand
  BY DEF ReviewInv
<1> QED
  BY <1>1, ReviewInvHolds, PTL

(* A revert brings back what the model read, whatever happened before it.  *)
THEOREM ReadingsKept == Spec => []ReadingKept
<1>1. ReviewInv => ReadingKept
  BY DEF ReviewInv
<1> QED
  BY <1>1, ReviewInvHolds, PTL

(* A decision is stored only by a reviewer who had its value on the screen. *)
THEOREM DecisionsAreSeen == Spec => NoBlindDecision
<1> DEFINE Seen == \A f \in Fields : last'[f] # last[f] => \E w \in Reviewers : seen[w][f] = ed.value[f]
<1>1. LegalReviewTypeOK /\ [Next]_vars => [Seen]_vars
  <2> SUFFICES ASSUME LegalReviewTypeOK, Next PROVE Seen
    OBVIOUS
  <2>1. ASSUME NEW w \in Reviewers, NEW f \in Fields, NEW v \in Value, Correct(w, f, v) PROVE Seen
    BY <2>1 DEF Correct, Record, Expected, LegalReviewTypeOK
  <2>2. ASSUME NEW w \in Reviewers, NEW f \in Fields, Confirm(w, f) PROVE Seen
    BY <2>2 DEF Confirm, Record, Expected, LegalReviewTypeOK
  <2>3. ASSUME NEW w \in Reviewers, NEW f \in Fields, Revert(w, f) PROVE Seen
    BY <2>3 DEF Revert, Record, Expected, LegalReviewTypeOK
  <2>4. ASSUME NEW w \in Reviewers, Load(w) PROVE Seen
    BY <2>4 DEF Load
  <2>5. ASSUME NEW j \in Jobs, JobStep(j) PROVE Seen
    <3>1. last' = last
      BY <2>5 DEF JobStep, Rerun, RerunUnjudged, BackfillRead, BackfillSnapshot, TrustRead,
                  TrustJudge, Save, File, RestoreRead, RestoreLead, RestoreResult,
                  RestoreDelete, Crash, Start
    <3> QED
      BY <3>1
  <2> HIDE DEF Seen
  <2> QED
    BY <2>1, <2>2, <2>3, <2>4, <2>5 DEF Next, Review
<1> QED
  BY <1>1, LegalReviewTypes, PTL DEF Spec, NoBlindDecision

-----------------------------------------------------------------------------
(* What the dossier shows of the trust in its values.                      *)

\* A copy has no marks yet, or a mark on every value, and those that say the
\* value can be relied on are right; a mark of a person has that person's
\* decision behind it, unless the copy is behind.
Marks(e) ==
    \A f \in Fields : e.value[f] # Blank =>
        /\ e.trust[f] # "none"
        /\ e.trust[f] \in {"verified", "clear"} => Reliable(e.proof[f])
Marked(e)  == e.replay = "unjudged" \/ (\A f \in Fields : e.trust[f] = "none") \/ Marks(e)
Settled(e) ==
    \A f \in Fields \ e.behind : e.trust[f] \in {"corrected", "confirmed"} => Stands(last, f)

TrustInv ==
    /\ Marked(ed) /\ Settled(ed)
    /\ \A j \in Jobs : pc[j] \in {"snapshot", "judging", "saving", "filing", "restoring"} =>
          Marked(held[j]) /\ Settled(held[j])
    /\ snap.taken => Marked(snap.data)

\* What the states of the values say together.
LEMMA TrustShown == LegalReviewTypeOK /\ TrustInv => NothingHidden
<1> SUFFICES ASSUME LegalReviewTypeOK, TrustInv, ed.replay # "unjudged",
                    LeadState(ed) \in {"extracted", "reviewed"},
                    NEW f \in Fields \ ed.behind, ed.value[f] # Blank
             PROVE  Reliable(ed.proof[f]) \/ Stands(last, f)
  BY DEF NothingHidden
<1> DEFINE states == {ed.trust[g] : g \in {h \in Fields : ed.trust[h] # "none"}}
<1>1. states # {} /\ "review" \notin states /\ "unchecked" \notin states
  BY DEF LeadState
<1>2. ~\A g \in Fields : ed.trust[g] = "none"
  BY <1>1
<1>3. Marks(ed)
  BY <1>2 DEF TrustInv, Marked
<1>4. ed.trust[f] # "none" /\ ed.trust[f] \in states
  BY <1>3 DEF Marks
<1>5. ed.trust[f] \in Trust
  BY DEF LegalReviewTypeOK, Extraction
<1>6. ed.trust[f] \in {"verified", "clear", "corrected", "confirmed"}
  BY <1>1, <1>4, <1>5 DEF Trust
<1> QED
  BY <1>3, <1>6 DEF Marks, TrustInv, Settled

\* The rule of trust.py finds no value reliable that is not.
LEMMA FieldTrustReliable ==
    ASSUME NEW p \in Evidence
    PROVE  /\ FieldTrust(p) \in {"review", "unchecked", "verified", "clear"}
           /\ FieldTrust(p) \in {"verified", "clear"} => Reliable(p)
<1>1. FieldTrust(p) \in {"review", "unchecked", "verified", "clear"}
  BY DEF FieldTrust
<1>2. ASSUME FieldTrust(p) \in {"verified", "clear"} PROVE Reliable(p)
  <2>1. Reasons(p) = {}
    BY <1>2 DEF FieldTrust
  <2>2. p.notes = {} /\ (p.verified \/ Doubts(p) = {})
    BY <2>1 DEF Reasons
  <2>3. ASSUME Doubts(p) = {} PROVE ~p.hand /\ p.page = {} /\ p.legibility = "clear"
    <3>1. ~p.hand /\ p.page = {}
      BY <2>3 DEF Doubts
    <3>2. p.legibility # "none"
      BY <2>3 DEF Doubts
    <3>3. p.legibility # "none" /\ p.legibility # "clear" => p.legibility \in Doubts(p)
      BY DEF Doubts
    <3> QED
      BY <2>3, <3>1, <3>2, <3>3
  <2> QED
    BY <2>2, <2>3 DEF Reliable
<1> QED
  BY <1>1, <1>2

(* An evaluation marks as reviewed what was decided, and nothing else.      *)
LEMMA EvaluateMarks ==
    ASSUME NEW e \in Extraction, NEW L \in Log, NEW S \in SUBSET {f \in Fields : Stands(L, f)}
    PROVE  /\ Marks(Evaluate(e, L, S))
           /\ \A f \in Fields : Evaluate(e, L, S).trust[f] \in {"corrected", "confirmed"} => Stands(L, f)
<1> DEFINE T == [f \in Fields |-> IF e.value[f] = Blank THEN "none"
                                  ELSE IF f \in S THEN L[f].action ELSE FieldTrust(e.proof[f])]
           R == IF e.replay = "unjudged" THEN "judged" ELSE e.replay
           x == Evaluate(e, L, S)
<1>1. x = [e EXCEPT !.trust = T, !.replay = R]
  BY DEF Evaluate
<1> HIDE DEF T, R, x
<1>2. x.trust = T /\ x.value = e.value /\ x.proof = e.proof
  BY <1>1 DEF Extraction
<1>3. ASSUME NEW f \in Fields, f \in S PROVE L[f].action \in {"corrected", "confirmed"} /\ Stands(L, f)
  BY <1>3 DEF Stands
<1>4. ASSUME NEW f \in Fields
      PROVE  /\ FieldTrust(e.proof[f]) \in {"review", "unchecked", "verified", "clear"}
             /\ FieldTrust(e.proof[f]) \in {"verified", "clear"} => Reliable(e.proof[f])
  <2>1. e.proof[f] \in Evidence
    BY DEF Extraction
  <2> QED
    BY <2>1, FieldTrustReliable
<1>5. \A f \in Fields : T[f] = IF e.value[f] = Blank THEN "none"
                               ELSE IF f \in S THEN L[f].action ELSE FieldTrust(e.proof[f])
  BY DEF T
<1>6. Marks(x)
  <2> SUFFICES ASSUME NEW f \in Fields, e.value[f] # Blank
               PROVE  T[f] # "none" /\ (T[f] \in {"verified", "clear"} => Reliable(e.proof[f]))
    BY <1>2 DEF Marks
  <2>1. CASE f \in S
    BY <1>3, <1>5, <2>1
  <2>2. CASE f \notin S
    BY <1>4, <1>5, <2>2
  <2> QED
    BY <2>1, <2>2
<1>7. \A f \in Fields : x.trust[f] \in {"corrected", "confirmed"} => Stands(L, f)
  BY <1>2, <1>3, <1>4, <1>5
<1> QED
  BY <1>6, <1>7 DEF x

(* So does judging,                                                         *)
LEMMA JudgeMarks ==
    ASSUME NEW e \in Extraction, NEW L \in Log
    PROVE  /\ Marks(Judge(e, L))
           /\ \A f \in Fields : Judge(e, L).trust[f] \in {"corrected", "confirmed"} => Stands(L, f)
  BY EvaluateMarks, HoldingStands DEF Judge

(* and judging again.                                                       *)
LEMMA RejudgeMarks ==
    ASSUME NEW e \in Extraction, NEW L \in Log
    PROVE  /\ Marks(Rejudge(e, L))
           /\ \A f \in Fields : Rejudge(e, L).trust[f] \in {"corrected", "confirmed"} => Stands(L, f)
  BY EvaluateMarks DEF Rejudge

\* Neither marks nor values change in a copy that falls behind.
LEMMA LagMarks ==
    ASSUME NEW e \in Extraction, NEW f \in Fields
    PROVE  /\ Marked(e) => Marked(Unaware(e, f)) /\ Marked(Old(e))
           /\ Unaware(e, f).trust = e.trust /\ Unaware(e, f).behind = e.behind \cup {f}
           /\ Old(e).behind = Fields
  BY DEF Marked, Marks, Unaware, Old, Extraction

\* The rows after a decision, and the copies that do not know of it.
LEMMA RecordTrust ==
    ASSUME LegalReviewTypeOK, TrustInv, NEW w \in Reviewers, NEW f \in Fields,
           NEW a \in {"corrected", "confirmed", "reverted"}, NEW v \in Value,
           NEW e \in Extraction, Record(w, f, a, v, e)
    PROVE  TrustInv'
<1>1. /\ last' = [last EXCEPT ![f] = [action |-> a, value |-> v]]
      /\ ed' = Rejudge(Aware(e, f), last')
      /\ held' = [j \in Jobs |-> IF pc[j] = "idle" THEN held[j] ELSE Unaware(held[j], f)]
      /\ UNCHANGED <<snap, pc>>
  BY DEF Record
<1>2. last \in Log /\ held \in [Jobs -> Extraction]
  BY DEF LegalReviewTypeOK, Log
<1>3. last' \in Log /\ \A g \in Fields \ {f} : last'[g] = last[g]
  BY <1>1, <1>2 DEF Log, Decision
<1>4. Marked(ed)' /\ Settled(ed)'
  <2> DEFINE x == Aware(e, f)
  <2>1. x \in Extraction
    BY DEF Aware, Extraction
  <2> HIDE DEF x
  <2>2. /\ Marks(Rejudge(x, last'))
        /\ \A g \in Fields : Rejudge(x, last').trust[g] \in {"corrected", "confirmed"} => Stands(last', g)
    BY <1>3, <2>1, RejudgeMarks
  <2>3. ed' = Rejudge(x, last')
    BY <1>1 DEF x
  <2>4. Marks(ed') /\ \A g \in Fields : ed'.trust[g] \in {"corrected", "confirmed"} => Stands(last', g)
    BY <2>2, <2>3
  <2> QED
    BY <2>4 DEF Marked, Settled
<1>5. ASSUME NEW j \in Jobs, pc'[j] \in {"snapshot", "judging", "saving", "filing", "restoring"}
      PROVE  Marked(held[j])' /\ Settled(held[j])'
  <2>1. held'[j] = Unaware(held[j], f) /\ held[j] \in Extraction /\ Marked(held[j]) /\ Settled(held[j])
    BY <1>1, <1>2, <1>5 DEF TrustInv
  <2>2. Marked(held'[j]) /\ held'[j].trust = held[j].trust /\ held'[j].behind = held[j].behind \cup {f}
    BY <2>1, LagMarks
  <2> QED
    BY <1>3, <2>1, <2>2 DEF Marked, Marks, Settled, Stands
<1>6. (snap.taken => Marked(snap.data))'
  BY <1>1 DEF TrustInv, Marked, Marks
<1> QED
  BY <1>4, <1>5, <1>6 DEF TrustInv

\* A job changes no decision; what it writes it has held, or just made.
LEMMA JobTrust ==
    ASSUME LegalReviewTypeOK, TrustInv, NEW j \in Jobs,
           NEW e, Marked(e), Settled(e),
           UNCHANGED last, ed' = ed \/ ed' = e,
           held' = [held EXCEPT ![j] = e] \/ (UNCHANGED held /\ held[j] = e) \/ pc'[j] \in {"idle", "restored", "deleting"},
           \A k \in Jobs \ {j} : held'[k] = held[k] /\ pc'[k] = pc[k],
           snap'.taken => Marked(snap'.data)
    PROVE  TrustInv'
<1>1. Marked(ed') /\ Settled(ed') /\ ed' \in {ed, e}
  BY DEF TrustInv
<1>2. Marked(ed)' /\ Settled(ed)'
  BY <1>1 DEF Marked, Marks, Settled, Stands
<1>3. ASSUME NEW k \in Jobs, pc'[k] \in {"snapshot", "judging", "saving", "filing", "restoring"}
      PROVE  Marked(held[k])' /\ Settled(held[k])'
  <2>1. Marked(held'[k]) /\ Settled(held'[k])
    BY <1>3 DEF TrustInv, LegalReviewTypeOK
  <2> QED
    BY <2>1 DEF Marked, Marks, Settled, Stands
<1>4. (snap.taken => Marked(snap.data))'
  BY DEF Marked, Marks
<1> QED
  BY <1>2, <1>3, <1>4 DEF TrustInv

\* What a run reads has no marks yet, with the decisions laid over it or not.
LEMMA FreshMarks ==
    ASSUME NEW r \in Readings, NEW L \in Log
    PROVE  /\ \A f \in Fields : Fresh(r, L).trust[f] = "none"
           /\ \A f \in Fields : Overlay(Fresh(r, L), L).trust[f] = "none"
           /\ Fresh(r, L) \in Extraction
<1> DEFINE e == Fresh(r, L)
<1>1. e \in Extraction /\ \A f \in Fields : e.trust[f] = "none"
  BY FreshIs DEF Fresh
<1> HIDE DEF e
<1>2. Overlay(e, L).trust = e.trust
  BY <1>1 DEF Overlay, Extraction
<1> QED
  BY <1>1, <1>2 DEF e

(* A reviewed extraction has its marks and is settled.                      *)
LEMMA ReviewedMarks ==
    ASSUME NEW e \in Extraction, last \in Log
    PROVE  Marked(Reviewed(e, last)) /\ Settled(Reviewed(e, last))
<1> DEFINE o == Overlay(e, last)
<1>1. o \in Extraction
  BY OverlayIs
<1> HIDE DEF o
<1>2. /\ Marks(Judge(o, last))
      /\ \A f \in Fields : Judge(o, last).trust[f] \in {"corrected", "confirmed"} => Stands(last, f)
  BY <1>1, JudgeMarks
<1>3. Reviewed(e, last) = Judge(o, last)
  BY DEF Reviewed, o
<1> QED
  BY <1>2, <1>3 DEF Marked, Settled

(* The invariant of trust is kept by every step.                            *)
LEMMA StepTrust == LegalReviewTypeOK /\ TrustInv /\ [Next]_vars => TrustInv'
<1> SUFFICES ASSUME LegalReviewTypeOK, TrustInv, [Next]_vars PROVE TrustInv'
  OBVIOUS
<1>0. last \in Log /\ ed \in Extraction /\ (snap.taken => Marked(snap.data))
      /\ Marked(ed) /\ Settled(ed) /\ \A j \in Jobs : held[j] \in Extraction
  BY DEF LegalReviewTypeOK, Log, TrustInv
<1>s. UNCHANGED snap => (snap'.taken => Marked(snap'.data))
  BY <1>0
<1>1. ASSUME NEW w \in Reviewers, NEW f \in Fields, NEW v \in Value, Correct(w, f, v) PROVE TrustInv'
  <2>1. WithOverride(ed, f, v) \in Extraction
    BY <1>0, CorrectIs
  <2> QED
    BY <1>1, <2>1, RecordTrust DEF Correct
<1>2. ASSUME NEW w \in Reviewers, NEW f \in Fields, Confirm(w, f) PROVE TrustInv'
  <2>1. ed.value[f] \in Value
    BY <1>0 DEF Extraction
  <2> QED
    BY <1>0, <1>2, <2>1, RecordTrust DEF Confirm
<1>3. ASSUME NEW w \in Reviewers, NEW f \in Fields, Revert(w, f) PROVE TrustInv'
  <2>1. Restored(f) \in Value
    BY RestoredType
  <2>2. WithoutOverride(ed, f, Restored(f)) \in Extraction
    BY <1>0, <2>1, RevertIs
  <2>3. Record(w, f, "reverted", Restored(f), WithoutOverride(ed, f, Restored(f)))
    BY <1>3 DEF Revert
  <2> QED
    BY <2>1, <2>2, <2>3, RecordTrust
<1>4. ASSUME UNCHANGED <<ed, last, held, snap, pc>> PROVE TrustInv'
  BY <1>4 DEF TrustInv, Marked, Marks, Settled, Stands
<1>5. ASSUME NEW j \in Jobs, NEW r \in Readings, Rerun(j, r) \/ RerunUnjudged(j, r) PROVE TrustInv'
  <2>1. PICK e \in {Reviewed(Fresh(r, last), last), Fresh(r, last), Overlay(Fresh(r, last), last)} : Hold(j, e)
    BY <1>5 DEF Rerun, RerunUnjudged
  <2>2. Marked(e) /\ Settled(e)
    <3>1. CASE e = Reviewed(Fresh(r, last), last)
      BY <1>0, <3>1, FreshMarks, ReviewedMarks
    <3>2. CASE e \in {Fresh(r, last), Overlay(Fresh(r, last), last)}
      <4>1. \A f \in Fields : e.trust[f] = "none"
        BY <1>0, <3>2, FreshMarks
      <4> QED
        BY <4>1 DEF Marked, Settled
    <3> QED
      BY <2>1, <3>1, <3>2
  <2>3. UNCHANGED <<last, ed, snap>> /\ \A k \in Jobs \ {j} : pc'[k] = pc[k]
    BY <1>5 DEF Rerun, RerunUnjudged, Start, LegalReviewTypeOK
  <2>4. held' = [held EXCEPT ![j] = e] /\ \A k \in Jobs \ {j} : held'[k] = held[k]
    BY <2>1 DEF Hold, LegalReviewTypeOK
  <2> QED
    BY <1>s, <2>2, <2>3, <2>4, JobTrust
<1>6. ASSUME NEW j \in Jobs, BackfillRead(j) \/ TrustRead(j) PROVE TrustInv'
  <2>1. UNCHANGED <<last, ed, snap>> /\ held' = [held EXCEPT ![j] = ed]
        /\ \A k \in Jobs \ {j} : pc'[k] = pc[k] /\ held'[k] = held[k]
    BY <1>6 DEF BackfillRead, TrustRead, Start, Hold, LegalReviewTypeOK
  <2> QED
    BY <1>0, <1>s, <2>1, JobTrust
<1>7. ASSUME NEW j \in Jobs, NEW r \in Readings, BackfillSnapshot(j, r) PROVE TrustInv'
  <2> DEFINE e == Rebuild(held[j], r)
  <2>0. Marked(held[j]) /\ Settled(held[j]) /\ held[j] \in Extraction
    BY <1>0, <1>7 DEF BackfillSnapshot, TrustInv
  <2>1. e.replay = "unjudged" /\ e.trust = held[j].trust /\ e.behind = held[j].behind
    BY <2>0 DEF Rebuild, Extraction
  <2> HIDE DEF e
  <2>2. Marked(e) /\ Settled(e)
    BY <2>0, <2>1 DEF Marked, Settled
  <2>3. UNCHANGED <<last, ed>> /\ held' = [held EXCEPT ![j] = e]
        /\ \A k \in Jobs \ {j} : pc'[k] = pc[k] /\ held'[k] = held[k]
    BY <1>7 DEF BackfillSnapshot, Goto, Hold, LegalReviewTypeOK, e
  <2>4. snap'.taken => Marked(snap'.data)
    BY <1>0, <1>7, <2>0 DEF BackfillSnapshot
  <2> QED
    BY <2>2, <2>3, <2>4, JobTrust
<1>8. ASSUME NEW j \in Jobs, TrustJudge(j) PROVE TrustInv'
  <2> DEFINE e == Reviewed(held[j], last)
  <2>1. Marked(e) /\ Settled(e)
    BY <1>0, ReviewedMarks
  <2>2. UNCHANGED <<last, ed, snap>> /\ held' = [held EXCEPT ![j] = e]
        /\ \A k \in Jobs \ {j} : pc'[k] = pc[k] /\ held'[k] = held[k]
    BY <1>8 DEF TrustJudge, Goto, Hold, LegalReviewTypeOK
  <2> HIDE DEF e
  <2> QED
    BY <1>s, <2>1, <2>2, JobTrust
<1>9. ASSUME NEW j \in Jobs, Save(j) PROVE TrustInv'
  <2>1. Marked(held[j]) /\ Settled(held[j])
    BY <1>9 DEF Save, TrustInv
  <2>2. UNCHANGED <<last, snap, held>> /\ ed' = held[j]
        /\ \A k \in Jobs \ {j} : pc'[k] = pc[k] /\ held'[k] = held[k]
    BY <1>9 DEF Save, Goto, LegalReviewTypeOK
  <2> QED
    BY <1>s, <2>1, <2>2, JobTrust
<1>10. ASSUME NEW j \in Jobs, RestoreRead(j) PROVE TrustInv'
  <2> DEFINE e == Old(snap.data)
  <2>1. snap.data \in Extraction /\ Marked(snap.data)
    BY <1>0, <1>10 DEF RestoreRead, LegalReviewTypeOK
  <2>2. Marked(e) /\ Settled(e)
    BY <2>1, LagMarks, OldIs DEF Settled, Marked, Marks, Old, Extraction
  <2>3. UNCHANGED <<last, ed, snap>> /\ held' = [held EXCEPT ![j] = e]
        /\ \A k \in Jobs \ {j} : pc'[k] = pc[k] /\ held'[k] = held[k]
    BY <1>10 DEF RestoreRead, Start, Hold, LegalReviewTypeOK
  <2> HIDE DEF e
  <2> QED
    BY <1>s, <2>2, <2>3, JobTrust
<1>11. ASSUME NEW j \in Jobs, RestoreLead(j) PROVE TrustInv'
  <2>1. Marked(held[j]) /\ Settled(held[j])
    BY <1>11 DEF RestoreLead, TrustInv
  <2>2. UNCHANGED <<last, snap>> /\ ed' = held[j] /\ pc'[j] = "restored"
        /\ \A k \in Jobs \ {j} : pc'[k] = pc[k] /\ held'[k] = held[k]
    BY <1>11 DEF RestoreLead, Goto, Hold, LegalReviewTypeOK
  <2> QED
    BY <1>s, <2>1, <2>2, JobTrust
<1>12. ASSUME NEW j \in Jobs, File(j) \/ RestoreResult(j) \/ RestoreDelete(j) \/ Crash(j) PROVE TrustInv'
  <2>1. UNCHANGED <<last, ed>> /\ pc'[j] \in {"idle", "deleting"}
        /\ \A k \in Jobs \ {j} : pc'[k] = pc[k] /\ held'[k] = held[k]
    BY <1>12 DEF File, RestoreResult, RestoreDelete, Crash, Goto, Hold, LegalReviewTypeOK
  <2>2. snap'.taken => Marked(snap'.data)
    BY <1>0, <1>12 DEF File, RestoreResult, RestoreDelete, Crash
  <2> QED
    BY <1>0, <2>1, <2>2, JobTrust
<1>13. ASSUME NEW w \in Reviewers, Load(w) PROVE TrustInv'
  BY <1>4, <1>13 DEF Load
<1>14. ASSUME UNCHANGED vars PROVE TrustInv'
  BY <1>4, <1>14 DEF vars
<1> QED
  BY <1>1, <1>2, <1>3, <1>5, <1>6, <1>7, <1>8, <1>9, <1>10, <1>11, <1>12, <1>13, <1>14
  DEF Next, Review, JobStep

(* It holds at the start.                                                   *)
LEMMA InitTrust == Init => TrustInv
<1> SUFFICES ASSUME Init PROVE TrustInv
  OBVIOUS
<1>1. PICK r \in Readings : ed = Judge(Fresh(r, NoEvent), NoEvent)
  BY DEF Init
<1>2. Fresh(r, NoEvent) \in Extraction /\ NoEvent \in Log
  BY FreshMarks, NoEventType
<1>3. Marks(ed) /\ \A f \in Fields : ed.trust[f] \in {"corrected", "confirmed"} => Stands(NoEvent, f)
  BY <1>1, <1>2, JudgeMarks
<1> QED
  BY <1>3 DEF Init, TrustInv, Marked, Settled

(* A dossier is shown as extracted or reviewed only if a person has        *)
(* settled every value that cannot be relied on (trust.py), whatever jobs  *)
(* and reviewers write over each other.                                    *)
THEOREM NothingIsHidden == Spec => []NothingHidden
<1>1. Init => LegalReviewTypeOK /\ TrustInv
  BY InitTypes, InitTrust
<1>2. LegalReviewTypeOK /\ TrustInv /\ [Next]_vars => (LegalReviewTypeOK /\ TrustInv)'
  BY StepTypes, StepTrust
<1> QED
  BY <1>1, <1>2, TrustShown, PTL DEF Spec

=============================================================================

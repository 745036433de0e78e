------------------------- MODULE LegalReadingProofs -------------------------
(***************************************************************************)
(* Theorems about how the pages of legal notices are read: which model     *)
(* reads them (ModelRouting), for every set of processes and saves and for *)
(* every form the console may send; and what becomes of its replies        *)
(* (Reading), for documents, batches and replies of any size.              *)
(***************************************************************************)
EXTENDS ModelRouting, Reading, FiniteSetTheorems, TLAPS

(* What a save that wants `new` may write: each key with its value in new. *)
PairsOf(new) == {<<k, new[k]>> : k \in Keys}

Pending(s, k) == \E i \in 1 .. Len(writing[s]) : writing[s][i][1] = k

(* What a save has yet to write is part of one setup, typed as it is.      *)
WritesSetup(s, new) == writing[s] \in Seq(PairsOf(new))

(* An undisturbed save has checked its setup, and the table differs from   *)
(* it only in what is yet to be written.                                   *)
OnItsWay(s, new) ==
    /\ Callable(new)
    /\ \A k \in Keys : table[k] = new[k] \/ Pending(s, k)

SaveInv(s) ==
    /\ Len(writing[s]) <= Len(keys)
    /\ \E new \in Options :
          WritesSetup(s, new) /\ (writing[s] = <<>> \/ overlap \/ OnItsWay(s, new))
    /\ writing[s] = <<>> \/ overlap \/ \A other \in Savers \ {s} : writing[other] = <<>>

(* What the table and the saves owe each other. *)
TableInv ==
    /\ table \in Options /\ cached \in [Processes -> Options \cup {None}]
    /\ overlap \in BOOLEAN
    /\ writing = [s \in Savers |-> writing[s]]
    /\ \A s \in Savers : SaveInv(s)
    /\ Saving \/ overlap \/ Callable(table)

(* What the record of a batch holds at each of its stages. *)
Stage(b) ==
    LET first == First(b.conf, b.language) IN
    CASE b.at = "first"  -> b.calls = <<>> /\ b.reading = None
      [] b.at = "retry"  -> /\ b.calls = <<[provider |-> first, status |-> "FAIL"]>>
                            /\ b.reading = None
      [] b.at = "reread" -> /\ b.calls = <<[provider |-> first, status |-> "OK"]>>
                            /\ b.reading = first
                            /\ Escalate(b.conf, b.language) \in Providers \ {first}
      [] b.at = "done"   -> TRUE

BatchInv ==
    /\ batch # None => batch \in Batch /\ Stage(batch)
    /\ EachModelOnce /\ OneReadingUsed

CountInv == saves \in 0 .. MaxSaves /\ batches \in 0 .. MaxBatches /\ faults \in 0 .. MaxFaults

RoutingInv == TableInv /\ BatchInv /\ CountInv

-----------------------------------------------------------------------------
(* The settings, and what a save writes.                                   *)

LEMMA KeyNames ==
    /\ Keys = {"routing", "main", "multilingual", "scanned", "fallback", "key"}
    /\ Len(keys) = 6
  BY DEF Keys, keys, Range

LEMMA DefaultFits == Default \in Options /\ Callable(Default)
  BY DEF Default, Options, Providers, Callable, Used, Configured

(* A form laid over a setup is a setup. *)
LEMMA MergedFits ==
  ASSUME NEW current \in Options, NEW request \in Request
  PROVE  Merged(current, request) \in Options
<1>1. current.key \in BOOLEAN /\ request.key \in {"keep", "set", "clear"}
  BY DEF Options, Request
<1>2. (request.key = "set" \/ (request.key = "keep" /\ current.key)) \in BOOLEAN
  BY <1>1
<1> QED
  BY <1>1, <1>2, KeyNames DEF Merged, Options, Request

(* So is a setup with one key of another one. *)
LEMMA PutFits ==
  ASSUME NEW conf \in Options, NEW new \in Options, NEW k \in Keys
  PROVE  [conf EXCEPT ![k] = new[k]] \in Options
  BY KeyNames DEF Options

(* Two setups with the same keys may be called alike. *)
LEMMA SameSetup ==
  ASSUME NEW conf \in Options, NEW new \in Options, \A k \in Keys : conf[k] = new[k]
  PROVE  conf = new
  BY KeyNames DEF Options

(* A save writes every key of its setup, its secret only when it was given. *)
LEMMA UpdatesWrite ==
  ASSUME NEW new \in Options, NEW request \in Request,
         NEW todo, todo = Updates(request, new)
  PROVE  /\ todo \in Seq(PairsOf(new)) /\ Len(todo) <= Len(keys) /\ todo # <<>>
         /\ \A k \in Keys : \/ \E i \in 1 .. Len(todo) : todo[i][1] = k
                            \/ k = "key" /\ request.key = "keep"
<1> DEFINE pairs == [i \in 1 .. Len(keys) |-> <<keys[i], new[keys[i]]>>]
<1>1. Len(keys) = 6 /\ \A i \in 1 .. 6 : keys[i] \in Keys
  BY KeyNames DEF keys
<1>2. /\ pairs \in Seq(PairsOf(new)) /\ Len(pairs) = 6 /\ pairs # <<>>
      /\ \A i \in 1 .. 6 : pairs[i] \in PairsOf(new) /\ pairs[i][1] = keys[i]
  BY <1>1 DEF PairsOf
<1>3. todo = IF request.key = "keep" THEN Front(pairs) ELSE pairs
  BY DEF Updates
<1> HIDE DEF pairs
<1>4. CASE request.key = "keep"
  <2>1. todo = SubSeq(pairs, 1, 5)
    BY <1>2, <1>3, <1>4 DEF Front
  <2>2. todo = [i \in 1 .. 5 |-> pairs[i]]
    BY <1>2, <2>1
  <2>3. /\ todo \in Seq(PairsOf(new)) /\ Len(todo) = 5
        /\ \A i \in 1 .. 5 : todo[i][1] = keys[i]
    BY <1>2, <2>2
  <2>4. \A k \in Keys \ {"key"} : \E i \in 1 .. 5 : keys[i] = k
    BY KeyNames DEF keys
  <2>5. Len(todo) <= Len(keys)
    BY <2>3, KeyNames
  <2>6. \A k \in Keys : \/ \E i \in 1 .. Len(todo) : todo[i][1] = k
                        \/ k = "key" /\ request.key = "keep"
    BY <1>4, <2>3, <2>4
  <2>7. todo \in Seq(PairsOf(new)) /\ todo # <<>>
    BY <1>2, <2>2
  <2> QED
    BY <2>5, <2>6, <2>7
<1>5. CASE request.key # "keep"
  <2>1. todo = pairs /\ Len(todo) = 6
    BY <1>2, <1>3, <1>5
  <2>2. \A k \in Keys : \E i \in 1 .. 6 : keys[i] = k
    BY KeyNames DEF keys
  <2>3. \A i \in 1 .. 6 : todo[i][1] = keys[i]
    BY <1>2, <2>1
  <2>4. \A k \in Keys : \E i \in 1 .. 6 : todo[i][1] = k
    BY <2>2, <2>3
  <2>5. Len(todo) <= Len(keys)
    BY <2>1, KeyNames
  <2>6. todo \in Seq(PairsOf(new)) /\ todo # <<>>
    BY <1>2, <2>1
  <2>7. \A k \in Keys : \E i \in 1 .. Len(todo) : todo[i][1] = k
    BY <2>1, <2>4
  <2> QED
    BY <2>5, <2>6, <2>7
<1> QED
  BY <1>4, <1>5

-----------------------------------------------------------------------------
(* The table and the saves.                                                *)

LEMMA InitTable == Init => TableInv
<1> SUFFICES ASSUME Init PROVE TableInv
  OBVIOUS
<1>1. /\ table = Default /\ overlap = FALSE
      /\ cached = [p \in Processes |-> None] /\ writing = [s \in Savers |-> <<>>]
  BY DEF Init
<1>2. \A s \in Savers : SaveInv(s)
  BY <1>1, KeyNames, DefaultFits DEF SaveInv, WritesSetup
<1> QED
  BY <1>1, <1>2, DefaultFits DEF TableInv

(* A save that checked its setup is the only one, or the saves have met.   *)
LEMMA StartKeeps ==
  ASSUME TableInv, NEW s \in Savers, NEW request \in Requests, StartSave(s, request)
  PROVE  TableInv'
<1>1. PICK new \in Options : new = Merged(table, request)
  BY MergedFits, RoutingAssumption DEF TableInv
<1>5. PICK todo : todo = Updates(request, new)
  OBVIOUS
<1>6. request \in Request /\ table \in Options
  BY RoutingAssumption DEF TableInv
<1>2. cached' \in [Processes -> Options \cup {None}] /\ table' = table
  BY RoutingAssumption DEF StartSave, TableInv
<1>3. CASE ~Callable(new)
  <2>1. UNCHANGED <<writing, overlap>>
    BY <1>1, <1>3 DEF StartSave
  <2> QED
    BY <1>2, <2>1 DEF TableInv, SaveInv, WritesSetup, OnItsWay, Pending, Saving
<1>4. CASE Callable(new)
  <2>1. /\ writing' = [writing EXCEPT ![s] = todo] /\ overlap' = (overlap \/ Saving)
        /\ writing[s] = <<>>
    BY <1>1, <1>4, <1>5 DEF StartSave
  <2>2. /\ todo \in Seq(PairsOf(new)) /\ Len(todo) <= Len(keys) /\ todo # <<>>
        /\ \A k \in Keys : \/ \E i \in 1 .. Len(todo) : todo[i][1] = k
                           \/ k = "key" /\ request.key = "keep"
    BY <1>5, <1>6, UpdatesWrite
  <2>3. todo \in Seq(PairsOf(new)) /\ Len(todo) <= Len(keys) /\ todo # <<>>
    BY <2>2
  <2>8. request.key = "keep" => table["key"] = new["key"]
    BY <1>1, <1>6, KeyNames DEF Merged, Options
  <2>4. /\ writing' = [t \in Savers |-> writing'[t]] /\ writing'[s] = todo /\ todo # <<>>
        /\ \A other \in Savers \ {s} : writing'[other] = writing[other]
    <3>1. writing = [t \in Savers |-> writing[t]] /\ todo # <<>>
      BY <2>3 DEF TableInv
    <3> QED
      BY <2>1, <3>1
  <2>5. overlap' \in BOOLEAN /\ Saving'
    BY <2>1, <2>4 DEF TableInv, Saving
  <2>6. SaveInv(s)'
    <3>3. writing'[s] \in Seq(PairsOf(new)) /\ Len(writing'[s]) <= Len(keys)
      BY <2>3, <2>4
    <3>4. \A k \in Keys : table'[k] = new[k] \/ \E i \in 1 .. Len(writing'[s]) : writing'[s][i][1] = k
      BY <1>2, <2>2, <2>4, <2>8
    <3>1. WritesSetup(s, new)' /\ Callable(new)
      BY <1>4, <3>3 DEF WritesSetup
    <3>5. OnItsWay(s, new)'
      BY <3>1, <3>4 DEF OnItsWay, Pending
    <3>2. overlap' \/ \A other \in Savers \ {s} : writing'[other] = <<>>
      BY <2>1, <2>4 DEF Saving
    <3> QED
      BY <1>1, <3>1, <3>2, <3>3, <3>5 DEF SaveInv
  <2>7. ASSUME NEW other \in Savers \ {s} PROVE SaveInv(other)'
    <3>1. SaveInv(other) /\ writing'[other] = writing[other]
      BY <2>4 DEF TableInv
    <3>2. writing[other] = <<>> \/ overlap'
      BY <2>1 DEF Saving
    <3> QED
      BY <3>1, <3>2 DEF SaveInv, WritesSetup
  <2> QED
    BY <1>2, <1>6, <2>4, <2>5, <2>6, <2>7 DEF TableInv
<1> QED
  BY <1>3, <1>4


(* A save that started from the defaults counts as disturbed. *)
LEMMA StartBlindKeeps ==
  ASSUME TableInv, NEW s \in Savers, NEW request \in Requests, StartSaveBlind(s, request)
  PROVE  TableInv'
<1>1. PICK new \in Options : new = Merged(Default, request)
  BY MergedFits, DefaultFits, RoutingAssumption
<1>2. PICK todo : todo = Updates(request, new)
  OBVIOUS
<1>3. request \in Request
  BY RoutingAssumption
<1>4. todo \in Seq(PairsOf(new)) /\ Len(todo) <= Len(keys) /\ todo # <<>>
  BY <1>2, <1>3, UpdatesWrite
<1>5. writing' = [writing EXCEPT ![s] = todo] /\ overlap' = TRUE /\ table' = table
  BY <1>1, <1>2 DEF StartSaveBlind
<1>6. cached' \in [Processes -> Options \cup {None}]
  BY RoutingAssumption, DefaultFits DEF StartSaveBlind, TableInv
<1>7. /\ writing' = [t \in Savers |-> writing'[t]] /\ writing'[s] = todo
      /\ \A other \in Savers \ {s} : writing'[other] = writing[other]
  <2>1. writing = [t \in Savers |-> writing[t]]
    BY DEF TableInv
  <2> QED
    BY <1>5, <2>1
<1>8. SaveInv(s)'
  BY <1>4, <1>5, <1>7 DEF SaveInv, WritesSetup
<1>9. ASSUME NEW other \in Savers \ {s} PROVE SaveInv(other)'
  BY <1>5, <1>7 DEF SaveInv, WritesSetup, TableInv
<1> QED
  BY <1>5, <1>6, <1>7, <1>8, <1>9 DEF TableInv

(* The key that is written leaves the list; with the last one the table is *)
(* the setup that was checked.                                             *)
LEMMA WriteKeeps ==
  ASSUME TableInv, NEW s \in Savers, WriteKey(s)
  PROVE  TableInv'
<1>1. writing[s] # <<>> /\ SaveInv(s) /\ table \in Options /\ overlap' = overlap
  BY DEF WriteKey, TableInv
<1>2. PICK new \in Options : writing[s] \in Seq(PairsOf(new)) /\ (overlap \/ OnItsWay(s, new))
  BY <1>1 DEF SaveInv, WritesSetup
<1>3. PICK w \in Seq(PairsOf(new)) : w = writing[s] /\ w # <<>> /\ Len(w) <= Len(keys)
  BY <1>1, <1>2 DEF SaveInv
<1>4. PICK k \in Keys : Head(w) = <<k, new[k]>>
  BY <1>3 DEF PairsOf
<1>5. /\ Tail(w) \in Seq(PairsOf(new)) /\ Len(Tail(w)) <= Len(keys)
      /\ \A i \in 1 .. Len(w) : i # 1 => i - 1 \in 1 .. Len(Tail(w)) /\ Tail(w)[i - 1] = w[i]
      /\ Head(w) = w[1]
  BY <1>3, KeyNames
<1>6. table' = [table EXCEPT ![k] = new[k]]
  <2>1. table' = [table EXCEPT ![Head(w)[1]] = Head(w)[2]]
    BY <1>3 DEF WriteKey
  <2>2. Head(w)[1] = k /\ Head(w)[2] = new[k]
    BY <1>4
  <2> QED
    BY <2>1, <2>2
<1>7. table' \in Options
  BY <1>1, <1>6, PutFits
<1>8. /\ writing' = [t \in Savers |-> writing'[t]] /\ writing'[s] = Tail(w)
      /\ \A other \in Savers \ {s} : writing'[other] = writing[other]
  <2>1. writing = [t \in Savers |-> writing[t]]
    BY DEF TableInv
  <2> QED
    BY <1>3, <2>1 DEF WriteKey
<1>9. cached' \in [Processes -> Options \cup {None}]
  <2>1. cached' = cached \/ cached' = [cached EXCEPT ![Web] = table']
    BY DEF WriteKey
  <2> QED
    BY <1>7, <2>1, RoutingAssumption DEF TableInv
<1>10. ASSUME ~overlap
       PROVE  /\ Callable(new)
              /\ \A q \in Keys : table'[q] = new[q] \/ \E i \in 1 .. Len(Tail(w)) : Tail(w)[i][1] = q
  <2>1. Callable(new) /\ \A q \in Keys : table[q] = new[q] \/ \E i \in 1 .. Len(w) : w[i][1] = q
    BY <1>2, <1>3, <1>10 DEF OnItsWay, Pending
  <2>2. table'[k] = new[k] /\ \A q \in Keys \ {k} : table'[q] = table[q]
    BY <1>1, <1>6, KeyNames DEF Options
  <2>3. ASSUME NEW q \in Keys, NEW i \in 1 .. Len(w), w[i][1] = q
        PROVE  table'[q] = new[q] \/ \E j \in 1 .. Len(Tail(w)) : Tail(w)[j][1] = q
    <3>1. CASE i = 1
      BY <1>4, <1>5, <2>2, <2>3, <3>1
    <3>2. CASE i # 1
      BY <1>5, <2>3, <3>2
    <3> QED
      BY <3>1, <3>2
  <2> QED
    BY <2>1, <2>2, <2>3
<1>11. SaveInv(s)'
  <2>1. writing'[s] \in Seq(PairsOf(new)) /\ Len(writing'[s]) <= Len(keys)
    BY <1>5, <1>8
  <2>2. overlap' \/ OnItsWay(s, new)'
    BY <1>1, <1>8, <1>10 DEF OnItsWay, Pending
  <2>3. overlap' \/ \A other \in Savers \ {s} : writing'[other] = <<>>
    BY <1>1, <1>8 DEF SaveInv
  <2> QED
    BY <2>1, <2>2, <2>3 DEF SaveInv, WritesSetup
<1>12. ASSUME NEW other \in Savers \ {s} PROVE SaveInv(other)'
  <2>1. SaveInv(other) /\ writing'[other] = writing[other]
    BY <1>8 DEF TableInv
  <2>2. writing[other] = <<>> \/ overlap
    BY <1>1 DEF SaveInv
  <2> QED
    BY <1>1, <2>1, <2>2 DEF SaveInv, WritesSetup
<1>13. Saving' \/ overlap' \/ Callable(table')
  <2>1. CASE Tail(w) # <<>>
    BY <1>8, <2>1 DEF Saving
  <2>2. CASE Tail(w) = <<>> /\ ~overlap
    <3>2. \A i \in 1 .. Len(<<>>) : FALSE
      OBVIOUS
    <3>3. \A i \in 1 .. Len(Tail(w)) : FALSE
      BY <2>2, <3>2, Zenon
    <3>1. \A q \in Keys : table'[q] = new[q]
      BY <1>10, <2>2, <3>3
    <3>4. table' = new
      BY <1>7, <3>1, SameSetup
    <3> QED
      BY <1>10, <2>2, <3>4
  <2> QED
    BY <1>1, <2>1, <2>2
<1> QED
  BY <1>1, <1>7, <1>8, <1>9, <1>11, <1>12, <1>13 DEF TableInv

LEMMA DieKeeps == TableInv /\ WebDies => TableInv'
<1> SUFFICES ASSUME TableInv, WebDies PROVE TableInv'
  OBVIOUS
<1>1. /\ writing' = [s \in Savers |-> <<>>] /\ overlap' = (overlap \/ Saving)
      /\ table' = table /\ cached' = [cached EXCEPT ![Web] = None]
  BY DEF WebDies
<1>2. overlap' \in BOOLEAN
  BY <1>1 DEF TableInv, Saving
<1>3. \A s \in Savers : SaveInv(s)'
  BY <1>1, KeyNames DEF SaveInv, WritesSetup, TableInv
<1> QED
  BY <1>1, <1>2, <1>3 DEF TableInv

(* Whoever reads settings only fills its own cache. *)
LEMMA TableKept ==
  ASSUME TableInv, UNCHANGED <<table, writing, overlap>>,
         cached' \in [Processes -> Options \cup {None}]
  PROVE  TableInv'
  BY DEF TableInv, SaveInv, WritesSetup, OnItsWay, Pending, Saving

-----------------------------------------------------------------------------
(* A batch.                                                                *)

Once(made) == \A i, j \in DOMAIN made : i # j => made[i].provider # made[j].provider
GoodCalls(made) == {made[i].provider : i \in {j \in DOMAIN made : made[j].status = "OK"}}
Records == UNION {[1 .. n -> Call] : n \in 0 .. 3}

LEMMA NoCalls == <<>> \in Records /\ Once(<<>>) /\ GoodCalls(<<>>) = {}
<1>1. <<>> \in [1 .. 0 -> Call] /\ DOMAIN <<>> = {}
  OBVIOUS
<1> QED
  BY <1>1 DEF Records, Once, GoodCalls

LEMMA OneCall ==
  ASSUME NEW c \in Call
  PROVE  /\ <<c>> \in Records /\ Once(<<c>>)
         /\ GoodCalls(<<c>>) = IF c.status = "OK" THEN {c.provider} ELSE {}
<1> DEFINE made == <<c>>
<1>1. made \in [1 .. 1 -> Call] /\ DOMAIN made = {1} /\ made[1] = c
  OBVIOUS
<1> HIDE DEF made
<1>2. made \in Records /\ Once(made)
  BY <1>1 DEF Records, Once
<1>3. GoodCalls(made) = IF c.status = "OK" THEN {c.provider} ELSE {}
  BY <1>1 DEF GoodCalls
<1> QED
  BY <1>2, <1>3 DEF made

LEMMA TwoCalls ==
  ASSUME NEW c \in Call, NEW d \in Call, c.provider # d.provider
  PROVE  /\ <<c, d>> \in Records /\ Once(<<c, d>>)
         /\ GoodCalls(<<c, d>>) = (IF c.status = "OK" THEN {c.provider} ELSE {})
                                   \cup (IF d.status = "OK" THEN {d.provider} ELSE {})
<1> DEFINE made == <<c, d>>
<1>1. /\ made \in [1 .. 2 -> Call] /\ DOMAIN made = {1, 2}
      /\ made[1] = c /\ made[2] = d
  OBVIOUS
<1> HIDE DEF made
<1>2. made \in Records /\ Once(made)
  BY <1>1 DEF Records, Once
<1>3. GoodCalls(made) = (IF c.status = "OK" THEN {c.provider} ELSE {})
                          \cup (IF d.status = "OK" THEN {d.provider} ELSE {})
  BY <1>1 DEF GoodCalls
<1> QED
  BY <1>2, <1>3 DEF made

(* The plan names models, and the fallback another one than it failed with. *)
LEMMA Readers ==
  ASSUME NEW conf \in Options, NEW language \in Languages
  PROVE  /\ First(conf, language) \in Providers
         /\ Other(First(conf, language)) \in Providers \ {First(conf, language)}
         /\ Escalate(conf, language) \in Providers \cup {None}
  BY DEF First, Other, Escalate, Options, Providers

(* A batch that is as it should be at its stage. *)
Sound(b) ==
    /\ b \in Batch /\ Stage(b) /\ Once(b.calls)
    /\ GoodCalls(b.calls) = {b.reading} \ {None}

LEMMA SoundIsInv ==
    /\ BatchInv <=> (batch # None => Sound(batch))
    /\ BatchInv' <=> (batch' # None => Sound(batch'))
  BY DEF BatchInv, Sound, EachModelOnce, OneReadingUsed, Once, GoodCalls

LEMMA StartBatchSound ==
  ASSUME NEW p \in Processes, NEW language \in Languages, TableInv, StartBatch(p, language)
  PROVE  BatchInv' /\ cached' \in [Processes -> Options \cup {None}]
<1>1. PICK conf \in {IF cached[p] = None THEN table ELSE cached[p], Default} :
        /\ cached' = [cached EXCEPT ![p] = conf]
        /\ batch' = [at |-> "first", conf |-> conf, language |-> language,
                     calls |-> <<>>, reading |-> None, foreign |-> FALSE]
  BY DEF StartBatch
<1>2. conf \in Options
  BY <1>1, DefaultFits DEF TableInv
<1>3. cached' \in [Processes -> Options \cup {None}]
  BY <1>1, <1>2 DEF TableInv
<1>4. batch' \in Batch
  BY <1>1, <1>2, NoCalls DEF Batch, Records
<1>5. Stage(batch')
  BY <1>1 DEF Stage
<1>6. Once(batch'.calls) /\ GoodCalls(batch'.calls) = {batch'.reading} \ {None}
  BY <1>1, NoCalls
<1>7. Sound(batch')
  BY <1>4, <1>5, <1>6 DEF Sound
<1>8. BatchInv'
  BY <1>7, SoundIsInv
<1> QED
  BY <1>3, <1>8

(* A batch whose next call failed. *)
LEMMA CallFailsSound ==
  ASSUME NEW b, b = batch, Sound(b), b.at # "done", CallFails
  PROVE  Sound(batch')
<1>1. b \in Batch /\ b.conf \in Options /\ b.language \in Languages
  BY DEF Sound, Batch
<1>2. PICK f \in Providers : f = First(b.conf, b.language)
  BY <1>1, Readers
<1>3. PICK o \in Providers \ {f} : o = Other(f)
  BY <1>1, <1>2, Readers
<1>4. PICK at \in {"retry", "done"} :
        /\ batch' = [b EXCEPT !.calls = Recorded("FAIL"), !.at = at]
        /\ at = "retry" => b.at = "first"
  BY DEF CallFails
<1>5. /\ batch'.conf = b.conf /\ batch'.language = b.language /\ batch'.reading = b.reading
      /\ batch'.at = at /\ batch'.calls = Recorded("FAIL")
  BY <1>1, <1>4 DEF Batch
<1>6. ASSUME batch'.calls \in Records PROVE batch' \in Batch
  BY <1>1, <1>4, <1>6 DEF Batch, Records
<1>7. CASE b.at = "first"
  <2> DEFINE c == [provider |-> f, status |-> "FAIL"]
  <2>1. b.calls = <<>> /\ b.reading = None /\ Reader = f
    BY <1>2, <1>7 DEF Sound, Stage, Reader
  <2>2. c \in Call /\ Recorded("FAIL") = <<c>>
    BY <2>1 DEF Recorded, Call
  <2>3. /\ <<c>> \in Records /\ Once(<<c>>) /\ GoodCalls(<<c>>) = {}
    BY <2>2, OneCall
  <2>4. Stage(batch')
    BY <1>2, <1>4, <1>5, <2>1, <2>2 DEF Stage
  <2> QED
    BY <1>5, <1>6, <2>1, <2>2, <2>3, <2>4 DEF Sound
<1>8. CASE b.at = "retry"
  <2> DEFINE c == [provider |-> f, status |-> "FAIL"]
             d == [provider |-> o, status |-> "FAIL"]
  <2>1. b.calls = <<c>> /\ b.reading = None /\ Reader = o
    BY <1>2, <1>3, <1>8 DEF Sound, Stage, Reader
  <2>2. c \in Call /\ d \in Call /\ c.provider # d.provider /\ Recorded("FAIL") = <<c, d>>
    <3>1. c \in Call /\ d \in Call /\ c.provider # d.provider
      BY <1>3, <2>1 DEF Call
    <3>2. Recorded("FAIL") = Append(<<c>>, d)
      BY <1>3, <2>1 DEF Recorded
    <3> QED
      BY <3>1, <3>2
  <2>3. <<c, d>> \in Records /\ Once(<<c, d>>) /\ GoodCalls(<<c, d>>) = {}
    BY <2>2, TwoCalls
  <2>4. Stage(batch')
    BY <1>4, <1>5, <1>8 DEF Stage
  <2> QED
    BY <1>5, <1>6, <2>1, <2>2, <2>3, <2>4 DEF Sound
<1>9. CASE b.at = "reread"
  <2>1. PICK e \in Providers \ {f} : e = Escalate(b.conf, b.language)
    BY <1>2, <1>9 DEF Sound, Stage
  <2> DEFINE c == [provider |-> f, status |-> "OK"]
             d == [provider |-> e, status |-> "FAIL"]
  <2>2. b.calls = <<c>> /\ b.reading = f /\ Reader = e
    BY <1>2, <1>9, <2>1 DEF Sound, Stage, Reader
  <2>3. c \in Call /\ d \in Call /\ c.provider # d.provider /\ Recorded("FAIL") = <<c, d>>
    <3>1. c \in Call /\ d \in Call /\ c.provider # d.provider
      BY <2>1, <2>2 DEF Call
    <3>2. Recorded("FAIL") = Append(<<c>>, d)
      BY <2>1, <2>2 DEF Recorded
    <3> QED
      BY <3>1, <3>2
  <2>4. <<c, d>> \in Records /\ Once(<<c, d>>) /\ GoodCalls(<<c, d>>) = {f}
    BY <2>3, TwoCalls
  <2>5. Stage(batch')
    BY <1>4, <1>5, <1>9 DEF Stage
  <2> QED
    BY <1>5, <1>6, <2>2, <2>3, <2>4, <2>5, RoutingAssumption DEF Sound
<1> QED
  BY <1>1, <1>7, <1>8, <1>9 DEF Batch

(* A batch whose next call answered. *)
LEMMA CallReadsSound ==
  ASSUME NEW b, b = batch, Sound(b), b.at # "done", NEW foreign \in BOOLEAN, CallReads(foreign)
  PROVE  Sound(batch')
<1>1. b \in Batch /\ b.conf \in Options /\ b.language \in Languages
  BY DEF Sound, Batch
<1>2. PICK f \in Providers : f = First(b.conf, b.language)
  BY <1>1, Readers
<1>3. PICK o \in Providers \ {f} : o = Other(f)
  BY <1>1, <1>2, Readers
<1>4. PICK at \in {"reread", "done"}, made \in {Recorded("OK"), Superseded(Recorded("OK"))} :
        /\ batch' = [b EXCEPT !.calls = made, !.reading = Reader,
                              !.foreign = foreign, !.at = at]
        /\ made = IF b.at = "reread" THEN Superseded(Recorded("OK")) ELSE Recorded("OK")
        /\ at = "reread" => b.at = "first" /\ Rereads(b.conf, b.language, foreign)
  BY DEF CallReads
<1>5. /\ batch'.conf = b.conf /\ batch'.language = b.language /\ batch'.reading = Reader
      /\ batch'.at = at /\ batch'.calls = made
  BY <1>1, <1>4 DEF Batch
<1>6. ASSUME made \in Records, Reader \in Providers PROVE batch' \in Batch
  BY <1>1, <1>4, <1>6 DEF Batch, Records
<1>7. ASSUME Reader \in Providers, made \in Records, Once(made), GoodCalls(made) = {Reader},
             Stage(batch')
      PROVE  Sound(batch')
  BY <1>5, <1>6, <1>7, RoutingAssumption DEF Sound
<1>8. CASE b.at = "first"
  <2> DEFINE c == [provider |-> f, status |-> "OK"]
  <2>1. b.calls = <<>> /\ Reader = f
    BY <1>2, <1>8 DEF Sound, Stage, Reader
  <2>2. c \in Call /\ made = <<c>>
    BY <1>4, <1>8, <2>1 DEF Recorded, Call
  <2>3. /\ <<c>> \in Records /\ Once(<<c>>) /\ GoodCalls(<<c>>) = {f}
    BY <2>2, OneCall
  <2>4. at = "reread" => Escalate(b.conf, b.language) \in Providers \ {f}
    BY <1>1, <1>2, <1>4, Readers DEF Rereads
  <2>5. Stage(batch')
    BY <1>2, <1>4, <1>5, <2>1, <2>2, <2>4 DEF Stage
  <2> QED
    BY <1>7, <2>1, <2>2, <2>3, <2>5
<1>9. CASE b.at = "retry"
  <2> DEFINE c == [provider |-> f, status |-> "FAIL"]
             d == [provider |-> o, status |-> "OK"]
  <2>1. b.calls = <<c>> /\ Reader = o
    BY <1>2, <1>3, <1>9 DEF Sound, Stage, Reader
  <2>2. c \in Call /\ d \in Call /\ c.provider # d.provider
    BY <1>3 DEF Call
  <2>3. Recorded("OK") = Append(<<c>>, d)
    BY <2>1 DEF Recorded
  <2>4. <<c, d>> \in Records /\ Once(<<c, d>>) /\ GoodCalls(<<c, d>>) = {o}
    BY <2>2, TwoCalls
  <2>5. Stage(batch')
    BY <1>4, <1>5, <1>9 DEF Stage
  <2>6. made = <<c, d>>
    <3>1. Recorded("OK") = <<c, d>>
      BY <2>3
    <3> QED
      BY <1>4, <1>9, <3>1
  <2> QED
    BY <1>7, <2>1, <2>4, <2>5, <2>6
<1>10. CASE b.at = "reread"
  <2>1. PICK e \in Providers \ {f} : e = Escalate(b.conf, b.language)
    BY <1>2, <1>10 DEF Sound, Stage
  <2> DEFINE c == [provider |-> f, status |-> "OK"]
             s == [provider |-> f, status |-> "SUPERSEDED"]
             d == [provider |-> e, status |-> "OK"]
  <2>2. b.calls = <<c>> /\ Reader = e
    BY <1>2, <1>10, <2>1 DEF Sound, Stage, Reader
  <2>3. s \in Call /\ d \in Call /\ s.provider # d.provider
    BY <2>1 DEF Call
  <2>4. made = <<s, d>>
    <3>1. Recorded("OK") = Append(<<c>>, d)
      BY <2>2 DEF Recorded
    <3>2. Recorded("OK") = <<c, d>>
      BY <3>1
    <3>3. Superseded(<<c, d>>) = <<[c EXCEPT !.status = "SUPERSEDED"], d>>
      BY DEF Superseded
    <3>4. [c EXCEPT !.status = "SUPERSEDED"] = s
      OBVIOUS
    <3> HIDE DEF c, d, s
    <3> QED
      BY <1>4, <1>10, <3>2, <3>3, <3>4
  <2>5. <<s, d>> \in Records /\ Once(<<s, d>>) /\ GoodCalls(<<s, d>>) = {e}
    BY <2>3, TwoCalls
  <2>6. Stage(batch')
    BY <1>4, <1>5, <1>10 DEF Stage
  <2> QED
    BY <1>7, <2>2, <2>4, <2>5, <2>6
<1> QED
  BY <1>1, <1>8, <1>9, <1>10 DEF Batch

-----------------------------------------------------------------------------
(* The whole.                                                              *)

LEMMA InitRouting == Init => RoutingInv
<1> SUFFICES ASSUME Init PROVE RoutingInv
  OBVIOUS
<1>1. TableInv
  BY InitTable
<1>2. BatchInv
  BY SoundIsInv DEF Init
<1>3. CountInv
  BY RoutingAssumption DEF Init, CountInv
<1> QED
  BY <1>1, <1>2, <1>3 DEF RoutingInv

LEMMA StepCounts == CountInv /\ [Next]_vars => CountInv'
<1> SUFFICES ASSUME CountInv, [Next]_vars PROVE CountInv'
  OBVIOUS
<1> USE RoutingAssumption DEF CountInv
<1>1. ASSUME NEW s \in Savers, NEW request \in Requests,
             StartSave(s, request) \/ StartSaveBlind(s, request)
      PROVE  CountInv'
  BY <1>1 DEF StartSave, StartSaveBlind
<1>2. ASSUME NEW s \in Savers, WriteKey(s) PROVE CountInv'
  BY <1>2 DEF WriteKey
<1>3. CASE WebDies
  BY <1>3 DEF WebDies
<1>4. ASSUME NEW p \in Processes, NEW language \in Languages, StartBatch(p, language)
      PROVE  CountInv'
  <2>1. saves' = saves /\ batches' \in 0 .. MaxBatches
    BY <1>4 DEF StartBatch
  <2>2. faults' \in 0 .. MaxFaults
    BY <1>4 DEF StartBatch
  <2> QED
    BY <2>1, <2>2
<1>5. CASE UNCHANGED <<saves, batches, faults>>
  BY <1>5
<1> QED
  BY <1>1, <1>2, <1>3, <1>4, <1>5 DEF Next, Forgets, ReadBatch, vars

LEMMA StepRouting == RoutingInv /\ [Next]_vars => RoutingInv'
<1> SUFFICES ASSUME RoutingInv, [Next]_vars PROVE TableInv' /\ BatchInv'
  BY StepCounts DEF RoutingInv
<1> USE DEF RoutingInv
<1>1. ASSUME batch' = batch PROVE BatchInv'
  BY <1>1 DEF BatchInv, EachModelOnce, OneReadingUsed
<1>2. ASSUME NEW s \in Savers, NEW request \in Requests,
             StartSave(s, request) \/ StartSaveBlind(s, request)
      PROVE  TableInv' /\ BatchInv'
  <2>1. batch' = batch
    BY <1>2 DEF StartSave, StartSaveBlind
  <2> QED
    BY <1>1, <1>2, <2>1, StartKeeps, StartBlindKeeps
<1>3. ASSUME NEW s \in Savers, WriteKey(s) PROVE TableInv' /\ BatchInv'
  <2>1. batch' = batch
    BY <1>3 DEF WriteKey
  <2> QED
    BY <1>1, <1>3, <2>1, WriteKeeps
<1>4. CASE WebDies
  <2>1. batch' = batch
    BY <1>4 DEF WebDies
  <2> QED
    BY <1>1, <1>4, <2>1, DieKeeps
<1>5. ASSUME NEW p \in Processes, Forgets(p) PROVE TableInv' /\ BatchInv'
  <2>1. /\ batch' = batch /\ UNCHANGED <<table, writing, overlap>>
        /\ cached' \in [Processes -> Options \cup {None}]
    BY <1>5 DEF Forgets, TableInv
  <2> QED
    BY <1>1, <2>1, TableKept
<1>6. ASSUME NEW p \in Processes, NEW language \in Languages, StartBatch(p, language)
      PROVE  TableInv' /\ BatchInv'
  <2>1. UNCHANGED <<table, writing, overlap>>
    BY <1>6 DEF StartBatch
  <2> QED
    BY <1>6, <2>1, StartBatchSound, TableKept
<1>7. CASE ReadBatch
  <2>1. UNCHANGED <<table, writing, cached, overlap>> /\ batch # None /\ batch.at # "done"
    BY <1>7 DEF ReadBatch
  <2>2. cached \in [Processes -> Options \cup {None}] /\ Sound(batch)
    BY <2>1, SoundIsInv DEF TableInv
  <2>3. Sound(batch')
    BY <1>7, <2>1, <2>2, CallFailsSound, CallReadsSound DEF ReadBatch
  <2> QED
    BY <2>1, <2>2, <2>3, SoundIsInv, TableKept
<1>8. CASE UNCHANGED vars
  <2>1. UNCHANGED <<table, writing, cached, overlap>> /\ batch' = batch
    BY <1>8 DEF vars
  <2>2. cached \in [Processes -> Options \cup {None}]
    BY DEF TableInv
  <2> QED
    BY <1>1, <2>1, <2>2, TableKept
<1> QED
  BY <1>2, <1>3, <1>4, <1>5, <1>6, <1>7, <1>8 DEF Next

LEMMA RoutingInvHolds == Spec => []RoutingInv
<1>1. RoutingInv /\ [Next]_vars => RoutingInv'
  BY StepRouting
<1> QED
  BY <1>1, InitRouting, PTL DEF Spec

(* A setup whose used models can be called routes no page elsewhere, and a *)
(* hybrid setup has two models: what a save checks is what a plan uses.    *)
LEMMA CheckedIsRouted ==
  ASSUME NEW conf \in Options, Callable(conf)
  PROVE  Routable(conf) /\ TwoModels(conf)
<1>1. TwoModels(conf)
  BY DEF Callable, TwoModels, First
<1>2. ASSUME NEW language \in Languages,
             NEW provider \in {First(conf, language), Escalate(conf, language)} \ {None}
      PROVE  Configured(provider, conf)
  <2>1. provider \in Used(conf)
    BY <1>2 DEF First, Escalate, Used
  <2> QED
    BY <2>1 DEF Callable
<1> QED
  BY <1>1, <1>2 DEF Routable

(* runtime.py:156-158: at rest the table routes pages only to models that  *)
(* can be called, unless two saves met or a fault hit one.                 *)
THEOREM SettingsAreCallable == Spec => []CallableAtRest
<1>1. RoutingInv => CallableAtRest
  BY CheckedIsRouted DEF RoutingInv, TableInv, CallableAtRest
<1> QED
  BY <1>1, RoutingInvHolds, PTL

(* The parts of the invariant bound every variable. *)
LEMMA RoutingTyped == RoutingInv => RoutingTypeOK
<1> SUFFICES ASSUME RoutingInv PROVE RoutingTypeOK
  OBVIOUS
<1>1. ASSUME NEW s \in Savers, writing[s] # <<>>
      PROVE  \E n \in 1 .. Len(keys) : /\ DOMAIN writing[s] = 1 .. n
                                       /\ \A i \in 1 .. n : writing[s][i][1] \in Keys
  <2>1. PICK new \in Options : writing[s] \in Seq(PairsOf(new)) /\ Len(writing[s]) <= Len(keys)
    BY DEF RoutingInv, TableInv, SaveInv, WritesSetup
  <2>2. PICK w \in Seq(PairsOf(new)) : w = writing[s] /\ w # <<>> /\ Len(w) <= Len(keys)
    BY <1>1, <2>1
  <2>3. Len(w) \in 1 .. Len(keys) /\ DOMAIN w = 1 .. Len(w)
    <3>1. Len(w) \in Nat /\ Len(w) # 0 /\ DOMAIN w = 1 .. Len(w)
      BY <2>2
    <3>2. Len(w) <= Len(keys) /\ Len(keys) = 6
      BY <2>2, KeyNames
    <3> QED
      BY <3>1, <3>2
  <2>4. ASSUME NEW i \in 1 .. Len(w) PROVE w[i][1] \in Keys
    BY <2>2 DEF PairsOf
  <2> QED
    BY <2>2, <2>3, <2>4
<1>2. batch = None \/ batch \in Batch
  BY DEF RoutingInv, BatchInv
<1> QED
  BY <1>1, <1>2 DEF RoutingInv, TableInv, CountInv, RoutingTypeOK

(* llm.py: the record of a batch names each model once, and as read by     *)
(* exactly the one whose reading is used.                                  *)
THEOREM CallsAreTold == Spec => []CallsTell
<1>1. RoutingInv => CallsTell
  BY RoutingTyped DEF RoutingInv, BatchInv, CallsTell
<1> QED
  BY <1>1, RoutingInvHolds, PTL
-----------------------------------------------------------------------------
(* Reading.  What a reply says is a function from fields to values. *)

Readable(values) == values \in [DOMAIN values -> Values] /\ DOMAIN values \subseteq Fields

(* Min of numbers is the least of them. *)
LEMMA LeastNumber ==
    ASSUME NEW S \in SUBSET Nat, S # {}
    PROVE  Min(S) \in S /\ \A y \in S : Min(S) <= y
<1> DEFINE R == OpToRel(<, Nat)
<1>1. IsWellFoundedOn(R, Nat)
  BY NatLessThanWellFounded
<1>2. \A x, y \in Nat : <<y, x>> \notin R => x <= y
  BY DEF OpToRel
<1> HIDE DEF R
<1>3. PICK x \in S : \A y \in S : <<y, x>> \notin R
  BY <1>1, WFMin
<1>4. \A y \in S : x <= y
  BY <1>2, <1>3
<1> QED
  BY <1>4 DEF Min

(* The left one of two readings has the last word. *)
LEMMA Together ==
    ASSUME NEW f, NEW g, Readable(f), Readable(g)
    PROVE  /\ Readable(Over(f, g)) /\ DOMAIN Over(f, g) = DOMAIN f \cup DOMAIN g
           /\ \A k \in DOMAIN f : Over(f, g)[k] = f[k]
           /\ \A k \in DOMAIN g \ DOMAIN f : Over(f, g)[k] = g[k]
<1>1. \A k \in DOMAIN f \cup DOMAIN g : (IF k \in DOMAIN f THEN f[k] ELSE g[k]) \in Values
  BY DEF Readable
<1>2. Over(f, g) \in [DOMAIN f \cup DOMAIN g -> Values]
  BY <1>1 DEF Over
<1>3. DOMAIN f \cup DOMAIN g \subseteq Fields
  BY DEF Readable
<1> QED
  BY <1>2, <1>3 DEF Readable, Over

(* Places and parts of people. *)
LEMMA PeopleToo ==
    ASSUME NEW people \in Seq(Person)
    PROVE  /\ Leading(people) \in Seq(Person) /\ Others(people) \in Seq(Person)
           /\ Len(Others(people)) = IF people = <<>> THEN 0 ELSE Len(people) - 1
           /\ \A i \in DOMAIN Others(people) : i + 1 \in DOMAIN people /\ Others(people)[i] = people[i + 1]
           /\ \A i \in DOMAIN Leading(people) : i = 1 /\ 1 \in DOMAIN people /\ Leading(people)[i] = people[1]
           /\ 1 \in DOMAIN people => 1 \in DOMAIN Leading(people)
  BY DEF Leading, Others

LEMMA PartsTyped ==
    ASSUME NEW people \in Seq(Person), NEW i \in DOMAIN people, NEW part \in Parts,
           people[i][part] # Nothing
    PROVE  people[i][part] \in Values
<1>1. people[i] \in Person
  OBVIOUS
<1> QED
  BY <1>1 DEF Person, Parts

LEMMA ToldKeys ==
    ASSUME NEW role \in Roles, NEW people \in Seq(Person), NEW first \in Nat
    PROVE  LET told == Told(role, people, first) IN
           /\ Readable(told) /\ IsFiniteSet(DOMAIN told)
           /\ \A i \in DOMAIN people, part \in Parts : people[i][part] # Nothing =>
                  /\ <<role, first + i - 1, part>> \in DOMAIN told
                  /\ told[<<role, first + i - 1, part>>] = people[i][part]
           /\ \A k \in DOMAIN told : \E i \in DOMAIN people, part \in Parts :
                  /\ k = <<role, first + i - 1, part>>
                  /\ people[i][part] # Nothing /\ told[k] = people[i][part]
<1> DEFINE told == Told(role, people, first)
           parts == {x \in (1 .. Len(people)) \X Parts : people[x[1]][x[2]] # Nothing}
           At(x) == <<role, first + x[1] - 1, x[2]>>
<1>1. DOMAIN people = 1 .. Len(people) /\ Len(people) \in Nat
  OBVIOUS
<1>2. /\ DOMAIN told = {At(x) : x \in parts}
      /\ \A k \in DOMAIN told : told[k] = people[k[2] - first + 1][k[3]]
  BY DEF Told
<1>3. \A x \in parts : x[1] \in DOMAIN people /\ x[2] \in Parts
  BY <1>1
<1>4. ASSUME NEW x \in parts
      PROVE  At(x) \in DOMAIN told /\ told[At(x)] = people[x[1]][x[2]] /\ people[x[1]][x[2]] # Nothing
  <2>1. At(x) \in DOMAIN told /\ people[x[1]][x[2]] # Nothing
    BY <1>2
  <2>2. At(x)[2] = first + x[1] - 1 /\ At(x)[3] = x[2]
    OBVIOUS
  <2>3. x[1] \in Nat
    BY <1>1, <1>3
  <2>4. At(x)[2] - first + 1 = x[1]
    BY <2>2, <2>3
  <2> QED
    BY <2>1, <2>2, <2>4, <1>2
<1>5. ASSUME NEW i \in DOMAIN people, NEW part \in Parts, people[i][part] # Nothing
      PROVE  <<i, part>> \in parts /\ At(<<i, part>>) = <<role, first + i - 1, part>>
  BY <1>1, <1>5
<1>6. ASSUME NEW i \in DOMAIN people, NEW part \in Parts, people[i][part] # Nothing
      PROVE  /\ <<role, first + i - 1, part>> \in DOMAIN told
             /\ told[<<role, first + i - 1, part>>] = people[i][part]
  BY <1>4, <1>5, <1>6
<1>7. ASSUME NEW k \in DOMAIN told
      PROVE  \E i \in DOMAIN people, part \in Parts :
                 /\ k = <<role, first + i - 1, part>>
                 /\ people[i][part] # Nothing /\ told[k] = people[i][part]
  <2>1. PICK x \in parts : k = At(x)
    BY <1>2
  <2> QED
    BY <2>1, <1>3, <1>4
<1>8. Readable(told)
  <2>1. \A k \in DOMAIN told : k \in Fields
    BY <1>7, <1>1 DEF Fields, Numbers
  <2>2. \A k \in DOMAIN told : told[k] \in Values
    BY <1>7, PartsTyped
  <2>3. told = [k \in DOMAIN told |-> told[k]]
    BY DEF Told
  <2> QED
    BY <2>1, <2>2, <2>3 DEF Readable
<1>9. IsFiniteSet(DOMAIN told)
  <2>1. IsFiniteSet((1 .. Len(people)) \X Parts)
    <3>1. IsFiniteSet({"name"}) /\ IsFiniteSet({"address"})
      BY FS_Singleton
    <3>2. Parts = {"name"} \cup {"address"}
      BY DEF Parts
    <3>3. IsFiniteSet(Parts)
      BY <3>1, <3>2, FS_Union
    <3>4. IsFiniteSet(1 .. Len(people))
      BY <1>1, FS_Interval
    <3> QED
      BY <3>3, <3>4, FS_Product
  <2>2. IsFiniteSet(parts)
    BY <2>1, FS_Subset
  <2>3. [x \in parts |-> At(x)] \in Surjection(parts, DOMAIN told)
    BY <1>2 DEF Surjection
  <2> QED
    BY <2>2, <2>3, FS_Surjection
<1> QED
  BY <1>6, <1>7, <1>8, <1>9

(* The first number that no told co-borrower has. *)
LEMMA FirstFreeIsFree ==
    ASSUME NEW values, IsFiniteSet(DOMAIN values)
    PROVE  /\ FirstFree(values) \in Nat \ {0}
           /\ <<"co_borrower", FirstFree(values), "name">> \notin DOMAIN values
<1> DEFINE n == Cardinality(DOMAIN values)
           Name(i) == <<"co_borrower", i, "name">>
           free == {i \in 1 .. n + 1 : Name(i) \notin DOMAIN values}
<1>1. n \in Nat
  BY FS_CardinalityType
<1>2. free # {}
  <2>1. SUFFICES ASSUME \A i \in 1 .. n + 1 : Name(i) \in DOMAIN values PROVE FALSE
    OBVIOUS
  <2>2. [i \in 1 .. n + 1 |-> Name(i)] \in Injection(1 .. n + 1, DOMAIN values)
    BY <2>1 DEF Injection, IsInjective
  <2>3. Cardinality(1 .. n + 1) <= n
    BY <2>2, FS_Injection
  <2>4. Cardinality(1 .. n + 1) = n + 1
    BY <1>1, FS_Interval
  <2> QED
    BY <2>3, <2>4, <1>1
<1>3. free \in SUBSET Nat
  BY <1>1
<1>4. Min(free) \in free
  BY <1>2, <1>3, LeastNumber
<1> QED
  BY <1>1, <1>4 DEF FirstFree

(* What is put together of a reply: the keys of each person, and who has    *)
(* the last word about a key.                                               *)
First0(r) == IF r.single THEN 1 ELSE FirstFree(Borrowers(r))

LEMMA ReplyTyped ==
    ASSUME NEW r \in Replies
    PROVE  /\ r.head \in Seq(Person) /\ r.co \in Seq(Person) /\ r.cited \in Seq(Nat)
           /\ Readable(r.flat) /\ (r.single => Len(r.co) = 1)
  BY ReadingAssumption DEF Readable

LEMMA BorrowersKeys ==
    ASSUME NEW r \in Replies
    PROVE  LET told == Borrowers(r) IN
           /\ Readable(told) /\ IsFiniteSet(DOMAIN told)
           /\ \A i \in DOMAIN r.head : i # 1 /\ r.head[i].name # Nothing =>
                  /\ <<"co_borrower", i - 1, "name">> \in DOMAIN told
                  /\ told[<<"co_borrower", i - 1, "name">>] = r.head[i].name
           /\ r.head # <<>> /\ r.head[1].name # Nothing =>
                  /\ <<"borrower", 0, "name">> \in DOMAIN told
                  /\ told[<<"borrower", 0, "name">>] = r.head[1].name
           /\ <<"borrower", 0, "name">> \in DOMAIN told =>
                  r.head # <<>> /\ r.head[1].name # Nothing
<1> DEFINE co    == Told("co_borrower", Others(r.head), 1)
           b     == Told("borrower", Leading(r.head), 0)
           told  == Borrowers(r)
<1>1. /\ r.head \in Seq(Person) /\ Others(r.head) \in Seq(Person) /\ Leading(r.head) \in Seq(Person)
      /\ "co_borrower" \in Roles /\ "borrower" \in Roles /\ 0 \in Nat /\ 1 \in Nat /\ "name" \in Parts
  BY ReplyTyped, PeopleToo DEF Roles, Parts
<1>2. /\ Readable(co) /\ IsFiniteSet(DOMAIN co)
      /\ \A i \in DOMAIN Others(r.head), part \in Parts : Others(r.head)[i][part] # Nothing =>
             /\ <<"co_borrower", 1 + i - 1, part>> \in DOMAIN co
             /\ co[<<"co_borrower", 1 + i - 1, part>>] = Others(r.head)[i][part]
      /\ \A k \in DOMAIN co : k[1] = "co_borrower"
  BY <1>1, ToldKeys
<1>3. /\ Readable(b) /\ IsFiniteSet(DOMAIN b)
      /\ \A i \in DOMAIN Leading(r.head), part \in Parts : Leading(r.head)[i][part] # Nothing =>
             /\ <<"borrower", 0 + i - 1, part>> \in DOMAIN b
             /\ b[<<"borrower", 0 + i - 1, part>>] = Leading(r.head)[i][part]
  BY <1>1, ToldKeys
<1>b. \A k \in DOMAIN b : \E i \in DOMAIN Leading(r.head), part \in Parts :
          k = <<"borrower", 0 + i - 1, part>> /\ Leading(r.head)[i][part] # Nothing
  <2>1. \A k \in DOMAIN b : \E i \in DOMAIN Leading(r.head), part \in Parts :
            /\ k = <<"borrower", 0 + i - 1, part>>
            /\ Leading(r.head)[i][part] # Nothing /\ b[k] = Leading(r.head)[i][part]
    BY <1>1, ToldKeys
  <2> QED
    BY <2>1
<1>t. Readable(co) /\ Readable(b) /\ IsFiniteSet(DOMAIN co) /\ IsFiniteSet(DOMAIN b)
  BY <1>2, <1>3
<1>4. told = Over(co, b)
  BY DEF Borrowers
<1> HIDE DEF co, b, told
<1>5. /\ Readable(told) /\ DOMAIN told = DOMAIN co \cup DOMAIN b
      /\ \A k \in DOMAIN co : told[k] = co[k]
      /\ \A k \in DOMAIN b \ DOMAIN co : told[k] = b[k]
  <2>1. /\ Readable(Over(co, b)) /\ DOMAIN Over(co, b) = DOMAIN co \cup DOMAIN b
        /\ \A k \in DOMAIN co : Over(co, b)[k] = co[k]
        /\ \A k \in DOMAIN b \ DOMAIN co : Over(co, b)[k] = b[k]
    BY <1>t, Together
  <2> QED
    BY <2>1, <1>4
<1>6. IsFiniteSet(DOMAIN told)
  <2>1. IsFiniteSet(DOMAIN co \cup DOMAIN b)
    BY <1>t, FS_Union
  <2> QED
    BY <2>1, <1>5
<1>7. ASSUME NEW i \in DOMAIN r.head, i # 1, r.head[i].name # Nothing
      PROVE  /\ <<"co_borrower", i - 1, "name">> \in DOMAIN told
             /\ told[<<"co_borrower", i - 1, "name">>] = r.head[i].name
  <2>1. i - 1 \in DOMAIN Others(r.head) /\ Others(r.head)[i - 1] = r.head[i]
    BY <1>1, <1>7, PeopleToo
  <2>2. 1 + (i - 1) - 1 = i - 1
    BY <1>1
  <2>3. /\ <<"co_borrower", i - 1, "name">> \in DOMAIN co
        /\ co[<<"co_borrower", i - 1, "name">>] = r.head[i].name
    BY <2>1, <2>2, <1>1, <1>2, <1>7
  <2> QED
    BY <2>3, <1>5
<1>8. ASSUME r.head # <<>>, r.head[1].name # Nothing
      PROVE  /\ <<"borrower", 0, "name">> \in DOMAIN told
             /\ told[<<"borrower", 0, "name">>] = r.head[1].name
  <2>1. 1 \in DOMAIN Leading(r.head) /\ Leading(r.head)[1] = r.head[1]
    BY <1>1, <1>8, PeopleToo
  <2>2. <<"borrower", 0 + 1 - 1, "name">> = <<"borrower", 0, "name">>
    OBVIOUS
  <2>3. /\ <<"borrower", 0, "name">> \in DOMAIN b
        /\ b[<<"borrower", 0, "name">>] = r.head[1].name
    BY <2>1, <2>2, <1>1, <1>3, <1>8
  <2>4. <<"borrower", 0, "name">> \notin DOMAIN co
    BY <1>2
  <2> QED
    BY <2>3, <2>4, <1>5
<1>9. ASSUME <<"borrower", 0, "name">> \in DOMAIN told
      PROVE  r.head # <<>> /\ r.head[1].name # Nothing
  <2>1. <<"borrower", 0, "name">> \in DOMAIN b
    BY <1>2, <1>5, <1>9
  <2>2. PICK i \in DOMAIN Leading(r.head), part \in Parts :
            <<"borrower", 0, "name">> = <<"borrower", 0 + i - 1, part>> /\ Leading(r.head)[i][part] # Nothing
    BY <2>1, <1>b
  <2>3. part = "name" /\ i = 1 /\ 1 \in DOMAIN r.head /\ Leading(r.head)[i] = r.head[1]
    BY <2>2, <1>1, PeopleToo
  <2> QED
    BY <2>2, <2>3, <1>1
<1> QED
  BY <1>5, <1>6, <1>7, <1>8, <1>9 DEF told

LEMMA FirstTyped ==
    ASSUME NEW r \in Replies
    PROVE  /\ First0(r) \in Nat \ {0}
           /\ ~r.single => <<"co_borrower", First0(r), "name">> \notin DOMAIN Borrowers(r)
<1>1. IsFiniteSet(DOMAIN Borrowers(r))
  BY BorrowersKeys
<1>2. /\ FirstFree(Borrowers(r)) \in Nat \ {0}
      /\ <<"co_borrower", FirstFree(Borrowers(r)), "name">> \notin DOMAIN Borrowers(r)
  BY <1>1, FirstFreeIsFree
<1> QED
  BY <1>2 DEF First0

(* The list of co-borrowers, with its numbers. *)
Listed(r) == Told("co_borrower", r.co, First0(r))

LEMMA ListedKeys ==
    ASSUME NEW r \in Replies
    PROVE  /\ Readable(Listed(r))
           /\ \A i \in DOMAIN r.co : r.co[i].name # Nothing =>
                  /\ <<"co_borrower", First0(r) + i - 1, "name">> \in DOMAIN Listed(r)
                  /\ Listed(r)[<<"co_borrower", First0(r) + i - 1, "name">>] = r.co[i].name
           /\ \A k \in DOMAIN Listed(r) : \E i \in DOMAIN r.co :
                  k[1] = "co_borrower" /\ k[2] = First0(r) + i - 1
<1>1. "co_borrower" \in Roles /\ "name" \in Parts /\ r.co \in Seq(Person) /\ First0(r) \in Nat
  BY FirstTyped, ReplyTyped DEF Roles, Parts
<1>2. /\ Readable(Listed(r))
      /\ \A i \in DOMAIN r.co, part \in Parts : r.co[i][part] # Nothing =>
             /\ <<"co_borrower", First0(r) + i - 1, part>> \in DOMAIN Listed(r)
             /\ Listed(r)[<<"co_borrower", First0(r) + i - 1, part>>] = r.co[i][part]
  BY <1>1, ToldKeys DEF Listed
<1>3. \A k \in DOMAIN Listed(r) : \E i \in DOMAIN r.co, part \in Parts :
          /\ k = <<"co_borrower", First0(r) + i - 1, part>>
          /\ r.co[i][part] # Nothing /\ Listed(r)[k] = r.co[i][part]
  BY <1>1, ToldKeys DEF Listed
<1> QED
  BY <1>1, <1>2, <1>3

(* Numbered keys come before the list, and the list before what the        *)
(* borrowers' own list told.                                               *)
LEMMA GatheredKeys ==
    ASSUME NEW r \in Replies
    PROVE  LET all == Gathered(r) IN
           /\ Readable(all)
           /\ DOMAIN all = DOMAIN r.flat \cup (DOMAIN Listed(r) \cup DOMAIN Borrowers(r))
           /\ \A k \in DOMAIN r.flat : all[k] = r.flat[k]
           /\ \A k \in DOMAIN Listed(r) \ DOMAIN r.flat : all[k] = Listed(r)[k]
           /\ \A k \in DOMAIN Borrowers(r) \ (DOMAIN r.flat \cup DOMAIN Listed(r)) :
                  all[k] = Borrowers(r)[k]
<1>1. PICK told, list, flat : told = Borrowers(r) /\ list = Listed(r) /\ flat = r.flat
  OBVIOUS
<1>2. Readable(told) /\ Readable(list) /\ Readable(flat)
  BY <1>1, BorrowersKeys, ListedKeys, ReplyTyped
<1>3. /\ Readable(Over(list, told)) /\ DOMAIN Over(list, told) = DOMAIN list \cup DOMAIN told
      /\ \A k \in DOMAIN list : Over(list, told)[k] = list[k]
      /\ \A k \in DOMAIN told \ DOMAIN list : Over(list, told)[k] = told[k]
  BY <1>2, Together
<1>4. PICK objects : objects = Over(list, told)
  OBVIOUS
<1>r. Readable(objects)
  BY <1>3, <1>4
<1>5. /\ Readable(Over(flat, objects)) /\ DOMAIN Over(flat, objects) = DOMAIN flat \cup DOMAIN objects
      /\ \A k \in DOMAIN flat : Over(flat, objects)[k] = flat[k]
      /\ \A k \in DOMAIN objects \ DOMAIN flat : Over(flat, objects)[k] = objects[k]
  BY <1>2, <1>r, Together
<1>6. Gathered(r) = Over(flat, objects)
  BY <1>1, <1>4 DEF Gathered, Listed, First0
<1>7. PICK all : all = Gathered(r)
  OBVIOUS
<1>8. /\ Readable(all) /\ DOMAIN all = DOMAIN flat \cup DOMAIN objects
      /\ \A k \in DOMAIN flat : all[k] = flat[k]
      /\ \A k \in DOMAIN objects \ DOMAIN flat : all[k] = objects[k]
  BY <1>5, <1>6, <1>7
<1>9. /\ DOMAIN objects = DOMAIN list \cup DOMAIN told
      /\ \A k \in DOMAIN list : objects[k] = list[k]
      /\ \A k \in DOMAIN told \ DOMAIN list : objects[k] = told[k]
  BY <1>3, <1>4
<1>10. /\ DOMAIN all = DOMAIN flat \cup (DOMAIN list \cup DOMAIN told)
       /\ \A k \in DOMAIN list \ DOMAIN flat : all[k] = list[k]
       /\ \A k \in DOMAIN told \ (DOMAIN flat \cup DOMAIN list) : all[k] = told[k]
  BY <1>8, <1>9
<1> QED
  BY <1>1, <1>7, <1>8, <1>10

(* Who is named, by the way it is told. *)
ByHead(r, x) == r.head # <<>> /\ x = <<"borrower", r.head[1].name>>
ByPlace(r, x, i) == i \in DOMAIN r.head /\ i # 1 /\ x = <<"co_borrower", r.head[i].name>>
ByList(r, x, i) == i \in DOMAIN r.co /\ x = <<"co_borrower", r.co[i].name>>
ByKey(r, x, k) == k \in DOMAIN r.flat /\ k[3] = "name" /\ x = <<k[1], r.flat[k]>>

LEMMA NamesTold ==
    ASSUME NEW r \in Replies, NEW x \in NamesIn(r)
    PROVE  /\ x[2] # Nothing
           /\ \/ ByHead(r, x) \/ \E i \in DOMAIN r.head : ByPlace(r, x, i)
              \/ \E i \in DOMAIN r.co : ByList(r, x, i)
              \/ \E k \in DOMAIN r.flat : ByKey(r, x, k)
<1>1. r.head \in Seq(Person) /\ r.co \in Seq(Person)
  BY ReplyTyped
<1>2. x[2] # Nothing
  BY DEF NamesIn
<1>3. CASE x \in {"borrower"} \X {p.name : p \in Range(Leading(r.head))}
  <2>1. PICK i \in DOMAIN Leading(r.head) : x = <<"borrower", Leading(r.head)[i].name>>
    BY <1>3 DEF Range
  <2> QED
    BY <1>1, <1>2, <2>1, PeopleToo DEF ByHead
<1>4. CASE x \in {"co_borrower"} \X {p.name : p \in Range(r.co) \cup Range(Others(r.head))}
  <2>1. PICK p \in Range(r.co) \cup Range(Others(r.head)) : x = <<"co_borrower", p.name>>
    BY <1>4
  <2>2. CASE p \in Range(r.co)
    <3>1. PICK i \in DOMAIN r.co : p = r.co[i]
      BY <2>2 DEF Range
    <3> QED
      BY <1>2, <2>1, <3>1 DEF ByList
  <2>3. CASE p \in Range(Others(r.head))
    <3>1. PICK i \in DOMAIN Others(r.head) : p = Others(r.head)[i]
      BY <2>3 DEF Range
    <3>2. i + 1 \in DOMAIN r.head /\ i + 1 # 1 /\ p = r.head[i + 1]
      <4>1. i + 1 \in DOMAIN r.head /\ p = r.head[i + 1]
        BY <1>1, <3>1, PeopleToo
      <4>2. i \in 1 .. Len(Others(r.head)) /\ Len(Others(r.head)) \in Nat
        BY <1>1, PeopleToo
      <4> QED
        BY <4>1, <4>2
    <3> QED
      BY <1>2, <2>1, <3>2 DEF ByPlace
  <2> QED
    BY <2>1, <2>2, <2>3
<1>5. CASE x \in {<<k[1], r.flat[k]>> : k \in {j \in DOMAIN r.flat : j[3] = "name"}}
  BY <1>2, <1>5 DEF ByKey
<1> QED
  BY <1>3, <1>4, <1>5 DEF NamesIn

(* Everyone told in one way only has a key in what is put together.        *)
LEMMA NamesGathered ==
    ASSUME NEW r \in Replies, Unmixed(r), NEW x \in NamesIn(r)
    PROVE  \E k \in DOMAIN Gathered(r) : k[1] = x[1] /\ k[3] = "name" /\ Gathered(r)[k] = x[2]
<1> DEFINE first == First0(r)
           Found(k) == k \in DOMAIN Gathered(r) /\ k[1] = x[1] /\ k[3] = "name" /\ Gathered(r)[k] = x[2]
<1>1. /\ DOMAIN Gathered(r) = DOMAIN r.flat \cup (DOMAIN Listed(r) \cup DOMAIN Borrowers(r))
      /\ \A k \in DOMAIN r.flat : Gathered(r)[k] = r.flat[k]
      /\ \A k \in DOMAIN Listed(r) \ DOMAIN r.flat : Gathered(r)[k] = Listed(r)[k]
      /\ \A k \in DOMAIN Borrowers(r) \ (DOMAIN r.flat \cup DOMAIN Listed(r)) :
             Gathered(r)[k] = Borrowers(r)[k]
  BY GatheredKeys
<1>2. /\ x[2] # Nothing
      /\ \/ ByHead(r, x) \/ \E i \in DOMAIN r.head : ByPlace(r, x, i)
         \/ \E i \in DOMAIN r.co : ByList(r, x, i)
         \/ \E k \in DOMAIN r.flat : ByKey(r, x, k)
  BY NamesTold
<1>3. /\ r.head \in Seq(Person) /\ r.co \in Seq(Person)
      /\ DOMAIN r.head = 1 .. Len(r.head) /\ Len(r.head) \in Nat
      /\ DOMAIN r.co = 1 .. Len(r.co) /\ Len(r.co) \in Nat
  BY ReplyTyped
<1>4. first \in Nat \ {0}
  BY FirstTyped
<1>5. \A k \in DOMAIN Listed(r) : \E i \in DOMAIN r.co : k[1] = "co_borrower" /\ k[2] = first + i - 1
  BY ListedKeys
<1>6. CASE ByHead(r, x)
  <2> DEFINE k == <<"borrower", 0, "name">>
  <2>1. k \in DOMAIN Borrowers(r) /\ Borrowers(r)[k] = x[2] /\ x[1] = "borrower"
    BY <1>2, <1>6, BorrowersKeys DEF ByHead
  <2>2. k \notin DOMAIN r.flat
    BY <1>6 DEF ByHead, Unmixed, Numbered
  <2>3. k \notin DOMAIN Listed(r)
    BY <1>5
  <2>4. Found(k)
    BY <1>1, <2>1, <2>2, <2>3
  <2> QED
    BY <2>4
<1>7. ASSUME NEW i \in DOMAIN r.head, ByPlace(r, x, i)
      PROVE  \E k \in DOMAIN Gathered(r) : Found(k)
  <2> DEFINE k == <<"co_borrower", i - 1, "name">>
  <2>1. r.head[i].name = x[2] /\ x[1] = "co_borrower" /\ i # 1 /\ Len(r.head) > 1
    BY <1>3, <1>7 DEF ByPlace
  <2>2. k \in DOMAIN Borrowers(r) /\ Borrowers(r)[k] = x[2]
    BY <1>2, <2>1, BorrowersKeys
  <2>3. k \notin DOMAIN r.flat
    BY <1>3, <2>1 DEF Unmixed, Numbered
  <2>4. k \notin DOMAIN Listed(r)
    <3>1. SUFFICES ASSUME k \in DOMAIN Listed(r) PROVE FALSE
      OBVIOUS
    <3>2. PICK j \in DOMAIN r.co : i - 1 = first + j - 1
      BY <1>5, <3>1
    <3>3. r.co # <<>> /\ first + 1 \in 2 .. Len(r.head)
      BY <1>3, <1>4, <2>1, <3>2
    <3>4. r.head[first + 1].name # Nothing /\ ~r.single
      BY <1>3, <2>1, <3>3 DEF Unmixed
    <3>5. first + 1 \in DOMAIN r.head /\ first + 1 # 1 /\ (first + 1) - 1 = first
      BY <1>3, <1>4, <3>3
    <3>6. <<"co_borrower", (first + 1) - 1, "name">> \in DOMAIN Borrowers(r)
      BY <3>4, <3>5, BorrowersKeys
    <3> QED
      BY <3>4, <3>5, <3>6, FirstTyped
  <2>5. Found(k)
    BY <1>1, <2>1, <2>2, <2>3, <2>4
  <2> QED
    BY <2>5
<1>8. ASSUME NEW i \in DOMAIN r.co, ByList(r, x, i)
      PROVE  \E k \in DOMAIN Gathered(r) : Found(k)
  <2> DEFINE k == <<"co_borrower", first + i - 1, "name">>
  <2>1. r.co[i].name = x[2] /\ x[1] = "co_borrower" /\ r.co # <<>>
    BY <1>3, <1>8 DEF ByList
  <2>2. k \in DOMAIN Listed(r) /\ Listed(r)[k] = x[2]
    BY <1>2, <2>1, ListedKeys
  <2>3. k \notin DOMAIN r.flat
    BY <2>1 DEF Unmixed, Numbered
  <2>4. Found(k)
    BY <1>1, <2>1, <2>2, <2>3
  <2> QED
    BY <2>4
<1>9. ASSUME NEW k \in DOMAIN r.flat, ByKey(r, x, k)
      PROVE  \E j \in DOMAIN Gathered(r) : Found(j)
  <2>1. Found(k)
    BY <1>1, <1>9 DEF ByKey
  <2> QED
    BY <2>1
<1> QED
  BY <1>2, <1>6, <1>7, <1>8, <1>9

(* The name under the borrower's key is one that the reply tells of the     *)
(* borrower.                                                                *)
LEMMA BorrowerTold ==
    ASSUME NEW r \in Replies, <<"borrower", 0, "name">> \in DOMAIN Gathered(r)
    PROVE  <<"borrower", Gathered(r)[<<"borrower", 0, "name">>]>> \in NamesIn(r)
<1> DEFINE b == <<"borrower", 0, "name">>
<1>1. /\ Readable(Gathered(r))
      /\ DOMAIN Gathered(r) = DOMAIN r.flat \cup (DOMAIN Listed(r) \cup DOMAIN Borrowers(r))
      /\ \A k \in DOMAIN r.flat : Gathered(r)[k] = r.flat[k]
      /\ \A k \in DOMAIN Borrowers(r) \ (DOMAIN r.flat \cup DOMAIN Listed(r)) :
             Gathered(r)[k] = Borrowers(r)[k]
  BY GatheredKeys
<1>2. Gathered(r)[b] # Nothing
  BY <1>1, ReadingAssumption DEF Readable
<1>3. b \notin DOMAIN Listed(r)
  BY ListedKeys
<1>4. CASE b \in DOMAIN r.flat
  <2>1. <<b[1], r.flat[b]>> \in {<<k[1], r.flat[k]>> : k \in {j \in DOMAIN r.flat : j[3] = "name"}}
    BY <1>4
  <2> QED
    BY <1>1, <1>2, <1>4, <2>1 DEF NamesIn
<1>5. CASE b \notin DOMAIN r.flat
  <2>1. b \in DOMAIN Borrowers(r) /\ Gathered(r)[b] = Borrowers(r)[b]
    BY <1>1, <1>3, <1>5
  <2>2. r.head # <<>> /\ Borrowers(r)[b] = r.head[1].name
    BY <2>1, BorrowersKeys
  <2>3. Leading(r.head) = <<r.head[1]>>
    BY <2>2 DEF Leading
  <2>4. r.head[1] \in Range(Leading(r.head))
    BY <2>3 DEF Range
  <2>5. <<"borrower", r.head[1].name>> \in {"borrower"} \X {p.name : p \in Range(Leading(r.head))}
    BY <2>4
  <2> QED
    BY <1>2, <2>1, <2>2, <2>5 DEF NamesIn
<1> QED
  BY <1>4, <1>5

(* The numbers of the co-borrowers up to one. *)
UpTo(values, n) == {j[2] : j \in {i \in DOMAIN values : IsCo(i) /\ i[2] <= n}}

LEMMA UpToCounts ==
    ASSUME NEW values, Readable(values), NEW m \in Nat, NEW n \in Nat
    PROVE  /\ IsFiniteSet(UpTo(values, n)) /\ Cardinality(UpTo(values, n)) \in Nat
           /\ m < n /\ n \in UpTo(values, n) =>
                  Cardinality(UpTo(values, m)) < Cardinality(UpTo(values, n))
<1>1. \A k \in DOMAIN values : k[2] \in Nat
  BY DEF Readable, Fields, Numbers
<1>2. UpTo(values, m) \in SUBSET Nat /\ UpTo(values, n) \in SUBSET Nat
  BY <1>1 DEF UpTo
<1>3. (\A i \in UpTo(values, m) : i <= m) /\ (\A i \in UpTo(values, n) : i <= n)
  BY DEF UpTo
<1>4. IsFiniteSet(UpTo(values, m)) /\ IsFiniteSet(UpTo(values, n))
  BY <1>2, <1>3, FS_BoundedSetOfNaturals
<1>5. Cardinality(UpTo(values, m)) \in Nat /\ Cardinality(UpTo(values, n)) \in Nat
  BY <1>4, FS_CardinalityType
<1>6. ASSUME m < n, n \in UpTo(values, n)
      PROVE  Cardinality(UpTo(values, m)) < Cardinality(UpTo(values, n))
  <2>1. UpTo(values, m) \subseteq UpTo(values, n)
    <3>1. \A k \in DOMAIN values : k[2] <= m => k[2] <= n
      BY <1>1, <1>6
    <3> QED
      BY <3>1 DEF UpTo
  <2>2. n \notin UpTo(values, m)
    BY <1>3, <1>6
  <2>3. UpTo(values, m) # UpTo(values, n)
    BY <1>6, <2>2
  <2> QED
    BY <1>4, <1>5, <2>1, <2>3, FS_Subset
<1> QED
  BY <1>4, <1>5, <1>6

(* A key keeps its role and part when the co-borrowers are numbered again,  *)
(* and two keys never meet.                                                 *)
LEMMA PlacesApart ==
    ASSUME NEW values, Readable(values), NEW k \in DOMAIN values
    PROVE  /\ Place(values, k) \in Fields
           /\ Place(values, k)[1] = k[1] /\ Place(values, k)[3] = k[3]
           /\ ~IsCo(k) => Place(values, k) = k
           /\ \A j \in DOMAIN values : Place(values, j) = Place(values, k) => j = k
<1>1. \A j \in DOMAIN values : /\ j \in Fields /\ j[1] \in Roles /\ j[2] \in Nat /\ j[3] \in Parts
                               /\ j = <<j[1], j[2], j[3]>>
  BY DEF Readable, Fields, Numbers
<1>2. \A j \in DOMAIN values :
          Place(values, j) = IF IsCo(j) THEN <<j[1], Cardinality(UpTo(values, j[2])), j[3]>> ELSE j
  BY DEF Place, UpTo
<1>3. \A j \in DOMAIN values : Cardinality(UpTo(values, j[2])) \in Nat
  BY <1>1, UpToCounts
<1>4. Place(values, k) \in Fields /\ Place(values, k)[1] = k[1] /\ Place(values, k)[3] = k[3]
  BY <1>1, <1>2, <1>3 DEF Fields, Numbers
<1>5. ASSUME NEW j \in DOMAIN values, Place(values, j) = Place(values, k)
      PROVE  j = k
  <2>1. Place(values, j)[1] = j[1] /\ Place(values, j)[3] = j[3]
    BY <1>1, <1>2
  <2>2. j[1] = k[1] /\ j[3] = k[3]
    BY <1>4, <1>5, <2>1
  <2>3. CASE ~IsCo(k)
    BY <1>2, <1>5, <2>2, <2>3 DEF IsCo
  <2>4. CASE IsCo(k)
    <3>1. IsCo(j)
      BY <2>2, <2>4 DEF IsCo
    <3>2. Cardinality(UpTo(values, j[2])) = Cardinality(UpTo(values, k[2]))
      BY <1>2, <1>5, <2>4, <3>1
    <3>3. j[2] \in UpTo(values, j[2]) /\ k[2] \in UpTo(values, k[2])
      BY <1>1, <2>4, <3>1 DEF UpTo
    <3>4. ~(j[2] < k[2]) /\ ~(k[2] < j[2])
      BY <1>1, <1>3, <3>2, <3>3, UpToCounts
    <3>5. j[2] = k[2]
      BY <1>1, <3>4
    <3> QED
      BY <1>1, <2>2, <3>5
  <2> QED
    BY <2>3, <2>4
<1> QED
  BY <1>2, <1>4, <1>5

LEMMA RenumberedKeys ==
    ASSUME NEW values, Readable(values)
    PROVE  /\ Readable(Renumbered(values))
           /\ \A k \in DOMAIN values : /\ Place(values, k) \in DOMAIN Renumbered(values)
                                       /\ Renumbered(values)[Place(values, k)] = values[k]
           /\ \A p \in DOMAIN Renumbered(values) : \E k \in DOMAIN values :
                  p = Place(values, k) /\ Renumbered(values)[p] = values[k]
<1> DEFINE places == {Place(values, j) : j \in DOMAIN values}
           Origin(p) == CHOOSE j \in DOMAIN values : Place(values, j) = p
<1>1. Renumbered(values) = [p \in places |-> values[Origin(p)]]
  BY DEF Renumbered
<1>2. ASSUME NEW k \in DOMAIN values
      PROVE  Place(values, k) \in places /\ Origin(Place(values, k)) = k
  <2>1. Origin(Place(values, k)) \in DOMAIN values
        /\ Place(values, Origin(Place(values, k))) = Place(values, k)
    OBVIOUS
  <2>2. Origin(Place(values, k)) = k
    BY <2>1, PlacesApart
  <2> QED
    BY <2>2
<1> HIDE DEF Origin
<1>3. \A k \in DOMAIN values : /\ Place(values, k) \in DOMAIN Renumbered(values)
                               /\ Renumbered(values)[Place(values, k)] = values[k]
  BY <1>1, <1>2
<1>4. \A p \in DOMAIN Renumbered(values) : \E k \in DOMAIN values :
          p = Place(values, k) /\ Renumbered(values)[p] = values[k]
  BY <1>1, <1>3
<1>5. \A p \in DOMAIN Renumbered(values) : p \in Fields /\ Renumbered(values)[p] \in Values
  BY <1>4, PlacesApart DEF Readable
<1>6. Renumbered(values) = [p \in DOMAIN Renumbered(values) |-> Renumbered(values)[p]]
  BY <1>1
<1> QED
  BY <1>3, <1>4, <1>5, <1>6 DEF Readable

(* What is left of a reply when the borrower's twins are out and the others *)
(* are numbered: every key comes from one, with its role, part and value.   *)
Twin(values, k) == IsCo(k) /\ k[2] \in Twins(values)

LEMMA NormalisedKeys ==
    ASSUME NEW r \in Replies
    PROVE  /\ Readable(Normalised(r))
           /\ \A k \in DOMAIN Gathered(r) : ~Twin(Gathered(r), k) =>
                  \E p \in DOMAIN Normalised(r) :
                      p[1] = k[1] /\ p[3] = k[3] /\ Normalised(r)[p] = Gathered(r)[k]
           /\ \A p \in DOMAIN Normalised(r) : \E k \in DOMAIN Gathered(r) :
                  /\ ~Twin(Gathered(r), k) /\ (~IsCo(k) => p = k)
                  /\ p[1] = k[1] /\ p[3] = k[3] /\ Normalised(r)[p] = Gathered(r)[k]
<1>1. PICK all, rest, new : all = Gathered(r) /\ rest = WithoutTwins(all) /\ new = Normalised(r)
  OBVIOUS
<1>2. Readable(all)
  BY <1>1, GatheredKeys
<1>3. /\ rest = [k \in {j \in DOMAIN all : ~Twin(all, j)} |-> all[k]]
      /\ DOMAIN rest = {j \in DOMAIN all : ~Twin(all, j)}
      /\ \A k \in DOMAIN rest : rest[k] = all[k]
  BY <1>1 DEF WithoutTwins, Held, Twin
<1>4. Readable(rest)
  BY <1>2, <1>3 DEF Readable
<1>5. new = Renumbered(rest)
  BY <1>1 DEF Normalised
<1>6. /\ Readable(new)
      /\ \A k \in DOMAIN rest : Place(rest, k) \in DOMAIN new /\ new[Place(rest, k)] = rest[k]
      /\ \A p \in DOMAIN new : \E k \in DOMAIN rest : p = Place(rest, k) /\ new[p] = rest[k]
  BY <1>4, <1>5, RenumberedKeys
<1>7. \A k \in DOMAIN rest : /\ Place(rest, k)[1] = k[1] /\ Place(rest, k)[3] = k[3]
                             /\ ~IsCo(k) => Place(rest, k) = k
  BY <1>4, PlacesApart
<1>8. \A k \in DOMAIN all : ~Twin(all, k) =>
          \E p \in DOMAIN new : p[1] = k[1] /\ p[3] = k[3] /\ new[p] = all[k]
  BY <1>3, <1>6, <1>7
<1>9. \A p \in DOMAIN new : \E k \in DOMAIN all :
          /\ ~Twin(all, k) /\ (~IsCo(k) => p = k)
          /\ p[1] = k[1] /\ p[3] = k[3] /\ new[p] = all[k]
  BY <1>3, <1>6, <1>7
<1> QED
  BY <1>1, <1>6, <1>8, <1>9

LEMMA TwinsShareTheName ==
    ASSUME NEW r \in Replies, NEW k \in DOMAIN Gathered(r), IsCo(k), k[3] = "name"
    PROVE  Twin(Gathered(r), k) <=>
               /\ <<"borrower", 0, "name">> \in DOMAIN Gathered(r)
               /\ Gathered(r)[k] = Gathered(r)[<<"borrower", 0, "name">>]
<1>1. PICK all : all = Gathered(r)
  OBVIOUS
<1>2. \A j \in DOMAIN all : j = <<j[1], j[2], j[3]>>
  <2>1. DOMAIN all \subseteq Fields
    BY <1>1, GatheredKeys DEF Readable
  <2> QED
    BY <2>1 DEF Fields
<1>3. ASSUME Twin(all, k)
      PROVE  <<"borrower", 0, "name">> \in DOMAIN all /\ all[k] = all[<<"borrower", 0, "name">>]
  <2>1. PICK j \in DOMAIN all : /\ IsCo(j) /\ j[3] = "name" /\ j[2] = k[2]
                                /\ <<"borrower", 0, "name">> \in DOMAIN all
                                /\ all[j] = all[<<"borrower", 0, "name">>]
    BY <1>3 DEF Twin, Twins
  <2>2. j = k
    BY <1>1, <1>2, <2>1 DEF IsCo
  <2> QED
    BY <2>1, <2>2
<1>4. ASSUME <<"borrower", 0, "name">> \in DOMAIN all, all[k] = all[<<"borrower", 0, "name">>]
      PROVE  Twin(all, k)
  BY <1>1, <1>4 DEF Twin, Twins
<1> QED
  BY <1>1, <1>3, <1>4

(* pipeline.py:636: nobody is the borrower and a co-borrower.              *)
LEMMA NamesApart ==
    ASSUME NEW r \in Replies, NEW p \in DOMAIN Normalised(r), IsCo(p), p[3] = "name",
           <<"borrower", 0, "name">> \in DOMAIN Normalised(r)
    PROVE  Normalised(r)[<<"borrower", 0, "name">>] # Normalised(r)[p]
<1> DEFINE b == <<"borrower", 0, "name">>
<1>1. PICK j \in DOMAIN Gathered(r) :
          /\ ~IsCo(j) => b = j
          /\ b[1] = j[1] /\ Normalised(r)[b] = Gathered(r)[j]
  BY NormalisedKeys
<1>2. b \in DOMAIN Gathered(r) /\ Normalised(r)[b] = Gathered(r)[b]
  BY <1>1 DEF IsCo
<1>3. PICK k \in DOMAIN Gathered(r) :
          /\ ~Twin(Gathered(r), k)
          /\ p[1] = k[1] /\ p[3] = k[3] /\ Normalised(r)[p] = Gathered(r)[k]
  BY NormalisedKeys
<1>4. IsCo(k) /\ k[3] = "name"
  BY <1>3 DEF IsCo
<1> QED
  BY <1>2, <1>3, <1>4, TwinsShareTheName

LEMMA KeptKeys ==
    ASSUME NEW r \in Replies
    PROVE  /\ \A k \in DOMAIN Kept(r) : /\ k \in DOMAIN Normalised(r) /\ k \in Fields
                                        /\ Kept(r)[k] = Normalised(r)[k] /\ IsKept(k, Kept(r)[k])
           /\ \A k \in DOMAIN Normalised(r) : IsKept(k, Normalised(r)[k]) => k \in DOMAIN Kept(r)
           /\ DOMAIN Aside(r) \subseteq Fields
  BY NormalisedKeys DEF Kept, Aside, Held, Readable

(* A page that is given to a value is one of those that were sent.         *)
LEMMA PageIsSent ==
    ASSUME NEW r \in Replies, NEW pages \in SUBSET Nat, pages # {}, NEW k
    PROVE  PageOf(r, k, pages) \in pages
<1> DEFINE cited == {i \in DOMAIN r.cited : r.cited[i] \in pages}
<1>1. DOMAIN r.cited \subseteq Nat
  BY ReplyTyped
<1>2. cited # {} => Min(cited) \in cited
  BY <1>1, LeastNumber
<1>3. Min(pages) \in pages
  BY LeastNumber
<1> QED
  BY <1>2, <1>3 DEF PageOf, Fallback

LEMMA SaidOf ==
    ASSUME NEW r \in Replies, NEW d, NEW pages \in SUBSET Nat, pages # {},
           NEW f \in Ingested(r, d, pages)
    PROVE  /\ f.doc = d /\ f.page \in pages /\ f.field \in DOMAIN Kept(r)
           /\ f.field \in Fields /\ f.printed = Normalised(r)[f.field]
           /\ f.value \notin Lenders /\ <<f.field[1], f.field[3]>> \in Asked
<1>1. PICK k \in DOMAIN Kept(r) :
          f = [doc |-> d, page |-> PageOf(r, k, pages), field |-> k,
               printed |-> Kept(r)[k], value |-> Cleaned[Kept(r)[k]]]
  BY DEF Ingested
<1>2. /\ PageOf(r, k, pages) \in pages /\ k \in Fields /\ Kept(r)[k] = Normalised(r)[k]
      /\ <<k[1], k[3]>> \in Asked /\ Cleaned[Kept(r)[k]] \notin Lenders
  BY KeptKeys, PageIsSent DEF IsKept
<1> QED
  BY <1>1, <1>2

LEMMA SaidByCall ==
    ASSUME NEW c, c.reply \in Replies, c.pages \in SUBSET Nat, c.pages # {},
           NEW f \in Ingested(c.reply, c.doc, c.pages)
    PROVE  /\ f.doc = c.doc /\ f.page \in c.pages /\ f.field \in DOMAIN Kept(c.reply)
           /\ f.printed = Normalised(c.reply)[f.field]
<1>1. PICK k \in DOMAIN Kept(c.reply) :
          f = [doc |-> c.doc, page |-> PageOf(c.reply, k, c.pages), field |-> k,
               printed |-> Kept(c.reply)[k], value |-> Cleaned[Kept(c.reply)[k]]]
  BY DEF Ingested
<1>2. Kept(c.reply)[k] = Normalised(c.reply)[k]
  BY KeptKeys
<1>3. PageOf(c.reply, k, c.pages) \in c.pages
  BY PageIsSent
<1> QED
  BY <1>1, <1>2, <1>3

LEMMA KeptIsSaid ==
    ASSUME NEW r \in Replies, NEW d, NEW pages, NEW k \in DOMAIN Kept(r)
    PROVE  \E f \in Ingested(r, d, pages) :
               /\ f.doc = d /\ f.field = k /\ f.printed = Normalised(r)[k]
               /\ f.page = PageOf(r, k, pages)
<1>1. PICK f \in Ingested(r, d, pages) :
          f = [doc |-> d, page |-> PageOf(r, k, pages), field |-> k,
               printed |-> Kept(r)[k], value |-> Cleaned[Kept(r)[k]]]
  BY DEF Ingested
<1>2. Kept(r)[k] = Normalised(r)[k]
  BY KeptKeys
<1> QED
  BY <1>1, <1>2

(* Everyone told in one way only is in what is filed of the reply, unless   *)
(* it is not asked for, the lender, or the borrower again.                  *)
LEMMA NamesFiled ==
    ASSUME NEW r \in Replies, Unmixed(r), NEW x \in NamesIn(r), NEW d,
           NEW pages \in SUBSET Nat, pages # {}
    PROVE  \/ <<x[1], "name">> \notin Asked \/ Cleaned[x[2]] \in Lenders
           \/ <<"borrower", x[2]>> \in NamesIn(r) /\ x[1] = "co_borrower"
           \/ \E f \in Ingested(r, d, pages) : f.doc = d /\ f.field[1] = x[1] /\ f.printed = x[2]
<1>1. PICK k \in DOMAIN Gathered(r) : k[1] = x[1] /\ k[3] = "name" /\ Gathered(r)[k] = x[2]
  BY NamesGathered
<1>2. CASE Twin(Gathered(r), k)
  <2>1. IsCo(k)
    BY <1>2 DEF Twin
  <2>2. /\ <<"borrower", 0, "name">> \in DOMAIN Gathered(r)
        /\ x[2] = Gathered(r)[<<"borrower", 0, "name">>]
    BY <1>1, <1>2, <2>1, TwinsShareTheName
  <2> QED
    BY <1>1, <2>1, <2>2, BorrowerTold DEF IsCo
<1>3. CASE ~Twin(Gathered(r), k)
  <2>1. PICK p \in DOMAIN Normalised(r) : p[1] = x[1] /\ p[3] = "name" /\ Normalised(r)[p] = x[2]
    BY <1>1, <1>3, NormalisedKeys
  <2>2. SUFFICES ASSUME <<x[1], "name">> \in Asked, Cleaned[x[2]] \notin Lenders
                 PROVE  \E f \in Ingested(r, d, pages) :
                            f.doc = d /\ f.field[1] = x[1] /\ f.printed = x[2]
    OBVIOUS
  <2>3. p \in DOMAIN Kept(r)
    BY <2>1, <2>2, KeptKeys DEF IsKept
  <2>4. PICK f \in Ingested(r, d, pages) : f.doc = d /\ f.field = p /\ f.printed = Normalised(r)[p]
    BY <2>3, KeptIsSaid
  <2> QED
    BY <2>1, <2>4
<1> QED
  BY <1>2, <1>3

(* Whoever is not above a gap keeps the number when the others get theirs.  *)
LEMMA UndisturbedStays ==
    ASSUME NEW r \in Replies, NEW rest, rest = WithoutTwins(Gathered(r)),
           NEW k \in DOMAIN rest, Undisturbed(rest, k)
    PROVE  k \in DOMAIN Normalised(r) /\ Normalised(r)[k] = rest[k]
<1>1. Readable(Gathered(r))
  BY GatheredKeys
<1>2. Readable(rest)
  BY <1>1 DEF Readable, WithoutTwins, Held
<1>3. Place(rest, k) = k
  <2>1. k = <<k[1], k[2], k[3]>> /\ k[2] \in Nat
    BY <1>2 DEF Readable, Fields, Numbers
  <2>2. CASE IsCo(k)
    <3>1. Cardinality(1 .. k[2]) = k[2]
      BY <2>1, FS_Interval
    <3> QED
      BY <2>1, <2>2, <3>1 DEF Place, Undisturbed
  <2> QED
    BY <2>2 DEF Place
<1> QED
  BY <1>2, <1>3, RenumberedKeys DEF Normalised

(* And then the page given with the value is the page it is filed under.    *)
LEMMA EvidenceFiled ==
    ASSUME NEW r \in Replies, NEW rest, rest = WithoutTwins(Gathered(r)), NEW d,
           NEW pages \in SUBSET Nat, pages # {},
           NEW k \in DOMAIN rest \cap DOMAIN r.evidence, Undisturbed(rest, k),
           r.evidence[k] \in pages, IsKept(k, rest[k])
    PROVE  \E f \in Ingested(r, d, pages) :
               /\ f.doc = d /\ f.page = r.evidence[k] /\ f.field = k /\ f.printed = rest[k]
<1>1. k \in DOMAIN Normalised(r) /\ Normalised(r)[k] = rest[k]
  BY UndisturbedStays
<1>2. k \in DOMAIN Kept(r)
  BY <1>1, KeptKeys
<1>3. PageOf(r, k, pages) = r.evidence[k]
  BY DEF PageOf
<1> QED
  BY <1>1, <1>2, <1>3, KeptIsSaid

-----------------------------------------------------------------------------
(* The calls, the pages and the verdicts of the documents. *)

Outcomes   == {"ok", "empty", "err"}
CallsOf(d) == {c \in calls : c.doc = d}
Started(d) == \E i \in DOMAIN Documents :
                  Documents[i] = d /\ (i < doc \/ (i = doc /\ stage = "read"))

(* Calls are made about documents that were begun, and what they say is     *)
(* filed.                                                                   *)
CallsInv ==
    \A c \in calls :
        /\ c.doc \in Docs /\ Started(c.doc) /\ c.outcome \in Outcomes
        /\ c.pages \in SUBSET ToRead(c.doc) /\ c.pages # {}
        /\ c.reply \in Replies \cup {Nothing}
        /\ c.reply # Nothing => Ingested(c.reply, c.doc, c.pages) \subseteq filed

(* Nothing is filed but what a call with values said. *)
FiledInv ==
    \A f \in filed : \E c \in calls :
        c.reply \in Replies /\ c.outcome = "ok" /\ f \in Ingested(c.reply, c.doc, c.pages)

(* The counters of the document at hand tell which outcomes there were. *)
TallyInv ==
    stage = "read" =>
        \A o \in Outcomes : tally[o] > 0 <=> \E c \in calls : c.doc = Doc /\ c.outcome = o

(* Its pages are in calls, in the one being made, or left; no page is in    *)
(* two of these, and none is missing unless rendering broke off.            *)
PagesInv ==
    /\ stage = "next" => left = {} /\ sent = {}
    /\ stage = "read" =>
           /\ doc \in DOMAIN Documents
           /\ left \in SUBSET ToRead(Doc) /\ sent \in SUBSET ToRead(Doc) /\ left \cap sent = {}
           /\ \A c \in CallsOf(Doc) : c.pages \cap (left \cup sent) = {}
           /\ \A p \in ToRead(Doc) :
                  p \in left \cup sent \/ Doc \in cut \/ \E c \in CallsOf(Doc) : p \in c.pages

OnceInv ==
    \A b, c \in calls : b.doc = c.doc /\ b.pages \cap c.pages # {} => b.pages = c.pages

ReadingInv ==
    /\ ReadingTypeOK /\ CallsInv /\ FiledInv /\ TallyInv
    /\ PagesInv /\ OnceInv /\ VerdictTells /\ PagesCovered

LEMMA PagesAreNumbers == \A d \in Docs : ToRead(d) \in SUBSET Nat
<1>1. \A d \in Docs : 1 .. PageCount[d] \subseteq Nat
  BY ReadingAssumption
<1> QED
  BY <1>1 DEF ToRead

(* The document at hand. *)
LEMMA AtWork ==
    ASSUME ReadingTypeOK, PagesInv, stage = "read"
    PROVE  /\ doc \in DOMAIN Documents /\ doc \in Nat /\ Doc \in Docs /\ Started(Doc)
           /\ status[Doc] = "pending"
           /\ \A i \in DOMAIN Documents : Documents[i] = Doc => i = doc
<1>1. /\ doc \in DOMAIN Documents /\ DOMAIN Documents = 1 .. Len(Documents) /\ Len(Documents) \in Nat
      /\ \A i, j \in DOMAIN Documents : Documents[i] = Documents[j] => i = j
  BY ReadingAssumption DEF PagesInv
<1>2. Doc \in Docs
  BY <1>1 DEF Doc, Docs, Range
<1>3. status[Doc] = "pending"
  BY <1>1 DEF ReadingTypeOK, Doc
<1> QED
  BY <1>1, <1>2, <1>3 DEF Doc, Started

(* While the next document is awaited nothing has been said about it. *)
LEMMA NothingYet ==
    ASSUME ReadingTypeOK, CallsInv, stage = "next", doc \in DOMAIN Documents
    PROVE  CallsOf(Doc) = {}
<1>1. SUFFICES ASSUME NEW c \in calls, c.doc = Doc PROVE FALSE
  BY DEF CallsOf
<1>2. Started(Doc)
  BY <1>1 DEF CallsInv
<1>3. PICK i \in DOMAIN Documents : Documents[i] = Documents[doc] /\ i < doc
  BY <1>2 DEF Started, Doc
<1>4. i = doc /\ doc \in Nat
  BY <1>3, ReadingAssumption
<1> QED
  BY <1>3, <1>4

LEMMA ReadingStarts == ReadingInit => ReadingInv
<1> SUFFICES ASSUME ReadingInit PROVE ReadingInv
  OBVIOUS
<1>1. /\ Len(Documents) \in Nat /\ DOMAIN Documents = 1 .. Len(Documents)
      /\ \A i \in DOMAIN Documents : Documents[i] \in Docs
  BY ReadingAssumption DEF Docs, Range
<1>2. ReadingTypeOK
  <2>1. DOMAIN extras \subseteq Fields /\ tally \in [DOMAIN Zero -> Nat]
    BY DEF ReadingInit, Zero
  <2>2. status \in [Docs -> {"pending", "processed", "failed"}]
    BY DEF ReadingInit
  <2>3. \A i \in 1 .. Len(Documents) : status[Documents[i]] = "pending" <=> i >= doc
    BY <1>1 DEF ReadingInit
  <2>4. mishaps \in 0 .. MaxMishaps /\ doc \in 1 .. Len(Documents) + 1
    BY <1>1, ReadingAssumption DEF ReadingInit
  <2> QED
    BY <2>1, <2>2, <2>3, <2>4 DEF ReadingInit, ReadingTypeOK
<1>3. CallsInv /\ FiledInv /\ TallyInv /\ PagesInv /\ OnceInv
  BY DEF ReadingInit, CallsInv, FiledInv, TallyInv, PagesInv, OnceInv
<1>4. VerdictTells /\ PagesCovered
  BY DEF ReadingInit, VerdictTells, PagesCovered
<1> QED
  BY <1>2, <1>3, <1>4 DEF ReadingInv

(* What is said of documents stays as long as nothing of it changes. *)
LEMMA SaidStays ==
    ASSUME UNCHANGED <<plan, filed, status, calls, broken>>, cut \subseteq cut'
    PROVE  /\ FiledInv => FiledInv'
           /\ OnceInv => OnceInv'
           /\ VerdictTells => VerdictTells'
           /\ PagesCovered => PagesCovered'
           /\ \A d : ToRead(d)' = ToRead(d)
<1>1. \A d : ToRead(d)' = ToRead(d)
  BY DEF ToRead, TargetPages
<1>2. (FiledInv => FiledInv') /\ (OnceInv => OnceInv')
  BY DEF FiledInv, OnceInv
<1>3. VerdictTells => VerdictTells'
  BY DEF VerdictTells
<1>4. PagesCovered => PagesCovered'
  BY <1>1 DEF PagesCovered
<1> QED
  BY <1>1, <1>2, <1>3, <1>4

LEMMA OpenKeeps == ReadingInv /\ Open => ReadingInv'
<1> SUFFICES ASSUME ReadingInv, Open PROVE ReadingInv'
  OBVIOUS
<1>1. /\ stage = "next" /\ stage' = "read" /\ doc \in DOMAIN Documents
      /\ doc' = doc /\ Doc' = Doc /\ Doc \in Docs
  BY ReadingAssumption DEF ReadingInv, ReadingTypeOK, Open, Doc, Docs, Range
<1>2. CallsOf(Doc) = {}
  BY <1>1, NothingYet DEF ReadingInv
<1>3. \A d : ToRead(d)' = ToRead(d)
  BY SaidStays DEF Open, history
<1>4. ReadingTypeOK'
  <2>1. left' \in SUBSET Nat
    BY <1>1, PagesAreNumbers DEF Open
  <2>2. tally' \in [DOMAIN Zero -> Nat]
    BY DEF Open, Zero
  <2> QED
    BY <2>1, <2>2 DEF ReadingInv, ReadingTypeOK, Open, history
<1>5. CallsInv'
  <2>1. \A d : Started(d) => Started(d)'
    BY <1>1 DEF Started
  <2> QED
    BY <1>3, <2>1 DEF ReadingInv, CallsInv, Open
<1>6. TallyInv'
  BY <1>1, <1>2 DEF TallyInv, CallsOf, Outcomes, Zero, Open
<1>7. PagesInv'
  BY <1>1, <1>2, <1>3 DEF ReadingInv, PagesInv, CallsOf, Open
<1>8. FiledInv' /\ OnceInv' /\ VerdictTells' /\ PagesCovered'
  BY SaidStays DEF ReadingInv, Open, history
<1> QED
  BY <1>4, <1>5, <1>6, <1>7, <1>8 DEF ReadingInv

(* The first pages are part of the next ones. *)
LEMMA FirstAmongNext ==
    ASSUME left \in SUBSET Nat, NEW n \in 0 .. BatchSize
    PROVE  FirstPages(n) \subseteq NextPages /\ NextPages \subseteq left
<1>1. ASSUME NEW p \in left
      PROVE  Cardinality({q \in left : q < p}) \in Nat
  <2>1. IsFiniteSet({q \in left : q < p})
    BY FS_BoundedSetOfNaturals
  <2> QED
    BY <2>1, FS_CardinalityType
<1>2. n \in Nat /\ BatchSize \in Nat /\ n <= BatchSize
  BY ReadingAssumption
<1>3. ASSUME NEW p \in left, Cardinality({q \in left : q < p}) < n
      PROVE  Cardinality({q \in left : q < p}) < BatchSize
  BY ONLY <1>1, <1>2, <1>3
<1> QED
  BY <1>3 DEF FirstPages, NextPages

LEMMA RenderKeeps ==
    ASSUME ReadingInv, NEW n \in 0 .. BatchSize, Render(n)
    PROVE  ReadingInv'
<1>1. /\ stage = "read" /\ stage' = "read" /\ sent = {} /\ doc' = doc /\ Doc' = Doc
      /\ sent' = FirstPages(n) /\ left' = left \ NextPages
      /\ UNCHANGED <<plan, filed, status, calls, broken, tally, extras>> /\ cut \subseteq cut'
      /\ FirstPages(n) = NextPages \/ cut' = cut \cup {Doc}
  BY DEF Render, Rest, Doc
<1>2. Doc \in Docs
  BY <1>1, AtWork DEF ReadingInv
<1>3. FirstPages(n) \subseteq NextPages /\ NextPages \subseteq left
  BY FirstAmongNext DEF ReadingInv, ReadingTypeOK
<1>4. \A d : ToRead(d)' = ToRead(d)
  BY <1>1, SaidStays
<1>5. ReadingTypeOK'
  <2>1. left' \in SUBSET Nat /\ sent' \in SUBSET Nat
    BY <1>1, <1>3 DEF ReadingInv, ReadingTypeOK
  <2>2. mishaps' \in 0 .. MaxMishaps /\ cut' \subseteq Docs
    BY <1>2, ReadingAssumption DEF ReadingInv, ReadingTypeOK, Render
  <2> QED
    BY <1>1, <2>1, <2>2 DEF ReadingInv, ReadingTypeOK, Render
<1>6. CallsInv'
  BY <1>1, <1>4 DEF ReadingInv, CallsInv, Started
<1>7. TallyInv'
  BY <1>1 DEF ReadingInv, TallyInv
<1>8. PagesInv'
  <2>1. /\ left \in SUBSET ToRead(Doc) /\ doc \in DOMAIN Documents
        /\ \A c \in CallsOf(Doc) : c.pages \cap left = {}
        /\ \A p \in ToRead(Doc) :
               p \in left \/ Doc \in cut \/ \E c \in CallsOf(Doc) : p \in c.pages
    BY <1>1 DEF ReadingInv, PagesInv
  <2>2. CallsOf(Doc)' = CallsOf(Doc)
    BY <1>1 DEF CallsOf
  <2>3. left' \cup sent' \subseteq left /\ left' \cap sent' = {}
    BY <1>1, <1>3
  <2>4. Doc \in cut' \/ left' \cup sent' = left
    BY <1>1, <1>3
  <2>5. /\ left' \in SUBSET ToRead(Doc) /\ sent' \in SUBSET ToRead(Doc)
        /\ \A c \in CallsOf(Doc) : c.pages \cap (left' \cup sent') = {}
    BY <2>1, <2>3
  <2>6. \A p \in ToRead(Doc) :
            p \in left' \cup sent' \/ Doc \in cut' \/ \E c \in CallsOf(Doc) : p \in c.pages
    BY <1>1, <2>1, <2>4
  <2> QED
    BY <1>1, <1>4, <2>1, <2>2, <2>3, <2>5, <2>6 DEF PagesInv
<1>9. FiledInv' /\ OnceInv' /\ VerdictTells' /\ PagesCovered'
  BY <1>1, SaidStays DEF ReadingInv
<1> QED
  BY <1>5, <1>6, <1>7, <1>8, <1>9 DEF ReadingInv

(* A call is answered: its pages are in the record with the outcome, and    *)
(* what the reply says is filed.                                            *)
LEMMA AnswerKeeps ==
    ASSUME ReadingInv, NEW o \in Outcomes, NEW reply \in Replies \cup {Nothing},
           Answered(o, reply),
           reply = Nothing => UNCHANGED <<filed, extras>> /\ o # "ok",
           reply # Nothing => /\ filed' = filed \cup Ingested(reply, Doc, sent)
                              /\ extras' = Over(extras, Aside(reply))
                              /\ o = IF DOMAIN Kept(reply) = {} THEN "empty" ELSE "ok"
    PROVE  ReadingInv'
<1>0. PICK call : call = [doc |-> Doc, pages |-> sent, outcome |-> o, reply |-> reply]
  OBVIOUS
<1>1. /\ stage = "read" /\ stage' = "read" /\ sent # {} /\ sent' = {} /\ left' = left
      /\ doc' = doc /\ Doc' = Doc /\ plan' = plan /\ status' = status
      /\ cut' = cut /\ broken' = broken /\ mishaps' = mishaps
      /\ tally' = [tally EXCEPT ![o] = @ + 1] /\ calls' = calls \cup {call}
  BY <1>0 DEF Answered, history, Doc
<1>2. /\ Doc \in Docs /\ doc \in DOMAIN Documents /\ Started(Doc) /\ status[Doc] = "pending"
      /\ sent \in SUBSET Nat
  BY <1>1, AtWork DEF ReadingInv, ReadingTypeOK
<1>3. \A d : ToRead(d)' = ToRead(d) /\ Started(d)' = Started(d)
  BY <1>1 DEF ToRead, TargetPages, Started
<1>4. call.doc = Doc /\ call.pages = sent /\ call.outcome = o /\ call.reply = reply
  BY <1>0
<1>5. /\ sent \in SUBSET ToRead(Doc) /\ left \in SUBSET ToRead(Doc) /\ left \cap sent = {}
      /\ \A c \in CallsOf(Doc) : c.pages \cap (left \cup sent) = {}
      /\ \A p \in ToRead(Doc) :
             p \in left \cup sent \/ Doc \in cut \/ \E c \in CallsOf(Doc) : p \in c.pages
  BY <1>1 DEF ReadingInv, PagesInv
<1>6. /\ filed \subseteq filed'
      /\ reply # Nothing => Ingested(reply, Doc, sent) \subseteq filed'
      /\ \A f \in filed' : f \in filed
                           \/ (reply \in Replies /\ o = "ok" /\ f \in Ingested(reply, Doc, sent))
  <2>1. CASE reply = Nothing
    BY <2>1
  <2>2. CASE reply # Nothing
    <3>1. reply \in Replies
      BY <2>2
    <3>2. \A f \in Ingested(reply, Doc, sent) : DOMAIN Kept(reply) # {}
      BY <3>1, <1>1, <1>2, SaidOf
    <3> QED
      BY <2>2, <3>1, <3>2
  <2> QED
    BY <2>1, <2>2
<1>f. reply \in Replies =>
          \A f \in Ingested(reply, Doc, sent) :
              /\ f.doc = Doc /\ f.field \in Fields /\ f.value \notin Lenders
              /\ <<f.field[1], f.field[3]>> \in Asked
  BY <1>1, <1>2, SaidOf
<1>7. ReadingTypeOK'
  <2>1. \A f \in filed' : f.doc \in Docs /\ f.field \in Fields /\ f.value \notin Lenders
                              /\ <<f.field[1], f.field[3]>> \in Asked
    BY <1>2, <1>6, <1>f DEF ReadingInv, ReadingTypeOK
  <2>2. DOMAIN extras' \subseteq Fields
    <3>1. CASE reply = Nothing
      BY <3>1 DEF ReadingInv, ReadingTypeOK
    <3>2. CASE reply # Nothing
      BY <3>2, KeptKeys DEF ReadingInv, ReadingTypeOK, Over
    <3> QED
      BY <3>1, <3>2
  <2>3. tally' \in [DOMAIN Zero -> Nat]
    <3>1. tally \in [DOMAIN Zero -> Nat] /\ o \in DOMAIN Zero
      BY DEF ReadingInv, ReadingTypeOK, Zero, Outcomes
    <3> QED
      BY <1>1, <3>1
  <2> QED
    BY <1>1, <2>1, <2>2, <2>3 DEF ReadingInv, ReadingTypeOK
<1>8. CallsInv'
  <2>1. ASSUME NEW c \in calls
        PROVE  /\ c.doc \in Docs /\ Started(c.doc)' /\ c.outcome \in Outcomes
               /\ c.pages \in SUBSET ToRead(c.doc)' /\ c.pages # {}
               /\ c.reply \in Replies \cup {Nothing}
               /\ c.reply # Nothing => Ingested(c.reply, c.doc, c.pages) \subseteq filed'
    BY <1>3, <1>6 DEF ReadingInv, CallsInv
  <2>2. /\ call.doc \in Docs /\ Started(call.doc)' /\ call.outcome \in Outcomes
        /\ call.pages \in SUBSET ToRead(call.doc)' /\ call.pages # {}
        /\ call.reply \in Replies \cup {Nothing}
        /\ call.reply # Nothing => Ingested(call.reply, call.doc, call.pages) \subseteq filed'
    BY <1>1, <1>2, <1>3, <1>4, <1>5, <1>6
  <2> QED
    BY <1>1, <2>1, <2>2 DEF CallsInv
<1>9. FiledInv'
  <2>1. \A f \in filed : \E c \in calls' :
            c.reply \in Replies /\ c.outcome = "ok" /\ f \in Ingested(c.reply, c.doc, c.pages)
    BY <1>1 DEF ReadingInv, FiledInv
  <2>2. ASSUME reply \in Replies, o = "ok", NEW f \in Ingested(reply, Doc, sent)
        PROVE  \E c \in calls' :
                   c.reply \in Replies /\ c.outcome = "ok" /\ f \in Ingested(c.reply, c.doc, c.pages)
    BY <1>1, <1>4, <2>2
  <2> QED
    BY <1>6, <2>1, <2>2 DEF FiledInv
<1>10. TallyInv'
  <2>1. /\ tally \in [Outcomes -> Nat]
        /\ \A a \in Outcomes : tally[a] > 0 <=> \E c \in calls : c.doc = Doc /\ c.outcome = a
    BY <1>1 DEF ReadingInv, ReadingTypeOK, TallyInv, Zero, Outcomes
  <2>2. \A a \in Outcomes : tally'[a] = IF a = o THEN tally[a] + 1 ELSE tally[a]
    BY <1>1, <2>1
  <2>3. ASSUME NEW a \in Outcomes
        PROVE  tally'[a] > 0 <=> \E c \in calls' : c.doc = Doc /\ c.outcome = a
    <3>1. tally[a] \in Nat
      BY <2>1
    <3>2. CASE a = o
      <4>1. tally'[a] > 0
        BY <2>2, <3>1, <3>2
      <4>2. call \in calls' /\ call.doc = Doc /\ call.outcome = a
        BY <1>1, <1>4, <3>2
      <4> QED
        BY <4>1, <4>2
    <3>3. CASE a # o
      <4>1. (\E c \in calls' : c.doc = Doc /\ c.outcome = a)
                <=> \E c \in calls : c.doc = Doc /\ c.outcome = a
        BY <1>1, <1>4, <3>3
      <4> QED
        BY <2>1, <2>2, <3>3, <4>1
    <3> QED
      BY <3>2, <3>3
  <2> QED
    BY <1>1, <2>3 DEF TallyInv
<1>11. CallsOf(Doc)' = CallsOf(Doc) \cup {call}
  BY <1>1, <1>4 DEF CallsOf
<1>12. PagesInv'
  <2>1. \A c \in CallsOf(Doc) \cup {call} : c.pages \cap left = {}
    BY <1>4, <1>5
  <2>2. \A p \in ToRead(Doc) :
            p \in left \/ Doc \in cut \/ \E c \in CallsOf(Doc) \cup {call} : p \in c.pages
    BY <1>4, <1>5
  <2> QED
    BY <1>1, <1>2, <1>3, <1>5, <1>11, <2>1, <2>2 DEF PagesInv
<1>13. OnceInv'
  <2>1. \A c \in calls : c.doc = Doc => c.pages \cap sent = {}
    BY <1>5 DEF CallsOf
  <2>2. \A c \in calls : c.doc = call.doc => c.pages \cap call.pages = {}
    BY <1>4, <2>1
  <2> QED
    BY <1>1, <2>2 DEF ReadingInv, OnceInv
<1>14. \A d \in Docs : status'[d] # "pending" => d # Doc /\ CallsOf(d)' = CallsOf(d)
  <2>1. \A d : d # Doc => CallsOf(d)' = CallsOf(d)
    BY <1>1, <1>4 DEF CallsOf
  <2> QED
    BY <1>1, <1>2, <2>1
<1>15. VerdictTells'
  <2>1. ASSUME NEW d \in Docs \ broken', status'[d] = "failed"
        PROVE  {c.outcome : c \in CallsOf(d)'} = {"err"} /\ \A f \in filed' : f.doc # d
    <3>1. d # Doc /\ CallsOf(d)' = CallsOf(d) /\ status[d] = "failed" /\ d \notin broken
      BY <1>1, <1>14, <2>1
    <3>2. {c.outcome : c \in CallsOf(d)} = {"err"} /\ \A f \in filed : f.doc # d
      BY <2>1, <3>1 DEF ReadingInv, VerdictTells, CallsOf
    <3>3. \A f \in filed' : f \in filed \/ f.doc = Doc
      BY <1>6, <1>f
    <3> QED
      BY <3>1, <3>2, <3>3
  <2>2. ASSUME NEW d \in Docs \ broken', status'[d] = "processed"
        PROVE  {c.outcome : c \in CallsOf(d)'} # {"err"}
    <3>1. CallsOf(d)' = CallsOf(d) /\ status[d] = "processed" /\ d \notin broken
      BY <1>1, <1>14, <2>2
    <3> QED
      BY <2>2, <3>1 DEF ReadingInv, VerdictTells, CallsOf
  <2> QED
    BY <2>1, <2>2 DEF VerdictTells, CallsOf
<1>16. PagesCovered'
  <2>1. ASSUME NEW d \in Docs \ (cut' \cup broken'), status'[d] # "pending"
        PROVE  UNION {c.pages : c \in CallsOf(d)'} = ToRead(d)'
    <3>1. CallsOf(d)' = CallsOf(d) /\ status[d] # "pending" /\ d \notin cut \cup broken
      BY <1>1, <1>14, <2>1
    <3>2. UNION {c.pages : c \in CallsOf(d)} = ToRead(d)
      BY <2>1, <3>1 DEF ReadingInv, PagesCovered, CallsOf
    <3> QED
      BY <1>3, <3>1, <3>2
  <2>2. \A d, b, c : b \in calls' /\ c \in calls' /\ b.doc = d /\ c.doc = d /\ b.pages \cap c.pages # {}
                         => b.pages = c.pages
    BY <1>13 DEF OnceInv
  <2> QED
    BY <2>1, <2>2 DEF PagesCovered, CallsOf
<1> QED
  BY <1>7, <1>8, <1>9, <1>10, <1>12, <1>13, <1>15, <1>16 DEF ReadingInv

(* The counters decide what becomes of a document that was read to its end. *)
LEMMA VerdictFits ==
    ASSUME ReadingInv, stage = "read"
    PROVE  /\ Verdict(tally) = "failed" =>
                  {c.outcome : c \in CallsOf(Doc)} = {"err"} /\ \A f \in filed : f.doc # Doc
           /\ Verdict(tally) = "processed" => {c.outcome : c \in CallsOf(Doc)} # {"err"}
<1>1. /\ tally.ok \in Nat /\ tally.empty \in Nat /\ tally.err \in Nat
      /\ tally.ok > 0    <=> \E c \in calls : c.doc = Doc /\ c.outcome = "ok"
      /\ tally.empty > 0 <=> \E c \in calls : c.doc = Doc /\ c.outcome = "empty"
      /\ tally.err > 0   <=> \E c \in calls : c.doc = Doc /\ c.outcome = "err"
  BY DEF ReadingInv, ReadingTypeOK, TallyInv, Zero, Outcomes
<1>2. \A c \in CallsOf(Doc) : c \in calls /\ c.doc = Doc /\ c.outcome \in {"ok", "empty", "err"}
  BY DEF ReadingInv, CallsInv, CallsOf, Outcomes
<1>3. ASSUME Verdict(tally) = "failed"
      PROVE  {c.outcome : c \in CallsOf(Doc)} = {"err"} /\ \A f \in filed : f.doc # Doc
  <2>1. tally.err > 0 /\ ~(tally.ok > 0) /\ ~(tally.empty > 0)
    BY <1>1, <1>3 DEF Verdict
  <2>2. {c.outcome : c \in CallsOf(Doc)} = {"err"}
    <3>1. \A c \in CallsOf(Doc) : c.outcome = "err"
      BY <1>1, <1>2, <2>1
    <3>2. \E c \in CallsOf(Doc) : c.outcome = "err"
      BY <1>1, <2>1 DEF CallsOf
    <3> QED
      BY <3>1, <3>2
  <2>3. ASSUME NEW f \in filed, f.doc = Doc
        PROVE  FALSE
    <3>1. PICK c \in calls : /\ c.reply \in Replies /\ c.outcome = "ok"
                             /\ f \in Ingested(c.reply, c.doc, c.pages)
      BY DEF ReadingInv, FiledInv
    <3>2. c.doc \in Docs /\ c.pages \in SUBSET Nat /\ c.pages # {}
      BY PagesAreNumbers DEF ReadingInv, CallsInv
    <3>3. \A g \in Ingested(c.reply, c.doc, c.pages) : g.doc = c.doc
      BY <3>1, <3>2, SaidByCall
    <3>4. c.doc = Doc
      BY <2>3, <3>1, <3>3
    <3> QED
      BY <1>1, <2>1, <3>1, <3>4
  <2> QED
    BY <2>2, <2>3
<1>4. ASSUME Verdict(tally) = "processed", {c.outcome : c \in CallsOf(Doc)} = {"err"}
      PROVE  FALSE
  <2>1. \A c \in CallsOf(Doc) : c.outcome = "err"
    BY <1>4
  <2>2. PICK c \in CallsOf(Doc) : c.outcome = "err"
    BY <1>4
  <2>3. \A e \in calls : e.doc = Doc => e.outcome = "err"
    BY <2>1 DEF CallsOf
  <2>4. tally.err > 0 /\ ~(tally.ok > 0) /\ ~(tally.empty > 0)
    BY <1>1, <1>2, <2>2, <2>3
  <2> QED
    BY <1>1, <1>4, <2>4 DEF Verdict
<1> QED
  BY <1>3, <1>4

(* A document is left, with the verdict of its counters unless an exception *)
(* ends it.                                                                 *)
LEMMA LeaveKeeps ==
    ASSUME ReadingInv, stage = "read", NEW verdict \in {"processed", "failed"}, Leave(verdict),
           broken' \in {broken, broken \cup {Doc}}, mishaps' \in 0 .. MaxMishaps,
           Doc \notin broken' => left = {} /\ sent = {} /\ verdict = Verdict(tally)
    PROVE  ReadingInv'
<1>1. /\ status' = [status EXCEPT ![Doc] = verdict] /\ doc' = doc + 1 /\ stage' = "next"
      /\ left' = {} /\ sent' = {} /\ tally' = Zero
      /\ UNCHANGED <<plan, filed, extras, calls, cut>> /\ broken \subseteq broken'
  BY DEF Leave
<1>2. PICK here : here = Doc
  OBVIOUS
<1>3. /\ here \in Docs /\ doc \in DOMAIN Documents /\ doc \in Nat /\ here = Documents[doc]
      /\ \A i \in DOMAIN Documents : Documents[i] = here => i = doc
      /\ Len(Documents) \in Nat /\ DOMAIN Documents = 1 .. Len(Documents)
      /\ \A i \in DOMAIN Documents : Documents[i] \in Docs
  BY <1>2, AtWork, ReadingAssumption DEF ReadingInv, Doc, Docs, Range
<1>4. \A d : ToRead(d)' = ToRead(d) /\ CallsOf(d)' = CallsOf(d)
  BY <1>1 DEF ToRead, TargetPages, CallsOf
<1>5. /\ status \in [Docs -> {"pending", "processed", "failed"}]
      /\ status'[here] = verdict /\ \A d \in Docs \ {here} : status'[d] = status[d]
  BY <1>1, <1>2, <1>3 DEF ReadingInv, ReadingTypeOK
<1>6. ReadingTypeOK'
  <2>1. doc' \in 1 .. Len(Documents) + 1
    BY <1>1, <1>3
  <2>2. \A i \in 1 .. Len(Documents) : status'[Documents[i]] = "pending" <=> i >= doc'
    <3>1. ASSUME NEW i \in 1 .. Len(Documents)
          PROVE  status'[Documents[i]] = "pending" <=> i >= doc'
      <4>1. i \in Nat /\ Documents[i] \in Docs /\ (status[Documents[i]] = "pending" <=> i >= doc)
        BY <1>3 DEF ReadingInv, ReadingTypeOK
      <4>2. CASE i = doc
        BY <1>1, <1>3, <1>5, <4>2
      <4>3. CASE i # doc
        <5>1. Documents[i] # here
          BY <1>3, <4>3
        <5> QED
          BY <1>1, <1>3, <1>5, <4>1, <4>3, <5>1
      <4> QED
        BY <4>2, <4>3
    <3> QED
      BY <3>1
  <2>3. tally' \in [DOMAIN Zero -> Nat] /\ status' \in [Docs -> {"pending", "processed", "failed"}]
    <3>1. status' \in [Docs -> {"pending", "processed", "failed"}]
      BY <1>1, <1>5
    <3>2. tally' \in [DOMAIN Zero -> Nat]
      BY <1>1 DEF Zero
    <3> QED
      BY <3>1, <3>2
  <2>4. broken' \subseteq Docs
    BY <1>2, <1>3 DEF ReadingInv, ReadingTypeOK
  <2> QED
    BY <1>1, <2>1, <2>2, <2>3, <2>4 DEF ReadingInv, ReadingTypeOK
<1>7. CallsInv'
  <2>1. \A d : Started(d) => Started(d)'
    BY <1>1, <1>3 DEF Started
  <2> QED
    BY <1>1, <1>4, <2>1 DEF ReadingInv, CallsInv
<1>8. FiledInv' /\ OnceInv' /\ TallyInv' /\ PagesInv'
  BY <1>1 DEF ReadingInv, FiledInv, OnceInv, TallyInv, PagesInv
<1>9. VerdictTells'
  <2>1. ASSUME NEW d \in Docs \ broken'
        PROVE  /\ status'[d] = "failed" =>
                      {c.outcome : c \in CallsOf(d)} = {"err"} /\ \A f \in filed : f.doc # d
               /\ status'[d] = "processed" => {c.outcome : c \in CallsOf(d)} # {"err"}
    <3>1. CASE d = here
      BY <1>2, <1>5, <2>1, <3>1, VerdictFits
    <3>2. CASE d # here
      <4>1. status'[d] = status[d] /\ d \notin broken
        BY <1>1, <1>5, <2>1, <3>2
      <4> QED
        BY <2>1, <4>1 DEF ReadingInv, VerdictTells, CallsOf
    <3> QED
      BY <3>1, <3>2
  <2> QED
    BY <1>1, <1>4, <2>1 DEF VerdictTells, CallsOf
<1>10. PagesCovered'
  <2>1. ASSUME NEW d \in Docs \ (cut \cup broken'), status'[d] # "pending"
        PROVE  UNION {c.pages : c \in CallsOf(d)} = ToRead(d)
    <3>1. CASE d = here
      <4>1. left = {} /\ sent = {}
        BY <1>2, <2>1, <3>1
      <4>2. \A p \in ToRead(d) : \E c \in CallsOf(d) : p \in c.pages
        BY <1>2, <2>1, <3>1, <4>1 DEF ReadingInv, PagesInv
      <4>3. \A c \in CallsOf(d) : c.pages \subseteq ToRead(d)
        BY DEF ReadingInv, CallsInv, CallsOf
      <4> QED
        BY <4>2, <4>3
    <3>2. CASE d # here
      <4>1. status[d] # "pending" /\ d \notin broken
        BY <1>1, <1>5, <2>1, <3>2
      <4> QED
        BY <2>1, <4>1 DEF ReadingInv, PagesCovered, CallsOf
    <3> QED
      BY <3>1, <3>2
  <2>2. \A b, c \in calls : b.doc = c.doc /\ b.pages \cap c.pages # {} => b.pages = c.pages
    BY DEF ReadingInv, OnceInv
  <2> QED
    BY <1>1, <1>4, <2>1, <2>2 DEF PagesCovered, CallsOf
<1> QED
  BY <1>6, <1>7, <1>8, <1>9, <1>10 DEF ReadingInv

LEMMA ReadingSteps == ReadingInv /\ [ReadingNext]_readingVars => ReadingInv'
<1> SUFFICES ASSUME ReadingInv, [ReadingNext]_readingVars PROVE ReadingInv'
  OBVIOUS
<1>1. CASE Open
  BY <1>1, OpenKeeps
<1>2. ASSUME NEW n \in 0 .. BatchSize, Render(n) PROVE ReadingInv'
  BY <1>2, RenderKeeps
<1>3. CASE NoAnswer
  <2>1. Answered("empty", Nothing) /\ UNCHANGED <<filed, extras>>
    BY <1>3 DEF NoAnswer
  <2> QED
    BY <2>1, AnswerKeeps DEF Outcomes
<1>4. CASE CallRaises
  <2>1. Answered("err", Nothing) /\ UNCHANGED <<filed, extras>>
    BY <1>4 DEF CallRaises
  <2> QED
    BY <2>1, AnswerKeeps DEF Outcomes
<1>5. ASSUME NEW r \in Replies, Reply(r) PROVE ReadingInv'
  <2>1. PICK o \in Outcomes : o = IF DOMAIN Kept(r) = {} THEN "empty" ELSE "ok"
    BY DEF Outcomes
  <2>2. /\ Answered(o, r) /\ filed' = filed \cup Ingested(r, Doc, sent)
        /\ extras' = Over(extras, Aside(r))
    BY <1>5, <2>1 DEF Reply
  <2>3. r # Nothing
    BY ReadingAssumption
  <2> QED
    BY <2>1, <2>2, <2>3, AnswerKeeps
<1>6. CASE Close
  <2>1. /\ stage = "read" /\ left = {} /\ sent = {} /\ Leave(Verdict(tally))
        /\ broken' = broken /\ mishaps' \in 0 .. MaxMishaps
    BY <1>6 DEF Close, ReadingInv, ReadingTypeOK
  <2>2. Verdict(tally) \in {"processed", "failed"}
    BY DEF Verdict
  <2> QED
    BY <2>1, <2>2, LeaveKeeps
<1>7. CASE Raises
  <2>1. /\ stage = "read" /\ Leave("failed") /\ broken' = broken \cup {Doc} /\ Doc \in broken'
        /\ mishaps' \in 0 .. MaxMishaps
    BY <1>7, ReadingAssumption DEF Raises, ReadingInv, ReadingTypeOK
  <2> QED
    BY <2>1, LeaveKeeps
<1>8. CASE UNCHANGED readingVars
  <2>1. /\ UNCHANGED <<plan, doc, stage, left, sent, tally, filed, extras, status, calls>>
        /\ UNCHANGED <<cut, broken, mishaps>>
    BY <1>8 DEF readingVars, history
  <2>2. \A d : ToRead(d)' = ToRead(d) /\ Started(d)' = Started(d)
    BY <2>1 DEF ToRead, TargetPages, Started
  <2>3. ReadingTypeOK' /\ CallsInv' /\ TallyInv' /\ PagesInv'
    BY <2>1, <2>2 DEF ReadingInv, ReadingTypeOK, CallsInv, TallyInv, PagesInv, CallsOf, Doc
  <2>4. FiledInv' /\ OnceInv' /\ VerdictTells' /\ PagesCovered'
    BY <2>1, SaidStays DEF ReadingInv
  <2> QED
    BY <2>3, <2>4 DEF ReadingInv
<1> QED
  BY <1>1, <1>2, <1>3, <1>4, <1>5, <1>6, <1>7, <1>8 DEF ReadingNext

LEMMA ReadingSound == ReadingSpec => []ReadingInv
  BY ReadingStarts, ReadingSteps, PTL DEF ReadingSpec

(* A document counts as failed if all its calls failed, and then nothing of *)
(* it is used; a processed one had a call that did not fail, or none -      *)
(* whatever the replies are, unless an exception ended the document         *)
(* (pipeline.py:925-944).                                                   *)
THEOREM VerdictsTell == ReadingSpec => []VerdictTells
<1>1. ReadingInv => VerdictTells
  BY DEF ReadingInv
<1> QED
  BY <1>1, ReadingSound, PTL

(* The calls about a document and what they say. *)
LEMMA HeardOf ==
    ASSUME ReadingInv, NEW c \in Heard
    PROVE  /\ c.reply \in Replies /\ c.doc \in Docs /\ c.pages \in SUBSET Nat /\ c.pages # {}
           /\ Ingested(c.reply, c.doc, c.pages) \subseteq filed
<1>1. c \in calls /\ c.reply # Nothing
  BY DEF Heard
<1> QED
  BY <1>1, PagesAreNumbers DEF ReadingInv, CallsInv

(* Every page that is to be read was shown to the model, once, and no value *)
(* is filed under a page that was not: for documents of any length, batches *)
(* of any size and any replies.                                             *)
THEOREM PagesAreRead == ReadingSpec => []PagesRead
<1>1. ReadingInv => PagesRead
  <2> SUFFICES ASSUME ReadingInv PROVE PagesRead
    OBVIOUS
  <2>1. PagesWereSent
    <3>1. SUFFICES ASSUME NEW f \in filed
                   PROVE  \E c \in Heard : c.doc = f.doc /\ f.page \in c.pages
      BY DEF PagesWereSent
    <3>2. PICK c \in calls : c.reply \in Replies /\ f \in Ingested(c.reply, c.doc, c.pages)
      BY DEF ReadingInv, FiledInv
    <3>3. c \in Heard
      BY <3>2, ReadingAssumption DEF Heard
    <3>4. c.pages \in SUBSET Nat /\ c.pages # {}
      BY <3>3, HeardOf
    <3>5. \A g \in Ingested(c.reply, c.doc, c.pages) : g.doc = c.doc /\ g.page \in c.pages
      BY <3>2, <3>4, SaidByCall
    <3> QED
      BY <3>2, <3>3, <3>5
  <2> QED
    BY <2>1 DEF ReadingInv, PagesRead
<1> QED
  BY <1>1, ReadingSound, PTL

(* Whoever is dropped from a reply or numbered again, the others stay under *)
(* their key and under the page the model gave with the value               *)
(* (pipeline.py:222, :298-300, :634-662).                                   *)
THEOREM EvidenceIsKept == ReadingSpec => []EvidenceKept
<1>1. ReadingInv => EvidenceKept
  <2> SUFFICES ASSUME ReadingInv, NEW c \in Heard, NEW rest, rest = WithoutTwins(Gathered(c.reply)),
                      NEW k \in DOMAIN rest \cap DOMAIN c.reply.evidence, Undisturbed(rest, k),
                      IsKept(k, rest[k]), c.reply.evidence[k] \in c.pages
               PROVE  \E f \in filed : /\ f.doc = c.doc /\ f.page = c.reply.evidence[k]
                                       /\ f.field = k /\ f.printed = rest[k]
    BY DEF EvidenceKept
  <2>1. /\ c.reply \in Replies /\ c.pages \in SUBSET Nat /\ c.pages # {}
        /\ Ingested(c.reply, c.doc, c.pages) \subseteq filed
    BY HeardOf
  <2>2. PICK f \in Ingested(c.reply, c.doc, c.pages) :
            f.doc = c.doc /\ f.page = c.reply.evidence[k] /\ f.field = k /\ f.printed = rest[k]
    BY <2>1, EvidenceFiled
  <2> QED
    BY <2>1, <2>2
<1> QED
  BY <1>1, ReadingSound, PTL

(* Everyone a reply names, in a role that is asked for, is filed, and       *)
(* nobody as the borrower and a co-borrower at once - unless the lender, or *)
(* told in two ways by one reply (pipeline.py:469-662).                     *)
THEOREM EveryoneIsFiledOnce == ReadingSpec => []EveryoneOnce
<1>1. ReadingInv => EveryoneOnce
  <2> SUFFICES ASSUME ReadingInv PROVE EveryoneOnce
    OBVIOUS
  <2>1. EveryoneFiled
    <3> SUFFICES ASSUME NEW c \in Heard, Unmixed(c.reply), NEW x \in NamesIn(c.reply)
                 PROVE  \/ <<x[1], "name">> \notin Asked \/ Cleaned[x[2]] \in Lenders
                        \/ <<"borrower", x[2]>> \in NamesIn(c.reply) /\ x[1] = "co_borrower"
                        \/ \E f \in filed : f.doc = c.doc /\ f.field[1] = x[1] /\ f.printed = x[2]
      BY DEF EveryoneFiled
    <3>1. /\ c.reply \in Replies /\ c.pages \in SUBSET Nat /\ c.pages # {}
          /\ Ingested(c.reply, c.doc, c.pages) \subseteq filed
      BY HeardOf
    <3>2. \/ <<x[1], "name">> \notin Asked \/ Cleaned[x[2]] \in Lenders
          \/ <<"borrower", x[2]>> \in NamesIn(c.reply) /\ x[1] = "co_borrower"
          \/ \E f \in Ingested(c.reply, c.doc, c.pages) :
                 f.doc = c.doc /\ f.field[1] = x[1] /\ f.printed = x[2]
      BY <3>1, NamesFiled
    <3> QED
      BY <3>1, <3>2
  <2>2. RolesApart
    <3> SUFFICES ASSUME NEW c \in Heard, NEW f \in FiledOf(c), NEW g \in FiledOf(c),
                        f.field = <<"borrower", 0, "name">>, IsCo(g.field), g.field[3] = "name"
                 PROVE  f.printed # g.printed
      BY DEF RolesApart
    <3>1. c.reply \in Replies /\ c.pages \in SUBSET Nat /\ c.pages # {}
      BY HeardOf
    <3>2. /\ f.field \in DOMAIN Kept(c.reply) /\ f.printed = Normalised(c.reply)[f.field]
          /\ g.field \in DOMAIN Kept(c.reply) /\ g.printed = Normalised(c.reply)[g.field]
      <4>1. \A h \in Ingested(c.reply, c.doc, c.pages) :
                h.field \in DOMAIN Kept(c.reply) /\ h.printed = Normalised(c.reply)[h.field]
        BY <3>1, SaidByCall
      <4> QED
        BY <4>1 DEF FiledOf
    <3>3. f.field \in DOMAIN Normalised(c.reply) /\ g.field \in DOMAIN Normalised(c.reply)
      BY <3>1, <3>2, KeptKeys
    <3> QED
      BY <3>1, <3>2, <3>3, NamesApart
  <2> QED
    BY <2>1, <2>2 DEF EveryoneOnce
<1> QED
  BY <1>1, ReadingSound, PTL
=============================================================================

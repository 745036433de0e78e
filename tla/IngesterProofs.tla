--------------------------- MODULE IngesterProofs ---------------------------
(***************************************************************************)
(* Theorems about the poll cycle of Ingester.tla, for any number of rows,  *)
(* ingesters, errors and crashes: its types, the cursor that never goes    *)
(* back in live mode, and the overlap that is wide enough to leave no row  *)
(* behind.                                                                 *)
(***************************************************************************)
EXTENDS Ingester, FiniteSetTheorems, TLAPS

-----------------------------------------------------------------------------
(* A row's cursor is a cursor. *)
LEMMA CursorOfType ==
    ASSUME IngesterTypeOK, NEW r \in Rows
    PROVE  CursorOf(r) \in Cursor
  BY IngesterAssumption DEF IngesterTypeOK, CursorOf, Cursor

(* The source returns rows it has. *)
LEMMA FetchSinceVisible ==
    ASSUME NEW since
    PROVE  FetchSince(since) \subseteq visible
  BY DEF FetchSince

(* A cycle starts with well-typed locals and no page. *)
LEMMA CycleFromType ==
    ASSUME NEW t \in Nat, NEW wm \in Cursor
    PROVE  CycleFrom(t, wm) \in Cycle /\ CycleFrom(t, wm).todo = {} /\ CycleFrom(t, wm).page = {}
  BY IngesterAssumption DEF CycleFrom, Cycle, Cursor

(* So are the locals between cycles. *)
LEMMA FreshType == Fresh \in Cycle /\ Fresh.todo = {} /\ Fresh.page = {}
  BY CycleFromType DEF Fresh, Cursor, Origin

(* Both ends of a cycle keep the types of what they write. *)
LEMMA NextCycleType ==
    ASSUME IngesterTypeOK, NEW i \in Ingesters, Leave(i) \/ Rest(i)
    PROVE  /\ lock' \in Ingesters \cup {Nobody}
           /\ at' \in [Ingesters -> Place]
           /\ stopping' \in [Ingesters -> BOOLEAN]
           /\ cycle' \in [Ingesters -> Cycle]
           /\ \A j \in Ingesters : cycle'[j] = cycle[j] \/ (cycle'[j].todo = {} /\ cycle'[j].page = {})
  <1>2. CASE Leave(i)
    BY FreshType, <1>2 DEF Leave, IngesterTypeOK, GoTo, Place
  <1>3. CASE Rest(i)
    BY FreshType, <1>3 DEF Rest, IngesterTypeOK, GoTo, Place
  <1> QED BY <1>2, <1>3

(* Locals of an ingester replaced by well-typed ones. *)
LEMMA CycleUpdateType ==
    ASSUME IngesterTypeOK, NEW i \in Ingesters, NEW c \in Cycle,
           c.todo \subseteq c.page, c.page \subseteq visible,
           cycle' = [cycle EXCEPT ![i] = c], UNCHANGED visible
    PROVE  /\ cycle' \in [Ingesters -> Cycle]
           /\ \A j \in Ingesters : cycle'[j].todo \subseteq cycle'[j].page
                                /\ cycle'[j].page \subseteq visible'
  BY DEF IngesterTypeOK

(* The locals after a page are well-typed and hold no page. *)
LEMMA PageTurnedType ==
    ASSUME NEW c \in Cycle, NEW max \in Cursor, c.todo = {}
    PROVE  /\ LastPage(c, max) \in Cycle /\ FullPage(c, max) \in Cycle
           /\ LastPage(c, max).todo = {} /\ FullPage(c, max).todo = {}
           /\ LastPage(c, max).page = {} /\ FullPage(c, max).page = {}
  <1>1. Further(c, max) \in Cursor /\ max.ts \in Int
    BY DEF Further, Cycle, Cursor
  <1>2. LastPage(c, max) \in Cycle /\ LastPage(c, max).todo = {} /\ LastPage(c, max).page = {}
    BY <1>1 DEF LastPage, Cycle
  <1>3. FullPage(c, max) \in Cycle /\ FullPage(c, max).todo = {} /\ FullPage(c, max).page = {}
    <2> DEFINE l == LastPage(c, max)
    <2>1. c.pages + 1 \in Nat
      BY DEF Cycle
    <2> HIDE DEF l
    <2>2. FullPage(c, max) = [l EXCEPT !.last = max, !.since = max.ts, !.pages = c.pages + 1]
      BY DEF FullPage, l
    <2>3. l \in Cycle /\ l.todo = {} /\ l.page = {}
      BY <1>2 DEF l
    <2> QED BY <1>1, <2>1, <2>2, <2>3 DEF Cycle
  <1> QED BY <1>2, <1>3

(* Every step keeps the types. *)
LEMMA IngesterTypeOKStep == IngesterTypeOK /\ [Next]_vars => IngesterTypeOK'
  <1> SUFFICES ASSUME IngesterTypeOK, [Next]_vars PROVE IngesterTypeOK'
    OBVIOUS
  <1> USE DEF Fault, GoTo, source, tables, processes
  <1>1. CASE Tick
    BY <1>1 DEF Tick, IngesterTypeOK
  <1>2. ASSUME NEW r \in Rows, RowCommits(r) PROVE IngesterTypeOK'
    BY <1>2 DEF RowCommits, IngesterTypeOK
  <1>3. ASSUME NEW i \in Ingesters, Start(i) PROVE IngesterTypeOK'
    BY <1>3, IngesterAssumption DEF Start, IngesterTypeOK, Place, Cursor, Origin
  <1>4. ASSUME NEW i \in Ingesters, SeedCursor(i) PROVE IngesterTypeOK'
    <2>1. watermark' \in Cursor
      BY <1>4 DEF SeedCursor, IngesterTypeOK, Cursor
    <2> QED BY <1>4, <2>1, NextCycleType DEF SeedCursor, NextCycle, IngesterTypeOK
  <1>5. ASSUME NEW i \in Ingesters, BeginCycle(i) PROVE IngesterTypeOK'
    <2> DEFINE new == CycleFrom(now, watermark)
    <2>1. new \in Cycle /\ new.todo = {} /\ new.page = {}
      BY <1>5, CycleFromType DEF BeginCycle, IngesterTypeOK
    <2>2. cycle' = [cycle EXCEPT ![i] = new]
      BY <1>5 DEF BeginCycle
    <2> HIDE DEF new
    <2> QED BY <1>5, <2>1, <2>2 DEF BeginCycle, IngesterTypeOK, Place
  <1>6. ASSUME NEW i \in Ingesters, FetchPage(i) PROVE IngesterTypeOK'
    <2> DEFINE rows == FetchSince(cycle[i].since)
               new  == [cycle[i] EXCEPT !.page = rows, !.todo = rows, !.seen = TRUE]
    <2>1. rows \subseteq visible
      BY FetchSinceVisible
    <2>2. CASE cycle' = [cycle EXCEPT ![i] = new]
      <3>1. new \in Cycle /\ new.todo \subseteq new.page /\ new.page \subseteq visible
        <4> HIDE DEF rows
        <4> QED BY <2>1 DEF IngesterTypeOK, Cycle
      <3> HIDE DEF new
      <3> QED BY <1>6, <2>2, <3>1, CycleUpdateType DEF FetchPage, IngesterTypeOK, Place
    <2>3. CASE UNCHANGED cycle
      BY <1>6, <2>3 DEF FetchPage, IngesterTypeOK, Place
    <2> QED BY <1>6, <2>2, <2>3 DEF FetchPage
  <1>7. ASSUME NEW i \in Ingesters, QuarantineRow(i) PROVE IngesterTypeOK'
    BY <1>7 DEF QuarantineRow, IngesterTypeOK, Cycle
  <1>8. ASSUME NEW i \in Ingesters, EnqueueRow(i) PROVE IngesterTypeOK'
    BY <1>8 DEF EnqueueRow, IngesterTypeOK, Cycle
  <1>9. ASSUME NEW i \in Ingesters, EndPage(i) PROVE IngesterTypeOK'
    <2>1. PICK m \in cycle[i].page : TurnPage(i, CursorOf(m))
      BY <1>9 DEF EndPage
    <2>2. CursorOf(m) \in Cursor /\ cycle[i] \in Cycle /\ cycle[i].todo = {}
      BY <1>9, CursorOfType DEF EndPage, IngesterTypeOK
    <2>3. PICK c \in Cycle : /\ c.todo = {} /\ c.page = {}
                             /\ cycle' = [cycle EXCEPT ![i] = c]
      BY <2>1, <2>2, PageTurnedType DEF TurnPage
    <2>4. /\ cycle' \in [Ingesters -> Cycle]
          /\ \A j \in Ingesters : cycle'[j].todo \subseteq cycle'[j].page
                               /\ cycle'[j].page \subseteq visible'
      BY <1>9, <2>3, CycleUpdateType DEF EndPage
    <2>5. at' \in [Ingesters -> Place]
      BY <2>1 DEF TurnPage, IngesterTypeOK, Place
    <2> QED BY <1>9, <2>4, <2>5 DEF EndPage, IngesterTypeOK
  <1>10. ASSUME NEW i \in Ingesters, Advance(i) PROVE IngesterTypeOK'
    BY <1>10, NextCycleType DEF Advance, NextCycle, AdvanceCursor, IngesterTypeOK, Cycle
  <1>11. ASSUME NEW i \in Ingesters, Exit(i) PROVE IngesterTypeOK'
    BY <1>11, FreshType DEF Exit, Leave, IngesterTypeOK, Place
  <1>12. ASSUME NEW i \in Ingesters, CycleFails(i) PROVE IngesterTypeOK'
    BY <1>12, NextCycleType DEF CycleFails, NextCycle, IngesterTypeOK
  <1>13. ASSUME NEW i \in Ingesters, Signal(i) PROVE IngesterTypeOK'
    BY <1>13 DEF Signal, IngesterTypeOK
  <1>14. ASSUME NEW i \in Ingesters, Crash(i) PROVE IngesterTypeOK'
    BY <1>14, FreshType DEF Crash, Leave, IngesterTypeOK, Place
  <1>15. ASSUME NEW i \in Ingesters, LoseLock(i) PROVE IngesterTypeOK'
    BY <1>15 DEF LoseLock, IngesterTypeOK
  <1>16. CASE UNCHANGED vars
    BY <1>16 DEF vars, IngesterTypeOK
  <1> QED BY <1>1, <1>2, <1>3, <1>4, <1>5, <1>6, <1>7, <1>8, <1>9, <1>10, <1>11, <1>12,
             <1>13, <1>14, <1>15, <1>16 DEF Next, IngesterStep, IngesterFault

(* The tables, cursors and locals of ingest/ingester.py keep their types:  *)
(* what is queued or in quarantine exists at the source, and a page in     *)
(* work is made of rows that exist.                                        *)
THEOREM IngesterTypes == Spec => []IngesterTypeOK
  <1>1. Init => IngesterTypeOK
    BY FreshType DEF Init, IngesterTypeOK, Place
  <1> QED BY <1>1, IngesterTypeOKStep, PTL DEF Spec

(* Only AdvanceCursor, SeedCursor and a backfill's Start write the cursor. *)
LEMMA ForwardStepHolds == IngesterTypeOK /\ [Next]_vars => [ForwardStep]_vars
  <1> SUFFICES ASSUME IngesterTypeOK, Next PROVE ForwardStep
    BY DEF vars
  <1> USE DEF ForwardStep, tables
  <1>1. CASE Tick \/ \E r \in Rows : RowCommits(r)
    BY <1>1 DEF Tick, RowCommits
  <1>2. ASSUME NEW i \in Ingesters, Start(i) PROVE ForwardStep
    BY <1>2 DEF Start
  <1>3. ASSUME NEW i \in Ingesters, SeedCursor(i) PROVE ForwardStep
    BY <1>3 DEF SeedCursor
  <1>4. ASSUME NEW i \in Ingesters, Advance(i) PROVE ForwardStep
    BY <1>4 DEF Advance, AdvanceCursor
  <1>5. ASSUME NEW i \in Ingesters, BeginCycle(i) \/ FetchPage(i) \/ QuarantineRow(i)
                                    \/ EnqueueRow(i) \/ EndPage(i)
        PROVE  ForwardStep
    BY <1>5 DEF BeginCycle, FetchPage, QuarantineRow, EnqueueRow, EndPage
  <1>6. ASSUME NEW i \in Ingesters, Exit(i) \/ IngesterFault(i) PROVE ForwardStep
    BY <1>6 DEF Exit, IngesterFault, CycleFails, Signal, Crash, LoseLock
  <1> QED BY <1>1, <1>2, <1>3, <1>4, <1>5, <1>6 DEF Next, IngesterStep

(* ingest/watermark.py:4: outside a backfill the cursor never goes back,   *)
(* however many ingesters a lost lock lets in.                             *)
THEOREM CursorMovesForward == Spec => CursorForward
  BY IngesterTypes, ForwardStepHolds, PTL DEF Spec, CursorForward

-----------------------------------------------------------------------------
(* What the clock bounds: rows, cursors and running cycles. *)
Timely ==
    /\ \A r \in visible : created[r] <= now
    /\ watermark # Unset => watermark.ts <= now
    /\ \A i \in Ingesters : InCycle(i) =>
          /\ watermark # Unset
          /\ cycle[i].began <= now /\ now <= cycle[i].began + CycleTime
          /\ cycle[i].top.ts <= now

(* A cycle will not put row r out of reach: its cursor is at most an       *)
(* overlap ahead of r, and if r could be seen when the cycle began, then   *)
(* the pages have not gone past r or r is among the rows to be enqueued.   *)
InReach(i, r) ==
    /\ cycle[i].top.ts <= created[r] + Overlap
    /\ cycle[i].began > created[r] + Latency =>
          /\ cycle[i].since <= created[r]
          /\ at[i] = "rows" =>
                r \in cycle[i].todo \/ \A p \in cycle[i].page : created[p] <= created[r]

CyclesReach ==
    \A i \in Ingesters, r \in Rows : InCycle(i) /\ Promised(r) /\ ~Landed(r) => InReach(i, r)

ReachInv == IngesterTypeOK /\ Timely /\ NoneLeftBehind /\ CyclesReach

(* The overlap covers the longest commit and the longest cycle together.   *)
WideOverlap == Overlap >= Latency + CycleTime

(* A backfill, if any is started, has the source to itself. *)
BackfillAlone == "backfill" \notin Modes \/ \E i : Ingesters = {i}
-----------------------------------------------------------------------------
(* Leaving a row r of the table out of a full page means that every row of *)
(* the page comes before r.                                                *)
LEMMA LeftOutComesLater ==
    ASSUME IngesterTypeOK, NEW since, NEW r \in visible, NEW p \in FetchSince(since),
           created[r] >= since, r \notin FetchSince(since)
    PROVE  created[p] <= created[r]
  <1> DEFINE found == {q \in visible : created[q] >= since}
             before(q) == {x \in found : Earlier(x, q)}
  <1> SUFFICES ASSUME created[r] < created[p] PROVE FALSE
    BY DEF IngesterTypeOK, FetchSince
  <1>1. p \in found /\ r \in found
    BY DEF FetchSince
  <1>2. before(r) \subseteq before(p)
    BY <1>1 DEF Earlier, IngesterTypeOK
  <1>3. IsFiniteSet(before(p))
    <2>1. before(p) \subseteq Rows
      BY DEF IngesterTypeOK
    <2> QED BY <2>1, FS_Subset, IngesterAssumption
  <1>4. Cardinality(before(r)) <= Cardinality(before(p))
    BY <1>2, <1>3, FS_Subset
  <1>5. Cardinality(before(p)) < Batch /\ ~(Cardinality(before(r)) < Batch)
    BY <1>1 DEF FetchSince
  <1>6. IsFiniteSet(before(r))
    BY <1>2, <1>3, FS_Subset
  <1> QED BY <1>3, <1>4, <1>5, <1>6, FS_CardinalityType, IngesterAssumption

(* Fetching a page changes nothing in a cycle but the page. *)
LEMMA PageFetched ==
    ASSUME IngesterTypeOK, NEW i \in Ingesters, FetchPage(i)
    PROVE  /\ InCycle(i)
           /\ \A j \in Ingesters : /\ InCycle(j)' => InCycle(j)
                                  /\ cycle'[j].began = cycle[j].began
                                  /\ cycle'[j].since = cycle[j].since
                                  /\ cycle'[j].top = cycle[j].top
           /\ \A j \in Ingesters \ {i} : cycle'[j] = cycle[j] /\ at'[j] = at[j]
           /\ at'[i] = "rows" => LET rows == FetchSince(cycle[i].since) IN
                                 cycle'[i].page = rows /\ cycle'[i].todo = rows
  <1> DEFINE rows == FetchSince(cycle[i].since)
             new  == [cycle[i] EXCEPT !.page = rows, !.todo = rows, !.seen = TRUE]
  <1>1. \/ cycle' = [cycle EXCEPT ![i] = new] /\ at' = [at EXCEPT ![i] = "rows"]
        \/ cycle' = cycle /\ at' = [at EXCEPT ![i] = "advance"]
    BY DEF FetchPage, GoTo
  <1>2. /\ new.began = cycle[i].began /\ new.since = cycle[i].since
        /\ new.top = cycle[i].top /\ new.page = rows /\ new.todo = rows
    <2> HIDE DEF rows
    <2> QED BY DEF IngesterTypeOK, Cycle
  <1> HIDE DEF new, rows
  <1> QED BY <1>1, <1>2 DEF FetchPage, IngesterTypeOK, InCycle, rows

(* A page turned moves the cursor of its cycle to one of its rows at most. *)
LEMMA PageTurned ==
    ASSUME IngesterTypeOK, NEW i \in Ingesters, EndPage(i)
    PROVE  \E m \in cycle[i].page :
             /\ m \in visible
             /\ \/ at' = [at EXCEPT ![i] = "advance"]
                \/ at' = [at EXCEPT ![i] = "fetch"] /\ cycle'[i].since = created[m]
             /\ cycle'[i].since \in {cycle[i].since, created[m]}
             /\ cycle'[i].began = cycle[i].began
             /\ cycle'[i].top.ts \in {cycle[i].top.ts, created[m]}
             /\ \A j \in Ingesters \ {i} : cycle'[j] = cycle[j]
  <1>1. PICK m \in cycle[i].page : TurnPage(i, CursorOf(m))
    BY DEF EndPage
  <1> DEFINE c == cycle[i]
             max == CursorOf(m)
  <1>2. c \in Cycle /\ m \in visible /\ max \in Cursor /\ max.ts = created[m]
    BY CursorOfType DEF IngesterTypeOK, CursorOf
  <1>3. Further(c, max).ts \in {c.top.ts, created[m]}
    BY <1>2 DEF Further
  <1>4. /\ LastPage(c, max).since = c.since
        /\ LastPage(c, max).began = c.began
        /\ LastPage(c, max).top = Further(c, max)
    BY <1>2 DEF LastPage, Cycle
  <1>5. /\ FullPage(c, max).since = max.ts
        /\ FullPage(c, max).began = c.began
        /\ FullPage(c, max).top = Further(c, max)
    BY <1>2, <1>4, PageTurnedType DEF FullPage, LastPage, Cycle
  <1> HIDE DEF max
  <1>6. \/ at' = [at EXCEPT ![i] = "advance"] /\ cycle' = [cycle EXCEPT ![i] = LastPage(c, max)]
        \/ at' = [at EXCEPT ![i] = "fetch"] /\ cycle' = [cycle EXCEPT ![i] = FullPage(c, max)]
    BY <1>1 DEF TurnPage, GoTo, max
  <1> QED BY <1>2, <1>3, <1>4, <1>5, <1>6 DEF IngesterTypeOK

(* The constants are numbers. *)
LEMMA Widths == {Overlap, Latency, CycleTime} \subseteq Nat
  BY IngesterAssumption

(* Leaving a cycle, one way or the other, starts none. *)
LEMMA NextCycleIdle ==
    ASSUME IngesterTypeOK, NEW i \in Ingesters, Leave(i) \/ Rest(i)
    PROVE  /\ ~InCycle(i)'
           /\ \A j \in Ingesters \ {i} : at'[j] = at[j] /\ cycle'[j] = cycle[j]
  BY DEF Leave, Rest, GoTo, InCycle, IngesterTypeOK

(* The clock keeps its bounds. *)
LEMMA TimelyStep ==
    ASSUME IngesterTypeOK, Timely, [Next]_vars
    PROVE  Timely'
  <1> USE Widths DEF Timely, GoTo, source, tables, processes, Fault
  <1>1. CASE Tick
    BY <1>1 DEF Tick, IngesterTypeOK, InCycle, Cursor, Cycle
  <1>2. ASSUME NEW r \in Rows, RowCommits(r) PROVE Timely'
    BY <1>2 DEF RowCommits, IngesterTypeOK, InCycle
  <1>3. ASSUME NEW i \in Ingesters, Start(i) PROVE Timely'
    <2>1. \A j \in Ingesters : InCycle(j)' => InCycle(j)
      BY <1>3 DEF Start, IngesterTypeOK, InCycle
    <2>2. watermark' = Origin \/ watermark' = watermark
      BY <1>3 DEF Start
    <2>3. watermark' # Unset => watermark'.ts <= now
      BY <2>2 DEF Origin, IngesterTypeOK
    <2>4. watermark # Unset => watermark' # Unset
      BY <2>2, IngesterAssumption DEF Origin
    <2> QED BY <1>3, <2>1, <2>3, <2>4 DEF Start
  <1>4. ASSUME NEW i \in Ingesters, SeedCursor(i) PROVE Timely'
    <2>1. \A j \in Ingesters : ~InCycle(j)'
      BY <1>4, NextCycleIdle DEF SeedCursor, NextCycle, InCycle
    <2> QED BY <1>4, <2>1 DEF SeedCursor, IngesterTypeOK
  <1>5. ASSUME NEW i \in Ingesters, BeginCycle(i) PROVE Timely'
    BY <1>5 DEF BeginCycle, IngesterTypeOK, InCycle, CycleFrom
  <1>6. ASSUME NEW i \in Ingesters, FetchPage(i) PROVE Timely'
    BY <1>6, PageFetched DEF FetchPage, InCycle
  <1>7. ASSUME NEW i \in Ingesters, QuarantineRow(i) PROVE Timely'
    BY <1>7 DEF QuarantineRow, IngesterTypeOK, InCycle, Cycle
  <1>8. ASSUME NEW i \in Ingesters, EnqueueRow(i) PROVE Timely'
    BY <1>8 DEF EnqueueRow, IngesterTypeOK, InCycle, Cycle
  <1>9. ASSUME NEW i \in Ingesters, EndPage(i) PROVE Timely'
    BY <1>9, PageTurned DEF EndPage, IngesterTypeOK, InCycle
  <1>10. ASSUME NEW i \in Ingesters, Advance(i) PROVE Timely'
    <2>1. watermark' = watermark \/ watermark' = cycle[i].top
      BY <1>10 DEF Advance, AdvanceCursor
    <2>2. watermark # Unset /\ cycle[i].top.ts <= now
      BY <1>10 DEF Advance, InCycle
    <2>3. watermark' # Unset /\ watermark'.ts <= now
      BY <2>1, <2>2, IngesterAssumption DEF IngesterTypeOK, Cycle, Cursor
    <2>4. Leave(i) \/ Rest(i)
      BY <1>10 DEF Advance, NextCycle
    <2> QED BY <1>10, <2>3, <2>4, NextCycleIdle DEF Advance, InCycle
  <1>11. ASSUME NEW i \in Ingesters, Exit(i) \/ CycleFails(i) \/ Crash(i) PROVE Timely'
    BY <1>11, NextCycleIdle DEF Exit, CycleFails, Crash, NextCycle, InCycle
  <1>12. ASSUME NEW i \in Ingesters, Signal(i) \/ LoseLock(i) PROVE Timely'
    BY <1>12 DEF Signal, LoseLock, InCycle
  <1>13. CASE UNCHANGED vars
    BY <1>13 DEF vars, InCycle
  <1> QED BY <1>1, <1>2, <1>3, <1>4, <1>5, <1>6, <1>7, <1>8, <1>9, <1>10, <1>11, <1>12,
             <1>13 DEF Next, IngesterStep, IngesterFault
-----------------------------------------------------------------------------
(* The cursor and all the cycles under way leave a promised row r that has *)
(* not landed to be read again.                                            *)
Safe(r) ==
    Promised(r) /\ ~Landed(r) =>
        /\ watermark # Unset => watermark.ts - Overlap <= created[r]
        /\ \A i \in Ingesters : InCycle(i) => InReach(i, r)

(* Every row is safe exactly if the two invariants about rows hold. *)
LEMMA SafeIsReach ==
    ASSUME IngesterTypeOK
    PROVE  (\A r \in Rows : Safe(r)) <=> NoneLeftBehind /\ CyclesReach
  <1>1. \A r \in Rows : watermark # Unset =>
            (watermark.ts - Overlap <= created[r] <=> ~(created[r] < watermark.ts - Overlap))
    BY Widths DEF IngesterTypeOK, Cursor
  <1> QED BY <1>1 DEF Safe, NoneLeftBehind, CyclesReach

(* A step that writes neither the source, the cursor, what is promised nor *)
(* the locals of a cycle keeps every row safe.                             *)
LEMMA SafeUntouched ==
    ASSUME NEW r \in Rows, Safe(r), UNCHANGED <<created, visible, watermark, promised>>,
           jobs \subseteq jobs', quarantine \subseteq quarantine',
           \A j \in Ingesters : InCycle(j)' =>
               InCycle(j) /\ at'[j] = at[j] /\ cycle'[j] = cycle[j]
    PROVE  Safe(r)'
  BY DEF Safe, Promised, Landed, InReach

(* Every step keeps a row safe. *)
LEMMA SafeStep ==
    ASSUME IngesterTypeOK, IngesterTypeOK', Timely, Timely', WideOverlap, BackfillAlone,
           NEW r \in Rows, Safe(r), [Next]_vars
    PROVE  Safe(r)'
  <1> USE DEF source, tables, processes, Fault
  <1>1. CASE Tick
    BY <1>1, SafeUntouched DEF Tick, InCycle
  <1>2. ASSUME NEW q \in Rows, RowCommits(q) PROVE Safe(r)'
    <2>1. CASE r # q
      <3>1. created'[r] = created[r] /\ (Promised(r)' <=> Promised(r)) /\ (Landed(r)' <=> Landed(r))
        BY <1>2, <2>1 DEF RowCommits, IngesterTypeOK, Promised, Landed
      <3>2. \A i \in Ingesters : \A p \in cycle[i].page : created'[p] = created[p]
        BY <1>2 DEF RowCommits, IngesterTypeOK
      <3>3. \A i \in Ingesters : InReach(i, r) => InReach(i, r)'
        BY <1>2, <3>1, <3>2 DEF RowCommits, InReach
      <3> QED BY <1>2, <3>1, <3>3 DEF RowCommits, Safe, InCycle
    <2>2. CASE r = q
      <3>1. created'[r] \in Nat /\ now <= created'[r] + Latency
        BY <1>2, <2>2, Widths DEF RowCommits, IngesterTypeOK
      <3>2. watermark # Unset => watermark.ts <= now /\ watermark.ts \in Int
        BY DEF Timely, IngesterTypeOK, Cursor
      <3>3. watermark' # Unset => watermark'.ts - Overlap <= created'[r]
        BY <1>2, <3>1, <3>2, Widths DEF RowCommits, WideOverlap, IngesterTypeOK
      <3>4. ASSUME NEW i \in Ingesters, InCycle(i) PROVE InReach(i, r)'
        <4>1. /\ cycle[i].began \in Nat /\ cycle[i].top.ts \in Int
              /\ cycle[i].began <= now /\ cycle[i].top.ts <= now
          BY <3>4 DEF Timely, IngesterTypeOK, Cycle, Cursor
        <4>2. ~(cycle[i].began > created'[r] + Latency) /\ cycle[i].top.ts <= created'[r] + Overlap
          BY <3>1, <4>1, Widths DEF WideOverlap, IngesterTypeOK
        <4> QED BY <1>2, <4>2 DEF RowCommits, InReach
      <3> QED BY <1>2, <3>3, <3>4 DEF RowCommits, Safe, InCycle
    <2> QED BY <2>1, <2>2
  <1>3. ASSUME NEW i \in Ingesters, Start(i) PROVE Safe(r)'
    <2>1. \A j \in Ingesters : InCycle(j)' =>
              j # i /\ InCycle(j) /\ at'[j] = at[j] /\ cycle'[j] = cycle[j]
      BY <1>3 DEF Start, GoTo, IngesterTypeOK, InCycle
    <2>2. CASE UNCHANGED <<watermark, promised>>
      BY <1>3, <2>1, <2>2, SafeUntouched DEF Start
    <2>3. CASE mode'[i] = "backfill" /\ watermark' = Origin
      <3>1. \A j \in Ingesters : j = i
        <4>1. mode'[i] \in Modes
          BY <1>3 DEF Start, IngesterTypeOK
        <4> QED BY <2>3, <4>1 DEF BackfillAlone
      <3>2. watermark'.ts - Overlap <= created'[r]
        BY <1>3, <2>3, Widths DEF Start, Origin, IngesterTypeOK
      <3> QED BY <2>1, <3>1, <3>2 DEF Safe
    <2> QED BY <1>3, <2>2, <2>3 DEF Start
  <1>4. ASSUME NEW i \in Ingesters, SeedCursor(i) PROVE Safe(r)'
    <2>1. \A j \in Ingesters : ~InCycle(j)'
      BY <1>4, NextCycleIdle DEF SeedCursor, NextCycle, InCycle, Timely
    <2>2. Promised(r)' => watermark'.ts - Overlap <= created'[r]
      BY <1>4, Widths DEF SeedCursor, Promised, IngesterTypeOK
    <2> QED BY <2>1, <2>2 DEF Safe
  <1>5. ASSUME NEW i \in Ingesters, BeginCycle(i) PROVE Safe(r)'
    <2>1. \A j \in Ingesters : InCycle(j)' => j = i \/ (InCycle(j) /\ at'[j] = at[j] /\ cycle'[j] = cycle[j])
      BY <1>5 DEF BeginCycle, GoTo, IngesterTypeOK, InCycle
    <2>2. cycle'[i] = CycleFrom(now, watermark) /\ at'[i] = "fetch"
      BY <1>5 DEF BeginCycle, GoTo, IngesterTypeOK
    <2>3. ASSUME watermark.ts - Overlap <= created[r] PROVE InReach(i, r)'
      <3>1. watermark.ts \in Int
        BY <1>5 DEF BeginCycle, IngesterTypeOK, Cursor
      <3> QED BY <1>5, <2>2, <2>3, <3>1, Widths DEF BeginCycle, CycleFrom, InReach, IngesterTypeOK
    <2> QED BY <1>5, <2>1, <2>3 DEF BeginCycle, Safe, Promised, Landed, InReach
  <1>6. ASSUME NEW i \in Ingesters, FetchPage(i) PROVE Safe(r)'
    <2>1. ASSUME Promised(r), InReach(i, r) PROVE InReach(i, r)'
      <3>1. r \in visible /\ UNCHANGED created
        BY <1>6, <2>1 DEF Promised, FetchPage
      <3>2. /\ cycle'[i].top = cycle[i].top /\ cycle'[i].began = cycle[i].began
            /\ cycle'[i].since = cycle[i].since
        BY <1>6, PageFetched
      <3>3. ASSUME cycle[i].since <= created[r], at'[i] = "rows"
            PROVE  r \in cycle'[i].todo \/ \A p \in cycle'[i].page : created[p] <= created[r]
        <4>1. created[r] >= cycle[i].since
          BY <3>3 DEF IngesterTypeOK, Cycle
        <4>2. LET rows == FetchSince(cycle[i].since) IN
              r \in rows \/ \A p \in rows : created[p] <= created[r]
          BY <3>1, <4>1, LeftOutComesLater
        <4> QED BY <1>6, <3>3, <4>2, PageFetched
      <3> QED BY <2>1, <3>1, <3>2, <3>3 DEF InReach
    <2>2. UNCHANGED <<watermark, created>> /\ (Promised(r)' <=> Promised(r)) /\ (Landed(r)' <=> Landed(r))
      BY <1>6 DEF FetchPage, Promised, Landed
    <2>3. ASSUME Promised(r), NEW j \in Ingesters, InCycle(j)', InReach(j, r)
          PROVE  InReach(j, r)'
      <3>1. CASE j = i
        BY <2>1, <2>3, <3>1
      <3>2. CASE j # i
        BY <1>6, <2>2, <2>3, <3>2, PageFetched DEF InReach
      <3> QED BY <3>1, <3>2
    <2>4. \A j \in Ingesters : InCycle(j)' => InCycle(j)
      BY <1>6, PageFetched
    <2> QED BY <2>2, <2>3, <2>4 DEF Safe
  <1>7. ASSUME NEW i \in Ingesters, NEW q \in cycle[i].todo,
               jobs' \cup quarantine' = jobs \cup quarantine \cup {q},
               cycle' = [cycle EXCEPT ![i].todo = @ \ {q}],
               UNCHANGED <<created, visible, watermark, promised, at>>
        PROVE  Safe(r)'
    <2>1. \A j \in Ingesters : /\ cycle'[j].top = cycle[j].top /\ cycle'[j].began = cycle[j].began
                              /\ cycle'[j].since = cycle[j].since
                              /\ cycle'[j].page = cycle[j].page
                              /\ \A x \in cycle[j].todo : x \in cycle'[j].todo \/ x = q
      BY <1>7 DEF IngesterTypeOK, Cycle
    <2>2. ~Landed(r)' => ~Landed(r) /\ r # q
      BY <1>7 DEF Landed
    <2>3. \A j \in Ingesters : r # q /\ InReach(j, r) => InReach(j, r)'
      BY <1>7, <2>1 DEF InReach
    <2> QED BY <1>7, <2>2, <2>3 DEF Safe, Promised, InCycle
  <1>8. ASSUME NEW i \in Ingesters, EndPage(i) PROVE Safe(r)'
    <2>1. PICK m \in cycle[i].page :
             /\ m \in visible
             /\ \/ at' = [at EXCEPT ![i] = "advance"]
                \/ at' = [at EXCEPT ![i] = "fetch"] /\ cycle'[i].since = created[m]
             /\ cycle'[i].since \in {cycle[i].since, created[m]}
             /\ cycle'[i].began = cycle[i].began
             /\ cycle'[i].top.ts \in {cycle[i].top.ts, created[m]}
             /\ \A j \in Ingesters \ {i} : cycle'[j] = cycle[j]
      BY <1>8, PageTurned
    <2>2. UNCHANGED <<created, visible, watermark, promised, jobs, quarantine>>
      BY <1>8 DEF EndPage
    <2>3. InCycle(i) /\ cycle[i].todo = {} /\ at[i] = "rows" /\ at'[i] # "rows"
      BY <1>8, <2>1 DEF EndPage, InCycle, IngesterTypeOK
    <2>4. ASSUME InReach(i, r) PROVE InReach(i, r)'
      <3>1. /\ created[r] \in Nat /\ created[m] \in Nat /\ created[m] <= now
            /\ cycle[i].began \in Nat /\ now <= cycle[i].began + CycleTime /\ now \in Nat
        BY <2>1, <2>3 DEF Timely, IngesterTypeOK, Cycle
      <3>2. cycle[i].began > created[r] + Latency => created[m] <= created[r]
        BY <2>3, <2>4 DEF InReach
      <3>3. created[m] <= created[r] + Overlap
        BY <3>1, <3>2, Widths DEF WideOverlap
      <3> QED BY <2>1, <2>2, <2>3, <2>4, <3>2, <3>3 DEF InReach
    <2>5. \A j \in Ingesters \ {i} : at'[j] = at[j]
      BY <2>1 DEF IngesterTypeOK
    <2> QED BY <2>1, <2>2, <2>3, <2>4, <2>5 DEF Safe, Promised, Landed, InReach, InCycle
  <1>9. ASSUME NEW i \in Ingesters, Advance(i) PROVE Safe(r)'
    <2>1. UNCHANGED <<created, visible, promised, jobs, quarantine>> /\ InCycle(i)
      BY <1>9 DEF Advance, InCycle
    <2>2. watermark' = watermark \/ watermark' = cycle[i].top
      BY <1>9 DEF Advance, AdvanceCursor
    <2>3. Leave(i) \/ Rest(i)
      BY <1>9 DEF Advance, NextCycle
    <2>4. \A j \in Ingesters : InCycle(j)' => InCycle(j) /\ at'[j] = at[j] /\ cycle'[j] = cycle[j]
      BY <2>3, NextCycleIdle DEF InCycle
    <2>5. InReach(i, r) => cycle[i].top.ts - Overlap <= created[r]
      BY Widths DEF InReach, IngesterTypeOK, Cycle, Cursor
    <2>6. watermark # Unset
      BY <2>1 DEF Timely
    <2> QED BY <2>1, <2>2, <2>4, <2>5, <2>6 DEF Safe, Promised, Landed, InReach
  <1>10. ASSUME NEW i \in Ingesters, Exit(i) \/ CycleFails(i) \/ Crash(i) PROVE Safe(r)'
    <2>1. Leave(i) \/ Rest(i)
      BY <1>10 DEF Exit, CycleFails, Crash, NextCycle
    <2>2. \A j \in Ingesters : InCycle(j)' => InCycle(j) /\ at'[j] = at[j] /\ cycle'[j] = cycle[j]
      BY <2>1, NextCycleIdle DEF InCycle
    <2> QED BY <1>10, <2>2, SafeUntouched DEF Exit, CycleFails, Crash
  <1>11. ASSUME NEW i \in Ingesters, Signal(i) \/ LoseLock(i) PROVE Safe(r)'
    BY <1>11, SafeUntouched DEF Signal, LoseLock, InCycle
  <1>12. CASE UNCHANGED vars
    BY <1>12, SafeUntouched DEF vars, InCycle
  <1>13. ASSUME NEW i \in Ingesters, QuarantineRow(i) \/ EnqueueRow(i) PROVE Safe(r)'
    <2>1. CASE QuarantineRow(i)
      <3>1. PICK q \in cycle[i].todo : quarantine' = quarantine \cup {q}
                                      /\ cycle' = [cycle EXCEPT ![i].todo = @ \ {q}]
        BY <2>1 DEF QuarantineRow
      <3>2. UNCHANGED <<created, visible, watermark, promised, at, jobs>>
        BY <2>1 DEF QuarantineRow
      <3> QED BY <1>7, <3>1, <3>2
    <2>2. CASE EnqueueRow(i)
      <3>1. PICK q \in cycle[i].todo : jobs' = jobs \cup {q}
                                      /\ cycle' = [cycle EXCEPT ![i].todo = @ \ {q}]
        BY <2>2 DEF EnqueueRow
      <3>2. UNCHANGED <<created, visible, watermark, promised, at, quarantine>>
        BY <2>2 DEF EnqueueRow
      <3> QED BY <1>7, <3>1, <3>2
    <2> QED BY <1>13, <2>1, <2>2
  <1> QED BY <1>1, <1>2, <1>3, <1>4, <1>5, <1>6, <1>8, <1>9, <1>10, <1>11, <1>12,
             <1>13 DEF Next, IngesterStep, IngesterFault

(* ingest/watermark.py:2: with an overlap as long as the longest commit    *)
(* and the longest cycle together, and no live ingester beside a backfill, *)
(* no promised row is ever out of reach of the next cycle, whatever fails, *)
(* dies or loses the lock.                                                 *)
THEOREM NothingLeftBehind ==
    ASSUME WideOverlap, BackfillAlone
    PROVE  Spec => []NoneLeftBehind
  <1>1. Init => ReachInv
    <2> SUFFICES ASSUME Init PROVE ReachInv
      OBVIOUS
    <2>1. IngesterTypeOK
      BY FreshType DEF Init, IngesterTypeOK, Place
    <2> QED BY <2>1 DEF ReachInv, Init, Timely, NoneLeftBehind, CyclesReach, InCycle
  <1>2. ReachInv /\ [Next]_vars => ReachInv'
    <2> SUFFICES ASSUME ReachInv, [Next]_vars PROVE ReachInv'
      OBVIOUS
    <2>1. IngesterTypeOK' /\ Timely'
      BY IngesterTypeOKStep, TimelyStep DEF ReachInv
    <2>2. \A r \in Rows : Safe(r)'
      BY <2>1, SafeIsReach, SafeStep DEF ReachInv
    <2>3. (IngesterTypeOK /\ (\A r \in Rows : Safe(r)) => NoneLeftBehind /\ CyclesReach)'
      BY SafeIsReach, PTL
    <2> QED BY <2>1, <2>2, <2>3 DEF ReachInv
  <1>3. ReachInv => NoneLeftBehind
    BY DEF ReachInv
  <1> QED BY <1>1, <1>2, <1>3, PTL DEF Spec
=============================================================================

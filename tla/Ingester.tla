------------------------------ MODULE Ingester ------------------------------
(***************************************************************************)
(* The poll cycle of ingest/ingester.py: rows of a foreign table are read  *)
(* page by page from a durable cursor (ingest/watermark.py), mapped, put   *)
(* into quarantine or enqueued, and only then is the cursor advanced.      *)
(* Rows become visible late, cycles fail and crash, and the advisory lock  *)
(* that keeps a second ingester out can be lost unnoticed.                 *)
(***************************************************************************)
EXTENDS Integers, FiniteSets

CONSTANTS
    Rows,         \* rows that may appear in the source table
    IdOrder,      \* rank of a row's id in the ORDER BY of the source
    TextOrder,    \* rank of str(id), which cursors are compared by
    Malformed,    \* rows that map_row refuses
    Ingesters,    \* processes
    Modes,        \* modes an ingester is started in: live, once, backfill
    Batch,        \* settings.INGEST_BATCH
    MaxPages,     \* settings.INGEST_MAX_CYCLE_PAGES
    Overlap,      \* settings.INGEST_OVERLAP_MIN
    Latency,      \* longest time from created_at to the commit of a row
    CycleTime,    \* longest time a cycle takes
    MaxTime,      \* bound on the clock
    MaxFaults,    \* bound on errors, crashes, signals and lost locks
    Nobody, Unset

ASSUME IngesterAssumption ==
    /\ IsFiniteSet(Rows)
    /\ IdOrder \in [Rows -> Nat \ {0}] /\ TextOrder \in [Rows -> Nat \ {0}]
    /\ \A r, q \in Rows : IdOrder[r] = IdOrder[q] \/ TextOrder[r] = TextOrder[q] => r = q
    /\ Malformed \subseteq Rows
    /\ Modes \subseteq {"live", "once", "backfill"}
    /\ Batch \in Nat \ {0} /\ MaxPages \in Nat \ {0}
    /\ {Overlap, Latency, CycleTime, MaxTime, MaxFaults} \subseteq Nat
    /\ Nobody \notin Ingesters
    /\ Unset \notin [ts : Int, id : Nat]

VARIABLES
    \* the source table and the clock
    now, created, visible,
    \* the tables of this system
    watermark,      \* ingest_watermarks: a cursor, or Unset
    jobs,           \* rows enqueued
    quarantine,     \* rows in ingest_quarantine
    lock,           \* holder of the advisory lock
    \* the processes
    at, mode, stopping,
    cycle,          \* locals of run_cycle
    \* history
    promised,       \* created_at from which on rows are to be ingested
    faults

source    == <<now, created, visible>>
tables    == <<watermark, jobs, quarantine>>
processes == <<at, mode, stopping, cycle>>
vars      == <<source, tables, lock, processes, promised, faults>>

Cursor == [ts : Int, id : Nat]
Cycle  == [began : Nat, base : Cursor, since : Int, top : Cursor, last : Cursor \cup {Unset},
           pages : Nat, page : SUBSET Rows, todo : SUBSET Rows, seen : BOOLEAN]

Origin == [ts |-> 0, id |-> 0]

(* Mutant: the fetch starts at the cursor, without the overlap. *)
CycleFromCursor(t, wm) ==
    [began |-> t, base |-> wm, since |-> wm.ts, top |-> wm, last |-> Unset,
     pages |-> 0, page |-> {}, todo |-> {}, seen |-> FALSE]

(* The locals of a cycle that begins at time t with cursor wm. *)
CycleFrom(t, wm) ==
    [began |-> t, base |-> wm, since |-> wm.ts - Overlap, top |-> wm, last |-> Unset,
     pages |-> 0, page |-> {}, todo |-> {}, seen |-> FALSE]

Fresh == CycleFrom(0, Origin)

Place     == {"down", "idle", "fetch", "rows", "advance"}
InCycle(i) == at[i] \in {"fetch", "rows", "advance"}

IngesterTypeOK ==
    /\ now \in Nat /\ faults \in Nat
    /\ created \in [Rows -> Nat]
    /\ visible \subseteq Rows
    /\ watermark \in Cursor \cup {Unset}
    /\ jobs \subseteq visible /\ quarantine \subseteq visible
    /\ lock \in Ingesters \cup {Nobody}
    /\ at \in [Ingesters -> Place]
    /\ mode \in [Ingesters -> {"live", "once", "backfill"}]
    /\ stopping \in [Ingesters -> BOOLEAN]
    /\ cycle \in [Ingesters -> Cycle]
    /\ promised \in Nat \cup {Unset}
    /\ \A i \in Ingesters : cycle[i].todo \subseteq cycle[i].page /\ cycle[i].page \subseteq visible

Init ==
    /\ now = 0 /\ faults = 0
    /\ created = [r \in Rows |-> 0]
    /\ visible = {}
    /\ watermark = Unset
    /\ jobs = {} /\ quarantine = {}
    /\ lock = Nobody
    /\ at = [i \in Ingesters |-> "down"]
    /\ mode = [i \in Ingesters |-> "live"]
    /\ stopping = [i \in Ingesters |-> FALSE]
    /\ cycle = [i \in Ingesters |-> Fresh]
    /\ promised = Unset

-----------------------------------------------------------------------------
(* Tuples (created_at, str(id)) in Python's order. *)
Above(a, b) == a.ts > b.ts \/ (a.ts = b.ts /\ a.id > b.id)
CursorOf(r) == [ts |-> created[r], id |-> TextOrder[r]]

(* ORDER BY created_at, id of the source. *)
Earlier(r, q) ==
    created[r] < created[q] \/ (created[r] = created[q] /\ IdOrder[r] < IdOrder[q])

(* fetch_since: WHERE created_at >= since ORDER BY ... LIMIT Batch. *)
FetchSince(since) ==
    LET found == {r \in visible : created[r] >= since}
    IN  {r \in found : Cardinality({q \in found : Earlier(q, r)}) < Batch}

IsMax(m, S) == m \in S /\ \A r \in S : ~Above(CursorOf(r), CursorOf(m))

Fault == faults < MaxFaults /\ faults' = faults + 1

GoTo(i, p) == at' = [at EXCEPT ![i] = p]

-----------------------------------------------------------------------------
(* The world: time passes, and a row becomes visible some time after its   *)
(* created_at.                                                             *)
Tick ==
    /\ now < MaxTime
    /\ \A i \in Ingesters : InCycle(i) => now - cycle[i].began < CycleTime
    /\ now' = now + 1
    /\ UNCHANGED <<created, visible, tables, lock, processes, promised, faults>>

RowCommits(r) ==
    /\ r \notin visible
    /\ \E t \in {n \in 0..now : now - n <= Latency} : created' = [created EXCEPT ![r] = t]
    /\ visible' = visible \cup {r}
    /\ UNCHANGED <<now, tables, lock, processes, promised, faults>>

(* run(): the lock is tried once; the loser exits.  A backfill with --from *)
(* rewinds the cursor.                                                     *)
Start(i) ==
    /\ at[i] = "down" /\ lock = Nobody
    /\ lock' = i
    /\ GoTo(i, "idle")
    /\ \E m \in Modes : mode' = [mode EXCEPT ![i] = m]
    /\ \/ mode'[i] = "backfill" /\ watermark' = Origin /\ promised' = 0
       \/ UNCHANGED <<watermark, promised>>
    /\ UNCHANGED <<source, jobs, quarantine, stopping, cycle, faults>>

(* The finally block of run(). *)
Leave(i) ==
    /\ GoTo(i, "down")
    /\ lock' = IF lock = i THEN Nobody ELSE lock
    /\ stopping' = [stopping EXCEPT ![i] = FALSE]
    /\ cycle' = [cycle EXCEPT ![i] = Fresh]

(* Until INGEST_INTERVAL is over. *)
Rest(i) ==
    /\ GoTo(i, "idle")
    /\ cycle' = [cycle EXCEPT ![i] = Fresh]
    /\ UNCHANGED <<lock, stopping>>

(* After a cycle: --once stops, so does a backfill (over) that saw no row  *)
(* and no error; any other ingester waits for its next cycle.              *)
NextCycle(i, over) ==
    IF mode[i] = "once" \/ (mode[i] = "backfill" /\ over) THEN Leave(i) ELSE Rest(i)

(* The first cycle ever only seeds the cursor with the current time. *)
SeedCursor(i) ==
    /\ at[i] = "idle" /\ ~stopping[i]
    /\ watermark = Unset
    /\ watermark' = [ts |-> now, id |-> 0]
    /\ promised' = now
    /\ NextCycle(i, TRUE)
    /\ UNCHANGED <<source, jobs, quarantine, mode, faults>>

BeginCycle(i) ==
    /\ at[i] = "idle" /\ ~stopping[i]
    /\ watermark # Unset
    /\ cycle' = [cycle EXCEPT ![i] = CycleFrom(now, watermark)]
    /\ GoTo(i, "fetch")
    /\ UNCHANGED <<source, tables, lock, mode, stopping, promised, faults>>

(* One more page, unless the page cap, a signal or the end of the table    *)
(* stops the loop.                                                         *)
FetchPage(i) ==
    LET rows == FetchSince(cycle[i].since)
        more == cycle[i].pages < MaxPages /\ ~stopping[i] /\ rows # {}
    IN
    /\ at[i] = "fetch"
    /\ IF more
       THEN /\ cycle' = [cycle EXCEPT ![i] = [@ EXCEPT !.page = rows, !.todo = rows,
                                                           !.seen = TRUE]]
            /\ GoTo(i, "rows")
       ELSE GoTo(i, "advance") /\ UNCHANGED cycle
    /\ UNCHANGED <<source, tables, lock, mode, stopping, promised, faults>>

(* Each row is one statement: the malformed ones go to the quarantine as   *)
(* the page is mapped, the others are enqueued after that, in order.       *)
First(r, S) == r \in S /\ \A q \in S : ~Earlier(q, r)

QuarantineRow(i) ==
    /\ at[i] = "rows"
    /\ \E r \in cycle[i].todo \cap Malformed :
          /\ First(r, cycle[i].todo \cap Malformed)
          /\ quarantine' = quarantine \cup {r}
          /\ cycle' = [cycle EXCEPT ![i].todo = @ \ {r}]
    /\ UNCHANGED <<source, watermark, jobs, lock, at, mode, stopping, promised, faults>>

EnqueueRow(i) ==
    /\ at[i] = "rows"
    /\ cycle[i].todo \cap Malformed = {}
    /\ \E r \in cycle[i].todo :
          /\ First(r, cycle[i].todo)
          /\ jobs' = jobs \cup {r}
          /\ cycle' = [cycle EXCEPT ![i].todo = @ \ {r}]
    /\ UNCHANGED <<source, watermark, quarantine, lock, at, mode, stopping, promised, faults>>

(* The cursor of the cycle moves to the page's maximum if that is further. *)
(* The next page starts at that maximum's created_at, unless this page was *)
(* short or its maximum is no further than that of the page before.        *)
Further(c, max) == IF Above(max, c.top) THEN max ELSE c.top

LastPage(c, max) == [c EXCEPT !.top = Further(c, max), !.page = {}]
FullPage(c, max) ==
    [LastPage(c, max) EXCEPT !.last = max, !.since = max.ts, !.pages = c.pages + 1]

(* Mutant: a full page is taken for the last one. *)
TailReachedShort(c, max) ==
    \/ Cardinality(c.page) <= Batch
    \/ c.last # Unset /\ ~Above(max, c.last)

TailReached(c, max) ==
    \/ Cardinality(c.page) < Batch
    \/ c.last # Unset /\ ~Above(max, c.last)

TurnPage(i, max) ==
    LET c == cycle[i] IN
    \/ /\ TailReached(c, max)
       /\ cycle' = [cycle EXCEPT ![i] = LastPage(c, max)]
       /\ GoTo(i, "advance")
    \/ /\ ~TailReached(c, max)
       /\ cycle' = [cycle EXCEPT ![i] = FullPage(c, max)]
       /\ GoTo(i, "fetch")

(* The page is done once every row of it is. *)
EndPage(i) ==
    /\ at[i] = "rows" /\ cycle[i].todo = {}
    /\ \E m \in cycle[i].page : IsMax(m, cycle[i].page) /\ TurnPage(i, CursorOf(m))
    /\ UNCHANGED <<source, tables, lock, mode, stopping, promised, faults>>

(* Mutant: the UPDATE lost its guard. *)
AdvanceCursorAnyway(i) ==
    LET top == cycle[i].top IN
    watermark' = IF Above(top, cycle[i].base) THEN top ELSE watermark

(* The guarded UPDATE of watermark.advance: live mode never goes back. *)
AdvanceCursor(i) ==
    LET top == cycle[i].top IN
    watermark' = IF /\ Above(top, cycle[i].base)
                    /\ mode[i] = "backfill" \/ Above(top, watermark)
                 THEN top ELSE watermark

Advance(i) ==
    /\ at[i] = "advance"
    /\ AdvanceCursor(i)
    /\ NextCycle(i, ~cycle[i].seen)
    /\ UNCHANGED <<source, jobs, quarantine, mode, promised, faults>>

Exit(i) ==
    /\ at[i] = "idle" /\ stopping[i]
    /\ Leave(i)
    /\ UNCHANGED <<source, tables, mode, promised, faults>>

(* A statement or a fetch raises: the cycle ends, the cursor stays. *)
CycleFails(i) ==
    /\ InCycle(i)
    /\ NextCycle(i, FALSE)
    /\ Fault
    /\ UNCHANGED <<source, tables, mode, promised>>

Signal(i) ==
    /\ at[i] # "down" /\ ~stopping[i]
    /\ stopping' = [stopping EXCEPT ![i] = TRUE]
    /\ Fault
    /\ UNCHANGED <<source, tables, lock, at, mode, cycle, promised>>

(* The process dies, and the server drops the lock of its session ... *)
Crash(i) ==
    /\ at[i] # "down"
    /\ Leave(i)
    /\ Fault
    /\ UNCHANGED <<source, tables, mode, promised>>

(* ... or only that connection dies: nothing in the loop looks at it again. *)
LoseLock(i) ==
    /\ lock = i
    /\ lock' = Nobody
    /\ Fault
    /\ UNCHANGED <<source, tables, processes, promised>>

IngesterStep(i) ==
    \/ Start(i) \/ SeedCursor(i) \/ BeginCycle(i) \/ FetchPage(i) \/ QuarantineRow(i)
    \/ EnqueueRow(i) \/ EndPage(i) \/ Advance(i) \/ Exit(i)

IngesterFault(i) == CycleFails(i) \/ Signal(i) \/ Crash(i) \/ LoseLock(i)

Next ==
    \/ Tick
    \/ \E r \in Rows : RowCommits(r)
    \/ \E i \in Ingesters : IngesterStep(i) \/ IngesterFault(i)

Spec == Init /\ [][Next]_vars

(* The process is kept running by its supervisor. *)
FairSpec == Spec /\ \A i \in Ingesters : WF_vars(IngesterStep(i))

-----------------------------------------------------------------------------
Landed(r)   == r \in jobs \cup quarantine
Promised(r) == r \in visible /\ promised # Unset /\ created[r] >= promised

(* ingest/watermark.py:2, a cursor "advanced ONLY after a batch is safely  *)
(* enqueued": whatever fails or dies half way through a cycle, the cursor  *)
(* is never so far that the next overlap window would leave a row behind   *)
(* that is neither queued nor in quarantine.                               *)
NoneLeftBehind ==
    watermark # Unset =>
        \A r \in Rows : Promised(r) /\ created[r] < watermark.ts - Overlap => Landed(r)

(* ingest/watermark.py:4, "The cursor never moves backward in live mode",  *)
(* even when the lock is lost and two ingesters are at work.               *)
ForwardStep ==
    watermark # Unset /\ (\A i \in Ingesters : mode'[i] # "backfill")
    => watermark' = watermark \/ Above(watermark', watermark)

CursorForward == [][ForwardStep]_vars

(* docs/INGESTION.md:150, "a row is never missed": what was promised lands *)
(* once faults end, where no second of the source holds a full page of     *)
(* rows (such a page is fetched again and again).                          *)
Crowded == \E r \in visible : Cardinality({q \in visible : created[q] = created[r]}) >= Batch
RowsLandUnlessCrowded == \A r \in Rows : Promised(r) ~> Landed(r) \/ Crowded
=============================================================================

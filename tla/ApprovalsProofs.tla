------------------------- MODULE ApprovalsProofs ---------------------------
(***************************************************************************)
(* Proofs about Approvals, for any number of requests, re-verifications,   *)
(* workers, leads and faults: types; the receiver file follows the         *)
(* decisions; result and job tell the same verdict; a verified lead is     *)
(* justified by the file; an approval covers the leads of its payee.       *)
(***************************************************************************)
EXTENDS Approvals, TLAPS

Doing   == {"idle", "verify", "save", "complete"}
Scans   == {"check", "write", "job"}
Places  == {"idle", "candidates", "teach", "reload", "rules", "fetch", "record"} \cup Scans
Choices == {"approved", "rejected"}

\* Config, tables, workers, requests and scans apart.
ConfigOK == /\ file \in SUBSET Names /\ lists \in [Processes -> SUBSET Names]
            /\ rules \in BOOLEAN /\ lock \in Admins \cup {None}
TablesOK == /\ decision \in [Names -> {"none", "approved", "rejected"}]
            /\ result \in [Leads -> Rows] /\ job \in [Leads -> Verdicts]
            /\ done \in SUBSET Leads
\* A result is one of a document, and so is what a worker has in hand.
ResultsFull == \A l \in Leads : result[l].status # "none" => result[l].doc \in Document
WorkersFull ==
    \A w \in Workers : wpc[w] # "idle" =>
        /\ wlead[w] \in Leads /\ wrow[w].doc \in Document
        /\ wpc[w] # "verify" => wrow[w].status # "none"
WorkOK   == /\ wpc \in [Workers -> Doing] /\ wlead \in [Workers -> Leads \cup {None}]
            /\ wrow \in [Workers -> Rows]
\* A request is about a name.
AsksFull == \A a \in Admins : apc[a] # "idle" => pair[a] \in Names
AskOK    == /\ apc \in [Actors -> Places]
            /\ pair \in [Admins -> Names \cup {None}] /\ choice \in [Admins -> Choices]
\* The rows of a scan are results: what is left to do, and what is in hand.
ScansFull ==
    \A a \in Actors : apc[a] \in Scans =>
        /\ \A l \in todo[a] : rows[a][l].doc \in Document /\ result[l].status # "none"
        /\ apc[a] # "check" => /\ cur[a] \in Leads /\ next[a].status # "none"
                               /\ result[cur[a]].status # "none"
ScanOK   == /\ rows \in [Actors -> [Leads -> Rows]] /\ todo \in [Actors -> SUBSET Leads]
            /\ cur \in [Actors -> Leads \cup {None}] /\ next \in [Actors -> Rows]
CountOK  == runs \in 0 .. MaxRuns /\ asks \in 0 .. MaxAsks /\ faults \in 0 .. MaxFaults
PastOK   == mixed \in SUBSET Leads /\ missed \in SUBSET Leads /\ contested \in SUBSET Names

FullOK   == ResultsFull /\ WorkersFull /\ AsksFull /\ ScansFull
PartsOK  == ConfigOK /\ TablesOK /\ WorkOK /\ AskOK /\ ScanOK /\ CountOK /\ PastOK /\ FullOK

LEMMA PartsAreTypes == PartsOK => ApprovalsTypeOK
BY DEF PartsOK, ApprovalsTypeOK, ConfigOK, TablesOK, WorkOK, AskOK, ScanOK, CountOK, PastOK,
       Doing, Places, Scans, Choices

LEMMA Apart == /\ Admins \cap Tools = {} /\ None \notin Leads /\ None \notin Names
               /\ None \notin Document
BY ApprovalsAssumption

LEMMA NoRowTypes == NoRow \in Rows /\ NoRows \in [Leads -> Rows] /\ NoRow.status = "none"
BY DEF NoRow, NoRows, Rows, Verdicts

\* The verdict about a document is a row of it.
LEMMA VerdictTypes ==
    ASSUME NEW d \in Document, NEW allow
    PROVE  /\ Status(d, allow) \in {"verified", "unverified"}
           /\ FailedFields(d, allow) \in SUBSET Failures
           /\ Row(d, allow) \in Rows /\ Row(d, allow).doc = d /\ Row(d, allow).status # "none"
<1>1. d.wrong \in SUBSET Fields /\ d.incoming \in BOOLEAN /\ d.flagged \in BOOLEAN
  BY DEF Document
<1>2. Status(d, allow) \in {"verified", "unverified"}
  BY DEF Status
<1>3. FailedFields(d, allow) \in SUBSET Failures
  BY <1>1 DEF FailedFields, Failed, Failures
<1>4. PICK s \in {"verified", "unverified"}, f \in SUBSET Failures :
          Row(d, allow) = [doc |-> d, status |-> s, failed |-> f]
  BY <1>1, <1>2, <1>3 DEF Row
<1> QED BY <1>2, <1>3, <1>4 DEF Rows, Verdicts

LEMMA InitTypes == Init => PartsOK
<1> SUFFICES ASSUME Init PROVE PartsOK
  OBVIOUS
<1>1. ConfigOK /\ CountOK /\ PastOK
  BY ApprovalsAssumption DEF Init, ConfigOK, CountOK, PastOK
<1>2. TablesOK /\ WorkOK /\ AskOK /\ ScanOK
  BY NoRowTypes DEF Init, TablesOK, WorkOK, AskOK, ScanOK, Verdicts, Doing, Places, Choices
<1>3. FullOK
  BY NoRowTypes DEF Init, FullOK, ResultsFull, WorkersFull, AsksFull, ScansFull, Scans, Actors
<1> QED BY <1>1, <1>2, <1>3 DEF PartsOK

\* Nobody's part of FullOK is disturbed by others: results stay results.
LEMMA ScansKeep ==
    ASSUME ScansFull, UNCHANGED scan,
           \A a \in Actors : apc'[a] = apc[a] \/ apc'[a] \notin Scans,
           \A l \in Leads : result[l].status # "none" => result'[l].status # "none",
           ScanOK
    PROVE  ScansFull'
BY DEF ScansFull, scan, ScanOK

LEMMA ReleaseTypes ==
    ASSUME WorkOK, WorkersFull, NEW ws, Release(ws)
    PROVE  WorkOK' /\ WorkersFull'
BY NoRowTypes DEF WorkOK, WorkersFull, Release, Doing

\* A worker's step.
LEMMA WorkerTypes ==
    ASSUME PartsOK, NEW w \in Workers, WorkerStep(w)
    PROVE  PartsOK'
<1> USE DEF PartsOK, FullOK
<1>q. /\ UNCHANGED <<config, actor>> => ConfigOK' /\ AskOK' /\ AsksFull' /\ ScanOK'
      /\ UNCHANGED <<actor, result>> => ScansFull'
      /\ UNCHANGED tables => TablesOK' /\ ResultsFull'
      /\ UNCHANGED history => PastOK'
      /\ UNCHANGED bounds => CountOK'
  <2>1. UNCHANGED <<config, actor>> => ConfigOK' /\ AskOK' /\ AsksFull' /\ ScanOK'
    BY DEF config, actor, request, scan, ConfigOK, AskOK, AsksFull, ScanOK
  <2>2. UNCHANGED <<actor, result>> => ScansFull'
    BY DEF actor, request, scan, ScansFull
  <2>3. UNCHANGED tables => TablesOK' /\ ResultsFull'
    BY DEF tables, TablesOK, ResultsFull
  <2>4. UNCHANGED history => PastOK'
    BY DEF history, PastOK
  <2>5. UNCHANGED bounds => CountOK'
    BY DEF bounds, CountOK
  <2> QED BY <2>1, <2>2, <2>3, <2>4, <2>5
<1>1. ASSUME NEW l \in Leads, NEW d \in Docs, Extract(w, l, d) PROVE PartsOK'
  <2>1. d \in Document /\ [NoRow EXCEPT !.doc = d] \in Rows /\ [NoRow EXCEPT !.doc = d].doc = d
    BY ApprovalsAssumption DEF NoRow, Rows, Verdicts
  <2>2. WorkOK' /\ WorkersFull'
    BY <1>1, <2>1 DEF Extract, WorkOK, WorkersFull, Doing
  <2>3. CountOK'
    BY <1>1, ApprovalsAssumption DEF Extract, CountOK
  <2>4. PastOK'
    BY <1>1 DEF Extract, PastOK
  <2> QED BY <1>1, <1>q, <2>2, <2>3, <2>4 DEF Extract, tables
<1>2. CASE VerifyLead(w)
  <2>1. wrow[w].doc \in Document
    BY <1>2 DEF VerifyLead, WorkersFull
  <2>2. WorkOK' /\ WorkersFull'
    BY <1>2, <2>1, VerdictTypes DEF VerifyLead, WorkOK, WorkersFull, Doing
  <2> QED BY <1>2, <1>q, <2>2 DEF VerifyLead, tables
<1>3. CASE VerifyRaises(w)
  BY <1>3, <1>q, ReleaseTypes DEF VerifyRaises, tables
<1>4. CASE SaveResult(w)
  <2>1. /\ wlead[w] \in Leads /\ wrow[w].doc \in Document /\ wrow[w].status # "none"
        /\ wrow[w] \in Rows
    BY <1>4 DEF SaveResult, WorkersFull, WorkOK
  <2>2. WorkOK' /\ WorkersFull'
    BY <1>4 DEF SaveResult, WorkOK, WorkersFull, Doing
  <2>3. TablesOK' /\ ResultsFull'
    BY <1>4, <2>1 DEF SaveResult, TablesOK, ResultsFull
  <2>4. PastOK'
    BY <1>4, <2>1 DEF SaveResult, Missing, PastOK
  <2>5. ScansFull'
    BY <1>4, <2>1, ScansKeep DEF SaveResult, TablesOK, actor
  <2> QED BY <1>4, <1>q, <2>2, <2>3, <2>4, <2>5 DEF SaveResult
<1>5. CASE CompleteJob(w)
  <2>1. wlead[w] \in Leads /\ wrow[w].status \in Verdicts
    BY <1>5 DEF CompleteJob, WorkersFull, WorkOK, Rows
  <2>2. WorkOK' /\ WorkersFull'
    BY <1>5, ReleaseTypes DEF CompleteJob
  <2>3. TablesOK' /\ ResultsFull'
    BY <1>5, <2>1 DEF CompleteJob, TablesOK, ResultsFull
  <2> QED BY <1>5, <1>q, <2>2, <2>3 DEF CompleteJob
<1> QED BY <1>1, <1>2, <1>3, <1>4, <1>5 DEF WorkerStep

-----------------------------------------------------------------------------
\* What a request or a re-verification leaves alone.
LEMMA ActorFrame ==
    ASSUME PartsOK
    PROVE  /\ UNCHANGED worker => WorkOK' /\ WorkersFull'
           /\ UNCHANGED config => ConfigOK'
           /\ UNCHANGED tables => TablesOK' /\ ResultsFull'
           /\ UNCHANGED history => PastOK'
           /\ UNCHANGED bounds => CountOK'
           /\ UNCHANGED scan => ScanOK'
<1> USE DEF PartsOK, FullOK
<1>1. UNCHANGED worker => WorkOK' /\ WorkersFull'
  BY DEF worker, WorkOK, WorkersFull
<1>2. UNCHANGED config => ConfigOK'
  BY DEF config, ConfigOK
<1>3. UNCHANGED tables => TablesOK' /\ ResultsFull'
  BY DEF tables, TablesOK, ResultsFull
<1>4. UNCHANGED history => PastOK'
  BY DEF history, PastOK
<1>5. UNCHANGED bounds => CountOK'
  BY DEF bounds, CountOK
<1>6. UNCHANGED scan => ScanOK'
  BY DEF scan, ScanOK
<1> QED BY <1>1, <1>2, <1>3, <1>4, <1>5, <1>6

LEMMA LeaveTypes ==
    ASSUME PartsOK, NEW as, Leave(as),
           \A l \in Leads : result[l].status # "none" => result'[l].status # "none"
    PROVE  AskOK' /\ AsksFull' /\ ScanOK' /\ ScansFull'
<1> USE DEF PartsOK, FullOK
<1>1. AskOK' /\ ScanOK'
  BY NoRowTypes DEF Leave, AskOK, ScanOK, Places, Choices
<1>2. AsksFull'
  BY DEF Leave, AsksFull, AskOK, Actors
<1>3. ScansFull'
  BY DEF Leave, ScansFull, AskOK, ScanOK, Scans
<1> QED BY <1>1, <1>2, <1>3

\* A request that moves on, with its name and its rows.
LEMMA MoveTypes ==
    ASSUME PartsOK, NEW a \in Admins, apc[a] # "idle", NEW p \in Places \ Scans,
           apc' = [apc EXCEPT ![a] = p], UNCHANGED <<request, scan, result>>
    PROVE  AskOK' /\ AsksFull' /\ ScanOK' /\ ScansFull'
<1> USE DEF PartsOK, FullOK
<1>1. AskOK' /\ ScanOK' /\ AsksFull'
  BY DEF request, scan, AskOK, ScanOK, AsksFull, Places, Actors
<1>2. ScansFull'
  BY ScansKeep DEF AskOK
<1> QED BY <1>1, <1>2

LEMMA FetchTypes ==
    ASSUME PartsOK, NEW a \in Actors, NEW ls, ls \subseteq {l \in Leads : Scannable(l)},
           a \in Admins => apc[a] # "idle", FetchRows(a, ls)
    PROVE  AskOK' /\ AsksFull' /\ ScanOK' /\ ScansFull' /\ PastOK'
<1> USE DEF PartsOK, FullOK
<1>1. AskOK' /\ ScanOK' /\ PastOK'
  <2>1. [l \in Leads |-> IF l \in ls THEN result[l] ELSE NoRow] \in [Leads -> Rows]
    BY NoRowTypes DEF TablesOK
  <2>2. ScanOK'
    BY <2>1 DEF FetchRows, ScanOK
  <2> QED BY <2>2 DEF FetchRows, AskOK, PastOK, Overlapping, request, Places, Scans
<1>2. AsksFull'
  BY DEF FetchRows, AsksFull, AskOK, request, Actors
<1>3. ScansFull'
  <2>1. ASSUME NEW b \in Actors, b # a, apc'[b] \in Scans
        PROVE  apc[b] \in Scans /\ todo'[b] = todo[b] /\ rows'[b] = rows[b] /\ apc'[b] = apc[b]
    BY <2>1 DEF FetchRows, AskOK, ScanOK
  <2>2. \A l \in ls : result[l].doc \in Document /\ result[l].status # "none"
    BY DEF Scannable, ResultsFull
  <2>3. todo'[a] = ls /\ apc'[a] = "check" /\ \A l \in ls : rows'[a][l] = result[l]
    BY DEF FetchRows, AskOK, ScanOK
  <2>4. result' = result /\ cur' = cur /\ next' = next
    BY DEF FetchRows, tables
  <2>5. \A l \in todo'[a] : rows'[a][l].doc \in Document /\ result'[l].status # "none"
    BY <2>2, <2>3, <2>4
  <2>6. ASSUME NEW b \in Actors, b # a, apc'[b] \in Scans
        PROVE  /\ \A l \in todo'[b] : rows'[b][l].doc \in Document /\ result'[l].status # "none"
               /\ apc'[b] # "check" => /\ cur'[b] \in Leads /\ next'[b].status # "none"
                                       /\ result'[cur'[b]].status # "none"
    BY <2>1, <2>4, <2>6 DEF ScansFull
  <2> QED BY <2>3, <2>5, <2>6 DEF ScansFull
<1> QED BY <1>1, <1>2, <1>3

LEMMA DecideTypes ==
    ASSUME PartsOK, NEW a \in Admins, Decide(a)
    PROVE  PartsOK'
<1> USE DEF PartsOK, FullOK
<1>a. a \in Actors
  BY DEF Actors
<1>1. ASSUME NEW n \in Names, NEW c \in Choices, Ask(a, n, c) PROVE PartsOK'
  <2>1. AskOK' /\ AsksFull'
    BY <1>1, <1>a DEF Ask, AskOK, AsksFull, Places, Choices, Actors
  <2>2. ScansFull'
    BY <1>1, <1>a, ScansKeep DEF Ask, AskOK, tables, Scans
  <2>3. CountOK' /\ PastOK'
    BY <1>1, ApprovalsAssumption DEF Ask, CountOK, PastOK
  <2> QED BY <1>1, <2>1, <2>2, <2>3, ActorFrame DEF Ask
<1>2. CASE Candidates(a)
  <2>1. AskOK' /\ ScanOK' /\ AsksFull'
    BY <1>2, <1>a DEF Candidates, AskOK, ScanOK, AsksFull, request, Places, Scans, Actors
  <2>2. ScansFull'
    BY <1>2, <1>a DEF Candidates, AskOK, ScanOK, ScansFull, tables, Scans
  <2> QED BY <1>2, <2>1, <2>2, ActorFrame DEF Candidates
<1>3. CASE Teach(a)
  <2>1. pair[a] \in Names
    BY <1>3 DEF Teach, AsksFull
  <2>2. ConfigOK'
    BY <1>3, <2>1 DEF Teach, ConfigOK, Processes
  <2> QED BY <1>3, <2>2, ActorFrame, MoveTypes DEF Teach, tables, Places, Scans
<1>4. CASE Reload(a)
  <2>2. ConfigOK'
    BY <1>4 DEF Reload, ConfigOK, Processes
  <2> QED BY <1>4, <2>2, ActorFrame, MoveTypes DEF Reload, tables, Places, Scans
<1>5. CASE ReloadRules(a)
  <2>2. ConfigOK'
    BY <1>5 DEF ReloadRules, ConfigOK, Processes
  <2> QED BY <1>5, <2>2, ActorFrame, MoveTypes DEF ReloadRules, tables, Places, Scans
<1>6. CASE Fetch(a)
  <2>1. {l \in todo[a] : Scannable(l)} \subseteq {l \in Leads : Scannable(l)}
    BY <1>a DEF ScanOK
  <2> QED BY <1>6, <1>a, <2>1, ActorFrame, FetchTypes DEF Fetch, FetchRows
<1>7. CASE Record(a)
  <2>1. TablesOK' /\ ResultsFull'
    BY <1>7 DEF Record, TablesOK, ResultsFull, AskOK, Choices
  <2>2. AskOK' /\ AsksFull' /\ ScanOK' /\ ScansFull'
    BY <1>7, LeaveTypes DEF Record
  <2> QED BY <1>7, <2>1, <2>2, ActorFrame DEF Record
<1> QED BY <1>1, <1>2, <1>3, <1>4, <1>5, <1>6, <1>7 DEF Decide, Choices

-----------------------------------------------------------------------------
LEMMA ScanTypes ==
    ASSUME PartsOK, NEW a \in Actors, ScanStep(a)
    PROVE  PartsOK'
<1> USE DEF PartsOK, FullOK
<1>1. ASSUME NEW l \in Leads, CheckRow(a, l) PROVE PartsOK'
  <2> DEFINE row == rows[a][l]
             allow == lists[ProcessOf(a)]
             changes == Changes(row, allow)
             new == [row EXCEPT !.status = Status(row.doc, allow),
                                !.failed = FailedFields(row.doc, allow)]
  <2>1. row \in Rows /\ row.doc \in Document /\ result[l].status # "none"
    BY <1>1 DEF CheckRow, ScansFull, ScanOK, Scans
  <2>2. new \in Rows /\ new.status # "none"
    <3> HIDE DEF row, allow
    <3>1. /\ Status(row.doc, allow) \in {"verified", "unverified"}
          /\ FailedFields(row.doc, allow) \in SUBSET Failures
      BY <2>1, VerdictTypes
    <3> QED BY <2>1, <3>1 DEF Rows, Verdicts
  <2>3. /\ apc[a] = "check" /\ l \in todo[a]
        /\ todo' = [todo EXCEPT ![a] = todo[a] \ {l}]
        /\ apc' = [apc EXCEPT ![a] = IF changes THEN "write" ELSE "check"]
        /\ cur' = [cur EXCEPT ![a] = IF changes THEN l ELSE None]
        /\ rows' = [rows EXCEPT ![a] = [rows[a] EXCEPT ![l] = NoRow]]
        /\ next' = [next EXCEPT ![a] = IF changes THEN new ELSE NoRow]
        /\ UNCHANGED <<config, tables, worker, request, mixed, contested, bounds>>
        /\ missed' \in {missed, Missing(l, row)}
    BY <1>1 DEF CheckRow
  <2> HIDE DEF row, allow, changes, new
  <2>4. ScanOK'
    BY <2>2, <2>3, NoRowTypes DEF ScanOK
  <2>5. AskOK' /\ AsksFull'
    BY <2>3 DEF AskOK, AsksFull, request, Places, Scans, Actors
  <2>6. ASSUME NEW b \in Actors, b # a
        PROVE  /\ apc'[b] = apc[b] /\ todo'[b] = todo[b] /\ rows'[b] = rows[b]
               /\ cur'[b] = cur[b] /\ next'[b] = next[b]
    BY <2>3, <2>6 DEF AskOK, ScanOK
  <2>7. /\ apc'[a] = IF changes THEN "write" ELSE "check"
        /\ todo'[a] = todo[a] \ {l}
        /\ \A k \in todo'[a] : rows'[a][k] = rows[a][k]
        /\ changes => cur'[a] = l /\ next'[a] = new
    BY <2>3 DEF AskOK, ScanOK
  <2>8. ScansFull'
    <3>1. result' = result
      BY <2>3 DEF tables
    <3>2. \A k \in todo'[a] : rows'[a][k].doc \in Document /\ result[k].status # "none"
      BY <2>3, <2>7 DEF ScansFull, Scans
    <3>3. apc'[a] # "check" => /\ cur'[a] \in Leads /\ next'[a].status # "none"
                               /\ result[cur'[a]].status # "none"
      BY <2>1, <2>2, <2>7
    <3>4. ASSUME NEW b \in Actors, b # a, apc'[b] \in Scans
          PROVE  /\ \A k \in todo'[b] : rows'[b][k].doc \in Document /\ result[k].status # "none"
                 /\ apc'[b] # "check" => /\ cur'[b] \in Leads /\ next'[b].status # "none"
                                         /\ result[cur'[b]].status # "none"
      BY <3>4, <2>6 DEF ScansFull
    <3> QED BY <3>1, <3>2, <3>3, <3>4 DEF ScansFull
  <2>9. PastOK'
    BY <2>3 DEF PastOK, Missing
  <2> QED BY <2>3, <2>4, <2>5, <2>8, <2>9, ActorFrame
<1>2. CASE WriteRow(a)
  <2> DEFINE l == cur[a]
             row == [result[l] EXCEPT !.status = next[a].status, !.failed = next[a].failed]
  <2>1. l \in Leads /\ next[a] \in Rows /\ next[a].status # "none" /\ result[l].status # "none"
    BY <1>2 DEF WriteRow, ScansFull, ScanOK, Scans
  <2>2. result[l] \in Rows /\ result[l].doc \in Document
    BY <2>1 DEF TablesOK, ResultsFull
  <2>3. row \in Rows /\ row.doc \in Document /\ row.status # "none"
    <3> HIDE DEF l
    <3> QED BY <2>1, <2>2 DEF Rows
  <2>4. /\ apc[a] = "write" /\ apc' = [apc EXCEPT ![a] = "job"]
        /\ result' = [result EXCEPT ![l] = row] /\ missed' = Missing(l, row)
        /\ UNCHANGED <<config, decision, job, done, worker, request, scan, mixed, contested, bounds>>
    BY <1>2 DEF WriteRow
  <2> HIDE DEF l, row
  <2>5. TablesOK' /\ ResultsFull'
    BY <2>1, <2>3, <2>4 DEF TablesOK, ResultsFull
  <2>6. AskOK' /\ AsksFull'
    BY <2>4 DEF AskOK, AsksFull, request, Places, Scans, Actors
  <2>7. ScansFull'
    <3>1. \A k \in Leads : result[k].status # "none" => result'[k].status # "none"
      BY <2>1, <2>3, <2>4 DEF TablesOK
    <3>2. \A b \in Actors : apc'[b] \in Scans => apc[b] \in Scans /\ (apc'[b] # "check" => apc[b] # "check")
      BY <2>4 DEF AskOK, Scans
    <3>3. \A b \in Actors : todo[b] \subseteq Leads
      BY DEF ScanOK
    <3> QED BY <2>4, <3>1, <3>2, <3>3 DEF ScansFull, scan
  <2>8. PastOK'
    BY <2>1, <2>4 DEF PastOK, Missing
  <2> QED BY <2>4, <2>5, <2>6, <2>7, <2>8, ActorFrame
<1>3. CASE WriteJob(a)
  <2>1. next[a].status \in Verdicts
    BY DEF ScanOK, Rows
  <2>2. TablesOK' /\ ResultsFull'
    BY <1>3, <2>1 DEF WriteJob, TablesOK, ResultsFull
  <2>3. AskOK' /\ AsksFull' /\ ScanOK'
    BY <1>3, NoRowTypes DEF WriteJob, AskOK, AsksFull, ScanOK, request, Places, Scans, Actors
  <2>4. ScansFull'
    BY <1>3 DEF WriteJob, ScansFull, AskOK, ScanOK, Scans
  <2> QED BY <1>3, <2>2, <2>3, <2>4, ActorFrame DEF WriteJob, history
<1>4. CASE EndScan(a)
  <2>1. CASE a \in Tools
    BY <1>4, <2>1, ActorFrame, LeaveTypes DEF EndScan, tables
  <2>2. CASE a \notin Tools
    <3>1. a \in Admins /\ apc[a] # "idle"
      BY <1>4, <2>2 DEF Actors, EndScan
    <3> QED BY <1>4, <2>2, <3>1, ActorFrame, MoveTypes DEF EndScan, tables, Places, Scans
  <2> QED BY <2>1, <2>2
<1>5. CASE CheckRaises(a)
  <2>1. contested' \in SUBSET Names
    BY <1>5 DEF CheckRaises, Dropped, AsksFull, PastOK
  <2> QED BY <1>5, <2>1, ActorFrame, LeaveTypes DEF CheckRaises, Dropped, tables, PastOK
<1> QED BY <1>1, <1>2, <1>3, <1>4, <1>5 DEF ScanStep

LEMMA CrashTypes ==
    ASSUME PartsOK, NEW p \in Processes, NEW as \in SUBSET Actors, NEW ws \in SUBSET Workers,
           CrashWith(p, as, ws), rules' \in BOOLEAN, lock' \in Admins \cup {None}
    PROVE  PartsOK'
<1> USE DEF PartsOK, FullOK
<1>1. ConfigOK'
  BY DEF CrashWith, ConfigOK
<1>2. TablesOK' /\ ResultsFull'
  BY ActorFrame DEF CrashWith
<1>3. WorkOK' /\ WorkersFull'
  BY ReleaseTypes DEF CrashWith
<1>4. AskOK' /\ AsksFull' /\ ScanOK' /\ ScansFull'
  BY LeaveTypes DEF CrashWith, Dropped, tables
<1>5. CountOK'
  BY ApprovalsAssumption DEF CrashWith, CountOK
<1>6. PastOK'
  <2>1. Interrupted(as, ws) \subseteq Leads
    BY DEF Interrupted, ScansFull, WorkersFull, Scans
  <2>2. contested' \in SUBSET Names
    BY DEF CrashWith, Dropped, AsksFull, PastOK
  <2> QED BY <2>1, <2>2 DEF CrashWith, PastOK
<1> QED BY <1>1, <1>2, <1>3, <1>4, <1>5, <1>6

LEMMA StepTypes == PartsOK /\ [Next]_vars => PartsOK'
<1> SUFFICES ASSUME PartsOK, [Next]_vars PROVE PartsOK'
  OBVIOUS
<1>r. rules \in BOOLEAN /\ lock \in Admins \cup {None}
  BY DEF PartsOK, ConfigOK
<1>1. ASSUME NEW a \in Tools, StartTool(a) PROVE PartsOK'
  <2> USE DEF PartsOK, FullOK
  <2>1. a \in Actors /\ a \notin Admins /\ a \in Processes
    BY <1>1, Apart DEF Actors, Processes
  <2>2. AskOK' /\ AsksFull' /\ ScanOK' /\ ScansFull' /\ PastOK'
    BY <1>1, <2>1, FetchTypes DEF StartTool
  <2>3. ConfigOK' /\ CountOK'
    BY <1>1, <2>1, ApprovalsAssumption DEF StartTool, ConfigOK, CountOK
  <2> QED BY <1>1, <2>2, <2>3, ActorFrame DEF StartTool, FetchRows
<1>2. ASSUME NEW a \in Tools, CrashTool(a) PROVE PartsOK'
  <2>1. {a} \in SUBSET Actors /\ {} \in SUBSET Workers /\ a \in Processes
    BY DEF Actors, Processes
  <2>2. CrashWith(a, {a}, {}) /\ rules' = rules /\ lock' = lock
    BY <1>2 DEF CrashTool
  <2> QED BY <1>r, <2>1, <2>2, CrashTypes
<1>3. CASE CrashWeb
  BY <1>3, CrashTypes DEF CrashWeb, Actors, Processes
<1>4. CASE CrashStandalone
  <2>1. Standalone \in SUBSET Workers
    BY ApprovalsAssumption
  <2> QED BY <1>4, <1>r, <2>1, CrashTypes DEF CrashStandalone, Processes
<1>5. CASE UNCHANGED vars
  <2> USE DEF PartsOK, FullOK
  <2>1. AskOK' /\ AsksFull' /\ ScansFull'
    BY <1>5 DEF vars, actor, request, scan, tables, AskOK, AsksFull, ScansFull
  <2> QED BY <1>5, <2>1, ActorFrame DEF vars, actor
<1> QED BY <1>1, <1>2, <1>3, <1>4, <1>5, WorkerTypes, DecideTypes, ScanTypes DEF Next

\* Every file, table, worker, request and scan keeps its type (approvals.py,
\* reverify.py, verify.py).
THEOREM ApprovalsTypes == Spec => []ApprovalsTypeOK
<1>1. PartsOK => ApprovalsTypeOK
  BY PartsAreTypes
<1> QED BY <1>1, InitTypes, StepTypes, PTL DEF Spec

-----------------------------------------------------------------------------
(* The receiver file.                                                      *)

Taught == {"reload", "rules", "fetch"} \cup Scans
Late(a) == apc[a] \notin {"idle", "candidates", "teach"}

\* A request that has taught its name, and one that goes on to teach it.
TaughtOnFile == \A a \in Admins : Late(a) /\ choice[a] = "approved" => pair[a] \in file
TeachesApproved ==
    \A a \in Admins : apc[a] \in {"teach"} \cup Taught => choice[a] = "approved"
ApprovedOnFile == \A n \in Names : decision[n] = "approved" => n \in file

\* A name that was learnt has an approval behind it, given or under way.
LearntByApproval ==
    \A n \in file \ (Listed \cup contested) :
        \/ decision[n] = "approved"
        \/ \E a \in Admins : Late(a) /\ pair[a] = n /\ choice[a] = "approved"

\* Two requests about one name, or one about a name that was decided meanwhile.
RivalsContest ==
    \A a, b \in Admins :
        a # b /\ apc[a] # "idle" /\ apc[b] # "idle" /\ pair[a] = pair[b] => pair[a] \in contested
LateIsContested ==
    \A a \in Admins : apc[a] # "idle" /\ decision[pair[a]] # "none" => pair[a] \in contested

FileInv == /\ TaughtOnFile /\ TeachesApproved /\ ApprovedOnFile /\ LearntByApproval
           /\ RivalsContest /\ LateIsContested

LEMMA FileInvSuffices == PartsOK /\ FileInv => FileSound
<1>1. ASSUME PartsOK, FileInv PROVE FileFollowsDecisions
  BY <1>1 DEF FileInv, ApprovedOnFile, LearntByApproval, FileFollowsDecisions, Open, Late
<1> QED BY <1>1, PartsAreTypes DEF FileSound

LEMMA InitFile == Init => FileInv
BY DEF Init, FileInv, TaughtOnFile, TeachesApproved, ApprovedOnFile, LearntByApproval,
       RivalsContest, LateIsContested, Late, Actors, Taught, Scans

\* A step that teaches and decides nothing, of requests that go on.
LEMMA FileKept ==
    ASSUME PartsOK, FileInv, UNCHANGED <<file, decision, request, contested>>,
           \A a \in Admins : \/ apc'[a] = apc[a]
                             \/ apc[a] \in Taught /\ apc'[a] \in Taught \cup {"record"}
    PROVE  FileInv'
<1> USE DEF FileInv, request
<1>1. \A a \in Admins : /\ (Late(a) <=> Late(a)') /\ (apc[a] = "idle" <=> apc'[a] = "idle")
                        /\ apc'[a] \in {"teach"} \cup Taught => apc[a] \in {"teach"} \cup Taught
  BY DEF Late, Taught, Scans
<1>2. TaughtOnFile' /\ LearntByApproval'
  BY <1>1 DEF TaughtOnFile, LearntByApproval
<1>3. TeachesApproved' /\ ApprovedOnFile'
  BY <1>1 DEF TeachesApproved, ApprovedOnFile
<1>4. RivalsContest' /\ LateIsContested'
  BY <1>1 DEF RivalsContest, LateIsContested
<1> QED BY <1>2, <1>3, <1>4

\* Requests that end without a decision.
LEMMA FileDropped ==
    ASSUME PartsOK, FileInv, NEW as, Dropped(as), UNCHANGED <<file, decision>>
    PROVE  FileInv'
<1> USE DEF PartsOK, FullOK, FileInv
<1>1. \A a \in Admins : \/ a \in as /\ apc'[a] = "idle"
                        \/ a \notin as /\ apc'[a] = apc[a] /\ pair'[a] = pair[a] /\ choice'[a] = choice[a]
  BY DEF Dropped, Leave, Actors
<1>2. contested \subseteq contested'
  BY DEF Dropped
<1>3. \A a \in Admins \cap as : Late(a) /\ choice[a] = "approved" => pair[a] \in contested'
  BY DEF Dropped, Late
<1>4. TaughtOnFile' /\ TeachesApproved' /\ ApprovedOnFile'
  BY <1>1 DEF TaughtOnFile, TeachesApproved, ApprovedOnFile, Late, Taught, Scans
<1>5. LearntByApproval'
  <2>1. ASSUME NEW n \in file' \ (Listed \cup contested')
        PROVE  \/ decision'[n] = "approved"
               \/ \E a \in Admins : Late(a)' /\ pair'[a] = n /\ choice'[a] = "approved"
    <3>1. ASSUME NEW a \in Admins, Late(a), pair[a] = n, choice[a] = "approved"
          PROVE  Late(a)' /\ pair'[a] = n /\ choice'[a] = "approved"
      BY <1>1, <1>3, <2>1, <3>1 DEF Late
    <3> QED BY <1>2, <2>1, <3>1 DEF LearntByApproval
  <2> QED BY <2>1 DEF LearntByApproval
<1>6. RivalsContest' /\ LateIsContested'
  BY <1>1, <1>2 DEF RivalsContest, LateIsContested
<1> QED BY <1>4, <1>5, <1>6

LEMMA DecideFile ==
    ASSUME PartsOK, FileInv, NEW a \in Admins, Decide(a)
    PROVE  FileInv'
<1> USE DEF PartsOK, FullOK, FileInv
<1>a. a \in Actors /\ Admins \subseteq Actors
  BY DEF Actors
<1>1. ASSUME NEW n \in Names, NEW c \in Choices, Ask(a, n, c) PROVE FileInv'
  <2>1. /\ apc[a] = "idle" /\ apc'[a] = "candidates" /\ pair'[a] = n /\ decision[n] = "none"
        /\ file' = file /\ decision' = decision /\ contested \subseteq contested'
        /\ (\E b \in Admins : apc[b] # "idle" /\ pair[b] = n) => n \in contested'
        /\ \A b \in Admins : b # a => apc'[b] = apc[b] /\ pair'[b] = pair[b] /\ choice'[b] = choice[b]
    BY <1>1, <1>a DEF Ask, AskOK, tables, config
  <2>2. TaughtOnFile' /\ TeachesApproved' /\ ApprovedOnFile'
    BY <2>1 DEF TaughtOnFile, TeachesApproved, ApprovedOnFile, Late, Taught, Scans
  <2>3. LearntByApproval'
    BY <2>1 DEF LearntByApproval, Late
  <2>4. RivalsContest' /\ LateIsContested'
    BY <2>1 DEF RivalsContest, LateIsContested
  <2> QED BY <2>2, <2>3, <2>4
<1>2. CASE Candidates(a)
  <2>1. /\ apc[a] = "candidates" /\ choice[a] \in Choices
        /\ apc'[a] = IF choice[a] = "approved" THEN "teach" ELSE "record"
        /\ file' = file /\ decision' = decision /\ contested' = contested
        /\ pair' = pair /\ choice' = choice
        /\ \A b \in Admins : b # a => apc'[b] = apc[b]
    BY <1>2, <1>a DEF Candidates, AskOK, tables, config, request, history
  <2>2. TaughtOnFile' /\ TeachesApproved' /\ ApprovedOnFile'
    BY <2>1 DEF TaughtOnFile, TeachesApproved, ApprovedOnFile, Late, Taught, Scans, Choices
  <2>3. LearntByApproval'
    BY <2>1 DEF LearntByApproval, Late
  <2>4. RivalsContest' /\ LateIsContested'
    BY <2>1 DEF RivalsContest, LateIsContested
  <2> QED BY <2>2, <2>3, <2>4
<1>3. CASE Teach(a)
  <2>1. /\ apc[a] = "teach" /\ apc'[a] = "reload" /\ file' = file \cup {pair[a]}
        /\ decision' = decision /\ contested' = contested /\ pair' = pair /\ choice' = choice
        /\ \A b \in Admins : b # a => apc'[b] = apc[b]
    BY <1>3, <1>a DEF Teach, AskOK, tables, request, history
  <2>2. choice[a] = "approved"
    BY <2>1 DEF TeachesApproved
  <2>3. TaughtOnFile' /\ TeachesApproved' /\ ApprovedOnFile'
    BY <2>1, <2>2 DEF TaughtOnFile, TeachesApproved, ApprovedOnFile, Late, Taught, Scans
  <2>4. LearntByApproval'
    BY <2>1, <2>2 DEF LearntByApproval, Late
  <2>5. RivalsContest' /\ LateIsContested'
    BY <2>1 DEF RivalsContest, LateIsContested
  <2> QED BY <2>3, <2>4, <2>5
<1>4. CASE Reload(a)
  BY <1>4, <1>a, FileKept DEF Reload, AskOK, tables, history, Taught, Scans
<1>5. CASE ReloadRules(a)
  BY <1>5, <1>a, FileKept DEF ReloadRules, AskOK, tables, history, Taught, Scans
<1>6. CASE Fetch(a)
  BY <1>6, <1>a, FileKept DEF Fetch, FetchRows, AskOK, config, tables, Taught, Scans
<1>7. CASE Record(a)
  <2>1. /\ apc[a] = "record" /\ apc'[a] = "idle" /\ pair[a] \in Names /\ choice[a] \in Choices
        /\ file' = file /\ contested' = contested
        /\ decision'[pair[a]] = IF decision[pair[a]] = "none" THEN choice[a] ELSE decision[pair[a]]
        /\ \A n \in Names : n # pair[a] => decision'[n] = decision[n]
        /\ \A b \in Admins : b # a => apc'[b] = apc[b] /\ pair'[b] = pair[b] /\ choice'[b] = choice[b]
    BY <1>7, <1>a DEF Record, Leave, AsksFull, AskOK, TablesOK, config, history
  <2>2. TaughtOnFile' /\ TeachesApproved'
    BY <2>1 DEF TaughtOnFile, TeachesApproved, Late, Taught, Scans
  <2>3. ApprovedOnFile'
    BY <2>1 DEF ApprovedOnFile, TaughtOnFile, Late
  <2>4. ASSUME NEW n \in file' \ (Listed \cup contested')
        PROVE  \/ decision'[n] = "approved"
               \/ \E b \in Admins : Late(b)' /\ pair'[b] = n /\ choice'[b] = "approved"
    <3>1. n \in Names /\ n \in file \ (Listed \cup contested)
      BY <2>1, <2>4 DEF ConfigOK
    <3>2. CASE decision[n] = "approved"
      BY <2>1, <3>1, <3>2
    <3>3. ASSUME NEW b \in Admins, Late(b), pair[b] = n, choice[b] = "approved"
          PROVE  decision'[n] = "approved" \/ (Late(b)' /\ pair'[b] = n /\ choice'[b] = "approved")
      <4>1. CASE b = a
        BY <2>1, <3>1, <3>3, <4>1 DEF LateIsContested, Late
      <4>2. CASE b # a
        BY <2>1, <3>3, <4>2 DEF Late
      <4> QED BY <4>1, <4>2
    <3> QED BY <3>1, <3>2, <3>3 DEF LearntByApproval
  <2>5. LearntByApproval'
    BY <2>4 DEF LearntByApproval
  <2>6. RivalsContest'
    BY <2>1 DEF RivalsContest
  <2>7. LateIsContested'
    BY <2>1 DEF LateIsContested, RivalsContest, AsksFull
  <2> QED BY <2>2, <2>3, <2>5, <2>6, <2>7
<1> QED BY <1>1, <1>2, <1>3, <1>4, <1>5, <1>6, <1>7 DEF Decide, Choices

LEMMA ScanFile ==
    ASSUME PartsOK, FileInv, NEW a \in Actors, ScanStep(a)
    PROVE  FileInv'
<1> USE DEF PartsOK, FullOK
<1>1. ASSUME NEW l \in Leads, CheckRow(a, l) PROVE FileInv'
  <2>1. /\ UNCHANGED <<file, decision, request, contested>>
        /\ apc[a] = "check" /\ apc'[a] \in {"check", "write"}
        /\ \A b \in Actors : b # a => apc'[b] = apc[b]
    BY <1>1 DEF CheckRow, config, tables, AskOK
  <2> QED BY <2>1, FileKept DEF Actors, Taught, Scans
<1>2. CASE WriteRow(a)
  BY <1>2, FileKept DEF WriteRow, config, Actors, AskOK, Taught, Scans
<1>3. CASE WriteJob(a)
  BY <1>3, FileKept DEF WriteJob, config, history, Actors, AskOK, Taught, Scans
<1>4. CASE EndScan(a)
  <2>1. CASE a \in Tools
    <3>1. \A b \in Admins : apc'[b] = apc[b] /\ pair'[b] = pair[b] /\ choice'[b] = choice[b]
      BY <1>4, <2>1, Apart DEF EndScan, Leave, Actors
    <3>2. /\ pair' = [b \in Admins |-> pair[b]] /\ pair = [b \in Admins |-> pair[b]]
          /\ choice' = [b \in Admins |-> choice[b]] /\ choice = [b \in Admins |-> choice[b]]
      <4>1. \A b \in Admins : b \notin {a}
        BY <2>1, Apart
      <4>2. /\ pair' = [b \in Admins |-> IF b \in {a} THEN None ELSE pair[b]]
            /\ choice' = [b \in Admins |-> IF b \in {a} THEN "rejected" ELSE choice[b]]
        BY <1>4, <2>1 DEF EndScan, Leave
      <4> QED BY <4>1, <4>2 DEF AskOK
    <3> QED BY <1>4, <2>1, <3>1, <3>2, FileKept DEF EndScan, config, tables, history, request
  <2>2. CASE a \notin Tools
    BY <1>4, <2>2, FileKept DEF EndScan, config, tables, history, Actors, AskOK, Taught, Scans
  <2> QED BY <2>1, <2>2
<1>5. CASE CheckRaises(a)
  BY <1>5, FileDropped DEF CheckRaises, config, tables
<1> QED BY <1>1, <1>2, <1>3, <1>4, <1>5 DEF ScanStep

LEMMA StepFile == PartsOK /\ FileInv /\ [Next]_vars => FileInv'
<1> SUFFICES ASSUME PartsOK, FileInv, [Next]_vars PROVE FileInv'
  OBVIOUS
<1>1. ASSUME NEW w \in Workers, WorkerStep(w) PROVE FileInv'
  <2>1. UNCHANGED <<file, decision, contested, actor>>
    BY <1>1 DEF WorkerStep, Extract, VerifyLead, VerifyRaises, SaveResult, CompleteJob,
                config, tables, history
  <2> QED BY <2>1, FileKept DEF actor
<1>2. ASSUME NEW a \in Tools, StartTool(a) PROVE FileInv'
  <2>1. UNCHANGED <<file, decision, request, contested>> /\ apc' = [apc EXCEPT ![a] = "check"]
    BY <1>2 DEF StartTool, FetchRows, tables
  <2> QED BY <2>1, Apart, FileKept DEF PartsOK, AskOK, Actors
<1>3. ASSUME NEW a \in Tools, CrashTool(a) PROVE FileInv'
  BY <1>3, FileDropped DEF CrashTool, CrashWith, tables
<1>4. CASE CrashWeb
  BY <1>4, FileDropped DEF CrashWeb, CrashWith, tables
<1>5. CASE CrashStandalone
  BY <1>5, FileDropped DEF CrashStandalone, CrashWith, tables
<1>6. CASE UNCHANGED vars
  BY <1>6, FileKept DEF vars, config, tables, actor, history
<1> QED BY <1>1, <1>2, <1>3, <1>4, <1>5, <1>6, DecideFile, ScanFile DEF Next

\* The file and the decisions agree, unless two decisions about one name were
\* in flight at a time or an approval broke off (approvals.py:91-123).
THEOREM FileIsSound == Spec => []FileSound
<1>1. Init => PartsOK /\ FileInv
  BY InitTypes, InitFile
<1>2. PartsOK /\ FileInv /\ [Next]_vars => PartsOK' /\ FileInv'
  BY StepTypes, StepFile
<1> QED BY <1>1, <1>2, FileInvSuffices, PTL DEF Spec

-----------------------------------------------------------------------------
(* Rows in hand.                                                           *)

\* A worker or a scan has a row of the lead in hand.
Works(w, l) == wpc[w] # "idle" /\ wlead[w] = l
Scanned(a, l) == apc[a] \in Scans /\ (l \in todo[a] \/ (apc[a] # "check" /\ cur[a] = l))

\* One holder of a lead at a time, outside "mixed".
HeldOnce ==
    \A l \in Leads \ mixed :
        /\ \A v, w \in Workers : Works(v, l) /\ Works(w, l) => v = w
        /\ \A a, b \in Actors : Scanned(a, l) /\ Scanned(b, l) => a = b
        /\ \A w \in Workers, a \in Actors : ~(Works(w, l) /\ Scanned(a, l))

\* What a holder has read or saved is what the table says.
RowsTrue ==
    \A a \in Actors, l \in Leads \ mixed : apc[a] \in Scans =>
        /\ l \in todo[a] => rows[a][l] = result[l]
        /\ apc[a] = "write" /\ cur[a] = l => next[a].doc = result[l].doc
        /\ apc[a] = "job" /\ cur[a] = l => next[a].status = result[l].status
SavedTrue ==
    \A w \in Workers :
        wpc[w] = "complete" /\ wlead[w] \notin mixed => result[wlead[w]].status = wrow[w].status

\* The row in hand is off the list.
OffList == \A a \in Actors : apc[a] \in Scans \ {"check"} => cur[a] \notin todo[a]

\* Nobody is between the result and the job.
Between(l) == \/ \E w \in Workers : wpc[w] = "complete" /\ wlead[w] = l
              \/ \E a \in Actors : apc[a] = "job" /\ cur[a] = l
JobsTrue == \A l \in done \ mixed : ~Between(l) => job[l] = result[l].status

HandsInv == HeldOnce /\ OffList /\ RowsTrue /\ SavedTrue /\ JobsTrue

LEMMA HandsInvSuffices == PartsOK /\ HandsInv => VerdictsAgree
BY DEF PartsOK, HandsInv, JobsTrue, Between, VerdictsAgree, WorkersOn

LEMMA InitHands == Init => HandsInv
BY DEF Init, HandsInv, HeldOnce, OffList, RowsTrue, SavedTrue, JobsTrue, Works, Scanned, Scans

SameWorker(w) == wpc'[w] = wpc[w] /\ wlead'[w] = wlead[w] /\ wrow'[w] = wrow[w]
SameScan(a) == /\ apc'[a] = apc[a] /\ todo'[a] = todo[a] /\ rows'[a] = rows[a]
               /\ cur'[a] = cur[a] /\ next'[a] = next[a]

\* Workers let go before the save or after the job; scans before the write or
\* after the job, or else the lead is mixed.
LEMMA HandsKept ==
    ASSUME PartsOK, HandsInv, UNCHANGED <<result, job, done>>, mixed \subseteq mixed',
           \A w \in Workers : \/ SameWorker(w)
                              \/ wpc'[w] = "idle" /\ (wpc[w] = "complete" => wlead[w] \in mixed'),
           \A a \in Actors : \/ SameScan(a)
                             \/ apc'[a] \notin Scans /\ (apc[a] = "job" => cur[a] \in mixed')
    PROVE  HandsInv'
<1> USE DEF HandsInv
<1>1. \A l \in Leads : /\ \A w \in Workers : Works(w, l)' => Works(w, l)
                       /\ \A a \in Actors : Scanned(a, l)' => Scanned(a, l)
  BY DEF Works, Scanned, SameWorker, SameScan
<1>2. HeldOnce'
  BY <1>1 DEF HeldOnce
<1>3. RowsTrue' /\ OffList'
  BY DEF RowsTrue, OffList, SameScan
<1>4. SavedTrue'
  BY DEF SavedTrue, SameWorker
<1>5. \A l \in done \ mixed' : Between(l) => Between(l)'
  BY DEF Between, SameWorker, SameScan, Scans
<1>6. JobsTrue'
  BY <1>5 DEF JobsTrue
<1> QED BY <1>2, <1>3, <1>4, <1>6

LEMMA WorkerHands ==
    ASSUME PartsOK, HandsInv, NEW w \in Workers, WorkerStep(w)
    PROVE  HandsInv'
<1> USE DEF PartsOK, FullOK, HandsInv
<1>q. UNCHANGED actor => \A a \in Actors : SameScan(a)
  BY DEF actor, scan, SameScan
<1>1. ASSUME NEW l \in Leads, NEW d \in Docs, Extract(w, l, d) PROVE HandsInv'
  <2>1. /\ wpc[w] = "idle" /\ wpc'[w] = "verify" /\ wlead'[w] = l
        /\ \A v \in Workers : v # w => SameWorker(v)
        /\ UNCHANGED <<result, job, done>> /\ mixed \subseteq mixed'
        /\ WorkersOn(l) \cup ScansOn(l) # {} => l \in mixed'
        /\ \A a \in Actors : SameScan(a)
    BY <1>1, <1>q DEF Extract, WorkOK, tables, SameWorker
  <2>2. l \notin mixed' => /\ \A v \in Workers : ~Works(v, l)
                           /\ \A a \in Actors : ~Scanned(a, l)
    BY <2>1 DEF Works, Scanned, WorkersOn, ScansOn, Scans
  <2>3. /\ \A k \in Leads, a \in Actors : Scanned(a, k)' <=> Scanned(a, k)
        /\ \A k \in Leads, v \in Workers : v # w => (Works(v, k)' <=> Works(v, k))
        /\ \A k \in Leads : Works(w, k)' <=> k = l
    BY <2>1 DEF Works, Scanned, SameWorker, SameScan
  <2>4. HeldOnce'
    BY <2>1, <2>2, <2>3 DEF HeldOnce
  <2>5. RowsTrue' /\ OffList' /\ SavedTrue'
    BY <2>1 DEF RowsTrue, OffList, SavedTrue, SameWorker, SameScan
  <2>6. \A k \in Leads : Between(k) <=> Between(k)'
    BY <2>1 DEF Between, SameWorker, SameScan
  <2>7. JobsTrue'
    BY <2>1, <2>6 DEF JobsTrue, TablesOK
  <2> QED BY <2>4, <2>5, <2>7
<1>2. CASE VerifyLead(w)
  <2>1. /\ wpc[w] = "verify" /\ wpc'[w] = "save" /\ wlead' = wlead
        /\ \A v \in Workers : v # w => SameWorker(v)
        /\ UNCHANGED <<result, job, done, mixed>>
        /\ \A a \in Actors : SameScan(a)
    BY <1>2, <1>q DEF VerifyLead, WorkOK, tables, history, SameWorker
  <2>2. /\ \A k \in Leads, a \in Actors : Scanned(a, k)' <=> Scanned(a, k)
        /\ \A k \in Leads, v \in Workers : Works(v, k)' <=> Works(v, k)
        /\ \A k \in Leads : Between(k) <=> Between(k)'
    BY <2>1 DEF Works, Scanned, Between, SameWorker, SameScan
  <2>3. HeldOnce'
    BY <2>1, <2>2 DEF HeldOnce
  <2>4. RowsTrue' /\ OffList' /\ SavedTrue'
    BY <2>1 DEF RowsTrue, OffList, SavedTrue, SameWorker, SameScan
  <2>5. JobsTrue'
    BY <2>1, <2>2 DEF JobsTrue, TablesOK
  <2> QED BY <2>3, <2>4, <2>5
<1>3. CASE VerifyRaises(w)
  <2>1. \A v \in Workers : SameWorker(v) \/ (v = w /\ wpc'[v] = "idle")
    BY <1>3 DEF VerifyRaises, Release, SameWorker
  <2> QED BY <1>3, <1>q, <2>1, HandsKept DEF VerifyRaises, tables, history
<1>4. CASE SaveResult(w)
  <2> DEFINE l == wlead[w]
  <2>1. /\ wpc[w] = "save" /\ wpc'[w] = "complete" /\ wlead' = wlead /\ wrow' = wrow
        /\ l \in Leads /\ result'[l] = wrow[w] /\ \A k \in Leads : k # l => result'[k] = result[k]
        /\ \A v \in Workers : v # w => SameWorker(v)
        /\ UNCHANGED <<job, done, mixed>>
        /\ \A a \in Actors : SameScan(a)
    BY <1>4, <1>q DEF SaveResult, WorkOK, WorkersFull, TablesOK, SameWorker
  <2>2. Works(w, l)
    BY <2>1 DEF Works
  <2> HIDE DEF l
  <2>3. l \notin mixed => /\ \A v \in Workers : v # w => ~Works(v, l)
                          /\ \A a \in Actors : ~Scanned(a, l)
    BY <2>1, <2>2 DEF HeldOnce
  <2>4. /\ \A k \in Leads, a \in Actors : Scanned(a, k)' <=> Scanned(a, k)
        /\ \A k \in Leads, v \in Workers : Works(v, k)' <=> Works(v, k)
    BY <2>1 DEF Works, Scanned, SameWorker, SameScan
  <2>5. HeldOnce'
    BY <2>1, <2>4 DEF HeldOnce
  <2>6. RowsTrue'
    <3>1. ASSUME NEW a \in Actors, NEW k \in Leads \ mixed, apc[a] \in Scans, result'[k] = result[k]
          PROVE  /\ k \in todo[a] => rows[a][k] = result'[k]
                 /\ apc[a] = "write" /\ cur[a] = k => next[a].doc = result'[k].doc
                 /\ apc[a] = "job" /\ cur[a] = k => next[a].status = result'[k].status
      BY <3>1 DEF RowsTrue
    <3>2. l \notin mixed => \A a \in Actors : apc[a] \in Scans => l \notin todo[a] /\ (apc[a] # "check" => cur[a] # l)
      BY <2>3 DEF Scanned
    <3> QED BY <2>1, <3>1, <3>2 DEF RowsTrue, SameScan, Scans
  <2>o. OffList'
    BY <2>1 DEF OffList, SameScan
  <2>7. SavedTrue'
    <3>1. ASSUME NEW v \in Workers, v # w, wpc[v] = "complete", wlead[v] \notin mixed
          PROVE  result'[wlead[v]].status = wrow[v].status
      <4>1. Works(v, wlead[v]) /\ wlead[v] \in Leads
        BY <3>1 DEF Works, WorkersFull
      <4>2. wlead[v] # l
        BY <2>3, <3>1, <4>1
      <4> QED BY <2>1, <3>1, <4>1, <4>2 DEF SavedTrue
    <3>2. result'[wlead[w]].status = wrow[w].status
      BY <2>1 DEF l
    <3> QED BY <2>1, <3>1, <3>2 DEF SavedTrue, SameWorker
  <2>8. \A k \in Leads : /\ k # l => (Between(k) <=> Between(k)')
                         /\ k = l => Between(k)'
    BY <2>1 DEF Between, SameWorker, SameScan, l
  <2>9. ASSUME NEW k \in done' \ mixed', ~Between(k)' PROVE job'[k] = result'[k].status
    <3>1. k \in done \ mixed /\ k \in Leads /\ k # l
      BY <2>1, <2>8, <2>9 DEF TablesOK
    <3>2. ~Between(k)
      BY <2>8, <2>9, <3>1
    <3>3. job[k] = result[k].status
      BY <3>1, <3>2 DEF JobsTrue
    <3> QED BY <2>1, <3>1, <3>3
  <2>10. JobsTrue'
    BY <2>9 DEF JobsTrue
  <2> QED BY <2>5, <2>6, <2>o, <2>7, <2>10
<1>5. CASE CompleteJob(w)
  <2> DEFINE l == wlead[w]
  <2>1. /\ wpc[w] = "complete" /\ wpc'[w] = "idle" /\ l \in Leads
        /\ job'[l] = wrow[w].status /\ \A k \in Leads : k # l => job'[k] = job[k]
        /\ done' = done \cup {l}
        /\ \A v \in Workers : v # w => SameWorker(v)
        /\ UNCHANGED <<result, mixed>>
        /\ \A a \in Actors : SameScan(a)
    BY <1>5, <1>q DEF CompleteJob, Release, WorkersFull, TablesOK, SameWorker, history
  <2>2. Works(w, l) /\ (l \notin mixed => result[l].status = wrow[w].status)
    BY <2>1 DEF Works, SavedTrue
  <2> HIDE DEF l
  <2>3. /\ \A k \in Leads, a \in Actors : Scanned(a, k)' <=> Scanned(a, k)
        /\ \A k \in Leads, v \in Workers : Works(v, k)' => Works(v, k)
    BY <2>1 DEF Works, Scanned, SameWorker, SameScan
  <2>4. HeldOnce'
    BY <2>1, <2>3 DEF HeldOnce
  <2>5. RowsTrue' /\ OffList' /\ SavedTrue'
    BY <2>1 DEF RowsTrue, OffList, SavedTrue, SameWorker, SameScan
  <2>6. \A k \in Leads : k # l => (Between(k) => Between(k)')
    BY <2>1 DEF Between, SameWorker, SameScan, l
  <2>7. JobsTrue'
    BY <2>1, <2>2, <2>6 DEF JobsTrue, TablesOK
  <2> QED BY <2>4, <2>5, <2>7
<1> QED BY <1>1, <1>2, <1>3, <1>4, <1>5 DEF WorkerStep

LEMMA FetchHands ==
    ASSUME PartsOK, HandsInv, NEW a \in Actors, NEW ls, ls \subseteq Leads, apc[a] \notin Scans,
           FetchRows(a, ls)
    PROVE  HandsInv'
<1> USE DEF PartsOK, FullOK, HandsInv
<1>1. /\ apc'[a] = "check" /\ todo'[a] = ls /\ \A k \in ls : rows'[a][k] = result[k]
      /\ \A b \in Actors : b # a => SameScan(b)
      /\ \A w \in Workers : SameWorker(w)
      /\ UNCHANGED <<result, job, done>> /\ mixed \subseteq mixed'
  BY DEF FetchRows, AskOK, ScanOK, tables, worker, SameWorker, SameScan, Overlapping
<1>2. ASSUME NEW k \in ls, k \notin mixed'
      PROVE  (\A w \in Workers : ~Works(w, k)) /\ (\A b \in Actors : ~Scanned(b, k))
  <2>1. WorkersOn(k) \cup (ScansOn(k) \ {a}) = {}
    BY <1>2 DEF FetchRows, Overlapping
  <2> QED BY <2>1 DEF Works, Scanned, WorkersOn, ScansOn, Scans
<1>3. /\ \A k \in Leads, w \in Workers : Works(w, k)' <=> Works(w, k)
      /\ \A k \in Leads, b \in Actors : b # a => (Scanned(b, k)' <=> Scanned(b, k))
      /\ \A k \in Leads : Scanned(a, k)' <=> k \in ls
  BY <1>1 DEF Works, Scanned, SameWorker, SameScan, Scans
<1>4. HeldOnce'
  BY <1>1, <1>2, <1>3 DEF HeldOnce
<1>5. RowsTrue' /\ OffList'
  BY <1>1 DEF RowsTrue, OffList, SameScan
<1>6. SavedTrue'
  BY <1>1 DEF SavedTrue, SameWorker
<1>7. \A k \in Leads : Between(k) <=> Between(k)'
  BY <1>1 DEF Between, SameWorker, SameScan, Scans
<1>8. JobsTrue'
  BY <1>1, <1>7 DEF JobsTrue, TablesOK
<1> QED BY <1>4, <1>5, <1>6, <1>8

LEMMA ScanHands ==
    ASSUME PartsOK, HandsInv, NEW a \in Actors, ScanStep(a)
    PROVE  HandsInv'
<1> USE DEF PartsOK, FullOK, HandsInv
<1>q. UNCHANGED worker => \A w \in Workers : SameWorker(w)
  BY DEF worker, SameWorker
<1>1. ASSUME NEW l \in Leads, CheckRow(a, l) PROVE HandsInv'
  <2> DEFINE row == rows[a][l]
             changes == Changes(row, lists[ProcessOf(a)])
  <2>1. /\ apc[a] = "check" /\ l \in todo[a] /\ row \in Rows
        /\ todo'[a] = todo[a] \ {l} /\ \A k \in todo'[a] : rows'[a][k] = rows[a][k]
        /\ apc'[a] \in {"check", "write"}
        /\ apc'[a] = "write" => cur'[a] = l /\ next'[a].doc = row.doc
        /\ UNCHANGED <<result, job, done, mixed>>
    BY <1>1 DEF CheckRow, AskOK, ScanOK, tables, Rows
  <2>2. /\ \A b \in Actors : b # a => SameScan(b)
        /\ \A w \in Workers : SameWorker(w)
    BY <1>1, <1>q DEF CheckRow, AskOK, ScanOK, SameScan
  <2> HIDE DEF changes
  <2>3. /\ \A k \in Leads, w \in Workers : Works(w, k)' <=> Works(w, k)
        /\ \A k \in Leads, b \in Actors : Scanned(b, k)' => Scanned(b, k)
    BY <2>1, <2>2 DEF Works, Scanned, SameWorker, SameScan, Scans
  <2>4. HeldOnce'
    BY <2>1, <2>3 DEF HeldOnce
  <2>5. RowsTrue'
    <3>1. ASSUME NEW k \in Leads \ mixed
          PROVE  /\ k \in todo'[a] => rows'[a][k] = result[k]
                 /\ apc'[a] = "write" /\ cur'[a] = k => next'[a].doc = result[k].doc
      BY <2>1 DEF RowsTrue, Scans
    <3>2. ASSUME NEW b \in Actors, b # a, NEW k \in Leads \ mixed, apc'[b] \in Scans
          PROVE  /\ k \in todo'[b] => rows'[b][k] = result[k]
                 /\ apc'[b] = "write" /\ cur'[b] = k => next'[b].doc = result[k].doc
                 /\ apc'[b] = "job" /\ cur'[b] = k => next'[b].status = result[k].status
      BY <2>2, <3>2 DEF RowsTrue, SameScan
    <3> QED BY <2>1, <3>1, <3>2 DEF RowsTrue
  <2>o. OffList'
    BY <2>1, <2>2 DEF OffList, SameScan
  <2>6. SavedTrue'
    BY <2>1, <2>2 DEF SavedTrue, SameWorker
  <2>7. \A k \in Leads : Between(k) <=> Between(k)'
    BY <2>1, <2>2 DEF Between, SameWorker, SameScan
  <2>8. JobsTrue'
    BY <2>1, <2>7 DEF JobsTrue, TablesOK
  <2> QED BY <2>4, <2>5, <2>o, <2>6, <2>8
<1>2. CASE WriteRow(a)
  <2> DEFINE l == cur[a]
  <2>1. /\ apc[a] = "write" /\ apc'[a] = "job" /\ l \in Leads
        /\ result'[l].status = next[a].status
        /\ \A k \in Leads : k # l => result'[k] = result[k]
        /\ cur' = cur /\ next' = next /\ todo' = todo /\ rows' = rows
        /\ UNCHANGED <<job, done, mixed>>
    <3>1. /\ l \in Leads /\ apc[a] = "write"
          /\ result' = [result EXCEPT ![l] = [result[l] EXCEPT !.status = next[a].status,
                                                               !.failed = next[a].failed]]
      BY <1>2 DEF WriteRow, ScansFull, Scans
    <3>2. [result[l] EXCEPT !.status = next[a].status, !.failed = next[a].failed].status = next[a].status
      BY <3>1 DEF TablesOK, Rows
    <3> QED BY <1>2, <3>1, <3>2 DEF WriteRow, AskOK, TablesOK, scan
  <2>2. /\ \A b \in Actors : b # a => SameScan(b)
        /\ \A w \in Workers : SameWorker(w)
    BY <1>2, <1>q, <2>1 DEF WriteRow, AskOK, SameScan
  <2>3. Scanned(a, l)
    BY <2>1 DEF Scanned, Scans
  <2> HIDE DEF l
  <2>4. l \notin mixed => /\ \A b \in Actors : b # a => ~Scanned(b, l)
                          /\ \A w \in Workers : ~Works(w, l)
    BY <2>1, <2>3 DEF HeldOnce
  <2>5. /\ \A k \in Leads, w \in Workers : Works(w, k)' <=> Works(w, k)
        /\ \A k \in Leads, b \in Actors : Scanned(b, k)' <=> Scanned(b, k)
    BY <2>1, <2>2 DEF Works, Scanned, SameWorker, SameScan, Scans
  <2>6. HeldOnce'
    BY <2>1, <2>5 DEF HeldOnce
  <2>7. OffList'
    BY <2>1, <2>2 DEF OffList, SameScan, Scans
  <2>8. RowsTrue'
    <3>1. ASSUME NEW k \in Leads \ mixed
          PROVE  /\ k \in todo[a] => rows[a][k] = result'[k]
                 /\ k = l => next[a].status = result'[k].status
      <4>1. k = l => k \notin todo[a]
        BY <2>1 DEF OffList, Scans, l
      <4>2. k # l /\ k \in todo[a] => rows[a][k] = result'[k]
        BY <2>1 DEF RowsTrue, Scans
      <4> QED BY <2>1, <4>1, <4>2
    <3>2. ASSUME NEW b \in Actors, b # a, NEW k \in Leads \ mixed, apc[b] \in Scans
          PROVE  /\ k \in todo[b] => rows[b][k] = result'[k]
                 /\ apc[b] = "write" /\ cur[b] = k => next[b].doc = result'[k].doc
                 /\ apc[b] = "job" /\ cur[b] = k => next[b].status = result'[k].status
      <4>1. CASE k # l
        BY <2>1, <3>2, <4>1 DEF RowsTrue
      <4>2. CASE k = l
        BY <2>4, <3>2, <4>2 DEF Scanned
      <4> QED BY <4>1, <4>2
    <3> QED BY <2>1, <2>2, <3>1, <3>2 DEF RowsTrue, SameScan, l
  <2>9. SavedTrue'
    <3>1. ASSUME NEW w \in Workers, wpc[w] = "complete", wlead[w] \notin mixed
          PROVE  result'[wlead[w]].status = wrow[w].status
      <4>1. Works(w, wlead[w]) /\ wlead[w] \in Leads
        BY <3>1 DEF Works, WorkersFull
      <4>2. wlead[w] # l
        BY <2>4, <3>1, <4>1
      <4> QED BY <2>1, <3>1, <4>1, <4>2 DEF SavedTrue
    <3> QED BY <2>1, <2>2, <3>1 DEF SavedTrue, SameWorker
  <2>10. JobsTrue'
    <3>1. \A k \in Leads : /\ k # l => (Between(k) <=> Between(k)')
                           /\ k = l => Between(k)'
      BY <2>1, <2>2 DEF Between, SameWorker, SameScan, l
    <3>2. ASSUME NEW k \in done \ mixed, ~Between(k)' PROVE job[k] = result'[k].status
      <4>1. k \in Leads /\ k # l /\ ~Between(k)
        BY <3>1, <3>2 DEF TablesOK
      <4> QED BY <2>1, <4>1 DEF JobsTrue
    <3> QED BY <2>1, <3>2 DEF JobsTrue
  <2> QED BY <2>6, <2>7, <2>8, <2>9, <2>10
<1>3. CASE WriteJob(a)
  <2> DEFINE l == cur[a]
  <2>1. /\ apc[a] = "job" /\ apc'[a] = "check" /\ l \in Leads
        /\ job'[l] = next[a].status
        /\ \A k \in Leads : k # l => job'[k] = job[k]
        /\ todo' = todo /\ rows' = rows
        /\ UNCHANGED <<result, done, mixed>>
    BY <1>3 DEF WriteJob, ScansFull, Scans, AskOK, TablesOK, history
  <2>2. /\ \A b \in Actors : b # a => SameScan(b)
        /\ \A w \in Workers : SameWorker(w)
    BY <1>3, <1>q, <2>1 DEF WriteJob, AskOK, ScanOK, SameScan
  <2>3. l \notin mixed => next[a].status = result[l].status
    BY <2>1 DEF RowsTrue, Scans
  <2>4. \A k \in Leads : k # l => (Between(k) <=> Between(k)')
    BY <2>1, <2>2 DEF Between, SameWorker, SameScan
  <2> HIDE DEF l
  <2>5. /\ \A k \in Leads, w \in Workers : Works(w, k)' <=> Works(w, k)
        /\ \A k \in Leads, b \in Actors : Scanned(b, k)' => Scanned(b, k)
    BY <2>1, <2>2 DEF Works, Scanned, SameWorker, SameScan, Scans
  <2>6. HeldOnce'
    BY <2>1, <2>5 DEF HeldOnce
  <2>7. OffList'
    BY <2>1, <2>2 DEF OffList, SameScan, Scans
  <2>8. RowsTrue' /\ SavedTrue'
    BY <2>1, <2>2 DEF RowsTrue, SavedTrue, SameScan, SameWorker, Scans
  <2>9. JobsTrue'
    <3>1. ASSUME NEW k \in done \ mixed, ~Between(k)' PROVE job'[k] = result[k].status
      <4>1. CASE k = l
        BY <2>1, <2>3, <3>1, <4>1
      <4>2. CASE k # l
        BY <2>1, <2>4, <3>1, <4>2 DEF JobsTrue, TablesOK
      <4> QED BY <4>1, <4>2
    <3> QED BY <2>1, <3>1 DEF JobsTrue
  <2> QED BY <2>6, <2>7, <2>8, <2>9
<1>4. CASE EndScan(a)
  <2>1. /\ apc[a] = "check" /\ UNCHANGED <<result, job, done, mixed>>
        /\ \A w \in Workers : SameWorker(w)
    BY <1>4, <1>q DEF EndScan, tables, history
  <2>2. \A b \in Actors : SameScan(b) \/ (b = a /\ apc'[b] \notin Scans)
    BY <1>4 DEF EndScan, Leave, scan, AskOK, SameScan, Scans
  <2> QED BY <2>1, <2>2, HandsKept
<1>5. CASE CheckRaises(a)
  <2>1. /\ apc[a] = "check" /\ UNCHANGED <<result, job, done, mixed>>
        /\ \A w \in Workers : SameWorker(w)
    BY <1>5, <1>q DEF CheckRaises, tables
  <2>2. \A b \in Actors : SameScan(b) \/ (b = a /\ apc'[b] \notin Scans)
    BY <1>5 DEF CheckRaises, Dropped, Leave, SameScan, Scans
  <2> QED BY <2>1, <2>2, HandsKept
<1> QED BY <1>1, <1>2, <1>3, <1>4, <1>5 DEF ScanStep

LEMMA DecideHands ==
    ASSUME PartsOK, HandsInv, NEW a \in Admins, Decide(a)
    PROVE  HandsInv'
<1> USE DEF PartsOK, FullOK
<1>a. a \in Actors
  BY DEF Actors
<1>f. ASSUME Fetch(a) PROVE HandsInv'
  <2>1. {l \in todo[a] : Scannable(l)} \subseteq Leads
    BY <1>a DEF ScanOK
  <2> QED BY <1>a, <1>f, <2>1, FetchHands DEF Fetch, Scans
<1>1. ASSUME ~Fetch(a) PROVE HandsInv'
  <2>1. /\ UNCHANGED <<result, job, done, mixed>> /\ \A w \in Workers : SameWorker(w)
    BY <1>1 DEF Decide, Ask, Candidates, Teach, Reload, ReloadRules, Record, tables, worker,
                history, SameWorker
  <2>2. apc[a] \notin Scans
    BY <1>1 DEF Decide, Ask, Candidates, Teach, Reload, ReloadRules, Record, Scans
  <2>3. ASSUME NEW p \in Places \ Scans, apc' = [apc EXCEPT ![a] = p],
               \A b \in Actors : b # a => todo'[b] = todo[b], UNCHANGED <<rows, cur, next>>
        PROVE  HandsInv'
    <3>1. \A b \in Actors : SameScan(b) \/ (apc'[b] \notin Scans /\ apc[b] # "job")
      BY <1>a, <2>2, <2>3 DEF SameScan, AskOK, Scans
    <3> QED BY <2>1, <3>1, HandsKept
  <2>4. ASSUME NEW n \in Names, NEW c \in Choices, Ask(a, n, c) PROVE HandsInv'
    BY <2>3, <2>4 DEF Ask, scan, Places, Scans
  <2>5. CASE Candidates(a)
    <3>1. \A b \in Actors : b # a => todo'[b] = todo[b]
      BY <2>5 DEF Candidates, ScanOK
    <3> QED BY <2>3, <2>5, <3>1 DEF Candidates, Places, Scans
  <2>6. CASE Teach(a) \/ Reload(a) \/ ReloadRules(a)
    BY <2>3, <2>6 DEF Teach, Reload, ReloadRules, scan, Places, Scans
  <2>7. CASE Record(a)
    <3>1. \A b \in Actors : SameScan(b) \/ (apc'[b] \notin Scans /\ apc[b] # "job")
      BY <1>a, <2>2, <2>7 DEF Record, Leave, SameScan, Scans
    <3> QED BY <2>1, <3>1, HandsKept
  <2> QED BY <1>1, <2>4, <2>5, <2>6, <2>7 DEF Decide, Choices
<1> QED BY <1>f, <1>1

LEMMA CrashHands ==
    ASSUME PartsOK, HandsInv, NEW p, NEW as, NEW ws, CrashWith(p, as, ws)
    PROVE  HandsInv'
<1>1. UNCHANGED <<result, job, done>> /\ mixed' = mixed \cup Interrupted(as, ws)
  BY DEF CrashWith, tables
<1>2. ASSUME NEW w \in Workers
      PROVE  SameWorker(w) \/ (wpc'[w] = "idle" /\ (wpc[w] = "complete" => wlead[w] \in mixed'))
  <2>1. CASE w \in ws
    BY <1>1, <2>1 DEF CrashWith, Release, Interrupted
  <2>2. CASE w \notin ws
    BY <2>2 DEF CrashWith, Release, SameWorker
  <2> QED BY <2>1, <2>2
<1>3. ASSUME NEW a \in Actors
      PROVE  SameScan(a) \/ (apc'[a] \notin Scans /\ (apc[a] = "job" => cur[a] \in mixed'))
  <2>1. CASE a \in as
    BY <1>1, <2>1 DEF CrashWith, Dropped, Leave, Interrupted, Scans
  <2>2. CASE a \notin as
    BY <2>2 DEF CrashWith, Dropped, Leave, SameScan
  <2> QED BY <2>1, <2>2
<1> QED BY <1>1, <1>2, <1>3, HandsKept

LEMMA StepHands == PartsOK /\ HandsInv /\ [Next]_vars => HandsInv'
<1> SUFFICES ASSUME PartsOK, HandsInv, [Next]_vars PROVE HandsInv'
  OBVIOUS
<1>1. ASSUME NEW a \in Tools, StartTool(a) PROVE HandsInv'
  BY <1>1, FetchHands DEF StartTool, Actors, Scans
<1>2. ASSUME NEW a \in Tools, CrashTool(a) PROVE HandsInv'
  BY <1>2, CrashHands DEF CrashTool
<1>3. CASE CrashWeb \/ CrashStandalone
  BY <1>3, CrashHands DEF CrashWeb, CrashStandalone
<1>4. CASE UNCHANGED vars
  BY <1>4, HandsKept DEF vars, tables, worker, actor, scan, history, SameWorker, SameScan
<1> QED BY <1>1, <1>2, <1>3, <1>4, WorkerHands, DecideHands, ScanHands DEF Next

\* Result and job tell the same verdict once nobody has the lead in hand,
\* unless two had it at a time or one broke off (worker.py:66-68,
\* reverify.py:34-75).
THEOREM VerdictsTellTheSame == Spec => []VerdictsAgree
<1>1. Init => PartsOK /\ HandsInv
  BY InitTypes, InitHands
<1>2. PartsOK /\ HandsInv /\ [Next]_vars => PartsOK' /\ HandsInv'
  BY StepTypes, StepHands
<1> QED BY <1>1, <1>2, HandsInvSuffices, PTL DEF Spec

-----------------------------------------------------------------------------
(* Verified leads.                                                         *)

\* A verified row passes the checks with these names, and is not flagged.
JustIn(row, names) ==
    row.status = "verified" => ~row.doc.flagged /\ Status(row.doc, names) = "verified"

ListsOnFile == \A p \in Processes : lists[p] \subseteq file
HandsJust ==
    /\ \A w \in Workers : wpc[w] \in {"save", "complete"} => JustIn(wrow[w], file)
    /\ \A a \in Actors : apc[a] \in {"write", "job"} => JustIn(next[a], file)
ResultsJust == \A l \in Leads \ mixed : JustIn(result[l], file)

JustInv == ListsOnFile /\ HandsJust /\ ResultsJust

LEMMA StatusGrows ==
    ASSUME NEW d, NEW few, NEW more, few \subseteq more, Status(d, few) = "verified"
    PROVE  Status(d, more) = "verified"
<1>1. CheckReceiver(d, few) => CheckReceiver(d, more)
  BY DEF CheckReceiver
<1> QED BY <1>1 DEF Status, Failed

LEMMA JustGrows ==
    ASSUME NEW row, NEW few, NEW more, few \subseteq more, JustIn(row, few)
    PROVE  JustIn(row, more)
BY StatusGrows DEF JustIn

LEMMA InitJust == Init => JustInv
BY DEF Init, JustInv, ListsOnFile, HandsJust, ResultsJust, JustIn, NoRow

\* Nothing is unlearnt, and rows in hand are dropped or kept.
LEMMA JustKept ==
    ASSUME PartsOK, JustInv, file \subseteq file', UNCHANGED result, mixed \subseteq mixed',
           \A p \in Processes : lists'[p] \subseteq file',
           \A w \in Workers : SameWorker(w) \/ wpc'[w] \notin {"save", "complete"},
           \A a \in Actors : SameScan(a) \/ apc'[a] \notin {"write", "job"}
    PROVE  JustInv'
<1>1. HandsJust'
  BY JustGrows DEF JustInv, HandsJust, SameWorker, SameScan
<1>2. ResultsJust'
  BY JustGrows DEF JustInv, ResultsJust
<1> QED BY <1>1, <1>2 DEF JustInv, ListsOnFile

LEMMA HomeIsProcess == \A w \in Workers : Home(w) \in Processes
BY DEF Home, Processes

LEMMA ProcessIsProcess == \A a \in Actors : ProcessOf(a) \in Processes
BY DEF ProcessOf, Processes, Actors

LEMMA WorkerJust ==
    ASSUME PartsOK, JustInv, NEW w \in Workers, WorkerStep(w)
    PROVE  JustInv'
<1> USE DEF PartsOK, FullOK
<1>q. /\ file' = file /\ lists' = lists /\ \A a \in Actors : SameScan(a)
      /\ \A p \in Processes : lists'[p] \subseteq file'
  BY DEF WorkerStep, Extract, VerifyLead, VerifyRaises, SaveResult, CompleteJob, config, actor,
         scan, SameScan, JustInv, ListsOnFile
<1>1. ASSUME NEW l \in Leads, NEW d \in Docs, Extract(w, l, d) PROVE JustInv'
  <2>1. \A v \in Workers : SameWorker(v) \/ wpc'[v] \notin {"save", "complete"}
    BY <1>1 DEF Extract, WorkOK, SameWorker
  <2> QED BY <1>1, <1>q, <2>1, JustKept DEF Extract, tables
<1>2. CASE VerifyLead(w)
  <2> DEFINE d == wrow[w].doc
             allow == lists[Home(w)]
  <2>1. d \in Document /\ allow \subseteq file
    BY <1>2, HomeIsProcess DEF VerifyLead, WorkersFull, JustInv, ListsOnFile
  <2>2. wrow'[w] = Row(d, allow) /\ \A v \in Workers : v # w => SameWorker(v)
    BY <1>2 DEF VerifyLead, WorkOK, SameWorker
  <2> HIDE DEF d, allow
  <2>3. JustIn(Row(d, allow), allow)
    <3>1. Row(d, allow).doc = d
      BY <2>1, VerdictTypes
    <3>2. Row(d, allow).status = IF d.flagged THEN "unverified" ELSE Status(d, allow)
      BY DEF Row
    <3> QED BY <3>1, <3>2 DEF JustIn
  <2>4. JustIn(wrow'[w], file)
    BY <2>1, <2>2, <2>3, JustGrows
  <2>5. HandsJust'
    BY <1>q, <2>2, <2>4 DEF JustInv, HandsJust, SameWorker, SameScan
  <2>6. ResultsJust'
    BY <1>2, <1>q DEF VerifyLead, tables, history, JustInv, ResultsJust
  <2> QED BY <1>q, <2>5, <2>6 DEF JustInv, ListsOnFile
<1>3. CASE VerifyRaises(w) \/ CompleteJob(w)
  <2>1. \A v \in Workers : SameWorker(v) \/ wpc'[v] \notin {"save", "complete"}
    BY <1>3 DEF VerifyRaises, CompleteJob, Release, SameWorker
  <2> QED BY <1>3, <1>q, <2>1, JustKept DEF VerifyRaises, CompleteJob, tables, history
<1>4. CASE SaveResult(w)
  <2>1. JustIn(wrow[w], file) /\ wlead[w] \in Leads
    BY <1>4 DEF SaveResult, JustInv, HandsJust, WorkersFull
  <2>2. HandsJust'
    <3>1. \A v \in Workers : wpc'[v] \in {"save", "complete"} => wpc[v] \in {"save", "complete"}
      BY <1>4 DEF SaveResult, WorkOK
    <3>2. wrow' = wrow
      BY <1>4 DEF SaveResult
    <3> QED BY <1>q, <3>1, <3>2 DEF JustInv, HandsJust, SameScan
  <2>3. ResultsJust'
    <3>1. \A l \in Leads : result'[l] = result[l] \/ result'[l] = wrow[w]
      BY <1>4 DEF SaveResult, TablesOK
    <3> QED BY <1>4, <1>q, <2>1, <3>1 DEF SaveResult, JustInv, ResultsJust
  <2> QED BY <1>q, <2>2, <2>3 DEF JustInv, ListsOnFile
<1> QED BY <1>1, <1>2, <1>3, <1>4 DEF WorkerStep

LEMMA ScanJust ==
    ASSUME PartsOK, HandsInv, JustInv, NEW a \in Actors, ScanStep(a)
    PROVE  JustInv'
<1> USE DEF PartsOK, FullOK
<1>q. /\ file' = file /\ lists' = lists /\ \A w \in Workers : SameWorker(w)
      /\ \A p \in Processes : lists'[p] \subseteq file'
  BY DEF ScanStep, CheckRow, WriteRow, WriteJob, EndScan, CheckRaises, config, worker,
         SameWorker, JustInv, ListsOnFile
<1>1. ASSUME NEW l \in Leads, CheckRow(a, l) PROVE JustInv'
  <2> DEFINE row == rows[a][l]
             allow == lists[ProcessOf(a)]
  <2>1. row \in Rows /\ allow \subseteq file
    BY <1>1, ProcessIsProcess DEF ScanOK, JustInv, ListsOnFile
  <2>2. /\ \A b \in Actors : b # a => SameScan(b)
        /\ apc'[a] = "check" \/ ( /\ Changes(row, allow) /\ apc'[a] = "write"
                                  /\ next'[a] = [row EXCEPT !.status = Status(row.doc, allow),
                                                            !.failed = FailedFields(row.doc, allow)])
    BY <1>1 DEF CheckRow, AskOK, ScanOK, SameScan
  <2> HIDE DEF row, allow
  <2>3. apc'[a] = "write" => JustIn(next'[a], allow)
    BY <2>1, <2>2 DEF JustIn, Changes, Rows
  <2>4. apc'[a] = "write" => JustIn(next'[a], file)
    BY <2>1, <2>3, JustGrows
  <2>5. HandsJust'
    BY <1>q, <2>2, <2>4 DEF JustInv, HandsJust, SameScan, SameWorker
  <2>6. ResultsJust'
    BY <1>1, <1>q DEF CheckRow, tables, JustInv, ResultsJust
  <2> QED BY <1>q, <2>5, <2>6 DEF JustInv, ListsOnFile
<1>2. CASE WriteRow(a)
  <2> DEFINE l == cur[a]
  <2>1. /\ apc[a] = "write" /\ l \in Leads /\ next[a] \in Rows /\ result[l] \in Rows
        /\ JustIn(next[a], file) /\ mixed' = mixed
        /\ result' = [result EXCEPT ![l] = [result[l] EXCEPT !.status = next[a].status,
                                                             !.failed = next[a].failed]]
    BY <1>2 DEF WriteRow, ScansFull, Scans, ScanOK, TablesOK, JustInv, HandsJust
  <2>2. l \notin mixed => next[a].doc = result[l].doc
    BY <2>1 DEF HandsInv, RowsTrue, Scans
  <2> HIDE DEF l
  <2>3. l \notin mixed => JustIn(result'[l], file)
    <3>1. /\ result'[l] = [result[l] EXCEPT !.status = next[a].status, !.failed = next[a].failed]
          /\ result'[l].status = next[a].status /\ result'[l].doc = result[l].doc
      BY <2>1 DEF TablesOK, Rows
    <3> QED BY <2>1, <2>2, <3>1 DEF JustIn
  <2>4. ResultsJust'
    BY <1>q, <2>1, <2>3 DEF JustInv, ResultsJust, TablesOK
  <2>5. HandsJust'
    <3>1. \A b \in Actors : apc'[b] \in {"write", "job"} => apc[b] \in {"write", "job"}
      BY <1>2 DEF WriteRow, AskOK
    <3>2. next' = next
      BY <1>2 DEF WriteRow, scan
    <3> QED BY <1>q, <3>1, <3>2 DEF JustInv, HandsJust, SameWorker
  <2> QED BY <1>q, <2>4, <2>5 DEF JustInv, ListsOnFile
<1>3. CASE WriteJob(a)
  <2>1. \A b \in Actors : SameScan(b) \/ apc'[b] \notin {"write", "job"}
    BY <1>3 DEF WriteJob, AskOK, ScanOK, SameScan
  <2> QED BY <1>3, <1>q, <2>1, JustKept DEF WriteJob, history
<1>4. CASE EndScan(a)
  <2>1. \A b \in Actors : SameScan(b) \/ apc'[b] \notin {"write", "job"}
    BY <1>4 DEF EndScan, Leave, scan, AskOK, SameScan
  <2> QED BY <1>4, <1>q, <2>1, JustKept DEF EndScan, tables, history
<1>5. CASE CheckRaises(a)
  <2>1. \A b \in Actors : SameScan(b) \/ apc'[b] \notin {"write", "job"}
    BY <1>5 DEF CheckRaises, Dropped, Leave, SameScan
  <2> QED BY <1>5, <1>q, <2>1, JustKept DEF CheckRaises, tables
<1> QED BY <1>1, <1>2, <1>3, <1>4, <1>5 DEF ScanStep

LEMMA DecideJust ==
    ASSUME PartsOK, JustInv, NEW a \in Admins, Decide(a)
    PROVE  JustInv'
<1> USE DEF PartsOK, FullOK
<1>1. /\ \A w \in Workers : SameWorker(w)
      /\ result' = result /\ mixed \subseteq mixed' /\ file \subseteq file'
  BY DEF Decide, Ask, Candidates, Teach, Reload, ReloadRules, Fetch, FetchRows, Record, config,
         tables, worker, history, Overlapping, SameWorker
<1>2. \A p \in Processes : lists'[p] \subseteq file'
  <2>1. \/ UNCHANGED <<file, lists>>
        \/ file \subseteq file' /\ lists' = [lists EXCEPT !["web"] = {}]
        \/ file' = file /\ lists' = [lists EXCEPT !["web"] = file]
    BY DEF Decide, Ask, Candidates, Teach, Reload, ReloadRules, Fetch, Record, config
  <2> QED BY <2>1 DEF JustInv, ListsOnFile, ConfigOK
<1>3. \A b \in Actors : SameScan(b) \/ apc'[b] \notin {"write", "job"}
  <2>1. ASSUME NEW p, p \notin {"write", "job"}, apc' = [apc EXCEPT ![a] = p],
               \A b \in Actors : b # a => todo'[b] = todo[b] /\ rows'[b] = rows[b],
               UNCHANGED <<cur, next>>
        PROVE  \A b \in Actors : SameScan(b) \/ apc'[b] \notin {"write", "job"}
    BY <2>1 DEF SameScan, AskOK
  <2>2. ASSUME NEW n \in Names, NEW c \in Choices, Ask(a, n, c)
        PROVE  \A b \in Actors : SameScan(b) \/ apc'[b] \notin {"write", "job"}
    BY <2>1, <2>2 DEF Ask, scan
  <2>3. CASE Candidates(a)
    <3>1. \A b \in Actors : b # a => todo'[b] = todo[b]
      BY <2>3 DEF Candidates, ScanOK
    <3> QED BY <2>1, <2>3, <3>1 DEF Candidates
  <2>4. CASE Teach(a) \/ Reload(a) \/ ReloadRules(a)
    BY <2>1, <2>4 DEF Teach, Reload, ReloadRules, scan
  <2>5. CASE Fetch(a)
    <3>1. \A b \in Actors : b # a => todo'[b] = todo[b] /\ rows'[b] = rows[b]
      BY <2>5 DEF Fetch, FetchRows, ScanOK
    <3> QED BY <2>1, <2>5, <3>1 DEF Fetch, FetchRows
  <2>6. CASE Record(a)
    BY <2>6 DEF Record, Leave, SameScan
  <2> QED BY <2>2, <2>3, <2>4, <2>5, <2>6 DEF Decide, Choices
<1> QED BY <1>1, <1>2, <1>3, JustKept

LEMMA CrashJust ==
    ASSUME PartsOK, JustInv, NEW p, NEW as, NEW ws, CrashWith(p, as, ws)
    PROVE  JustInv'
<1>1. file' = file /\ result' = result /\ mixed \subseteq mixed'
  BY DEF CrashWith, tables
<1>2. \A q \in Processes : lists'[q] \subseteq file'
  BY <1>1 DEF CrashWith, JustInv, ListsOnFile, PartsOK, ConfigOK
<1>3. /\ \A w \in Workers : SameWorker(w) \/ wpc'[w] \notin {"save", "complete"}
      /\ \A a \in Actors : SameScan(a) \/ apc'[a] \notin {"write", "job"}
  BY DEF CrashWith, Dropped, Leave, Release, SameWorker, SameScan
<1> QED BY <1>1, <1>2, <1>3, JustKept

LEMMA StepJust == PartsOK /\ HandsInv /\ JustInv /\ [Next]_vars => JustInv'
<1> SUFFICES ASSUME PartsOK, HandsInv, JustInv, [Next]_vars PROVE JustInv'
  OBVIOUS
<1>1. ASSUME NEW a \in Tools, StartTool(a) PROVE JustInv'
  <2>1. /\ file' = file /\ lists' = [lists EXCEPT ![a] = file] /\ result' = result
        /\ mixed \subseteq mixed' /\ \A w \in Workers : SameWorker(w)
    BY <1>1 DEF StartTool, FetchRows, tables, worker, Overlapping, SameWorker
  <2>2. \A p \in Processes : lists'[p] \subseteq file'
    BY <2>1 DEF JustInv, ListsOnFile, PartsOK, ConfigOK
  <2>3. \A b \in Actors : SameScan(b) \/ apc'[b] \notin {"write", "job"}
    BY <1>1 DEF StartTool, FetchRows, PartsOK, AskOK, ScanOK, SameScan
  <2> QED BY <2>1, <2>2, <2>3, JustKept
<1>2. ASSUME NEW a \in Tools, CrashTool(a) PROVE JustInv'
  BY <1>2, CrashJust DEF CrashTool
<1>3. CASE CrashWeb \/ CrashStandalone
  BY <1>3, CrashJust DEF CrashWeb, CrashStandalone
<1>4. CASE UNCHANGED vars
  <2>1. \A p \in Processes : lists'[p] \subseteq file'
    BY <1>4 DEF vars, config, JustInv, ListsOnFile
  <2> QED BY <1>4, <2>1, JustKept DEF vars, config, tables, worker, actor, scan, history, SameWorker, SameScan
<1> QED BY <1>1, <1>2, <1>3, <1>4, WorkerJust, DecideJust, ScanJust DEF Next

\* A verified lead passes the checks with the receivers on file and was not
\* flagged by the ledger, unless two had it in hand (server.py:582-584).
THEOREM VerifiedRightly == Spec => []VerifiedIsJustified
<1>1. Init => PartsOK /\ HandsInv /\ JustInv
  BY InitTypes, InitHands, InitJust
<1>2. PartsOK /\ HandsInv /\ JustInv /\ [Next]_vars => PartsOK' /\ HandsInv' /\ JustInv'
  BY StepTypes, StepHands, StepJust
<1>3. JustInv => VerifiedIsJustified
  BY DEF JustInv, ResultsJust, JustIn, VerifiedIsJustified
<1> QED BY <1>1, <1>2, <1>3, PTL DEF Spec

-----------------------------------------------------------------------------
(* Approvals cover the leads of their payee.                               *)

\* The lists of the web process are those on file unless the lock is held.
LockInv ==
    /\ \A a \in Admins : apc[a] \in {"reload", "rules"} <=> lock = a
    /\ lock = None => lists["web"] = file
    /\ \A a \in Admins : apc[a] = "rules" => lists["web"] = file

\* A lead that waits for this receiver alone and was not missed: no approval is
\* recorded, and one under way still has the lead ahead of it.
Ahead(a, l) ==
    /\ apc[a] \in {"teach", "reload", "rules", "fetch"} => l \in todo[a]
    /\ apc[a] \in Scans => \/ l \in todo[a] /\ rows[a][l] = result[l]
                           \/ apc[a] = "write" /\ cur[a] = l
    /\ apc[a] # "record"
Covering(a, n) == apc[a] \notin {"idle", "candidates"} /\ pair[a] = n /\ choice[a] = "approved"
AheadOfAll ==
    \A l \in Leads \ missed : Ready(result[l]) =>
        /\ decision[result[l].doc.payee] # "approved"
        /\ \A a \in Admins : Covering(a, result[l].doc.payee) => Ahead(a, l)

CoverInv == LockInv /\ AheadOfAll

LEMMA CoverInvSuffices == CoverInv => ApprovalCovers
BY DEF CoverInv, AheadOfAll, ApprovalCovers

LEMMA InitCover == Init => CoverInv
BY ApprovalsAssumption DEF Init, CoverInv, LockInv, AheadOfAll, Ready, NoRow, Processes, Actors

\* A row that waits for its receiver alone is settled by any list that has it.
LEMMA ReadySettles ==
    ASSUME NEW row \in Rows, Ready(row), NEW allow, row.doc.payee \in allow
    PROVE  Changes(row, allow)
<1>1. row.doc.payee # None /\ row.doc.wrong = {} /\ ~row.doc.incoming /\ ~row.doc.flagged
      /\ row.status = "unverified"
  BY DEF Ready
<1>2. CheckReceiver(row.doc, allow)
  BY <1>1 DEF CheckReceiver, SoftMatch
<1> QED BY <1>1, <1>2 DEF Changes, Status, Failed

\* The save of a row: a lead that waits for its receiver is missed, if an
\* approval of it is under way or recorded.
LEMMA SaveCover ==
    ASSUME PartsOK, CoverInv, NEW l \in Leads, missed' = Missing(l, result'[l]),
           \A k \in Leads : k # l => result'[k] = result[k],
           UNCHANGED <<decision, request, todo, rows, cur>>,
           \A a \in Admins : apc'[a] = apc[a] \/ (apc[a] = "write" /\ cur[a] = l /\ apc'[a] = "job")
    PROVE  AheadOfAll'
<1> USE DEF PartsOK, FullOK, CoverInv
<1>1. ASSUME NEW a \in Admins, NEW n PROVE Covering(a, n)' <=> Covering(a, n)
  BY DEF Covering, request
<1>2. ASSUME NEW k \in Leads \ missed', Ready(result'[k])
      PROVE  /\ decision[result'[k].doc.payee] # "approved"
             /\ \A a \in Admins : Covering(a, result[k].doc.payee)' => Ahead(a, k)'
  <2>1. CASE k = l
    <3>1. ~Approving(result'[l].doc.payee)
      BY <1>2, <2>1 DEF Missing
    <3> QED BY <1>1, <2>1, <3>1 DEF Approving, Covering
  <2>2. CASE k # l
    <3>1. k \in Leads \ missed /\ result'[k] = result[k]
      BY <1>2, <2>2 DEF Missing
    <3>2. \A a \in Admins : Ahead(a, k) => Ahead(a, k)'
      BY <2>2, <3>1 DEF Ahead, Scans
    <3> QED BY <1>1, <1>2, <3>1, <3>2 DEF AheadOfAll
  <2> QED BY <2>1, <2>2
<1> QED BY <1>2 DEF AheadOfAll

\* A step that saves no row; requests go on, or end.
LEMMA AheadKept ==
    ASSUME PartsOK, CoverInv, UNCHANGED <<result, decision>>, missed \subseteq missed',
           \A a \in Admins :
               \/ apc'[a] \in {"idle", "candidates"}
               \/ /\ apc[a] \notin {"idle", "candidates"} /\ pair'[a] = pair[a] /\ choice'[a] = choice[a]
                  /\ \A l \in Leads \ missed' :
                         Ready(result[l]) /\ Covering(a, result[l].doc.payee) /\ Ahead(a, l) => Ahead(a, l)'
    PROVE  AheadOfAll'
<1>1. ASSUME NEW l \in Leads \ missed', Ready(result[l]), NEW a \in Admins,
             Covering(a, result[l].doc.payee)'
      PROVE  Ahead(a, l)'
  <2>1. /\ apc[a] \notin {"idle", "candidates"} /\ pair'[a] = pair[a] /\ choice'[a] = choice[a]
        /\ Ahead(a, l) => Ahead(a, l)'
    BY <1>1 DEF Covering
  <2>2. Covering(a, result[l].doc.payee)
    BY <1>1, <2>1 DEF Covering
  <2> QED BY <1>1, <2>1, <2>2 DEF CoverInv, AheadOfAll
<1> QED BY <1>1 DEF CoverInv, AheadOfAll

\* The lock, where files and places stay.
LEMMA LockKept ==
    ASSUME PartsOK, CoverInv, UNCHANGED <<file, lock>>, lists'["web"] = lists["web"],
           \A a \in Admins : \/ apc'[a] = apc[a]
                             \/ /\ apc[a] \notin {"reload", "rules"}
                                /\ apc'[a] \notin {"reload", "rules"}
    PROVE  LockInv'
BY DEF CoverInv, LockInv

LEMMA WorkerCover ==
    ASSUME PartsOK, CoverInv, NEW w \in Workers, WorkerStep(w)
    PROVE  CoverInv'
<1> USE DEF PartsOK, FullOK
<1>1. UNCHANGED <<config, actor, decision>>
  BY DEF WorkerStep, Extract, VerifyLead, VerifyRaises, SaveResult, CompleteJob, tables
<1>2. LockInv'
  BY <1>1, LockKept DEF config, actor
<1>3. CASE SaveResult(w)
  <2>1. /\ wlead[w] \in Leads /\ missed' = Missing(wlead[w], result'[wlead[w]])
        /\ \A k \in Leads : k # wlead[w] => result'[k] = result[k]
    BY <1>3 DEF SaveResult, WorkersFull, TablesOK
  <2> QED BY <1>1, <1>2, <2>1, SaveCover DEF actor, scan, CoverInv
<1>4. CASE ~SaveResult(w)
  <2>1. result' = result /\ missed' = missed
    BY <1>4 DEF WorkerStep, Extract, VerifyLead, VerifyRaises, CompleteJob, tables, history
  <2>2. AheadOfAll'
    BY <1>1, <2>1 DEF actor, request, scan, CoverInv, AheadOfAll, Covering, Ahead
  <2> QED BY <1>2, <2>2 DEF CoverInv
<1> QED BY <1>3, <1>4

LEMMA ScanCover ==
    ASSUME PartsOK, FileInv, CoverInv, NEW a \in Actors, ScanStep(a)
    PROVE  CoverInv'
<1> USE DEF PartsOK, FullOK
<1>n. "reload" \notin Scans /\ "rules" \notin Scans /\ "fetch" \notin Scans /\ "teach" \notin Scans
      /\ "record" \notin Scans /\ "idle" \notin Scans /\ "candidates" \notin Scans
  BY DEF Scans
<1>1. ASSUME NEW l \in Leads, CheckRow(a, l) PROVE CoverInv'
  <2> DEFINE row == rows[a][l]
             allow == lists[ProcessOf(a)]
             changes == Changes(row, allow)
  <2>1. /\ apc[a] = "check" /\ l \in todo[a] /\ row \in Rows
        /\ todo'[a] = todo[a] \ {l} /\ \A k \in todo'[a] : rows'[a][k] = rows[a][k]
        /\ apc'[a] = IF changes THEN "write" ELSE "check"
        /\ changes => cur'[a] = l
        /\ missed' = IF a \in Admins /\ lock # None /\ ~changes THEN Missing(l, row) ELSE missed
        /\ \A b \in Actors : b # a => SameScan(b)
        /\ UNCHANGED <<config, result, decision, request>>
    BY <1>1 DEF CheckRow, AskOK, ScanOK, tables, SameScan
  <2>2. LockInv'
    BY <1>n, <2>1, LockKept DEF config, SameScan, Actors, Scans
  <2> HIDE DEF row, allow, changes
  <2>3. missed \subseteq missed'
    BY <2>1 DEF Missing
  <2>4. ASSUME a \in Admins, NEW k \in Leads \ missed', Ready(result[k]),
               Covering(a, result[k].doc.payee), Ahead(a, k)
        PROVE  Ahead(a, k)'
    <3>1. k \in todo[a] /\ rows[a][k] = result[k]
      BY <2>1, <2>4 DEF Ahead, Scans
    <3>2. CASE k # l
      BY <2>1, <3>1, <3>2 DEF Ahead, Scans
    <3>3. CASE k = l
      <4>1. row = result[k] /\ Ready(row) /\ row.doc.payee = pair[a] /\ choice[a] = "approved"
        BY <2>4, <3>1, <3>3 DEF Covering, row
      <4>2. changes
        <5>1. CASE lock = None
          <6>1. allow = file
            BY <2>4, <5>1 DEF CoverInv, LockInv, ProcessOf, allow
          <6>2. pair[a] \in file
            BY <2>1, <2>4, <4>1 DEF FileInv, TaughtOnFile, Late
          <6> QED BY <2>1, <4>1, <6>1, <6>2, ReadySettles DEF changes
        <5>2. CASE lock # None
          <6>1. Approving(row.doc.payee)
            BY <2>1, <2>4, <4>1 DEF Approving
          <6> QED BY <2>1, <2>4, <3>3, <4>1, <5>2, <6>1 DEF Missing
        <5> QED BY <5>1, <5>2
      <4> QED BY <2>1, <3>3, <4>2 DEF Ahead, Scans
    <3> QED BY <3>2, <3>3
  <2>5. ASSUME NEW b \in Admins, NEW k \in Leads, b # a, Ahead(b, k) PROVE Ahead(b, k)'
    BY <2>1, <2>5 DEF Ahead, SameScan, Actors
  <2>6. AheadOfAll'
    <3>1. ASSUME NEW b \in Admins
          PROVE  \/ apc'[b] \in {"idle", "candidates"}
                 \/ /\ apc[b] \notin {"idle", "candidates"} /\ pair'[b] = pair[b] /\ choice'[b] = choice[b]
                    /\ \A k \in Leads \ missed' :
                           Ready(result[k]) /\ Covering(b, result[k].doc.payee) /\ Ahead(b, k) => Ahead(b, k)'
      <4>1. CASE b = a
        BY <2>1, <2>4, <4>1 DEF request
      <4>2. CASE b # a
        BY <2>1, <2>5, <4>2 DEF request, SameScan, Actors
      <4> QED BY <4>1, <4>2
    <3> QED BY <2>1, <2>3, <3>1, AheadKept
  <2> QED BY <2>2, <2>6 DEF CoverInv
<1>2. CASE WriteRow(a)
  <2>1. /\ cur[a] \in Leads /\ missed' = Missing(cur[a], result'[cur[a]])
        /\ \A k \in Leads : k # cur[a] => result'[k] = result[k]
        /\ apc[a] = "write" /\ apc'[a] = "job" /\ \A b \in Actors : b # a => apc'[b] = apc[b]
        /\ UNCHANGED <<config, decision, request, scan>>
    BY <1>2 DEF WriteRow, ScansFull, Scans, TablesOK, AskOK
  <2>2. AheadOfAll'
    BY <2>1, SaveCover DEF scan, Actors
  <2>3. LockInv'
    BY <2>1, LockKept DEF config, Actors
  <2> QED BY <2>2, <2>3 DEF CoverInv
<1>3. CASE WriteJob(a)
  <2>1. /\ apc[a] = "job" /\ apc'[a] = "check" /\ \A b \in Actors : b # a => SameScan(b)
        /\ todo' = todo /\ rows' = rows
        /\ UNCHANGED <<config, result, decision, request, missed>>
    BY <1>3 DEF WriteJob, AskOK, ScanOK, SameScan, history
  <2>2. \A b \in Admins, k \in Leads : Ahead(b, k) => Ahead(b, k)'
    BY <2>1 DEF Ahead, SameScan, Scans, Actors
  <2>3. \A b \in Admins : apc[b] \in {"idle", "candidates"} <=> apc'[b] \in {"idle", "candidates"}
    BY <2>1 DEF SameScan, Actors
  <2>4. AheadOfAll'
    BY <2>1, <2>2, <2>3, AheadKept DEF request
  <2>5. LockInv'
    BY <2>1, LockKept DEF config, SameScan, Actors
  <2> QED BY <2>4, <2>5 DEF CoverInv
<1>4. CASE EndScan(a)
  <2>1. /\ apc[a] = "check" /\ todo[a] = {} /\ UNCHANGED <<config, result, decision, missed>>
    BY <1>4 DEF EndScan, tables, history
  <2>2. CASE a \in Tools
    <3>1. \A b \in Admins : SameScan(b) /\ pair'[b] = pair[b] /\ choice'[b] = choice[b]
      BY <1>4, <2>2, Apart DEF EndScan, Leave, SameScan, Actors
    <3>2. \A b \in Admins, k \in Leads : Ahead(b, k) => Ahead(b, k)'
      BY <2>1, <3>1 DEF Ahead, SameScan
    <3>3. AheadOfAll'
      BY <2>1, <3>1, <3>2, AheadKept DEF SameScan
    <3>4. LockInv'
      BY <2>1, <3>1, LockKept DEF config, SameScan
    <3> QED BY <3>3, <3>4 DEF CoverInv
  <2>3. CASE a \notin Tools
    <3>1. /\ a \in Admins /\ apc'[a] = "record" /\ UNCHANGED <<request, scan>>
          /\ \A b \in Actors : b # a => apc'[b] = apc[b]
      BY <1>4, <2>3 DEF EndScan, AskOK, Actors
    <3>2. \A b \in Admins, k \in Leads : Ahead(b, k) => Ahead(b, k)'
      BY <2>1, <3>1 DEF Ahead, scan, Scans, Actors
    <3>3. \A b \in Admins : apc[b] \in {"idle", "candidates"} <=> apc'[b] \in {"idle", "candidates"}
      BY <2>1, <3>1 DEF Actors
    <3>4. AheadOfAll'
      BY <2>1, <3>1, <3>2, <3>3, AheadKept DEF request
    <3>5. LockInv'
      BY <2>1, <3>1, LockKept DEF config, Actors
    <3> QED BY <3>4, <3>5 DEF CoverInv
  <2> QED BY <2>2, <2>3
<1>5. CASE CheckRaises(a)
  <2>1. /\ apc[a] = "check" /\ UNCHANGED <<config, result, decision, missed>>
        /\ apc'[a] = "idle"
        /\ \A b \in Admins : b # a => SameScan(b) /\ pair'[b] = pair[b] /\ choice'[b] = choice[b]
    BY <1>5 DEF CheckRaises, Dropped, Leave, config, tables, SameScan, Actors
  <2>2. \A b \in Admins, k \in Leads : b # a /\ Ahead(b, k) => Ahead(b, k)'
    BY <2>1 DEF Ahead, SameScan
  <2>3. AheadOfAll'
    BY <2>1, <2>2, AheadKept DEF SameScan
  <2>4. LockInv'
    BY <2>1, LockKept DEF config, SameScan
  <2> QED BY <2>3, <2>4 DEF CoverInv
<1> QED BY <1>1, <1>2, <1>3, <1>4, <1>5 DEF ScanStep

LEMMA DecideCover ==
    ASSUME PartsOK, FileInv, CoverInv, NEW a \in Admins, Decide(a)
    PROVE  CoverInv'
<1> USE DEF PartsOK, FullOK
<1>a. a \in Actors /\ Admins \subseteq Actors /\ a # None /\ "web" \in Processes
  BY ApprovalsAssumption DEF Actors, Processes
\* A step to a place in which the lead is still ahead, where it was before.
<1>m. ASSUME NEW p, apc' = [apc EXCEPT ![a] = p], apc[a] \notin {"idle", "candidates"},
             \A b \in Actors : b # a => todo'[b] = todo[b] /\ rows'[b] = rows[b],
             UNCHANGED <<result, decision, request, cur, missed>>,
             \A l \in Leads \ missed : Ready(result[l]) /\ Ahead(a, l) => Ahead(a, l)'
      PROVE  AheadOfAll'
  <2>1. \A b \in Admins : b # a => apc'[b] = apc[b]
    BY <1>a, <1>m DEF AskOK
  <2>2. \A b \in Admins, l \in Leads : b # a /\ Ahead(b, l) => Ahead(b, l)'
    BY <1>a, <1>m, <2>1 DEF Ahead
  <2> QED BY <1>m, <2>1, <2>2, AheadKept DEF request
<1>1. ASSUME NEW n \in Names, NEW c \in Choices, Ask(a, n, c) PROVE CoverInv'
  <2>1. /\ apc[a] = "idle" /\ apc'[a] = "candidates"
        /\ \A b \in Admins : b # a => apc'[b] = apc[b] /\ pair'[b] = pair[b] /\ choice'[b] = choice[b]
        /\ UNCHANGED <<config, result, decision, scan, missed>>
    BY <1>1, <1>a DEF Ask, AskOK, tables
  <2>2. \A b \in Admins, l \in Leads : b # a /\ Ahead(b, l) => Ahead(b, l)'
    BY <2>1 DEF Ahead, scan
  <2>3. AheadOfAll'
    BY <2>1, <2>2, AheadKept
  <2>4. LockInv'
    BY <2>1, LockKept DEF config
  <2> QED BY <2>3, <2>4 DEF CoverInv
<1>2. CASE Candidates(a)
  <2>1. /\ apc[a] = "candidates"
        /\ apc'[a] = IF choice[a] = "approved" THEN "teach" ELSE "record"
        /\ choice[a] = "approved" =>
               todo'[a] = {l \in Leads : Candidate(result[l]) /\ result[l].doc.payee = pair[a]}
        /\ \A b \in Admins : b # a => apc'[b] = apc[b] /\ todo'[b] = todo[b]
        /\ UNCHANGED <<config, result, decision, request, rows, cur, missed>>
    BY <1>2, <1>a DEF Candidates, AskOK, ScanOK, tables, history
  <2>2. ASSUME NEW l \in Leads \ missed, Ready(result[l]),
               NEW b \in Admins, Covering(b, result[l].doc.payee)'
        PROVE  Ahead(b, l)'
    <3>1. CASE b = a
      <4>1. pair[a] = result[l].doc.payee /\ choice[a] = "approved"
        BY <2>1, <2>2, <3>1 DEF Covering, request
      <4>2. l \in todo'[a]
        BY <2>1, <2>2, <4>1 DEF Ready, Candidate
      <4> QED BY <2>1, <3>1, <4>1, <4>2 DEF Ahead, Scans
    <3>2. CASE b # a
      <4>1. Covering(b, result[l].doc.payee)
        BY <2>1, <2>2, <3>2 DEF Covering, request
      <4>2. Ahead(b, l)
        BY <2>2, <4>1 DEF CoverInv, AheadOfAll
      <4> QED BY <2>1, <3>2, <4>2 DEF Ahead
    <3> QED BY <3>1, <3>2
  <2>3. AheadOfAll'
    BY <2>1, <2>2 DEF CoverInv, AheadOfAll
  <2>4. LockInv'
    BY <2>1, LockKept DEF config
  <2> QED BY <2>3, <2>4 DEF CoverInv
<1>3. CASE Teach(a)
  <2>1. AheadOfAll'
    <3>1. \A l \in Leads : Ahead(a, l) => Ahead(a, l)'
      BY <1>3, <1>a DEF Teach, AskOK, scan, Ahead, Scans
    <3> QED BY <1>3, <1>m, <3>1 DEF Teach, scan, tables, history
  <2>2. LockInv'
    <3>1. \A b \in Admins : apc[b] \notin {"reload", "rules"}
      BY <1>3, ApprovalsAssumption DEF Teach, CoverInv, LockInv
    <3> QED BY <1>3, <1>a, <3>1 DEF Teach, LockInv, AskOK
  <2> QED BY <2>1, <2>2 DEF CoverInv
<1>4. CASE Reload(a)
  <2>1. AheadOfAll'
    <3>1. \A l \in Leads : Ahead(a, l) => Ahead(a, l)'
      BY <1>4, <1>a DEF Reload, AskOK, scan, Ahead, Scans
    <3> QED BY <1>4, <1>m, <3>1 DEF Reload, scan, tables, history
  <2>2. LockInv'
    BY <1>4, <1>a DEF Reload, CoverInv, LockInv, AskOK, ConfigOK
  <2> QED BY <2>1, <2>2 DEF CoverInv
<1>5. CASE ReloadRules(a)
  <2>1. AheadOfAll'
    <3>1. \A l \in Leads : Ahead(a, l) => Ahead(a, l)'
      BY <1>5, <1>a DEF ReloadRules, AskOK, scan, Ahead, Scans
    <3> QED BY <1>5, <1>m, <3>1 DEF ReloadRules, scan, tables, history
  <2>2. LockInv'
    <3>1. lock = a /\ lists["web"] = file
      BY <1>5 DEF ReloadRules, CoverInv, LockInv
    <3>2. \A b \in Admins : b # a => apc[b] \notin {"reload", "rules"}
      BY <3>1 DEF CoverInv, LockInv
    <3> QED BY <1>5, <1>a, <3>1, <3>2, ApprovalsAssumption DEF ReloadRules, LockInv, AskOK
  <2> QED BY <2>1, <2>2 DEF CoverInv
<1>6. CASE Fetch(a)
  <2> DEFINE ls == {l \in todo[a] : Scannable(l)}
  <2>1. /\ apc[a] = "fetch" /\ apc' = [apc EXCEPT ![a] = "check"] /\ todo'[a] = ls
        /\ \A l \in Leads : l \in ls => rows'[a][l] = result[l]
        /\ \A b \in Actors : b # a => todo'[b] = todo[b] /\ rows'[b] = rows[b]
        /\ UNCHANGED <<config, result, decision, request, cur, missed>>
    BY <1>6, <1>a DEF Fetch, FetchRows, ScanOK, tables
  <2>2. \A l \in Leads : Ready(result[l]) /\ Ahead(a, l) => l \in ls
    BY <2>1 DEF Ahead, Ready, Scannable
  <2> HIDE DEF ls
  <2>3. \A l \in Leads : Ready(result[l]) /\ Ahead(a, l) => Ahead(a, l)'
    BY <1>a, <2>1, <2>2 DEF Ahead, AskOK, Scans
  <2>4. AheadOfAll'
    BY <1>m, <2>1, <2>3
  <2>5. LockInv'
    BY <1>a, <2>1, LockKept DEF config, AskOK
  <2> QED BY <2>4, <2>5 DEF CoverInv
<1>7. CASE Record(a)
  <2>1. /\ apc[a] = "record" /\ apc'[a] = "idle"
        /\ \A b \in Admins : b # a => SameScan(b) /\ pair'[b] = pair[b] /\ choice'[b] = choice[b]
        /\ decision' = [decision EXCEPT ![pair[a]] = IF decision[pair[a]] = "none" THEN choice[a]
                                                                          ELSE decision[pair[a]]]
        /\ UNCHANGED <<config, result, missed>>
    BY <1>7, <1>a DEF Record, Leave, SameScan, history
  <2>2. ASSUME NEW l \in Leads \ missed, Ready(result[l])
        PROVE  /\ decision'[result[l].doc.payee] # "approved"
               /\ \A b \in Admins : Covering(b, result[l].doc.payee)' => Ahead(b, l)'
    <3>1. /\ decision[result[l].doc.payee] # "approved"
          /\ \A b \in Admins : Covering(b, result[l].doc.payee) => Ahead(b, l)
      BY <2>2 DEF CoverInv, AheadOfAll
    <3>2. pair[a] = result[l].doc.payee => choice[a] # "approved"
      BY <2>1, <3>1 DEF Covering, Ahead
    <3>3. decision'[result[l].doc.payee] # "approved"
      BY <2>1, <3>1, <3>2 DEF TablesOK
    <3>4. ASSUME NEW b \in Admins, Covering(b, result[l].doc.payee)' PROVE Ahead(b, l)'
      <4>1. b # a
        BY <2>1, <3>4 DEF Covering
      <4>2. Ahead(b, l)
        BY <2>1, <3>1, <3>4, <4>1 DEF Covering, SameScan
      <4> QED BY <2>1, <4>1, <4>2 DEF Ahead, SameScan
    <3> QED BY <3>3, <3>4
  <2>3. AheadOfAll'
    BY <2>1, <2>2 DEF AheadOfAll
  <2>4. LockInv'
    BY <2>1, LockKept DEF config, SameScan
  <2> QED BY <2>3, <2>4 DEF CoverInv
<1> QED BY <1>1, <1>2, <1>3, <1>4, <1>5, <1>6, <1>7 DEF Decide, Choices

\* Requests die, or none does.
LEMMA DroppedCover ==
    ASSUME PartsOK, CoverInv, NEW as, Dropped(as), UNCHANGED <<tables, missed>>
    PROVE  AheadOfAll'
<1>1. ASSUME NEW a \in Admins
      PROVE  apc'[a] = "idle" \/ (SameScan(a) /\ pair'[a] = pair[a] /\ choice'[a] = choice[a])
  BY DEF Dropped, Leave, SameScan, Actors
<1>2. \A a \in Admins, l \in Leads : SameScan(a) /\ Ahead(a, l) => Ahead(a, l)'
  BY DEF Ahead, SameScan, tables
<1> QED BY <1>1, <1>2, AheadKept DEF tables, SameScan

LEMMA StepCover == PartsOK /\ FileInv /\ CoverInv /\ [Next]_vars => CoverInv'
<1> SUFFICES ASSUME PartsOK, FileInv, CoverInv, [Next]_vars PROVE CoverInv'
  OBVIOUS
<1>w. \A a \in Tools : a # "web" /\ a \notin Admins
  BY ApprovalsAssumption
<1>1. ASSUME NEW a \in Tools, StartTool(a) PROVE CoverInv'
  <2>1. /\ \A b \in Admins : SameScan(b)
        /\ lists'["web"] = lists["web"]
        /\ UNCHANGED <<file, lock, result, decision, request, missed>>
    BY <1>1, <1>w DEF StartTool, FetchRows, PartsOK, AskOK, ScanOK, ConfigOK, Processes, Actors,
                      SameScan, tables
  <2>2. \A b \in Admins, l \in Leads : Ahead(b, l) => Ahead(b, l)'
    BY <2>1 DEF Ahead, SameScan
  <2>3. AheadOfAll'
    BY <2>1, <2>2, AheadKept DEF request, SameScan
  <2>4. LockInv'
    BY <2>1, LockKept DEF SameScan
  <2> QED BY <2>3, <2>4 DEF CoverInv
<1>2. ASSUME NEW a \in Tools, CrashTool(a) PROVE CoverInv'
  <2>1. /\ lists'["web"] = lists["web"] /\ UNCHANGED <<file, lock>>
        /\ \A b \in Admins : apc'[b] = apc[b]
    BY <1>2, <1>w DEF CrashTool, CrashWith, Dropped, Leave, PartsOK, ConfigOK, Processes, Actors
  <2> QED BY <1>2, <2>1, DroppedCover, LockKept DEF CrashTool, CrashWith, CoverInv
<1>3. CASE CrashWeb
  <2>1. /\ lists'["web"] = file' /\ lock' = None
        /\ \A b \in Admins : apc'[b] = "idle"
    BY <1>3 DEF CrashWeb, CrashWith, Dropped, Leave, PartsOK, ConfigOK, Processes, Actors
  <2>2. LockInv'
    BY <2>1, ApprovalsAssumption DEF LockInv
  <2> QED BY <1>3, <2>2, DroppedCover DEF CrashWeb, CrashWith, CoverInv
<1>4. CASE CrashStandalone
  <2>1. /\ lists'["web"] = lists["web"] /\ UNCHANGED <<file, lock>>
        /\ \A b \in Admins : apc'[b] = apc[b]
    BY <1>4 DEF CrashStandalone, CrashWith, Dropped, Leave, PartsOK, ConfigOK, Processes, Actors
  <2> QED BY <1>4, <2>1, DroppedCover, LockKept DEF CrashStandalone, CrashWith, CoverInv
<1>5. CASE UNCHANGED vars
  BY <1>5 DEF vars, config, tables, actor, request, scan, history, CoverInv, LockInv, AheadOfAll,
              Covering, Ahead
<1> QED BY <1>1, <1>2, <1>3, <1>4, <1>5, WorkerCover, DecideCover, ScanCover DEF Next

\* One decision covers every lead of the payee: one that fails on an approved
\* receiver alone was saved or checked across the approval
\* (approvals.py:5-11, 91-123).
THEOREM ApprovalReachesAll == Spec => []ApprovalCovers
<1>1. Init => PartsOK /\ FileInv /\ CoverInv
  BY InitTypes, InitFile, InitCover
<1>2. PartsOK /\ FileInv /\ CoverInv /\ [Next]_vars => PartsOK' /\ FileInv' /\ CoverInv'
  BY StepTypes, StepFile, StepCover
<1> QED BY <1>1, <1>2, CoverInvSuffices, PTL DEF Spec
=============================================================================

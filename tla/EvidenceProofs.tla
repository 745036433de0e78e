---------------------------- MODULE EvidenceProofs ----------------------------
(***************************************************************************)
(* Proofs about Evidence, for any number of leads, images, workers, failed *)
(* calls and faults: the store keeps what is queued and indexes what it    *)
(* keeps, an outage costs only the leads it meets, and who has failed at   *)
(* the breaker's threshold keeps quiet for a cooldown.                     *)
(***************************************************************************)
EXTENDS Evidence, TLAPS

-----------------------------------------------------------------------------
(* Types.                                                                  *)

InHand  == [lead : Leads, answer : Answers \cup {"none", "failed"}]
Doing   == {"idle", "load", "heal", "judge", "look", "wait", "asleep", "drowsy", "call",
            "calling", "keep", "classify"}
Putting == {"idle", "look", "write", "index", "queue_blob", "queue_url"}
Row     == [url : Leads, old : BOOLEAN]
Queued  == [status : Statuses, ref : {"blob", "url"}]

\* The state in parts that an action leaves alone or changes as a whole.
ShowsOK   == shows \in [Images -> {"payment", "other", "blurred"}] /\ home \in [Workers -> Processes]
LinkOK    == link \in [Leads -> BOOLEAN]
StoreOK   == file \in [Images -> BOOLEAN] /\ index \in [Images -> Row \cup {None}]
JobsOK    == /\ jobs \in [Leads -> Queued]
             /\ results \in [Leads -> {"none", "unprocessed", "non_document", "candidate"}]
CacheOK   == cache \in [Images -> Answers \cup {None}]
IngestOK  == ipc \in Putting /\ ilead \in Leads \cup {None} /\ (ipc # "idle" => ilead \in Leads)
PurgeOK   == list \in SUBSET Images /\ removed \in list \cup {None}
WorkOK    == /\ pc \in [Workers -> Doing] /\ hand \in [Workers -> InHand \cup {None}]
             /\ \A w \in Workers : /\ pc[w] # "idle" => hand[w] \in InHand
                                   /\ pc[w] = "keep" => hand[w].answer \in Answers
BreakerOK == /\ consec \in [Processes -> 0 .. Threshold] /\ open \in [Processes -> BOOLEAN]
             /\ spent \in SUBSET Workers
BoundsOK  == failures \in 0 .. MaxFailures /\ faults \in 0 .. MaxFaults
PastOK    == /\ said \in [Images -> SUBSET Answers] /\ crossed \in SUBSET Images
             /\ unindexed \in SUBSET Images /\ dropped \in SUBSET Leads

PartsOK == /\ ShowsOK /\ LinkOK /\ StoreOK /\ JobsOK /\ CacheOK /\ IngestOK /\ PurgeOK
           /\ WorkOK /\ BreakerOK /\ BoundsOK /\ PastOK

LEMMA PartsAreTypes == PartsOK => EvidenceTypeOK
BY DEF PartsOK, EvidenceTypeOK, ShowsOK, LinkOK, StoreOK, JobsOK, CacheOK, IngestOK, PurgeOK, WorkOK,
       BreakerOK, BoundsOK, PastOK, InHand, Doing, Putting, Row, Queued

LEMMA InitTypes == Init => PartsOK
<1> SUFFICES ASSUME Init PROVE PartsOK
  OBVIOUS
<1>1. ShowsOK /\ LinkOK /\ StoreOK /\ CacheOK /\ IngestOK /\ PurgeOK /\ WorkOK /\ PastOK
  BY DEF Init, ShowsOK, LinkOK, StoreOK, CacheOK, IngestOK, PurgeOK, WorkOK, PastOK, Putting, Doing
<1>2. JobsOK
  BY DEF Init, JobsOK, Queued, Statuses
<1>3. BoundsOK
  BY EvidenceAssumption DEF Init, BoundsOK
<1>4. BreakerOK
  <2>1. 0 \in 0 .. Threshold
    BY EvidenceAssumption
  <2> QED BY <2>1 DEF Init, BreakerOK
<1> QED BY <1>1, <1>2, <1>3, <1>4 DEF PartsOK

LEMMA FaultTypes == ASSUME BoundsOK, Fault PROVE BoundsOK'
BY EvidenceAssumption DEF BoundsOK, Fault

\* What somebody at work has in hand.
LEMMA HandIs ==
    ASSUME WorkOK, NEW w \in Workers, pc[w] # "idle"
    PROVE  hand[w] \in InHand /\ Lead(w) \in Leads /\ Seen(w) \in Images
BY EvidenceAssumption DEF WorkOK, InHand, Lead, Seen

LEMMA GoesTypes ==
    ASSUME WorkOK, NEW w \in Workers, NEW p \in Doing \ {"keep"}, pc[w] # "idle", Goes(w, p), hand' = hand
    PROVE  WorkOK'
BY DEF WorkOK, Goes

LEMMA HoldsIs ==
    ASSUME WorkOK, NEW w \in Workers, pc[w] # "idle", NEW a \in Answers \cup {"none", "failed"}, Holds(w, a)
    PROVE  /\ hand' \in [Workers -> InHand \cup {None}] /\ hand'[w] \in InHand
           /\ hand'[w].lead = hand[w].lead /\ hand'[w].answer = a
           /\ \A v \in Workers : v # w => hand'[v] = hand[v]
<1>1. hand[w] \in InHand
  BY DEF WorkOK
<1>2. hand' = [hand EXCEPT ![w] = [hand[w] EXCEPT !.answer = a]]
  BY DEF Holds
<1>3. [hand[w] EXCEPT !.answer = a] \in InHand
  BY <1>1 DEF InHand
<1>4. [hand[w] EXCEPT !.answer = a].lead = hand[w].lead /\ [hand[w] EXCEPT !.answer = a].answer = a
  BY <1>1 DEF InHand
<1> HIDE DEF InHand
<1> QED BY <1>2, <1>3, <1>4 DEF WorkOK

LEMMA HoldsTypes ==
    ASSUME WorkOK, NEW w \in Workers, pc[w] # "idle", NEW a \in Answers \cup {"none", "failed"}, Holds(w, a),
           NEW p \in Doing, Goes(w, p) \/ pc' = Roused(w, p), p = "keep" => a \in Answers
    PROVE  WorkOK'
<1>1. /\ pc' \in [Workers -> Doing] /\ pc'[w] = p
      /\ \A v \in Workers : v # w => /\ pc'[v] # "idle" => pc[v] # "idle"
                                     /\ pc'[v] = "keep" => pc[v] = "keep"
  BY DEF WorkOK, Goes, Roused, Doing
<1> QED BY <1>1, HoldsIs DEF WorkOK

LEMMA FinishTypes ==
    ASSUME WorkOK, JobsOK, NEW w \in Workers, pc[w] # "idle",
           NEW s \in {"unprocessed", "non_document", "candidate"}, Finish(w, s)
    PROVE  /\ WorkOK' /\ JobsOK'
           /\ \A l \in Leads : IsOpen(l)' => IsOpen(l) /\ jobs'[l].ref = jobs[l].ref
<1>1. Lead(w) \in Leads
  BY HandIs
<1>2. jobs' = [jobs EXCEPT ![Lead(w)] = [jobs[Lead(w)] EXCEPT !.status = "done"]]
  BY DEF Finish
<1>3. [jobs[Lead(w)] EXCEPT !.status = "done"] \in Queued
      /\ [jobs[Lead(w)] EXCEPT !.status = "done"].status = "done"
  BY <1>1 DEF JobsOK, Queued, Statuses
<1>4. JobsOK'
  BY <1>1, <1>2, <1>3 DEF JobsOK, Finish
<1>5. WorkOK'
  BY DEF WorkOK, Finish, Goes, Doing
<1>6. \A l \in Leads : IsOpen(l)' => IsOpen(l) /\ jobs'[l].ref = jobs[l].ref
  BY <1>1, <1>2, <1>3 DEF JobsOK, IsOpen
<1> QED BY <1>4, <1>5, <1>6

LEMMA ClaimTypes ==
    ASSUME WorkOK, NEW w \in Workers, NEW l \in Leads, ClaimLead(w, l)
    PROVE  WorkOK'
<1>1. [lead |-> l, answer |-> "none"] \in InHand
  BY DEF InHand
<1> QED BY <1>1 DEF WorkOK, ClaimLead, Goes, Doing

LEMMA OutsideTypes ==
    ASSUME PartsOK, UNCHANGED fixed, Outside \/ \E p \in Processes : CooldownEnds(p) \/ ProcessDies(p)
    PROVE  PartsOK'
<1> USE DEF PartsOK
<1>0. ShowsOK'
  BY DEF fixed, ShowsOK
<1>1. ASSUME NEW l \in Leads, Expires(l) PROVE PartsOK'
  <2>1. LinkOK'
    BY <1>1 DEF Expires, LinkOK
  <2>2. StoreOK' /\ JobsOK' /\ CacheOK' /\ IngestOK' /\ PurgeOK'
    BY <1>1 DEF Expires, store, ingest, purge, StoreOK, JobsOK, CacheOK, IngestOK, PurgeOK
  <2>3. WorkOK' /\ BreakerOK' /\ BoundsOK' /\ PastOK'
    BY <1>1 DEF Expires, worker, breaker, bounds, history, WorkOK, BreakerOK, BoundsOK, PastOK
  <2> QED BY <1>0, <2>1, <2>2, <2>3
<1>2. ASSUME NEW i \in Images, GrowsOld(i) PROVE PartsOK'
  <2>1. StoreOK'
    BY <1>2 DEF GrowsOld, StoreOK, Row
  <2>2. LinkOK' /\ JobsOK' /\ CacheOK' /\ IngestOK' /\ PurgeOK'
    BY <1>2 DEF GrowsOld, ingest, purge, LinkOK, JobsOK, CacheOK, IngestOK, PurgeOK
  <2>3. WorkOK' /\ BreakerOK' /\ BoundsOK' /\ PastOK'
    BY <1>2 DEF GrowsOld, worker, breaker, bounds, history, WorkOK, BreakerOK, BoundsOK, PastOK
  <2> QED BY <1>0, <2>1, <2>2, <2>3
<1>3. ASSUME NEW i \in Images, DropCached(i) PROVE PartsOK'
  <2>1. CacheOK'
    BY <1>3 DEF DropCached, CacheOK
  <2>2. LinkOK' /\ StoreOK' /\ JobsOK' /\ IngestOK' /\ PurgeOK'
    BY <1>3 DEF DropCached, store, ingest, purge, LinkOK, StoreOK, JobsOK, IngestOK, PurgeOK
  <2>3. WorkOK' /\ BreakerOK' /\ BoundsOK' /\ PastOK'
    BY <1>3 DEF DropCached, worker, breaker, bounds, history, WorkOK, BreakerOK, BoundsOK, PastOK
  <2> QED BY <1>0, <2>1, <2>2, <2>3
<1>4. ASSUME NEW p \in Processes, CooldownEnds(p) PROVE PartsOK'
  <2>1. BreakerOK'
    BY <1>4 DEF CooldownEnds, BreakerOK
  <2>2. LinkOK' /\ StoreOK' /\ JobsOK' /\ CacheOK' /\ IngestOK'
    BY <1>4 DEF CooldownEnds, store, ingest, LinkOK, StoreOK, JobsOK, CacheOK, IngestOK
  <2>3. PurgeOK' /\ WorkOK' /\ BoundsOK' /\ PastOK'
    BY <1>4 DEF CooldownEnds, purge, worker, bounds, history, PurgeOK, WorkOK, BoundsOK, PastOK
  <2> QED BY <1>0, <2>1, <2>2, <2>3
<1>5. ASSUME NEW p \in Processes, ProcessDies(p) PROVE PartsOK'
  <2>1. BreakerOK'
    BY <1>5, EvidenceAssumption DEF ProcessDies, BreakerOK
  <2>2. WorkOK'
    BY <1>5 DEF ProcessDies, WorkOK, Doing
  <2>3. LinkOK' /\ StoreOK' /\ JobsOK' /\ CacheOK' /\ IngestOK'
    BY <1>5 DEF ProcessDies, store, ingest, LinkOK, StoreOK, JobsOK, CacheOK, IngestOK
  <2>4. PurgeOK' /\ BoundsOK' /\ PastOK'
    BY <1>5, FaultTypes DEF ProcessDies, purge, history, PurgeOK, PastOK
  <2> QED BY <1>0, <2>1, <2>2, <2>3, <2>4
<1> QED BY <1>1, <1>2, <1>3, <1>4, <1>5 DEF Outside

LEMMA IngestTypes ==
    ASSUME PartsOK, UNCHANGED fixed, IngestStep
    PROVE  PartsOK'
<1> USE DEF PartsOK
<1>0. ShowsOK'
  BY DEF fixed, ShowsOK
<1>i. ipc # "idle" => ilead \in Leads /\ Image \in Images
  BY EvidenceAssumption DEF IngestOK, Image
<1>1. ASSUME NEW l \in Leads, Download(l) PROVE PartsOK'
  <2>1. IngestOK'
    BY <1>1 DEF Download, IngestOK, Putting
  <2>2. LinkOK' /\ StoreOK' /\ JobsOK' /\ CacheOK' /\ PurgeOK'
    BY <1>1 DEF Download, store, purge, LinkOK, StoreOK, JobsOK, CacheOK, PurgeOK
  <2>3. WorkOK' /\ BreakerOK' /\ BoundsOK' /\ PastOK'
    BY <1>1 DEF Download, worker, breaker, bounds, history, WorkOK, BreakerOK, BoundsOK, PastOK
  <2> QED BY <1>0, <2>1, <2>2, <2>3
<1>2. ASSUME NEW l \in Leads, DownloadFails(l) PROVE PartsOK'
  <2>1. IngestOK'
    BY <1>2 DEF DownloadFails, IngestOK, Putting
  <2>2. BoundsOK'
    BY <1>2, FaultTypes DEF DownloadFails, bounds, BoundsOK
  <2>3. LinkOK' /\ StoreOK' /\ JobsOK' /\ CacheOK' /\ PurgeOK'
    BY <1>2 DEF DownloadFails, store, purge, LinkOK, StoreOK, JobsOK, CacheOK, PurgeOK
  <2>4. WorkOK' /\ BreakerOK' /\ PastOK'
    BY <1>2 DEF DownloadFails, worker, breaker, history, WorkOK, BreakerOK, PastOK
  <2> QED BY <1>0, <2>1, <2>2, <2>3, <2>4
<1>3. CASE LookFile
  <2>1. IngestOK'
    BY <1>3 DEF LookFile, IngestOK, Putting
  <2>2. PastOK'
    BY <1>3, <1>i DEF LookFile, PastOK
  <2>3. LinkOK' /\ StoreOK' /\ JobsOK' /\ CacheOK' /\ PurgeOK'
    BY <1>3 DEF LookFile, store, purge, LinkOK, StoreOK, JobsOK, CacheOK, PurgeOK
  <2>4. WorkOK' /\ BreakerOK' /\ BoundsOK'
    BY <1>3 DEF LookFile, worker, breaker, bounds, WorkOK, BreakerOK, BoundsOK
  <2> QED BY <1>0, <2>1, <2>2, <2>3, <2>4
<1>4. CASE WriteFile
  <2>1. IngestOK'
    BY <1>4 DEF WriteFile, IngestOK, Putting
  <2>2. StoreOK'
    BY <1>4 DEF WriteFile, StoreOK
  <2>3. LinkOK' /\ JobsOK' /\ CacheOK' /\ PurgeOK' /\ WorkOK'
    BY <1>4 DEF WriteFile, purge, worker, LinkOK, JobsOK, CacheOK, PurgeOK, WorkOK
  <2>4. BreakerOK' /\ BoundsOK' /\ PastOK'
    BY <1>4 DEF WriteFile, breaker, bounds, history, BreakerOK, BoundsOK, PastOK
  <2> QED BY <1>0, <2>1, <2>2, <2>3, <2>4
<1>5. CASE IndexFile
  <2>1. IngestOK'
    BY <1>5 DEF IndexFile, IngestOK, Putting
  <2>2. StoreOK'
    BY <1>5, <1>i DEF IndexFile, StoreOK, Row
  <2>3. LinkOK' /\ JobsOK' /\ CacheOK' /\ PurgeOK' /\ WorkOK'
    BY <1>5 DEF IndexFile, purge, worker, LinkOK, JobsOK, CacheOK, PurgeOK, WorkOK
  <2>4. BreakerOK' /\ BoundsOK' /\ PastOK'
    BY <1>5 DEF IndexFile, breaker, bounds, history, BreakerOK, BoundsOK, PastOK
  <2> QED BY <1>0, <2>1, <2>2, <2>3, <2>4
<1>6. CASE IndexFails
  <2>1. IngestOK'
    BY <1>6 DEF IndexFails, IngestOK, Putting
  <2>2. BoundsOK'
    BY <1>6, FaultTypes DEF IndexFails
  <2>3. PastOK'
    BY <1>6, <1>i DEF IndexFails, PastOK
  <2>4. LinkOK' /\ StoreOK' /\ JobsOK' /\ CacheOK' /\ PurgeOK'
    BY <1>6 DEF IndexFails, store, purge, LinkOK, StoreOK, JobsOK, CacheOK, PurgeOK
  <2>5. WorkOK' /\ BreakerOK'
    BY <1>6 DEF IndexFails, worker, breaker, WorkOK, BreakerOK
  <2> QED BY <1>0, <2>1, <2>2, <2>3, <2>4, <2>5
<1>7. CASE QueueLead
  <2>1. IngestOK'
    BY <1>7 DEF QueueLead, IngestOK, Putting
  <2>2. JobsOK'
    BY <1>7 DEF QueueLead, JobsOK, Queued, Statuses
  <2>3. LinkOK' /\ StoreOK' /\ CacheOK' /\ PurgeOK' /\ WorkOK'
    BY <1>7 DEF QueueLead, store, purge, worker, LinkOK, StoreOK, CacheOK, PurgeOK, WorkOK
  <2>4. BreakerOK' /\ BoundsOK' /\ PastOK'
    BY <1>7 DEF QueueLead, breaker, bounds, history, BreakerOK, BoundsOK, PastOK
  <2> QED BY <1>0, <2>1, <2>2, <2>3, <2>4
<1>8. CASE IngesterDies
  <2>1. IngestOK'
    BY <1>8 DEF IngesterDies, IngestOK, Putting
  <2>2. BoundsOK'
    BY <1>8, FaultTypes DEF IngesterDies
  <2>3. PastOK'
    BY <1>8, <1>i DEF IngesterDies, PastOK
  <2>4. LinkOK' /\ StoreOK' /\ JobsOK' /\ CacheOK' /\ PurgeOK'
    BY <1>8 DEF IngesterDies, store, purge, LinkOK, StoreOK, JobsOK, CacheOK, PurgeOK
  <2>5. WorkOK' /\ BreakerOK'
    BY <1>8 DEF IngesterDies, worker, breaker, WorkOK, BreakerOK
  <2> QED BY <1>0, <2>1, <2>2, <2>3, <2>4, <2>5
<1> QED BY <1>1, <1>2, <1>3, <1>4, <1>5, <1>6, <1>7, <1>8 DEF IngestStep

LEMMA PurgeTypes ==
    ASSUME PartsOK, UNCHANGED fixed, PurgeStep
    PROVE  PartsOK'
<1> USE DEF PartsOK
<1>0. ShowsOK'
  BY DEF fixed, ShowsOK
<1>1. CASE ReadExpired
  <2>1. PurgeOK'
    BY <1>1 DEF ReadExpired, ExpiredRows, PurgeOK
  <2>2. PastOK'
    BY <1>1 DEF ReadExpired, ExpiredRows, PastOK
  <2>3. LinkOK' /\ StoreOK' /\ JobsOK' /\ CacheOK' /\ IngestOK'
    BY <1>1 DEF ReadExpired, ExpiredRows, store, ingest, LinkOK, StoreOK, JobsOK, CacheOK, IngestOK
  <2>4. WorkOK' /\ BreakerOK' /\ BoundsOK'
    BY <1>1 DEF ReadExpired, ExpiredRows, worker, breaker, bounds, WorkOK, BreakerOK, BoundsOK
  <2> QED BY <1>0, <2>1, <2>2, <2>3, <2>4
<1>2. CASE DeleteRow
  <2>1. PurgeOK'
    BY <1>2 DEF DeleteRow, PurgeOK
  <2>2. StoreOK'
    BY <1>2 DEF DeleteRow, StoreOK
  <2>3. LinkOK' /\ JobsOK' /\ CacheOK' /\ IngestOK' /\ WorkOK'
    BY <1>2 DEF DeleteRow, ingest, worker, LinkOK, JobsOK, CacheOK, IngestOK, WorkOK
  <2>4. BreakerOK' /\ BoundsOK' /\ PastOK'
    BY <1>2 DEF DeleteRow, breaker, bounds, history, BreakerOK, BoundsOK, PastOK
  <2> QED BY <1>0, <2>1, <2>2, <2>3, <2>4
<1>3. CASE PurgeDies
  <2>1. PurgeOK'
    BY <1>3 DEF PurgeDies, PurgeOK
  <2>2. BoundsOK'
    BY <1>3, FaultTypes DEF PurgeDies
  <2>3. LinkOK' /\ StoreOK' /\ JobsOK' /\ CacheOK' /\ IngestOK'
    BY <1>3 DEF PurgeDies, store, ingest, LinkOK, StoreOK, JobsOK, CacheOK, IngestOK
  <2>4. WorkOK' /\ BreakerOK' /\ PastOK'
    BY <1>3 DEF PurgeDies, worker, breaker, history, WorkOK, BreakerOK, PastOK
  <2> QED BY <1>0, <2>1, <2>2, <2>3, <2>4
<1>4. ASSUME NEW i \in Images, RemoveFile(i) PROVE PartsOK'
  <2>1. PurgeOK'
    BY <1>4 DEF RemoveFile, PurgeOK
  <2>2. StoreOK'
    BY <1>4 DEF RemoveFile, StoreOK
  <2>3. LinkOK' /\ JobsOK' /\ CacheOK' /\ IngestOK' /\ WorkOK'
    BY <1>4 DEF RemoveFile, ingest, worker, LinkOK, JobsOK, CacheOK, IngestOK, WorkOK
  <2>4. BreakerOK' /\ BoundsOK' /\ PastOK'
    BY <1>4 DEF RemoveFile, breaker, bounds, history, BreakerOK, BoundsOK, PastOK
  <2> QED BY <1>0, <2>1, <2>2, <2>3, <2>4
<1>5. ASSUME NEW i \in Images, RemoveFails(i) PROVE PartsOK'
  <2>1. PurgeOK'
    BY <1>5 DEF RemoveFails, PurgeOK
  <2>2. BoundsOK'
    BY <1>5, FaultTypes DEF RemoveFails
  <2>3. LinkOK' /\ StoreOK' /\ JobsOK' /\ CacheOK' /\ IngestOK'
    BY <1>5 DEF RemoveFails, store, ingest, LinkOK, StoreOK, JobsOK, CacheOK, IngestOK
  <2>4. WorkOK' /\ BreakerOK' /\ PastOK'
    BY <1>5 DEF RemoveFails, worker, breaker, history, WorkOK, BreakerOK, PastOK
  <2> QED BY <1>0, <2>1, <2>2, <2>3, <2>4
<1> QED BY <1>1, <1>2, <1>3, <1>4, <1>5 DEF PurgeStep

LEMMA LoadTypes ==
    ASSUME PartsOK, UNCHANGED fixed, NEW w \in Workers, LoadStep(w)
    PROVE  PartsOK'
<1> USE DEF PartsOK
<1>0. ShowsOK'
  BY DEF fixed, ShowsOK
<1>1. ASSUME NEW l \in Leads, ClaimLead(w, l) PROVE PartsOK'
  <2>1. JobsOK'
    BY <1>1 DEF ClaimLead, JobsOK
  <2>2. WorkOK'
    BY <1>1, ClaimTypes
  <2>3. LinkOK' /\ StoreOK' /\ CacheOK' /\ IngestOK' /\ PurgeOK'
    BY <1>1 DEF ClaimLead, store, ingest, purge, LinkOK, StoreOK, CacheOK, IngestOK, PurgeOK
  <2>4. BreakerOK' /\ BoundsOK' /\ PastOK'
    BY <1>1 DEF ClaimLead, breaker, bounds, history, BreakerOK, BoundsOK, PastOK
  <2> QED BY <1>0, <2>1, <2>2, <2>3, <2>4
<1>2. CASE LoadBlob(w)
  <2>1. WorkOK'
    BY <1>2, GoesTypes DEF LoadBlob, Doing
  <2>2. StoreOK'
    BY <1>2, HandIs DEF LoadBlob, StoreOK, Row
  <2>3. LinkOK' /\ JobsOK' /\ CacheOK' /\ IngestOK' /\ PurgeOK'
    BY <1>2 DEF LoadBlob, ingest, purge, LinkOK, JobsOK, CacheOK, IngestOK, PurgeOK
  <2>4. BreakerOK' /\ BoundsOK' /\ PastOK'
    BY <1>2 DEF LoadBlob, breaker, bounds, history, BreakerOK, BoundsOK, PastOK
  <2> QED BY <1>0, <2>1, <2>2, <2>3, <2>4
<1>3. ASSUME NEW l \in Leads, pc[w] # "idle", Fetches(w, l) PROVE PartsOK'
  <2>1. WorkOK'
    BY <1>3, GoesTypes DEF Fetches, Doing
  <2>2. LinkOK' /\ StoreOK' /\ JobsOK' /\ CacheOK' /\ IngestOK'
    BY <1>3 DEF Fetches, store, ingest, LinkOK, StoreOK, JobsOK, CacheOK, IngestOK
  <2>3. PurgeOK' /\ BreakerOK' /\ BoundsOK' /\ PastOK'
    BY <1>3 DEF Fetches, purge, breaker, bounds, history, PurgeOK, BreakerOK, BoundsOK, PastOK
  <2> QED BY <1>0, <2>1, <2>2, <2>3
<1>4. ASSUME NEW l \in Leads, pc[w] # "idle", FetchFails(w, l) PROVE PartsOK'
  <2>1. WorkOK'
    BY <1>4, FinishTypes DEF FetchFails
  <2>2. JobsOK'
    BY <1>4, FinishTypes DEF FetchFails
  <2>3. BoundsOK'
    BY <1>4, FaultTypes DEF FetchFails, bounds, BoundsOK
  <2>4. LinkOK' /\ StoreOK' /\ CacheOK' /\ IngestOK' /\ PurgeOK'
    BY <1>4 DEF FetchFails, store, ingest, purge, LinkOK, StoreOK, CacheOK, IngestOK, PurgeOK
  <2>5. BreakerOK' /\ PastOK'
    BY <1>4 DEF FetchFails, breaker, history, BreakerOK, PastOK
  <2> QED BY <1>0, <2>1, <2>2, <2>3, <2>4, <2>5
<1>5. CASE HealFails(w)
  <2>1. WorkOK'
    BY <1>5, FinishTypes DEF HealFails
  <2>2. JobsOK'
    BY <1>5, FinishTypes DEF HealFails
  <2>3. LinkOK' /\ StoreOK' /\ CacheOK' /\ IngestOK' /\ PurgeOK'
    BY <1>5 DEF HealFails, store, ingest, purge, LinkOK, StoreOK, CacheOK, IngestOK, PurgeOK
  <2>4. BreakerOK' /\ BoundsOK' /\ PastOK'
    BY <1>5 DEF HealFails, breaker, bounds, history, BreakerOK, BoundsOK, PastOK
  <2> QED BY <1>0, <2>1, <2>2, <2>3, <2>4
<1>6. CASE JudgeQuality(w)
  <2>1. WorkOK'
    BY <1>6, FinishTypes, GoesTypes DEF JudgeQuality, Doing
  <2>2. JobsOK'
    BY <1>6, FinishTypes DEF JudgeQuality, JobsOK
  <2>3. LinkOK' /\ StoreOK' /\ CacheOK' /\ IngestOK' /\ PurgeOK'
    BY <1>6 DEF JudgeQuality, store, ingest, purge, LinkOK, StoreOK, CacheOK, IngestOK, PurgeOK
  <2>4. BreakerOK' /\ BoundsOK' /\ PastOK'
    BY <1>6 DEF JudgeQuality, breaker, bounds, history, BreakerOK, BoundsOK, PastOK
  <2> QED BY <1>0, <2>1, <2>2, <2>3, <2>4
<1>7. CASE FetchLink(w)
  <2>1. Lead(w) \in Leads /\ pc[w] # "idle"
    BY <1>7, HandIs DEF FetchLink
  <2> QED BY <1>3, <1>4, <1>7, <2>1 DEF FetchLink
<1>8. CASE HealBlob(w)
  <2>1. index[Seen(w)] \in Row /\ pc[w] # "idle"
    BY <1>8, HandIs DEF HealBlob, StoreOK
  <2>2. index[Seen(w)].url \in Leads
    BY <2>1 DEF Row
  <2> QED BY <1>3, <1>4, <1>8, <2>1, <2>2 DEF HealBlob
<1> QED BY <1>1, <1>2, <1>5, <1>6, <1>7, <1>8 DEF LoadStep

LEMMA CallTypes ==
    ASSUME PartsOK, UNCHANGED fixed, NEW w \in Workers, CallStep(w) \/ JobRaises(w)
    PROVE  PartsOK'
<1> USE DEF PartsOK
<1>0. ShowsOK'
  BY DEF fixed, ShowsOK
<1>z. 0 \in 0 .. Threshold
  BY EvidenceAssumption
<1>1. CASE LookCache(w)
  <2>1. WorkOK'
    BY <1>1, HandIs, HoldsTypes, GoesTypes DEF LookCache, CacheOK, Doing
  <2>2. LinkOK' /\ StoreOK' /\ JobsOK' /\ CacheOK' /\ IngestOK'
    BY <1>1 DEF LookCache, store, ingest, LinkOK, StoreOK, JobsOK, CacheOK, IngestOK
  <2>3. PurgeOK' /\ BreakerOK' /\ BoundsOK' /\ PastOK'
    BY <1>1 DEF LookCache, purge, breaker, bounds, history, PurgeOK, BreakerOK, BoundsOK, PastOK
  <2> QED BY <1>0, <2>1, <2>2, <2>3
<1>2. CASE WaitIfOpen(w)
  <2>1. WorkOK'
    BY <1>2, GoesTypes DEF WaitIfOpen, Doing
  <2>2. LinkOK' /\ StoreOK' /\ JobsOK' /\ CacheOK' /\ IngestOK'
    BY <1>2 DEF WaitIfOpen, store, ingest, LinkOK, StoreOK, JobsOK, CacheOK, IngestOK
  <2>3. PurgeOK' /\ BreakerOK' /\ BoundsOK' /\ PastOK'
    BY <1>2 DEF WaitIfOpen, purge, breaker, bounds, history, PurgeOK, BreakerOK, BoundsOK, PastOK
  <2> QED BY <1>0, <2>1, <2>2, <2>3
<1>3. CASE Wakes(w)
  <2>1. WorkOK'
    BY <1>3, GoesTypes DEF Wakes, Doing
  <2>2. LinkOK' /\ StoreOK' /\ JobsOK' /\ CacheOK' /\ IngestOK'
    BY <1>3 DEF Wakes, store, ingest, LinkOK, StoreOK, JobsOK, CacheOK, IngestOK
  <2>3. PurgeOK' /\ BreakerOK' /\ BoundsOK' /\ PastOK'
    BY <1>3 DEF Wakes, purge, breaker, bounds, history, PurgeOK, BreakerOK, BoundsOK, PastOK
  <2> QED BY <1>0, <2>1, <2>2, <2>3
<1>4. CASE StartCall(w)
  <2>1. WorkOK'
    BY <1>4, GoesTypes DEF StartCall, Doing
  <2>2. BreakerOK'
    BY <1>4 DEF StartCall, breaker, BreakerOK
  <2>3. LinkOK' /\ StoreOK' /\ JobsOK' /\ CacheOK' /\ IngestOK'
    BY <1>4 DEF StartCall, store, ingest, LinkOK, StoreOK, JobsOK, CacheOK, IngestOK
  <2>4. PurgeOK' /\ BoundsOK' /\ PastOK'
    BY <1>4 DEF StartCall, purge, bounds, history, PurgeOK, BoundsOK, PastOK
  <2> QED BY <1>0, <2>1, <2>2, <2>3, <2>4
<1>5. ASSUME NEW a \in Answers, CallReplies(w, a) PROVE PartsOK'
  <2>1. WorkOK'
    BY <1>5, HoldsTypes DEF CallReplies, Doing
  <2>2. BreakerOK'
    BY <1>5, <1>z DEF CallReplies, BreakerOK
  <2>3. BoundsOK'
    BY <1>5, FaultTypes DEF CallReplies, bounds, BoundsOK
  <2>4. PastOK'
    BY <1>5, HandIs DEF CallReplies, PastOK
  <2>5. LinkOK' /\ StoreOK' /\ JobsOK' /\ CacheOK' /\ IngestOK'
    BY <1>5 DEF CallReplies, store, ingest, LinkOK, StoreOK, JobsOK, CacheOK, IngestOK
  <2>6. PurgeOK'
    BY <1>5 DEF CallReplies, purge, PurgeOK
  <2> QED BY <1>0, <2>1, <2>2, <2>3, <2>4, <2>5, <2>6
<1>6. CASE CallFails(w)
  <2>1. WorkOK'
    BY <1>6, HoldsTypes DEF CallFails, Doing
  <2>2. BreakerOK'
    <3>1. \A p \in Processes : consec[p] < Threshold => consec[p] + 1 \in 0 .. Threshold
      BY EvidenceAssumption DEF BreakerOK
    <3>2. consec' \in [Processes -> 0 .. Threshold]
      BY <1>6, <3>1 DEF CallFails, BreakerOK
    <3> QED BY <1>6, <3>2 DEF CallFails, BreakerOK
  <2>3. BoundsOK'
    BY <1>6, EvidenceAssumption DEF CallFails, BoundsOK
  <2>4. PastOK'
    BY <1>6, HandIs DEF CallFails, PastOK
  <2>5. LinkOK' /\ StoreOK' /\ JobsOK' /\ CacheOK' /\ IngestOK'
    BY <1>6 DEF CallFails, store, ingest, LinkOK, StoreOK, JobsOK, CacheOK, IngestOK
  <2>6. PurgeOK'
    BY <1>6 DEF CallFails, purge, PurgeOK
  <2> QED BY <1>0, <2>1, <2>2, <2>3, <2>4, <2>5, <2>6
<1>7. CASE KeepReply(w)
  <2>1. WorkOK'
    BY <1>7, GoesTypes DEF KeepReply, Doing
  <2>2. CacheOK'
    BY <1>7 DEF KeepReply, CacheOK, WorkOK
  <2>3. LinkOK' /\ StoreOK' /\ JobsOK' /\ IngestOK' /\ PurgeOK'
    BY <1>7 DEF KeepReply, store, ingest, purge, LinkOK, StoreOK, JobsOK, IngestOK, PurgeOK
  <2>4. BreakerOK' /\ BoundsOK' /\ PastOK'
    BY <1>7 DEF KeepReply, breaker, bounds, history, BreakerOK, BoundsOK, PastOK
  <2> QED BY <1>0, <2>1, <2>2, <2>3, <2>4
<1>8. CASE Classify(w)
  <2>1. WorkOK'
    BY <1>8, FinishTypes DEF Classify
  <2>2. JobsOK'
    BY <1>8, FinishTypes DEF Classify
  <2>3. LinkOK' /\ StoreOK' /\ CacheOK' /\ IngestOK' /\ PurgeOK'
    BY <1>8 DEF Classify, store, ingest, purge, LinkOK, StoreOK, CacheOK, IngestOK, PurgeOK
  <2>4. BreakerOK' /\ BoundsOK' /\ PastOK'
    BY <1>8 DEF Classify, breaker, bounds, history, BreakerOK, BoundsOK, PastOK
  <2> QED BY <1>0, <2>1, <2>2, <2>3, <2>4
<1>9. CASE JobRaises(w)
  <2>1. WorkOK'
    BY <1>9 DEF JobRaises, Goes, WorkOK, Doing
  <2>2. BoundsOK'
    BY <1>9, FaultTypes DEF JobRaises
  <2>3. LinkOK' /\ StoreOK' /\ JobsOK' /\ CacheOK' /\ IngestOK'
    BY <1>9 DEF JobRaises, store, ingest, LinkOK, StoreOK, JobsOK, CacheOK, IngestOK
  <2>4. PurgeOK' /\ BreakerOK' /\ PastOK'
    BY <1>9 DEF JobRaises, purge, breaker, history, PurgeOK, BreakerOK, PastOK
  <2> QED BY <1>0, <2>1, <2>2, <2>3, <2>4
<1> QED BY <1>1, <1>2, <1>3, <1>4, <1>5, <1>6, <1>7, <1>8, <1>9 DEF CallStep

LEMMA StepTypes == PartsOK /\ [Next]_vars => PartsOK'
<1>1. PartsOK /\ Next => PartsOK'
  BY OutsideTypes, IngestTypes, PurgeTypes, LoadTypes, CallTypes DEF Next
<1>2. PartsOK /\ UNCHANGED vars => PartsOK'
  BY DEF vars, fixed, store, ingest, purge, worker, breaker, bounds, history, PartsOK, ShowsOK, LinkOK, StoreOK,
         JobsOK, CacheOK, IngestOK, PurgeOK, WorkOK, BreakerOK, BoundsOK, PastOK
<1> QED BY <1>1, <1>2

-----------------------------------------------------------------------------
(* The store.                                                              *)

\* A put past its look at the file.
Put(i) == ipc \in {"write", "index", "queue_blob"} /\ Image = i

\* The purge and a put that meet are known, as are a purge and a job.
PutsMeet == \A i \in list : Put(i) => i \in crossed
JobsMeet ==
    \A l \in Leads : IsOpen(l) /\ jobs[l].ref = "blob" /\ ImageOf[l] \in list => ImageOf[l] \in crossed

\* What a put has behind it, and what it has not.
BytesThere == ipc \in {"index", "queue_blob"} /\ Image \notin crossed => file[Image]
RowThere   == ipc = "queue_blob" /\ Image \notin crossed \cup unindexed => index[Image] # None
NotYet     == ipc = "write" => ~file[Image]

\* The purge removes the row only of bytes that are gone.
Removed    == removed # None /\ removed \notin crossed => ~file[removed]

RestIndexed ==
    \A i \in Images \ (crossed \cup unindexed) : file[i] /\ ~Put(i) => index[i] # None

StoreInv == /\ PutsMeet /\ JobsMeet /\ BytesThere /\ RowThere /\ NotYet /\ Removed
            /\ RestIndexed /\ QueuedKeepsImage

LEMMA StoreInvSuffices == PartsOK /\ StoreInv => StoreSound
<1>1. StoreInv => FilesIndexed
  BY DEF StoreInv, RestIndexed, FilesIndexed, Storing, Put, Image
<1> QED BY <1>1, PartsAreTypes DEF StoreInv, StoreSound

LEMMA InitStore == Init => StoreInv
BY DEF Init, StoreInv, PutsMeet, JobsMeet, BytesThere, RowThere, NotYet, Removed, RestIndexed,
       QueuedKeepsImage, IsOpen

\* Steps that put nothing, purge nothing, and queue nothing.
LEMMA QuietStore ==
    ASSUME PartsOK, StoreInv, UNCHANGED <<file, ingest, purge, crossed, unindexed>>,
           \A i \in Images : index[i] # None => index'[i] # None,
           \A l \in Leads : IsOpen(l)' => IsOpen(l) /\ jobs'[l].ref = jobs[l].ref
    PROVE  StoreInv'
<1>i. ipc # "idle" => Image \in Images
  BY EvidenceAssumption DEF PartsOK, IngestOK, Image
<1>1. PutsMeet' /\ JobsMeet' /\ BytesThere' /\ NotYet' /\ Removed' /\ QueuedKeepsImage'
  BY DEF StoreInv, ingest, purge, PutsMeet, JobsMeet, BytesThere, NotYet, Removed, QueuedKeepsImage,
         Put, Image
<1>2. RowThere' /\ RestIndexed'
  BY <1>i DEF StoreInv, ingest, RowThere, RestIndexed, Put, Image
<1> QED BY <1>1, <1>2 DEF StoreInv

LEMMA OutsideStore == ASSUME PartsOK, StoreInv, Outside \/ \E p \in Processes : CooldownEnds(p) \/ ProcessDies(p)
           PROVE StoreInv'
<1>1. UNCHANGED <<file, jobs, ingest, purge, crossed, unindexed>>
  BY DEF Outside, Expires, GrowsOld, DropCached, CooldownEnds, ProcessDies, store, history
<1>2. \A i \in Images : index[i] # None => index'[i] # None
  <2>1. ASSUME NEW i \in Images, GrowsOld(i) PROVE \A k \in Images : index[k] # None => index'[k] # None
    <3>1. index' = [index EXCEPT ![i] = [index[i] EXCEPT !.old = TRUE]] /\ index[i] \in Row
      BY <2>1 DEF GrowsOld, PartsOK, StoreOK
    <3>2. [index[i] EXCEPT !.old = TRUE] # None
      BY <3>1, EvidenceAssumption DEF Row
    <3> QED BY <3>1, <3>2 DEF PartsOK, StoreOK
  <2> QED BY <2>1 DEF Outside, Expires, DropCached, CooldownEnds, ProcessDies, store
<1> QED BY <1>1, <1>2, QuietStore DEF IsOpen

\* Workers read the store, and renew what they read.
LEMMA WorkerStore ==
    ASSUME PartsOK, StoreInv, NEW w \in Workers, LoadStep(w) \/ CallStep(w) \/ JobRaises(w)
    PROVE  StoreInv'
<1>1. UNCHANGED <<file, ingest, purge, crossed, unindexed>>
  BY DEF LoadStep, CallStep, ClaimLead, LoadBlob, FetchLink, HealBlob, HealFails, Fetches, FetchFails,
         JudgeQuality, LookCache, WaitIfOpen, Wakes, StartCall, CallReplies, CallFails, KeepReply,
         Classify, JobRaises, store, history
<1>2. \A i \in Images : index[i] # None => index'[i] # None
  <2>1. CASE LoadBlob(w) /\ index' # index
    <3>1. Seen(w) \in Images /\ index[Seen(w)] # None
      BY <2>1, HandIs DEF LoadBlob, PartsOK
    <3>2. index' = [index EXCEPT ![Seen(w)] = [index[Seen(w)] EXCEPT !.old = FALSE]] /\ index[Seen(w)] \in Row
      BY <2>1, <3>1 DEF LoadBlob, PartsOK, StoreOK
    <3>3. [index[Seen(w)] EXCEPT !.old = FALSE] # None
      BY <3>2, EvidenceAssumption DEF Row
    <3> QED BY <3>1, <3>2, <3>3 DEF PartsOK, StoreOK
  <2>2. CASE index' = index
    BY <2>2
  <2>3. ~LoadBlob(w) => index' = index
    BY DEF LoadStep, CallStep, ClaimLead, FetchLink, HealBlob, HealFails, Fetches, FetchFails,
           JudgeQuality, LookCache, WaitIfOpen, Wakes, StartCall, CallReplies, CallFails, KeepReply,
           Classify, JobRaises, store
  <2> QED BY <2>1, <2>2, <2>3
<1>3. \A l \in Leads : IsOpen(l)' => IsOpen(l) /\ jobs'[l].ref = jobs[l].ref
  <2>1. ASSUME NEW l \in Leads, ClaimLead(w, l)
        PROVE  \A k \in Leads : IsOpen(k)' => IsOpen(k) /\ jobs'[k].ref = jobs[k].ref
    BY <2>1 DEF ClaimLead, IsOpen
  <2>2. ASSUME NEW s \in {"unprocessed", "non_document", "candidate"}, pc[w] # "idle", Finish(w, s)
        PROVE  \A k \in Leads : IsOpen(k)' => IsOpen(k) /\ jobs'[k].ref = jobs[k].ref
    BY <2>2, FinishTypes DEF PartsOK
  <2>3. CASE UNCHANGED jobs
    BY <2>3 DEF IsOpen
  <2>4. CASE FetchLink(w) \/ HealBlob(w) \/ HealFails(w) \/ JudgeQuality(w) \/ Classify(w)
    BY <2>2, <2>3, <2>4 DEF FetchLink, HealBlob, Fetches, FetchFails, HealFails, JudgeQuality, Classify
  <2>5. CASE LoadBlob(w) \/ LookCache(w) \/ WaitIfOpen(w) \/ Wakes(w) \/ StartCall(w)
             \/ (\E answer \in Answers : CallReplies(w, answer)) \/ CallFails(w) \/ KeepReply(w) \/ JobRaises(w)
    BY <2>3, <2>5 DEF LoadBlob, LookCache, WaitIfOpen, Wakes, StartCall, CallReplies, CallFails, KeepReply, JobRaises
  <2> QED BY <2>1, <2>4, <2>5 DEF LoadStep, CallStep
<1> QED BY <1>1, <1>2, <1>3, QuietStore

\* The ingester's put.
LEMMA IngestStore == ASSUME PartsOK, StoreInv, IngestStep PROVE StoreInv'
<1> USE DEF StoreInv
<1>i. ipc # "idle" => ilead \in Leads /\ Image \in Images
  BY EvidenceAssumption DEF PartsOK, IngestOK, Image
<1>1. ASSUME NEW l \in Leads, Download(l) \/ DownloadFails(l) PROVE StoreInv'
  <2>1. UNCHANGED <<store, jobs, purge, crossed, unindexed>> /\ ipc = "idle" /\ ipc' \in {"look", "queue_url"}
    BY <1>1 DEF Download, DownloadFails, history
  <2> QED BY <2>1 DEF store, purge, PutsMeet, JobsMeet, BytesThere, RowThere, NotYet, Removed, RestIndexed,
                      QueuedKeepsImage, Put, IsOpen
<1>2. CASE LookFile
  <2>1. PutsMeet' /\ JobsMeet' /\ Removed' /\ QueuedKeepsImage'
    BY <1>2 DEF LookFile, store, purge, PutsMeet, JobsMeet, Removed, QueuedKeepsImage, Put, Image, IsOpen
  <2>2. BytesThere' /\ RowThere' /\ NotYet' /\ RestIndexed'
    BY <1>2 DEF LookFile, store, BytesThere, RowThere, NotYet, RestIndexed, Put, Image
  <2> QED BY <2>1, <2>2
<1>3. CASE WriteFile
  <2>1. file'[Image] = TRUE /\ \A i \in Images : i # Image => file'[i] = file[i]
    BY <1>i, <1>3 DEF WriteFile, PartsOK, StoreOK
  <2>2. PutsMeet' /\ JobsMeet' /\ BytesThere' /\ RowThere' /\ NotYet'
    BY <1>3, <2>1 DEF WriteFile, purge, history, PutsMeet, JobsMeet, BytesThere, RowThere, NotYet, Put, Image, IsOpen
  <2>3. Removed'
    <3>1. removed # None => removed \in list /\ removed \in Images
      BY DEF PartsOK, PurgeOK
    <3> QED BY <1>3, <2>1, <3>1 DEF WriteFile, purge, history, PutsMeet, Removed, Put, Image
  <2>4. QueuedKeepsImage'
    BY <1>3, <2>1, EvidenceAssumption DEF WriteFile, history, QueuedKeepsImage, IsOpen
  <2>5. RestIndexed'
    BY <1>3, <2>1 DEF WriteFile, history, RestIndexed, Put, Image
  <2> QED BY <2>2, <2>3, <2>4, <2>5
<1>4. CASE IndexFile
  <2>1. index'[Image] # None /\ \A i \in Images : i # Image => index'[i] = index[i]
    <3>1. [url |-> IF index[Image] = None THEN ilead ELSE index[Image].url, old |-> FALSE] \in Row
      BY <1>i, <1>4 DEF IndexFile, PartsOK, StoreOK, Row
    <3> QED BY <1>i, <1>4, <3>1, EvidenceAssumption DEF IndexFile, PartsOK, StoreOK, Row
  <2>2. PutsMeet' /\ JobsMeet' /\ BytesThere' /\ NotYet' /\ Removed' /\ QueuedKeepsImage'
    BY <1>4 DEF IndexFile, purge, history, PutsMeet, JobsMeet, BytesThere, NotYet, Removed, QueuedKeepsImage,
                Put, Image, IsOpen
  <2>3. RowThere' /\ RestIndexed'
    BY <1>4, <2>1 DEF IndexFile, history, RowThere, RestIndexed, Put, Image
  <2> QED BY <2>2, <2>3
<1>5. CASE IndexFails
  <2>1. PutsMeet' /\ JobsMeet' /\ BytesThere' /\ NotYet' /\ Removed' /\ QueuedKeepsImage'
    BY <1>5 DEF IndexFails, store, purge, PutsMeet, JobsMeet, BytesThere, NotYet, Removed, QueuedKeepsImage,
                Put, Image, IsOpen
  <2>2. RowThere' /\ RestIndexed'
    BY <1>5 DEF IndexFails, store, RowThere, RestIndexed, Put, Image
  <2> QED BY <2>1, <2>2
<1>6. CASE QueueLead
  <2>1. /\ jobs'[ilead] = [status |-> "open", ref |-> IF ipc = "queue_blob" THEN "blob" ELSE "url"]
        /\ \A l \in Leads : l # ilead => jobs'[l] = jobs[l]
    BY <1>i, <1>6 DEF QueueLead, PartsOK, JobsOK
  <2>2. jobs'[ilead].ref = "blob" => ipc = "queue_blob"
    BY <2>1
  <2>3. JobsMeet' /\ QueuedKeepsImage'
    BY <1>6, <2>1, <2>2 DEF QueueLead, store, purge, history, JobsMeet, QueuedKeepsImage, PutsMeet, BytesThere,
                            Put, Image, IsOpen
  <2>4. PutsMeet' /\ BytesThere' /\ RowThere' /\ NotYet' /\ Removed'
    BY <1>6 DEF QueueLead, store, purge, history, PutsMeet, BytesThere, RowThere, NotYet, Removed, Put
  <2>5. RestIndexed'
    BY <1>6 DEF QueueLead, store, history, RestIndexed, RowThere, Put, Image
  <2> QED BY <2>3, <2>4, <2>5
<1>7. CASE IngesterDies
  <2>1. PutsMeet' /\ JobsMeet' /\ BytesThere' /\ RowThere' /\ NotYet' /\ Removed' /\ QueuedKeepsImage'
    BY <1>7 DEF IngesterDies, store, purge, PutsMeet, JobsMeet, BytesThere, RowThere, NotYet, Removed,
                QueuedKeepsImage, Put, IsOpen
  <2>2. RestIndexed'
    BY <1>7 DEF IngesterDies, store, RestIndexed, RowThere, NotYet, Put, Image
  <2> QED BY <2>1, <2>2
<1> QED BY <1>1, <1>2, <1>3, <1>4, <1>5, <1>6, <1>7 DEF IngestStep

\* The purge: it takes nothing a job was waiting for when it looked, and row
\* after file.
LEMMA PurgeStore == ASSUME PartsOK, StoreInv, PurgeStep PROVE StoreInv'
<1> USE DEF StoreInv
<1>1. CASE ReadExpired
  <2>1. PutsMeet'
    BY <1>1 DEF ReadExpired, ingest, PutsMeet, ExpiredRows, Storing, Put, Image
  <2>2. JobsMeet'
    BY <1>1 DEF ReadExpired, JobsMeet, ExpiredRows, Referenced, IsOpen
  <2>3. BytesThere' /\ RowThere' /\ NotYet' /\ Removed' /\ RestIndexed' /\ QueuedKeepsImage'
    BY <1>1 DEF ReadExpired, store, ingest, BytesThere, RowThere, NotYet, Removed, RestIndexed,
                QueuedKeepsImage, Put, Image, IsOpen
  <2> QED BY <2>1, <2>2, <2>3
<1>2. ASSUME NEW i \in Images, RemoveFile(i) PROVE StoreInv'
  <2>1. file'[i] = FALSE /\ \A k \in Images : k # i => file'[k] = file[k]
    BY <1>2 DEF RemoveFile, PartsOK, StoreOK
  <2>2. PutsMeet' /\ JobsMeet' /\ RowThere' /\ Removed'
    BY <1>2, <2>1 DEF RemoveFile, ingest, history, PutsMeet, JobsMeet, RowThere, Removed, Put, Image, IsOpen
  <2>3. BytesThere' /\ NotYet' /\ RestIndexed'
    <3>1. ipc # "idle" => Image \in Images
      BY EvidenceAssumption DEF PartsOK, IngestOK, Image
    <3> QED BY <1>2, <2>1, <3>1 DEF RemoveFile, ingest, history, PutsMeet, BytesThere, NotYet, RestIndexed, Put, Image
  <2>4. QueuedKeepsImage'
    BY <1>2, <2>1, EvidenceAssumption DEF RemoveFile, history, JobsMeet, QueuedKeepsImage, IsOpen
  <2> QED BY <2>2, <2>3, <2>4
<1>3. ASSUME UNCHANGED <<store, ingest, jobs, crossed, unindexed>>, list' \subseteq list,
             removed' \in {removed, None}
      PROVE  StoreInv'
  BY <1>3 DEF store, ingest, PutsMeet, JobsMeet, BytesThere, RowThere, NotYet, Removed, RestIndexed,
              QueuedKeepsImage, Put, Image, IsOpen
<1>4. ASSUME NEW i \in Images, RemoveFails(i) PROVE StoreInv'
  BY <1>3, <1>4 DEF RemoveFails, history
<1>5. CASE PurgeDies
  BY <1>3, <1>5 DEF PurgeDies, history
<1>6. CASE DeleteRow
  <2>0. removed \in list /\ removed \in Images
    BY <1>6 DEF DeleteRow, PartsOK, PurgeOK
  <2>1. \A i \in Images : i # removed => index'[i] = index[i]
    BY <1>6 DEF DeleteRow, PartsOK, StoreOK
  <2>2. PutsMeet' /\ JobsMeet' /\ BytesThere' /\ NotYet' /\ Removed' /\ QueuedKeepsImage'
    BY <1>6 DEF DeleteRow, ingest, history, PutsMeet, JobsMeet, BytesThere, NotYet, Removed,
                QueuedKeepsImage, Put, Image, IsOpen
  <2>3. RowThere'
    <3>1. ipc # "idle" => Image \in Images
      BY EvidenceAssumption DEF PartsOK, IngestOK, Image
    <3> QED BY <1>6, <2>0, <2>1, <3>1 DEF DeleteRow, ingest, history, PutsMeet, RowThere, Put, Image
  <2>4. RestIndexed'
    BY <1>6, <2>0, <2>1 DEF DeleteRow, ingest, history, Removed, RestIndexed, Put, Image
  <2> QED BY <2>2, <2>3, <2>4
<1> QED BY <1>1, <1>2, <1>4, <1>5, <1>6 DEF PurgeStep

LEMMA StepStore == PartsOK /\ StoreInv /\ [Next]_vars => StoreInv'
<1>1. PartsOK /\ StoreInv /\ Next => StoreInv'
  BY OutsideStore, WorkerStore, IngestStore, PurgeStore DEF Next
<1>2. PartsOK /\ StoreInv /\ UNCHANGED vars => StoreInv'
  BY QuietStore DEF vars, store, history, IsOpen
<1> QED BY <1>1, <1>2

\* A lead that is queued with its image keeps it, and what is stored can be
\* found by the purge, unless a purge and a put of the same bytes overlapped
\* (blobstore.py:47-129).
THEOREM StoreIsSound == Spec => []StoreSound
<1>1. Init => PartsOK /\ StoreInv
  BY InitTypes, InitStore
<1>2. PartsOK /\ StoreInv /\ [Next]_vars => PartsOK' /\ StoreInv'
  BY StepTypes, StepStore
<1> QED BY <1>1, <1>2, StoreInvSuffices, PTL DEF Spec

-----------------------------------------------------------------------------
(* Outages.                                                                *)

\* An answer that says what the image shows, or that the model has given.
Sound(i, answer) ==
    \/ answer \in {"payment", "scraps"}
    \/ answer = "other" /\ shows[i] = "other"
    \/ answer = "nothing" /\ "nothing" \in said[i]

CacheSound == \A i \in Images : cache[i] # None => Sound(i, cache[i])
HandSound ==
    \A w \in Workers :
        /\ pc[w] = "keep" => Sound(Seen(w), hand[w].answer)
        /\ pc[w] = "classify" => \/ Sound(Seen(w), hand[w].answer)
                                 \/ hand[w].answer = "failed" /\ Lead(w) \in dropped

AnswersInv == CacheSound /\ HandSound /\ OutageStaysLocal

\* Answers stay sound: the model forgets none, and the image stays the same.
LEMMA SoundStays ==
    ASSUME shows' = shows, \A i \in Images : said[i] \subseteq said'[i]
    PROVE  \A i \in Images : \A a : Sound(i, a) => Sound(i, a)'
BY DEF Sound

LEMMA InitAnswers == Init => AnswersInv
BY DEF Init, AnswersInv, CacheSound, HandSound, OutageStaysLocal

\* Steps that answer nothing and settle nothing.
LEMMA QuietAnswers ==
    ASSUME PartsOK, AnswersInv, shows' = shows, UNCHANGED <<cache, results, said, dropped>>,
           \A w \in Workers : pc'[w] \in {"keep", "classify"} => pc'[w] = pc[w] /\ hand'[w] = hand[w]
    PROVE  AnswersInv'
<1>1. CacheSound' /\ OutageStaysLocal'
  BY DEF AnswersInv, CacheSound, OutageStaysLocal, Sound
<1>2. HandSound'
  BY DEF AnswersInv, HandSound, Sound, Seen, Lead
<1> QED BY <1>1, <1>2 DEF AnswersInv

\* A lead is settled as unprocessed, or by a sound answer.
LEMMA SettledAnswers ==
    ASSUME PartsOK, AnswersInv, shows' = shows, UNCHANGED <<cache, said, dropped>>,
           NEW w \in Workers, pc[w] # "idle", NEW s \in {"unprocessed", "non_document", "candidate"},
           Finish(w, s),
           s = "non_document" => \/ Lead(w) \in dropped \/ shows[Seen(w)] = "other"
                                 \/ "nothing" \in said[Seen(w)]
    PROVE  AnswersInv'
<1>1. Lead(w) \in Leads
  BY HandIs DEF PartsOK
<1>2. results'[Lead(w)] = s /\ \A l \in Leads : l # Lead(w) => results'[l] = results[l]
  BY <1>1 DEF Finish, PartsOK, JobsOK
<1>3. OutageStaysLocal'
  BY <1>2 DEF AnswersInv, OutageStaysLocal, Seen
<1>4. \A v \in Workers : /\ v # w => pc'[v] = pc[v] /\ hand'[v] = hand[v]
                         /\ pc'[w] = "idle"
  BY DEF Finish, Goes, PartsOK, WorkOK
<1>5. HandSound'
  BY <1>4 DEF AnswersInv, HandSound, Sound, Seen, Lead
<1>6. CacheSound'
  BY DEF AnswersInv, CacheSound, Sound
<1> QED BY <1>3, <1>5, <1>6 DEF AnswersInv

LEMMA OthersAnswer ==
    ASSUME PartsOK, AnswersInv, shows' = shows,
           Outside \/ IngestStep \/ PurgeStep \/ \E p \in Processes : CooldownEnds(p) \/ ProcessDies(p)
    PROVE  AnswersInv'
<1>1. UNCHANGED <<results, said, dropped>>
  BY DEF Outside, Expires, GrowsOld, DropCached, IngestStep, Download, DownloadFails, LookFile, WriteFile,
         IndexFile, IndexFails, QueueLead, IngesterDies, PurgeStep, ReadExpired, RemoveFile, RemoveFails,
         DeleteRow, PurgeDies, CooldownEnds, ProcessDies, history
<1>2. \A i \in Images : cache'[i] \in {cache[i], None}
  BY DEF Outside, Expires, GrowsOld, DropCached, IngestStep, Download, DownloadFails, LookFile, WriteFile,
         IndexFile, IndexFails, QueueLead, IngesterDies, PurgeStep, ReadExpired, RemoveFile, RemoveFails,
         DeleteRow, PurgeDies, CooldownEnds, ProcessDies, PartsOK, CacheOK
<1>5. \A w \in Workers : pc'[w] \in {"keep", "classify"} => pc'[w] = pc[w] /\ hand'[w] = hand[w]
  <2>1. ASSUME NEW p \in Processes, ProcessDies(p)
        PROVE  \A w \in Workers : pc'[w] \in {"keep", "classify"} => pc'[w] = pc[w] /\ hand'[w] = hand[w]
    BY <2>1 DEF ProcessDies
  <2>2. CASE ~\E p \in Processes : ProcessDies(p)
    BY <2>2 DEF Outside, Expires, GrowsOld, DropCached, IngestStep, Download, DownloadFails, LookFile,
         WriteFile, IndexFile, IndexFails, QueueLead, IngesterDies, PurgeStep, ReadExpired, RemoveFile,
         RemoveFails, DeleteRow, PurgeDies, CooldownEnds, worker
  <2> QED BY <2>1, <2>2
<1>3. CacheSound'
  BY <1>1, <1>2 DEF AnswersInv, CacheSound, Sound
<1>4. HandSound' /\ OutageStaysLocal'
  BY <1>1, <1>5 DEF AnswersInv, HandSound, OutageStaysLocal, Sound, Seen, Lead
<1> QED BY <1>3, <1>4 DEF AnswersInv

LEMMA WorkerAnswers ==
    ASSUME PartsOK, AnswersInv, shows' = shows, NEW w \in Workers,
           LoadStep(w) \/ CallStep(w) \/ JobRaises(w)
    PROVE  AnswersInv'
<1> USE DEF PartsOK
<1>q. ASSUME NEW p \in Doing \ {"keep", "classify"}, Goes(w, p), UNCHANGED <<cache, results, said, dropped>>,
             \A v \in Workers : v # w => hand'[v] = hand[v]
      PROVE  AnswersInv'
  <2>1. \A v \in Workers : v # w => pc'[v] = pc[v]
    BY <1>q DEF Goes, WorkOK
  <2>2. pc'[w] = p
    BY <1>q DEF Goes, WorkOK
  <2> QED BY <1>q, <2>1, <2>2, QuietAnswers
<1>f. ASSUME pc[w] # "idle", Finish(w, "unprocessed"), UNCHANGED <<cache, said, dropped>>
      PROVE  AnswersInv'
  BY <1>f, SettledAnswers
<1>1. ASSUME NEW l \in Leads, ClaimLead(w, l) PROVE AnswersInv'
  <2>1. \A v \in Workers : v # w => hand'[v] = hand[v]
    BY <1>1 DEF ClaimLead, WorkOK
  <2> QED BY <1>1, <1>q, <2>1 DEF ClaimLead, history, Doing
<1>2. CASE LoadBlob(w)
  <2>1. (Goes(w, "judge") \/ Goes(w, "heal")) /\ UNCHANGED <<hand, cache, results, said, dropped>>
    BY <1>2 DEF LoadBlob, history
  <2> QED BY <1>q, <2>1 DEF Doing
<1>3. ASSUME NEW l, pc[w] # "idle", Fetches(w, l) \/ FetchFails(w, l) PROVE AnswersInv'
  BY <1>3, <1>q, <1>f DEF Fetches, FetchFails, history, Doing
<1>4. CASE FetchLink(w) \/ HealBlob(w)
  BY <1>3, <1>4 DEF FetchLink, HealBlob
<1>5. CASE HealFails(w)
  BY <1>5, <1>f DEF HealFails, history
<1>6. CASE JudgeQuality(w)
  BY <1>6, <1>f, <1>q DEF JudgeQuality, history, Doing
<1>7. CASE LookCache(w)
  <2>1. Seen(w) \in Images /\ pc[w] # "idle"
    BY <1>7, HandIs DEF LookCache
  <2>2. CASE cache[Seen(w)] # None
    <3>1. Goes(w, "classify") /\ Holds(w, cache[Seen(w)]) /\ UNCHANGED <<cache, results, said, dropped>>
      BY <1>7, <2>2 DEF LookCache, history
    <3>2. cache[Seen(w)] \in Answers /\ Sound(Seen(w), cache[Seen(w)])
      BY <2>1, <2>2 DEF CacheOK, AnswersInv, CacheSound
    <3>3. /\ hand'[w].lead = hand[w].lead /\ hand'[w].answer = cache[Seen(w)]
          /\ \A v \in Workers : v # w => hand'[v] = hand[v] /\ pc'[v] = pc[v]
          /\ pc'[w] = "classify"
      BY <2>1, <3>1, <3>2, HoldsIs DEF Goes, WorkOK
    <3>4. HandSound'
      BY <3>1, <3>2, <3>3 DEF AnswersInv, HandSound, Sound, Seen, Lead
    <3>5. CacheSound' /\ OutageStaysLocal'
      BY <3>1 DEF AnswersInv, CacheSound, OutageStaysLocal, Sound
    <3> QED BY <3>4, <3>5 DEF AnswersInv
  <2>3. CASE cache[Seen(w)] = None
    BY <1>7, <1>q, <2>3 DEF LookCache, history, Doing
  <2> QED BY <2>2, <2>3
<1>8. CASE WaitIfOpen(w) \/ Wakes(w) \/ StartCall(w)
  <2>1. (Goes(w, "asleep") \/ Goes(w, "call") \/ Goes(w, "calling")) /\ UNCHANGED <<hand, cache, results, said, dropped>>
    BY <1>8 DEF WaitIfOpen, Wakes, StartCall, history
  <2> QED BY <1>q, <2>1 DEF Doing
<1>9. ASSUME NEW a \in Answers, CallReplies(w, a) PROVE AnswersInv'
  <2>1. Seen(w) \in Images /\ pc[w] # "idle"
    BY <1>9, HandIs DEF CallReplies
  <2>2. /\ hand'[w].lead = hand[w].lead /\ hand'[w].answer = a
        /\ \A v \in Workers : v # w => hand'[v] = hand[v]
    BY <1>9, <2>1, HoldsIs DEF CallReplies
  <2>3. pc'[w] = "keep" /\ \A v \in Workers : v # w /\ pc'[v] \in {"keep", "classify"} => pc'[v] = pc[v]
    BY <1>9 DEF CallReplies, Roused
  <2>4. said'[Seen(w)] = said[Seen(w)] \cup {a} /\ \A i \in Images : said[i] \subseteq said'[i]
    BY <1>9, <2>1 DEF CallReplies, PastOK
  <2>5. UNCHANGED <<cache, results, dropped>>
    BY <1>9 DEF CallReplies
  <2>6. Sound(Seen(w), a)'
    BY <1>9, <2>2, <2>4 DEF CallReplies, Answers, Sound, Seen, Lead
  <2>7. ASSUME NEW v \in Workers, v # w, pc[v] # "idle" PROVE Seen(v) \in Images /\ Seen(v)' = Seen(v) /\ Lead(v)' = Lead(v)
    BY <2>2, <2>7, HandIs DEF Seen, Lead
  <2>8. HandSound'
    <3> SUFFICES ASSUME NEW v \in Workers
                 PROVE  /\ pc'[v] = "keep" => Sound(Seen(v), hand[v].answer)'
                        /\ pc'[v] = "classify" => \/ Sound(Seen(v), hand[v].answer)'
                                                  \/ hand'[v].answer = "failed" /\ Lead(v)' \in dropped'
      BY DEF HandSound
    <3>1. CASE v = w
      BY <2>2, <2>3, <2>6, <3>1 DEF Sound
    <3>2. CASE v # w
      BY <2>2, <2>3, <2>4, <2>5, <2>7, <3>2 DEF AnswersInv, HandSound, Sound
    <3> QED BY <3>1, <3>2
  <2>9. CacheSound' /\ OutageStaysLocal'
    BY <2>4, <2>5, EvidenceAssumption DEF AnswersInv, CacheSound, OutageStaysLocal, Sound
  <2> QED BY <2>8, <2>9 DEF AnswersInv
<1>10. CASE CallFails(w)
  <2>1. pc[w] # "idle" /\ UNCHANGED <<cache, results, said>> /\ dropped' = dropped \cup {Lead(w)}
    BY <1>10 DEF CallFails
  <2>2. /\ hand'[w].lead = hand[w].lead /\ hand'[w].answer = "failed"
        /\ \A v \in Workers : v # w => hand'[v] = hand[v]
    BY <1>10, <2>1, HoldsIs DEF CallFails
  <2>3. pc'[w] = "classify" /\ \A v \in Workers : v # w /\ pc'[v] \in {"keep", "classify"} => pc'[v] = pc[v]
    BY <1>10 DEF CallFails, Roused, Goes, WorkOK
  <2>4. HandSound'
    BY <2>1, <2>2, <2>3 DEF AnswersInv, HandSound, Sound, Seen, Lead
  <2>5. CacheSound' /\ OutageStaysLocal'
    BY <2>1 DEF AnswersInv, CacheSound, OutageStaysLocal, Sound
  <2> QED BY <2>4, <2>5 DEF AnswersInv
<1>11. CASE KeepReply(w)
  <2>1. Seen(w) \in Images /\ Sound(Seen(w), hand[w].answer) /\ UNCHANGED <<hand, results, said, dropped>>
    BY <1>11, HandIs DEF KeepReply, AnswersInv, HandSound, history
  <2>2. pc'[w] = "classify" /\ \A v \in Workers : v # w => pc'[v] = pc[v]
    BY <1>11 DEF KeepReply, Goes, WorkOK
  <2>3. HandSound'
    BY <2>1, <2>2 DEF AnswersInv, HandSound, Sound, Seen, Lead
  <2>4. \A i \in Images : cache'[i] = cache[i] \/ (i = Seen(w) /\ cache'[i] = hand[w].answer)
    BY <1>11, <2>1 DEF KeepReply, CacheOK
  <2>5. CacheSound' /\ OutageStaysLocal'
    BY <2>1, <2>4 DEF AnswersInv, CacheSound, OutageStaysLocal, Sound
  <2> QED BY <2>3, <2>5 DEF AnswersInv
<1>12. CASE Classify(w)
  <2> DEFINE s == IF IsCandidate(hand[w].answer) THEN "candidate" ELSE "non_document"
  <2>1. pc[w] # "idle" /\ pc[w] = "classify" /\ Finish(w, s) /\ UNCHANGED <<cache, said, dropped>>
    BY <1>12 DEF Classify, history
  <2>2. s = "non_document" => \/ Lead(w) \in dropped \/ shows[Seen(w)] = "other"
                              \/ "nothing" \in said[Seen(w)]
    BY <2>1 DEF AnswersInv, HandSound, Sound, IsCandidate
  <2>3. s \in {"unprocessed", "non_document", "candidate"}
    OBVIOUS
  <2> HIDE DEF s
  <2> QED BY <2>1, <2>2, <2>3, SettledAnswers
<1>13. CASE JobRaises(w)
  <2>1. \A v \in Workers : v # w => hand'[v] = hand[v]
    BY <1>13 DEF JobRaises, WorkOK
  <2> QED BY <1>13, <1>q, <2>1 DEF JobRaises, history, Doing
<1> QED BY <1>1, <1>2, <1>4, <1>5, <1>6, <1>7, <1>8, <1>9, <1>10, <1>11, <1>12, <1>13 DEF LoadStep, CallStep

\* A lead is settled as no payment document only by an image that shows none,
\* by an answer of the model to it, or by a failed call of its own
\* (medha_client.py:150-201).
THEOREM OutagesStayLocal == Spec => []OutageStaysLocal
<1>1. Init => PartsOK /\ AnswersInv
  BY InitTypes, InitAnswers
<1>2. PartsOK /\ AnswersInv /\ [Next]_vars => PartsOK' /\ AnswersInv'
  <2>1. PartsOK /\ AnswersInv /\ Next => AnswersInv'
    BY OthersAnswer, WorkerAnswers DEF Next, fixed
  <2>2. PartsOK /\ AnswersInv /\ UNCHANGED vars => AnswersInv'
    BY QuietAnswers DEF vars, fixed, worker, history
  <2> QED BY <2>1, <2>2, StepTypes
<1> QED BY <1>1, <1>2, PTL DEF Spec, AnswersInv

-----------------------------------------------------------------------------
(* The breaker.                                                            *)

\* What a step may do to the breaker of a process and to who has spent its call.
LEMMA SpentStays ==
    ASSUME PartsOK, FailedBackOff, UNCHANGED fixed, spent' \subseteq spent, UNCHANGED open,
           \A w \in spent' : pc'[w] \notin {"call", "calling"} \/ pc'[w] = pc[w]
    PROVE  FailedBackOff'
BY DEF FailedBackOff, IsOpenFor, fixed

LEMMA StepBackOff == PartsOK /\ FailedBackOff /\ [Next]_vars => FailedBackOff'
<1> SUFFICES ASSUME PartsOK, FailedBackOff, [Next]_vars PROVE FailedBackOff'
  OBVIOUS
<1> USE DEF PartsOK
<1>0. UNCHANGED fixed
  BY DEF Next, vars
<1>1. CASE Outside \/ IngestStep \/ PurgeStep
  <2>1. UNCHANGED <<pc, open, spent>>
    BY <1>1 DEF Outside, Expires, GrowsOld, DropCached, IngestStep, Download, DownloadFails, LookFile,
         WriteFile, IndexFile, IndexFails, QueueLead, IngesterDies, PurgeStep, ReadExpired, RemoveFile,
         RemoveFails, DeleteRow, PurgeDies, worker, breaker
  <2> QED BY <1>0, <2>1, SpentStays
<1>2. ASSUME NEW p \in Processes, CooldownEnds(p) \/ ProcessDies(p) PROVE FailedBackOff'
  <2>1. spent' = spent \ Threads(p) /\ open' = [open EXCEPT ![p] = FALSE]
    BY <1>2 DEF CooldownEnds, ProcessDies
  <2>2. \A w \in spent' : home[w] # p /\ pc'[w] = pc[w] /\ open'[home[w]] = open[home[w]]
    BY <1>2, <2>1 DEF CooldownEnds, ProcessDies, worker, Threads, BreakerOK, ShowsOK
  <2> QED BY <1>0, <2>1, <2>2 DEF FailedBackOff, IsOpenFor, fixed
<1>3. ASSUME NEW w \in Workers, LoadStep(w) \/ LookCache(w) \/ KeepReply(w) \/ Classify(w) \/ JobRaises(w)
      PROVE  FailedBackOff'
  <2>1. UNCHANGED <<open, spent>>
    BY <1>3 DEF LoadStep, ClaimLead, LoadBlob, FetchLink, HealBlob, HealFails, Fetches, FetchFails,
         JudgeQuality, LookCache, KeepReply, Classify, JobRaises, breaker
  <2>2. \E place : Goes(w, place) /\ place \notin {"call", "calling"}
    BY <1>3 DEF LoadStep, ClaimLead, LoadBlob, FetchLink, HealBlob, HealFails, Fetches, FetchFails,
         JudgeQuality, LookCache, KeepReply, Classify, JobRaises, Finish
  <2>3. \A v \in Workers : pc'[v] \notin {"call", "calling"} \/ pc'[v] = pc[v]
    BY <2>2 DEF Goes, WorkOK
  <2> QED BY <1>0, <2>1, <2>3, SpentStays DEF BreakerOK
<1>4. ASSUME NEW w \in Workers, WaitIfOpen(w) PROVE FailedBackOff'
  <2>1. UNCHANGED <<open, spent>>
    BY <1>4 DEF WaitIfOpen, breaker
  <2>2. w \in spent => pc'[w] = "asleep"
    BY <1>4 DEF WaitIfOpen, Goes, WorkOK, FailedBackOff
  <2>3. \A v \in Workers : v # w => pc'[v] = pc[v]
    BY <1>4 DEF WaitIfOpen, Goes, WorkOK
  <2> QED BY <1>0, <2>1, <2>2, <2>3, SpentStays DEF BreakerOK
<1>5. ASSUME NEW w \in Workers, Wakes(w) PROVE FailedBackOff'
  <2>1. UNCHANGED open /\ spent' = spent \ {w} /\ \A v \in Workers : v # w => pc'[v] = pc[v]
    BY <1>5 DEF Wakes, Goes, WorkOK
  <2> QED BY <1>0, <2>1, SpentStays DEF BreakerOK
<1>6. ASSUME NEW w \in Workers, StartCall(w) PROVE FailedBackOff'
  <2>1. UNCHANGED <<open, spent>> /\ w \notin spent /\ \A v \in Workers : v # w => pc'[v] = pc[v]
    BY <1>6 DEF StartCall, Goes, WorkOK, FailedBackOff, breaker
  <2> QED BY <1>0, <2>1, SpentStays DEF BreakerOK
<1>7. ASSUME NEW w \in Workers, NEW a \in Answers, CallReplies(w, a) PROVE FailedBackOff'
  <2>1. /\ spent' = spent \ Threads(home[w]) /\ open' = [open EXCEPT ![home[w]] = FALSE]
        /\ pc' = Roused(w, "keep") /\ home[w] \in Processes
    BY <1>7 DEF CallReplies, ShowsOK
  <2>2. \A v \in spent' : home[v] # home[w] /\ v # w /\ pc'[v] = pc[v] /\ open'[home[v]] = open[home[v]]
    BY <2>1 DEF Roused, Threads, BreakerOK, ShowsOK
  <2> QED BY <1>0, <2>1, <2>2 DEF FailedBackOff, IsOpenFor, fixed
<1>8. ASSUME NEW w \in Workers, CallFails(w) PROVE FailedBackOff'
  <2>1. CASE Past(w)
    <3>1. /\ open' = [open EXCEPT ![home[w]] = TRUE] /\ pc' = Roused(w, "classify")
          /\ spent' = spent \cup {w} /\ home[w] \in Processes
      BY <1>8, <2>1 DEF CallFails, ShowsOK
    <3>2. \A v \in Workers : open[home[v]] => open'[home[v]]
      BY <3>1 DEF BreakerOK, ShowsOK
    <3>3. open'[home[w]] /\ pc'[w] = "classify"
      BY <3>1 DEF BreakerOK, Roused
    <3>4. \A v \in Workers : v # w => pc'[v] \in {pc[v], "drowsy"}
      BY <3>1 DEF Roused
    <3> QED BY <1>0, <3>1, <3>2, <3>3, <3>4 DEF FailedBackOff, IsOpenFor, fixed, BreakerOK
  <2>2. CASE ~Past(w)
    <3>1. UNCHANGED <<open, spent>> /\ \A v \in Workers : pc'[v] = pc[v] \/ pc'[v] = "classify"
      BY <1>8, <2>2 DEF CallFails, Goes, WorkOK
    <3> QED BY <1>0, <3>1, SpentStays DEF BreakerOK
  <2> QED BY <2>1, <2>2
<1>9. CASE UNCHANGED vars
  BY <1>0, <1>9, SpentStays DEF vars, worker, breaker, BreakerOK
<1> QED BY <1>1, <1>2, <1>3, <1>4, <1>5, <1>6, <1>7, <1>8, <1>9 DEF Next, CallStep

\* Whoever has failed at the threshold or beyond it makes no call before its
\* cooldown or a later one has passed, or a reply has closed the breaker,
\* however many threads and processes share the work (medha_client.py:70-98).
THEOREM FailuresBackOff == Spec => []FailedBackOff
<1>1. Init => PartsOK /\ FailedBackOff
  BY InitTypes DEF Init, FailedBackOff
<1>2. PartsOK /\ FailedBackOff /\ [Next]_vars => PartsOK' /\ FailedBackOff'
  BY StepTypes, StepBackOff
<1> QED BY <1>1, <1>2, PTL DEF Spec

=============================================================================

------------------------------- MODULE Evidence -------------------------------
(***************************************************************************)
(* The image of a lead on its way to a verdict: prefetch at ingest         *)
(* (ingest/images.py) into the content-addressed store                     *)
(* (ingest/blobstore.py) with its index and its retention purge, loading   *)
(* by a worker (pipeline/image_source.py), and the vision client with its  *)
(* extraction cache and its circuit breaker (ocr/medha_client.py,          *)
(* pipeline/ocr_classify.py).                                              *)
(*                                                                         *)
(* A lead has a signed link to an image; two leads may send the same       *)
(* image.  Time is not counted: a link expires, an index row grows old and *)
(* a cooldown ends by actions of their own.  Workers are threads of the    *)
(* web application or of a standalone pool; each process has a breaker.    *)
(***************************************************************************)
EXTENDS Naturals, FiniteSets

CONSTANTS Leads, Images, Workers, Processes, None,
          ImageOf,    \* what a lead sends
          Threshold,  \* OCR_BREAKER_THRESHOLD
          MaxFailures, MaxFaults    \* bounds: failed calls; crashes and glitches

ASSUME EvidenceAssumption ==
    /\ ImageOf \in [Leads -> Images]
    /\ Threshold \in Nat \ {0} /\ MaxFailures \in Nat /\ MaxFaults \in Nat
    /\ None \notin [url : Leads, old : BOOLEAN]

VARIABLES
    shows, home,   \* what a look at the image tells, and the process a worker is a
                   \* thread of; they never change
    link,          \* the signed link of the lead still works
    file, index,   \* the store: bytes on disk; image_blobs: source_url and age
    jobs,          \* what the lead was queued with, and how far it is
    results,       \* verification_status
    cache,         \* ocr_cache
    ipc, ilead,    \* the ingester in prefetch
    list, removed, \* the purge: rows still to delete, and the one without its file
    pc, hand,      \* workers
    consec, open,  \* the breaker of a process
    failures, faults,
    said, spent, crossed, unindexed, dropped   \* history

store   == <<file, index>>
ingest  == <<ipc, ilead>>
purge   == <<list, removed>>
worker  == <<pc, hand>>
breaker == <<consec, open, spent>>
bounds  == <<failures, faults>>
history == <<said, crossed, unindexed, dropped>>
fixed   == <<shows, home>>
vars    == <<fixed, link, store, jobs, results, cache, ingest, purge, worker, breaker, bounds, history>>

\* The model may also answer with something that is no JSON: with words of a
\* payment in it, or without.
Answers  == {"payment", "other", "scraps", "nothing"}
Statuses == {"none", "open", "done"}   \* open: pending or in_progress

EvidenceTypeOK ==
    /\ shows \in [Images -> {"payment", "other", "blurred"}]
    /\ home \in [Workers -> Processes]
    /\ link \in [Leads -> BOOLEAN]
    /\ file \in [Images -> BOOLEAN]
    /\ index \in [Images -> [url : Leads, old : BOOLEAN] \cup {None}]
    /\ jobs \in [Leads -> [status : Statuses, ref : {"blob", "url"}]]
    /\ results \in [Leads -> {"none", "unprocessed", "non_document", "candidate"}]
    /\ cache \in [Images -> Answers \cup {None}]
    /\ ipc \in {"idle", "look", "write", "index", "queue_blob", "queue_url"}
    /\ ilead \in Leads \cup {None}
    /\ list \in SUBSET Images /\ removed \in list \cup {None}
    /\ pc \in [Workers -> {"idle", "load", "heal", "judge", "look", "wait", "asleep",
                           "drowsy", "call", "calling", "keep", "classify"}]
    /\ hand \in [Workers -> [lead : Leads, answer : Answers \cup {"none", "failed"}] \cup {None}]
    /\ consec \in [Processes -> 0 .. Threshold] /\ open \in [Processes -> BOOLEAN]
    /\ failures \in 0 .. MaxFailures /\ faults \in 0 .. MaxFaults
    /\ said \in [Images -> SUBSET Answers] /\ spent \in SUBSET Workers
    /\ crossed \in SUBSET Images /\ unindexed \in SUBSET Images /\ dropped \in SUBSET Leads

Init ==
    /\ shows \in [Images -> {"payment", "other", "blurred"}]
    /\ home \in [Workers -> Processes]
    /\ link = [l \in Leads |-> TRUE]
    /\ file = [i \in Images |-> FALSE] /\ index = [i \in Images |-> None]
    /\ jobs = [l \in Leads |-> [status |-> "none", ref |-> "url"]]
    /\ results = [l \in Leads |-> "none"] /\ cache = [i \in Images |-> None]
    /\ ipc = "idle" /\ ilead = None /\ list = {} /\ removed = None
    /\ pc = [w \in Workers |-> "idle"] /\ hand = [w \in Workers |-> None]
    /\ consec = [p \in Processes |-> 0] /\ open = [p \in Processes |-> FALSE]
    /\ failures = 0 /\ faults = 0 /\ said = [i \in Images |-> {}] /\ spent = {}
    /\ crossed = {} /\ unindexed = {} /\ dropped = {}

Fault == faults < MaxFaults /\ faults' = faults + 1 /\ UNCHANGED failures

-----------------------------------------------------------------------------
(* Outside: links expire, index rows and cached extractions grow old.      *)

Expires(l) ==
    /\ link[l] /\ link' = [link EXCEPT ![l] = FALSE]
    /\ UNCHANGED <<store, jobs, results, cache, ingest, purge, worker, breaker, bounds, history>>

GrowsOld(i) ==
    /\ index[i] # None /\ ~index[i].old
    /\ index' = [index EXCEPT ![i].old = TRUE]
    /\ UNCHANGED <<link, file, jobs, results, cache, ingest, purge, worker, breaker, bounds, history>>

\* purge_expired_cache
DropCached(i) ==
    /\ cache[i] # None /\ cache' = [cache EXCEPT ![i] = None]
    /\ UNCHANGED <<link, store, jobs, results, ingest, purge, worker, breaker, bounds, history>>

-----------------------------------------------------------------------------
(* Prefetch, then the job.                                                 *)

Image == ImageOf[ilead]
Storing(i) == ipc \in {"look", "write", "index", "queue_blob"} /\ ImageOf[ilead] = i

Download(l) ==
    /\ ipc = "idle" /\ jobs[l].status = "none" /\ link[l]
    /\ ipc' = "look" /\ ilead' = l
    /\ UNCHANGED <<link, store, jobs, results, cache, purge, worker, breaker, bounds, history>>

\* The link is dead, or every attempt met an error.
DownloadFails(l) ==
    /\ ipc = "idle" /\ jobs[l].status = "none"
    /\ IF link[l] THEN Fault ELSE UNCHANGED bounds
    /\ ipc' = "queue_url" /\ ilead' = l
    /\ UNCHANGED <<link, store, jobs, results, cache, purge, worker, breaker, history>>

\* put: bytes that are there are not written again.
LookFile ==
    /\ ipc = "look"
    /\ ipc' = IF file[Image] THEN "index" ELSE "write"
    /\ crossed' = IF Image \in list THEN crossed \cup {Image} ELSE crossed
    /\ UNCHANGED <<link, store, jobs, results, cache, ilead, purge, worker, breaker, bounds,
                   said, unindexed, dropped>>

WriteFile ==
    /\ ipc = "write" /\ ipc' = "index"
    /\ file' = [file EXCEPT ![Image] = TRUE]
    /\ UNCHANGED <<link, index, jobs, results, cache, ilead, purge, worker, breaker, bounds, history>>

\* A new row, or only a new last_used: the first source_url stays.
IndexFile ==
    /\ ipc = "index" /\ ipc' = "queue_blob"
    /\ index' = [index EXCEPT ![Image] =
                    [url |-> IF @ = None THEN ilead ELSE @.url, old |-> FALSE]]
    /\ UNCHANGED <<link, file, jobs, results, cache, ilead, purge, worker, breaker, bounds, history>>

\* An error of the database in _index is swallowed.
IndexFails ==
    /\ ipc = "index" /\ ipc' = "queue_blob" /\ Fault
    /\ unindexed' = unindexed \cup {Image}
    /\ UNCHANGED <<link, store, jobs, results, cache, ilead, purge, worker, breaker,
                   said, crossed, dropped>>

QueueLead ==
    /\ ipc \in {"queue_blob", "queue_url"}
    /\ jobs' = [jobs EXCEPT ![ilead] =
           [status |-> "open", ref |-> IF ipc = "queue_blob" THEN "blob" ELSE "url"]]
    /\ ipc' = "idle" /\ ilead' = None
    /\ UNCHANGED <<link, store, results, cache, purge, worker, breaker, bounds, history>>

IngesterDies ==
    /\ ipc # "idle" /\ Fault
    /\ ipc' = "idle" /\ ilead' = None
    /\ unindexed' = IF ipc = "index" THEN unindexed \cup {Image} ELSE unindexed
    /\ UNCHANGED <<link, store, jobs, results, cache, purge, worker, breaker,
                   said, crossed, dropped>>

-----------------------------------------------------------------------------
(* purge_expired: one read of the index, then file and row, one by one.    *)

IsOpen(l) == jobs[l].status = "open"
ReferencedNever(i) == FALSE   \* mutant: open jobs are not asked for
Referenced(i) == \E l \in Leads : IsOpen(l) /\ jobs[l].ref = "blob" /\ ImageOf[l] = i

ExpiredRows == {i \in Images : index[i] # None /\ index[i].old /\ ~Referenced(i)}

ReadExpired ==
    /\ list = {} /\ ExpiredRows # {}
    /\ list' = ExpiredRows
    /\ crossed' = crossed \cup {i \in ExpiredRows : Storing(i)}
    /\ UNCHANGED <<link, store, jobs, results, cache, ingest, removed, worker, breaker, bounds,
                   said, unindexed, dropped>>

RemoveFile(i) ==
    /\ i \in list /\ removed = None /\ removed' = i
    /\ file' = [file EXCEPT ![i] = FALSE]
    /\ UNCHANGED <<link, index, jobs, results, cache, ingest, list, worker, breaker, bounds, history>>

RemoveFails(i) ==
    /\ i \in list /\ removed = None /\ Fault
    /\ list' = list \ {i}
    /\ UNCHANGED <<link, store, jobs, results, cache, ingest, removed, worker, breaker, history>>

DeleteRow ==
    /\ removed # None
    /\ index' = [index EXCEPT ![removed] = None]
    /\ list' = list \ {removed} /\ removed' = None
    /\ UNCHANGED <<link, file, jobs, results, cache, ingest, worker, breaker, bounds, history>>

PurgeDies ==
    /\ list # {} /\ Fault
    /\ list' = {} /\ removed' = None
    /\ UNCHANGED <<link, store, jobs, results, cache, ingest, worker, breaker, history>>

-----------------------------------------------------------------------------
(* A worker on a job: pixels.                                              *)

Lead(w)  == hand[w].lead
Seen(w)  == ImageOf[Lead(w)]
Goes(w, place) == pc' = [pc EXCEPT ![w] = place]
Holds(w, answer) == hand' = [hand EXCEPT ![w].answer = answer]

ClaimLead(w, l) ==
    /\ pc[w] = "idle" /\ IsOpen(l)
    /\ \A v \in Workers : hand[v] # None => Lead(v) # l
    /\ Goes(w, "load") /\ hand' = [hand EXCEPT ![w] = [lead |-> l, answer |-> "none"]]
    /\ UNCHANGED <<link, store, jobs, results, cache, ingest, purge, breaker, bounds, history>>

Finish(w, status) ==
    /\ results' = [results EXCEPT ![Lead(w)] = status]
    /\ jobs' = [jobs EXCEPT ![Lead(w)].status = "done"]
    /\ Goes(w, "idle") /\ hand' = [hand EXCEPT ![w] = None]

\* get: the bytes, and last_used; or nothing.
LoadBlob(w) ==
    /\ pc[w] = "load" /\ jobs[Lead(w)].ref = "blob"
    /\ Goes(w, IF file[Seen(w)] THEN "judge" ELSE "heal")
    /\ index' = IF file[Seen(w)] /\ index[Seen(w)] # None
                THEN [index EXCEPT ![Seen(w)].old = FALSE] ELSE index
    /\ UNCHANGED <<link, file, jobs, results, cache, ingest, purge, hand, breaker, bounds, history>>

\* One attempt on a link, which may fail while the link is good.
Fetches(w, l) ==
    /\ link[l] /\ Goes(w, "judge")
    /\ UNCHANGED <<link, store, jobs, results, cache, ingest, purge, hand, breaker, bounds, history>>
FetchFails(w, l) ==
    /\ IF link[l] THEN Fault ELSE UNCHANGED bounds
    /\ Finish(w, "unprocessed")
    /\ UNCHANGED <<link, store, cache, ingest, purge, breaker, history>>

FetchLink(w) ==
    /\ pc[w] = "load" /\ jobs[Lead(w)].ref = "url"
    /\ Fetches(w, Lead(w)) \/ FetchFails(w, Lead(w))

\* The blob is gone: the link it was first stored from, if the index has it.
HealBlob(w) ==
    /\ pc[w] = "heal" /\ index[Seen(w)] # None
    /\ Fetches(w, index[Seen(w)].url) \/ FetchFails(w, index[Seen(w)].url)
HealFails(w) ==
    /\ pc[w] = "heal" /\ index[Seen(w)] = None
    /\ Finish(w, "unprocessed")
    /\ UNCHANGED <<link, store, cache, ingest, purge, breaker, bounds, history>>

JudgeQuality(w) ==
    /\ pc[w] = "judge"
    /\ IF shows[Seen(w)] = "blurred"
       THEN Finish(w, "unprocessed")
       ELSE Goes(w, "look") /\ UNCHANGED <<jobs, results, hand>>
    /\ UNCHANGED <<link, store, cache, ingest, purge, breaker, bounds, history>>

-----------------------------------------------------------------------------
(* extract: cache, breaker, call.                                          *)

LookCache(w) ==
    /\ pc[w] = "look"
    /\ IF cache[Seen(w)] # None
       THEN Goes(w, "classify") /\ Holds(w, cache[Seen(w)])
       ELSE Goes(w, "wait") /\ UNCHANGED hand
    /\ UNCHANGED <<link, store, jobs, results, cache, ingest, purge, breaker, bounds, history>>

Threads(p) == {w \in Workers : home[w] = p}
IsOpenFor(w) == open[home[w]]

\* wait_if_open sleeps to the deadline it read; it does not look again.
WaitNever(w) ==   \* mutant: the breaker is not asked
    /\ pc[w] = "wait" /\ Goes(w, "call")
    /\ UNCHANGED <<link, store, jobs, results, cache, ingest, purge, hand, breaker, bounds, history>>
WaitIfOpen(w) ==
    /\ pc[w] = "wait" /\ Goes(w, IF IsOpenFor(w) THEN "asleep" ELSE "call")
    /\ UNCHANGED <<link, store, jobs, results, cache, ingest, purge, hand, breaker, bounds, history>>

\* "drowsy": the deadline slept to is no longer that of the breaker.  Whatever
\* deadline a worker slept to is not before that of its own last failure.
Wakes(w) ==
    /\ pc[w] = "drowsy" \/ (pc[w] = "asleep" /\ ~IsOpenFor(w))
    /\ Goes(w, "call") /\ spent' = spent \ {w}
    /\ UNCHANGED <<link, store, jobs, results, cache, ingest, purge, hand, consec, open,
                   bounds, history>>

CooldownEnds(p) ==
    /\ open[p] /\ open' = [open EXCEPT ![p] = FALSE] /\ spent' = spent \ Threads(p)
    /\ UNCHANGED <<link, store, jobs, results, cache, ingest, purge, worker, consec,
                   bounds, history>>

StartCall(w) ==
    /\ pc[w] = "call" /\ Goes(w, "calling")
    /\ UNCHANGED <<link, store, jobs, results, cache, ingest, purge, hand, breaker, bounds, history>>

\* Whoever sleeps to another deadline than the breaker's.
Roused(w, place) ==
    [v \in Workers |-> IF v = w THEN place
                       ELSE IF v \in Threads(home[w]) /\ pc[v] = "asleep" THEN "drowsy" ELSE pc[v]]

\* record(ok): the breaker closes, whatever the reply is worth.
CallReplies(w, answer) ==
    /\ pc[w] = "calling"
    /\ IF answer \in {"scraps", "nothing"} THEN Fault ELSE answer = shows[Seen(w)] /\ UNCHANGED bounds
    /\ consec' = [consec EXCEPT ![home[w]] = 0] /\ open' = [open EXCEPT ![home[w]] = FALSE]
    /\ spent' = spent \ Threads(home[w])
    /\ pc' = Roused(w, "keep") /\ Holds(w, answer)
    /\ said' = [said EXCEPT ![Seen(w)] = @ \cup {answer}]
    /\ UNCHANGED <<link, store, jobs, results, cache, ingest, purge, crossed, unindexed, dropped>>

\* record(not ok): at the threshold, and after each failure beyond it, a new
\* deadline.  The failure itself is taken for "not a payment document".
CallFailsKept(w) ==   \* mutant: the answer of a failed call is cached, too
    /\ pc[w] = "calling"
    /\ failures < MaxFailures /\ failures' = failures + 1
    /\ pc' = [pc EXCEPT ![w] = "keep"] /\ Holds(w, "nothing")
    /\ dropped' = dropped \cup {Lead(w)}
    /\ UNCHANGED <<link, store, jobs, results, cache, ingest, purge, breaker, faults,
                   said, crossed, unindexed>>
Past(w) == consec[home[w]] + 1 >= Threshold
CallFails(w) ==
    /\ pc[w] = "calling"
    /\ failures < MaxFailures /\ failures' = failures + 1
    /\ consec' = [consec EXCEPT ![home[w]] = IF @ < Threshold THEN @ + 1 ELSE @]
    /\ IF Past(w)
       THEN /\ open' = [open EXCEPT ![home[w]] = TRUE]
            /\ pc' = Roused(w, "classify") /\ spent' = spent \cup {w}
       ELSE Goes(w, "classify") /\ UNCHANGED <<open, spent>>
    /\ Holds(w, "failed") /\ dropped' = dropped \cup {Lead(w)}
    /\ UNCHANGED <<link, store, jobs, results, cache, ingest, purge, faults,
                   said, crossed, unindexed>>

\* _cache_put: on a reply, readable or not; the first one stays.
KeepReply(w) ==
    /\ pc[w] = "keep" /\ Goes(w, "classify")
    /\ cache' = IF cache[Seen(w)] = None THEN [cache EXCEPT ![Seen(w)] = hand[w].answer] ELSE cache
    /\ UNCHANGED <<link, store, jobs, results, ingest, purge, hand, breaker, bounds, history>>

\* is_payment_candidate: payment words or a hard field.
IsCandidate(answer) == answer \in {"payment", "scraps"}
Classify(w) ==
    /\ pc[w] = "classify"
    /\ Finish(w, IF IsCandidate(hand[w].answer) THEN "candidate" ELSE "non_document")
    /\ UNCHANGED <<link, store, cache, ingest, purge, breaker, bounds, history>>

\* A statement or a log write raises: fail() puts the lead back, still open.
JobRaises(w) ==
    /\ pc[w] \in {"load", "judge", "classify"} /\ Fault
    /\ Goes(w, "idle") /\ hand' = [hand EXCEPT ![w] = None]
    /\ UNCHANGED <<link, store, jobs, results, cache, ingest, purge, breaker, history>>

\* All its threads are gone, and its breaker; the leases run out.
ProcessDies(p) ==
    /\ (\E w \in Threads(p) : pc[w] # "idle") /\ Fault
    /\ pc' = [w \in Workers |-> IF w \in Threads(p) THEN "idle" ELSE pc[w]]
    /\ hand' = [w \in Workers |-> IF w \in Threads(p) THEN None ELSE hand[w]]
    /\ consec' = [consec EXCEPT ![p] = 0] /\ open' = [open EXCEPT ![p] = FALSE]
    /\ spent' = spent \ Threads(p)
    /\ UNCHANGED <<link, store, jobs, results, cache, ingest, purge, history>>

Outside ==
    \/ \E l \in Leads : Expires(l)
    \/ \E i \in Images : GrowsOld(i) \/ DropCached(i)

IngestStep ==
    \/ \E l \in Leads : Download(l) \/ DownloadFails(l)
    \/ LookFile \/ WriteFile \/ IndexFile \/ IndexFails \/ QueueLead \/ IngesterDies

PurgeStep ==
    \/ ReadExpired \/ DeleteRow \/ PurgeDies
    \/ \E i \in Images : RemoveFile(i) \/ RemoveFails(i)

LoadStep(w) ==
    \/ \E l \in Leads : ClaimLead(w, l)
    \/ LoadBlob(w) \/ FetchLink(w) \/ HealBlob(w) \/ HealFails(w) \/ JudgeQuality(w)

CallStep(w) ==
    \/ LookCache(w) \/ WaitIfOpen(w) \/ Wakes(w) \/ StartCall(w)
    \/ (\E answer \in Answers : CallReplies(w, answer))
    \/ CallFails(w) \/ KeepReply(w) \/ Classify(w)

Next ==
    /\ \/ Outside \/ IngestStep \/ PurgeStep
       \/ \E p \in Processes : CooldownEnds(p) \/ ProcessDies(p)
       \/ \E w \in Workers : LoadStep(w) \/ CallStep(w) \/ JobRaises(w)
    /\ UNCHANGED fixed

Spec == Init /\ [][Next]_vars

-----------------------------------------------------------------------------
(* Properties                                                              *)

\* blobstore.py:102-103: a queued lead never loses its image; unless a purge
\* and the put of the same bytes overlapped.
QueuedKeepsImage ==
    \A l \in Leads :
        IsOpen(l) /\ jobs[l].ref = "blob" /\ ImageOf[l] \notin crossed => file[ImageOf[l]]

\* No bytes out of the reach of the purge, which goes by the index.
FilesIndexed ==
    \A i \in Images \ (crossed \cup unindexed) :
        file[i] /\ ~Storing(i) => index[i] # None

\* Bytes and index belong together: what a queued lead needs is there, and what
\* is there can be found by the purge.
StoreSound == EvidenceTypeOK /\ QueuedKeepsImage /\ FilesIndexed

\* medha_client.py:198: an outage costs the leads it meets, not the later
\* ones with the same image.
OutageStaysLocal ==
    \A l \in Leads \ dropped :
        results[l] = "non_document" =>
            \/ shows[ImageOf[l]] = "other"
            \/ "nothing" \in said[ImageOf[l]]

\* medha_client.py:70-72: backpressure instead of a retry storm.  A worker whose
\* failed call set a cooldown makes no other call, of the same lead or of the
\* next, before that deadline or a later one has passed or a reply has closed
\* the breaker; whoever else fails, replies or dies meanwhile.
FailedBackOff == \A w \in spent : IsOpenFor(w) /\ pc[w] \notin {"call", "calling"}
=============================================================================

# Verification of the payment verification system

TLA+ models of the payment verification system of this repository, the TLC
configurations that check them on small instances, and theorems that the TLAPS
proof system checks for every value of the constants.

Everything is translated from the code under `src/`; paths below are relative to
it. `PROJECT.json` maps each definition to the lines it stands for.

## 1. The system

A borrower's proof of payment (a *lead*: one CSV or database row and one image)
goes through a durable queue to a pool of worker threads, each of which runs the
lead through the same stages and writes one verdict. All state is in Postgres;
every statement runs on an autocommit connection (`db/pg.py:34-44`), so **each
statement is one atomic step** and nothing else is: that is the granularity of
every model here.

| Part | Code | State | Operations | What makes it hard |
|---|---|---|---|---|
| Job queue and worker loop | `pipeline/jobs.py`, `worker.py`, `workspaces/payment/workspace.py` | table `jobs` (status, attempts, lease, verdict); what each thread holds | enqueue, claim, complete, fail; the loop; process death and restart | leases that run out under a live worker, lost replies, `complete`/`fail` that check neither owner nor status |
| Lead pipeline | `pipeline/orchestrator.py`, `observability/pg_logger.py` | `lead_results`, `lead_events`; the locals of `process_lead` | stages D, 0-4, `_finish` | retries of a half-done lead; result and job verdict are two statements |
| Duplicate ledger | `observability/pg_dedup.py` | `processed_payments` | `evaluate`, `claim` | two submissions at the same moment; a retry that meets its own claim; a read that is used much later |
| Model client | `ocr/medha_client.py`, `pipeline/ocr_classify.py` | `ocr_cache`, breaker counters (per process) | extract, cache, breaker | outages reported as verdicts; all callers released at once |
| Images | `pipeline/image_source.py`, `pipeline/image_qc.py`, `ingest/blobstore.py`, `ingest/images.py` | blob files and `image_blobs` | load, prefetch, put, get, purge | purge against use; file and row are two steps |
| Verification | `pipeline/extract.py`, `pipeline/verify.py` | receiver lists (per process) | check fields, decide | pure, but subtle matching rules |
| Approvals and re-verification | `pipeline/approvals.py`, `reverify.py` | `receiver_approvals`, receiver file, `lead_results` | decide, re-verify | decisions racing each other and leads in flight |
| Ingester | `ingest/*.py` | `ingest_watermarks`, `ingest_quarantine`, `ingest_runs`, `jobs` | cycle, backfill, advisory lock | paging by timestamp, late commits, crash between enqueue and advance, two ingesters |
| Runtime configuration | `config/runtime.py` | `runtime_config`, a cache with a TTL per process | read, set | stale reads, multi-key saves that stop half-way |
| Schema and housekeeping | `db/pg.py` | all tables | clear sandbox, purges, orphan sweep | deletes under a running worker |
| Console and API | `app/server.py` | - | enqueue, verify, review, approve | synchronous verification outside the queue |
| Legal notices: queue | `workspaces/legal/jobs.py`, `routes.py`, `db.py` | `legal_leads`, `legal_lead_documents`, `legal_lead_results` | scan, claim, complete, fail, pause, resume, cancel, delete | no lease; a second upload of a lead that is being read; four tables written one after the other |
| Legal notices: reading | `workspaces/legal/pipeline.py`, `prompt_analyzer.py` | page records, document status | choose pages, batch, ask, normalise, file | replies of every shape, failed calls, unreadable pages, exceptions half-way |
| Legal notices: dossier | `workspaces/legal/consolidate.py`, `page_attribution.py` | page records, values, people set aside | group, number and vote on people; find the page of a value | people numbered anew in every batch; done twice and again by the migration |
| Legal notices: corrections, trust, backfill | `workspaces/legal/corrections.py`, `trust.py`, `backfill.py` | `extracted_data`, `raw_extractions`, corrections, snapshots | correct, confirm, revert; re-run, migrate, judge, restore | jobs that work on copies read before a decision was made |
| Legal notices: model routing | `workspaces/legal/llm.py`, `config/runtime.py` | `runtime_config`, copies of it per process | validate and save, plan, retry, re-read | a save is many statements; readers see half of it, or old copies |
| Reports, exports, entry points | `observability/metrics.py`, `workspaces/legal/*_generator.py`, `run*.py`, ... | - | read only | - |

How they interact: the console, the batch runner and the ingester INSERT into
`jobs`; workers claim from it; `process_lead` reads and writes the ledger, the
image store and the model and upserts `lead_results`; approvals and
re-verification rewrite `lead_results` outside the queue; housekeeping deletes
from all of them. Nothing but the tables is shared between processes, except
what each process caches (receiver lists, runtime configuration, breaker).

The hazards that follow from this, each at its line and with the properties that
would catch it, are in `PROJECT.json` under `hazards`.

## 2. The modules

```
JobQueue  <--EXTENDS--  PaymentPipeline  --INSTANCE-->  PaymentLedger
                            ^                           (abstract promise)
         PaymentPipelineProofs, MCPaymentPipeline

Ingester      <--  IngesterProofs,     MCIngester
Sandbox       <--  SandboxProofs,      MCSandbox
LegalQueue    <--  LegalQueueProofs,   MCLegalQueue
LegalReview   <--  LegalDossierProofs, MCLegalReview
Evidence      <--  EvidenceProofs,     MCEvidence
Approvals     <--  ApprovalsProofs,    MCApprovals
ModelRouting  <--  LegalReadingProofs, MCModelRouting
Reading       <--  LegalReadingProofs, MCReading
Dossier       <--  LegalDossierProofs, MCDossier
```

A module whose name starts with `MC` only names the values of an instance. The
queue has no instance of its own: the pipeline implements it, and its properties
are checked there.

**History variables.** The code leaves some windows open on purpose or by
oversight, and what happens in them is recorded in variables that no guard reads.
A property then says "unless", and the name after "unless" is such a variable. It
is listed below per module, so that a reader can judge how much each one excuses.

**JobQueue** - `jobs` and the worker loop. `status`, `attempts`, `lease`,
`verdict`, `created` are the columns; `pc`, `job`, `result` are what a thread is
doing. Time is kept as far as the code compares it: a lease is NULL, running or
expired. `Enqueue`, `ClaimOne`, `Complete`, `Fail` are the four statements;
`Picked` is the `ORDER BY ... FOR UPDATE SKIP LOCKED`, where a row that another
worker may be updating at that moment can be skipped. Faults are actions of
their own: `ClaimReplyLost`, `CompleteRaises` (the statement took effect or not),
`FailRaises`, `Crash`, `LeaseOverruns` (a worker slower than its lease).
*History:* `overran` and `unacked`, the jobs whose lease ran out under a live
worker, and those whose `complete()` took effect but raised.

**PaymentPipeline** - extends it with `process_lead`: `ClaimOne` becomes
`StartLead`, `ProcessReturns` becomes the sequence `Evaluate`, `ClaimIdentity`,
`LoadImage`, `OcrClassify`, `Verify`, `Finish`. `ledger` is `processed_payments`,
`results` is `lead_results.verification_status`. The image, the model and the
field checks are choices; which choices are possible, and what is written when,
is the code's. Any statement may raise before or after it took effect
(`StageRaises`, `StageReplyLost`), and then the queue retries the lead.

**PaymentLedger** - what the duplicate guard promises: a payment is taken once,
for good; only the taker counts; a lead is a duplicate only of another's payment.
`KeepsPromise` (every pipeline step is a `Take`, a `Count`, a `Refuse` or
invisible) and `DrainsQueue` (the pipeline implements JobQueue's `Spec`) are
checked as PROPERTIES and proved.

**Ingester** - `run` and `run_cycle` of `ingest/ingester.py` with the cursor of
`ingest/watermark.py`. `watermark`, `jobs` and `quarantine` are the tables, `lock`
is the advisory lock, `at` and `cycle` are where a process is and the locals of
its cycle: `base`, `since`, `top` (`max_tuple`), `last` (`prev_page_max`), `pages`.
Each row is one step, because each is one autocommitted statement, and the cursor
is advanced in a step of its own; a cycle can fail (`CycleFails`), a process can
die (`Crash`), be told to stop (`Signal`) or lose its lock unnoticed (`LoseLock`)
between any two of them. The source is external: `now` is its clock in seconds,
the unit the ingester asks in; a row becomes visible up to `Latency` after its
`created_at`, a cycle lasts up to `CycleTime`. Rows have a rank in the database's
`ORDER BY` and another among the `str(id)` that cursors compare. *History:*
`promised`, the time from which rows are meant to be ingested, i.e. from the first
cycle on, or all of them after a backfill. Each row is a lead of its own; edited
rows and rows without id or timestamp are not in the model, and the clock of the
ingester is that of the source.

**Sandbox** - the four tables of the payment workspace while test data comes and
goes. `Enqueue` is `enqueue_rows`; `ClaimJob` ... `CompleteJob` a worker, cut down
to the statements that write the tables; a lease may run out at any time, under a
worker that died or one that goes on, so two workers can have one lead; `VerifyNow`
the synchronous `/api/verify`; `OpenLead` and `SaveReview` a reviewer. A wipe is a
process with a place: `ClearAll` and `ClearBatch` are `clear_test_data`, `Boot` is
`init_schema` with the purge of expired test data and the orphan sweep, and each
DELETE is a step (`WipeResults`, `WipeJobs`, `WipeLedger`, `WipeReviews`,
`SweepOrphans`), in the order of the code, which differs between the two (`After`).
Nothing stops an upload of the same ids, for real, between two of them. All leads
carry one payment. *History:* `crossed`, leads a wipe met in a worker's or
reviewer's hands or that were written under it, or whose review the start of a
process re-labelled under it (`Migrate`, see section 6); `again`, leads with a
second result; `direct`, leads of the synchronous endpoint, which have no job.

**Evidence** - an image on its way to a verdict. `shows` is what it would tell,
`link` the signed link, `file` and `index` the two halves of the blob store. The
ingester stores the bytes, then the index row, then queues the lead
(`prefetch_images`); the retention purge reads old rows, then deletes file and row
of each; a worker loads from the blob or the link, looks into the cache, calls the
model behind the breaker and reads its answer. The breaker (`consec`, `open`) is
memory of a process: the threads of a pool share one (`home` says which process a
worker is a thread of), and it goes with them when the process dies
(`ProcessDies`); an exception ends one job only (`JobRaises`). *History:*
`crossed`, images put again while the purge had them on its list; `unindexed`,
those whose put broke between file and row; `dropped`, leads of a call that
failed in transport; `said`, all a model ever answered; `spent`, workers whose
failed call set a cooldown that has not passed.

**Approvals** - the receivers of a lender in every process that knows them. `copy`
of each process, `file` and `decision` are the three places; an admin's request
decides, edits the file (under a lock) or not, reloads, and re-verifies the leads
that had failed on the receiver, lead by lead, result then job. Workers in the web
process and standalone ones come back with an extraction and judge it by their own
copy (`Status`, the whole of the stage 3 decision over abstract matches). The
command `reverify.py` does the same over rows it has read. *History:* `mixed`,
leads two writers had in hand, or one left half written; `missed`, leads saved or
checked across an approval of their payee; `contested`, names with two decisions
in flight or an approval that broke off.

**LegalQueue** - the legal workspace from upload to verdict. `status`, `docStatus`,
`resStatus`, `data`, `resData` and the counters are the columns of three tables; the
file behind a document name is the number of the upload that brought it. Uploads
(`ScanLead`, `ScanDoc`, `ScanQueue`; each in a request or thread of its own, any
number of them at once), workers (`claimed`, `reading`, `counting`, `handling`,
`saving`, `filing`, ...), a deletion and the batch actions are processes whose
statements interleave freely: there is no lease and no lock. What an exception does
depends on where it strikes: within the `try` around a document it is handled
(`DocRaises`, `TryRaises`, then `HandleDoc`: the document failed, what its earlier
batches found is kept), outside of it the worker loop fails the lead (`StepRaises`),
in the final save it is swallowed (`SaveRaises`, `Rescue`). Two uploads within one
second share number and directory in the code; here each has its own. *History:*
`overlapped`, leads scanned or deleted while a worker was on them, or scanned in the
middle of their deletion; `hit`, leads a fault has hit; `late`, documents that came
to a lead while a worker was on it or after its verdict.

**LegalReview** - one dossier between reviewers and jobs. A save by a reviewer is
one transaction; `Rerun`, `Backfill...`, `Trust...` and `Restore...` hold copies and
write them back, `ed` first, `res` later. An extraction is a record of functions:
value shown, reading behind it with its evidence, `_model_values`, `_overrides`,
`_trust`. `Overlay`, `Holding`, `Evaluate`, `LeadState`, `FieldTrust` translate
`apply_to`, `evaluate` and `trust.py` rule by rule. *History:* every copy carries
`behind`, the fields whose latest decision it has not seen, and `replay`, whether a
migration has replaced its values and whether they were judged since. A migration
keeps `_model_values` as they were, so after one "the model's reading" has two
meanings, and `ReadingKept` is only about extractions that were not replayed.

**ModelRouting** - which model reads a page. A save validates, then writes key by
key (`StartSave`, `WriteKey`); a process reads through a copy that expires
(`Forgets`); `StartBatch` plans with the copy, and `CallReads` and `CallFails` are the
calls, the retry and the re-reading in the other language. *History:* `overlap`,
two saves met, or one broke off.

**Dossier** and **Reading** - the two pure halves of the legal pipeline. `Reading`
goes from the pages of a document to what is filed of each reply: page selection,
batches, `Normalised` (`_normalize_extracted_fields`) and `Ingested`
(`_ingest_batch`). A batch is a set of pages, the next ones by their numbers; what
one source of fields adds to another (`setdefault`, "not in normalized", later keys
over earlier ones) is `Over`. `EveryoneOnce` leaves out replies that tell the people
of one role in two ways at once (`Unmixed`); `EvidenceKept` is about all replies,
and in each about everyone below whom no number is missing once twins are left out
(`Undisturbed`); section 6 says what happens to the others. `Dossier` goes from page
records to one set of values: `Decided`/`Rewritten`/`Valued` (`consolidate`) and
`ReattributedOf` (`reattribute`: a value moves to the page whose text has it). The
loops of `consolidate` are stated by what they leave behind: a person is its first
read (`PersonOf`, a function over the reads in the order `Sooner` of the loop:
records, and keys as text within one), a counter is the set of its votes (`Vote`,
`Total`), a position in a sorted list is the number of those before (`NumberIn`,
`Listed`), and "not yet there or longer" is the longest, the first among equals
(`Longest`). `DossierSpec` is the two passes with the filing of pages between them;
`mentioned` collects who is set aside in either. A field is a triple out of
`SchemaFields`; which of them a prompt asks for (`asked`) decides what a batch
leaves in the records (`Asked`) and which values a party gets (`Allows`), but not
what the pages are renumbered to. Names are model values; whether two are alike is a
parameter (`SamePairs`), neither transitive nor reflexive: a name without a Latin
letter (`Latin`) is like none, itself included. So is the normal form by which
values are looked for and merged (`Norm`), and what cleaning leaves of a printed
value. The spellings of an amount are counted as they are, not by their digits
(`consolidate.py:283`). *History (Reading):* `calls`, the replies; `cut`, documents
with pages that could not be rendered; `broken`, those an exception left.

Operators marked `mutant` are variants of a definition, each a mistake one could
make in that statement. No specification uses them; they are there to show, by
replacing the definition, that a property would notice.

## 3. The runs

| Run | Instance | Shows |
|---|---|---|
| `pipeline_safety` | 2 submissions of one payment, 2 workers, 2 attempts, 1 fault, fairness | one payment counts for one lead; no model call for another's payment; a done job has the result it says; one worker per job; settled stays settled and every job settles; the two refinements |
| `pipeline_race` | 2 loan accounts under one lead code, 2 workers | **violated**: both leads evaluate before either claims, and neither is flagged |
| `ingest_safety` | 3 rows, 2 live ingesters, 1 fault, pages of 2 | with two ingesters at work the cursor neither goes back nor passes a row |
| `ingest_live` | 3 rows, 1 ingester in every mode, 1 fault, fairness | every promised row lands, backfill included, unless a second is crowded |
| `sandbox` | 2 leads, 2 workers, a wipe, a reviewer; 2 uploads, 2 runs, 2 wipes, 1 fault | a wipe leaves nothing of a test lead and nothing real is taken; nothing is counted twice; a done job was run itself |
| `evidence` | 2 leads with one image, 2 workers in 1 or 2 processes, threshold 2, 3 failed calls, 2 faults | a queued lead keeps its image and no file is lost to the purge; an outage costs the leads it meets; who has set a cooldown waits for it |
| `approvals` | 1 lead, 2 names, 2 admins, 1 re-verification, 2 workers of two processes, 2 extractions, 2 requests, 1 fault | file and decisions agree; an approval reaches every lead; result and job agree; no lead is verified on a receiver that is not on file |
| `legal_queue` | 1 lead of 2 documents, 2 workers, 2 uploads at any time, 1 fault | one reader per lead; a verdict has no undecided document but late ones; the tables agree; nobody is abandoned; pause holds |
| `legal_review` | 2 fields, 1 reviewer, 2 decisions, 2 jobs | corrections survive every job; a revert brings back the reading; nothing doubtful is shown as settled |
| `routing` | 2 processes, 2 saves, 1 batch, 1 fault, fairness | no model is paid twice for a page and the log tells which reading is used; saves leave callable settings; copies catch up |
| `dossier` | every dossier of up to 3 records out of 13 templates, times 3 text layers, times 3 prompts | nobody is dropped, panels and numbers agree, pages are proven, doing it again changes nothing |
| `reading` | 2 documents, batches of 2, 10 replies, 1 fault | everyone named is filed once, under a page that was sent; a document's status tells what happened to it |

The violated run is a disagreement between the code and what is written of it,
the finding in `PROJECT.json` with the sentence it contradicts. The property holds
with one worker: the window is between two threads.

**Bounds.** Every race here is between a holder and one other, so two workers, two
admins, two processes are enough; one fault is enough to break any single step,
and where two faults have to meet (a purge and a failed put, a failed call and a
crash) there are two. `MaxAttempts = 2` has a first, a last and (after a crash) one
too many. Two uploads are needed for an id that comes back, two wipes for one that
finds what another left. The image of `evidence` is one, since two leads with
different images share nothing but the breaker; the calls that fail are one more
than the threshold. Three records in `dossier` are the least with two batches that
use one key for two people and one that names a person under another key; the
prompts ask for everything, for the borrower's name only, and for borrowers. One
name of its templates has no Latin letter and one is another's in capitals. The
state constraint `SmallCrowd` of `legal_queue` follows two workers on one lead (which
`overlapped` excuses) only in a dossier of one document; all that precedes, and
every interleaving of one worker with both uploads, is followed in full. Faults of
`evidence` are fewer than the attempts of a job, which it does not count. Ten
replies in `reading` are one of every shape the prompt allows and those the code
repairs. Enqueue, restarts and attempts of the queue need no bound: each is limited
by another.

For the ingester, three rows and pages of two are the least with a full page, a
page after it and a row left out of the first. The overlap of the instances is
`Latency + CycleTime`, as the default of ten minutes is meant. It is needed: with
`Overlap = 1`, `Latency = 1`, `CycleTime = 1`, `MaxTime = 3` and four rows TLC finds a
row that is committed behind the first page while the cycle goes on to newer ones,
and that the next cycle no longer reads.

**Fairness.** `FairPipelineSpec`: a live worker thread keeps running its loop
(`worker.py:57`) and the stages of `process_lead`, a dead process is restarted
(`docs/system-documentation.md:426`, `Restart=always`), and the clock passes every
deadline. Faults are not fair and, being bounded, end. `FairSpec` of Ingester: it
keeps running its loop (`ingester.py:228`) and is started again after it has
stopped. `FairSpec` of ModelRouting: a request that has started to write goes on,
and the time of a copy runs out (`config/runtime.py`, a TTL). The other modules have
no liveness property: their actors are people, or are covered by the queue's.

**Deadlock** is checked wherever idle polling keeps a system going (the pipeline
and the ingester). The other instances are finite stories - so many uploads, saves,
decisions, records - and end when those are used up; their configurations say
`CHECK_DEADLOCK FALSE`. That nobody is stuck in the middle is then a property of
its own where it can fail (`Attended`, `VerdictTells`, `CachesCatchUp`).

## 4. The proofs

All theorems hold for any number of jobs, leads, workers, faults and so on, under
the assumptions of the module (`JobQueueAssumption`, `PipelineAssumption`,
`IngesterAssumption`, `SandboxAssumption`, `LegalQueueAssumption`,
`LegalReviewAssumption`, `EvidenceAssumption`, `ApprovalsAssumption`,
`RoutingAssumption`, `ReadingAssumption`, `DossierAssumption`), which TLC evaluates
in every run.

`PaymentPipelineProofs`, first part, about the queue: type correctness,
`OneWorkerPerJob`, `RetryBudget`, `SettledStaysSettled` and `NoOvertaking`. The
inductive invariant `QueueInv` adds to the types: a worker has a job exactly while
it works on one; unless the lease overran, or `complete()` already took effect
unacknowledged, the row of that job is in progress; a row without a `created` rank
does not exist. That is what makes exclusiveness inductive: a claim takes a row that
is pending or expired, and a row with a live holder is neither.

`PaymentPipelineProofs`, second part: the inductive invariant `PipelineInv` adds
that a lead past the claim owns its payment (`Entitled`), that a lead about to be
called a duplicate has lost it (`Refused`), that both survive every step because the
ledger is write-once (`Stable`), and that what a worker writes to `jobs` is what it
saved (`CompletingInv`, for which a saver whose lease did not overrun must be alone
with the lead, `SaverIsAlone`). From it follow the safety properties of the runs,
the step simulation of JobQueue (`PipelineDrainsQueue`) and that of PaymentLedger
(`PipelineKeepsPromise`).

`IngesterProofs`: types, `CursorForward` for any number of ingesters, and
`NoneLeftBehind` under two hypotheses: the overlap is at least `Latency +
CycleTime` (`WideOverlap`), and a backfill has the source to itself
(`BackfillAlone`). The cursor alone is not inductive: a cycle that has read its
pages will move it later. `ReachInv` therefore says of every cycle under way
(`InReach`) that its `top` is within an overlap of any promised row that has not
landed, and distinguishes two kinds of rows. One that could be seen when the cycle
began is at or above `since`, and a page either holds it among the rows still to be
enqueued or lies before it (`LeftOutComesLater`, from the ORDER BY and LIMIT of the
fetch). One that was committed after that is younger than the start of the cycle
less `Latency`, and `top` is not in the future (`Timely`): this is where the width
of the overlap is used.

`SandboxProofs`: types, `CountedOnce` and `RealRowsStay`. A counted result is no
evidence of its own: a wipe may delete the claim under it and let another lead count
the payment. `CountInv` says that it does not, since whoever counts the payment, in
hand (`HandsCount`) or in `lead_results` (`ResultsCount`), has the row of the
ledger, and a wipe that is past the results has left no test result of its leads
(`ResultsGone`) - so when it comes to the ledger, nothing relies on the row any
more. The order of the DELETEs is what carries the proof. `RealRowsStay` needs only
the types and that every DELETE tests `is_test`. `WipedClean` and `DoneWasRun` are
about one lead outside the history variables, and so is their invariant, `LeadOK`,
with a lemma per step that says of which leads it touches anything. It tells the
four tables as one story per lead: a worker's job is there, though another may have
settled it (`HandJob`), a result is that of the job (`ResultJob`) and a job that is
done has one (`DoneResult`), a review, on the screen or stored, is about the run
that is there (`ScreenJob`, `ReviewJob`), a claim belongs to a job or a wipe is
about to come for it (`ClaimJobs`). What keeps the last two true while a wipe goes
through the tables is the order of its DELETEs again, another one for the purge at
boot (`PurgeOrder`) than for clearing (`ClearOrder`), so that nothing an id finds
when it comes back in between is taken for its own (`Fresh`).

`LegalQueueProofs`: types, `OneReaderPerLead`, `VerdictMeansSettled`,
`MissingMeansEmpty`, `PauseHolds`, `Attended`. Without a lease, the claim is
exclusive only because a lead in hand is never pending: `LegalInv` says who has a
lead (`InHand`), which status it can have while he does (`StatusFollows`), that a
worker's list still holds every document nobody decided about (`TodoCovers`), and
that a dossier with documents has some on the list when reading begins
(`ReadsSome`). The last two except documents that are `late`, and `LateTold` keeps
that exception small: what comes late to a lead nobody took away from its worker
came after the verdict. `RowsAgree` follows from `RowsInv`: what a worker has kept so
far, of documents that failed too, is what the documents' rows and present files
allow (`ReadSoFar`, `Held`), what it has saved so far -
values, result, counters, status, in that order - agrees with it (`SavedSoFar`), and
a deletion takes documents and result before the lead (`Clearing`).

`LegalDossierProofs`, second part, about LegalReview: types, `CorrectionsStand`,
`ReadingKept`, `NoBlindDecision`. The rows alone are not inductive, since jobs write
copies over them: `ReviewInv` says the same of each copy on its way, up to the
fields it has not seen a decision about (`CopiesFollow`), and that a copy, too,
keeps its readings (`CopiesKeep`). One lemma per operator of `corrections.py` says
what it does to an extraction, and the steps cite those. `NothingHidden` rests on
`TrustInv`, which relates two things that are stored apart: the trust mark of a
field and the value, evidence and decision it was computed from. An extraction
either waits to be judged or has a mark on every value (`Marked`), a mark that says
the value can be relied on means that the rule of `trust.py` holds of its evidence
(`FieldTrustReliable`), and one that names a person has that person's decision
behind it, up to the decisions a copy has not seen (`Settled`); each operator keeps
that (`EvaluateMarks`, `JudgeMarks`, `LagMarks`).

`EvidenceProofs`: `StoreSound`, `OutageStaysLocal`, `FailedBackOff`, from three
inductive invariants. `StoreInv`: a purge that has an image on its list while
somebody stores or queues it has put it into `crossed` (`PutsMeet`, `JobsMeet`), and
outside `crossed` bytes are only taken away together with their row and before it
(`BytesThere`, `RowThere`, `Removed`). `AnswersInv`: what is cached, or held by a
worker about to cache or use it, says what the image shows or what the model
answered. `FailedBackOff` is inductive with the types: a thread whose failed call set
a cooldown is not in the middle of a call, and to begin one it has to pass a wait
that the breaker of its process, still open, sends to sleep (`StepBackOff`); others
may end its cooldown, and then it is no longer in `spent` (`SpentStays`).

`ApprovalsProofs`: types, `FileSound`, `VerdictsAgree`, `VerifiedIsJustified`,
`ApprovalCovers`. `FileInv`: a request past `Teach` has its name on file, a learnt name
has an approval given or under way, and whoever decides about a name beside another
is in `contested` (`RivalsContest`, `LateIsContested`). `HandsInv`: outside `mixed` a
lead has one holder, whose rows are still those of the table (`RowsTrue`,
`SavedTrue`). `JustInv`: the lists of every process are on file and a verdict
"verified" survives a longer list (`StatusGrows`), so that the rows in hand, and with
`RowsTrue` the rows written, are justified. `CoverInv`: while the lock is free the web
process has the file loaded (`LockInv`), and every lead that waits for this receiver
alone is on the list of each approval of it, with the row the scan will find
(`Ahead`) - to which the list of names it is checked against then applies
(`ReadySettles`).

`LegalReadingProofs`, first part, about ModelRouting: `CallableAtRest` and
`CallsTell`. A save is a loop of statements, and between them the table is a setup
nobody has checked. `SaveInv` says that what a save has yet to write is part of one
setup, and, as long as saves do not meet, that this setup was checked and that the
table differs from it only in the keys still to be written (`OnItsWay`); so with the
last key the table is the setup. For that, leaving out the secret a form did not
give must not matter (`UpdatesWrite`), and what a save checks must be what a plan
uses (`CheckedIsRouted`). `Stage` says what the record of a batch holds at each
stage; that no model is called twice comes from the plan (`Readers`), not from the
settings, which may be half-written.

`LegalReadingProofs`, second part, about Reading: `VerdictTells`, `PagesRead`,
`EvidenceKept`, `EveryoneOnce`. Half of it is about the operators, for replies of
any length: which keys each of `Told`, `Gathered`, `Normalised`, `Kept` has and what
is under them. No recursion is needed there, only least numbers and cardinalities.
That a free number is found is because `n` keys cannot fill `n + 1` numbers
(`FirstFreeIsFree`), and that numbering again neither merges two people nor parts a
name from its address is because more numbers below mean a higher place
(`UpToCounts`, `PlacesApart`). `NamesGathered` follows a name from each of the four
places it can be told in to a key nobody else writes, which is what `Unmixed` is
needed for; the only name that is then dropped is the borrower's own
(`TwinsShareTheName`). `EvidenceKept` is about every reply: whoever has nobody
missing below is given the same number again, by counting (`UpToCounts`), so name
and evidence meet under one key although others have moved. The other half is the
state: `ReadingInv` says of a call that what its reply gives is filed, and under its
pages (`CallsInv`, `FiledInv`), that the tally of the document at work counts its
calls (`TallyInv`), which makes the verdict a statement about calls, and that pages
left, sent and shown are apart and together those to be read (`PagesInv`,
`OnceInv`).

`LegalDossierProofs`, first part, about Dossier: `WhoIsWho`, `PagesSettled`,
`NumbersHold`, for any records, any number of them, any text layer, any prompt and any
likeness that is symmetric.
The one recursive function is `PersonOf`; that it has a value for every read is
well-founded recursion over `Sooner`, which is done by hand: `ToldAlike` and
`ToldExists` say that the equations have one solution up to any read, and `PersonIs`
that the function is that solution.

- *Who is who.* Likeness is not transitive, so a party's best name need not be like
  every name read for that person; it is kin of it (`KinOfPerson`, through the first
  read). `PeopleInv` says of the records as they are that each name read in the
  beginning has kin among them or among those set aside (`Kept`), that the names under
  one key are kin (`Folks`), and that a name filed under a key the prompt asks for
  (`AllowsBy`) is kin of the dossier's name for that key (`Agree`). Names under other
  keys have no value, only their pages (`UnaskedNames`). A pass keeps
  both (`PassKeeps`), since it keeps one name of each person, on a page or aside
  (`EveryoneKept`), and puts every name it moves under its person's key
  (`PanelsRight`); the filing keeps both since it changes pages and no key
  (`FilingKeeps`).
- *Pages.* `PagesInv` needs of the first pass only that it leaves document and page of
  every record alone (`Claimed`); that filing then proves every page is `PageProven`.
  `PagesSettle` is about any records: if no value is lost, the second filing finds the
  same hits and, as claims, the pages of the first (`ClaimSettled`), so that ties break
  the same way (`ChosenAgain`), and one record per page comes out in the same order.
- *Numbers.* `OneEach`: where likeness is symmetric and transitive on the names at
  hand, two reads are of one person exactly if their names are alike; a name that is
  not even like itself is a person at each read, and the theorem says so. For
  `StableNumbers`, the outcome of a pass is put through another one. The first read
  of every party moves to that party's key within the same record (`Moved`), and
  people, borrower, parties, roles and the order of the parties are then the same as
  before (`MovedIs`, `BorrowerStays`, `PartiesStay`, `RolesStay`, `OrderStays`); so
  are keys, records and the fields that have a value (`KeysStay`, `RecordsStay`,
  `ValuesStay`). `OrderStays` is where `FewPeople` is used: see `consolidate.py:142`
  in section 6.

Theorems without a run of their own: the type invariants, `RetryBudget`,
`NoOvertaking`, `LedgerWriteOnce`, `DuplicateOfAnother`, `MissingMeansEmpty`,
`NoBlindDecision`. They hold by the same invariants.

Only model-checked, and why:

- liveness (`EveryJobSettles`, `RowsLandUnlessCrowded`, `CachesCatchUp`): fairness
  is about ENABLED, which the provers do not reach;
- `DifferentLoanReviewed`: violated.

Every invariant and every action property of the passing runs is the subject of a
theorem.

## 5. Not modelled, and why

- String matching and image work: date and amount normalisation, edit distances,
  receiver tokens (`pipeline/extract.py`, parts of `pipeline/verify.py`), decoding
  and blur measures, name cleaning and script detection. The models take their
  outcome as a parameter or a choice, so nothing here says they are right. The
  reconciliation lenders of `verify.py:394-399` only remove a check.
- Prompts: what `prompt_analyzer.py` and `field_schema.py` make of a prompt is the
  constants `Plans` and `Asked`; how a reply is parsed from text is left to the
  choice of replies.
- `lead_events` and the logs of the legal workspace: append-only, read by reports.
- Reports, dashboards, exports, notice PDFs, intake spreadsheets, DDL and one-off
  data migrations: they read, or run once.
- The command line entry points and the workspace registry: argument parsing and
  a dictionary.
- Source rows that are edited: the ingester reads them and drops them (see below).

`PROJECT.json` lists them as components with their status.

## 6. Where code and documents disagree

Shown by a run:

- `observability/pg_dedup.py:79` - `evaluate` and `claim` are two statements, and the
  unique index is on the exact identity: two leads of one lead code and different
  loans that are evaluated together are both settled without the review that
  `pg_dedup.py:14` and `docs/ARCHITECTURE.md:225` promise (`pipeline_race`).

The following were met in translating the code and are what the models do, under
the history variables of section 2; no run is devoted to them.

- `pipeline/jobs.py:175`: a job whose workers die is claimed again whatever its
  attempts; `docs/PRODUCTION_ARCHITECTURE.md:318` has `max_attempts` as the bound.
- `pipeline/jobs.py:189`: `fail()` tests neither owner nor status, so that of a
  worker that overran its lease puts a job that is done back to pending; `jobs.py:11`
  describes a settled job as settled.
- `pipeline/orchestrator.py:53`: a lead is a duplicate of one that claimed, also if
  that one was never verified; `docs/system-documentation.md:29` speaks of a payment
  already verified.
- `observability/pg_dedup.py:118`: an owner that is deleted between the lost insert
  and the look at it makes the caller count the payment with no row inserted.
- `db/pg.py:184`: `init_schema` gives every review the scope of the result its lead
  has at that moment, at every start of a process. In the middle of `clear_test_data`,
  with the id back for real, that makes a sandbox review a real one, of a verdict it
  is not about, and the DELETE of the test reviews passes over it; `pg.py:181-182`
  wants sandbox reviews kept out of the real numbers.
- `ingest/ingester.py:155`: a full page of rows created within one second stops the
  cycle at the same place for ever; `docs/INGESTION.md:149-151` says that no row is
  ever missed.
- `ingest/ingester.py:237`: a backfill ends when a cycle sees no row, but the overlap
  always brings the last ones again; `:238` announces a completion that is not
  reached, and `docs/PRODUCTION_ARCHITECTURE.md:413` counts on it.
- `ingest/ingester.py:146`: an edited row is read again but its job exists; ON
  CONFLICT DO NOTHING drops the edit, against `docs/INGESTION.md:67`.
- `pipeline/jobs.py:133`: for the same reason an upload is skipped if a test job has
  the id.
- `ocr/medha_client.py:192`: a call that fails in transport comes back as "not a
  payment document", and the lead settles as `non_document`; `orchestrator.py:16`
  and `db/pg.py:189-190` reserve `unprocessed` for it. `:197`: an answer that is
  no JSON is cached like one that is.
- `workspaces/legal/jobs.py:323`: a lead whose worker died stays `processing` until
  it is uploaded again; `worker.py:7` promises that a lease brings it back.
- `workspaces/legal/db.py:318`: a document that comes to a lead while a worker is on it,
  or from the slower of two uploads, is not read: the verdict hides it and the next
  boot sets it to `skipped`, "the dossier finished without it". `:314-317` knows of one
  way only to such a document, the old shortlist. Hence `late` in `VerdictMeansSettled`.
- `workspaces/legal/db.py:384`: a deletion knows nothing of the worker on the lead,
  and its final save inserts a result for a lead that is gone (`pipeline.py:1110`);
  `pipeline.py:1131`: an error in that save is caught and sets the lead to `failed`
  under the counters and values that were written before it, or, if this statement
  fails as well, leaves the status that was saved (`:1138`). Hence `overlapped` and
  `hit` in `RowsAgree`.
- `workspaces/legal/consolidate.py:246`: no value is put under a key the prompt does not
  ask for. With a prompt for the borrower only, a second person read as the borrower
  becomes `co_borrower_1` on the pages, and is then neither a value of the dossier nor
  set aside; `:12-15` says that nobody is dropped, `:16-18` that pages and values agree.
  Hence `UnaskedNames`.
- `workspaces/legal/name_clean.py:165`: a name without a Latin letter is like no
  name, so that one person in Hindi on two pages becomes two parties, against
  `consolidate.py:16`; `tests/test_legal_name_clean.py:51` wants such names kept.
- `workspaces/legal/page_attribution.py:125`: two values of a field in a document that
  differ only in case, in signs or in letters that are not Latin have one key, and the
  first is kept; `:100` says that no value is dropped.
- `workspaces/legal/corrections.py:168`: a confirmation that a re-run has dropped,
  since the value is another one, is counted again at the next save of any field;
  `:17-19` says it is of that value only.
- `workspaces/legal/consolidate.py:142`: the keys of a page are sorted as text. With
  ten co-borrowers first read on one page, `co_borrower_10` is read before
  `co_borrower_2`, and consolidating the outcome again renumbers them; `:16` says that
  everyone gets one stable number. Hence `FewPeople` in `StableNumbers`.
  That is about consolidating an outcome again; a migration brings it through the
  schema first, which sets aside the keys it does not allow (`backfill.py:60`).
- `workspaces/legal/page_attribution.py:166`: two values of a field that are proven
  on one page overwrite each other; `:100-102` says none is lost.
- `workspaces/legal/pipeline.py`: `:298`, evidence is looked up under the number a
  co-borrower has after renumbering, so whoever moves up for somebody left out gets the
  evidence of a neighbour (`:222-223` says each field keeps its own; hence
  `Undisturbed`);
  `:572`, a person told as plain text is dropped; `:554-564`, a single co-borrower
  object overwrites a numbered key; `:636`, the borrower's twins are compared before
  names are cleaned; `:830`, pages named for one document are taken for all
  (`prompt_analyzer.py:166-167`); `:846` and `:164`, a document whose pages cannot be
  rendered counts as processed; `:939`, what was filed before an exception stays.
- `workspaces/legal/prompt_analyzer.py:415`: an empty plan is cached for good.

## 7. What could come next

More than one lead in `legal_queue` for the progress of a batch; the string
algorithms of `verify.py` against reference definitions.

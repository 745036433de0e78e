------------------------------- MODULE Sandbox -------------------------------
(***************************************************************************)
(* The tables of the payment workspace while test data comes and goes:     *)
(* uploads and synchronous calls of app/server.py, workers that run        *)
(* process_lead, reviews, clear_test_data, and the housekeeping at boot    *)
(* (db/pg.py).  All leads here carry the same payment, once per scope.     *)
(*                                                                         *)
(* Every statement commits on its own.  A wipe deletes table by table; a   *)
(* worker holds the job row as it was when it claimed it.                  *)
(*                                                                         *)
(* History: "crossed" are leads that a wipe met in somebody's hands, or    *)
(* that somebody wrote under a wipe; "again" are leads whose result was    *)
(* overwritten by another run; "direct" are leads sent to the synchronous  *)
(* endpoint.                                                               *)
(***************************************************************************)
EXTENDS Naturals, FiniteSets

CONSTANTS Leads, Workers, Wipers, Reviewers, None,
          MaxUploads, MaxRuns, MaxWipes, MaxFaults   \* bounds

VARIABLES
    jobs,      \* jobs, by lead
    results,   \* lead_results
    ledger,    \* processed_payments: owner of the payment, per is_test
    reviews,   \* lead_reviews: the latest review
    pc, hand,  \* workers and requests: place, and what they hold
    wpc, ids,  \* wipes: place, and the leads they were started for
    open,      \* reviewers: the result on the screen
    uploads, runs, wipes, faults,
    crossed, again, direct

tables  == <<jobs, results, ledger, reviews>>
worker  == <<pc, hand>>
wiper   == <<wpc, ids>>
bounds  == <<uploads, runs, wipes, faults>>
history == <<crossed, again, direct>>
vars    == <<tables, worker, wiper, open, bounds, history>>

Job      == [status : {"pending", "working", "done"}, test : BOOLEAN,
             batch : 1 .. MaxUploads]
Result   == [verdict : {"counted", "duplicate"}, test : BOOLEAN,
             batch : 0 .. MaxUploads, run : 1 .. MaxRuns]
Review   == [run : 1 .. MaxRuns, test : BOOLEAN]
Hand     == [lead : Leads, test : BOOLEAN, batch : 0 .. MaxUploads, run : 1 .. MaxRuns,
             verdict : {"none", "counted", "duplicate"}]
Opened   == [lead : Leads, run : 1 .. MaxRuns, test : BOOLEAN]

ASSUME SandboxAssumption ==
    /\ None \notin Leads \cup Job \cup Result \cup Review \cup Hand \cup Opened
    /\ MaxUploads \in Nat /\ MaxRuns \in Nat /\ MaxWipes \in Nat /\ MaxFaults \in Nat

\* What is being wiped: everything, the upload of that number, or (at boot)
\* what has expired.
All   == 0
Boots == MaxUploads + 1
Kinds == All .. Boots

SandboxTypeOK ==
    /\ jobs \in [Leads -> Job \cup {None}]
    /\ results \in [Leads -> Result \cup {None}]
    /\ ledger \in [BOOLEAN -> Leads \cup {None}]
    /\ reviews \in [Leads -> Review \cup {None}]
    /\ pc \in [Workers -> {"idle", "evaluate", "insert", "select", "save", "complete"}]
    /\ hand \in [Workers -> Hand \cup {None}]
    /\ wpc \in [Wipers -> {<<>>} \cup (Kinds \X
                 {"migrate", "read", "results", "jobs", "ledger", "reviews", "sweep"})]
    /\ ids \in [Wipers -> SUBSET Leads]
    /\ open \in [Reviewers -> Opened \cup {None}]
    /\ uploads \in 0 .. MaxUploads /\ runs \in 0 .. MaxRuns
    /\ wipes \in 0 .. MaxWipes /\ faults \in 0 .. MaxFaults
    /\ crossed \in SUBSET Leads /\ again \in SUBSET Leads /\ direct \in SUBSET Leads

Init ==
    /\ jobs = [l \in Leads |-> None] /\ results = [l \in Leads |-> None]
    /\ ledger = [t \in BOOLEAN |-> None] /\ reviews = [l \in Leads |-> None]
    /\ pc = [w \in Workers |-> "idle"] /\ hand = [w \in Workers |-> None]
    /\ wpc = [x \in Wipers |-> <<>>] /\ ids = [x \in Wipers |-> {}]
    /\ open = [v \in Reviewers |-> None]
    /\ uploads = 0 /\ runs = 0 /\ wipes = 0 /\ faults = 0
    /\ crossed = {} /\ again = {} /\ direct = {}

-----------------------------------------------------------------------------
Wiping(x)  == wpc[x] # <<>>
InHands(l) == \/ \E w \in Workers : hand[w] # None /\ hand[w].lead = l
              \/ \E v \in Reviewers : open[v] # None /\ open[v].lead = l

\* A wipe is deleting the test rows of the lead.
Covered(l) == \E x \in Wipers : Wiping(x) /\ l \in ids[x]

\* Test rows of the lead are written while a wipe is under way.
Written(l, test) == IF test /\ Covered(l) THEN crossed \cup {l} ELSE crossed

-----------------------------------------------------------------------------
(* Uploads and workers.                                                    *)

\* enqueue_rows: an id that is there already, in whatever scope, is skipped.
Enqueue(l, test) ==
    /\ uploads < MaxUploads /\ uploads' = uploads + 1
    /\ jobs[l] = None
    /\ jobs' = [jobs EXCEPT ![l] = [status |-> "pending", test |-> test, batch |-> uploads']]
    /\ crossed' = Written(l, test)
    /\ UNCHANGED <<results, ledger, reviews, worker, wiper, open, runs, wipes, faults,
                   again, direct>>

Take(w, l, test, batch) ==
    /\ pc[w] = "idle"
    /\ runs < MaxRuns /\ runs' = runs + 1
    /\ pc' = [pc EXCEPT ![w] = "evaluate"]
    /\ hand' = [hand EXCEPT ![w] = [lead |-> l, test |-> test, batch |-> batch,
                                    run |-> runs', verdict |-> "none"]]
    /\ UNCHANGED <<results, ledger, reviews, wiper, open, uploads, wipes, faults, crossed, again>>

\* A pending job, or one whose lease has run out, of a worker that died or of
\* one that is late and goes on all the same.
ClaimJob(w, l) ==
    /\ jobs[l] # None /\ jobs[l].status \in {"pending", "working"}
    /\ Take(w, l, jobs[l].test, jobs[l].batch)
    /\ jobs' = [jobs EXCEPT ![l].status = "working"]
    /\ UNCHANGED direct

\* /api/verify: the pipeline within the request, for real, without a job.
VerifyNow(w, l) ==
    /\ Take(w, l, FALSE, 0)
    /\ direct' = direct \cup {l}
    /\ UNCHANGED jobs

Decides(w, verdict) ==
    /\ pc' = [pc EXCEPT ![w] = "save"]
    /\ hand' = [hand EXCEPT ![w].verdict = verdict]

\* evaluate: a row of another lead makes this one a duplicate.
Evaluate(w) ==
    /\ pc[w] = "evaluate"
    /\ IF ledger[hand[w].test] \notin {None, hand[w].lead}
       THEN Decides(w, "duplicate")
       ELSE pc' = [pc EXCEPT ![w] = "insert"] /\ UNCHANGED hand
    /\ UNCHANGED <<tables, wiper, open, bounds, history>>

\* claim: the insert, and the look at the owner if it conflicts.
InsertClaim(w) ==
    /\ pc[w] = "insert"
    /\ IF ledger[hand[w].test] = None
       THEN /\ ledger' = [ledger EXCEPT ![hand[w].test] = hand[w].lead]
            /\ Decides(w, "counted")
            /\ crossed' = Written(hand[w].lead, hand[w].test)
       ELSE pc' = [pc EXCEPT ![w] = "select"] /\ UNCHANGED <<ledger, hand, crossed>>
    /\ UNCHANGED <<jobs, results, reviews, wiper, open, bounds, again, direct>>

SelectAnyOwner(w) ==   \* mutant: the loser of the insert counts the payment too
    /\ pc[w] = "select"
    /\ Decides(w, "counted")
    /\ UNCHANGED <<tables, wiper, open, bounds, history>>

\* If the owner has been wiped by now, the caller takes itself for the owner,
\* although nothing was inserted.
SelectOwner(w) ==
    /\ pc[w] = "select"
    /\ LET owner == ledger[hand[w].test]
       IN  /\ Decides(w, IF owner \in {None, hand[w].lead} THEN "counted" ELSE "duplicate")
           /\ crossed' = IF owner = None THEN crossed \cup {hand[w].lead} ELSE crossed
    /\ UNCHANGED <<tables, wiper, open, bounds, again, direct>>

SaveResultReal(w) ==   \* mutant: results are saved as real ones
    /\ pc[w] = "save"
    /\ LET h == hand[w]
       IN  /\ results' = [results EXCEPT ![h.lead] =
                 [verdict |-> h.verdict, test |-> FALSE, batch |-> h.batch, run |-> h.run]]
           /\ again' = IF results[h.lead] # None THEN again \cup {h.lead} ELSE again
           /\ crossed' = Written(h.lead, h.test)
    /\ pc' = [pc EXCEPT ![w] = "complete"]
    /\ UNCHANGED <<jobs, ledger, reviews, wiper, open, bounds, hand, direct>>

SaveResult(w) ==
    /\ pc[w] = "save"
    /\ LET h == hand[w]
       IN  /\ results' = [results EXCEPT ![h.lead] =
                 [verdict |-> h.verdict, test |-> h.test, batch |-> h.batch, run |-> h.run]]
           /\ again' = IF results[h.lead] # None THEN again \cup {h.lead} ELSE again
           /\ crossed' = Written(h.lead, h.test)
           /\ IF h.batch = 0   \* a request: answered
              THEN pc' = [pc EXCEPT ![w] = "idle"] /\ hand' = [hand EXCEPT ![w] = None]
              ELSE pc' = [pc EXCEPT ![w] = "complete"] /\ UNCHANGED hand
    /\ UNCHANGED <<jobs, ledger, reviews, wiper, open, bounds, direct>>

\* complete: the row of that id, whichever job it is by now.
CompleteJob(w) ==
    /\ pc[w] = "complete"
    /\ pc' = [pc EXCEPT ![w] = "idle"] /\ hand' = [hand EXCEPT ![w] = None]
    /\ jobs' = IF jobs[hand[w].lead] = None THEN jobs
               ELSE [jobs EXCEPT ![hand[w].lead].status = "done"]
    /\ UNCHANGED <<results, ledger, reviews, wiper, open, bounds, history>>

Dies(w) ==
    /\ faults < MaxFaults /\ faults' = faults + 1
    /\ pc[w] # "idle"
    /\ pc' = [pc EXCEPT ![w] = "idle"] /\ hand' = [hand EXCEPT ![w] = None]
    /\ UNCHANGED <<tables, wiper, open, uploads, runs, wipes, history>>

-----------------------------------------------------------------------------
(* Reviews: the result is read, then the review is added with what was     *)
(* read.                                                                   *)

OpenLead(v, l) ==
    /\ open[v] = None /\ results[l] # None
    /\ open' = [open EXCEPT ![v] = [lead |-> l, run |-> results[l].run, test |-> results[l].test]]
    /\ UNCHANGED <<tables, worker, wiper, bounds, history>>

SaveReview(v) ==
    /\ open[v] # None
    /\ reviews' = [reviews EXCEPT ![open[v].lead] = [run |-> open[v].run, test |-> open[v].test]]
    /\ open' = [open EXCEPT ![v] = None]
    /\ crossed' = Written(open[v].lead, open[v].test)
    /\ UNCHANGED <<jobs, results, ledger, worker, wiper, bounds, again, direct>>

-----------------------------------------------------------------------------
(* Wipes: clear_test_data of everything or of a batch, and the boot of a   *)
(* server with purge_expired_test_data and sweep_orphan_reviews.           *)

Goto(x, kind, place) == wpc' = [wpc EXCEPT ![x] = <<kind, place>>]
At(x, kind, place)   == wpc[x] = <<kind, place>>
Leave(x) == wpc' = [wpc EXCEPT ![x] = <<>>] /\ ids' = [ids EXCEPT ![x] = {}]

StartWipe(x) ==
    /\ ~Wiping(x)
    /\ wipes < MaxWipes /\ wipes' = wipes + 1
    /\ UNCHANGED <<tables, worker, open, uploads, runs, faults, history>>

ClearAll(x) ==
    /\ StartWipe(x) /\ Goto(x, All, "results")
    /\ ids' = [ids EXCEPT ![x] = Leads]

\* The test jobs of one upload.
ClearBatch(x, b) ==
    /\ StartWipe(x) /\ Goto(x, b, "results")
    /\ ids' = [ids EXCEPT ![x] = {l \in Leads : jobs[l] # None /\ jobs[l].test /\ jobs[l].batch = b}]
    /\ ids'[x] # {}

Boot(x) == StartWipe(x) /\ Goto(x, Boots, "migrate") /\ UNCHANGED ids

\* init_schema, when any process starts: reviews take the scope of their
\* lead's result.
Migrate(x) ==
    /\ At(x, Boots, "migrate") /\ Goto(x, Boots, "read")
    /\ reviews' = [l \in Leads |-> IF reviews[l] # None /\ results[l] # None
                                   THEN [reviews[l] EXCEPT !.test = results[l].test]
                                   ELSE reviews[l]]
    /\ crossed' = crossed \cup {l \in Leads : Covered(l) /\ reviews'[l] # reviews[l]}
    /\ UNCHANGED <<jobs, results, ledger, worker, ids, open, bounds, again, direct>>

\* Which test jobs are old enough is left open.
ReadExpired(x) ==
    /\ At(x, Boots, "read")
    /\ \E old \in SUBSET {l \in Leads : jobs[l] # None /\ jobs[l].test} :
           ids' = [ids EXCEPT ![x] = old]
    /\ Goto(x, Boots, IF ids'[x] = {} THEN "sweep" ELSE "results")
    /\ UNCHANGED <<tables, worker, open, bounds, history>>

\* The order of the tables differs: a clearing deletes the jobs before the
\* ledger, the purge at boot deletes them last.
After(kind, place) ==
    IF kind = Boots
    THEN CASE place = "results" -> "ledger"  [] place = "ledger" -> "reviews"
           [] place = "reviews" -> "jobs"    [] OTHER -> "sweep"
    ELSE CASE place = "results" -> "jobs"    [] place = "jobs" -> "ledger"
           [] OTHER -> "reviews"

Ends(kind, place) == kind # Boots /\ place = "reviews"
Step(x, kind, place) ==
    IF Ends(kind, place) THEN Leave(x)
    ELSE Goto(x, kind, After(kind, place)) /\ UNCHANGED ids

\* Test rows of the leads go; who has one of these leads in hand does not
\* notice.
DoomedAny(x, rows) == {l \in ids[x] : rows[l] # None}   \* mutant: any row of these ids
Doomed(x, rows) == {l \in ids[x] : rows[l] # None /\ rows[l].test}
Deleted(x, rows) == [l \in Leads |-> IF l \in Doomed(x, rows) THEN None ELSE rows[l]]
Crossing(ls) == crossed \cup {l \in ls : InHands(l)}

WipeResults(x, kind) ==
    /\ At(x, kind, "results") /\ Step(x, kind, "results")
    /\ results' = Deleted(x, results)
    /\ crossed' = Crossing(ids[x])
    /\ UNCHANGED <<jobs, ledger, reviews, worker, open, bounds, again, direct>>

\* A batch is deleted by its number.
WipeJobs(x, kind) ==
    /\ At(x, kind, "jobs") /\ Step(x, kind, "jobs")
    /\ jobs' = [l \in Leads |-> IF kind \in {All, Boots} \/ (jobs[l] # None /\ jobs[l].batch = kind)
                               THEN Deleted(x, jobs)[l] ELSE jobs[l]]
    /\ crossed' = Crossing(ids[x])
    /\ UNCHANGED <<results, ledger, reviews, worker, open, bounds, again, direct>>

WipeLedger(x, kind) ==
    /\ At(x, kind, "ledger") /\ Step(x, kind, "ledger")
    /\ ledger' = [ledger EXCEPT ![TRUE] = IF @ \in ids[x] THEN None ELSE @]
    /\ crossed' = Crossing(ids[x])
    /\ UNCHANGED <<jobs, results, reviews, worker, open, bounds, again, direct>>

WipeReviewsNot(x, kind) ==   \* mutant: reviews stay behind
    /\ At(x, kind, "reviews") /\ Step(x, kind, "reviews")
    /\ UNCHANGED <<tables, worker, open, bounds, history>>
WipeReviews(x, kind) ==
    /\ At(x, kind, "reviews") /\ Step(x, kind, "reviews")
    /\ reviews' = Deleted(x, reviews)
    /\ crossed' = Crossing(ids[x])
    /\ UNCHANGED <<jobs, results, ledger, worker, open, bounds, again, direct>>

SweepOrphans(x) ==
    /\ At(x, Boots, "sweep") /\ Leave(x)
    /\ reviews' = [l \in Leads |-> IF results[l] = None THEN None ELSE reviews[l]]
    /\ UNCHANGED <<jobs, results, ledger, worker, open, bounds, history>>

\* The process of a wipe ends between two statements.
WipeBreaks(x) ==
    /\ faults < MaxFaults /\ faults' = faults + 1
    /\ Wiping(x) /\ Leave(x)
    /\ crossed' = crossed \cup ids[x]
    /\ UNCHANGED <<tables, worker, open, uploads, runs, wipes, again, direct>>

WorkerStep(w) ==
    \/ \E l \in Leads : ClaimJob(w, l) \/ VerifyNow(w, l)
    \/ Evaluate(w) \/ InsertClaim(w) \/ SelectOwner(w)
    \/ SaveResult(w) \/ CompleteJob(w) \/ Dies(w)

DeleteStep(x, kind) ==
    WipeResults(x, kind) \/ WipeJobs(x, kind) \/ WipeLedger(x, kind) \/ WipeReviews(x, kind)

WipeStep(x) ==
    \/ ClearAll(x) \/ (\E b \in 1 .. MaxUploads : ClearBatch(x, b)) \/ Boot(x)
    \/ Migrate(x) \/ ReadExpired(x) \/ SweepOrphans(x) \/ WipeBreaks(x)
    \/ \E kind \in Kinds : DeleteStep(x, kind)

Next ==
    \/ \E l \in Leads, test \in BOOLEAN : Enqueue(l, test)
    \/ \E w \in Workers : WorkerStep(w)
    \/ \E v \in Reviewers : SaveReview(v) \/ \E l \in Leads : OpenLead(v, l)
    \/ \E x \in Wipers : WipeStep(x)

Spec == Init /\ [][Next]_vars

-----------------------------------------------------------------------------
(* Properties                                                              *)

Quiet(l) == ~Covered(l) /\ ~InHands(l)

\* What a wipe leaves: no result, claim or review of a test lead without its
\* job, unless the wipe met the lead in somebody's hands.
NothingLeftOver ==
    \A l \in Leads \ (crossed \cup direct) :
        jobs[l] = None /\ Quiet(l) =>
            results[l] = None /\ reviews[l] = None /\ ledger[TRUE] # l

\* pg.py:365-368: a stale review must not be attached to a new verdict.  The
\* review of a lead is about the result that is there.
ReviewOfVerdict ==
    \A l \in Leads \ (crossed \cup again \cup direct) :
        reviews[l] # None /\ results[l] # None /\ ~Covered(l) =>
            reviews[l].run = results[l].run

\* A wipe is clean: nothing of the lead is left, and nothing of it is found by
\* the lead that comes back under its id.
WipedClean == SandboxTypeOK /\ NothingLeftOver /\ ReviewOfVerdict

\* A job that is done was run itself, in its own scope.
DoneWasRun ==
    \A l \in Leads \ (crossed \cup direct) :
        jobs[l] # None /\ jobs[l].status = "done" /\ ~Covered(l) =>
            /\ results[l] # None
            /\ results[l].test = jobs[l].test /\ results[l].batch = jobs[l].batch

\* One payment is counted for one lead per scope.
CountedOnce ==
    \A k, l \in Leads \ crossed :
        results[k] # None /\ results[l] # None /\ k # l =>
            ~(/\ results[k].verdict = "counted" /\ results[l].verdict = "counted"
              /\ results[k].test = results[l].test)

\* Wipes leave real rows alone, also where a test id has been uploaded for
\* real since the wipe began.
RealRowsStay ==
    [][\A x \in Wipers : wpc[x] # wpc'[x] =>
          /\ ledger'[FALSE] = ledger[FALSE]
          /\ \A l \in Leads : /\ jobs[l] # None /\ ~jobs[l].test => jobs'[l] # None
                              /\ results[l] # None /\ ~results[l].test => results'[l] # None]_vars
=============================================================================

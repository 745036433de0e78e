--------------------------- MODULE PaymentPipeline ---------------------------
(***************************************************************************)
(* process_lead (pipeline/orchestrator.py) run by the workers of JobQueue, *)
(* with the duplicate ledger of observability/pg_dedup.py and the table    *)
(* lead_results.  Each read or write of the database is a step of its own, *)
(* so several leads, and several attempts at one lead, interleave freely.  *)
(***************************************************************************)
EXTENDS JobQueue

CONSTANTS
    Identities,   \* records: code (lead_code), loan (account), inst (amount
                  \* and month of the installment), scope (is_test)
    NoIdentity,   \* a row that lacks one of the four columns
    Row,          \* the identity in the row of a job
    Precomputed   \* jobs that carry their extraction in the row

Statuses == {"verified", "unverified", "non_document", "unprocessed", "duplicate"}

ASSUME PipelineAssumption ==
    /\ Verdicts = Statuses
    /\ NoIdentity \notin Identities
    /\ Row \in [Jobs -> Identities \cup {NoIdentity}]
    /\ Precomputed \subseteq Jobs
    /\ \A i, k \in Identities :
          i.code = k.code /\ i.scope = k.scope /\ i.loan = k.loan /\ i.inst = k.inst
          => i = k

VARIABLES
    ledger,    \* processed_payments: the owning lead_id of an identity
    results,   \* lead_results.verification_status
    flagged,   \* leads saved with the different-loan-account flag
    stage,     \* where process_lead is
    suspect,   \* its local manual_reason
    outcome    \* the status it is about to save

lead == <<stage, suspect, outcome>>
books == <<ledger, results, flagged>>
pvars == <<vars, books, lead>>

Stage == {"out", "dedup", "claim", "image", "ocr", "verify", "finish"}

PipelineTypeOK ==
    /\ TypeOK
    /\ ledger \in [Identities -> Jobs \cup {NoJob}]
    /\ results \in [Jobs -> Verdicts \cup {NoVerdict}]
    /\ flagged \in SUBSET Jobs
    /\ stage \in [Workers -> Stage]
    /\ suspect \in [Workers -> BOOLEAN]
    /\ outcome \in [Workers -> Verdicts \cup {NoVerdict}]
    /\ \A w \in Workers : (stage[w] = "out") <=> (pc[w] # "processing")

PipelineInit ==
    /\ Init
    /\ ledger = [i \in Identities |-> NoJob]
    /\ results = [j \in Jobs |-> NoVerdict]
    /\ flagged = {}
    /\ stage = [w \in Workers |-> "out"]
    /\ suspect = [w \in Workers |-> FALSE]
    /\ outcome = [w \in Workers |-> NoVerdict]

-----------------------------------------------------------------------------
(* Mutant: the lead's own earlier claim counts too. *)
SeenOwn(j) ==
    {i \in Identities : /\ Row[j] # NoIdentity
                        /\ i.code = Row[j].code
                        /\ i.scope = Row[j].scope
                        /\ ledger[i] # NoJob}
(* The rows evaluate() reads: same lead_code, same scope, another lead. *)
Seen(j) ==
    {i \in Identities : /\ Row[j] # NoIdentity
                        /\ i.code = Row[j].code
                        /\ i.scope = Row[j].scope
                        /\ ledger[i] \notin {NoJob, j}}

(* The exact payment of j is among them. *)
Again(j) == \E i \in Seen(j) : i.loan = Row[j].loan /\ i.inst = Row[j].inst

GoTo(w, s) ==
    /\ stage' = [stage EXCEPT ![w] = s]
    /\ UNCHANGED <<vars, books, suspect, outcome>>

FinishAs(w, v) ==
    /\ stage' = [stage EXCEPT ![w] = "finish"]
    /\ outcome' = [outcome EXCEPT ![w] = v]
    /\ UNCHANGED <<vars, books, suspect>>

LeaveLead(w) ==
    /\ stage' = [stage EXCEPT ![w] = "out"]
    /\ suspect' = [suspect EXCEPT ![w] = FALSE]
    /\ outcome' = [outcome EXCEPT ![w] = NoVerdict]

StartLead(w) ==
    /\ ClaimOne(w)
    /\ stage' = [stage EXCEPT ![w] = "dedup"]
    /\ UNCHANGED <<books, suspect, outcome>>

(* evaluate(): skip, duplicate, new, emi or manual_review, from one SELECT. *)
Evaluate(w) ==
    LET j == job[w] IN
    /\ stage[w] = "dedup"
    /\ \/ Row[j] = NoIdentity /\ GoTo(w, "image")
       \/ Again(j) /\ FinishAs(w, "duplicate")
       \/ /\ Row[j] # NoIdentity /\ ~Again(j)
          /\ suspect' = [suspect EXCEPT ![w] =
                /\ Seen(j) # {}
                /\ \A i \in Seen(j) : i.loan # Row[j].loan]
          /\ stage' = [stage EXCEPT ![w] = "claim"]
          /\ UNCHANGED <<vars, books, outcome>>

(* Mutant: ON CONFLICT DO UPDATE, the last lead in takes the payment. *)
InsertClaimOver(j) ==
    /\ ledger' = [ledger EXCEPT ![Row[j]] = j]
    /\ UNCHANGED <<results, flagged>>

(* The INSERT of claim(): the unique index lets one lead in. *)
InsertClaim(j) ==
    /\ ledger' = [ledger EXCEPT ![Row[j]] = IF @ = NoJob THEN j ELSE @]
    /\ UNCHANGED <<results, flagged>>

(* Mutant: the owner that claim() returns is not compared with the lead. *)
ClaimIdentityUnread(w) ==
    /\ stage[w] = "claim"
    /\ InsertClaim(job[w])
    /\ stage' = [stage EXCEPT ![w] = "image"]
    /\ UNCHANGED <<vars, suspect, outcome>>

ClaimIdentity(w) ==
    LET j == job[w] IN
    /\ stage[w] = "claim"
    /\ InsertClaim(j)
    /\ \/ /\ ledger'[Row[j]] = j
          /\ stage' = [stage EXCEPT ![w] = "image"]
          /\ UNCHANGED outcome
       \/ /\ ledger'[Row[j]] # j
          /\ stage' = [stage EXCEPT ![w] = "finish"]
          /\ outcome' = [outcome EXCEPT ![w] = "duplicate"]
    /\ UNCHANGED <<vars, suspect>>

(* Stages 0 and 1, skipped in precomputed mode. *)
LoadImage(w) ==
    /\ stage[w] = "image"
    /\ \/ GoTo(w, "ocr")
       \/ job[w] \notin Precomputed /\ FinishAs(w, "unprocessed")

(* Stage 2: the model may answer differently on each attempt. *)
OcrClassify(w) ==
    /\ stage[w] = "ocr"
    /\ GoTo(w, "verify") \/ FinishAs(w, "non_document")

(* Stages 3 and 4; a suspect lead is left to a human whatever verify says. *)
Verify(w) ==
    /\ stage[w] = "verify"
    /\ \/ ~suspect[w] /\ FinishAs(w, "verified")
       \/ FinishAs(w, "unverified")

(* Mutant: ON CONFLICT DO NOTHING, the first result of a lead stays. *)
SaveRowOnce(w) ==
    LET j == job[w] IN
    /\ results' = [results EXCEPT ![j] = IF @ = NoVerdict THEN outcome[w] ELSE @]
    /\ flagged' = IF suspect[w] /\ outcome[w] = "unverified"
                  THEN flagged \cup {j} ELSE flagged
    /\ UNCHANGED ledger

(* The upsert of _finish; only stage 4 wraps the outcome in the flag. *)
SaveRow(w) ==
    LET j == job[w] IN
    /\ results' = [results EXCEPT ![j] = outcome[w]]
    /\ flagged' = IF suspect[w] /\ outcome[w] = "unverified"
                  THEN flagged \cup {j} ELSE flagged \ {j}
    /\ UNCHANGED ledger

Finish(w) ==
    /\ stage[w] = "finish"
    /\ SaveRow(w)
    /\ pc' = [pc EXCEPT ![w] = "completing"]
    /\ result' = [result EXCEPT ![w] = outcome[w]]
    /\ LeaveLead(w)
    /\ UNCHANGED <<table, job, history>>

(* Mutant: the error is swallowed and the worker polls for the next job. *)
StageSwallows(w) ==
    /\ pc[w] = "processing"
    /\ Release(w)
    /\ LeaveLead(w)
    /\ UNCHANGED <<table, history, books>>

(* A statement raises before it took effect: no stage catches it ... *)
StageRaises(w) ==
    /\ ProcessRaises(w)
    /\ LeaveLead(w)
    /\ UNCHANGED books

(* ... or after it committed. *)
StageReplyLost(w) ==
    /\ \/ stage[w] = "claim" /\ InsertClaim(job[w])
       \/ stage[w] = "finish" /\ SaveRow(w)
    /\ ProcessRaises(w)
    /\ LeaveLead(w)

CrashLead(w) ==
    /\ Crash(w)
    /\ LeaveLead(w)
    /\ UNCHANGED books

(* The steps of the queue and of the worker loop outside process_lead. *)
QueueStep ==
    /\ \/ \E j \in Jobs : Enqueue(j) \/ LeaseExpires(j) \/ LeaseOverruns(j)
       \/ \E w \in Workers :
             \/ IdlePoll(w) \/ Complete(w) \/ Fail(w)
             \/ ClaimReplyLost(w) \/ CompleteRaises(w) \/ FailRaises(w) \/ Restart(w)
    /\ UNCHANGED <<books, lead>>

LeadStep(w) ==
    \/ StartLead(w) \/ Evaluate(w) \/ ClaimIdentity(w) \/ LoadImage(w)
    \/ OcrClassify(w) \/ Verify(w) \/ Finish(w)

LeadFault(w) == StageRaises(w) \/ StageReplyLost(w) \/ CrashLead(w)

PipelineNext == QueueStep \/ \E w \in Workers : LeadStep(w) \/ LeadFault(w)

PipelineSpec == PipelineInit /\ [][PipelineNext]_pvars

(* The fairness of the worker loop, for the loop with process_lead in it. *)
LoopStep(w) == (IdlePoll(w) \/ Complete(w) \/ Fail(w)) /\ UNCHANGED <<books, lead>>

FairPipelineSpec ==
    /\ PipelineSpec
    /\ \A w \in Workers : /\ WF_pvars(LeadStep(w) \/ LoopStep(w))
                           /\ WF_pvars(Restart(w) /\ UNCHANGED <<books, lead>>)
    /\ \A j \in Jobs : WF_pvars(LeaseExpires(j) /\ UNCHANGED <<books, lead>>)

-----------------------------------------------------------------------------
Counted(j) == results[j] \notin {NoVerdict, "duplicate"}

(* docs/system-documentation.md:33, "nothing is double-counted": of the    *)
(* leads that carry one payment, at most one is settled as anything but a  *)
(* duplicate, whatever crashed, overran or was retried.                    *)
OnePaymentOneLead ==
    \A j, k \in Jobs :
        Row[j] = Row[k] /\ Row[j] # NoIdentity /\ Counted(j) /\ Counted(k) => j = k

(* pg_dedup.py:72-75: a lead is a duplicate of another lead's payment,     *)
(* never of its own earlier attempt.                                       *)
DuplicateOfAnother ==
    \A j \in Jobs : results[j] = "duplicate" =>
        Row[j] # NoIdentity /\ ledger[Row[j]] \notin {NoJob, j}

(* orchestrator.py:6, "BEFORE any OCR": the image is loaded and the model  *)
(* called for the one lead that owns the payment only.                     *)
OcrForOwnerOnly ==
    \A w \in Workers :
        stage[w] \in {"image", "ocr", "verify"} /\ Row[job[w]] # NoIdentity
        => ledger[Row[job[w]]] = job[w]

(* A job is done only when its result is saved; and as long as no lease    *)
(* overran, the verdict in `jobs` is the one in `lead_results`.            *)
DoneMatchesResult ==
    \A j \in Jobs : status[j] = "done" =>
        /\ results[j] # NoVerdict
        /\ j \notin overran => verdict[j] = results[j]

(* The ledger is write-once: no retry, race or crash moves a payment from  *)
(* one lead to another.                                                    *)
LedgerWriteOnce ==
    [][\A i \in Identities : ledger[i] # NoJob => ledger'[i] = ledger[i]]_pvars

(* pg_dedup.py:14: of two leads with one lead_code and two loan accounts   *)
(* that reach stage 4, one at least is flagged for a human.                *)
DifferentLoanReviewed ==
    \A j, k \in Jobs :
        /\ Row[j] # NoIdentity /\ Row[k] # NoIdentity
        /\ Row[j].code = Row[k].code /\ Row[j].scope = Row[k].scope
        /\ Row[j].loan # Row[k].loan
        /\ {results[j], results[k]} \subseteq {"verified", "unverified"}
        => {j, k} \cap flagged # {}

StandingOf(v) ==
    IF v = NoVerdict THEN "open"
    ELSE IF v = "duplicate" THEN "duplicate" ELSE "counted"

Promise == INSTANCE PaymentLedger WITH
    Leads <- Jobs, Payments <- Identities, NoPayment <- NoIdentity,
    Nobody <- NoJob, PaymentOf <- Row, owner <- ledger,
    standing <- [j \in Jobs |-> StandingOf(results[j])]

(* The pipeline implements the ledger's promise. *)
KeepsPromise == Promise!Spec

(* Seen from the queue, process_lead is the process_worker_job of the      *)
(* abstract worker: the pipeline implements the specification of JobQueue. *)
DrainsQueue == Spec
=============================================================================

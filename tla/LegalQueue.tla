----------------------------- MODULE LegalQueue -----------------------------
(***************************************************************************)
(* The legal workspace from upload to verdict: scan_and_enqueue_folder and *)
(* the lead queue of workspaces/legal/jobs.py, process_lead of             *)
(* workspaces/legal/pipeline.py as the worker loop of worker.py drives it, *)
(* the batch actions of routes.py, the boot sweep and the deletion of test *)
(* data of db.py.  Every statement runs on an autocommit connection: each  *)
(* is one atomic step, and no lease or lock ties the steps of a worker, of *)
(* an upload or of a deletion together.                                    *)
(*                                                                         *)
(* A document is known by its name in the dossier; the file behind it is   *)
(* the number of the upload that brought it.  Uploads run at once, each in *)
(* a request or a thread of its own.  What the model reads in a document   *)
(* is not modelled, only which file it was read from.                      *)
(***************************************************************************)
EXTENDS Naturals, FiniteSets

CONSTANTS
    Leads,       \* lead ids: hash of the folder name and its position
    Docs,        \* document names within a dossier
    Workers,     \* worker threads
    NoLead,
    NoDoc,
    MaxUploads,  \* bound on uploads, which number batches and files
    MaxFaults    \* bound on crashes, errors, deletions and process starts

ASSUME LegalQueueAssumption ==
    /\ MaxUploads \in Nat
    /\ MaxFaults \in Nat
    /\ NoLead \notin Leads /\ NoDoc \notin Docs
    /\ IsFiniteSet(Leads) /\ IsFiniteSet(Docs)

VARIABLES
    \* legal_leads: status, batch_id, order of created_at, counters, and the
    \* file that extracted_data holds of each document (0: none)
    status, batch, older, processed, failed, data,
    \* legal_lead_documents: processing_status and file_path (0: no row)
    docStatus, docFile,
    \* legal_lead_results: processing_status and raw_extractions
    resStatus, resData,
    \* the worker threads: step, lead, files of the documents claimed with it,
    \* shortlist, documents to go, the document whose exceptions are caught,
    \* tallies, files read, verdict
    pc, lead, files, short, todo, doc, nOk, nBad, read, verdict,
    \* of each upload: leads to go, the lead and its documents to go; how many
    scanLeads, scanLead, scanDocs, uploads,
    \* the deletion in progress: its leads and the table it is at
    wiped, wiping,
    \* what went wrong so far: number of faults, leads scanned or deleted
    \* under a worker, leads a fault has hit, documents that came to a lead
    \* while a worker was on it or after its verdict
    faults, overlapped, hit, late

leadRow == <<status, batch, older, processed, failed, data>>
docRow  == <<docStatus, docFile>>
resRow  == <<resStatus, resData>>
worker  == <<pc, lead, files, short, todo, doc, nOk, nBad, read, verdict>>
claim   == <<lead, files, short>>
upload  == <<scanLeads, scanLead, scanDocs, uploads>>
wipe    == <<wiped, wiping>>
history == <<faults, overlapped, hit, late>>
vars    == <<leadRow, docRow, resRow, worker, upload, wipe, history>>

Finished  == {"completed", "partial", "missing_documents", "failed"}
Status    == Finished \cup {"none", "draft", "pending", "paused", "processing"}
DocSettled == {"processed", "skipped", "failed"}
DocStatus == DocSettled \cup {"none", "pending"}
Place     == {"idle", "claimed", "reading", "counting", "handling", "saving",
              "filing", "recount", "rescue", "completing", "failing", "down"}
Table     == {"none", "documents", "results", "leads"}
File      == 0 .. MaxUploads
Uploads   == 1 .. MaxUploads

LegalQueueTypeOK ==
    /\ status \in [Leads -> Status]
    /\ batch \in [Leads -> File]
    /\ older \in SUBSET (Leads \X Leads)
    /\ processed \in [Leads -> Nat] /\ failed \in [Leads -> Nat]
    /\ data \in [Leads -> [Docs -> File]]
    /\ docStatus \in [Leads -> [Docs -> DocStatus]]
    /\ docFile \in [Leads -> [Docs -> File]]
    /\ resStatus \in [Leads -> Finished \cup {"none"}]
    /\ resData \in [Leads -> [Docs -> File]]
    /\ pc \in [Workers -> Place]
    /\ lead \in [Workers -> Leads \cup {NoLead}]
    /\ files \in [Workers -> [Docs -> File]]
    /\ short \in [Workers -> SUBSET Docs]
    /\ todo \in [Workers -> SUBSET Docs]
    /\ doc \in [Workers -> Docs \cup {NoDoc}]
    /\ nOk \in [Workers -> BOOLEAN] /\ nBad \in [Workers -> BOOLEAN]
    /\ read \in [Workers -> [Docs -> File]]
    /\ verdict \in [Workers -> Finished]
    /\ scanLeads \in [Uploads -> SUBSET Leads]
    /\ scanLead \in [Uploads -> Leads \cup {NoLead}]
    /\ scanDocs \in [Uploads -> SUBSET Docs]
    /\ uploads \in File
    /\ wiped \in SUBSET Leads /\ wiping \in Table
    /\ faults \in 0 .. MaxFaults
    /\ overlapped \in SUBSET Leads /\ hit \in SUBSET Leads
    /\ late \in SUBSET (Leads \X Docs)

Nothing == [d \in Docs |-> 0]

Init ==
    /\ status = [l \in Leads |-> "none"]
    /\ batch = [l \in Leads |-> 0]
    /\ older = {}
    /\ processed = [l \in Leads |-> 0] /\ failed = [l \in Leads |-> 0]
    /\ data = [l \in Leads |-> Nothing]
    /\ docStatus = [l \in Leads |-> [d \in Docs |-> "none"]]
    /\ docFile = [l \in Leads |-> Nothing]
    /\ resStatus = [l \in Leads |-> "none"]
    /\ resData = [l \in Leads |-> Nothing]
    /\ pc = [w \in Workers |-> "idle"]
    /\ lead = [w \in Workers |-> NoLead]
    /\ files = [w \in Workers |-> Nothing]
    /\ short = [w \in Workers |-> {}]
    /\ todo = [w \in Workers |-> {}]
    /\ doc = [w \in Workers |-> NoDoc]
    /\ nOk = [w \in Workers |-> FALSE] /\ nBad = [w \in Workers |-> FALSE]
    /\ read = [w \in Workers |-> Nothing]
    /\ verdict = [w \in Workers |-> "failed"]
    /\ scanLeads = [u \in Uploads |-> {}] /\ scanLead = [u \in Uploads |-> NoLead]
    /\ scanDocs = [u \in Uploads |-> {}] /\ uploads = 0
    /\ wiped = {} /\ wiping = "none"
    /\ faults = 0 /\ overlapped = {} /\ hit = {} /\ late = {}

Exists(l)  == status[l] # "none"
HasDocs(l) == \E d \in Docs : docStatus[l][d] # "none"
Working(l) == \E w \in Workers : lead[w] = l
Scanned(l) == \E u \in Uploads : scanLead[u] = l
Fault      == faults < MaxFaults /\ faults' = faults + 1

\* A statement "UPDATE legal_leads SET status = s WHERE lead_id = l": no row, no effect.
SetStatus(l, s) == status' = [status EXCEPT ![l] = IF @ = "none" THEN @ ELSE s]

-----------------------------------------------------------------------------
(* Uploads.  An upload scans its folder lead by lead; the manifest intake  *)
(* does the same with one lead at a time.  Nothing keeps two of them apart. *)

Upload(ls) ==
    /\ uploads < MaxUploads
    /\ uploads' = uploads + 1
    /\ scanLeads' = [scanLeads EXCEPT ![uploads + 1] = ls]
    /\ UNCHANGED <<leadRow, docRow, resRow, worker, scanLead, scanDocs, wipe, history>>

\* Where a worker or a deletion is on the lead, the scan takes it away under
\* its hands; a scan that finds nobody on it starts the lead afresh, and what
\* came late so far is in time for the next worker.
Busy(l)    == Working(l) \/ l \in wiped
Overlap(l) == overlapped' = IF Busy(l) THEN overlapped \cup {l} ELSE overlapped
InTime(l)  == late' = IF Working(l) THEN late ELSE late \ ({l} \X Docs)

ScanLead(u, l, ds) ==
    /\ scanLead[u] = NoLead /\ l \in scanLeads[u]
    /\ scanLeads' = [scanLeads EXCEPT ![u] = @ \ {l}]
    /\ scanLead' = [scanLead EXCEPT ![u] = l]
    /\ scanDocs' = [scanDocs EXCEPT ![u] = ds]
    /\ status' = [status EXCEPT ![l] = "draft"]
    /\ batch' = [batch EXCEPT ![l] = u]
    \* only the insert sets created_at
    /\ older' = IF Exists(l) THEN older ELSE older \cup ({m \in Leads : Exists(m)} \X {l})
    /\ overlapped' = IF Busy(l) THEN overlapped \cup {l} ELSE overlapped \ {l}
    /\ hit' = IF Busy(l) THEN hit ELSE hit \ {l}
    /\ InTime(l)
    /\ UNCHANGED <<processed, failed, data, docRow, resRow, worker, uploads, wipe, faults>>

ScanDoc(u, d) ==
    LET l == scanLead[u]
    IN  /\ l # NoLead /\ d \in scanDocs[u]
        /\ scanDocs' = [scanDocs EXCEPT ![u] = @ \ {d}]
        /\ docStatus' = [docStatus EXCEPT ![l][d] = "pending"]
        /\ docFile' = [docFile EXCEPT ![l][d] = u]
        /\ Overlap(l)
        /\ late' = IF Working(l) \/ status[l] \in Finished THEN late \cup {<<l, d>>} ELSE late
        /\ UNCHANGED <<leadRow, resRow, worker, scanLeads, scanLead, uploads, wipe, faults, hit>>

ScanQueue(u) ==
    LET l == scanLead[u]
    IN  /\ l # NoLead /\ scanDocs[u] = {}
        /\ SetStatus(l, "pending")
        /\ Overlap(l) /\ InTime(l)
        /\ scanLead' = [scanLead EXCEPT ![u] = NoLead]
        /\ UNCHANGED <<batch, older, processed, failed, data, docRow, resRow, worker,
                       scanLeads, scanDocs, uploads, wipe, faults, hit>>

\* The web process dies, or a statement of one upload raises: the rest of
\* these uploads is not scanned.
ScanBreaks(us) ==
    /\ \A u \in us : scanLeads[u] # {} \/ scanLead[u] # NoLead
    /\ Fault
    /\ hit' = hit \cup {l \in Leads : \E u \in us : scanLead[u] = l}
    /\ scanLeads' = [u \in Uploads |-> IF u \in us THEN {} ELSE scanLeads[u]]
    /\ scanLead' = [u \in Uploads |-> IF u \in us THEN NoLead ELSE scanLead[u]]
    /\ scanDocs' = [u \in Uploads |-> IF u \in us THEN {} ELSE scanDocs[u]]
    /\ UNCHANGED <<leadRow, docRow, resRow, worker, uploads, wipe, overlapped, late>>

-----------------------------------------------------------------------------
(* Batch actions of the run panel.                                         *)

BatchAction(b, from, to) ==
    /\ \E l \in Leads : batch[l] = b /\ status[l] \in from
    /\ status' = [l \in Leads |-> IF batch[l] = b /\ status[l] \in from THEN to
                                  ELSE status[l]]
    /\ UNCHANGED <<batch, older, processed, failed, data, docRow, resRow,
                   worker, upload, wipe, history>>

Pause(b)  == BatchAction(b, {"pending"}, "paused")
ResumeAtOnce(b) == BatchAction(b, {"paused"}, "processing")  \* mutant
Resume(b) == BatchAction(b, {"paused"}, "pending")
Cancel(b) == BatchAction(b, {"pending", "paused"}, "failed")

-----------------------------------------------------------------------------
(* The worker.                                                             *)

Oldest(l) == \A m \in Leads : status[m] = "pending" => <<m, l>> \notin older

ClaimableAnyway(l) == status[l] \in {"pending", "processing"}  \* mutant
ClaimablePaused(l) == status[l] \in {"pending", "paused"}      \* mutant
Claimable(l) == status[l] = "pending" /\ Oldest(l)

\* claim_one_lead, first statement.  Nothing says for how long.
ClaimLead(w, l) ==
    /\ pc[w] = "idle"
    /\ Claimable(l)
    /\ status' = [status EXCEPT ![l] = "processing"]
    /\ pc' = [pc EXCEPT ![w] = "claimed"]
    /\ lead' = [lead EXCEPT ![w] = l]
    /\ UNCHANGED <<batch, older, processed, failed, data, docRow, resRow, files, short,
                   todo, doc, nOk, nBad, read, verdict, upload, wipe, history>>

Settle(w, v) ==
    /\ verdict' = [verdict EXCEPT ![w] = v]
    /\ pc' = [pc EXCEPT ![w] = "completing"]

\* The documents the prompt asks for, by their names.  If it asks for none of
\* them, all are read: shortlisting is an optimisation.
Shortlist(asked, present) ==
    IF asked \cap present = {} THEN present ELSE asked \cap present

\* claim_one_lead, second statement, and process_lead up to its loop.
\* An empty dossier leaves process_lead at once.
ReadDocs(w, asked) ==
    LET present == {d \in Docs : docStatus[lead[w]][d] # "none"}
    IN  /\ pc[w] = "claimed"
        /\ files' = [files EXCEPT ![w] = docFile[lead[w]]]
        /\ short' = [short EXCEPT ![w] = Shortlist(asked, present)]
        /\ todo' = [todo EXCEPT ![w] = present]
        /\ nOk' = [nOk EXCEPT ![w] = FALSE] /\ nBad' = [nBad EXCEPT ![w] = FALSE]
        /\ read' = [read EXCEPT ![w] = Nothing]
        /\ IF present = {} THEN Settle(w, "missing_documents")
           ELSE pc' = [pc EXCEPT ![w] = "reading"] /\ UNCHANGED verdict
        /\ UNCHANGED <<leadRow, docRow, resRow, lead, doc, upload, wipe, history>>

\* How a document ends, from what its model calls returned.  A call that
\* fails is forgiven by any other that was answered; a page that cannot be
\* rendered is no call at all.
Calls == SUBSET {"ok", "empty", "err"}
DocOutcome(calls) == IF calls = {"err"} THEN "failed" ELSE "processed"

\* "UPDATE legal_lead_documents SET processing_status = s": no row, no effect.
SetDocUnlessSkipped(l, d, s) ==  \* mutant
    docStatus' = [docStatus EXCEPT ![l][d] = IF @ = "none" \/ s = "skipped" THEN @ ELSE s]
SetDoc(l, d, s) == docStatus' = [docStatus EXCEPT ![l][d] = IF @ = "none" THEN @ ELSE s]

SkipDoc(w, d) ==
    /\ pc[w] = "reading" /\ d \in todo[w] \ short[w]
    /\ SetDoc(lead[w], d, "skipped")
    /\ todo' = [todo EXCEPT ![w] = @ \ {d}]
    /\ pc' = [pc EXCEPT ![w] = "counting"]
    /\ UNCHANGED <<leadRow, docFile, resRow, claim, doc, nOk, nBad, read, verdict,
                   upload, wipe, history>>

\* The file is gone from the disk.
LoseDoc(w, d) ==
    /\ pc[w] = "reading" /\ d \in todo[w] \cap short[w]
    /\ SetDoc(lead[w], d, "failed")
    /\ nBad' = [nBad EXCEPT ![w] = TRUE]
    /\ todo' = [todo EXCEPT ![w] = @ \ {d}]
    /\ pc' = [pc EXCEPT ![w] = "counting"]
    /\ UNCHANGED <<leadRow, docFile, resRow, claim, doc, nOk, read, verdict,
                   upload, wipe, history>>

Keep(w, d, kept) == read' = [read EXCEPT ![w][d] = IF kept THEN files[w][d] ELSE @]

\* A file without a page ends like one all of whose calls failed.
ReadDoc(w, d, calls) ==
    /\ pc[w] = "reading" /\ d \in todo[w] \cap short[w]
    /\ SetDoc(lead[w], d, DocOutcome(calls))
    /\ nOk' = [nOk EXCEPT ![w] = @ \/ DocOutcome(calls) = "processed"]
    /\ nBad' = [nBad EXCEPT ![w] = @ \/ DocOutcome(calls) = "failed"]
    /\ Keep(w, d, DocOutcome(calls) = "processed")
    /\ todo' = [todo EXCEPT ![w] = @ \ {d}]
    /\ doc' = [doc EXCEPT ![w] = d]
    /\ pc' = [pc EXCEPT ![w] = "counting"]
    /\ UNCHANGED <<leadRow, docFile, resRow, claim, verdict, upload, wipe, history>>

\* Rendering raises, or filing a reply does, and what the calls before found
\* is kept; or it is the statement that would settle the document, which has
\* been counted by then.
DocRaises(w, d, kept, counted) ==
    /\ pc[w] = "reading" /\ d \in todo[w] \cap short[w]
    /\ counted => kept
    /\ nOk' = [nOk EXCEPT ![w] = @ \/ counted]
    /\ Keep(w, d, kept)
    /\ doc' = [doc EXCEPT ![w] = d]
    /\ pc' = [pc EXCEPT ![w] = "handling"]
    /\ UNCHANGED <<leadRow, docRow, resRow, claim, todo, nBad, verdict, upload, wipe, history>>

\* The same, from the count of the documents that follows.
TryRaises(w) ==
    /\ pc[w] = "counting" /\ doc[w] # NoDoc
    /\ Fault
    /\ pc' = [pc EXCEPT ![w] = "handling"]
    /\ UNCHANGED <<leadRow, docRow, resRow, claim, todo, doc, nOk, nBad, read, verdict,
                   upload, wipe, overlapped, hit, late>>

HandleDoc(w) ==
    /\ pc[w] = "handling"
    /\ SetDoc(lead[w], doc[w], "failed")
    /\ nBad' = [nBad EXCEPT ![w] = TRUE]
    /\ todo' = [todo EXCEPT ![w] = @ \ {doc[w]}]
    /\ doc' = [doc EXCEPT ![w] = NoDoc]
    /\ pc' = [pc EXCEPT ![w] = "counting"]
    /\ UNCHANGED <<leadRow, docFile, resRow, claim, nOk, read, verdict, upload, wipe, history>>

CountOf(l, s) == Cardinality({d \in Docs : docStatus[l][d] = s})

RecountSettled(l) ==  \* mutant: counts what is settled, not what was read
    /\ processed' = [processed EXCEPT ![l] = IF Exists(l)
           THEN CountOf(l, "processed") + CountOf(l, "skipped") ELSE @]
    /\ failed' = [failed EXCEPT ![l] = IF Exists(l) THEN CountOf(l, "failed") ELSE @]

\* update_lead_doc_counts
Recount(l) ==
    /\ processed' = [processed EXCEPT ![l] = IF Exists(l) THEN CountOf(l, "processed") ELSE @]
    /\ failed' = [failed EXCEPT ![l] = IF Exists(l) THEN CountOf(l, "failed") ELSE @]

CountDocs(w) ==
    /\ pc[w] = "counting"
    /\ Recount(lead[w])
    /\ doc' = [doc EXCEPT ![w] = NoDoc]
    /\ pc' = [pc EXCEPT ![w] = IF todo[w] = {} THEN "saving" ELSE "reading"]
    /\ UNCHANGED <<status, batch, older, data, docRow, resRow, claim, todo, nOk, nBad,
                   read, verdict, upload, wipe, history>>

FinalStatus(w) ==
    IF ~nOk[w] THEN (IF nBad[w] THEN "failed" ELSE "missing_documents")
    ELSE IF nBad[w] THEN "partial" ELSE "completed"

SaveLead(w) ==
    /\ pc[w] = "saving"
    /\ SetStatus(lead[w], FinalStatus(w))
    /\ data' = [data EXCEPT ![lead[w]] = IF Exists(lead[w]) THEN read[w] ELSE @]
    /\ verdict' = [verdict EXCEPT ![w] = FinalStatus(w)]
    /\ pc' = [pc EXCEPT ![w] = "filing"]
    /\ UNCHANGED <<batch, older, processed, failed, docRow, resRow, claim, todo, doc, nOk, nBad,
                   read, upload, wipe, history>>

\* The result row is inserted whether or not the lead still exists.
FileResult(w) ==
    /\ pc[w] = "filing"
    /\ resStatus' = [resStatus EXCEPT ![lead[w]] = verdict[w]]
    /\ resData' = [resData EXCEPT ![lead[w]] = read[w]]
    /\ pc' = [pc EXCEPT ![w] = "recount"]
    /\ UNCHANGED <<leadRow, docRow, claim, todo, doc, nOk, nBad, read, verdict,
                   upload, wipe, history>>

RecountAll(w) ==
    /\ pc[w] = "recount"
    /\ Recount(lead[w])
    /\ pc' = [pc EXCEPT ![w] = "completing"]
    /\ UNCHANGED <<status, batch, older, data, docRow, resRow, claim, todo, doc, nOk, nBad,
                   read, verdict, upload, wipe, history>>

\* A statement of the final save raises: process_lead notes it on standard
\* error, marks the lead failed, and returns its verdict all the same.
SaveRaises(w) ==
    /\ pc[w] \in {"saving", "filing", "recount"}
    /\ Fault /\ hit' = hit \cup {lead[w]}
    /\ verdict' = [verdict EXCEPT ![w] = FinalStatus(w)]
    /\ pc' = [pc EXCEPT ![w] = "rescue"]
    /\ UNCHANGED <<leadRow, docRow, resRow, claim, todo, doc, nOk, nBad, read,
                   upload, wipe, overlapped, late>>

\* What this statement raises is swallowed.
Rescue(w) ==
    /\ pc[w] = "rescue"
    /\ SetStatus(lead[w], "failed") \/ UNCHANGED status
    /\ pc' = [pc EXCEPT ![w] = "completing"]
    /\ UNCHANGED <<batch, older, processed, failed, data, docRow, resRow, claim, todo, doc,
                   nOk, nBad, read, verdict, upload, wipe, history>>

\* The locals of a worker that is through with its lead say nothing more.
Forget(w) ==
    /\ lead' = [lead EXCEPT ![w] = NoLead]
    /\ files' = [files EXCEPT ![w] = Nothing]
    /\ short' = [short EXCEPT ![w] = {}]
    /\ todo' = [todo EXCEPT ![w] = {}]
    /\ doc' = [doc EXCEPT ![w] = NoDoc]
    /\ nOk' = [nOk EXCEPT ![w] = FALSE] /\ nBad' = [nBad EXCEPT ![w] = FALSE]
    /\ read' = [read EXCEPT ![w] = Nothing]
    /\ verdict' = [verdict EXCEPT ![w] = "failed"]

CompleteLead(w) ==
    /\ pc[w] = "completing"
    /\ SetStatus(lead[w], verdict[w])
    /\ pc' = [pc EXCEPT ![w] = "idle"]
    /\ Forget(w)
    /\ UNCHANGED <<batch, older, processed, failed, data, docRow, resRow,
                   upload, wipe, history>>

FailLead(w) ==
    /\ pc[w] = "failing"
    /\ SetStatus(lead[w], "failed")
    /\ pc' = [pc EXCEPT ![w] = "idle"]
    /\ Forget(w)
    /\ UNCHANGED <<batch, older, processed, failed, data, docRow, resRow,
                   upload, wipe, history>>

\* A statement raises outside of what process_lead catches: the worker loop
\* calls fail_lead.
StepRaises(w) ==
    /\ pc[w] \in {"reading", "handling", "completing"} \/ (pc[w] = "counting" /\ doc[w] = NoDoc)
    /\ Fault
    /\ pc' = [pc EXCEPT ![w] = "failing"]
    /\ UNCHANGED <<leadRow, docRow, resRow, claim, todo, doc, nOk, nBad, read, verdict,
                   upload, wipe, overlapped, hit, late>>

\* The second statement of the claim raises, or fail_lead does: the loop
\* backs off and claims the next lead; this one stays as it is.
LoopRaises(w) ==
    /\ pc[w] \in {"claimed", "failing"}
    /\ Fault /\ hit' = hit \cup {lead[w]}
    /\ pc' = [pc EXCEPT ![w] = "idle"]
    /\ Forget(w)
    /\ UNCHANGED <<leadRow, docRow, resRow, upload, wipe, overlapped, late>>

Crash(w) ==
    /\ pc[w] \notin {"idle", "down"}
    /\ Fault /\ hit' = hit \cup {lead[w]}
    /\ pc' = [pc EXCEPT ![w] = "down"]
    /\ Forget(w)
    /\ UNCHANGED <<leadRow, docRow, resRow, upload, wipe, overlapped, late>>

\* init_schema of a process that starts: the documents that a finished lead
\* left pending count as skipped.
Sweep == docStatus' = [l \in Leads |-> [d \in Docs |->
            IF status[l] \in Finished /\ docStatus[l][d] = "pending" THEN "skipped"
            ELSE docStatus[l][d]]]

Restart(w) ==
    /\ pc[w] = "down"
    /\ Sweep
    /\ pc' = [pc EXCEPT ![w] = "idle"]
    /\ UNCHANGED <<leadRow, docFile, resRow, claim, todo, doc, nOk, nBad, read, verdict,
                   upload, wipe, history>>

\* Another process starts: the web app, a worker, a command.
Boot ==
    /\ Fault
    /\ Sweep
    /\ UNCHANGED <<leadRow, docFile, resRow, worker, upload, wipe, overlapped, hit, late>>

-----------------------------------------------------------------------------
(* Deletion of test data, table by table: clear_legal_test_data of a batch. *)

Wipe(b) ==
    /\ wiping = "none" /\ Fault
    /\ wiped' = {l \in Leads : Exists(l) /\ batch[l] = b}
    /\ wiped' # {}
    /\ wiping' = "documents"
    /\ UNCHANGED <<leadRow, docRow, resRow, worker, upload, overlapped, hit, late>>

Cleared(f, v) == [l \in Leads |-> IF l \in wiped THEN v ELSE f[l]]
WipedUnderWork == overlapped' = overlapped \cup {l \in wiped : Working(l) \/ Scanned(l)}

WipeDocs ==
    /\ wiping = "documents"
    /\ docStatus' = Cleared(docStatus, [d \in Docs |-> "none"])
    /\ docFile' = Cleared(docFile, Nothing)
    /\ WipedUnderWork
    /\ hit' = hit \cup wiped
    /\ wiping' = "results"
    /\ UNCHANGED <<leadRow, resRow, worker, upload, wiped, faults, late>>

WipeResults ==
    /\ wiping = "results"
    /\ resStatus' = Cleared(resStatus, "none")
    /\ resData' = Cleared(resData, Nothing)
    /\ WipedUnderWork
    /\ wiping' = "leads"
    /\ UNCHANGED <<leadRow, docRow, worker, upload, wiped, faults, hit, late>>

WipeLeads ==
    /\ wiping = "leads"
    /\ status' = Cleared(status, "none")
    /\ batch' = Cleared(batch, 0)
    /\ older' = {p \in older : p[1] \notin wiped /\ p[2] \notin wiped}
    /\ processed' = Cleared(processed, 0) /\ failed' = Cleared(failed, 0)
    /\ data' = Cleared(data, Nothing)
    /\ WipedUnderWork
    /\ wiping' = "none" /\ wiped' = {}
    /\ UNCHANGED <<docRow, resRow, worker, upload, faults, hit, late>>

-----------------------------------------------------------------------------
WorkerStep(w) ==
    \/ \E l \in Leads : ClaimLead(w, l)
    \/ \E asked \in SUBSET Docs : ReadDocs(w, asked)
    \/ \E d \in Docs : SkipDoc(w, d) \/ LoseDoc(w, d)
    \/ \E d \in Docs, calls \in Calls : ReadDoc(w, d, calls)
    \/ \E d \in Docs, kept, counted \in BOOLEAN : DocRaises(w, d, kept, counted)
    \/ HandleDoc(w) \/ CountDocs(w) \/ SaveLead(w) \/ FileResult(w) \/ RecountAll(w)
    \/ Rescue(w) \/ CompleteLead(w) \/ FailLead(w) \/ Restart(w)

WorkerFault(w) == TryRaises(w) \/ SaveRaises(w) \/ StepRaises(w) \/ LoopRaises(w) \/ Crash(w)

ScanStep(u) ==
    \/ \E l \in Leads, ds \in (SUBSET Docs) \ {{}} : ScanLead(u, l, ds)
    \/ \E d \in Docs : ScanDoc(u, d)
    \/ ScanQueue(u)

WipeStep == WipeDocs \/ WipeResults \/ WipeLeads

Next ==
    \/ \E w \in Workers : WorkerStep(w) \/ WorkerFault(w)
    \/ \E ls \in (SUBSET Leads) \ {{}} : Upload(ls)
    \/ \E u \in Uploads : ScanStep(u)
    \/ \E us \in (SUBSET Uploads) \ {{}} : ScanBreaks(us)
    \/ \E b \in Uploads : Pause(b) \/ Resume(b) \/ Cancel(b) \/ Wipe(b)
    \/ WipeStep \/ Boot

Spec == Init /\ [][Next]_vars

-----------------------------------------------------------------------------
(* Properties.                                                             *)

\* A lead is read by one worker at a time, however claims, crashes and batch
\* actions interleave, unless it was uploaded again while one was on it.
OneReaderPerLead ==
    \A v, w \in Workers : v # w /\ lead[v] = lead[w] /\ lead[v] # NoLead
        => lead[v] \in overlapped

\* A lead that shows a verdict has no document nobody decided about, also
\* after errors and restarts and whatever uploads, batch actions and
\* deletions meet on it, but for those that came while a worker was on it or
\* after the verdict.
VerdictMeansSettled ==
    \A l \in Leads : status[l] \in {"completed", "partial", "missing_documents"}
        => \A d \in Docs : docStatus[l][d] = "pending" => <<l, d>> \in late

\* A lead is reported as lacking its documents only if it has none but such
\* as came late: the shortlist never empties a dossier.
MissingMeansEmpty ==
    \A l \in Leads : status[l] = "missing_documents"
        => \A d \in Docs : docStatus[l][d] # "none" => <<l, d>> \in late

\* What the extraction may hold of a document that shows status s.
Kept(s, file) == IF s = "processed" THEN {file} ELSE IF s = "failed" THEN {0, file} ELSE {0}

\* The two rows that hold the outcome of a finished lead agree with each
\* other, with the documents and their present files, and with the counters,
\* once its worker has left it and no upload is on it: a document that failed
\* may have left values, one that was not read has none.
RecordsAgree ==
    \A l \in Leads :
        /\ status[l] \in {"completed", "partial"}
        /\ l \notin overlapped \cup hit /\ ~Working(l) /\ ~Scanned(l)
        => /\ resStatus[l] = status[l] /\ resData[l] = data[l]
           /\ \A d \in Docs : data[l][d] \in Kept(docStatus[l][d], docFile[l][d])
           /\ processed[l] = CountOf(l, "processed") /\ failed[l] = CountOf(l, "failed")
           /\ (status[l] = "completed") <=> (failed[l] = 0)

\* Deleting a lead leaves nothing of it behind, unless a worker or an upload
\* was on the lead.
NoOrphans ==
    \A l \in Leads : ~Exists(l) /\ l \notin overlapped
        => ~HasDocs(l) /\ resStatus[l] = "none"

\* What the tables hold about a lead fits together, while it is there and after
\* it was deleted.
RowsAgree == RecordsAgree /\ NoOrphans

\* A paused lead gets a worker or a verdict only after it was resumed, unless
\* it was uploaded again under its worker.
PauseHolds ==
    [][\A l \in Leads : status[l] = "paused" /\ l \notin overlapped
        => status'[l] \in {"paused", "pending", "failed", "draft", "none"}]_vars

\* No lead is abandoned: one that shows as being read has a worker and one
\* that is being scanned has its upload, unless a fault hit them.
Attended ==
    \A l \in Leads : l \notin hit =>
        /\ status[l] = "processing" => Working(l)
        /\ status[l] = "draft" => Scanned(l)
=============================================================================

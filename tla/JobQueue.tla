------------------------------ MODULE JobQueue ------------------------------
(***************************************************************************)
(* The durable job queue of pipeline/jobs.py, drained by the worker loop   *)
(* of worker.py.  One row of the table `jobs` per lead; every statement    *)
(* runs on an autocommit connection, so each of them is one atomic step,   *)
(* and nothing ties the statements of one worker together but its lease.   *)
(*                                                                         *)
(* The value of lease_until is kept only as far as claim_one compares it   *)
(* with now(): NULL, in the future, or in the past.                        *)
(***************************************************************************)
EXTENDS Naturals, FiniteSets

CONSTANTS
    Jobs,         \* job ids; job_id = lead_id
    Workers,      \* worker threads, of one or several processes
    Verdicts,     \* what process_worker_job can return
    Priority,     \* jobs.priority: lower is claimed first
    MaxAttempts,  \* settings.JOB_MAX_ATTEMPTS
    MaxFaults,    \* bound on crashes, overrun leases and lost replies
    NoJob, NoVerdict

ASSUME JobQueueAssumption ==
    /\ MaxAttempts \in Nat \ {0}
    /\ MaxFaults \in Nat
    /\ Priority \in [Jobs -> Nat]
    /\ NoJob \notin Jobs
    /\ NoVerdict \notin Verdicts
    /\ IsFiniteSet(Jobs)

VARIABLES
    \* the table `jobs`
    status, attempts, lease, verdict,
    created,    \* rank of created_at among the rows; 0: no row
    \* the worker threads
    pc, job, result,
    \* what went wrong so far
    faults,
    overran,    \* jobs whose lease ran out while a worker was still on them
    unacked     \* jobs whose complete() committed but raised in the worker

table   == <<status, attempts, lease, verdict, created>>
threads == <<pc, job, result>>
history == <<faults, overran, unacked>>
vars    == <<table, threads, history>>

Status == {"absent", "pending", "in_progress", "done", "failed"}
Lease  == {"null", "running", "expired"}
Place  == {"idle", "processing", "completing", "failing", "down"}

TypeOK ==
    /\ status \in [Jobs -> Status]
    /\ attempts \in [Jobs -> Nat]
    /\ lease \in [Jobs -> Lease]
    /\ verdict \in [Jobs -> Verdicts \cup {NoVerdict}]
    /\ created \in [Jobs -> Nat]
    /\ pc \in [Workers -> Place]
    /\ job \in [Workers -> Jobs \cup {NoJob}]
    /\ result \in [Workers -> Verdicts \cup {NoVerdict}]
    /\ faults \in Nat
    /\ overran \in SUBSET Jobs
    /\ unacked \in SUBSET Jobs

Init ==
    /\ status = [j \in Jobs |-> "absent"]
    /\ attempts = [j \in Jobs |-> 0]
    /\ lease = [j \in Jobs |-> "null"]
    /\ verdict = [j \in Jobs |-> NoVerdict]
    /\ created = [j \in Jobs |-> 0]
    /\ pc = [w \in Workers |-> "idle"]
    /\ job = [w \in Workers |-> NoJob]
    /\ result = [w \in Workers |-> NoVerdict]
    /\ faults = 0
    /\ overran = {}
    /\ unacked = {}

-----------------------------------------------------------------------------
Holders(j) == {w \in Workers : job[w] = j}
Settled(j) == status[j] \in {"done", "failed"}

(* Mutants: a claim that looks at neither the clock nor the lease; one      *)
(* that never takes an expired lease over.                                  *)
ClaimableAnyway(j) == status[j] \in {"pending", "in_progress"}
ClaimablePendingOnly(j) == status[j] = "pending"

(* The WHERE clause of claim_one. *)
Claimable(j) ==
    \/ status[j] = "pending"
    \/ status[j] = "in_progress" /\ lease[j] = "expired"

(* ORDER BY priority, created_at. *)
Before(j, k) ==
    \/ Priority[j] < Priority[k]
    \/ Priority[j] = Priority[k] /\ created[j] < created[k]

(* SKIP LOCKED: the statement passes over a row that the complete() or     *)
(* fail() of another worker is updating at that moment.                    *)
RowLocked(j) == \E w \in Workers : job[w] = j /\ pc[w] \in {"completing", "failing"}

(* The row claim_one picks. *)
Picked(j) ==
    /\ Claimable(j)
    /\ \A k \in Jobs : Claimable(k) /\ Before(k, j) => RowLocked(k)

Fault == faults < MaxFaults /\ faults' = faults + 1

-----------------------------------------------------------------------------
(* Mutant: ON CONFLICT DO UPDATE SET status = 'pending'. *)
EnqueueAgain(j) ==
    /\ status[j] # "in_progress"
    /\ status' = [status EXCEPT ![j] = "pending"]
    /\ created' = [created EXCEPT ![j] = 1 + Cardinality({k \in Jobs : created[k] > 0})]
    /\ UNCHANGED <<attempts, lease, verdict, threads, history>>

(* INSERT ... ON CONFLICT (job_id) DO NOTHING: only a new id has an effect. *)
Enqueue(j) ==
    /\ status[j] = "absent"
    /\ status' = [status EXCEPT ![j] = "pending"]
    /\ created' = [created EXCEPT ![j] = 1 + Cardinality({k \in Jobs : created[k] > 0})]
    /\ UNCHANGED <<attempts, lease, verdict, threads, history>>

ClaimRow(j) ==
    /\ status' = [status EXCEPT ![j] = "in_progress"]
    /\ attempts' = [attempts EXCEPT ![j] = attempts[j] + 1]
    /\ lease' = [lease EXCEPT ![j] = "running"]
    /\ UNCHANGED <<verdict, created>>

ClaimOne(w) ==
    /\ pc[w] = "idle"
    /\ \E j \in Jobs :
          /\ Picked(j)
          /\ ClaimRow(j)
          /\ job' = [job EXCEPT ![w] = j]
    /\ pc' = [pc EXCEPT ![w] = "processing"]
    /\ UNCHANGED <<result, history>>

(* The claim commits but its reply is lost: the loop backs off, and the    *)
(* row is in progress with nobody working on it.                           *)
ClaimReplyLost(w) ==
    /\ pc[w] = "idle"
    /\ \E j \in Jobs : Picked(j) /\ ClaimRow(j)
    /\ Fault
    /\ UNCHANGED <<threads, overran, unacked>>

(* Nothing to claim: the loop sleeps and polls again. *)
IdlePoll(w) ==
    /\ pc[w] = "idle"
    /\ \A j \in Jobs : ~Claimable(j)
    /\ UNCHANGED vars

(* process_worker_job returns a verdict ... *)
ProcessReturns(w) ==
    /\ pc[w] = "processing"
    /\ \E v \in Verdicts : result' = [result EXCEPT ![w] = v]
    /\ pc' = [pc EXCEPT ![w] = "completing"]
    /\ UNCHANGED <<table, job, history>>

(* ... or raises, and the loop calls fail_worker_job. *)
ProcessRaises(w) ==
    /\ pc[w] = "processing"
    /\ pc' = [pc EXCEPT ![w] = "failing"]
    /\ UNCHANGED <<table, job, result, history>>

(* complete(): WHERE job_id only -- neither the status nor the owner of    *)
(* the row is looked at, and lease_until keeps its value.                  *)
CompleteRow(j, v) ==
    /\ status' = [status EXCEPT ![j] = "done"]
    /\ verdict' = [verdict EXCEPT ![j] = v]
    /\ UNCHANGED <<attempts, lease, created>>

(* fail(): back to pending, or parked once the attempts are used up. *)
FailRow(j) ==
    /\ status' = [status EXCEPT ![j] =
                    IF attempts[j] >= MaxAttempts THEN "failed" ELSE "pending"]
    /\ lease' = [lease EXCEPT ![j] = "null"]
    /\ UNCHANGED <<attempts, verdict, created>>

Release(w) ==
    /\ pc' = [pc EXCEPT ![w] = "idle"]
    /\ job' = [job EXCEPT ![w] = NoJob]
    /\ result' = [result EXCEPT ![w] = NoVerdict]

Complete(w) ==
    /\ pc[w] = "completing"
    /\ CompleteRow(job[w], result[w])
    /\ Release(w)
    /\ UNCHANGED history

(* complete() raises, before or after its statement took effect: the       *)
(* handler around it calls fail() either way.                              *)
CompleteRaises(w) ==
    /\ pc[w] = "completing"
    /\ \/ /\ CompleteRow(job[w], result[w])
          /\ unacked' = unacked \cup {job[w]}
       \/ UNCHANGED <<table, unacked>>
    /\ pc' = [pc EXCEPT ![w] = "failing"]
    /\ result' = [result EXCEPT ![w] = NoVerdict]
    /\ Fault
    /\ UNCHANGED <<job, overran>>

Fail(w) ==
    /\ pc[w] = "failing"
    /\ FailRow(job[w])
    /\ Release(w)
    /\ UNCHANGED history

(* fail() raises: the outer handler backs off and forgets the job. *)
FailRaises(w) ==
    /\ pc[w] = "failing"
    /\ FailRow(job[w]) \/ UNCHANGED table
    /\ Release(w)
    /\ Fault
    /\ UNCHANGED <<overran, unacked>>

(* The process dies with its daemon threads; the row keeps its lease. *)
Crash(w) ==
    /\ pc[w] # "down"
    /\ pc' = [pc EXCEPT ![w] = "down"]
    /\ job' = [job EXCEPT ![w] = NoJob]
    /\ result' = [result EXCEPT ![w] = NoVerdict]
    /\ Fault
    /\ UNCHANGED <<table, overran, unacked>>

Restart(w) ==
    /\ pc[w] = "down"
    /\ pc' = [pc EXCEPT ![w] = "idle"]
    /\ UNCHANGED <<table, job, result, history>>

(* now() passes lease_until of a row nobody works on ... *)
LeaseExpires(j) ==
    /\ status[j] = "in_progress" /\ lease[j] = "running"
    /\ Holders(j) = {}
    /\ lease' = [lease EXCEPT ![j] = "expired"]
    /\ UNCHANGED <<status, attempts, verdict, created, threads, history>>

(* ... or of a row whose worker is slower than the lease: nothing renews it. *)
LeaseOverruns(j) ==
    /\ status[j] = "in_progress" /\ lease[j] = "running"
    /\ Holders(j) # {}
    /\ lease' = [lease EXCEPT ![j] = "expired"]
    /\ overran' = overran \cup {j}
    /\ Fault
    /\ UNCHANGED <<status, attempts, verdict, created, threads, unacked>>

WorkerStep(w) ==
    \/ ClaimOne(w) \/ IdlePoll(w)
    \/ ProcessReturns(w) \/ ProcessRaises(w)
    \/ Complete(w) \/ Fail(w)

WorkerFault(w) ==
    ClaimReplyLost(w) \/ CompleteRaises(w) \/ FailRaises(w) \/ Crash(w) \/ Restart(w)

Next ==
    \/ \E j \in Jobs : Enqueue(j) \/ LeaseExpires(j) \/ LeaseOverruns(j)
    \/ \E w \in Workers : WorkerStep(w) \/ WorkerFault(w)

Spec == Init /\ [][Next]_vars

(* The scheduler runs every live thread, the clock passes every deadline,  *)
(* and the supervisor brings a dead process back.                          *)
Fairness ==
    /\ \A w \in Workers : WF_vars(WorkerStep(w)) /\ WF_vars(Restart(w))
    /\ \A j \in Jobs : WF_vars(LeaseExpires(j))

FairSpec == Spec /\ Fairness

-----------------------------------------------------------------------------
(* jobs.py:8-10, "many workers pull different jobs": while no lease has    *)
(* run out under its worker, two workers never hold the same job.          *)
OneWorkerPerJob ==
    \A v, w \in Workers : job[v] = job[w] /\ job[v] \in Jobs \ overran => v = w

(* A row waits only while it has attempts left, and is parked only once    *)
(* all of them were used, whoever called fail() and however late.          *)
RetryBudget ==
    \A j \in Jobs :
        /\ status[j] = "pending" => attempts[j] < MaxAttempts
        /\ status[j] = "failed" => attempts[j] >= MaxAttempts

(* jobs.py:11, "terminal transitions": a settled row stays as it is, as    *)
(* long as no lease overran and no reply of complete() was lost.           *)
SettledStaysSettled ==
    [][\A j \in Jobs \ (overran \cup unacked) :
          Settled(j) => status'[j] = status[j] /\ verdict'[j] = verdict[j]]_vars

(* ORDER BY priority, created_at: a claim does not overtake a waiting job  *)
(* of better priority, or of the same priority and older, that no worker   *)
(* is updating; a retried job keeps its place.                             *)
NoOvertaking ==
    [][\A j, k \in Jobs :
          /\ status[j] = "pending" /\ Holders(j) = {} /\ Before(j, k)
          /\ attempts'[k] > attempts[k]
          => FALSE]_vars

(* Crashes, lost replies and overruns, once they end, leave no job behind: *)
(* every enqueued job is done or parked for good.                          *)
EveryJobSettles ==
    \A j \in Jobs : status[j] # "absent" ~> [](Settled(j))
=============================================================================

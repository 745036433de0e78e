----------------------- MODULE PaymentPipelineProofs -----------------------
(***************************************************************************)
(* Theorems about the job queue and about the payment pipeline that runs   *)
(* on it, for every set of jobs, workers and payment identities, every     *)
(* priority and every number of attempts and faults.                       *)
(***************************************************************************)
EXTENDS PaymentPipeline, FiniteSetTheorems, TLAPS

(***************************************************************************)
(* The queue.                                                              *)
(***************************************************************************)

(* What a worker knows of the row it works on: unless the lease overran,   *)
(* the row is still its own -- in progress under a running lease, or done  *)
(* by the very complete() that raised.                                     *)
OwnRow(w) ==
    \/ status[job[w]] = "in_progress" /\ lease[job[w]] = "running"
    \/ status[job[w]] = "done" /\ pc[w] = "failing" /\ job[w] \in unacked

HolderInv ==
    /\ \A w \in Workers : job[w] \in Jobs <=> pc[w] \in {"processing", "completing", "failing"}
    /\ \A w \in Workers : pc[w] = "completing" => result[w] \in Verdicts
    /\ \A w \in Workers : job[w] \in Jobs \ overran => OwnRow(w)

AbsentInv == \A j \in Jobs : status[j] = "absent" => attempts[j] = 0

QueueInv == TypeOK /\ HolderInv /\ AbsentInv /\ OneWorkerPerJob /\ RetryBudget

-----------------------------------------------------------------------------
(* An empty queue satisfies the inductive invariant ... *)
LEMMA InitQueueInv == Init => QueueInv
<1> SUFFICES ASSUME Init PROVE QueueInv
  OBVIOUS
<1> USE JobQueueAssumption DEF Init
<1>1. TypeOK
  BY DEF TypeOK, Status, Lease, Place
<1>2. HolderInv
  BY DEF HolderInv
<1>3. AbsentInv /\ OneWorkerPerJob /\ RetryBudget
  BY DEF AbsentInv, OneWorkerPerJob, RetryBudget
<1> QED
  BY <1>1, <1>2, <1>3 DEF QueueInv

(* The rank that INSERT gives a new row is a number. *)
LEMMA RankIsNat == 1 + Cardinality({k \in Jobs : created[k] > 0}) \in Nat
<1> DEFINE R == {k \in Jobs : created[k] > 0}
<1>1. R \in SUBSET Jobs /\ IsFiniteSet(Jobs)
  BY JobQueueAssumption
<1>2. IsFiniteSet(R)
  BY <1>1, FS_Subset
<1>3. Cardinality(R) \in Nat
  BY <1>2, FS_CardinalityType
<1> QED
  BY <1>3

(* ... and every step of the queue, of a worker or of a fault keeps it.    *)
LEMMA StepQueueInv == QueueInv /\ [Next]_vars => QueueInv'
<1> SUFFICES ASSUME QueueInv, [Next]_vars PROVE QueueInv'
  OBVIOUS
<1> USE JobQueueAssumption
        DEF QueueInv, TypeOK, HolderInv, AbsentInv, OneWorkerPerJob, RetryBudget, OwnRow,
            Status, Lease, Place, table, threads, history
<1>1. ASSUME NEW j \in Jobs, Enqueue(j) PROVE QueueInv'
  BY <1>1, RankIsNat DEF Enqueue
<1>2. ASSUME NEW j \in Jobs, LeaseExpires(j) PROVE QueueInv'
  BY <1>2 DEF LeaseExpires, Holders
<1>3. ASSUME NEW j \in Jobs, LeaseOverruns(j) PROVE QueueInv'
  BY <1>3 DEF LeaseOverruns, Fault
<1>4. ASSUME NEW w \in Workers, ClaimOne(w) PROVE QueueInv'
  BY <1>4 DEF ClaimOne, Picked, Claimable, ClaimRow
<1>5. ASSUME NEW w \in Workers, ClaimReplyLost(w) PROVE QueueInv'
  BY <1>5 DEF ClaimReplyLost, Picked, Claimable, ClaimRow, Fault
<1>6. ASSUME NEW w \in Workers, IdlePoll(w) PROVE QueueInv'
  BY <1>6 DEF IdlePoll, vars
<1>7. ASSUME NEW w \in Workers, ProcessReturns(w) PROVE QueueInv'
  BY <1>7 DEF ProcessReturns
<1>8. ASSUME NEW w \in Workers, ProcessRaises(w) PROVE QueueInv'
  BY <1>8 DEF ProcessRaises
<1>9. ASSUME NEW w \in Workers, Complete(w) PROVE QueueInv'
  BY <1>9 DEF Complete, CompleteRow, Release
<1>10. ASSUME NEW w \in Workers, CompleteRaises(w) PROVE QueueInv'
  BY <1>10 DEF CompleteRaises, CompleteRow, Fault
<1>11. ASSUME NEW w \in Workers, Fail(w) PROVE QueueInv'
  BY <1>11 DEF Fail, FailRow, Release
<1>12. ASSUME NEW w \in Workers, FailRaises(w) PROVE QueueInv'
  BY <1>12 DEF FailRaises, FailRow, Release, Fault
<1>13. ASSUME NEW w \in Workers, Crash(w) PROVE QueueInv'
  BY <1>13 DEF Crash, Fault
<1>14. ASSUME NEW w \in Workers, Restart(w) PROVE QueueInv'
  BY <1>14 DEF Restart
<1>15. CASE UNCHANGED vars
  BY <1>15 DEF vars
<1> QED
  BY <1>1, <1>2, <1>3, <1>4, <1>5, <1>6, <1>7, <1>8, <1>9, <1>10, <1>11, <1>12,
     <1>13, <1>14, <1>15
  DEF Next, WorkerStep, WorkerFault

(* So it holds in every reachable state. *)
LEMMA QueueInvariant == Spec => []QueueInv
<1>1. QueueInv /\ [Next]_vars => QueueInv'
  BY StepQueueInv
<1> QED
  BY <1>1, InitQueueInv, PTL DEF Spec

-----------------------------------------------------------------------------
(* Every variable of the queue and of the workers keeps its type. *)
THEOREM QueueTypeCorrect == Spec => []TypeOK
<1>1. QueueInv => TypeOK
  BY DEF QueueInv
<1> QED
  BY <1>1, QueueInvariant, PTL

(* While the lease of a job holds, no second worker has the job. *)
THEOREM ExclusiveWork == Spec => []OneWorkerPerJob
<1>1. QueueInv => OneWorkerPerJob
  BY DEF QueueInv
<1> QED
  BY <1>1, QueueInvariant, PTL

(* A job is retried while it has attempts left and parked only without. *)
THEOREM RetriesWithinBudget == Spec => []RetryBudget
<1>1. QueueInv => RetryBudget
  BY DEF QueueInv
<1> QED
  BY <1>1, QueueInvariant, PTL

(* The action SettledStaysSettled allows, as a formula of its own. *)
KeepsSettled ==
    \A j \in Jobs \ (overran \cup unacked) :
        Settled(j) => status'[j] = status[j] /\ verdict'[j] = verdict[j]

(* A settled job that was never overrun and whose completion was           *)
(* acknowledged is settled for good: the one worker that may still write   *)
(* to a row is the one that holds it in progress.                          *)
THEOREM SettledIsFinal == Spec => SettledStaysSettled
<1>1. QueueInv /\ [Next]_vars => KeepsSettled
  <2> SUFFICES ASSUME QueueInv, [Next]_vars,
                      NEW j \in Jobs \ (overran \cup unacked), Settled(j)
               PROVE  status'[j] = status[j] /\ verdict'[j] = verdict[j]
    BY DEF KeepsSettled
  <2> USE DEF QueueInv, TypeOK, Settled, table
  <2>1. \A w \in Workers : job[w] # j
    <3> SUFFICES ASSUME NEW w \in Workers, job[w] = j PROVE FALSE
      OBVIOUS
    <3>1. OwnRow(w)
      BY DEF HolderInv
    <3> QED
      BY <3>1 DEF OwnRow
  <2>2. ASSUME NEW k \in Jobs, Enqueue(k) \/ LeaseExpires(k) \/ LeaseOverruns(k)
        PROVE  status'[j] = status[j] /\ verdict'[j] = verdict[j]
    BY <2>2 DEF Enqueue, LeaseExpires, LeaseOverruns
  <2>3. ASSUME NEW w \in Workers, ClaimOne(w) \/ ClaimReplyLost(w)
        PROVE  status'[j] = status[j] /\ verdict'[j] = verdict[j]
    BY <2>3 DEF ClaimOne, ClaimReplyLost, Picked, Claimable, ClaimRow
  <2>4. ASSUME NEW w \in Workers, Complete(w) \/ CompleteRaises(w) \/ Fail(w) \/ FailRaises(w)
        PROVE  status'[j] = status[j] /\ verdict'[j] = verdict[j]
    BY <2>1, <2>4 DEF Complete, CompleteRaises, CompleteRow, Fail, FailRaises, FailRow
  <2>5. ASSUME NEW w \in Workers,
               IdlePoll(w) \/ ProcessReturns(w) \/ ProcessRaises(w) \/ Crash(w) \/ Restart(w)
        PROVE  status'[j] = status[j] /\ verdict'[j] = verdict[j]
    BY <2>5 DEF IdlePoll, ProcessReturns, ProcessRaises, Crash, Restart, vars
  <2>6. CASE UNCHANGED vars
    BY <2>6 DEF vars
  <2> QED
    BY <2>2, <2>3, <2>4, <2>5, <2>6 DEF Next, WorkerStep, WorkerFault
<1>2. QueueInv /\ [Next]_vars => [KeepsSettled]_vars
  BY <1>1
<1>3. Spec => [][KeepsSettled]_vars
  BY <1>2, QueueInvariant, PTL DEF Spec
<1> QED
  BY <1>3 DEF SettledStaysSettled, KeepsSettled

Overtakes ==
    \E j, k \in Jobs :
        /\ status[j] = "pending" /\ Holders(j) = {} /\ Before(j, k)
        /\ attempts'[k] > attempts[k]

(* A claim never passes over a waiting job that goes first and that no     *)
(* worker is touching.                                                     *)
THEOREM ClaimsInOrder == Spec => NoOvertaking
<1>1. ASSUME QueueInv, [Next]_vars, Overtakes PROVE FALSE
  <2> USE DEF QueueInv, TypeOK, table
  <2>1. PICK j \in Jobs, k \in Jobs :
           /\ status[j] = "pending" /\ Holders(j) = {} /\ Before(j, k)
           /\ attempts'[k] > attempts[k]
    BY <1>1 DEF Overtakes
  <2>2. ~RowLocked(j) /\ Claimable(j)
    BY <2>1 DEF RowLocked, Holders, Claimable
  <2>3. ASSUME NEW i \in Jobs, Picked(i), ClaimRow(i) PROVE FALSE
    <3>1. i = k
      BY <1>1, <2>1, <2>3 DEF ClaimRow
    <3> QED
      BY <2>1, <2>2, <2>3, <3>1 DEF Picked
  <2>4. ASSUME NEW w \in Workers, ClaimOne(w) \/ ClaimReplyLost(w) PROVE FALSE
    BY <2>3, <2>4 DEF ClaimOne, ClaimReplyLost
  <2>5. attempts'[k] = attempts[k]
    BY <1>1, <2>4 DEF Next, WorkerStep, WorkerFault, Enqueue, LeaseExpires, LeaseOverruns,
       IdlePoll, ProcessReturns, ProcessRaises, Complete, CompleteRow, CompleteRaises,
       Fail, FailRow, FailRaises, Crash, Restart, vars
  <2> QED
    BY <1>1, <2>1, <2>5
<1>2. QueueInv /\ [Next]_vars => [~Overtakes]_vars
  BY <1>1
<1>3. Spec => [][~Overtakes]_vars
  BY <1>2, QueueInvariant, PTL DEF Spec
<1>4. ~Overtakes <=> \A j, k \in Jobs :
          /\ status[j] = "pending" /\ Holders(j) = {} /\ Before(j, k)
          /\ attempts'[k] > attempts[k]
          => FALSE
  BY DEF Overtakes
<1> QED
  BY <1>3, <1>4, PTL DEF NoOvertaking

(***************************************************************************)
(* The pipeline.                                                           *)
(***************************************************************************)

(* A lead past the claim owns its payment; a lead about to be called a     *)
(* duplicate has lost it to another lead.                                  *)
Refused(j) == Row[j] # NoIdentity /\ ledger[Row[j]] \notin {NoJob, j}
Entitled(j) == Row[j] # NoIdentity => ledger[Row[j]] = j

StageInv ==
    \A w \in Workers :
        /\ stage[w] = "claim" => Row[job[w]] # NoIdentity
        /\ stage[w] \in {"image", "ocr", "verify"} => Entitled(job[w])
        /\ stage[w] = "finish" =>
              /\ outcome[w] \in Statuses
              /\ outcome[w] = "duplicate" => Refused(job[w])
              /\ outcome[w] # "duplicate" => Entitled(job[w])

BooksInv ==
    \A j \in Jobs :
        /\ results[j] = "duplicate" => Refused(j)
        /\ Counted(j) => Entitled(j)

(* What a worker is about to write to `jobs` is what it saved. *)
CompletingInv ==
    \A w \in Workers : pc[w] = "completing" =>
        /\ results[job[w]] # NoVerdict
        /\ job[w] \notin overran => result[w] = results[job[w]]

PipelineInv ==
    /\ QueueInv /\ PipelineTypeOK
    /\ StageInv /\ BooksInv /\ CompletingInv /\ DoneMatchesResult

-----------------------------------------------------------------------------
(* No verdict is mistaken for "no result yet". *)
LEMMA StatusIsVerdict == Statuses = Verdicts /\ NoVerdict \notin Statuses
BY JobQueueAssumption, PipelineAssumption

(* With no lead and an empty ledger the inductive invariant holds. *)
LEMMA InitPipelineInv == PipelineInit => PipelineInv
<1> SUFFICES ASSUME PipelineInit PROVE PipelineInv
  OBVIOUS
<1> USE PipelineAssumption, JobQueueAssumption, StatusIsVerdict DEF PipelineInit
<1>1. QueueInv
  BY InitQueueInv
<1>2. PipelineTypeOK
  BY <1>1 DEF QueueInv, PipelineTypeOK, Stage, Init
<1>3. StageInv /\ BooksInv /\ CompletingInv /\ DoneMatchesResult
  BY DEF StageInv, BooksInv, Counted, CompletingInv, DoneMatchesResult, Statuses, Init
<1> QED
  BY <1>1, <1>2, <1>3 DEF PipelineInv

(* Every step of the pipeline is, for the queue, a step of the abstract    *)
(* worker, or none.                                                        *)
LEMMA StepIsQueueStep ==
    StageInv /\ PipelineTypeOK /\ [PipelineNext]_pvars => [Next]_vars
<1> SUFFICES ASSUME StageInv, PipelineTypeOK, [PipelineNext]_pvars PROVE [Next]_vars
  OBVIOUS
<1>1. CASE QueueStep
  BY <1>1 DEF QueueStep, Next, WorkerStep, WorkerFault
<1>2. ASSUME NEW w \in Workers, StartLead(w) PROVE Next
  BY <1>2 DEF StartLead, Next, WorkerStep
<1>3. ASSUME NEW w \in Workers,
             \/ Evaluate(w) \/ ClaimIdentity(w) \/ LoadImage(w) \/ OcrClassify(w) \/ Verify(w)
      PROVE  UNCHANGED vars
  BY <1>3 DEF Evaluate, ClaimIdentity, LoadImage, OcrClassify, Verify, GoTo, FinishAs
<1>4. ASSUME NEW w \in Workers, Finish(w) PROVE Next
  <2>1. pc[w] = "processing" /\ outcome[w] \in Verdicts
    BY <1>4, StatusIsVerdict DEF Finish, StageInv, PipelineTypeOK
  <2>2. ProcessReturns(w)
    BY <1>4, <2>1 DEF Finish, ProcessReturns
  <2> QED
    BY <2>2 DEF Next, WorkerStep
<1>5. ASSUME NEW w \in Workers, LeadFault(w) PROVE Next
  BY <1>5 DEF LeadFault, StageRaises, StageReplyLost, CrashLead, Next, WorkerStep, WorkerFault
<1>6. CASE UNCHANGED pvars
  BY <1>6 DEF pvars
<1> QED
  BY <1>1, <1>2, <1>3, <1>4, <1>5, <1>6 DEF PipelineNext, LeadStep

(* Every step keeps the queue's invariant and the types. *)
LEMMA StepPipelineType ==
    PipelineInv /\ [PipelineNext]_pvars => QueueInv' /\ PipelineTypeOK'
<1> SUFFICES ASSUME PipelineInv, [PipelineNext]_pvars PROVE QueueInv' /\ PipelineTypeOK'
  OBVIOUS
<1>1. QueueInv'
  BY StepIsQueueStep, StepQueueInv DEF PipelineInv
<1>2. TypeOK /\ TypeOK' /\ HolderInv /\ PipelineTypeOK
  BY <1>1 DEF QueueInv, PipelineInv
<1> USE StatusIsVerdict, PipelineAssumption, <1>2 DEF PipelineTypeOK, Stage, books, lead
<1>3. ASSUME QueueStep PROVE PipelineTypeOK'
  BY <1>3 DEF QueueStep, Enqueue, LeaseExpires, LeaseOverruns, IdlePoll, Complete,
     CompleteRaises, Fail, FailRaises, ClaimReplyLost, Restart, Release, threads, vars, TypeOK
<1>4. ASSUME NEW w \in Workers, StartLead(w) PROVE PipelineTypeOK'
  BY <1>4 DEF StartLead, ClaimOne, TypeOK
<1>5. ASSUME NEW w \in Workers, Evaluate(w) PROVE PipelineTypeOK'
  <2>1. suspect' \in [Workers -> BOOLEAN]
    BY <1>5 DEF Evaluate, GoTo, FinishAs
  <2>2. outcome' \in [Workers -> Verdicts \cup {NoVerdict}]
    BY <1>5 DEF Evaluate, GoTo, FinishAs, Statuses
  <2>3. UNCHANGED <<vars, books>> /\ stage' \in [Workers -> Stage]
        /\ \A v \in Workers : (stage'[v] = "out") <=> (stage[v] = "out")
    BY <1>5 DEF Evaluate, GoTo, FinishAs
  <2> QED
    BY <2>1, <2>2, <2>3 DEF vars, threads
<1>6. ASSUME NEW w \in Workers, LoadImage(w) \/ OcrClassify(w) \/ Verify(w)
      PROVE  PipelineTypeOK'
  BY <1>6 DEF LoadImage, OcrClassify, Verify, GoTo, FinishAs, Statuses, vars, threads
<1>7. ASSUME NEW w \in Workers, ClaimIdentity(w) PROVE PipelineTypeOK'
  <2>1. job[w] \in Jobs /\ ledger' \in [Identities -> Jobs \cup {NoJob}]
    BY <1>7 DEF ClaimIdentity, InsertClaim, HolderInv
  <2> QED
    BY <1>7, <2>1 DEF ClaimIdentity, InsertClaim, Statuses, vars, threads
<1>8. ASSUME NEW w \in Workers, Finish(w) PROVE PipelineTypeOK'
  <2>1. job[w] \in Jobs /\ pc[w] = "processing"
    BY <1>8 DEF Finish, HolderInv
  <2> QED
    BY <1>8, <2>1 DEF Finish, SaveRow, LeaveLead, TypeOK
<1>9. ASSUME NEW w \in Workers, LeadFault(w) PROVE PipelineTypeOK'
  <2>1. stage[w] # "out" => job[w] \in Jobs
    BY DEF HolderInv
  <2>2. CASE StageRaises(w) \/ CrashLead(w)
    BY <2>2 DEF StageRaises, CrashLead, ProcessRaises, Crash, LeaveLead, TypeOK
  <2>3. CASE StageReplyLost(w)
    BY <2>1, <2>3 DEF StageReplyLost, ProcessRaises, InsertClaim, SaveRow, LeaveLead, TypeOK
  <2> QED
    BY <1>9, <2>2, <2>3 DEF LeadFault
<1>10. CASE UNCHANGED pvars
  BY <1>1, <1>10 DEF pvars, vars, threads
<1> QED
  BY <1>1, <1>3, <1>4, <1>5, <1>6, <1>7, <1>8, <1>9, <1>10 DEF PipelineNext, LeadStep

(* Only claim() writes the ledger, and only where it is empty. *)
WritesOnce == \A i \in Identities : ledger[i] # NoJob => ledger'[i] = ledger[i]

(* No step of any kind overwrites an owner. *)
LEMMA LedgerGrows == PipelineTypeOK /\ [PipelineNext]_pvars => WritesOnce
<1> SUFFICES ASSUME PipelineTypeOK, [PipelineNext]_pvars,
                    NEW i \in Identities, ledger[i] # NoJob
             PROVE  ledger'[i] = ledger[i]
  BY DEF WritesOnce
<1> USE DEF PipelineTypeOK
<1>1. ASSUME NEW w \in Workers, ClaimIdentity(w) \/ StageReplyLost(w)
      PROVE  ledger'[i] = ledger[i]
  BY <1>1 DEF ClaimIdentity, StageReplyLost, InsertClaim, SaveRow
<1>2. ASSUME NEW w \in Workers,
             \/ StartLead(w) \/ Evaluate(w) \/ LoadImage(w) \/ OcrClassify(w) \/ Verify(w)
             \/ Finish(w) \/ StageRaises(w) \/ CrashLead(w)
      PROVE  UNCHANGED ledger
  BY <1>2 DEF StartLead, Evaluate, LoadImage, OcrClassify, Verify, Finish, StageRaises,
     CrashLead, GoTo, FinishAs, SaveRow, books
<1> QED
  BY <1>1, <1>2 DEF PipelineNext, QueueStep, LeadStep, LeadFault, pvars, books

(* So what a lead has won or lost, it has won or lost for good. *)
LEMMA Stable ==
  ASSUME PipelineTypeOK, [PipelineNext]_pvars, NEW j \in Jobs
  PROVE  /\ Refused(j) => Refused(j)'
         /\ Entitled(j) => Entitled(j)'
<1>1. Row[j] # NoIdentity => Row[j] \in Identities
  BY PipelineAssumption
<1>2. WritesOnce
  BY LedgerGrows
<1> QED
  BY <1>1, <1>2, JobQueueAssumption DEF WritesOnce, Refused, Entitled

(* What one step may do to one worker: leave it where it is in             *)
(* process_lead, take it in or out, or move it on.                         *)
Holds(w) == stage'[w] = stage[w] /\ job'[w] = job[w] /\ outcome'[w] = outcome[w]

Moves(w) ==
    Evaluate(w) \/ ClaimIdentity(w) \/ LoadImage(w) \/ OcrClassify(w) \/ Verify(w)

(* A step that is not its own leaves a worker inside process_lead alone.   *)
LEMMA OneWorkerMoves ==
  ASSUME PipelineTypeOK, HolderInv, [PipelineNext]_pvars, NEW w \in Workers
  PROVE  Holds(w) \/ stage'[w] \in {"out", "dedup"} \/ Moves(w)
<1> USE DEF PipelineTypeOK, TypeOK, Holds
<1>1. ASSUME QueueStep PROVE Holds(w) \/ stage'[w] = "out"
  <2>1. stage[w] # "out" => pc[w] = "processing"
    OBVIOUS
  <2>2. stage' = stage /\ outcome' = outcome
    BY <1>1 DEF QueueStep, lead
  <2>3. pc[w] = "processing" => job'[w] = job[w]
    BY <1>1 DEF QueueStep, Enqueue, LeaseExpires, LeaseOverruns, IdlePoll, Complete, Release,
       CompleteRaises, Fail, FailRaises, ClaimReplyLost, Restart, threads, vars
  <2> QED
    BY <2>1, <2>2, <2>3
<1>2. ASSUME NEW v \in Workers, StartLead(v) PROVE Holds(w) \/ stage'[w] = "dedup"
  BY <1>2 DEF StartLead, ClaimOne
<1>3. ASSUME NEW v \in Workers, Finish(v) \/ LeadFault(v) PROVE Holds(w) \/ stage'[w] = "out"
  BY <1>3 DEF Finish, LeadFault, StageRaises, StageReplyLost, CrashLead, LeaveLead,
     ProcessRaises, Crash
<1>4. ASSUME NEW v \in Workers, v # w, Moves(v) PROVE Holds(w)
  BY <1>4 DEF Moves, Evaluate, ClaimIdentity, LoadImage, OcrClassify, Verify, GoTo, FinishAs,
     vars, threads
<1>5. ASSUME UNCHANGED pvars PROVE Holds(w)
  BY <1>5 DEF pvars, vars, threads, lead
<1> QED
  BY <1>1, <1>2, <1>3, <1>4, <1>5 DEF PipelineNext, LeadStep, Moves

StageOK(w) ==
    /\ stage[w] = "claim" => Row[job[w]] # NoIdentity
    /\ stage[w] \in {"image", "ocr", "verify"} => Entitled(job[w])
    /\ stage[w] = "finish" =>
          /\ outcome[w] \in Statuses
          /\ outcome[w] = "duplicate" => Refused(job[w])
          /\ outcome[w] # "duplicate" => Entitled(job[w])

(* Evaluate and claim give a lead the standing its later stages rely on.   *)
LEMMA StepStageInv == PipelineInv /\ [PipelineNext]_pvars => StageInv'
<1> SUFFICES ASSUME PipelineInv, [PipelineNext]_pvars, NEW w \in Workers
             PROVE  StageOK(w)'
  BY DEF StageInv, StageOK
<1>1. PipelineTypeOK /\ StageOK(w) /\ TypeOK /\ HolderInv
  BY DEF PipelineInv, QueueInv, StageInv, StageOK
<1>2. stage[w] # "out" => job[w] \in Jobs
  BY <1>1 DEF HolderInv, PipelineTypeOK
<1>3. CASE Holds(w)
  <2>1. CASE stage[w] = "out"
    BY <1>3, <2>1 DEF Holds, StageOK
  <2>2. CASE stage[w] # "out"
    <3>1. PICK j \in Jobs : j = job[w]
      BY <1>2, <2>2
    <3>2. (Refused(j) => Refused(j)') /\ (Entitled(j) => Entitled(j)')
      BY <1>1, Stable
    <3> QED
      BY <1>1, <1>3, <3>1, <3>2 DEF Holds, StageOK, Refused, Entitled
  <2> QED
    BY <2>1, <2>2
<1>4. CASE stage'[w] \in {"out", "dedup"}
  BY <1>4 DEF StageOK
<1> USE DEF PipelineTypeOK, Stage, StageOK, Statuses, vars, threads, books
<1>5. CASE Evaluate(w)
  <2>1. job' = job /\ ledger' = ledger /\ job[w] \in Jobs
    BY <1>2, <1>5 DEF Evaluate, GoTo, FinishAs
  <2>2. CASE Row[job[w]] = NoIdentity
    BY <1>1, <1>5, <2>1, <2>2, PipelineAssumption DEF Evaluate, GoTo, Entitled, Seen, Again
  <2>3. CASE Again(job[w])
    <3>1. Row[job[w]] \in Seen(job[w])
      BY <2>1, <2>3, PipelineAssumption DEF Again, Seen
    <3> QED
      BY <1>1, <1>5, <2>1, <2>3, <3>1, PipelineAssumption DEF Evaluate, FinishAs, Refused, Seen
  <2>4. CASE Row[job[w]] # NoIdentity /\ ~Again(job[w])
    BY <1>1, <1>5, <2>1, <2>4 DEF Evaluate
  <2> QED
    BY <2>2, <2>3, <2>4
<1>6. CASE ClaimIdentity(w)
  <2>1. job' = job /\ job[w] \in Jobs /\ Row[job[w]] \in Identities
    BY <1>1, <1>2, <1>6, PipelineAssumption DEF ClaimIdentity
  <2>2. ledger'[Row[job[w]]] # NoJob
    BY <1>1, <1>6, <2>1, JobQueueAssumption DEF ClaimIdentity, InsertClaim
  <2> QED
    BY <1>1, <1>6, <2>1, <2>2, PipelineAssumption DEF ClaimIdentity, Refused, Entitled
<1>7. CASE LoadImage(w) \/ OcrClassify(w) \/ Verify(w)
  BY <1>1, <1>7 DEF LoadImage, OcrClassify, Verify, GoTo, FinishAs, Entitled
<1> QED
  BY <1>1, <1>3, <1>4, <1>5, <1>6, <1>7, OneWorkerMoves DEF Moves

-----------------------------------------------------------------------------
(* A result changes only when a worker that holds the lead saves it.       *)
SavedBy(w, j) ==
    stage[w] = "finish" /\ job[w] = j /\ results'[j] = outcome[w] /\ UNCHANGED ledger

(* The upsert of _finish is the only writer of lead_results. *)
LEMMA ResultsMove ==
  ASSUME PipelineTypeOK, [PipelineNext]_pvars, NEW j \in Jobs
  PROVE  results'[j] = results[j] \/ \E w \in Workers : SavedBy(w, j)
<1> USE DEF PipelineTypeOK
<1>1. ASSUME NEW w \in Workers, Finish(w) \/ StageReplyLost(w)
      PROVE  results'[j] = results[j] \/ SavedBy(w, j)
  BY <1>1 DEF Finish, StageReplyLost, SaveRow, InsertClaim, SavedBy
<1>2. ASSUME NEW w \in Workers,
             \/ StartLead(w) \/ Evaluate(w) \/ ClaimIdentity(w) \/ LoadImage(w)
             \/ OcrClassify(w) \/ Verify(w) \/ StageRaises(w) \/ CrashLead(w)
      PROVE  UNCHANGED results
  BY <1>2 DEF StartLead, Evaluate, ClaimIdentity, LoadImage, OcrClassify, Verify, StageRaises,
     CrashLead, GoTo, FinishAs, InsertClaim, books
<1> QED
  BY <1>1, <1>2 DEF PipelineNext, QueueStep, LeadStep, LeadFault, pvars, books

(* A saved result carries the standing of its lead into lead_results. *)
LEMMA StepBooksInv == PipelineInv /\ [PipelineNext]_pvars => BooksInv'
<1> SUFFICES ASSUME PipelineInv, [PipelineNext]_pvars, NEW j \in Jobs
             PROVE  /\ results'[j] = "duplicate" => Refused(j)'
                    /\ results'[j] \notin {NoVerdict, "duplicate"} => Entitled(j)'
  BY DEF BooksInv, Counted
<1>1. (Refused(j) => Refused(j)') /\ (Entitled(j) => Entitled(j)')
  BY Stable DEF PipelineInv
<1>2. CASE results'[j] = results[j]
  BY <1>1, <1>2 DEF PipelineInv, BooksInv, Counted
<1>3. ASSUME NEW w \in Workers, SavedBy(w, j)
      PROVE  /\ results'[j] = "duplicate" => Refused(j)'
             /\ results'[j] \notin {NoVerdict, "duplicate"} => Entitled(j)'
  BY <1>1, <1>3 DEF PipelineInv, StageInv, SavedBy
<1> QED
  BY <1>2, <1>3, ResultsMove DEF PipelineInv

(* A worker that saves a lead whose lease did not overrun is alone with it, *)
(* and the row is still in progress.                                        *)
LEMMA SaverIsAlone ==
  ASSUME PipelineInv, NEW j \in Jobs \ overran, NEW w \in Workers, SavedBy(w, j)
  PROVE  /\ status[j] = "in_progress"
         /\ \A v \in Workers : pc[v] = "completing" => job[v] # j
<1>1. pc[w] = "processing" /\ job[w] = j
  BY DEF PipelineInv, PipelineTypeOK, SavedBy
<1>2. OwnRow(w)
  BY <1>1 DEF PipelineInv, QueueInv, HolderInv
<1>3. \A v \in Workers : job[v] = j => v = w
  BY <1>1 DEF PipelineInv, QueueInv, OneWorkerPerJob
<1> QED
  BY <1>1, <1>2, <1>3 DEF OwnRow

(* What process_lead saves is one of the five statuses. *)
LEMMA SavedIsResult ==
  ASSUME PipelineInv, NEW j \in Jobs, NEW w \in Workers, SavedBy(w, j)
  PROVE  results'[j] # NoVerdict
BY StatusIsVerdict DEF PipelineInv, StageInv, SavedBy

(* A lease that overran is never forgotten. *)
LEMMA OverranGrows == [Next]_vars => overran \subseteq overran'
BY DEF Next, WorkerStep, WorkerFault, Enqueue, LeaseExpires, LeaseOverruns, ClaimOne,
   ClaimReplyLost, IdlePoll, ProcessReturns, ProcessRaises, Complete, CompleteRaises, Fail,
   FailRaises, Crash, Restart, vars, history

(* The steps that bring a worker to complete(), or leave it there. *)
Completes(w) ==
    \/ /\ pc[w] = "completing"
       /\ job'[w] = job[w] /\ result'[w] = result[w]
    \/ Finish(w)

(* A worker that is about to complete a job has saved its result. *)
LEMMA StepCompletingInv == PipelineInv /\ [PipelineNext]_pvars => CompletingInv'
<1> SUFFICES ASSUME PipelineInv, [PipelineNext]_pvars,
                    NEW w \in Workers, pc'[w] = "completing"
             PROVE  /\ results'[job'[w]] # NoVerdict
                    /\ job'[w] \notin overran' => result'[w] = results'[job'[w]]
  BY DEF CompletingInv
<1>1. PipelineTypeOK /\ TypeOK /\ HolderInv /\ CompletingInv /\ StageInv
  BY DEF PipelineInv, QueueInv
<1> USE <1>1 DEF PipelineTypeOK, TypeOK
<1>2. Completes(w)
  <2> USE DEF Completes
  <2>1. ASSUME QueueStep PROVE Completes(w)
    BY <2>1 DEF QueueStep, Enqueue, LeaseExpires, LeaseOverruns, IdlePoll, Complete, Release,
       CompleteRaises, Fail, FailRaises, ClaimReplyLost, Restart, threads, vars
  <2>2. ASSUME NEW v \in Workers, StartLead(v) PROVE Completes(w)
    BY <2>2 DEF StartLead, ClaimOne
  <2>3. ASSUME NEW v \in Workers, Moves(v) PROVE Completes(w)
    BY <2>3 DEF Moves, Evaluate, ClaimIdentity, LoadImage, OcrClassify, Verify, GoTo,
       FinishAs, vars, threads
  <2>4. ASSUME NEW v \in Workers, Finish(v) PROVE Completes(w)
    BY <2>4 DEF Finish
  <2>5. ASSUME NEW v \in Workers, LeadFault(v) PROVE Completes(w)
    BY <2>5 DEF LeadFault, StageRaises, StageReplyLost, CrashLead, ProcessRaises, Crash
  <2>6. CASE UNCHANGED pvars
    BY <2>6 DEF pvars, vars, threads
  <2> QED
    BY <2>1, <2>2, <2>3, <2>4, <2>5, <2>6 DEF PipelineNext, LeadStep, Moves
<1>3. overran \subseteq overran'
  BY StepIsQueueStep, OverranGrows DEF PipelineInv
<1>4. CASE Finish(w)
  <2>1. PICK j \in Jobs : j = job[w]
    BY <1>4 DEF Finish, HolderInv
  <2>2. job'[w] = j /\ results'[j] = outcome[w] /\ result'[w] = outcome[w]
    BY <1>4, <2>1 DEF Finish, SaveRow
  <2>3. outcome[w] # NoVerdict
    BY <1>4, StatusIsVerdict DEF Finish, StageInv
  <2> QED
    BY <2>2, <2>3
<1>5. CASE pc[w] = "completing" /\ job'[w] = job[w] /\ result'[w] = result[w]
  <2>1. PICK j \in Jobs : j = job[w]
    BY <1>5 DEF HolderInv
  <2>2. /\ results[j] # NoVerdict
        /\ j \notin overran => result[w] = results[j]
    BY <1>5, <2>1 DEF CompletingInv
  <2>3. CASE results'[j] = results[j]
    BY <1>3, <1>5, <2>1, <2>2, <2>3
  <2>4. ASSUME NEW v \in Workers, SavedBy(v, j)
        PROVE  results'[j] # NoVerdict /\ j \in overran
    <3>1. results'[j] # NoVerdict
      BY <2>4, SavedIsResult
    <3>2. j \in overran
      BY <1>5, <2>1, <2>4, SaverIsAlone
    <3> QED
      BY <3>1, <3>2
  <2> QED
    BY <1>3, <1>5, <2>1, <2>3, <2>4, ResultsMove
<1> QED
  BY <1>2, <1>4, <1>5 DEF Completes

-----------------------------------------------------------------------------
(* A row becomes done, or its verdict changes, only through complete(). *)
LEMMA DoneMoves ==
  ASSUME TypeOK, [Next]_vars, NEW j \in Jobs, status'[j] = "done"
  PROVE  \/ status[j] = "done" /\ verdict'[j] = verdict[j]
         \/ \E w \in Workers :
               pc[w] = "completing" /\ job[w] = j /\ verdict'[j] = result[w]
<1> USE DEF TypeOK
<1>1. ASSUME NEW w \in Workers, Complete(w) \/ CompleteRaises(w)
      PROVE  \/ status[j] = "done" /\ verdict'[j] = verdict[j]
             \/ pc[w] = "completing" /\ job[w] = j /\ verdict'[j] = result[w]
  BY <1>1 DEF Complete, CompleteRaises, CompleteRow, table
<1>2. ASSUME NEW w \in Workers, Fail(w) \/ FailRaises(w)
      PROVE  status[j] = "done" /\ verdict'[j] = verdict[j]
  BY <1>2 DEF Fail, FailRaises, FailRow, table
<1>3. ASSUME NEW w \in Workers,
             \/ ClaimOne(w) \/ ClaimReplyLost(w) \/ IdlePoll(w) \/ ProcessReturns(w)
             \/ ProcessRaises(w) \/ Crash(w) \/ Restart(w)
      PROVE  status[j] = "done" /\ verdict'[j] = verdict[j]
  BY <1>3 DEF ClaimOne, ClaimReplyLost, ClaimRow, IdlePoll, ProcessReturns, ProcessRaises,
     Crash, Restart, table, vars
<1>4. ASSUME NEW k \in Jobs, Enqueue(k) \/ LeaseExpires(k) \/ LeaseOverruns(k)
      PROVE  status[j] = "done" /\ verdict'[j] = verdict[j]
  BY <1>4 DEF Enqueue, LeaseExpires, LeaseOverruns
<1>5. CASE UNCHANGED vars
  BY <1>5 DEF vars, table
<1> QED
  BY <1>1, <1>2, <1>3, <1>4, <1>5 DEF Next, WorkerStep, WorkerFault

(* So the row it completes, and every row completed before, has a result.  *)
LEMMA StepDoneMatches == PipelineInv /\ [PipelineNext]_pvars => DoneMatchesResult'
<1> SUFFICES ASSUME PipelineInv, [PipelineNext]_pvars,
                    NEW j \in Jobs, status'[j] = "done"
             PROVE  /\ results'[j] # NoVerdict
                    /\ j \notin overran' => verdict'[j] = results'[j]
  BY DEF DoneMatchesResult
<1>1. PipelineTypeOK /\ TypeOK /\ CompletingInv /\ StageInv /\ DoneMatchesResult
  BY DEF PipelineInv, QueueInv
<1>2. [Next]_vars /\ overran \subseteq overran'
  BY <1>1, StepIsQueueStep, OverranGrows
<1>3. ASSUME NEW w \in Workers, SavedBy(w, j)
      PROVE  results'[j] # NoVerdict /\ j \in overran
  <2>1. results'[j] # NoVerdict
    BY <1>3, SavedIsResult
  <2>2. j \notin overran =>
          /\ status[j] = "in_progress"
          /\ \A v \in Workers : pc[v] = "completing" => job[v] # j
    BY <1>3, SaverIsAlone
  <2>3. j \in overran
    BY <1>1, <1>2, <2>2, DoneMoves
  <2> QED
    BY <2>1, <2>3
<1>4. CASE results'[j] = results[j]
  <2>1. results[j] # NoVerdict /\ (j \notin overran => verdict'[j] = results[j])
    BY <1>1, <1>2, DoneMoves DEF CompletingInv, DoneMatchesResult
  <2> QED
    BY <1>2, <1>4, <2>1
<1> QED
  BY <1>1, <1>2, <1>3, <1>4, ResultsMove

(* The inductive invariant holds in every reachable state. *)
LEMMA PipelineInvariant == PipelineSpec => []PipelineInv
<1>1. PipelineInv /\ [PipelineNext]_pvars => PipelineInv'
  BY StepPipelineType, StepStageInv, StepBooksInv, StepCompletingInv, StepDoneMatches
     DEF PipelineInv
<1> QED
  BY <1>1, InitPipelineInv, PTL DEF PipelineSpec
-----------------------------------------------------------------------------
(* The tables and the stages of process_lead hold what they should.        *)
THEOREM PipelineTypeCorrect == PipelineSpec => []PipelineTypeOK
<1>1. PipelineInv => PipelineTypeOK
  BY DEF PipelineInv
<1> QED
  BY <1>1, PipelineInvariant, PTL

(* docs/system-documentation.md:33, "nothing is double-counted": a payment *)
(* is counted for one lead at most, whatever crashes, overruns or retries. *)
THEOREM NothingDoubleCounted == PipelineSpec => []OnePaymentOneLead
<1>1. PipelineInv => OnePaymentOneLead
  <2> SUFFICES ASSUME PipelineInv, NEW j \in Jobs, NEW k \in Jobs, Row[j] = Row[k],
                      Row[j] # NoIdentity, Counted(j), Counted(k)
               PROVE  j = k
    BY DEF OnePaymentOneLead
  <2>1. Entitled(j) /\ Entitled(k)
    BY DEF PipelineInv, BooksInv
  <2> QED
    BY <2>1 DEF Entitled
<1> QED
  BY <1>1, PipelineInvariant, PTL

(* pg_dedup.py:72-75: a retry never finds its own claim and calls itself a *)
(* duplicate.                                                              *)
THEOREM NeverDuplicateOfItself == PipelineSpec => []DuplicateOfAnother
<1>1. PipelineInv => DuplicateOfAnother
  BY DEF PipelineInv, BooksInv, DuplicateOfAnother, Refused
<1> QED
  BY <1>1, PipelineInvariant, PTL

(* orchestrator.py:6: no image is loaded and no model called for a payment *)
(* that another lead owns.                                                 *)
THEOREM OcrIsForTheOwner == PipelineSpec => []OcrForOwnerOnly
<1>1. PipelineInv => OcrForOwnerOnly
  BY DEF PipelineInv, StageInv, OcrForOwnerOnly, Entitled
<1> QED
  BY <1>1, PipelineInvariant, PTL

(* A job that says done has a saved result, and the same verdict as long   *)
(* as no second worker was let on to it.                                   *)
THEOREM DoneIsSaved == PipelineSpec => []DoneMatchesResult
<1>1. PipelineInv => DoneMatchesResult
  BY DEF PipelineInv
<1> QED
  BY <1>1, PipelineInvariant, PTL

(* No payment moves from one lead to another. *)
THEOREM LedgerIsWriteOnce == PipelineSpec => LedgerWriteOnce
<1>1. PipelineInv /\ [PipelineNext]_pvars =>
        [\A i \in Identities : ledger[i] # NoJob => ledger'[i] = ledger[i]]_pvars
  BY LedgerGrows DEF PipelineInv, WritesOnce
<1> QED
  BY <1>1, PipelineInvariant, PTL DEF PipelineSpec, LedgerWriteOnce

(* process_lead is a process_worker_job: what is proved above of the queue *)
(* holds of the pipeline.                                                  *)
THEOREM PipelineDrainsQueue == PipelineSpec => DrainsQueue
<1>1. PipelineInit => Init
  BY DEF PipelineInit
<1>2. PipelineInv /\ [PipelineNext]_pvars => [Next]_vars
  BY StepIsQueueStep DEF PipelineInv
<1> QED
  BY <1>1, <1>2, PipelineInvariant, PTL DEF PipelineSpec, DrainsQueue, Spec

(* The standing of every lead, as the abstract ledger sees it. *)
standings == [j \in Jobs |-> StandingOf(results[j])]

(* A saved result is, for the ledger, a Count or a Refuse. *)
LEMMA SaveIsPromised ==
  ASSUME PipelineInv, NEW w \in Workers, stage[w] = "finish", SaveRow(w)
  PROVE  Promise!Next
<1>1. PICK j \in Jobs : j = job[w]
  BY DEF PipelineInv, PipelineTypeOK, QueueInv, HolderInv
<1>2. standings' = [standings EXCEPT ![j] = StandingOf(outcome[w])] /\ UNCHANGED ledger
  BY <1>1 DEF SaveRow, standings, PipelineInv, PipelineTypeOK
<1>3. /\ outcome[w] \in Statuses
      /\ outcome[w] = "duplicate" => Refused(j)
      /\ outcome[w] # "duplicate" => Entitled(j)
  BY <1>1 DEF PipelineInv, StageInv
<1>4. CASE outcome[w] = "duplicate"
  <2>1. Promise!Refuse(j)
    BY <1>2, <1>3, <1>4, StatusIsVerdict DEF Promise!Refuse, Refused, standings, StandingOf
  <2> QED
    BY <2>1 DEF Promise!Next
<1>5. CASE outcome[w] # "duplicate"
  <2>1. Promise!Count(j)
    BY <1>2, <1>3, <1>5, StatusIsVerdict DEF Promise!Count, Entitled, standings, StandingOf
  <2> QED
    BY <2>1 DEF Promise!Next
<1> QED
  BY <1>4, <1>5

(* An INSERT of claim() is a Take, or changes nothing. *)
LEMMA ClaimIsPromised ==
  ASSUME PipelineInv, NEW w \in Workers, stage[w] = "claim", InsertClaim(job[w])
  PROVE  Promise!Next \/ UNCHANGED <<ledger, standings>>
<1>1. PICK j \in Jobs : j = job[w]
  BY DEF PipelineInv, PipelineTypeOK, QueueInv, HolderInv
<1>2. Row[j] # NoIdentity /\ Row[j] \in Identities
  BY <1>1, PipelineAssumption DEF PipelineInv, StageInv
<1>3. ledger \in [Identities -> Jobs \cup {NoJob}] /\ UNCHANGED standings
  BY DEF InsertClaim, standings, PipelineInv, PipelineTypeOK
<1>4. CASE ledger[Row[j]] = NoJob
  <2>1. Promise!Take(j)
    BY <1>1, <1>2, <1>3, <1>4 DEF InsertClaim, Promise!Take, standings
  <2> QED
    BY <2>1 DEF Promise!Next
<1>5. CASE ledger[Row[j]] # NoJob
  BY <1>1, <1>2, <1>3, <1>5 DEF InsertClaim
<1> QED
  BY <1>4, <1>5

(* The pipeline keeps the promise of PaymentLedger: each of its steps      *)
(* takes, counts or refuses, or is invisible to the ledger.                *)
THEOREM PipelineKeepsPromise == PipelineSpec => KeepsPromise
<1>1. PipelineInit => Promise!Init
  BY DEF PipelineInit, Promise!Init, StandingOf
<1>2. ASSUME PipelineInv, [PipelineNext]_pvars
      PROVE  Promise!Next \/ UNCHANGED <<ledger, standings>>
  <2>1. ASSUME NEW w \in Workers, ClaimIdentity(w) \/ Finish(w) \/ StageReplyLost(w)
        PROVE  Promise!Next \/ UNCHANGED <<ledger, standings>>
    BY <1>2, <2>1, SaveIsPromised, ClaimIsPromised DEF ClaimIdentity, Finish, StageReplyLost
  <2>2. ASSUME NEW w \in Workers,
               \/ StartLead(w) \/ Evaluate(w) \/ LoadImage(w) \/ OcrClassify(w)
               \/ Verify(w) \/ StageRaises(w) \/ CrashLead(w)
        PROVE  UNCHANGED <<ledger, results>>
    BY <2>2 DEF StartLead, Evaluate, LoadImage, OcrClassify, Verify, StageRaises, CrashLead,
       GoTo, FinishAs, books
  <2>3. UNCHANGED <<ledger, results>> => UNCHANGED <<ledger, standings>>
    BY DEF standings
  <2> QED
    BY <1>2, <2>1, <2>2, <2>3 DEF PipelineNext, QueueStep, LeadStep, LeadFault, pvars, books
<1>3. PipelineInv /\ [PipelineNext]_pvars => [Promise!Next]_<<ledger, standings>>
  BY <1>2
<1> QED
  BY <1>1, <1>3, PipelineInvariant, PTL DEF PipelineSpec, KeepsPromise, Promise!Spec, standings
=============================================================================

---------------------------- MODULE SandboxProofs ----------------------------
(***************************************************************************)
(* Proofs about Sandbox: types, what wipes leave alone, that a payment is  *)
(* counted once, that wipes are clean and that done jobs were run, for any *)
(* number of leads, workers, wipes and faults.                             *)
(***************************************************************************)
EXTENDS Sandbox, TLAPS

\* Somebody at work has a lead in hand, and a verdict by the time of the save.
HandsFull ==
    \A w \in Workers : pc[w] # "idle" =>
        hand[w] \in Hand /\ (pc[w] \in {"save", "complete"} => hand[w].verdict # "none")

\* Whoever counts the payment, or is about to say so, has the ledger's row;
\* unless a wipe met the lead in somebody's hands.
HandsCount ==
    \A w \in Workers :
        hand[w] # None /\ hand[w].verdict = "counted" /\ hand[w].lead \notin crossed
            => ledger[hand[w].test] = hand[w].lead
ResultsCount ==
    \A l \in Leads \ crossed :
        results[l] # None /\ results[l].verdict = "counted" => ledger[results[l].test] = l

\* A wipe past the results has left no test result of its leads, except those
\* written under it.
Past == {"jobs", "ledger", "reviews"}
ResultsGone ==
    \A x \in Wipers, kind \in Kinds, place \in Past : At(x, kind, place) =>
        \A l \in ids[x] \ crossed : results[l] # None => ~results[l].test

-----------------------------------------------------------------------------
(* Types.                                                                  *)

Doing  == {"idle", "evaluate", "insert", "select", "save", "complete"}
Places == {<<>>} \cup (Kinds \X {"migrate", "read", "results", "jobs", "ledger", "reviews", "sweep"})

\* Tables, workers, wipes and reviewers apart: no action touches all of them.
TablesOK == /\ jobs \in [Leads -> Job \cup {None}]
            /\ results \in [Leads -> Result \cup {None}]
            /\ ledger \in [BOOLEAN -> Leads \cup {None}]
            /\ reviews \in [Leads -> Review \cup {None}]
WorkOK   == pc \in [Workers -> Doing] /\ hand \in [Workers -> Hand \cup {None}] /\ HandsFull
WipeOK   == wpc \in [Wipers -> Places] /\ ids \in [Wipers -> SUBSET Leads]
OpenOK   == open \in [Reviewers -> Opened \cup {None}]
BoundsOK == /\ uploads \in 0 .. MaxUploads /\ runs \in 0 .. MaxRuns
            /\ wipes \in 0 .. MaxWipes /\ faults \in 0 .. MaxFaults
PastOK   == crossed \in SUBSET Leads /\ again \in SUBSET Leads /\ direct \in SUBSET Leads

PartsOK  == TablesOK /\ WorkOK /\ WipeOK /\ OpenOK /\ BoundsOK /\ PastOK

LEMMA TypesApart == SandboxTypeOK /\ HandsFull <=> PartsOK
BY DEF PartsOK, SandboxTypeOK, TablesOK, WorkOK, WipeOK, OpenOK, BoundsOK, PastOK, Doing, Places

LEMMA InitTypes == Init => PartsOK
<1> SUFFICES ASSUME Init PROVE PartsOK
  OBVIOUS
<1>1. TablesOK
  BY DEF Init, TablesOK
<1>2. WorkOK
  BY DEF Init, WorkOK, HandsFull, Doing
<1>3. WipeOK /\ OpenOK /\ BoundsOK /\ PastOK
  BY SandboxAssumption DEF Init, WipeOK, Places, OpenOK, BoundsOK, PastOK
<1> QED BY <1>1, <1>2, <1>3 DEF PartsOK

\* The hand of a worker that takes a lead, decides about it, or lets it go.
LEMMA TakeTypes ==
    ASSUME WorkOK, BoundsOK, NEW w \in Workers, NEW l \in Leads, NEW test \in BOOLEAN,
           NEW batch \in 0 .. MaxUploads, Take(w, l, test, batch)
    PROVE  WorkOK' /\ BoundsOK'
<1>1. runs' \in 1 .. MaxRuns
  BY SandboxAssumption DEF Take, BoundsOK
<1>2. [lead |-> l, test |-> test, batch |-> batch, run |-> runs', verdict |-> "none"] \in Hand
  BY <1>1 DEF Hand
<1>3. WorkOK'
  BY <1>2 DEF Take, WorkOK, HandsFull, Doing
<1>4. BoundsOK'
  BY <1>1, SandboxAssumption DEF Take, BoundsOK
<1> QED BY <1>3, <1>4

LEMMA DecidesTypes ==
    ASSUME WorkOK, NEW w \in Workers, pc[w] # "idle", NEW v \in {"counted", "duplicate"}, Decides(w, v)
    PROVE  /\ WorkOK'
           /\ \A u \in Workers : u # w => hand'[u] = hand[u]
           /\ hand'[w].verdict = v /\ hand'[w].lead = hand[w].lead /\ hand'[w].test = hand[w].test
<1>1. hand[w] \in Hand
  BY DEF WorkOK, HandsFull
<1>2. [hand[w] EXCEPT !.verdict = v] \in Hand
  BY <1>1 DEF Hand
<1>3. hand' = [hand EXCEPT ![w] = [hand[w] EXCEPT !.verdict = v]]
  BY DEF Decides
<1>4. hand'[w] = [hand[w] EXCEPT !.verdict = v] /\ \A u \in Workers : u # w => hand'[u] = hand[u]
  BY <1>3 DEF WorkOK
<1>5. hand'[w].verdict = v /\ hand'[w].lead = hand[w].lead /\ hand'[w].test = hand[w].test
  BY <1>1, <1>4 DEF Hand
<1>6. hand' \in [Workers -> Hand \cup {None}] /\ pc' \in [Workers -> Doing]
  BY <1>2, <1>3 DEF Decides, WorkOK, Doing
<1>7. HandsFull'
  <2>1. \A u \in Workers : u # w => hand'[u] = hand[u] /\ pc'[u] = pc[u]
    BY <1>4 DEF Decides, WorkOK
  <2> QED BY <1>2, <1>4, <1>5, <2>1 DEF WorkOK, HandsFull
<1> QED BY <1>4, <1>5, <1>6, <1>7 DEF WorkOK

LEMMA DropTypes ==
    ASSUME WorkOK, NEW w \in Workers,
           pc' = [pc EXCEPT ![w] = "idle"] /\ hand' = [hand EXCEPT ![w] = None]
    PROVE  WorkOK'
BY DEF WorkOK, HandsFull, Doing

LEMMA MoveTypes ==
    ASSUME WorkOK, NEW w \in Workers, NEW p \in {"insert", "select"}, pc[w] # "idle",
           pc' = [pc EXCEPT ![w] = p], UNCHANGED hand
    PROVE  WorkOK'
BY DEF WorkOK, HandsFull, Doing

LEMMA HandTypes ==
    ASSUME WorkOK, NEW w \in Workers, pc[w] # "idle"
    PROVE  /\ hand[w] # None /\ hand[w] \in Hand
           /\ hand[w].lead \in Leads /\ hand[w].test \in BOOLEAN
BY SandboxAssumption DEF WorkOK, HandsFull, Hand

\* A worker's step.
LEMMA WorkerTypes ==
    ASSUME PartsOK, NEW w \in Workers, WorkerStep(w)
    PROVE  PartsOK'
<1> USE DEF PartsOK
<1>1. ASSUME NEW l \in Leads, ClaimJob(w, l) PROVE PartsOK'
  <2>1. jobs[l] \in Job
    BY <1>1 DEF ClaimJob, TablesOK
  <2>2. [jobs[l] EXCEPT !.status = "working"] \in Job /\ jobs[l].test \in BOOLEAN
        /\ jobs[l].batch \in 0 .. MaxUploads
    BY <2>1, SandboxAssumption DEF Job
  <2>3. jobs' \in [Leads -> Job \cup {None}]
    BY <1>1, <2>2 DEF ClaimJob, TablesOK
  <2>4. WorkOK' /\ BoundsOK'
    BY <1>1, <2>2, TakeTypes DEF ClaimJob
  <2>5. TablesOK' /\ WipeOK' /\ OpenOK' /\ PastOK'
    BY <1>1, <2>3 DEF ClaimJob, Take, TablesOK, WipeOK, OpenOK, PastOK, wiper
  <2> QED BY <2>4, <2>5
<1>2. ASSUME NEW l \in Leads, VerifyNow(w, l) PROVE PartsOK'
  <2>1. 0 \in 0 .. MaxUploads
    BY SandboxAssumption
  <2>3. WorkOK' /\ BoundsOK'
    <3>1. Take(w, l, FALSE, 0)
      BY <1>2 DEF VerifyNow
    <3> QED BY <2>1, <3>1, TakeTypes
  <2>2. TablesOK' /\ WipeOK' /\ OpenOK' /\ PastOK'
    BY <1>2 DEF VerifyNow, Take, TablesOK, WipeOK, OpenOK, PastOK, wiper
  <2> QED BY <2>2, <2>3
<1>3. CASE Evaluate(w)
  <2>1. WorkOK'
    BY <1>3, DecidesTypes, MoveTypes DEF Evaluate
  <2>2. TablesOK' /\ WipeOK' /\ OpenOK' /\ BoundsOK' /\ PastOK'
    BY <1>3 DEF Evaluate, tables, wiper, bounds, history, TablesOK, WipeOK, OpenOK, BoundsOK, PastOK
  <2> QED BY <2>1, <2>2
<1>4. CASE InsertClaim(w)
  <2>1. WorkOK'
    BY <1>4, DecidesTypes, MoveTypes DEF InsertClaim
  <2>2. TablesOK' /\ PastOK'
    BY <1>4, HandTypes DEF InsertClaim, TablesOK, PastOK, Written
  <2>3. WipeOK' /\ OpenOK' /\ BoundsOK'
    BY <1>4 DEF InsertClaim, wiper, bounds, WipeOK, OpenOK, BoundsOK
  <2> QED BY <2>1, <2>2, <2>3
<1>5. CASE SelectOwner(w)
  <2>1. WorkOK'
    BY <1>5, DecidesTypes DEF SelectOwner
  <2>2. TablesOK' /\ WipeOK' /\ OpenOK' /\ BoundsOK'
    BY <1>5 DEF SelectOwner, tables, wiper, bounds, TablesOK, WipeOK, OpenOK, BoundsOK
  <2>3. PastOK'
    BY <1>5, HandTypes DEF SelectOwner, PastOK
  <2> QED BY <2>1, <2>2, <2>3
<1>6. CASE SaveResult(w)
  <2> DEFINE h == hand[w]
             r == [verdict |-> h.verdict, test |-> h.test, batch |-> h.batch, run |-> h.run]
  <2>1. h \in Hand /\ h.verdict # "none" /\ h.lead \in Leads
    BY <1>6, HandTypes DEF SaveResult, WorkOK, HandsFull
  <2>2. r \in Result
    BY <2>1 DEF Hand, Result
  <2>3. TablesOK'
    BY <1>6, <2>2 DEF SaveResult, TablesOK
  <2>4. WorkOK'
    <3>1. CASE h.batch = 0
      BY <1>6, <3>1, DropTypes DEF SaveResult
    <3>2. CASE h.batch # 0
      BY <1>6, <2>1, <3>2 DEF SaveResult, WorkOK, HandsFull, Doing
    <3> QED BY <3>1, <3>2
  <2>5. PastOK'
    BY <1>6, <2>1 DEF SaveResult, PastOK, Written
  <2>6. WipeOK' /\ OpenOK' /\ BoundsOK'
    BY <1>6 DEF SaveResult, wiper, bounds, WipeOK, OpenOK, BoundsOK
  <2> QED BY <2>3, <2>4, <2>5, <2>6
<1>7. CASE CompleteJob(w)
  <2>1. WorkOK'
    BY <1>7, DropTypes DEF CompleteJob
  <2>2. jobs' \in [Leads -> Job \cup {None}]
    <3> DEFINE l == hand[w].lead
    <3>1. CASE jobs[l] = None
      BY <1>7, <3>1 DEF CompleteJob, TablesOK
    <3>2. CASE jobs[l] # None
      <4>1. l \in Leads /\ jobs[l] \in Job
        BY <1>7, <3>2, HandTypes DEF CompleteJob, TablesOK
      <4>2. [jobs[l] EXCEPT !.status = "done"] \in Job
        BY <4>1 DEF Job
      <4> QED BY <1>7, <3>2, <4>1, <4>2 DEF CompleteJob, TablesOK
    <3> QED BY <3>1, <3>2
  <2>3. TablesOK' /\ WipeOK' /\ OpenOK' /\ BoundsOK' /\ PastOK'
    BY <1>7, <2>2 DEF CompleteJob, wiper, bounds, history, TablesOK, WipeOK, OpenOK, BoundsOK, PastOK
  <2> QED BY <2>1, <2>3
<1>8. CASE Dies(w)
  <2>1. WorkOK'
    BY <1>8, DropTypes DEF Dies
  <2>2. TablesOK' /\ WipeOK' /\ OpenOK' /\ BoundsOK' /\ PastOK'
    BY <1>8, SandboxAssumption DEF Dies, tables, wiper, history, TablesOK, WipeOK, OpenOK, BoundsOK, PastOK
  <2> QED BY <2>1, <2>2
<1> QED BY <1>1, <1>2, <1>3, <1>4, <1>5, <1>6, <1>7, <1>8 DEF WorkerStep

\* An upload and a review.
LEMMA PeopleTypes ==
    ASSUME PartsOK,
           \/ \E l \in Leads, test \in BOOLEAN : Enqueue(l, test)
           \/ \E v \in Reviewers : SaveReview(v) \/ \E l \in Leads : OpenLead(v, l)
    PROVE  PartsOK'
<1> USE DEF PartsOK
<1>1. ASSUME NEW l \in Leads, NEW test \in BOOLEAN, Enqueue(l, test) PROVE PartsOK'
  <2>1. uploads' \in 1 .. MaxUploads
    BY <1>1, SandboxAssumption DEF Enqueue, BoundsOK
  <2>2. [status |-> "pending", test |-> test, batch |-> uploads'] \in Job
    BY <2>1 DEF Job
  <2>3. TablesOK' /\ PastOK'
    BY <1>1, <2>2 DEF Enqueue, TablesOK, PastOK, Written
  <2>4. BoundsOK'
    BY <1>1, <2>1, SandboxAssumption DEF Enqueue, BoundsOK
  <2>5. WorkOK' /\ WipeOK' /\ OpenOK'
    BY <1>1 DEF Enqueue, worker, wiper, WorkOK, HandsFull, WipeOK, OpenOK
  <2> QED BY <2>3, <2>4, <2>5
<1>2. ASSUME NEW v \in Reviewers, SaveReview(v) PROVE PartsOK'
  <2>1. open[v] \in Opened /\ open[v].lead \in Leads
    BY <1>2 DEF SaveReview, OpenOK, Opened
  <2>2. [run |-> open[v].run, test |-> open[v].test] \in Review
    BY <2>1 DEF Opened, Review
  <2>3. TablesOK' /\ PastOK' /\ OpenOK'
    BY <1>2, <2>1, <2>2 DEF SaveReview, TablesOK, PastOK, OpenOK, Written
  <2>4. WorkOK' /\ WipeOK' /\ BoundsOK'
    BY <1>2 DEF SaveReview, worker, wiper, bounds, WorkOK, HandsFull, WipeOK, BoundsOK
  <2> QED BY <2>3, <2>4
<1>3. ASSUME NEW v \in Reviewers, NEW l \in Leads, OpenLead(v, l) PROVE PartsOK'
  <2>1. results[l] \in Result
    BY <1>3 DEF OpenLead, TablesOK
  <2>2. [lead |-> l, run |-> results[l].run, test |-> results[l].test] \in Opened
    BY <2>1 DEF Result, Opened
  <2>3. OpenOK'
    BY <1>3, <2>2 DEF OpenLead, OpenOK
  <2>4. TablesOK' /\ PastOK' /\ WorkOK' /\ WipeOK' /\ BoundsOK'
    BY <1>3 DEF OpenLead, tables, worker, wiper, bounds, history, TablesOK, PastOK,
                WorkOK, HandsFull, WipeOK, BoundsOK
  <2> QED BY <2>3, <2>4
<1> QED BY <1>1, <1>2, <1>3

-----------------------------------------------------------------------------
(* Wipes.                                                                  *)

\* What wipes never touch.
WipeFrame == UNCHANGED <<worker, open, uploads, runs>>

LEMMA WipeApart ==
    ASSUME PartsOK, WipeFrame, TablesOK', WipeOK', PastOK', wipes' \in 0 .. MaxWipes,
           faults' \in 0 .. MaxFaults
    PROVE  PartsOK'
BY DEF WipeFrame, worker, PartsOK, WorkOK, HandsFull, OpenOK, BoundsOK

\* Places follow each other within the places.
LEMMA StepTypes ==
    ASSUME WipeOK, NEW x \in Wipers, NEW kind \in Kinds,
           NEW place \in {"results", "jobs", "ledger", "reviews"}, Step(x, kind, place)
    PROVE  WipeOK'
<1>1. After(kind, place) \in {"results", "jobs", "ledger", "reviews", "sweep"}
  BY DEF After
<1>2. <<kind, After(kind, place)>> \in Places /\ <<>> \in Places
  BY <1>1 DEF Places
<1> QED BY <1>2 DEF Step, Goto, Leave, WipeOK

\* What a deletion leaves of a table.
LEMMA DeletedRows ==
    ASSUME NEW x \in Wipers, NEW rows
    PROVE  \A l \in Leads :
             /\ Deleted(x, rows)[l] \in {rows[l], None}
             /\ rows[l] # None /\ ~rows[l].test => Deleted(x, rows)[l] = rows[l]
             /\ l \in ids[x] /\ Deleted(x, rows)[l] # None => ~Deleted(x, rows)[l].test
BY DEF Deleted, Doomed

LEMMA CrossingOK ==
    ASSUME PastOK, NEW ls \in SUBSET Leads
    PROVE  Crossing(ls) \in SUBSET Leads /\ crossed \subseteq Crossing(ls)
BY DEF PastOK, Crossing

LEMMA WipeTypes ==
    ASSUME PartsOK, NEW x \in Wipers, WipeStep(x)
    PROVE  PartsOK' /\ WipeFrame
<1>0. ids[x] \in SUBSET Leads /\ All \in Kinds /\ Boots \in Kinds
  BY SandboxAssumption DEF PartsOK, WipeOK, Kinds, All, Boots
<1> DEFINE Same == wipes' = wipes /\ faults' = faults
<1>s. Same => wipes' \in 0 .. MaxWipes /\ faults' \in 0 .. MaxFaults
  BY DEF PartsOK, BoundsOK
<1>1. ASSUME StartWipe(x), NEW place \in {"results", "migrate"}, NEW kind \in Kinds,
             wpc' = [wpc EXCEPT ![x] = <<kind, place>>], NEW ls \in SUBSET Leads,
             ids' = ids \/ ids' = [ids EXCEPT ![x] = ls]
      PROVE PartsOK' /\ WipeFrame
  <2>1. WipeFrame /\ wipes' \in 0 .. MaxWipes /\ faults' \in 0 .. MaxFaults
    BY <1>1, SandboxAssumption DEF StartWipe, WipeFrame, PartsOK, BoundsOK
  <2>2. TablesOK' /\ PastOK'
    BY <1>1 DEF StartWipe, tables, history, PartsOK, TablesOK, PastOK
  <2>3. WipeOK'
    BY <1>1 DEF PartsOK, WipeOK, Places
  <2> QED BY <2>1, <2>2, <2>3, WipeApart
<1>2. CASE ClearAll(x)
  BY <1>0, <1>1, <1>2 DEF ClearAll, Goto
<1>3. ASSUME NEW b \in 1 .. MaxUploads, ClearBatch(x, b) PROVE PartsOK' /\ WipeFrame
  <2> DEFINE ls == {l \in Leads : jobs[l] # None /\ jobs[l].test /\ jobs[l].batch = b}
  <2>1. b \in Kinds /\ ls \in SUBSET Leads
    BY SandboxAssumption DEF Kinds, All, Boots
  <2>2. StartWipe(x) /\ wpc' = [wpc EXCEPT ![x] = <<b, "results">>] /\ ids' = [ids EXCEPT ![x] = ls]
    BY <1>3 DEF ClearBatch, Goto
  <2> HIDE DEF ls
  <2> QED BY <1>1, <2>1, <2>2
<1>4. CASE Boot(x)
  BY <1>0, <1>1, <1>4 DEF Boot, Goto
<1>5. CASE Migrate(x)
  <2>1. WipeFrame /\ Same
    BY <1>5 DEF Migrate, WipeFrame, bounds
  <2>2. ASSUME NEW l \in Leads, reviews[l] # None, results[l] # None
        PROVE  [reviews[l] EXCEPT !.test = results[l].test] \in Review
    BY <2>2 DEF PartsOK, TablesOK, Review, Result
  <2>3. TablesOK'
    BY <1>5, <2>2 DEF Migrate, PartsOK, TablesOK
  <2>4. WipeOK' /\ PastOK'
    BY <1>0, <1>5 DEF Migrate, Goto, PartsOK, WipeOK, Places, PastOK
  <2> QED BY <1>s, <2>1, <2>3, <2>4, WipeApart
<1>6. CASE ReadExpired(x)
  <2>1. WipeFrame /\ Same
    BY <1>6 DEF ReadExpired, WipeFrame, bounds
  <2>2. WipeOK'
    BY <1>0, <1>6 DEF ReadExpired, Goto, PartsOK, WipeOK, Places
  <2>3. TablesOK' /\ PastOK'
    BY <1>6 DEF ReadExpired, tables, history, PartsOK, TablesOK, PastOK
  <2> QED BY <1>s, <2>1, <2>2, <2>3, WipeApart
<1>7. CASE SweepOrphans(x)
  <2>1. WipeFrame /\ Same
    BY <1>7 DEF SweepOrphans, WipeFrame, bounds
  <2>2. TablesOK' /\ PastOK'
    BY <1>7 DEF SweepOrphans, history, PartsOK, TablesOK, PastOK
  <2>3. WipeOK'
    BY <1>7 DEF SweepOrphans, Leave, PartsOK, WipeOK, Places
  <2> QED BY <1>s, <2>1, <2>2, <2>3, WipeApart
<1>8. CASE WipeBreaks(x)
  <2>1. WipeFrame /\ wipes' \in 0 .. MaxWipes /\ faults' \in 0 .. MaxFaults
    BY <1>8, SandboxAssumption DEF WipeBreaks, WipeFrame, PartsOK, BoundsOK
  <2>2. TablesOK' /\ PastOK'
    BY <1>0, <1>8 DEF WipeBreaks, tables, PartsOK, TablesOK, PastOK
  <2>3. WipeOK'
    BY <1>8 DEF WipeBreaks, Leave, PartsOK, WipeOK, Places
  <2> QED BY <2>1, <2>2, <2>3, WipeApart
<1>9. ASSUME NEW kind \in Kinds, DeleteStep(x, kind) PROVE PartsOK' /\ WipeFrame
  <2>1. WipeFrame /\ Same
    BY <1>9 DEF DeleteStep, WipeResults, WipeJobs, WipeLedger, WipeReviews, WipeFrame, bounds
  <2>2. WipeOK'
    BY <1>9, StepTypes DEF DeleteStep, WipeResults, WipeJobs, WipeLedger, WipeReviews, PartsOK
  <2>3. crossed' = Crossing(ids[x]) /\ UNCHANGED <<again, direct>>
    BY <1>9 DEF DeleteStep, WipeResults, WipeJobs, WipeLedger, WipeReviews
  <2>4. PastOK'
    BY <1>0, <2>3, CrossingOK DEF PartsOK, PastOK
  <2>5. jobs' \in [Leads -> Job \cup {None}]
    BY <1>9 DEF DeleteStep, WipeResults, WipeJobs, WipeLedger, WipeReviews, Deleted, PartsOK, TablesOK
  <2>6. results' \in [Leads -> Result \cup {None}]
    BY <1>9 DEF DeleteStep, WipeResults, WipeJobs, WipeLedger, WipeReviews, Deleted, PartsOK, TablesOK
  <2>7. reviews' \in [Leads -> Review \cup {None}]
    BY <1>9 DEF DeleteStep, WipeResults, WipeJobs, WipeLedger, WipeReviews, Deleted, PartsOK, TablesOK
  <2>8. ledger' \in [BOOLEAN -> Leads \cup {None}]
    BY <1>9 DEF DeleteStep, WipeResults, WipeJobs, WipeLedger, WipeReviews, PartsOK, TablesOK
  <2> QED BY <1>s, <2>1, <2>2, <2>4, <2>5, <2>6, <2>7, <2>8, WipeApart DEF TablesOK
<1> QED BY <1>2, <1>3, <1>4, <1>5, <1>6, <1>7, <1>8, <1>9 DEF WipeStep

LEMMA StepKeepsTypes == PartsOK /\ [Next]_vars => PartsOK'
<1>1. PartsOK /\ Next => PartsOK'
  BY WorkerTypes, PeopleTypes, WipeTypes DEF Next
<1>2. PartsOK /\ UNCHANGED vars => PartsOK'
  BY DEF vars, tables, worker, wiper, bounds, history, PartsOK, TablesOK, WorkOK, HandsFull,
         WipeOK, OpenOK, BoundsOK, PastOK
<1> QED BY <1>1, <1>2

\* Every table, hand and wipe keeps its type (db/pg.py:299-372, pipeline/jobs.py:119-187).
THEOREM SandboxTypes == Spec => []SandboxTypeOK
<1>1. PartsOK => SandboxTypeOK
  BY TypesApart
<1> QED BY <1>1, InitTypes, StepKeepsTypes, PTL DEF Spec

-----------------------------------------------------------------------------
(* What wipes leave alone.                                                 *)

\* A step of one wipe, or of nobody that moves a wipe.
LEMMA DeletesOnlyTests ==
    ASSUME PartsOK, NEW x \in Wipers, WipeStep(x)
    PROVE  /\ ledger'[FALSE] = ledger[FALSE]
           /\ \A l \in Leads : /\ jobs[l] # None /\ ~jobs[l].test => jobs'[l] # None
                               /\ results[l] # None /\ ~results[l].test => results'[l] # None
<1>1. CASE UNCHANGED <<jobs, results, ledger>>
  BY <1>1
<1>2. ASSUME NEW kind \in Kinds, DeleteStep(x, kind)
      PROVE  /\ ledger'[FALSE] = ledger[FALSE]
             /\ \A l \in Leads : /\ jobs[l] # None /\ ~jobs[l].test => jobs'[l] # None
                                 /\ results[l] # None /\ ~results[l].test => results'[l] # None
  <2>1. ledger'[FALSE] = ledger[FALSE]
    BY <1>2 DEF DeleteStep, WipeResults, WipeJobs, WipeLedger, WipeReviews, PartsOK, TablesOK
  <2>2. ASSUME NEW l \in Leads, jobs[l] # None, ~jobs[l].test PROVE jobs'[l] # None
    BY <1>2, <2>2 DEF DeleteStep, WipeResults, WipeJobs, WipeLedger, WipeReviews, Deleted, Doomed
  <2>3. ASSUME NEW l \in Leads, results[l] # None, ~results[l].test PROVE results'[l] # None
    BY <1>2, <2>3 DEF DeleteStep, WipeResults, WipeJobs, WipeLedger, WipeReviews, Deleted, Doomed
  <2> QED BY <2>1, <2>2, <2>3
<1>3. ClearAll(x) \/ (\E b \in 1 .. MaxUploads : ClearBatch(x, b)) \/ Boot(x) \/ Migrate(x)
        \/ ReadExpired(x) \/ SweepOrphans(x) \/ WipeBreaks(x)
      => UNCHANGED <<jobs, results, ledger>>
  BY DEF ClearAll, ClearBatch, Boot, StartWipe, Migrate, ReadExpired, SweepOrphans, WipeBreaks, tables
<1> QED BY <1>1, <1>2, <1>3 DEF WipeStep

LEMMA OthersLeaveWipes ==
    (\/ \E l \in Leads, test \in BOOLEAN : Enqueue(l, test)
     \/ \E w \in Workers : WorkerStep(w)
     \/ \E v \in Reviewers : SaveReview(v) \/ \E l \in Leads : OpenLead(v, l))
    => UNCHANGED wiper
BY DEF Enqueue, WorkerStep, ClaimJob, VerifyNow, Take, Evaluate, InsertClaim, SelectOwner, SaveResult,
       CompleteJob, Dies, SaveReview, OpenLead

\* Deleting test data deletes no real job, result or claim (db/pg.py:299-338),
\* whatever is uploaded meanwhile.
THEOREM RealRowsSafe == Spec => RealRowsStay
<1> DEFINE Stay == \A x \in Wipers : wpc[x] # wpc'[x] =>
          /\ ledger'[FALSE] = ledger[FALSE]
          /\ \A l \in Leads : /\ jobs[l] # None /\ ~jobs[l].test => jobs'[l] # None
                              /\ results[l] # None /\ ~results[l].test => results'[l] # None
<1>1. PartsOK /\ [Next]_vars => [Stay]_vars
  <2>1. PartsOK /\ (\E x \in Wipers : WipeStep(x)) => Stay
    BY DeletesOnlyTests
  <2>2. UNCHANGED wiper => Stay
    BY DEF wiper
  <2> QED BY <2>1, <2>2, OthersLeaveWipes DEF Next
<1>2. PartsOK /\ [Next]_vars => PartsOK'
  BY StepKeepsTypes
<1>3. Init => PartsOK
  BY InitTypes
<1> QED BY <1>1, <1>2, <1>3, PTL DEF Spec, RealRowsStay

-----------------------------------------------------------------------------
(* One payment is counted once.                                            *)

CountInv == PartsOK /\ HandsCount /\ ResultsCount /\ ResultsGone

\* What a lead is called is what the ledger says: two leads cannot both be
\* right.
LEMMA CountsApart == CountInv => CountedOnce
<1> SUFFICES ASSUME CountInv, NEW k \in Leads \ crossed, NEW l \in Leads \ crossed,
                    results[k] # None, results[l] # None, k # l,
                    results[k].verdict = "counted", results[l].verdict = "counted",
                    results[k].test = results[l].test
             PROVE  FALSE
  BY DEF CountedOnce
<1>1. ledger[results[k].test] = k /\ ledger[results[l].test] = l
  BY DEF CountInv, ResultsCount
<1> QED BY <1>1

LEMMA InitCounts == Init => HandsCount /\ ResultsCount /\ ResultsGone
BY DEF Init, HandsCount, ResultsCount, ResultsGone, At

\* Nothing is counted that the ledger, the hands and the results did not say
\* before.
LEMMA QuietCounts ==
    ASSUME CountInv, UNCHANGED <<results, ledger, wiper, hand>>, crossed \subseteq crossed'
    PROVE  HandsCount' /\ ResultsCount' /\ ResultsGone'
BY DEF CountInv, HandsCount, ResultsCount, ResultsGone, At, wiper

\* Nor by a worker that takes or lets go of a lead.
LEMMA FreshCounts ==
    ASSUME CountInv, NEW w \in Workers, UNCHANGED <<results, ledger, wiper>>, crossed \subseteq crossed',
           NEW h, hand' = [hand EXCEPT ![w] = h], h = None \/ h.verdict # "counted"
    PROVE  HandsCount' /\ ResultsCount' /\ ResultsGone'
<1>1. \A u \in Workers : hand'[u] = hand[u] \/ hand'[u] = h
  BY DEF CountInv, PartsOK, WorkOK
<1>2. HandsCount'
  BY <1>1 DEF CountInv, HandsCount
<1> QED BY <1>2 DEF CountInv, ResultsCount, ResultsGone, At, wiper

LEMMA WorkerCounts ==
    ASSUME CountInv, NEW w \in Workers, WorkerStep(w)
    PROVE  HandsCount' /\ ResultsCount' /\ ResultsGone'
<1>0. PartsOK
  BY DEF CountInv
<1>t. pc[w] # "idle" => hand[w] # None /\ hand[w] \in Hand /\ hand[w].lead \in Leads /\ hand[w].test \in BOOLEAN
  BY <1>0, HandTypes DEF PartsOK
<1>1. ASSUME NEW l \in Leads, ClaimJob(w, l) \/ VerifyNow(w, l)
      PROVE HandsCount' /\ ResultsCount' /\ ResultsGone'
  <2>1. PICK test, batch : Take(w, l, test, batch) /\ UNCHANGED <<results, ledger>>
    BY <1>1 DEF ClaimJob, VerifyNow, Take
  <2>2. [lead |-> l, test |-> test, batch |-> batch, run |-> runs', verdict |-> "none"].verdict # "counted"
    OBVIOUS
  <2> QED BY <2>1, <2>2, FreshCounts DEF Take
<1>2. ASSUME NEW v \in {"counted", "duplicate"}, pc[w] # "idle", Decides(w, v),
             UNCHANGED <<results, wiper>>, crossed \subseteq crossed',
             \A t \in BOOLEAN : ledger[t] # None => ledger'[t] = ledger[t],
             v = "counted" => ledger'[hand[w].test] = hand[w].lead \/ hand[w].lead \in crossed'
      PROVE HandsCount' /\ ResultsCount' /\ ResultsGone'
  <2>1. /\ \A u \in Workers : u # w => hand'[u] = hand[u]
        /\ hand'[w].verdict = v /\ hand'[w].lead = hand[w].lead /\ hand'[w].test = hand[w].test
    BY <1>0, <1>2, DecidesTypes DEF PartsOK
  <2>2. ASSUME NEW u \in Workers, u # w, hand[u] # None PROVE hand[u].test \in BOOLEAN /\ hand[u].lead # None
    BY <1>0, <2>2, SandboxAssumption DEF PartsOK, WorkOK, Hand
  <2>3. HandsCount'
    BY <1>2, <2>1, <2>2 DEF CountInv, HandsCount
  <2>4. \A l \in Leads : results[l] # None => results[l].test \in BOOLEAN /\ l # None
    BY <1>0, SandboxAssumption DEF PartsOK, TablesOK, Result
  <2>5. ResultsCount'
    BY <1>2, <2>4 DEF CountInv, ResultsCount
  <2>6. ResultsGone'
    BY <1>2 DEF CountInv, ResultsGone, At, wiper
  <2> QED BY <2>3, <2>5, <2>6
<1>3. CASE Evaluate(w)
  <2>1. CASE Decides(w, "duplicate")
    BY <1>2, <1>3, <2>1 DEF Evaluate, tables, history
  <2>2. CASE UNCHANGED hand
    BY <1>3, <2>2, QuietCounts DEF Evaluate, tables, history
  <2> QED BY <1>3, <2>1, <2>2 DEF Evaluate
<1>4. CASE InsertClaim(w)
  <2>0. crossed \subseteq crossed'
    BY <1>4 DEF InsertClaim, Written
  <2>1. CASE ledger[hand[w].test] = None
    <3>1. ledger' = [ledger EXCEPT ![hand[w].test] = hand[w].lead] /\ Decides(w, "counted") /\ pc[w] # "idle"
      BY <1>4, <2>1 DEF InsertClaim
    <3>2. ledger'[hand[w].test] = hand[w].lead /\ \A t \in BOOLEAN : ledger[t] # None => ledger'[t] = ledger[t]
      BY <1>0, <1>t, <2>1, <3>1 DEF PartsOK, TablesOK
    <3> QED BY <1>2, <1>4, <2>0, <3>1, <3>2 DEF InsertClaim
  <2>2. CASE ledger[hand[w].test] # None
    BY <1>4, <2>0, <2>2, QuietCounts DEF InsertClaim
  <2> QED BY <2>1, <2>2
<1>5. CASE SelectOwner(w)
  <2> DEFINE owner == ledger[hand[w].test]
             v     == IF owner \in {None, hand[w].lead} THEN "counted" ELSE "duplicate"
  <2>1. Decides(w, v) /\ pc[w] # "idle" /\ UNCHANGED <<results, ledger, wiper>>
    BY <1>5 DEF SelectOwner, tables
  <2>2. crossed' = IF owner = None THEN crossed \cup {hand[w].lead} ELSE crossed
    BY <1>5 DEF SelectOwner
  <2>3. v \in {"counted", "duplicate"}
    OBVIOUS
  <2>4. v = "counted" => ledger'[hand[w].test] = hand[w].lead \/ hand[w].lead \in crossed'
    BY <2>1, <2>2
  <2>5. crossed \subseteq crossed'
    BY <2>2
  <2> HIDE DEF v
  <2> QED BY <1>2, <2>1, <2>3, <2>4, <2>5
<1>6. CASE SaveResult(w)
  <2> DEFINE h == hand[w]
             r == [verdict |-> h.verdict, test |-> h.test, batch |-> h.batch, run |-> h.run]
  <2>0. pc[w] # "idle" /\ UNCHANGED <<ledger, wiper>> /\ crossed' = Written(h.lead, h.test)
        /\ results' = [results EXCEPT ![h.lead] = r]
    BY <1>6 DEF SaveResult
  <2>1. crossed \subseteq crossed'
    BY <2>0 DEF Written
  <2>2. \A u \in Workers : hand'[u] \in {hand[u], None}
    BY <1>0, <1>6 DEF SaveResult, PartsOK, WorkOK
  <2>3. HandsCount'
    BY <2>0, <2>1, <2>2 DEF CountInv, HandsCount
  <2>4. \A l \in Leads : l # h.lead => results'[l] = results[l]
    BY <1>0, <2>0 DEF PartsOK, TablesOK
  <2>5. results'[h.lead] = r /\ r.verdict = h.verdict /\ r.test = h.test
    BY <1>0, <1>t, <2>0 DEF PartsOK, TablesOK
  <2>6. ResultsCount'
    <3>1. h.lead \notin crossed /\ h.verdict = "counted" => ledger[h.test] = h.lead
      BY <1>t, <2>0 DEF CountInv, HandsCount
    <3> QED BY <2>0, <2>1, <2>4, <2>5, <3>1 DEF CountInv, ResultsCount
  <2>7. ResultsGone'
    <3> SUFFICES ASSUME NEW x \in Wipers, NEW kind \in Kinds, NEW place \in Past, At(x, kind, place)',
                        NEW l \in ids'[x] \ crossed', results'[l] # None
                 PROVE  ~results'[l].test
      BY DEF ResultsGone
    <3>1. At(x, kind, place) /\ l \in ids[x] \ crossed /\ l \in Leads
      BY <1>0, <2>0, <2>1 DEF At, wiper, PartsOK, WipeOK
    <3>2. CASE l # h.lead
      BY <2>4, <3>1, <3>2 DEF CountInv, ResultsGone
    <3>3. CASE l = h.lead
      <4>1. Covered(l)
        BY <3>1 DEF At, Covered, Wiping
      <4>2. ~h.test
        BY <2>0, <3>3, <4>1 DEF Written
      <4> QED BY <2>5, <3>3, <4>2
    <3> QED BY <3>2, <3>3
  <2> QED BY <2>3, <2>6, <2>7
<1>7. CASE CompleteJob(w) \/ Dies(w)
  <2>1. UNCHANGED <<results, ledger, wiper>> /\ crossed \subseteq crossed' /\ hand' = [hand EXCEPT ![w] = None]
    BY <1>7 DEF CompleteJob, Dies, tables, history
  <2> QED BY <2>1, FreshCounts
<1> QED BY <1>1, <1>3, <1>4, <1>5, <1>6, <1>7 DEF WorkerStep

LEMMA PeopleCounts ==
    ASSUME CountInv,
           \/ \E l \in Leads, test \in BOOLEAN : Enqueue(l, test)
           \/ \E v \in Reviewers : SaveReview(v) \/ \E l \in Leads : OpenLead(v, l)
    PROVE  HandsCount' /\ ResultsCount' /\ ResultsGone'
<1>1. UNCHANGED <<results, ledger, wiper, hand>> /\ crossed \subseteq crossed'
  BY DEF Enqueue, SaveReview, OpenLead, tables, worker, history, Written
<1> QED BY <1>1, QuietCounts

\* A wipe forgets a claim only after the results that counted on it.
LEMMA DeleteCounts ==
    ASSUME CountInv, NEW x \in Wipers, NEW kind \in Kinds, DeleteStep(x, kind)
    PROVE  HandsCount' /\ ResultsCount' /\ ResultsGone'
<1>0. PartsOK /\ PartsOK' /\ hand' = hand
  <2>1. WipeStep(x)
    BY DEF WipeStep
  <2> QED BY <2>1, WipeTypes DEF CountInv, WipeFrame, worker
<1>1. crossed' = Crossing(ids[x]) /\ crossed \subseteq crossed'
  BY DEF DeleteStep, WipeResults, WipeJobs, WipeLedger, WipeReviews, Crossing
<1>2. \A t \in BOOLEAN : ledger'[t] = ledger[t] \/ (t = TRUE /\ ledger[t] \in ids[x] /\ At(x, kind, "ledger"))
  BY <1>0 DEF DeleteStep, WipeResults, WipeJobs, WipeLedger, WipeReviews, PartsOK, TablesOK
<1>3. \A l \in Leads : results'[l] # None => results'[l] = results[l]
  BY DEF DeleteStep, WipeResults, WipeJobs, WipeLedger, WipeReviews, Deleted
<1>4. HandsCount'
  <2> SUFFICES ASSUME NEW w \in Workers, hand[w] # None, hand[w].verdict = "counted",
                      hand[w].lead \notin crossed'
               PROVE  ledger'[hand[w].test] = hand[w].lead
    BY <1>0 DEF HandsCount
  <2>1. ledger[hand[w].test] = hand[w].lead /\ hand[w].test \in BOOLEAN
    BY <1>0, <1>1 DEF CountInv, HandsCount, PartsOK, WorkOK, Hand
  <2>2. hand[w].lead \notin ids[x]
    BY <1>1 DEF Crossing, InHands
  <2> QED BY <1>2, <2>1, <2>2
<1>5. ResultsCount'
  <2> SUFFICES ASSUME NEW l \in Leads \ crossed', results'[l] # None, results'[l].verdict = "counted"
               PROVE  ledger'[results'[l].test] = l
    BY DEF ResultsCount
  <2>1. results'[l] = results[l] /\ ledger[results[l].test] = l /\ results[l].test \in BOOLEAN
    BY <1>0, <1>1, <1>3 DEF CountInv, ResultsCount, PartsOK, TablesOK, Result
  <2>2. ~(results[l].test = TRUE /\ l \in ids[x] /\ At(x, kind, "ledger"))
    BY <1>1, <1>3 DEF CountInv, ResultsGone, Past
  <2> QED BY <1>2, <2>1, <2>2
<1>6. ResultsGone'
  <2> SUFFICES ASSUME NEW y \in Wipers, NEW k \in Kinds, NEW place \in Past, At(y, k, place)',
                      NEW l \in ids'[y] \ crossed', results'[l] # None
               PROVE  ~results'[l].test
    BY DEF ResultsGone
  <2>1. l \in Leads /\ results'[l] = results[l]
    BY <1>0, <1>3 DEF PartsOK, WipeOK
  <2>2. ASSUME y # x PROVE At(y, k, place) /\ l \in ids[y] \ crossed
    <3>1. wpc'[y] = wpc[y] /\ ids'[y] = ids[y]
      BY <1>0, <2>2 DEF DeleteStep, WipeResults, WipeJobs, WipeLedger, WipeReviews, Step, Goto, Leave,
                        PartsOK, WipeOK
    <3> QED BY <1>1, <3>1 DEF At
  <2>3. ASSUME y = x PROVE l \in ids[x]
    BY <1>0, <2>3 DEF DeleteStep, WipeResults, WipeJobs, WipeLedger, WipeReviews, Step, Goto, Leave,
                      PartsOK, WipeOK
  <2>4. CASE y = x /\ WipeResults(x, kind)
    BY <2>1, <2>3, <2>4, DeletedRows DEF WipeResults
  <2>5. CASE y = x /\ ~WipeResults(x, kind)
    <3>1. At(x, kind, "jobs") \/ At(x, kind, "ledger") \/ At(x, kind, "reviews")
      BY <2>5 DEF DeleteStep, WipeJobs, WipeLedger, WipeReviews
    <3> QED BY <1>1, <2>1, <2>3, <2>5, <3>1 DEF CountInv, ResultsGone, Past
  <2> QED BY <2>1, <2>2, <2>4, <2>5 DEF CountInv, ResultsGone
<1> QED BY <1>4, <1>5, <1>6

LEMMA WipeCounts ==
    ASSUME CountInv, NEW x \in Wipers, WipeStep(x)
    PROVE  HandsCount' /\ ResultsCount' /\ ResultsGone'
<1>0. PartsOK /\ PartsOK' /\ hand' = hand
  BY WipeTypes DEF CountInv, WipeFrame, worker
<1>1. CASE \E kind \in Kinds : DeleteStep(x, kind)
  BY <1>1, DeleteCounts
<1>2. CASE ~\E kind \in Kinds : DeleteStep(x, kind)
  <2>1. UNCHANGED <<results, ledger>> /\ crossed \subseteq crossed'
    BY <1>2 DEF WipeStep, ClearAll, ClearBatch, Boot, StartWipe, Migrate, ReadExpired, SweepOrphans,
                WipeBreaks, tables, history
  <2>2. wpc'[x] = <<>> \/ \E kind, place : wpc'[x] = <<kind, place>> /\ place \in {"results", "migrate", "read", "sweep"}
    BY <1>0, <1>2 DEF WipeStep, ClearAll, ClearBatch, Boot, StartWipe, Migrate, ReadExpired, SweepOrphans,
                WipeBreaks, Goto, Leave, PartsOK, WipeOK
  <2>3. \A y \in Wipers : y # x => wpc'[y] = wpc[y] /\ ids'[y] = ids[y]
    BY <1>0, <1>2 DEF WipeStep, ClearAll, ClearBatch, Boot, StartWipe, Migrate, ReadExpired, SweepOrphans,
                WipeBreaks, Goto, Leave, PartsOK, WipeOK
  <2>4. HandsCount' /\ ResultsCount'
    BY <1>0, <2>1 DEF CountInv, HandsCount, ResultsCount
  <2>5. ResultsGone'
    <3> SUFFICES ASSUME NEW y \in Wipers, NEW k \in Kinds, NEW place \in Past, At(y, k, place)',
                        NEW l \in ids'[y] \ crossed', results'[l] # None
                 PROVE  ~results'[l].test
      BY DEF ResultsGone
    <3>1. y # x
      BY <2>2 DEF At, Past
    <3> QED BY <2>1, <2>3, <3>1 DEF At, CountInv, ResultsGone
  <2> QED BY <2>4, <2>5
<1> QED BY <1>1, <1>2

LEMMA StepCounts == CountInv /\ [Next]_vars => CountInv'
<1>1. CountInv /\ Next => HandsCount' /\ ResultsCount' /\ ResultsGone'
  BY WorkerCounts, PeopleCounts, WipeCounts DEF Next
<1>2. CountInv /\ UNCHANGED vars => HandsCount' /\ ResultsCount' /\ ResultsGone'
  BY QuietCounts DEF vars, tables, worker, history
<1> QED BY <1>1, <1>2, StepKeepsTypes DEF CountInv

\* One payment is counted for one lead per scope, unless a wipe met the lead
\* in somebody's hands (pg_dedup.py:92-130, db/pg.py:299-338).
THEOREM PaymentCountedOnce == Spec => []CountedOnce
<1>1. Init => CountInv
  BY InitTypes, InitCounts DEF CountInv
<1> QED BY <1>1, StepCounts, CountsApart, PTL DEF Spec

-----------------------------------------------------------------------------
(* What is known of a lead that no wipe met in somebody's hands.           *)

Clear(l)     == l \notin crossed \cup direct
Holds(w, l)  == hand[w] # None /\ hand[w].lead = l
Screen(v, l) == open[v] # None /\ open[v].lead = l

\* How far a clearing, or the purge at boot, has come with the lead.
Clears(x, l, places) == l \in ids[x] /\ \E kind \in Kinds \ {Boots}, place \in places : At(x, kind, place)
Purges(x, l, places) == l \in ids[x] /\ \E place \in places : At(x, Boots, place)

\* Somebody is about to delete its job; the review is late, or the claim; or
\* the result has gone and the review has not.
JobDoomed(l)  == \E x \in Wipers : Clears(x, l, {"jobs"}) \/ Purges(x, l, {"jobs", "ledger", "reviews"})
ReviewLate(l) == \E x \in Wipers : Clears(x, l, {"ledger", "reviews"})
ClaimLate(l)  == \E x \in Wipers : Clears(x, l, {"ledger"})
Pending(l)    == \E x \in Wipers : Clears(x, l, {"jobs", "ledger", "reviews"}) \/ Purges(x, l, {"ledger", "reviews"})

\* Whoever has the lead in hand has it from its job, which another worker may
\* have settled meanwhile.
HandJob(l) ==
    \A w \in Workers : Holds(w, l) =>
        /\ jobs[l] # None /\ jobs[l].status \in {"working", "done"}
        /\ jobs[l].test = hand[w].test /\ jobs[l].batch = hand[w].batch
        /\ pc[w] = "complete" => results[l] # None

\* A result is of the job that is there; a done job has one.
ResultJob(l) ==
    results[l] # None =>
        jobs[l] # None /\ jobs[l].test = results[l].test /\ jobs[l].batch = results[l].batch
DoneResult(l) ==
    jobs[l] # None /\ jobs[l].status = "done" => results[l] # None \/ (jobs[l].test /\ JobDoomed(l))

\* What reviewers see is of that job, and so is what they said.
ScreenJob(l) ==
    \A v \in Reviewers : Screen(v, l) => jobs[l] # None /\ jobs[l].test = open[v].test
ReviewJob(l) ==
    reviews[l] # None =>
        \/ jobs[l] # None /\ jobs[l].test = reviews[l].test
        \/ reviews[l].test /\ ReviewLate(l)
ClaimJobs(l) ==
    ledger[TRUE] = l => (jobs[l] # None /\ jobs[l].test) \/ ClaimLate(l)

\* What the wipes have done so far: a batch has one number, a purge forgets the
\* claim, then the review, and a clearing the job first.
BatchJob(l) ==
    \A x \in Wipers, b \in 1 .. MaxUploads : l \in ids[x] /\ (At(x, b, "results") \/ At(x, b, "jobs")) =>
        (jobs[l] # None /\ jobs[l].test => jobs[l].batch = b)
PurgeOrder(l) ==
    \A x \in Wipers :
        /\ Purges(x, l, {"reviews", "jobs"}) => ledger[TRUE] # l
        /\ Purges(x, l, {"jobs"}) /\ reviews[l] # None => ~reviews[l].test
ClearOrder(l) == ReviewLate(l) /\ jobs[l] # None => ~jobs[l].test

\* Reviews and screens are of the run that is there, if it was not run again.
Fresh(l) ==
    l \notin again =>
        /\ reviews[l] # None => \/ results[l] # None /\ reviews[l].run = results[l].run
                                \/ reviews[l].test /\ Pending(l)
        /\ \A v \in Reviewers : Screen(v, l) => results[l] # None /\ open[v].run = results[l].run

LeadOK(l) ==
    /\ HandJob(l) /\ ResultJob(l) /\ DoneResult(l) /\ ScreenJob(l) /\ ReviewJob(l) /\ ClaimJobs(l)
    /\ BatchJob(l) /\ PurgeOrder(l) /\ ClearOrder(l) /\ Fresh(l)
LeadsOK == \A l \in Leads : Clear(l) => LeadOK(l)

SandboxInv == CountInv /\ LeadsOK

LEMMA InitLeads == Init => LeadsOK
<1> SUFFICES ASSUME Init, NEW l \in Leads PROVE LeadOK(l)
  BY DEF LeadsOK
<1>1. None # l
  BY SandboxAssumption
<1>2. \A x \in Wipers : ids[x] = {}
  BY DEF Init
<1>3. HandJob(l) /\ ResultJob(l) /\ DoneResult(l) /\ ScreenJob(l) /\ ReviewJob(l) /\ ClaimJobs(l)
  BY <1>1 DEF Init, HandJob, Holds, ResultJob, DoneResult, ScreenJob, Screen, ReviewJob, ClaimJobs
<1>4. BatchJob(l) /\ PurgeOrder(l)
  BY <1>1, <1>2 DEF Init, BatchJob, PurgeOrder, Purges
<1>5. ClearOrder(l)
  BY DEF Init, ClearOrder
<1>6. Fresh(l)
  BY DEF Init, Fresh, Screen
<1> QED BY <1>3, <1>4, <1>5, <1>6 DEF LeadOK

\* The three properties are what remains when the wipes are done with the lead.
LEMMA WipesSeen ==
    ASSUME NEW l \in Leads
    PROVE  JobDoomed(l) \/ ReviewLate(l) \/ ClaimLate(l) \/ Pending(l) => Covered(l)
<1>1. \A kind, place : <<kind, place>> # <<>>
  OBVIOUS
<1>2. \A x \in Wipers : (\E places : Clears(x, l, places) \/ Purges(x, l, places)) => Covered(l)
  BY <1>1 DEF Clears, Purges, At, Covered, Wiping
<1> QED BY <1>2 DEF JobDoomed, ReviewLate, ClaimLate, Pending

LEMMA LeadsDone == SandboxInv => WipedClean /\ DoneWasRun
<1> SUFFICES ASSUME SandboxInv PROVE WipedClean /\ DoneWasRun
  OBVIOUS
<1>1. SandboxTypeOK
  BY TypesApart DEF SandboxInv, CountInv
<1>2. \A l \in Leads \ (crossed \cup direct) : LeadOK(l)
  BY DEF SandboxInv, LeadsOK, Clear
<1>3. NothingLeftOver
  BY <1>2, WipesSeen DEF NothingLeftOver, Quiet, LeadOK, ResultJob, ReviewJob, ClaimJobs
<1>4. ReviewOfVerdict
  BY <1>2, WipesSeen DEF ReviewOfVerdict, LeadOK, Fresh
<1>5. DoneWasRun
  BY <1>2, WipesSeen DEF DoneWasRun, LeadOK, DoneResult, ResultJob
<1> QED BY <1>1, <1>3, <1>4, <1>5 DEF WipedClean

-----------------------------------------------------------------------------
(* What the others do to a lead.                                           *)

\* Nobody has touched the lead.
Kept(l) ==
    /\ jobs'[l] = jobs[l] /\ results'[l] = results[l] /\ reviews'[l] \in {reviews[l], None}
    /\ ledger'[TRUE] = l => ledger[TRUE] = l
    /\ \A w \in Workers : Holds(w, l)' => hand'[w] = hand[w] /\ pc'[w] = pc[w]
    /\ \A v \in Reviewers : Screen(v, l)' => open'[v] = open[v]
    /\ again \subseteq again'
WipesKept(l) ==
    \A x \in Wipers : (l \in ids'[x] <=> l \in ids[x]) /\ (l \in ids[x] => wpc'[x] = wpc[x])

\* No wipe has moved that matters to the lead.
StagesSame(l) ==
    /\ JobDoomed(l)' <=> JobDoomed(l)
    /\ ReviewLate(l)' <=> ReviewLate(l)
    /\ ClaimLate(l)' <=> ClaimLate(l)
    /\ Pending(l)' <=> Pending(l)
    /\ \A x \in Wipers : /\ Purges(x, l, {"reviews", "jobs"})' <=> Purges(x, l, {"reviews", "jobs"})
                         /\ Purges(x, l, {"jobs"})' <=> Purges(x, l, {"jobs"})

LEMMA StagesKept ==
    ASSUME NEW l, WipesKept(l)
    PROVE  StagesSame(l)
BY DEF StagesSame, WipesKept, JobDoomed, ReviewLate, ClaimLate, Pending, Clears, Purges, At

LEMMA RowsKept ==
    ASSUME NEW l \in Leads, LeadOK(l), Kept(l), StagesSame(l), BatchJob(l)'
    PROVE  LeadOK(l)'
<1>1. HandJob(l)'
  BY DEF LeadOK, Kept, HandJob, Holds
<1>2. ResultJob(l)' /\ ScreenJob(l)'
  BY DEF LeadOK, Kept, ResultJob, ScreenJob, Screen
<1>3. DoneResult(l)' /\ ReviewJob(l)' /\ ClaimJobs(l)' /\ ClearOrder(l)'
  BY DEF StagesSame, LeadOK, Kept, DoneResult, ReviewJob, ClaimJobs, ClearOrder
<1>4. PurgeOrder(l)'
  BY DEF StagesSame, LeadOK, Kept, PurgeOrder
<1>5. Fresh(l)'
  BY DEF StagesSame, LeadOK, Kept, Fresh, Screen
<1> QED BY <1>1, <1>2, <1>3, <1>4, <1>5 DEF LeadOK

LEMMA LeadKept ==
    ASSUME NEW l \in Leads, LeadOK(l), Kept(l), WipesKept(l)
    PROVE  LeadOK(l)'
<1>1. BatchJob(l)'
  BY DEF LeadOK, Kept, WipesKept, BatchJob, At
<1> QED BY <1>1, StagesKept, RowsKept

\* A step that moves no wipe, and keeps what the lead has in the tables but a
\* verdict of its hand.
LEMMA WorkerApart ==
    ASSUME PartsOK, NEW w \in Workers, WorkerStep(w)
    PROVE  /\ UNCHANGED <<wiper, open, reviews>> /\ again \subseteq again'
           /\ crossed \subseteq crossed' /\ direct \subseteq direct'
           /\ \A v \in Workers \ {w} : hand'[v] = hand[v] /\ pc'[v] = pc[v]
<1>1. UNCHANGED <<wiper, open, reviews>> /\ again \subseteq again'
      /\ crossed \subseteq crossed' /\ direct \subseteq direct'
  BY DEF WorkerStep, ClaimJob, VerifyNow, Take, Evaluate, InsertClaim, SelectOwner, SaveResult,
         CompleteJob, Dies, tables, history, Written
<1>2. \A v \in Workers \ {w} : hand'[v] = hand[v] /\ pc'[v] = pc[v]
  BY DEF WorkerStep, ClaimJob, VerifyNow, Take, Evaluate, InsertClaim, SelectOwner, SaveResult,
         CompleteJob, Dies, Decides, PartsOK, WorkOK
<1> QED BY <1>1, <1>2

\* Who has another lead in hand, or takes another one, leaves this one alone.
LEMMA OthersKept ==
    ASSUME PartsOK, NEW w \in Workers, WorkerStep(w), NEW l \in Leads,
           pc[w] # "idle" => ~Holds(w, l), ~ClaimJob(w, l), ~VerifyNow(w, l)
    PROVE  Kept(l)
<1> DEFINE k == hand[w].lead
<1>1. pc[w] # "idle" => k \in Leads /\ k # l /\ hand[w].test \in BOOLEAN
  BY HandTypes DEF PartsOK, Holds
<1>2. jobs'[l] = jobs[l]
  BY <1>1 DEF WorkerStep, ClaimJob, VerifyNow, Take, Evaluate, InsertClaim, SelectOwner, SaveResult,
              CompleteJob, Dies, tables, PartsOK, TablesOK
<1>3. results'[l] = results[l]
  BY <1>1 DEF WorkerStep, ClaimJob, VerifyNow, Take, Evaluate, InsertClaim, SelectOwner, SaveResult,
              CompleteJob, Dies, tables, PartsOK, TablesOK
<1>4. ledger'[TRUE] = l => ledger[TRUE] = l
  BY <1>1 DEF WorkerStep, ClaimJob, VerifyNow, Take, Evaluate, InsertClaim, SelectOwner, SaveResult,
              CompleteJob, Dies, tables, PartsOK, TablesOK
<1>5. ~Holds(w, l)'
  <2>1. ASSUME NEW m \in Leads, ClaimJob(w, m) \/ VerifyNow(w, m) PROVE ~Holds(w, l)'
    <3>1. PICK test, batch : Take(w, m, test, batch)
      BY <2>1 DEF ClaimJob, VerifyNow
    <3>2. hand'[w].lead = m
      BY <3>1 DEF Take, PartsOK, WorkOK
    <3>3. m # l
      BY <2>1
    <3> QED BY <3>2, <3>3 DEF Holds
  <2>2. CASE Evaluate(w)
    BY <1>1, <2>2, DecidesTypes DEF Evaluate, PartsOK, Holds
  <2>3. CASE InsertClaim(w)
    BY <1>1, <2>3, DecidesTypes DEF InsertClaim, PartsOK, Holds
  <2>4. CASE SelectOwner(w)
    BY <1>1, <2>4, DecidesTypes DEF SelectOwner, PartsOK, Holds
  <2>5. CASE SaveResult(w) \/ CompleteJob(w) \/ Dies(w)
    BY <1>1, <2>5 DEF SaveResult, CompleteJob, Dies, PartsOK, WorkOK, Holds
  <2> QED BY <2>1, <2>2, <2>3, <2>4, <2>5 DEF WorkerStep
<1> QED BY <1>2, <1>3, <1>4, <1>5, WorkerApart DEF Kept, Holds

\* The job of a lead, and no more, moves on with its worker.
LEMMA ClaimLeads ==
    ASSUME SandboxInv, NEW w \in Workers, NEW l \in Leads, ClaimJob(w, l), Clear(l)'
    PROVE  LeadOK(l)'
<1>0. PartsOK /\ WorkerStep(w) /\ jobs[l] \in Job
  BY DEF SandboxInv, CountInv, WorkerStep, ClaimJob, PartsOK, TablesOK
<1>1. LeadOK(l) /\ WipesKept(l) /\ UNCHANGED <<results, ledger, reviews, open>> /\ again \subseteq again'
  BY <1>0, WorkerApart DEF SandboxInv, LeadsOK, Clear, WipesKept, wiper, ClaimJob, Take
<1>2. jobs'[l] = [jobs[l] EXCEPT !.status = "working"]
  BY <1>0 DEF ClaimJob, PartsOK, TablesOK
<1>3. jobs'[l] # None /\ jobs'[l].status = "working" /\ jobs'[l].test = jobs[l].test
      /\ jobs'[l].batch = jobs[l].batch /\ jobs[l] # None
  <2>1. [jobs[l] EXCEPT !.status = "working"] \in Job
    BY <1>0 DEF Job
  <2> QED BY <1>0, <1>2, <2>1, SandboxAssumption DEF Job
<1>4. hand'[w].lead = l /\ hand'[w].test = jobs[l].test /\ hand'[w].batch = jobs[l].batch
      /\ pc'[w] = "evaluate"
  BY <1>0 DEF ClaimJob, Take, PartsOK, WorkOK
<1>5. \A v \in Workers \ {w} : hand'[v] = hand[v] /\ pc'[v] = pc[v]
  BY <1>0, WorkerApart
<1>6. HandJob(l)'
  BY <1>1, <1>3, <1>4, <1>5 DEF LeadOK, HandJob, Holds
<1>7. ResultJob(l)' /\ ScreenJob(l)'
  BY <1>1, <1>3 DEF LeadOK, ResultJob, ScreenJob, Screen
<1>8. DoneResult(l)' /\ ReviewJob(l)' /\ ClaimJobs(l)' /\ ClearOrder(l)'
  BY <1>1, <1>3, StagesKept DEF StagesSame, LeadOK, DoneResult, ReviewJob, ClaimJobs, ClearOrder
<1>9. BatchJob(l)'
  BY <1>1, <1>3 DEF LeadOK, WipesKept, BatchJob, At
<1>10. PurgeOrder(l)' /\ Fresh(l)'
  BY <1>1, StagesKept DEF StagesSame, LeadOK, PurgeOrder, Fresh, Screen
<1> QED BY <1>6, <1>7, <1>8, <1>9, <1>10 DEF LeadOK

\* A worker that goes on with its lead, up to the save.
LEMMA EvaluateLeads ==
    ASSUME SandboxInv, NEW w \in Workers, NEW l \in Leads, pc[w] # "idle", Holds(w, l),
           Evaluate(w) \/ InsertClaim(w) \/ SelectOwner(w), Clear(l)'
    PROVE  LeadOK(l)'
<1>0. PartsOK /\ WorkerStep(w)
  BY DEF SandboxInv, CountInv, WorkerStep
<1>h. hand[w].lead = l /\ hand[w].test \in BOOLEAN
  BY <1>0, HandTypes DEF PartsOK, Holds
<1>1. LeadOK(l) /\ WipesKept(l) /\ UNCHANGED <<results, jobs, reviews, open, wiper>> /\ again \subseteq again'
  BY <1>0, WorkerApart
  DEF SandboxInv, LeadsOK, Clear, WipesKept, wiper, Evaluate, InsertClaim, SelectOwner, tables
<1>2. hand'[w] # None => /\ hand'[w].lead = l /\ hand'[w].test = hand[w].test /\ hand'[w].batch = hand[w].batch
  <2>1. CASE UNCHANGED hand
    BY <1>h, <2>1
  <2>2. ASSUME NEW v \in {"counted", "duplicate"}, Decides(w, v)
        PROVE  hand'[w].lead = l /\ hand'[w].test = hand[w].test /\ hand'[w].batch = hand[w].batch
    <3>1. hand[w] \in Hand
      BY <1>0, HandTypes DEF PartsOK
    <3>2. hand'[w] = [hand[w] EXCEPT !.verdict = v]
      BY <1>0, <2>2 DEF Decides, PartsOK, WorkOK
    <3> QED BY <1>h, <3>1, <3>2 DEF Hand
  <2> QED BY <2>1, <2>2 DEF Evaluate, InsertClaim, SelectOwner
<1>3. pc'[w] # "complete"
  BY <1>0 DEF Evaluate, InsertClaim, SelectOwner, Decides, PartsOK, WorkOK
<1>4. ledger'[TRUE] = l => ledger[TRUE] = l \/ (hand[w].test /\ ~Covered(l))
  <2>1. CASE Evaluate(w) \/ SelectOwner(w)
    BY <2>1 DEF Evaluate, SelectOwner, tables
  <2>2. CASE InsertClaim(w) /\ ledger[hand[w].test] = None
    <3>1. ledger' = [ledger EXCEPT ![hand[w].test] = l] /\ crossed' = Written(l, hand[w].test)
      BY <1>h, <2>2 DEF InsertClaim
    <3>2. ~(hand[w].test /\ Covered(l))
      BY <3>1 DEF Written, Clear
    <3> QED BY <1>0, <1>h, <3>1, <3>2 DEF PartsOK, TablesOK
  <2>3. CASE InsertClaim(w) /\ ledger[hand[w].test] # None
    BY <2>3 DEF InsertClaim
  <2> QED BY <2>1, <2>2, <2>3
<1>5. jobs[l] # None /\ jobs[l].test = hand[w].test
  BY <1>1 DEF LeadOK, HandJob
<1>6. HandJob(l)'
  <2>1. \A v \in Workers \ {w} : hand'[v] = hand[v] /\ pc'[v] = pc[v]
    BY <1>0, WorkerApart
  <2> QED BY <1>1, <1>2, <1>3, <2>1 DEF LeadOK, HandJob, Holds
<1>7. ResultJob(l)' /\ ScreenJob(l)'
  BY <1>1 DEF LeadOK, ResultJob, ScreenJob, Screen
<1>8. DoneResult(l)' /\ ReviewJob(l)' /\ ClearOrder(l)'
  BY <1>1, StagesKept DEF StagesSame, LeadOK, DoneResult, ReviewJob, ClearOrder
<1>9. ClaimJobs(l)'
  BY <1>1, <1>4, <1>5, StagesKept DEF StagesSame, LeadOK, ClaimJobs
<1>10. BatchJob(l)'
  BY <1>1 DEF LeadOK, WipesKept, BatchJob, At
<1>11. PurgeOrder(l)'
  <2>1. \A x \in Wipers : Purges(x, l, {"reviews", "jobs"}) => Covered(l)
    <3>1. <<Boots, "reviews">> # <<>> /\ <<Boots, "jobs">> # <<>>
      OBVIOUS
    <3> QED BY <3>1 DEF Purges, At, Covered, Wiping
  <2> QED BY <1>1, <1>4, <2>1, StagesKept DEF StagesSame, LeadOK, PurgeOrder
<1>12. Fresh(l)'
  BY <1>1, StagesKept DEF StagesSame, LeadOK, Fresh, Screen
<1> QED BY <1>6, <1>7, <1>8, <1>9, <1>10, <1>11, <1>12 DEF LeadOK

\* It saves the result, with the job still there.
LEMMA SaveLeads ==
    ASSUME SandboxInv, NEW w \in Workers, NEW l \in Leads, Holds(w, l), SaveResult(w), Clear(l)'
    PROVE  LeadOK(l)'
<1>0. PartsOK /\ WorkerStep(w) /\ pc[w] # "idle"
  BY DEF SandboxInv, CountInv, WorkerStep, SaveResult
<1>h. hand[w].lead = l /\ hand[w] \in Hand
  BY <1>0, HandTypes DEF PartsOK, Holds
<1>1. LeadOK(l) /\ WipesKept(l) /\ UNCHANGED <<ledger, jobs, reviews, open>> /\ again \subseteq again'
  BY <1>0, WorkerApart DEF SandboxInv, LeadsOK, Clear, WipesKept, wiper, SaveResult
<1>2. jobs[l] # None /\ jobs[l].test = hand[w].test /\ jobs[l].batch = hand[w].batch
  BY <1>1 DEF LeadOK, HandJob
<1>3. results'[l] # None /\ results'[l].test = hand[w].test /\ results'[l].batch = hand[w].batch
  <2> DEFINE r == [verdict |-> hand[w].verdict, test |-> hand[w].test, batch |-> hand[w].batch, run |-> hand[w].run]
  <2>1. results' = [results EXCEPT ![l] = r]
    BY <1>h DEF SaveResult
  <2>2. hand[w].verdict # "none"
    BY <1>0 DEF SaveResult, PartsOK, WorkOK, HandsFull
  <2>3. r \in Result
    BY <1>h, <2>2 DEF Hand, Result
  <2>4. results'[l] = r
    BY <1>0, <2>1 DEF PartsOK, TablesOK
  <2> QED BY <2>3, <2>4, SandboxAssumption
<1>4. l \notin again' => results[l] = None
  BY <1>h DEF SaveResult
<1>5. HandJob(l)'
  <2>1. \A v \in Workers \ {w} : hand'[v] = hand[v] /\ pc'[v] = pc[v]
    BY <1>0, WorkerApart
  <2>2. hand'[w] \in {hand[w], None}
    BY <1>0 DEF SaveResult, PartsOK, WorkOK
  <2> QED BY <1>1, <1>2, <1>3, <2>1, <2>2 DEF LeadOK, HandJob, Holds
<1>6. ResultJob(l)' /\ ScreenJob(l)'
  BY <1>1, <1>2, <1>3 DEF LeadOK, ResultJob, ScreenJob, Screen
<1>7. DoneResult(l)' /\ ReviewJob(l)' /\ ClearOrder(l)' /\ ClaimJobs(l)'
  BY <1>1, <1>3, StagesKept DEF StagesSame, LeadOK, DoneResult, ReviewJob, ClearOrder, ClaimJobs
<1>8. BatchJob(l)'
  BY <1>1 DEF LeadOK, WipesKept, BatchJob, At
<1>9. PurgeOrder(l)'
  BY <1>1, StagesKept DEF StagesSame, LeadOK, PurgeOrder
<1>10. Fresh(l)'
  <2>1. l \notin again' => l \notin again /\ results[l] = None
    BY <1>1, <1>4
  <2> QED BY <1>1, <2>1, StagesKept DEF StagesSame, LeadOK, Fresh, Screen
<1> QED BY <1>5, <1>6, <1>7, <1>8, <1>9, <1>10 DEF LeadOK

\* It is through, or dies.
LEMMA LetGoLeads ==
    ASSUME SandboxInv, NEW w \in Workers, NEW l \in Leads, Holds(w, l), CompleteJob(w) \/ Dies(w), Clear(l)'
    PROVE  LeadOK(l)'
<1>0. PartsOK /\ WorkerStep(w) /\ pc[w] # "idle" /\ hand[w].lead = l
  BY DEF SandboxInv, CountInv, WorkerStep, CompleteJob, Dies, Holds
<1>1. LeadOK(l) /\ WipesKept(l) /\ UNCHANGED <<results, ledger, reviews, open>> /\ again \subseteq again'
  BY <1>0, WorkerApart DEF SandboxInv, LeadsOK, Clear, WipesKept, wiper, CompleteJob, Dies, tables
<1>2. jobs[l] # None /\ jobs[l] \in Job
  BY <1>0, <1>1 DEF LeadOK, HandJob, PartsOK, TablesOK
<1>3. ~Holds(w, l)' /\ \A v \in Workers \ {w} : hand'[v] = hand[v] /\ pc'[v] = pc[v]
  <2>1. hand'[w] = None
    BY <1>0 DEF CompleteJob, Dies, PartsOK, WorkOK
  <2> QED BY <1>0, <2>1, WorkerApart DEF Holds
<1>4. /\ jobs'[l] # None /\ jobs'[l].test = jobs[l].test /\ jobs'[l].batch = jobs[l].batch
      /\ jobs'[l].status \in {jobs[l].status, "done"}
      /\ jobs'[l].status = "done" => results[l] # None \/ jobs[l].status = "done"
  <2>1. CASE Dies(w)
    BY <1>2, <2>1 DEF Dies, tables
  <2>2. CASE CompleteJob(w)
    <3>1. jobs' = [jobs EXCEPT ![l] = [jobs[l] EXCEPT !.status = "done"]]
      BY <1>0, <1>2, <2>2 DEF CompleteJob
    <3>2. [jobs[l] EXCEPT !.status = "done"] \in Job
      BY <1>2 DEF Job
    <3>3. jobs'[l] = [jobs[l] EXCEPT !.status = "done"]
      BY <1>0, <3>1 DEF PartsOK, TablesOK
    <3>4. results[l] # None
      BY <1>1, <2>2 DEF CompleteJob, LeadOK, HandJob
    <3> QED BY <1>2, <3>2, <3>3, <3>4, SandboxAssumption DEF Job
  <2> QED BY <2>1, <2>2
<1>5. HandJob(l)' /\ ResultJob(l)' /\ ScreenJob(l)'
  BY <1>1, <1>3, <1>4 DEF LeadOK, HandJob, Holds, ResultJob, ScreenJob, Screen
<1>6. DoneResult(l)' /\ ReviewJob(l)' /\ ClearOrder(l)' /\ ClaimJobs(l)'
  BY <1>1, <1>2, <1>4, StagesKept DEF StagesSame, LeadOK, DoneResult, ReviewJob, ClearOrder, ClaimJobs
<1>7. BatchJob(l)'
  BY <1>1, <1>2, <1>4 DEF LeadOK, WipesKept, BatchJob, At
<1>8. PurgeOrder(l)' /\ Fresh(l)'
  BY <1>1, StagesKept DEF StagesSame, LeadOK, PurgeOrder, Fresh, Screen
<1> QED BY <1>5, <1>6, <1>7, <1>8 DEF LeadOK

LEMMA WorkerLeads ==
    ASSUME SandboxInv, NEW w \in Workers, WorkerStep(w)
    PROVE  LeadsOK'
<1> SUFFICES ASSUME NEW l \in Leads, Clear(l)' PROVE LeadOK(l)'
  BY DEF LeadsOK
<1>1. PartsOK /\ LeadOK(l) /\ WipesKept(l)
  <2>1. PartsOK
    BY DEF SandboxInv, CountInv
  <2> QED BY <2>1, WorkerApart DEF SandboxInv, LeadsOK, Clear, WipesKept, wiper
<1>2. ~VerifyNow(w, l)
  BY DEF VerifyNow, Clear
<1>3. CASE ClaimJob(w, l)
  BY <1>3, ClaimLeads
<1>4. CASE (pc[w] # "idle" => ~Holds(w, l)) /\ ~ClaimJob(w, l)
  BY <1>1, <1>2, <1>4, OthersKept, LeadKept
<1>5. CASE pc[w] # "idle" /\ Holds(w, l)
  <2>1. Evaluate(w) \/ InsertClaim(w) \/ SelectOwner(w) \/ SaveResult(w) \/ CompleteJob(w) \/ Dies(w)
    BY <1>5 DEF WorkerStep, ClaimJob, VerifyNow, Take
  <2> QED BY <1>5, <2>1, EvaluateLeads, SaveLeads, LetGoLeads
<1> QED BY <1>3, <1>4, <1>5

\* An upload that brings the lead, for the first time or again.
LEMMA EnqueueLeads ==
    ASSUME SandboxInv, NEW l \in Leads, NEW test \in BOOLEAN, Enqueue(l, test), Clear(l)'
    PROVE  LeadOK(l)'
<1>0. PartsOK /\ crossed \subseteq crossed' /\ (test => ~Covered(l))
  BY DEF SandboxInv, CountInv, Enqueue, Written, Clear
<1>1. LeadOK(l) /\ WipesKept(l) /\ UNCHANGED <<results, ledger, reviews, open, worker, again>>
  BY <1>0 DEF SandboxInv, LeadsOK, Clear, WipesKept, wiper, Enqueue
<1>2. jobs[l] = None /\ jobs'[l].test = test /\ jobs'[l].status = "pending" /\ jobs'[l] # None
  <2> DEFINE j == [status |-> "pending", test |-> test, batch |-> uploads']
  <2>1. jobs'[l] = j /\ uploads' \in 1 .. MaxUploads
    BY <1>0, SandboxAssumption DEF Enqueue, PartsOK, TablesOK, BoundsOK
  <2>2. j \in Job
    BY <2>1 DEF Job
  <2> QED BY <2>1, <2>2, SandboxAssumption DEF Enqueue
<1>3. HandJob(l)' /\ ResultJob(l)' /\ ScreenJob(l)' /\ DoneResult(l)'
  BY <1>1, <1>2 DEF LeadOK, HandJob, Holds, ResultJob, ScreenJob, Screen, DoneResult, worker
<1>4. ReviewJob(l)' /\ ClaimJobs(l)' /\ ClearOrder(l)'
  BY <1>0, <1>1, <1>2, StagesKept, WipesSeen DEF StagesSame, LeadOK, ReviewJob, ClaimJobs, ClearOrder
<1>5. BatchJob(l)'
  <2>1. \A x \in Wipers : \A b, place : l \in ids[x] /\ At(x, b, place) => Covered(l)
    <3>1. \A b, place : <<b, place>> # <<>>
      OBVIOUS
    <3> QED BY <3>1 DEF At, Covered, Wiping
  <2> QED BY <1>0, <1>1, <1>2, <2>1 DEF WipesKept, BatchJob, At
<1>6. PurgeOrder(l)' /\ Fresh(l)'
  BY <1>1, StagesKept DEF StagesSame, LeadOK, PurgeOrder, Fresh, Screen
<1> QED BY <1>3, <1>4, <1>5, <1>6 DEF LeadOK

\* A review is of the run that was on the screen.
LEMMA ReviewLeads ==
    ASSUME SandboxInv, NEW v \in Reviewers, NEW l \in Leads, SaveReview(v) /\ Screen(v, l), Clear(l)'
    PROVE  LeadOK(l)'
<1>0. PartsOK /\ crossed \subseteq crossed' /\ (open[v].test => ~Covered(l)) /\ open[v] \in Opened
  BY DEF SandboxInv, CountInv, SaveReview, Written, Clear, Screen, PartsOK, OpenOK
<1>1. LeadOK(l) /\ WipesKept(l) /\ UNCHANGED <<results, jobs, ledger, worker, again>>
  BY <1>0 DEF SandboxInv, LeadsOK, Clear, WipesKept, wiper, SaveReview
<1>2. reviews'[l] # None /\ reviews'[l].run = open[v].run /\ reviews'[l].test = open[v].test
  <2>1. [run |-> open[v].run, test |-> open[v].test] \in Review
    BY <1>0 DEF Opened, Review
  <2> QED BY <1>0, <2>1, SandboxAssumption DEF SaveReview, Screen, PartsOK, TablesOK
<1>3. \A u \in Reviewers : open'[u] \in {open[u], None}
  BY <1>0 DEF SaveReview, PartsOK, OpenOK
<1>4. jobs[l] # None /\ jobs[l].test = open[v].test
  BY <1>1 DEF LeadOK, ScreenJob, SaveReview
<1>5. HandJob(l)' /\ ResultJob(l)'
  BY <1>1 DEF LeadOK, HandJob, Holds, ResultJob, worker
<1>6. ScreenJob(l)'
  BY <1>1, <1>3 DEF LeadOK, ScreenJob, Screen
<1>7. DoneResult(l)' /\ ReviewJob(l)' /\ ClaimJobs(l)' /\ ClearOrder(l)'
  BY <1>1, <1>2, <1>4, StagesKept DEF StagesSame, LeadOK, DoneResult, ReviewJob, ClaimJobs, ClearOrder
<1>8. BatchJob(l)'
  BY <1>1 DEF LeadOK, WipesKept, BatchJob, At
<1>9. PurgeOrder(l)'
  <2>1. \A x \in Wipers : Purges(x, l, {"jobs"}) => Covered(l)
    <3>1. <<Boots, "jobs">> # <<>>
      OBVIOUS
    <3> QED BY <3>1 DEF Purges, At, Covered, Wiping
  <2> QED BY <1>0, <1>1, <1>2, <2>1, StagesKept DEF StagesSame, LeadOK, PurgeOrder
<1>10. Fresh(l)'
  <2>1. l \notin again => results[l] # None /\ open[v].run = results[l].run
    BY <1>1 DEF LeadOK, Fresh
  <2> QED BY <1>1, <1>2, <1>3, <2>1 DEF LeadOK, Fresh, Screen
<1> QED BY <1>5, <1>6, <1>7, <1>8, <1>9, <1>10 DEF LeadOK

LEMMA OpenLeads ==
    ASSUME SandboxInv, NEW v \in Reviewers, NEW l \in Leads, OpenLead(v, l), Clear(l)'
    PROVE  LeadOK(l)'
<1>0. PartsOK
  BY DEF SandboxInv, CountInv
<1>1. LeadOK(l) /\ WipesKept(l) /\ UNCHANGED <<tables, worker, again>>
  BY DEF SandboxInv, LeadsOK, Clear, WipesKept, wiper, OpenLead, history
<1>2. open'[v].run = results[l].run /\ open'[v].test = results[l].test /\ results[l] # None
      /\ \A u \in Reviewers \ {v} : open'[u] = open[u]
  BY <1>0 DEF OpenLead, PartsOK, OpenOK
<1>3. jobs[l] # None /\ jobs[l].test = results[l].test
  BY <1>1, <1>2 DEF LeadOK, ResultJob
<1>4. HandJob(l)' /\ ResultJob(l)'
  BY <1>1 DEF LeadOK, HandJob, Holds, ResultJob, worker, tables
<1>5. ScreenJob(l)'
  BY <1>1, <1>2, <1>3 DEF LeadOK, ScreenJob, Screen, tables
<1>6. DoneResult(l)' /\ ReviewJob(l)' /\ ClaimJobs(l)' /\ ClearOrder(l)'
  BY <1>1, StagesKept DEF StagesSame, LeadOK, DoneResult, ReviewJob, ClaimJobs, ClearOrder, tables
<1>7. BatchJob(l)'
  BY <1>1 DEF LeadOK, WipesKept, BatchJob, At, tables
<1>8. PurgeOrder(l)'
  BY <1>1, StagesKept DEF StagesSame, LeadOK, PurgeOrder, tables
<1>9. Fresh(l)'
  BY <1>1, <1>2, StagesKept DEF StagesSame, LeadOK, Fresh, Screen, tables
<1> QED BY <1>4, <1>5, <1>6, <1>7, <1>8, <1>9 DEF LeadOK

LEMMA PeopleLeads ==
    ASSUME SandboxInv,
           \/ \E l \in Leads, test \in BOOLEAN : Enqueue(l, test)
           \/ \E v \in Reviewers : SaveReview(v) \/ \E l \in Leads : OpenLead(v, l)
    PROVE  LeadsOK'
<1> SUFFICES ASSUME NEW l \in Leads, Clear(l)' PROVE LeadOK(l)'
  BY DEF LeadsOK
<1>0. PartsOK
  BY DEF SandboxInv, CountInv
<1>1. LeadOK(l) /\ WipesKept(l) /\ UNCHANGED <<worker, again>>
  BY DEF SandboxInv, LeadsOK, Clear, WipesKept, wiper, Enqueue, SaveReview, OpenLead, Written, history
<1>2. ASSUME NEW k \in Leads, NEW test \in BOOLEAN, Enqueue(k, test) PROVE LeadOK(l)'
  <2>1. CASE k = l
    BY <1>2, <2>1, EnqueueLeads
  <2>2. CASE k # l
    <3>1. Kept(l)
      BY <1>0, <1>2, <2>2 DEF Enqueue, Kept, Holds, Screen, worker, PartsOK, TablesOK
    <3> QED BY <1>1, <3>1, LeadKept
  <2> QED BY <2>1, <2>2
<1>3. ASSUME NEW v \in Reviewers, SaveReview(v) PROVE LeadOK(l)'
  <2>1. CASE Screen(v, l)
    BY <1>3, <2>1, ReviewLeads
  <2>2. CASE ~Screen(v, l)
    <3>1. open[v].lead # l /\ \A u \in Reviewers : open'[u] \in {open[u], None}
      BY <1>0, <1>3, <2>2 DEF SaveReview, Screen, PartsOK, OpenOK
    <3>2. reviews'[l] = reviews[l]
      BY <1>0, <1>3, <3>1 DEF SaveReview, PartsOK, TablesOK
    <3>3. Kept(l)
      BY <1>3, <3>1, <3>2 DEF SaveReview, Kept, Holds, Screen, worker
    <3> QED BY <1>1, <3>3, LeadKept
  <2> QED BY <2>1, <2>2
<1>4. ASSUME NEW v \in Reviewers, NEW k \in Leads, OpenLead(v, k) PROVE LeadOK(l)'
  <2>1. CASE k = l
    BY <1>4, <2>1, OpenLeads
  <2>2. CASE k # l
    <3>1. open'[v].lead = k /\ \A u \in Reviewers \ {v} : open'[u] = open[u]
      BY <1>0, <1>4 DEF OpenLead, PartsOK, OpenOK
    <3>2. Kept(l)
      BY <1>4, <2>2, <3>1 DEF OpenLead, Kept, Holds, Screen, worker, tables, history
    <3> QED BY <1>1, <3>2, LeadKept
  <2> QED BY <2>1, <2>2
<1> QED BY <1>2, <1>3, <1>4

-----------------------------------------------------------------------------
(* What a wipe does to a lead.                                             *)

LEMMA WipesApart ==
    ASSUME PartsOK, NEW x \in Wipers, WipeStep(x)
    PROVE  /\ \A y \in Wipers \ {x} : wpc'[y] = wpc[y] /\ ids'[y] = ids[y]
           /\ UNCHANGED <<worker, open, again, direct>> /\ crossed \subseteq crossed'
<1>1. \A y \in Wipers \ {x} : wpc'[y] = wpc[y] /\ ids'[y] = ids[y]
  <2>1. CASE \E kind \in Kinds : DeleteStep(x, kind)
    BY <2>1 DEF DeleteStep, WipeResults, WipeJobs, WipeLedger, WipeReviews, Step, Goto, Leave, PartsOK, WipeOK
  <2>2. CASE ~\E kind \in Kinds : DeleteStep(x, kind)
    BY <2>2 DEF WipeStep, ClearAll, ClearBatch, Boot, StartWipe, Migrate, ReadExpired, SweepOrphans,
                WipeBreaks, Goto, Leave, PartsOK, WipeOK
  <2> QED BY <2>1, <2>2
<1>2. UNCHANGED <<worker, open, again, direct>> /\ crossed \subseteq crossed'
  BY DEF WipeStep, DeleteStep, WipeResults, WipeJobs, WipeLedger, WipeReviews, Crossing, ClearAll,
         ClearBatch, Boot, StartWipe, Migrate, ReadExpired, SweepOrphans, WipeBreaks, history
<1> QED BY <1>1, <1>2

\* The places of a wipe that is not deleting: nothing is late or pending there.
Resting(x) == \A kind \in Kinds, place \in Past : ~At(x, kind, place)

LEMMA StagesRest ==
    ASSUME NEW x \in Wipers, NEW l, Resting(x), Resting(x)',
           \A y \in Wipers \ {x} : wpc'[y] = wpc[y] /\ ids'[y] = ids[y]
    PROVE  StagesSame(l)
<1>0. Boots \in Kinds
  BY SandboxAssumption DEF Kinds, All, Boots
<1>1. \A places \in SUBSET Past :
        /\ ~Clears(x, l, places) /\ ~Purges(x, l, places)
        /\ ~Clears(x, l, places)' /\ ~Purges(x, l, places)'
  BY <1>0 DEF Resting, Clears, Purges, At
<1>2. \A y \in Wipers \ {x} : \A places \in SUBSET Past :
        /\ Clears(y, l, places)' <=> Clears(y, l, places)
        /\ Purges(y, l, places)' <=> Purges(y, l, places)
  BY DEF Clears, Purges, At
<1>3. \A y \in Wipers : \A places \in SUBSET Past :
        /\ Clears(y, l, places)' <=> Clears(y, l, places)
        /\ Purges(y, l, places)' <=> Purges(y, l, places)
  BY <1>1, <1>2
<1>4. /\ {"jobs"} \in SUBSET Past /\ {"ledger"} \in SUBSET Past /\ {"ledger", "reviews"} \in SUBSET Past
      /\ {"reviews", "jobs"} \in SUBSET Past /\ {"jobs", "ledger", "reviews"} \in SUBSET Past
  BY DEF Past
<1> QED BY <1>3, <1>4 DEF StagesSame, JobDoomed, ReviewLate, ClaimLate, Pending

\* A wipe that starts, reads, sweeps or breaks off.
LEMMA RestLeads ==
    ASSUME SandboxInv, NEW x \in Wipers, WipeStep(x), ~\E kind \in Kinds : DeleteStep(x, kind),
           NEW l \in Leads, Clear(l)'
    PROVE  LeadOK(l)'
<1>0. PartsOK /\ LeadOK(l)
  <2>1. PartsOK
    BY DEF SandboxInv, CountInv
  <2> QED BY <2>1, WipesApart DEF SandboxInv, LeadsOK, Clear
<1>1. Kept(l)
  <2>1. reviews'[l] \in {reviews[l], None}
    <3>1. CASE Migrate(x)
      <4>1. CASE Covered(l)
        BY <3>1, <4>1 DEF Migrate, Clear
      <4>2. CASE reviews[l] # None /\ results[l] # None /\ ~Covered(l)
        <5>1. reviews[l].test = results[l].test
          BY <1>0, <4>2, WipesSeen DEF LeadOK, ReviewJob, ResultJob
        <5>2. [reviews[l] EXCEPT !.test = results[l].test] = reviews[l]
          BY <1>0, <4>2, <5>1 DEF PartsOK, TablesOK, Review
        <5> QED BY <3>1, <4>2, <5>2 DEF Migrate
      <4>3. CASE ~(reviews[l] # None /\ results[l] # None)
        BY <3>1, <4>3 DEF Migrate
      <4> QED BY <4>1, <4>2, <4>3
    <3>2. CASE SweepOrphans(x)
      BY <3>2 DEF SweepOrphans
    <3>3. CASE ~Migrate(x) /\ ~SweepOrphans(x)
      BY <3>3 DEF WipeStep, ClearAll, ClearBatch, Boot, StartWipe, ReadExpired, WipeBreaks, tables
    <3> QED BY <3>1, <3>2, <3>3
  <2>2. UNCHANGED <<jobs, results, ledger>>
    BY DEF WipeStep, ClearAll, ClearBatch, Boot, StartWipe, Migrate, ReadExpired, SweepOrphans,
           WipeBreaks, tables
  <2> QED BY <1>0, <2>1, <2>2, WipesApart DEF Kept, worker
<1>2. CASE WipeBreaks(x)
  <2>1. l \notin ids[x] /\ l \notin ids'[x]
    BY <1>0, <1>2 DEF WipeBreaks, Leave, Clear, PartsOK, WipeOK
  <2>2. WipesKept(l)
    BY <1>0, <2>1, WipesApart DEF WipesKept
  <2> QED BY <1>0, <1>1, <2>2, LeadKept
<1>3. CASE ~WipeBreaks(x)
  <2>1. wpc[x] \in {<<>>, <<Boots, "migrate">>, <<Boots, "read">>, <<Boots, "sweep">>}
    BY <1>3 DEF WipeStep, ClearAll, ClearBatch, Boot, StartWipe, Migrate, ReadExpired, SweepOrphans,
                At, Wiping
  <2>2. \/ wpc'[x] = <<>>
        \/ \E kind, place : wpc'[x] = <<kind, place>> /\ place \in {"results", "migrate", "read", "sweep"}
    BY <1>0, <1>3 DEF WipeStep, ClearAll, ClearBatch, Boot, StartWipe, Migrate, ReadExpired, SweepOrphans,
                      Goto, Leave, PartsOK, WipeOK
  <2>p. \A a, b, c, d : <<a, b>> # <<>> /\ (<<a, b>> = <<c, d>> => a = c /\ b = d)
    OBVIOUS
  <2>3. Resting(x) /\ Resting(x)'
    <3>1. \A kind, place : wpc[x] = <<kind, place>> => place \notin Past
      BY <2>1, <2>p DEF Past
    <3>2. \A kind, place : wpc'[x] = <<kind, place>> => place \notin Past
      BY <2>2, <2>p DEF Past
    <3> QED BY <3>1, <3>2 DEF Resting, At
  <2>4. StagesSame(l)
    BY <1>0, <2>3, StagesRest, WipesApart
  <2>5. BatchJob(l)'
    <3> SUFFICES ASSUME NEW y \in Wipers, NEW b \in 1 .. MaxUploads, l \in ids'[y],
                        At(y, b, "results")' \/ At(y, b, "jobs")', jobs'[l] # None, jobs'[l].test
                 PROVE  jobs'[l].batch = b
      BY DEF BatchJob
    <3>1. jobs'[l] = jobs[l]
      BY <1>1 DEF Kept
    <3>2. CASE y # x
      BY <1>0, <3>1, <3>2, WipesApart DEF At, LeadOK, BatchJob
    <3>3. CASE y = x
      <4>1. wpc'[x] = <<b, "results">> /\ b # All /\ b # Boots
        <5>1. wpc'[x] # <<b, "jobs">>
          BY <2>2, <2>p
        <5> QED BY <3>3, <5>1, SandboxAssumption DEF At, All, Boots
      <4>2. PICK c \in 1 .. MaxUploads : ClearBatch(x, c)
        BY <1>0, <1>3, <4>1 DEF WipeStep, ClearAll, Boot, Migrate, ReadExpired, SweepOrphans,
                                Goto, Leave, PartsOK, WipeOK
      <4>3. c = b /\ l \in {k \in Leads : jobs[k] # None /\ jobs[k].test /\ jobs[k].batch = c}
        BY <1>0, <3>3, <4>1, <4>2 DEF ClearBatch, Goto, PartsOK, WipeOK
      <4> QED BY <3>1, <4>3
    <3> QED BY <3>2, <3>3
  <2> QED BY <1>0, <1>1, <2>4, <2>5, RowsKept
<1> QED BY <1>2, <1>3

\* How far a wipe is with the lead, by its place.
LEMMA StageOf ==
    ASSUME NEW x \in Wipers, NEW l, NEW kind \in Kinds, NEW place
    PROVE  /\ At(x, kind, place) /\ l \in ids[x] =>
                \A places : /\ Clears(x, l, places) <=> kind # Boots /\ place \in places
                            /\ Purges(x, l, places) <=> kind = Boots /\ place \in places
           /\ At(x, kind, place)' /\ l \in ids'[x] =>
                \A places : /\ Clears(x, l, places)' <=> kind # Boots /\ place \in places
                            /\ Purges(x, l, places)' <=> kind = Boots /\ place \in places
<1>1. \A a, b, c, d : <<a, b>> = <<c, d>> <=> a = c /\ b = d
  OBVIOUS
<1> QED BY <1>1 DEF At, Clears, Purges

\* The others stay where they are; this one goes on, with its leads.
LEMMA DeleteMoves ==
    ASSUME PartsOK, NEW x \in Wipers, NEW kind \in Kinds, NEW place, DeleteStep(x, kind), At(x, kind, place)
    PROVE  /\ place \in {"results", "jobs", "ledger", "reviews"}
           /\ place = "results" => WipeResults(x, kind)
           /\ place = "jobs" => WipeJobs(x, kind)
           /\ place = "ledger" => WipeLedger(x, kind)
           /\ place = "reviews" => WipeReviews(x, kind)
           /\ ~Ends(kind, place) => At(x, kind, After(kind, place))' /\ ids' = ids
           /\ Ends(kind, place) => ids'[x] = {}
           /\ \A y \in Wipers \ {x}, l \in Leads : \A places :
                /\ Clears(y, l, places)' <=> Clears(y, l, places)
                /\ Purges(y, l, places)' <=> Purges(y, l, places)
<1>1. \A a, b, c, d : <<a, b>> = <<c, d>> <=> a = c /\ b = d
  OBVIOUS
<1>2. /\ place \in {"results", "jobs", "ledger", "reviews"}
      /\ place = "results" => WipeResults(x, kind)
      /\ place = "jobs" => WipeJobs(x, kind)
      /\ place = "ledger" => WipeLedger(x, kind)
      /\ place = "reviews" => WipeReviews(x, kind)
  <2>1. \A p : At(x, kind, p) => p = place
    BY <1>1 DEF At
  <2>2. CASE WipeResults(x, kind)
    BY <2>1, <2>2 DEF WipeResults
  <2>3. CASE WipeJobs(x, kind)
    BY <2>1, <2>3 DEF WipeJobs
  <2>4. CASE WipeLedger(x, kind)
    BY <2>1, <2>4 DEF WipeLedger
  <2>5. CASE WipeReviews(x, kind)
    BY <2>1, <2>5 DEF WipeReviews
  <2> QED BY <2>2, <2>3, <2>4, <2>5 DEF DeleteStep
<1>3. Step(x, kind, place)
  BY <1>2 DEF WipeResults, WipeJobs, WipeLedger, WipeReviews
<1>4. /\ ~Ends(kind, place) => At(x, kind, After(kind, place))' /\ ids' = ids
      /\ Ends(kind, place) => ids'[x] = {}
  BY <1>3 DEF Step, Goto, Leave, At, PartsOK, WipeOK
<1>5. WipeStep(x)
  BY DEF WipeStep
<1>6. \A y \in Wipers \ {x}, l \in Leads : \A places :
                /\ Clears(y, l, places)' <=> Clears(y, l, places)
                /\ Purges(y, l, places)' <=> Purges(y, l, places)
  BY <1>5, WipesApart DEF Clears, Purges, At
<1> QED BY <1>2, <1>4, <1>6

\* Leads of which the wipe knows nothing.
LEMMA DeleteOthers ==
    ASSUME SandboxInv, NEW x \in Wipers, NEW kind \in Kinds, DeleteStep(x, kind), NEW l \in Leads \ ids[x],
           Clear(l)'
    PROVE  LeadOK(l)'
<1>0. PartsOK /\ WipeStep(x)
  BY DEF SandboxInv, CountInv, WipeStep
<1>1. LeadOK(l)
  BY <1>0, WipesApart DEF SandboxInv, LeadsOK, Clear
<1>2. l \notin ids'[x]
  BY <1>0 DEF DeleteStep, WipeResults, WipeJobs, WipeLedger, WipeReviews, Step, Goto, Leave, PartsOK, WipeOK
<1>3. WipesKept(l)
  BY <1>0, <1>2, WipesApart DEF WipesKept
<1>4. jobs'[l] = jobs[l] /\ results'[l] = results[l] /\ reviews'[l] = reviews[l]
  BY DEF DeleteStep, WipeResults, WipeJobs, WipeLedger, WipeReviews, Deleted, Doomed
<1>5. ledger'[TRUE] = l => ledger[TRUE] = l
  <2>1. l # None
    BY SandboxAssumption
  <2> QED BY <1>0, <2>1 DEF DeleteStep, WipeResults, WipeJobs, WipeLedger, WipeReviews, PartsOK, TablesOK
<1>6. Kept(l)
  BY <1>0, <1>4, <1>5, WipesApart DEF Kept, worker
<1> QED BY <1>1, <1>3, <1>6, LeadKept

\* Nobody has the leads in hand that are deleted.
LEMMA DeleteUnheld ==
    ASSUME SandboxInv, NEW x \in Wipers, NEW kind \in Kinds, DeleteStep(x, kind), NEW l \in Leads,
           l \in ids[x], Clear(l)'
    PROVE  /\ PartsOK /\ LeadOK(l) /\ l \notin crossed
           /\ HandJob(l)' /\ ScreenJob(l)'
           /\ \A v \in Reviewers : ~Screen(v, l)'
           /\ again' = again
<1>0. PartsOK /\ WipeStep(x)
  BY DEF SandboxInv, CountInv, WipeStep
<1>1. LeadOK(l) /\ l \notin crossed /\ again' = again
  BY <1>0, WipesApart DEF SandboxInv, LeadsOK, Clear
<1>2. crossed' = Crossing(ids[x])
  BY DEF DeleteStep, WipeResults, WipeJobs, WipeLedger, WipeReviews
<1>3. ~InHands(l)
  BY <1>2 DEF Clear, Crossing
<1>4. (\A w \in Workers : ~Holds(w, l)') /\ (\A v \in Reviewers : ~Screen(v, l)')
  BY <1>0, <1>3, WipesApart DEF InHands, Holds, Screen, worker
<1> QED BY <1>0, <1>1, <1>4 DEF HandJob, ScreenJob

\* The result goes first: the job is next, or the claim and the review.
LEMMA ResultsLeads ==
    ASSUME SandboxInv, NEW x \in Wipers, NEW kind \in Kinds, WipeResults(x, kind), NEW l \in Leads,
           l \in ids[x], Clear(l)'
    PROVE  LeadOK(l)'
<1>0. /\ PartsOK /\ LeadOK(l) /\ HandJob(l)' /\ ScreenJob(l)' /\ again' = again
      /\ \A v \in Reviewers : ~Screen(v, l)'
      /\ DeleteStep(x, kind) /\ At(x, kind, "results")
  BY DeleteUnheld DEF DeleteStep, WipeResults
<1> DEFINE next == IF kind = Boots THEN "ledger" ELSE "jobs"
<1>1. At(x, kind, next)' /\ ids' = ids
  BY <1>0, DeleteMoves DEF Ends, After
<1>2. \A places : /\ Clears(x, l, places) <=> kind # Boots /\ "results" \in places
                  /\ Purges(x, l, places) <=> kind = Boots /\ "results" \in places
  BY <1>0, StageOf
<1>3. \A places : /\ Clears(x, l, places)' <=> kind # Boots /\ next \in places
                  /\ Purges(x, l, places)' <=> kind = Boots /\ next \in places
  BY <1>1, StageOf
<1>4. \A y \in Wipers \ {x} : \A places :
           /\ Clears(y, l, places)' <=> Clears(y, l, places)
           /\ Purges(y, l, places)' <=> Purges(y, l, places)
  BY <1>0, DeleteMoves
<1>5. JobDoomed(l)' /\ Pending(l)'
  BY <1>3 DEF JobDoomed, Pending
<1>6. (ReviewLate(l)' <=> ReviewLate(l)) /\ (ClaimLate(l)' <=> ClaimLate(l))
  BY <1>2, <1>3, <1>4 DEF ReviewLate, ClaimLate
<1>7. \A y \in Wipers : /\ Purges(y, l, {"reviews", "jobs"})' <=> Purges(y, l, {"reviews", "jobs"})
                        /\ Purges(y, l, {"jobs"})' <=> Purges(y, l, {"jobs"})
  BY <1>2, <1>3, <1>4
<1>8. /\ UNCHANGED <<jobs, ledger, reviews>>
      /\ results'[l] = results[l] \/ (results'[l] = None /\ results[l] # None /\ results[l].test)
  BY DEF WipeResults, Deleted, Doomed
<1>9. ResultJob(l)' /\ DoneResult(l)'
  BY <1>0, <1>5, <1>8 DEF LeadOK, ResultJob, DoneResult
<1>10. ReviewJob(l)' /\ ClaimJobs(l)' /\ ClearOrder(l)' /\ PurgeOrder(l)'
  BY <1>0, <1>6, <1>7, <1>8 DEF LeadOK, ReviewJob, ClaimJobs, ClearOrder, PurgeOrder
<1>11. BatchJob(l)'
  <2> SUFFICES ASSUME NEW y \in Wipers, NEW b \in 1 .. MaxUploads, l \in ids'[y],
                      At(y, b, "results")' \/ At(y, b, "jobs")', jobs'[l] # None, jobs'[l].test
               PROVE  jobs'[l].batch = b
    BY DEF BatchJob
  <2>1. CASE y # x
    <3>1. At(y, b, "results") \/ At(y, b, "jobs")
      BY <1>0, <2>1, WipesApart DEF At, WipeStep
    <3> QED BY <1>0, <1>1, <1>8, <3>1 DEF LeadOK, BatchJob
  <2>2. CASE y = x
    <3>1. b = kind
      BY <1>1, <2>2 DEF At
    <3> QED BY <1>0, <1>8, <3>1 DEF LeadOK, BatchJob
  <2> QED BY <2>1, <2>2
<1>12. Fresh(l)'
  <2>1. reviews[l] # None /\ results[l] # None /\ results[l].test => reviews[l].test
    BY <1>0 DEF LeadOK, ResultJob, ReviewJob
  <2> QED BY <1>0, <1>5, <1>8, <2>1 DEF LeadOK, Fresh
<1> QED BY <1>0, <1>9, <1>10, <1>11, <1>12 DEF LeadOK

\* The job goes, and takes no result with it: that has gone.
LEMMA JobsLeads ==
    ASSUME SandboxInv, NEW x \in Wipers, NEW kind \in Kinds, WipeJobs(x, kind), NEW l \in Leads,
           l \in ids[x], Clear(l)'
    PROVE  LeadOK(l)'
<1>0. /\ PartsOK /\ LeadOK(l) /\ HandJob(l)' /\ ScreenJob(l)' /\ again' = again /\ l \notin crossed
      /\ \A v \in Reviewers : ~Screen(v, l)'
      /\ DeleteStep(x, kind) /\ At(x, kind, "jobs")
  BY DeleteUnheld DEF DeleteStep, WipeJobs
<1> DEFINE next == IF kind = Boots THEN "sweep" ELSE "ledger"
<1>1. At(x, kind, next)' /\ ids' = ids
  BY <1>0, DeleteMoves DEF Ends, After
<1>2. \A places : /\ Clears(x, l, places) <=> kind # Boots /\ "jobs" \in places
                  /\ Purges(x, l, places) <=> kind = Boots /\ "jobs" \in places
  BY <1>0, StageOf
<1>3. \A places : /\ Clears(x, l, places)' <=> kind # Boots /\ next \in places
                  /\ Purges(x, l, places)' <=> kind = Boots /\ next \in places
  BY <1>1, StageOf
<1>4. \A y \in Wipers \ {x} : \A places :
           /\ Clears(y, l, places)' <=> Clears(y, l, places)
           /\ Purges(y, l, places)' <=> Purges(y, l, places)
  BY <1>0, DeleteMoves
<1>5. /\ ReviewLate(l) => ReviewLate(l)'
      /\ ClaimLate(l) => ClaimLate(l)'
      /\ Pending(l) => Pending(l)'
      /\ kind # Boots => ReviewLate(l)' /\ ClaimLate(l)'
      /\ kind = Boots => (ReviewLate(l)' => ReviewLate(l))
  <2>1. ReviewLate(l) => ReviewLate(l)'
    BY <1>2, <1>3, <1>4 DEF ReviewLate
  <2>2. ClaimLate(l) => ClaimLate(l)'
    BY <1>2, <1>3, <1>4 DEF ClaimLate
  <2>3. Pending(l) => Pending(l)'
    BY <1>2, <1>3, <1>4 DEF Pending
  <2>4. kind # Boots => ReviewLate(l)' /\ ClaimLate(l)'
    BY <1>3 DEF ReviewLate, ClaimLate
  <2>5. kind = Boots => (ReviewLate(l)' => ReviewLate(l))
    BY <1>2, <1>3, <1>4 DEF ReviewLate
  <2> QED BY <2>1, <2>2, <2>3, <2>4, <2>5
<1>6. \A y \in Wipers : /\ Purges(y, l, {"reviews", "jobs"})' => Purges(y, l, {"reviews", "jobs"})
                        /\ Purges(y, l, {"jobs"})' => Purges(y, l, {"jobs"})
  BY <1>2, <1>3, <1>4
<1>7. /\ UNCHANGED <<results, ledger, reviews>>
      /\ jobs[l] # None /\ jobs[l].test => jobs'[l] = None
      /\ ~(jobs[l] # None /\ jobs[l].test) => jobs'[l] = jobs[l]
  <2>1. UNCHANGED <<results, ledger, reviews>>
    BY DEF WipeJobs
  <2>2. jobs'[l] = IF kind \in {All, Boots} \/ (jobs[l] # None /\ jobs[l].batch = kind)
                   THEN Deleted(x, jobs)[l] ELSE jobs[l]
    BY DEF WipeJobs
  <2>3. Deleted(x, jobs)[l] = IF jobs[l] # None /\ jobs[l].test THEN None ELSE jobs[l]
    BY DEF Deleted, Doomed
  <2>4. kind \in {All, Boots} \/ kind \in 1 .. MaxUploads
    BY SandboxAssumption DEF Kinds, All, Boots
  <2>5. kind \in 1 .. MaxUploads /\ jobs[l] # None /\ jobs[l].test => jobs[l].batch = kind
    BY <1>0 DEF LeadOK, BatchJob
  <2> QED BY <2>1, <2>2, <2>3, <2>4, <2>5
<1>8. results[l] # None => jobs[l] # None /\ ~jobs[l].test
  <2>1. results[l] # None => ~results[l].test
    BY <1>0 DEF SandboxInv, CountInv, ResultsGone, Past
  <2> QED BY <1>0, <2>1 DEF LeadOK, ResultJob
<1>9. jobs'[l] # None => jobs'[l] = jobs[l] /\ ~jobs[l].test
  BY <1>7
<1>10. ResultJob(l)' /\ DoneResult(l)'
  <2>1. ResultJob(l)'
    BY <1>0, <1>7, <1>8 DEF LeadOK, ResultJob
  <2>2. DoneResult(l)'
    BY <1>0, <1>7, <1>9 DEF LeadOK, DoneResult
  <2> QED BY <2>1, <2>2
<1>11. kind = Boots => ledger[TRUE] # l /\ (reviews[l] # None => ~reviews[l].test)
  <2>1. kind = Boots => Purges(x, l, {"reviews", "jobs"}) /\ Purges(x, l, {"jobs"})
    BY <1>2
  <2> QED BY <1>0, <2>1 DEF LeadOK, PurgeOrder
<1>12. ReviewJob(l)'
  <2>1. reviews[l] # None => \/ jobs[l] # None /\ jobs[l].test = reviews[l].test
                             \/ reviews[l].test /\ ReviewLate(l)
    BY <1>0 DEF LeadOK, ReviewJob
  <2>2. reviews[l] # None => reviews[l].test \in BOOLEAN
    BY <1>0 DEF PartsOK, TablesOK, Review
  <2> QED BY <1>5, <1>7, <1>11, <2>1, <2>2 DEF ReviewJob
<1>13. ClaimJobs(l)'
  BY <1>0, <1>5, <1>7, <1>11 DEF LeadOK, ClaimJobs
<1>14. ClearOrder(l)' /\ PurgeOrder(l)'
  BY <1>0, <1>6, <1>7, <1>9 DEF LeadOK, ClearOrder, PurgeOrder
<1>15. BatchJob(l)'
  BY <1>9 DEF BatchJob
<1>16. Fresh(l)'
  BY <1>0, <1>5, <1>7 DEF LeadOK, Fresh
<1> QED BY <1>0, <1>10, <1>12, <1>13, <1>14, <1>15, <1>16 DEF LeadOK

\* The claim goes: the lead is not in the ledger any more.
LEMMA LedgerLeads ==
    ASSUME SandboxInv, NEW x \in Wipers, NEW kind \in Kinds, WipeLedger(x, kind), NEW l \in Leads,
           l \in ids[x], Clear(l)'
    PROVE  LeadOK(l)'
<1>0. /\ PartsOK /\ LeadOK(l) /\ HandJob(l)' /\ ScreenJob(l)' /\ again' = again
      /\ \A v \in Reviewers : ~Screen(v, l)'
      /\ DeleteStep(x, kind) /\ At(x, kind, "ledger")
  BY DeleteUnheld DEF DeleteStep, WipeLedger
<1>1. At(x, kind, "reviews")' /\ ids' = ids
  BY <1>0, DeleteMoves DEF Ends, After
<1>2. \A places : /\ Clears(x, l, places) <=> kind # Boots /\ "ledger" \in places
                  /\ Purges(x, l, places) <=> kind = Boots /\ "ledger" \in places
  BY <1>0, StageOf
<1>3. \A places : /\ Clears(x, l, places)' <=> kind # Boots /\ "reviews" \in places
                  /\ Purges(x, l, places)' <=> kind = Boots /\ "reviews" \in places
  BY <1>1, StageOf
<1>4. \A y \in Wipers \ {x} : \A places :
           /\ Clears(y, l, places)' <=> Clears(y, l, places)
           /\ Purges(y, l, places)' <=> Purges(y, l, places)
  BY <1>0, DeleteMoves
<1>5. (JobDoomed(l)' <=> JobDoomed(l)) /\ (ReviewLate(l)' <=> ReviewLate(l)) /\ Pending(l)'
  <2>1. JobDoomed(l)' <=> JobDoomed(l)
    BY <1>2, <1>3, <1>4 DEF JobDoomed
  <2>2. ReviewLate(l)' <=> ReviewLate(l)
    BY <1>2, <1>3, <1>4 DEF ReviewLate
  <2>3. Pending(l)'
    BY <1>3 DEF Pending
  <2> QED BY <2>1, <2>2, <2>3
<1>6. \A y \in Wipers : Purges(y, l, {"jobs"})' <=> Purges(y, l, {"jobs"})
  BY <1>2, <1>3, <1>4
<1>7. UNCHANGED <<jobs, results, reviews>> /\ ledger'[TRUE] # l
  <2>1. l # None
    BY SandboxAssumption
  <2> QED BY <1>0, <2>1 DEF WipeLedger, PartsOK, TablesOK
<1>8. ResultJob(l)' /\ DoneResult(l)' /\ ReviewJob(l)' /\ ClearOrder(l)'
  BY <1>0, <1>5, <1>7 DEF LeadOK, ResultJob, DoneResult, ReviewJob, ClearOrder
<1>9. ClaimJobs(l)' /\ PurgeOrder(l)'
  BY <1>0, <1>6, <1>7 DEF LeadOK, ClaimJobs, PurgeOrder
<1>10. BatchJob(l)'
  <2> SUFFICES ASSUME NEW y \in Wipers, NEW b \in 1 .. MaxUploads, l \in ids'[y],
                      At(y, b, "results")' \/ At(y, b, "jobs")', jobs'[l] # None, jobs'[l].test
               PROVE  jobs'[l].batch = b
    BY DEF BatchJob
  <2>1. y # x
    BY <1>1 DEF At
  <2>2. At(y, b, "results") \/ At(y, b, "jobs")
    BY <1>0, <2>1, WipesApart DEF At, WipeStep
  <2> QED BY <1>0, <1>1, <1>7, <2>2 DEF LeadOK, BatchJob
<1>11. Fresh(l)'
  BY <1>0, <1>5, <1>7 DEF LeadOK, Fresh
<1> QED BY <1>0, <1>8, <1>9, <1>10, <1>11 DEF LeadOK

\* The review goes last, or before the job.
LEMMA ReviewsLeads ==
    ASSUME SandboxInv, NEW x \in Wipers, NEW kind \in Kinds, WipeReviews(x, kind), NEW l \in Leads,
           l \in ids[x], Clear(l)'
    PROVE  LeadOK(l)'
<1>0. /\ PartsOK /\ LeadOK(l) /\ HandJob(l)' /\ ScreenJob(l)' /\ again' = again
      /\ \A v \in Reviewers : ~Screen(v, l)'
      /\ DeleteStep(x, kind) /\ At(x, kind, "reviews")
  BY DeleteUnheld DEF DeleteStep, WipeReviews
<1>1. /\ kind = Boots => At(x, kind, "jobs")' /\ ids' = ids
      /\ kind # Boots => ids'[x] = {}
  BY <1>0, DeleteMoves DEF Ends, After
<1>2. \A places : /\ Clears(x, l, places) <=> kind # Boots /\ "reviews" \in places
                  /\ Purges(x, l, places) <=> kind = Boots /\ "reviews" \in places
  BY <1>0, StageOf
<1>3. \A places : /\ ~Clears(x, l, places)'
                  /\ Purges(x, l, places)' <=> kind = Boots /\ "jobs" \in places
  <2>1. CASE kind = Boots
    BY <1>1, <2>1, StageOf
  <2>2. CASE kind # Boots
    BY <1>1, <2>2 DEF Clears, Purges
  <2> QED BY <2>1, <2>2
<1>4. \A y \in Wipers \ {x} : \A places :
           /\ Clears(y, l, places)' <=> Clears(y, l, places)
           /\ Purges(y, l, places)' <=> Purges(y, l, places)
  BY <1>0, DeleteMoves
<1>5. (JobDoomed(l) => JobDoomed(l)') /\ (ReviewLate(l)' => ReviewLate(l)) /\ (ClaimLate(l) => ClaimLate(l)')
  <2>1. JobDoomed(l) => JobDoomed(l)'
    BY <1>2, <1>3, <1>4 DEF JobDoomed
  <2>2. ReviewLate(l)' => ReviewLate(l)
    BY <1>2, <1>3, <1>4 DEF ReviewLate
  <2>3. ClaimLate(l) => ClaimLate(l)'
    BY <1>2, <1>3, <1>4 DEF ClaimLate
  <2> QED BY <2>1, <2>2, <2>3
<1>6. UNCHANGED <<jobs, results, ledger>> /\ (reviews'[l] # None => reviews'[l] = reviews[l] /\ ~reviews[l].test)
  BY DEF WipeReviews, Deleted, Doomed
<1>7. ResultJob(l)' /\ DoneResult(l)' /\ ClearOrder(l)' /\ ClaimJobs(l)' /\ ReviewJob(l)'
  BY <1>0, <1>5, <1>6 DEF LeadOK, ResultJob, DoneResult, ClearOrder, ClaimJobs, ReviewJob
<1>8. PurgeOrder(l)'
  <2>1. \A y \in Wipers : Purges(y, l, {"reviews", "jobs"})' => Purges(y, l, {"reviews", "jobs"})
    BY <1>2, <1>3, <1>4
  <2> QED BY <1>0, <1>6, <2>1 DEF LeadOK, PurgeOrder
<1>9. BatchJob(l)'
  <2> SUFFICES ASSUME NEW y \in Wipers, NEW b \in 1 .. MaxUploads, l \in ids'[y],
                      At(y, b, "results")' \/ At(y, b, "jobs")', jobs'[l] # None, jobs'[l].test
               PROVE  jobs'[l].batch = b
    BY DEF BatchJob
  <2>1. y # x
    <3>1. b # Boots
      BY SandboxAssumption DEF Boots
    <3>2. \A a, c, d, e : <<a, c>> = <<d, e>> => a = d
      OBVIOUS
    <3> QED BY <1>1, <3>1, <3>2 DEF At
  <2>2. (At(y, b, "results") \/ At(y, b, "jobs")) /\ l \in ids[y]
    BY <1>0, <2>1, WipesApart DEF At, WipeStep
  <2> QED BY <1>0, <1>6, <2>2 DEF LeadOK, BatchJob
<1>10. Fresh(l)'
  BY <1>0, <1>6 DEF LeadOK, Fresh
<1> QED BY <1>0, <1>7, <1>8, <1>9, <1>10 DEF LeadOK

LEMMA WipeLeads ==
    ASSUME SandboxInv, NEW x \in Wipers, WipeStep(x)
    PROVE  LeadsOK'
<1> SUFFICES ASSUME NEW l \in Leads, Clear(l)' PROVE LeadOK(l)'
  BY DEF LeadsOK
<1>1. CASE ~\E kind \in Kinds : DeleteStep(x, kind)
  BY <1>1, RestLeads
<1>2. ASSUME NEW kind \in Kinds, DeleteStep(x, kind) PROVE LeadOK(l)'
  <2>1. CASE l \notin ids[x]
    BY <1>2, <2>1, DeleteOthers
  <2>2. CASE l \in ids[x]
    BY <1>2, <2>2, ResultsLeads, JobsLeads, LedgerLeads, ReviewsLeads DEF DeleteStep
  <2> QED BY <2>1, <2>2
<1> QED BY <1>1, <1>2

LEMMA SandboxInvHolds == Spec => []SandboxInv
<1>1. Init => SandboxInv
  BY InitTypes, InitCounts, InitLeads DEF SandboxInv, CountInv
<1>2. SandboxInv /\ [Next]_vars => SandboxInv'
  <2>1. SandboxInv /\ [Next]_vars => CountInv'
    BY StepCounts DEF SandboxInv
  <2>2. SandboxInv /\ Next => LeadsOK'
    BY WorkerLeads, PeopleLeads, WipeLeads DEF Next
  <2>3. SandboxInv /\ UNCHANGED vars => LeadsOK'
    <3> SUFFICES ASSUME SandboxInv, UNCHANGED vars, NEW l \in Leads, Clear(l)' PROVE LeadOK(l)'
      BY DEF LeadsOK
    <3>1. LeadOK(l) /\ WipesKept(l) /\ Kept(l)
      BY DEF SandboxInv, LeadsOK, Clear, WipesKept, Kept, vars, tables, worker, wiper, history
    <3> QED BY <3>1, LeadKept
  <2> QED BY <2>1, <2>2, <2>3 DEF SandboxInv
<1> QED BY <1>1, <1>2, PTL DEF Spec

\* A wipe leaves nothing of a lead behind, and no review of it is taken for one
\* of the lead that comes back under its id, unless somebody had it in hand or
\* wrote it meanwhile (db/pg.py:299-372).
THEOREM WipesAreClean == Spec => []WipedClean
BY SandboxInvHolds, LeadsDone, PTL

\* A job that is done has the result of its own run, in its own scope, however
\* uploads, workers, requests and wipes of other leads go between
\* (pipeline/jobs.py:119-187, db/pg.py:299-338).
THEOREM DoneJobsWereRun == Spec => []DoneWasRun
BY SandboxInvHolds, LeadsDone, PTL

=============================================================================

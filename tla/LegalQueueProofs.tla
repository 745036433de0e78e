-------------------------- MODULE LegalQueueProofs --------------------------
(***************************************************************************)
(* Theorems about the legal queue, for every set of leads, documents and   *)
(* workers and any number of uploads and faults.                           *)
(***************************************************************************)
EXTENDS LegalQueue, FiniteSetTheorems, TLAPS

USE LegalQueueAssumption
    DEF leadRow, docRow, resRow, worker, claim, upload, wipe, history

(* A worker has a lead exactly while it is in the middle of its steps, and *)
(* a document while it handles what came of it.                            *)
InHand ==
    \A w \in Workers : /\ pc[w] \in {"idle", "down"} <=> lead[w] = NoLead
                       /\ pc[w] \in {"idle", "down", "claimed", "reading"} => doc[w] = NoDoc
                       /\ pc[w] = "handling" => doc[w] # NoDoc

(* While nobody else touches a lead, its status follows its worker: from   *)
(* the claim to the final save the lead reads "processing".                *)
StatusFollows ==
    \A l \in Leads \ overlapped :
        /\ Working(l) => status[l] \in Finished \cup {"processing"}
        /\ \A w \in Workers : lead[w] = l
              /\ pc[w] \in {"claimed", "reading", "counting", "handling", "saving"}
              => status[l] = "processing"

(* What comes late to a lead that nobody took away from its worker came    *)
(* after the verdict.                                                      *)
LateTold ==
    \A l \in Leads \ overlapped, d \in Docs : <<l, d>> \in late =>
        status[l] \in Finished \cup {"none"} /\ ~Working(l)

(* A document is still pending only while it is on the list of each worker *)
(* that is on the lead, or if it came late.                                *)
TodoCovers ==
    \A w \in Workers, d \in Docs : lead[w] \in Leads /\ docStatus[lead[w]][d] = "pending" =>
        /\ pc[w] \in {"reading", "counting", "handling"} => d \in todo[w] \/ <<lead[w], d>> \in late
        /\ pc[w] \in {"saving", "filing", "recount", "rescue", "completing"} => <<lead[w], d>> \in late

(* A worker that has documents reads at least one; only an empty dossier   *)
(* leads to the verdict that the documents are missing.                    *)
ReadsSome ==
    \A w \in Workers :
         /\ pc[w] \in {"reading", "counting", "handling"} =>
               nOk[w] \/ nBad[w] \/ (short[w] # {} /\ short[w] \subseteq todo[w])
         /\ pc[w] \in {"saving", "filing", "recount", "rescue"} => nOk[w] \/ nBad[w]
         /\ pc[w] \in {"filing", "recount", "rescue"} => verdict[w] # "missing_documents"
         /\ pc[w] = "completing" /\ verdict[w] = "missing_documents" =>
               \A d \in Docs : docStatus[lead[w]][d] # "none" => <<lead[w], d>> \in late

LegalInv == /\ LegalQueueTypeOK /\ InHand /\ OneReaderPerLead /\ StatusFollows
            /\ LateTold /\ TodoCovers /\ ReadsSome /\ VerdictMeansSettled /\ MissingMeansEmpty

-----------------------------------------------------------------------------
(* Counting the documents of a lead gives a number. *)
LEMMA CountIsNat == ASSUME NEW l, NEW s PROVE CountOf(l, s) \in Nat
<1> DEFINE D == {d \in Docs : docStatus[l][d] = s}
<1>1. IsFiniteSet(D)
  BY FS_Subset
<1> QED
  BY <1>1, FS_CardinalityType DEF CountOf

LEMMA NothingType == Nothing \in [Docs -> File]
  BY DEF Nothing, File

(* What a worker forgets leaves its variables in their types. *)
LEMMA ForgetTypes ==
    ASSUME NEW w \in Workers, LegalQueueTypeOK, Forget(w)
    PROVE  /\ lead' \in [Workers -> Leads \cup {NoLead}]
           /\ files' \in [Workers -> [Docs -> File]] /\ read' \in [Workers -> [Docs -> File]]
           /\ short' \in [Workers -> SUBSET Docs] /\ todo' \in [Workers -> SUBSET Docs]
           /\ doc' \in [Workers -> Docs \cup {NoDoc}]
           /\ nOk' \in [Workers -> BOOLEAN] /\ nBad' \in [Workers -> BOOLEAN]
           /\ verdict' \in [Workers -> Finished]
  BY NothingType DEF Forget, LegalQueueTypeOK, Finished

LEMMA InitTypes == Init => LegalQueueTypeOK
<1> SUFFICES ASSUME Init PROVE LegalQueueTypeOK
  OBVIOUS
<1> QED
  BY DEF Init, LegalQueueTypeOK, Nothing, File, Uploads, Status, Finished, DocStatus, DocSettled, Place, Table

(* Every step keeps every variable in its type. *)
LEMMA StepTypes == LegalQueueTypeOK /\ InHand /\ [Next]_vars => LegalQueueTypeOK'
<1> SUFFICES ASSUME LegalQueueTypeOK, InHand, [Next]_vars PROVE LegalQueueTypeOK'
  OBVIOUS
<1>a. \A w \in Workers : /\ pc[w] \in {"idle", "down"} <=> lead[w] = NoLead
                         /\ pc[w] = "handling" => doc[w] # NoDoc
  BY DEF InHand
<1> USE <1>a DEF LegalQueueTypeOK, Nothing, File, Uploads, Status, Finished, DocStatus, DocSettled, Place, Table
<1>1. ASSUME NEW ls \in (SUBSET Leads) \ {{}}, Upload(ls) PROVE LegalQueueTypeOK'
  <2>1. uploads + 1 \in Uploads /\ uploads' \in File
    BY <1>1 DEF Upload
  <2>2. scanLeads' \in [Uploads -> SUBSET Leads]
    BY <1>1 DEF Upload
  <2> QED
    BY <2>1, <2>2, <1>1 DEF Upload
<1>2. ASSUME NEW u \in Uploads, NEW l \in Leads, NEW ds \in (SUBSET Docs) \ {{}}, ScanLead(u, l, ds) PROVE LegalQueueTypeOK'
  <2>1. u \in File
    BY <1>2 DEF ScanLead
  <2>2. status' \in [Leads -> Status] /\ batch' \in [Leads -> File]
    BY <1>2 DEF ScanLead
  <2>3. older' \in SUBSET (Leads \X Leads)
    BY <1>2 DEF ScanLead, Exists
  <2>4. /\ scanLeads' \in [Uploads -> SUBSET Leads] /\ scanDocs' \in [Uploads -> SUBSET Docs]
        /\ scanLead' \in [Uploads -> Leads \cup {NoLead}]
    BY <1>2 DEF ScanLead
  <2>5. overlapped' \in SUBSET Leads /\ hit' \in SUBSET Leads /\ late' \in SUBSET (Leads \X Docs)
    BY <1>2 DEF ScanLead, InTime
  <2> QED
    BY <2>1, <2>2, <2>3, <2>4, <2>5, <1>2 DEF ScanLead
<1>3. ASSUME NEW u \in Uploads, NEW d \in Docs, ScanDoc(u, d) PROVE LegalQueueTypeOK'
  <2>1. scanLead[u] \in Leads /\ u \in File
    BY <1>3 DEF ScanDoc
  <2>2. docStatus' \in [Leads -> [Docs -> DocStatus]]
    BY <1>3 DEF ScanDoc
  <2>3. docFile' \in [Leads -> [Docs -> File]]
    BY <1>3 DEF ScanDoc
  <2>4. scanDocs' \in [Uploads -> SUBSET Docs]
    BY <1>3 DEF ScanDoc
  <2>5. overlapped' \in SUBSET Leads /\ late' \in SUBSET (Leads \X Docs)
    BY <1>3 DEF ScanDoc, Overlap
  <2> QED
    BY <2>1, <2>2, <2>3, <2>4, <2>5, <1>3 DEF ScanDoc
<1>4. ASSUME NEW u \in Uploads, ScanQueue(u) PROVE LegalQueueTypeOK'
  BY <1>4 DEF ScanQueue, SetStatus, Overlap, Busy, InTime
<1>5. ASSUME NEW us \in (SUBSET Uploads) \ {{}}, ScanBreaks(us) PROVE LegalQueueTypeOK'
  <2>1. /\ scanLeads' \in [Uploads -> SUBSET Leads] /\ scanDocs' \in [Uploads -> SUBSET Docs]
        /\ scanLead' \in [Uploads -> Leads \cup {NoLead}]
    BY <1>5 DEF ScanBreaks
  <2>2. hit' \in SUBSET Leads /\ faults' \in 0 .. MaxFaults
    BY <1>5 DEF ScanBreaks, Fault
  <2> QED
    BY <2>1, <2>2, <1>5 DEF ScanBreaks
<1>6. ASSUME NEW b \in Uploads, Pause(b) PROVE LegalQueueTypeOK'
  BY <1>6 DEF Pause, BatchAction
<1>7. ASSUME NEW b \in Uploads, Resume(b) PROVE LegalQueueTypeOK'
  BY <1>7 DEF Resume, BatchAction
<1>8. ASSUME NEW b \in Uploads, Cancel(b) PROVE LegalQueueTypeOK'
  BY <1>8 DEF Cancel, BatchAction
<1>9. ASSUME NEW w \in Workers, NEW l \in Leads, ClaimLead(w, l) PROVE LegalQueueTypeOK'
  BY <1>9 DEF ClaimLead, Claimable
<1>10. ASSUME NEW w \in Workers, NEW asked \in SUBSET Docs, ReadDocs(w, asked) PROVE LegalQueueTypeOK'
  <2>1. lead[w] \in Leads
    BY <1>10 DEF ReadDocs, Shortlist, Settle
  <2>2. docFile[lead[w]] \in [Docs -> File] /\ Nothing \in [Docs -> File]
    BY <2>1, NothingType
  <2> HIDE DEF Nothing, File
  <2> QED
    BY <2>1, <2>2, <1>10 DEF ReadDocs, Shortlist, Settle
<1>11. ASSUME NEW w \in Workers, NEW d \in Docs, SkipDoc(w, d) PROVE LegalQueueTypeOK'
  BY <1>11 DEF SkipDoc, SetDoc
<1>12. ASSUME NEW w \in Workers, NEW d \in Docs, LoseDoc(w, d) PROVE LegalQueueTypeOK'
  BY <1>12 DEF LoseDoc, SetDoc
<1>13. ASSUME NEW w \in Workers, NEW d \in Docs, NEW calls \in Calls, ReadDoc(w, d, calls) PROVE LegalQueueTypeOK'
  <2>1. lead[w] \in Leads
    BY <1>13 DEF ReadDoc, SetDoc, DocOutcome, Keep
  <2>2. files[w][d] \in File
    OBVIOUS
  <2>3. read' \in [Workers -> [Docs -> File]]
    <3> HIDE DEF File
    <3> QED
      BY <2>2, <1>13 DEF ReadDoc, Keep
  <2>4. docStatus' \in [Leads -> [Docs -> DocStatus]]
    BY <2>1, <1>13 DEF ReadDoc, SetDoc, DocOutcome
  <2> QED
    BY <2>1, <2>3, <2>4, <1>13 DEF ReadDoc
<1>14. ASSUME NEW w \in Workers, NEW d \in Docs, NEW kept \in BOOLEAN, NEW counted \in BOOLEAN, DocRaises(w, d, kept, counted) PROVE LegalQueueTypeOK'
  <2>1. files[w][d] \in File
    BY <1>14 DEF DocRaises
  <2>2. read' \in [Workers -> [Docs -> File]]
    BY <1>14 DEF DocRaises, Keep
  <2>3. /\ nOk' \in [Workers -> BOOLEAN] /\ doc' \in [Workers -> Docs \cup {NoDoc}]
        /\ pc' \in [Workers -> Place]
    BY <1>14 DEF DocRaises
  <2> QED
    BY <2>1, <2>2, <2>3, <1>14 DEF DocRaises
<1>15. ASSUME NEW w \in Workers, TryRaises(w) PROVE LegalQueueTypeOK'
  <2>1. pc' \in [Workers -> Place] /\ faults' \in 0 .. MaxFaults
    BY <1>15 DEF TryRaises, Fault
  <2> QED
    BY <1>15, <2>1 DEF TryRaises
<1>16. ASSUME NEW w \in Workers, HandleDoc(w) PROVE LegalQueueTypeOK'
  BY <1>16 DEF HandleDoc, SetDoc
<1>17. ASSUME NEW w \in Workers, CountDocs(w) PROVE LegalQueueTypeOK'
  BY <1>17, CountIsNat DEF CountDocs, Recount
<1>18. ASSUME NEW w \in Workers, SaveLead(w) PROVE LegalQueueTypeOK'
  BY <1>18 DEF SaveLead, SetStatus, FinalStatus
<1>19. ASSUME NEW w \in Workers, FileResult(w) PROVE LegalQueueTypeOK'
  BY <1>19 DEF FileResult
<1>20. ASSUME NEW w \in Workers, RecountAll(w) PROVE LegalQueueTypeOK'
  BY <1>20, CountIsNat DEF RecountAll, Recount
<1>21. ASSUME NEW w \in Workers, SaveRaises(w) PROVE LegalQueueTypeOK'
  <2>1. lead[w] \in Leads
    BY <1>21 DEF SaveRaises
  <2>2. pc' \in [Workers -> Place] /\ faults' \in 0 .. MaxFaults /\ verdict' \in [Workers -> Finished]
    BY <1>21 DEF SaveRaises, FinalStatus, Fault
  <2> QED
    BY <2>1, <2>2, <1>21 DEF SaveRaises
<1>22. ASSUME NEW w \in Workers, Rescue(w) PROVE LegalQueueTypeOK'
  BY <1>22 DEF Rescue, SetStatus
<1>23. ASSUME NEW w \in Workers, CompleteLead(w) PROVE LegalQueueTypeOK'
  <2>1. lead[w] \in Leads
    BY <1>23 DEF CompleteLead, SetStatus, Forget
  <2> QED
    BY <2>1, <1>23, ForgetTypes DEF CompleteLead, SetStatus
<1>24. ASSUME NEW w \in Workers, FailLead(w) PROVE LegalQueueTypeOK'
  <2>1. lead[w] \in Leads
    BY <1>24 DEF FailLead, SetStatus, Forget
  <2> QED
    BY <2>1, <1>24, ForgetTypes DEF FailLead, SetStatus
<1>25. ASSUME NEW w \in Workers, StepRaises(w) PROVE LegalQueueTypeOK'
  <2>1. lead[w] \in Leads
    BY <1>25 DEF StepRaises, Fault
  <2> QED
    BY <2>1, <1>25 DEF StepRaises, Fault
<1>26. ASSUME NEW w \in Workers, LoopRaises(w) PROVE LegalQueueTypeOK'
  <2>1. lead[w] \in Leads
    BY <1>26 DEF LoopRaises, Fault, Forget
  <2>2. hit' \in SUBSET Leads /\ pc' \in [Workers -> Place] /\ faults' \in 0 .. MaxFaults
    BY <2>1, <1>26 DEF LoopRaises, Fault
  <2> QED
    BY <2>2, <1>26, ForgetTypes DEF LoopRaises
<1>27. ASSUME NEW w \in Workers, Crash(w) PROVE LegalQueueTypeOK'
  BY <1>27 DEF Crash, Fault, Forget
<1>28. ASSUME NEW w \in Workers, Restart(w) PROVE LegalQueueTypeOK'
  BY <1>28 DEF Restart, Sweep
<1>29. ASSUME Boot PROVE LegalQueueTypeOK'
  <2>1. docStatus' \in [Leads -> [Docs -> DocStatus]]
    BY <1>29 DEF Boot, Sweep
  <2>2. faults' \in 0 .. MaxFaults
    BY <1>29 DEF Boot, Fault
  <2> QED
    BY <2>1, <2>2, <1>29 DEF Boot
<1>30. ASSUME NEW b \in Uploads, Wipe(b) PROVE LegalQueueTypeOK'
  BY <1>30 DEF Wipe, Fault, Exists
<1>31. ASSUME WipeDocs PROVE LegalQueueTypeOK'
  <2>1. docStatus' \in [Leads -> [Docs -> DocStatus]] /\ docFile' \in [Leads -> [Docs -> File]]
    BY <1>31 DEF WipeDocs, Cleared
  <2>2. overlapped' \in SUBSET Leads /\ hit' \in SUBSET Leads
    BY <1>31 DEF WipeDocs, WipedUnderWork
  <2> QED
    BY <2>1, <2>2, <1>31 DEF WipeDocs
<1>32. ASSUME WipeResults PROVE LegalQueueTypeOK'
  BY <1>32 DEF WipeResults, Cleared, WipedUnderWork
<1>33. ASSUME WipeLeads PROVE LegalQueueTypeOK'
  <2>1. status' \in [Leads -> Status] /\ batch' \in [Leads -> File]
    BY <1>33 DEF WipeLeads, Cleared
  <2>2. older' \in SUBSET (Leads \X Leads) /\ overlapped' \in SUBSET Leads
    BY <1>33 DEF WipeLeads, WipedUnderWork
  <2>3. processed' \in [Leads -> Nat] /\ failed' \in [Leads -> Nat]
    BY <1>33 DEF WipeLeads, Cleared
  <2>4. data' \in [Leads -> [Docs -> File]]
    BY <1>33 DEF WipeLeads, Cleared
  <2> QED
    BY <2>1, <2>2, <2>3, <2>4, <1>33 DEF WipeLeads
<1>34. ASSUME UNCHANGED vars PROVE LegalQueueTypeOK'
  BY <1>34 DEF vars
<1> HIDE DEF InHand, LegalQueueTypeOK, Nothing, File, Uploads, Status, Finished, DocStatus, DocSettled, Place, Table
<1>35. ASSUME NEW u \in Uploads, ScanStep(u) PROVE LegalQueueTypeOK'
  BY <1>35, <1>2, <1>3, <1>4 DEF ScanStep
<1>36. ASSUME NEW w \in Workers, WorkerStep(w) PROVE LegalQueueTypeOK'
  BY <1>36, <1>9, <1>10, <1>11, <1>12, <1>13, <1>14, <1>16, <1>17, <1>18,
     <1>19, <1>20, <1>22, <1>23, <1>24, <1>28 DEF WorkerStep
<1>37. ASSUME NEW w \in Workers, WorkerFault(w) PROVE LegalQueueTypeOK'
  BY <1>37, <1>15, <1>21, <1>25, <1>26, <1>27 DEF WorkerFault
<1> QED
  BY <1>1, <1>5, <1>6, <1>7, <1>8, <1>29, <1>30, <1>31, <1>32, <1>33,
     <1>34, <1>35, <1>36, <1>37 DEF Next, WipeStep

(* A worker has a lead exactly from its claim to its end. *)
LEMMA StepInHand == LegalQueueTypeOK /\ InHand /\ [Next]_vars => InHand'
<1> SUFFICES ASSUME LegalQueueTypeOK, InHand, [Next]_vars PROVE InHand'
  OBVIOUS
<1> USE DEF InHand, LegalQueueTypeOK, Place
<1>1. ASSUME NEW ls \in (SUBSET Leads) \ {{}}, Upload(ls) PROVE InHand'
  BY <1>1 DEF Upload
<1>2. ASSUME NEW u \in Uploads, NEW l \in Leads, NEW ds \in (SUBSET Docs) \ {{}}, ScanLead(u, l, ds) PROVE InHand'
  BY <1>2 DEF ScanLead, Exists, Busy, InTime
<1>3. ASSUME NEW u \in Uploads, NEW d \in Docs, ScanDoc(u, d) PROVE InHand'
  BY <1>3 DEF ScanDoc, Overlap, Busy
<1>4. ASSUME NEW u \in Uploads, ScanQueue(u) PROVE InHand'
  BY <1>4 DEF ScanQueue, SetStatus, Overlap, Busy, InTime
<1>5. ASSUME NEW us \in (SUBSET Uploads) \ {{}}, ScanBreaks(us) PROVE InHand'
  BY <1>5 DEF ScanBreaks, Fault
<1>6. ASSUME NEW b \in Uploads, Pause(b) PROVE InHand'
  BY <1>6 DEF Pause, BatchAction
<1>7. ASSUME NEW b \in Uploads, Resume(b) PROVE InHand'
  BY <1>7 DEF Resume, BatchAction
<1>8. ASSUME NEW b \in Uploads, Cancel(b) PROVE InHand'
  BY <1>8 DEF Cancel, BatchAction
<1>9. ASSUME NEW w \in Workers, NEW l \in Leads, ClaimLead(w, l) PROVE InHand'
  BY <1>9 DEF ClaimLead, Claimable
<1>10. ASSUME NEW w \in Workers, NEW asked \in SUBSET Docs, ReadDocs(w, asked) PROVE InHand'
  BY <1>10 DEF ReadDocs, Shortlist, Settle
<1>11. ASSUME NEW w \in Workers, NEW d \in Docs, SkipDoc(w, d) PROVE InHand'
  BY <1>11 DEF SkipDoc, SetDoc
<1>12. ASSUME NEW w \in Workers, NEW d \in Docs, LoseDoc(w, d) PROVE InHand'
  BY <1>12 DEF LoseDoc, SetDoc
<1>13. ASSUME NEW w \in Workers, NEW d \in Docs, NEW calls \in Calls, ReadDoc(w, d, calls) PROVE InHand'
  BY <1>13 DEF ReadDoc, SetDoc, DocOutcome, Keep
<1>14. ASSUME NEW w \in Workers, NEW d \in Docs, NEW kept \in BOOLEAN, NEW counted \in BOOLEAN, DocRaises(w, d, kept, counted) PROVE InHand'
  BY <1>14 DEF DocRaises, Keep
<1>15. ASSUME NEW w \in Workers, TryRaises(w) PROVE InHand'
  BY <1>15 DEF TryRaises, Fault
<1>16. ASSUME NEW w \in Workers, HandleDoc(w) PROVE InHand'
  BY <1>16 DEF HandleDoc, SetDoc
<1>17. ASSUME NEW w \in Workers, CountDocs(w) PROVE InHand'
  BY <1>17 DEF CountDocs, Recount
<1>18. ASSUME NEW w \in Workers, SaveLead(w) PROVE InHand'
  BY <1>18 DEF SaveLead, SetStatus, FinalStatus
<1>19. ASSUME NEW w \in Workers, FileResult(w) PROVE InHand'
  BY <1>19 DEF FileResult
<1>20. ASSUME NEW w \in Workers, RecountAll(w) PROVE InHand'
  BY <1>20 DEF RecountAll, Recount
<1>21. ASSUME NEW w \in Workers, SaveRaises(w) PROVE InHand'
  BY <1>21 DEF SaveRaises, FinalStatus, Fault
<1>22. ASSUME NEW w \in Workers, Rescue(w) PROVE InHand'
  BY <1>22 DEF Rescue, SetStatus
<1>23. ASSUME NEW w \in Workers, CompleteLead(w) PROVE InHand'
  BY <1>23 DEF CompleteLead, SetStatus, Forget
<1>24. ASSUME NEW w \in Workers, FailLead(w) PROVE InHand'
  BY <1>24 DEF FailLead, SetStatus, Forget
<1>25. ASSUME NEW w \in Workers, StepRaises(w) PROVE InHand'
  BY <1>25 DEF StepRaises, Fault
<1>26. ASSUME NEW w \in Workers, LoopRaises(w) PROVE InHand'
  BY <1>26 DEF LoopRaises, Fault, Forget
<1>27. ASSUME NEW w \in Workers, Crash(w) PROVE InHand'
  BY <1>27 DEF Crash, Fault, Forget
<1>28. ASSUME NEW w \in Workers, Restart(w) PROVE InHand'
  BY <1>28 DEF Restart, Sweep
<1>29. ASSUME Boot PROVE InHand'
  BY <1>29 DEF Boot, Sweep, Fault
<1>30. ASSUME NEW b \in Uploads, Wipe(b) PROVE InHand'
  BY <1>30 DEF Wipe, Fault, Exists
<1>31. ASSUME WipeDocs PROVE InHand'
  BY <1>31 DEF WipeDocs, Cleared, WipedUnderWork
<1>32. ASSUME WipeResults PROVE InHand'
  BY <1>32 DEF WipeResults, Cleared, WipedUnderWork
<1>33. ASSUME WipeLeads PROVE InHand'
  BY <1>33 DEF WipeLeads, Cleared, WipedUnderWork
<1>34. ASSUME UNCHANGED vars PROVE InHand'
  BY <1>34 DEF vars
<1> HIDE DEF InHand, LegalQueueTypeOK, Place
<1>35. ASSUME NEW u \in Uploads, ScanStep(u) PROVE InHand'
  BY <1>35, <1>2, <1>3, <1>4 DEF ScanStep
<1>36. ASSUME NEW w \in Workers, WorkerStep(w) PROVE InHand'
  BY <1>36, <1>9, <1>10, <1>11, <1>12, <1>13, <1>14, <1>16, <1>17, <1>18,
     <1>19, <1>20, <1>22, <1>23, <1>24, <1>28 DEF WorkerStep
<1>37. ASSUME NEW w \in Workers, WorkerFault(w) PROVE InHand'
  BY <1>37, <1>15, <1>21, <1>25, <1>26, <1>27 DEF WorkerFault
<1> QED
  BY <1>1, <1>5, <1>6, <1>7, <1>8, <1>29, <1>30, <1>31, <1>32, <1>33,
     <1>34, <1>35, <1>36, <1>37 DEF Next, WipeStep

-----------------------------------------------------------------------------
(* A claim takes a pending lead, and nobody is on such a lead unless it was
   taken away from under its worker. *)
LEMMA StepReader == LegalInv /\ [Next]_vars => OneReaderPerLead'
<1> SUFFICES ASSUME LegalInv, [Next]_vars PROVE OneReaderPerLead'
  OBVIOUS
<1> USE DEF LegalInv, InHand, LegalQueueTypeOK, OneReaderPerLead, StatusFollows, Working, Finished
<1>1. ASSUME NEW ls \in (SUBSET Leads) \ {{}}, Upload(ls) PROVE OneReaderPerLead'
  BY <1>1 DEF Upload
<1>2. ASSUME NEW u \in Uploads, NEW l \in Leads, NEW ds \in (SUBSET Docs) \ {{}}, ScanLead(u, l, ds) PROVE OneReaderPerLead'
  BY <1>2 DEF ScanLead, Exists, Busy, InTime
<1>3. ASSUME NEW u \in Uploads, NEW d \in Docs, ScanDoc(u, d) PROVE OneReaderPerLead'
  BY <1>3 DEF ScanDoc, Overlap, Busy
<1>4. ASSUME NEW u \in Uploads, ScanQueue(u) PROVE OneReaderPerLead'
  BY <1>4 DEF ScanQueue, SetStatus, Overlap, Busy, InTime
<1>5. ASSUME NEW us \in (SUBSET Uploads) \ {{}}, ScanBreaks(us) PROVE OneReaderPerLead'
  BY <1>5 DEF ScanBreaks, Fault
<1>6. ASSUME NEW b \in Uploads, Pause(b) PROVE OneReaderPerLead'
  BY <1>6 DEF Pause, BatchAction
<1>7. ASSUME NEW b \in Uploads, Resume(b) PROVE OneReaderPerLead'
  BY <1>7 DEF Resume, BatchAction
<1>8. ASSUME NEW b \in Uploads, Cancel(b) PROVE OneReaderPerLead'
  BY <1>8 DEF Cancel, BatchAction
<1>9. ASSUME NEW w \in Workers, NEW l \in Leads, ClaimLead(w, l) PROVE OneReaderPerLead'
  BY <1>9 DEF ClaimLead, Claimable
<1>10. ASSUME NEW w \in Workers, NEW asked \in SUBSET Docs, ReadDocs(w, asked) PROVE OneReaderPerLead'
  BY <1>10 DEF ReadDocs, Shortlist, Settle
<1>11. ASSUME NEW w \in Workers, NEW d \in Docs, SkipDoc(w, d) PROVE OneReaderPerLead'
  BY <1>11 DEF SkipDoc, SetDoc
<1>12. ASSUME NEW w \in Workers, NEW d \in Docs, LoseDoc(w, d) PROVE OneReaderPerLead'
  BY <1>12 DEF LoseDoc, SetDoc
<1>13. ASSUME NEW w \in Workers, NEW d \in Docs, NEW calls \in Calls, ReadDoc(w, d, calls) PROVE OneReaderPerLead'
  BY <1>13 DEF ReadDoc, SetDoc, DocOutcome, Keep
<1>14. ASSUME NEW w \in Workers, NEW d \in Docs, NEW kept \in BOOLEAN, NEW counted \in BOOLEAN, DocRaises(w, d, kept, counted) PROVE OneReaderPerLead'
  BY <1>14 DEF DocRaises, Keep
<1>15. ASSUME NEW w \in Workers, TryRaises(w) PROVE OneReaderPerLead'
  BY <1>15 DEF TryRaises, Fault
<1>16. ASSUME NEW w \in Workers, HandleDoc(w) PROVE OneReaderPerLead'
  BY <1>16 DEF HandleDoc, SetDoc
<1>17. ASSUME NEW w \in Workers, CountDocs(w) PROVE OneReaderPerLead'
  BY <1>17 DEF CountDocs, Recount
<1>18. ASSUME NEW w \in Workers, SaveLead(w) PROVE OneReaderPerLead'
  BY <1>18 DEF SaveLead, SetStatus, FinalStatus
<1>19. ASSUME NEW w \in Workers, FileResult(w) PROVE OneReaderPerLead'
  BY <1>19 DEF FileResult
<1>20. ASSUME NEW w \in Workers, RecountAll(w) PROVE OneReaderPerLead'
  BY <1>20 DEF RecountAll, Recount
<1>21. ASSUME NEW w \in Workers, SaveRaises(w) PROVE OneReaderPerLead'
  BY <1>21 DEF SaveRaises, FinalStatus, Fault
<1>22. ASSUME NEW w \in Workers, Rescue(w) PROVE OneReaderPerLead'
  BY <1>22 DEF Rescue, SetStatus
<1>23. ASSUME NEW w \in Workers, CompleteLead(w) PROVE OneReaderPerLead'
  BY <1>23 DEF CompleteLead, SetStatus, Forget
<1>24. ASSUME NEW w \in Workers, FailLead(w) PROVE OneReaderPerLead'
  BY <1>24 DEF FailLead, SetStatus, Forget
<1>25. ASSUME NEW w \in Workers, StepRaises(w) PROVE OneReaderPerLead'
  BY <1>25 DEF StepRaises, Fault
<1>26. ASSUME NEW w \in Workers, LoopRaises(w) PROVE OneReaderPerLead'
  BY <1>26 DEF LoopRaises, Fault, Forget
<1>27. ASSUME NEW w \in Workers, Crash(w) PROVE OneReaderPerLead'
  BY <1>27 DEF Crash, Fault, Forget
<1>28. ASSUME NEW w \in Workers, Restart(w) PROVE OneReaderPerLead'
  BY <1>28 DEF Restart, Sweep
<1>29. ASSUME Boot PROVE OneReaderPerLead'
  BY <1>29 DEF Boot, Sweep, Fault
<1>30. ASSUME NEW b \in Uploads, Wipe(b) PROVE OneReaderPerLead'
  BY <1>30 DEF Wipe, Fault, Exists
<1>31. ASSUME WipeDocs PROVE OneReaderPerLead'
  BY <1>31 DEF WipeDocs, Cleared, WipedUnderWork
<1>32. ASSUME WipeResults PROVE OneReaderPerLead'
  BY <1>32 DEF WipeResults, Cleared, WipedUnderWork
<1>33. ASSUME WipeLeads PROVE OneReaderPerLead'
  BY <1>33 DEF WipeLeads, Cleared, WipedUnderWork
<1>34. ASSUME UNCHANGED vars PROVE OneReaderPerLead'
  BY <1>34 DEF vars
<1> HIDE DEF LegalInv, InHand, LegalQueueTypeOK, OneReaderPerLead, StatusFollows, Working, Finished
<1>35. ASSUME NEW u \in Uploads, ScanStep(u) PROVE OneReaderPerLead'
  BY <1>35, <1>2, <1>3, <1>4 DEF ScanStep
<1>36. ASSUME NEW w \in Workers, WorkerStep(w) PROVE OneReaderPerLead'
  BY <1>36, <1>9, <1>10, <1>11, <1>12, <1>13, <1>14, <1>16, <1>17, <1>18,
     <1>19, <1>20, <1>22, <1>23, <1>24, <1>28 DEF WorkerStep
<1>37. ASSUME NEW w \in Workers, WorkerFault(w) PROVE OneReaderPerLead'
  BY <1>37, <1>15, <1>21, <1>25, <1>26, <1>27 DEF WorkerFault
<1> QED
  BY <1>1, <1>5, <1>6, <1>7, <1>8, <1>29, <1>30, <1>31, <1>32, <1>33,
     <1>34, <1>35, <1>36, <1>37 DEF Next, WipeStep

(* The status of a lead follows its worker. *)
LEMMA StepStatus == LegalInv /\ [Next]_vars => StatusFollows'
<1> SUFFICES ASSUME LegalInv, [Next]_vars PROVE StatusFollows'
  OBVIOUS
<1> USE DEF LegalInv, InHand, LegalQueueTypeOK, OneReaderPerLead, StatusFollows, Working, Finished, Place
<1>1. ASSUME NEW ls \in (SUBSET Leads) \ {{}}, Upload(ls) PROVE StatusFollows'
  BY <1>1 DEF Upload
<1>2. ASSUME NEW u \in Uploads, NEW l \in Leads, NEW ds \in (SUBSET Docs) \ {{}}, ScanLead(u, l, ds) PROVE StatusFollows'
  BY <1>2 DEF ScanLead, Exists, Busy, InTime
<1>3. ASSUME NEW u \in Uploads, NEW d \in Docs, ScanDoc(u, d) PROVE StatusFollows'
  BY <1>3 DEF ScanDoc, Overlap, Busy
<1>4. ASSUME NEW u \in Uploads, ScanQueue(u) PROVE StatusFollows'
  BY <1>4 DEF ScanQueue, SetStatus, Overlap, Busy, InTime
<1>5. ASSUME NEW us \in (SUBSET Uploads) \ {{}}, ScanBreaks(us) PROVE StatusFollows'
  BY <1>5 DEF ScanBreaks, Fault
<1>6. ASSUME NEW b \in Uploads, Pause(b) PROVE StatusFollows'
  BY <1>6 DEF Pause, BatchAction
<1>7. ASSUME NEW b \in Uploads, Resume(b) PROVE StatusFollows'
  BY <1>7 DEF Resume, BatchAction
<1>8. ASSUME NEW b \in Uploads, Cancel(b) PROVE StatusFollows'
  BY <1>8 DEF Cancel, BatchAction
<1>9. ASSUME NEW w \in Workers, NEW l \in Leads, ClaimLead(w, l) PROVE StatusFollows'
  BY <1>9 DEF ClaimLead, Claimable
<1>10. ASSUME NEW w \in Workers, NEW asked \in SUBSET Docs, ReadDocs(w, asked) PROVE StatusFollows'
  BY <1>10 DEF ReadDocs, Shortlist, Settle
<1>11. ASSUME NEW w \in Workers, NEW d \in Docs, SkipDoc(w, d) PROVE StatusFollows'
  BY <1>11 DEF SkipDoc, SetDoc
<1>12. ASSUME NEW w \in Workers, NEW d \in Docs, LoseDoc(w, d) PROVE StatusFollows'
  BY <1>12 DEF LoseDoc, SetDoc
<1>13. ASSUME NEW w \in Workers, NEW d \in Docs, NEW calls \in Calls, ReadDoc(w, d, calls) PROVE StatusFollows'
  BY <1>13 DEF ReadDoc, SetDoc, DocOutcome, Keep
<1>14. ASSUME NEW w \in Workers, NEW d \in Docs, NEW kept \in BOOLEAN, NEW counted \in BOOLEAN, DocRaises(w, d, kept, counted) PROVE StatusFollows'
  BY <1>14 DEF DocRaises, Keep
<1>15. ASSUME NEW w \in Workers, TryRaises(w) PROVE StatusFollows'
  BY <1>15 DEF TryRaises, Fault
<1>16. ASSUME NEW w \in Workers, HandleDoc(w) PROVE StatusFollows'
  BY <1>16 DEF HandleDoc, SetDoc
<1>17. ASSUME NEW w \in Workers, CountDocs(w) PROVE StatusFollows'
  BY <1>17 DEF CountDocs, Recount
<1>18. ASSUME NEW w \in Workers, SaveLead(w) PROVE StatusFollows'
  BY <1>18 DEF SaveLead, SetStatus, FinalStatus
<1>19. ASSUME NEW w \in Workers, FileResult(w) PROVE StatusFollows'
  BY <1>19 DEF FileResult
<1>20. ASSUME NEW w \in Workers, RecountAll(w) PROVE StatusFollows'
  BY <1>20 DEF RecountAll, Recount
<1>21. ASSUME NEW w \in Workers, SaveRaises(w) PROVE StatusFollows'
  BY <1>21 DEF SaveRaises, FinalStatus, Fault
<1>22. ASSUME NEW w \in Workers, Rescue(w) PROVE StatusFollows'
  BY <1>22 DEF Rescue, SetStatus
<1>23. ASSUME NEW w \in Workers, CompleteLead(w) PROVE StatusFollows'
  BY <1>23 DEF CompleteLead, SetStatus, Forget
<1>24. ASSUME NEW w \in Workers, FailLead(w) PROVE StatusFollows'
  BY <1>24 DEF FailLead, SetStatus, Forget
<1>25. ASSUME NEW w \in Workers, StepRaises(w) PROVE StatusFollows'
  BY <1>25 DEF StepRaises, Fault
<1>26. ASSUME NEW w \in Workers, LoopRaises(w) PROVE StatusFollows'
  BY <1>26 DEF LoopRaises, Fault, Forget
<1>27. ASSUME NEW w \in Workers, Crash(w) PROVE StatusFollows'
  BY <1>27 DEF Crash, Fault, Forget
<1>28. ASSUME NEW w \in Workers, Restart(w) PROVE StatusFollows'
  BY <1>28 DEF Restart, Sweep
<1>29. ASSUME Boot PROVE StatusFollows'
  BY <1>29 DEF Boot, Sweep, Fault
<1>30. ASSUME NEW b \in Uploads, Wipe(b) PROVE StatusFollows'
  BY <1>30 DEF Wipe, Fault, Exists
<1>31. ASSUME WipeDocs PROVE StatusFollows'
  BY <1>31 DEF WipeDocs, Cleared, WipedUnderWork
<1>32. ASSUME WipeResults PROVE StatusFollows'
  BY <1>32 DEF WipeResults, Cleared, WipedUnderWork
<1>33. ASSUME WipeLeads PROVE StatusFollows'
  BY <1>33 DEF WipeLeads, Cleared, WipedUnderWork
<1>34. ASSUME UNCHANGED vars PROVE StatusFollows'
  BY <1>34 DEF vars
<1> HIDE DEF LegalInv, InHand, LegalQueueTypeOK, OneReaderPerLead, StatusFollows, Working, Finished, Place
<1>35. ASSUME NEW u \in Uploads, ScanStep(u) PROVE StatusFollows'
  BY <1>35, <1>2, <1>3, <1>4 DEF ScanStep
<1>36. ASSUME NEW w \in Workers, WorkerStep(w) PROVE StatusFollows'
  BY <1>36, <1>9, <1>10, <1>11, <1>12, <1>13, <1>14, <1>16, <1>17, <1>18,
     <1>19, <1>20, <1>22, <1>23, <1>24, <1>28 DEF WorkerStep
<1>37. ASSUME NEW w \in Workers, WorkerFault(w) PROVE StatusFollows'
  BY <1>37, <1>15, <1>21, <1>25, <1>26, <1>27 DEF WorkerFault
<1> QED
  BY <1>1, <1>5, <1>6, <1>7, <1>8, <1>29, <1>30, <1>31, <1>32, <1>33,
     <1>34, <1>35, <1>36, <1>37 DEF Next, WipeStep

(* What comes while a worker is on the lead overlaps it; what comes to a lead
   that is not finished is in time. *)
LEMMA StepLate == LegalInv /\ [Next]_vars => LateTold'
<1> SUFFICES ASSUME LegalInv, [Next]_vars PROVE LateTold'
  OBVIOUS
<1> USE DEF LegalInv, InHand, LegalQueueTypeOK, LateTold, StatusFollows, Working, Finished
<1>1. ASSUME NEW ls \in (SUBSET Leads) \ {{}}, Upload(ls) PROVE LateTold'
  BY <1>1 DEF Upload
<1>2. ASSUME NEW u \in Uploads, NEW l \in Leads, NEW ds \in (SUBSET Docs) \ {{}}, ScanLead(u, l, ds) PROVE LateTold'
  BY <1>2 DEF ScanLead, Exists, Busy, InTime
<1>3. ASSUME NEW u \in Uploads, NEW d \in Docs, ScanDoc(u, d) PROVE LateTold'
  BY <1>3 DEF ScanDoc, Overlap, Busy
<1>4. ASSUME NEW u \in Uploads, ScanQueue(u) PROVE LateTold'
  BY <1>4 DEF ScanQueue, SetStatus, Overlap, Busy, InTime
<1>5. ASSUME NEW us \in (SUBSET Uploads) \ {{}}, ScanBreaks(us) PROVE LateTold'
  BY <1>5 DEF ScanBreaks, Fault
<1>6. ASSUME NEW b \in Uploads, Pause(b) PROVE LateTold'
  BY <1>6 DEF Pause, BatchAction
<1>7. ASSUME NEW b \in Uploads, Resume(b) PROVE LateTold'
  BY <1>7 DEF Resume, BatchAction
<1>8. ASSUME NEW b \in Uploads, Cancel(b) PROVE LateTold'
  BY <1>8 DEF Cancel, BatchAction
<1>9. ASSUME NEW w \in Workers, NEW l \in Leads, ClaimLead(w, l) PROVE LateTold'
  BY <1>9 DEF ClaimLead, Claimable
<1>10. ASSUME NEW w \in Workers, NEW asked \in SUBSET Docs, ReadDocs(w, asked) PROVE LateTold'
  BY <1>10 DEF ReadDocs, Shortlist, Settle
<1>11. ASSUME NEW w \in Workers, NEW d \in Docs, SkipDoc(w, d) PROVE LateTold'
  BY <1>11 DEF SkipDoc, SetDoc
<1>12. ASSUME NEW w \in Workers, NEW d \in Docs, LoseDoc(w, d) PROVE LateTold'
  BY <1>12 DEF LoseDoc, SetDoc
<1>13. ASSUME NEW w \in Workers, NEW d \in Docs, NEW calls \in Calls, ReadDoc(w, d, calls) PROVE LateTold'
  BY <1>13 DEF ReadDoc, SetDoc, DocOutcome, Keep
<1>14. ASSUME NEW w \in Workers, NEW d \in Docs, NEW kept \in BOOLEAN, NEW counted \in BOOLEAN, DocRaises(w, d, kept, counted) PROVE LateTold'
  BY <1>14 DEF DocRaises, Keep
<1>15. ASSUME NEW w \in Workers, TryRaises(w) PROVE LateTold'
  BY <1>15 DEF TryRaises, Fault
<1>16. ASSUME NEW w \in Workers, HandleDoc(w) PROVE LateTold'
  BY <1>16 DEF HandleDoc, SetDoc
<1>17. ASSUME NEW w \in Workers, CountDocs(w) PROVE LateTold'
  BY <1>17 DEF CountDocs, Recount
<1>18. ASSUME NEW w \in Workers, SaveLead(w) PROVE LateTold'
  BY <1>18 DEF SaveLead, SetStatus, FinalStatus
<1>19. ASSUME NEW w \in Workers, FileResult(w) PROVE LateTold'
  BY <1>19 DEF FileResult
<1>20. ASSUME NEW w \in Workers, RecountAll(w) PROVE LateTold'
  BY <1>20 DEF RecountAll, Recount
<1>21. ASSUME NEW w \in Workers, SaveRaises(w) PROVE LateTold'
  BY <1>21 DEF SaveRaises, FinalStatus, Fault
<1>22. ASSUME NEW w \in Workers, Rescue(w) PROVE LateTold'
  BY <1>22 DEF Rescue, SetStatus
<1>23. ASSUME NEW w \in Workers, CompleteLead(w) PROVE LateTold'
  BY <1>23 DEF CompleteLead, SetStatus, Forget
<1>24. ASSUME NEW w \in Workers, FailLead(w) PROVE LateTold'
  BY <1>24 DEF FailLead, SetStatus, Forget
<1>25. ASSUME NEW w \in Workers, StepRaises(w) PROVE LateTold'
  BY <1>25 DEF StepRaises, Fault
<1>26. ASSUME NEW w \in Workers, LoopRaises(w) PROVE LateTold'
  BY <1>26 DEF LoopRaises, Fault, Forget
<1>27. ASSUME NEW w \in Workers, Crash(w) PROVE LateTold'
  BY <1>27 DEF Crash, Fault, Forget
<1>28. ASSUME NEW w \in Workers, Restart(w) PROVE LateTold'
  BY <1>28 DEF Restart, Sweep
<1>29. ASSUME Boot PROVE LateTold'
  BY <1>29 DEF Boot, Sweep, Fault
<1>30. ASSUME NEW b \in Uploads, Wipe(b) PROVE LateTold'
  BY <1>30 DEF Wipe, Fault, Exists
<1>31. ASSUME WipeDocs PROVE LateTold'
  BY <1>31 DEF WipeDocs, Cleared, WipedUnderWork
<1>32. ASSUME WipeResults PROVE LateTold'
  BY <1>32 DEF WipeResults, Cleared, WipedUnderWork
<1>33. ASSUME WipeLeads PROVE LateTold'
  BY <1>33 DEF WipeLeads, Cleared, WipedUnderWork
<1>34. ASSUME UNCHANGED vars PROVE LateTold'
  BY <1>34 DEF vars
<1> HIDE DEF LegalInv, InHand, LegalQueueTypeOK, LateTold, StatusFollows, Working, Finished
<1>35. ASSUME NEW u \in Uploads, ScanStep(u) PROVE LateTold'
  BY <1>35, <1>2, <1>3, <1>4 DEF ScanStep
<1>36. ASSUME NEW w \in Workers, WorkerStep(w) PROVE LateTold'
  BY <1>36, <1>9, <1>10, <1>11, <1>12, <1>13, <1>14, <1>16, <1>17, <1>18,
     <1>19, <1>20, <1>22, <1>23, <1>24, <1>28 DEF WorkerStep
<1>37. ASSUME NEW w \in Workers, WorkerFault(w) PROVE LateTold'
  BY <1>37, <1>15, <1>21, <1>25, <1>26, <1>27 DEF WorkerFault
<1> QED
  BY <1>1, <1>5, <1>6, <1>7, <1>8, <1>29, <1>30, <1>31, <1>32, <1>33,
     <1>34, <1>35, <1>36, <1>37 DEF Next, WipeStep

(* What the worker has not decided about yet is still on its list. *)
LEMMA StepTodo == LegalInv /\ [Next]_vars => TodoCovers'
<1> SUFFICES ASSUME LegalInv, [Next]_vars PROVE TodoCovers'
  OBVIOUS
<1> USE DEF LegalInv, InHand, LegalQueueTypeOK, TodoCovers, Working, DocSettled, DocStatus, Place
<1>1. ASSUME NEW ls \in (SUBSET Leads) \ {{}}, Upload(ls) PROVE TodoCovers'
  BY <1>1 DEF Upload
<1>2. ASSUME NEW u \in Uploads, NEW l \in Leads, NEW ds \in (SUBSET Docs) \ {{}}, ScanLead(u, l, ds) PROVE TodoCovers'
  BY <1>2 DEF ScanLead, Exists, Busy, InTime
<1>3. ASSUME NEW u \in Uploads, NEW d \in Docs, ScanDoc(u, d) PROVE TodoCovers'
  BY <1>3 DEF ScanDoc, Overlap, Busy
<1>4. ASSUME NEW u \in Uploads, ScanQueue(u) PROVE TodoCovers'
  BY <1>4 DEF ScanQueue, SetStatus, Overlap, Busy, InTime
<1>5. ASSUME NEW us \in (SUBSET Uploads) \ {{}}, ScanBreaks(us) PROVE TodoCovers'
  BY <1>5 DEF ScanBreaks, Fault
<1>6. ASSUME NEW b \in Uploads, Pause(b) PROVE TodoCovers'
  BY <1>6 DEF Pause, BatchAction
<1>7. ASSUME NEW b \in Uploads, Resume(b) PROVE TodoCovers'
  BY <1>7 DEF Resume, BatchAction
<1>8. ASSUME NEW b \in Uploads, Cancel(b) PROVE TodoCovers'
  BY <1>8 DEF Cancel, BatchAction
<1>9. ASSUME NEW w \in Workers, NEW l \in Leads, ClaimLead(w, l) PROVE TodoCovers'
  BY <1>9 DEF ClaimLead, Claimable
<1>10. ASSUME NEW w \in Workers, NEW asked \in SUBSET Docs, ReadDocs(w, asked) PROVE TodoCovers'
  BY <1>10 DEF ReadDocs, Shortlist, Settle
<1>11. ASSUME NEW w \in Workers, NEW d \in Docs, SkipDoc(w, d) PROVE TodoCovers'
  BY <1>11 DEF SkipDoc, SetDoc
<1>12. ASSUME NEW w \in Workers, NEW d \in Docs, LoseDoc(w, d) PROVE TodoCovers'
  BY <1>12 DEF LoseDoc, SetDoc
<1>13. ASSUME NEW w \in Workers, NEW d \in Docs, NEW calls \in Calls, ReadDoc(w, d, calls) PROVE TodoCovers'
  BY <1>13 DEF ReadDoc, SetDoc, DocOutcome, Keep
<1>14. ASSUME NEW w \in Workers, NEW d \in Docs, NEW kept \in BOOLEAN, NEW counted \in BOOLEAN, DocRaises(w, d, kept, counted) PROVE TodoCovers'
  BY <1>14 DEF DocRaises, Keep
<1>15. ASSUME NEW w \in Workers, TryRaises(w) PROVE TodoCovers'
  BY <1>15 DEF TryRaises, Fault
<1>16. ASSUME NEW w \in Workers, HandleDoc(w) PROVE TodoCovers'
  BY <1>16 DEF HandleDoc, SetDoc
<1>17. ASSUME NEW w \in Workers, CountDocs(w) PROVE TodoCovers'
  BY <1>17 DEF CountDocs, Recount
<1>18. ASSUME NEW w \in Workers, SaveLead(w) PROVE TodoCovers'
  BY <1>18 DEF SaveLead, SetStatus, FinalStatus
<1>19. ASSUME NEW w \in Workers, FileResult(w) PROVE TodoCovers'
  BY <1>19 DEF FileResult
<1>20. ASSUME NEW w \in Workers, RecountAll(w) PROVE TodoCovers'
  BY <1>20 DEF RecountAll, Recount
<1>21. ASSUME NEW w \in Workers, SaveRaises(w) PROVE TodoCovers'
  BY <1>21 DEF SaveRaises, FinalStatus, Fault
<1>22. ASSUME NEW w \in Workers, Rescue(w) PROVE TodoCovers'
  BY <1>22 DEF Rescue, SetStatus
<1>23. ASSUME NEW w \in Workers, CompleteLead(w) PROVE TodoCovers'
  BY <1>23 DEF CompleteLead, SetStatus, Forget
<1>24. ASSUME NEW w \in Workers, FailLead(w) PROVE TodoCovers'
  BY <1>24 DEF FailLead, SetStatus, Forget
<1>25. ASSUME NEW w \in Workers, StepRaises(w) PROVE TodoCovers'
  BY <1>25 DEF StepRaises, Fault
<1>26. ASSUME NEW w \in Workers, LoopRaises(w) PROVE TodoCovers'
  BY <1>26 DEF LoopRaises, Fault, Forget
<1>27. ASSUME NEW w \in Workers, Crash(w) PROVE TodoCovers'
  BY <1>27 DEF Crash, Fault, Forget
<1>28. ASSUME NEW w \in Workers, Restart(w) PROVE TodoCovers'
  BY <1>28 DEF Restart, Sweep
<1>29. ASSUME Boot PROVE TodoCovers'
  BY <1>29 DEF Boot, Sweep, Fault
<1>30. ASSUME NEW b \in Uploads, Wipe(b) PROVE TodoCovers'
  BY <1>30 DEF Wipe, Fault, Exists
<1>31. ASSUME WipeDocs PROVE TodoCovers'
  BY <1>31 DEF WipeDocs, Cleared, WipedUnderWork
<1>32. ASSUME WipeResults PROVE TodoCovers'
  BY <1>32 DEF WipeResults, Cleared, WipedUnderWork
<1>33. ASSUME WipeLeads PROVE TodoCovers'
  BY <1>33 DEF WipeLeads, Cleared, WipedUnderWork
<1>34. ASSUME UNCHANGED vars PROVE TodoCovers'
  BY <1>34 DEF vars
<1> HIDE DEF LegalInv, InHand, LegalQueueTypeOK, TodoCovers, Working, DocSettled, DocStatus, Place
<1>35. ASSUME NEW u \in Uploads, ScanStep(u) PROVE TodoCovers'
  BY <1>35, <1>2, <1>3, <1>4 DEF ScanStep
<1>36. ASSUME NEW w \in Workers, WorkerStep(w) PROVE TodoCovers'
  BY <1>36, <1>9, <1>10, <1>11, <1>12, <1>13, <1>14, <1>16, <1>17, <1>18,
     <1>19, <1>20, <1>22, <1>23, <1>24, <1>28 DEF WorkerStep
<1>37. ASSUME NEW w \in Workers, WorkerFault(w) PROVE TodoCovers'
  BY <1>37, <1>15, <1>21, <1>25, <1>26, <1>27 DEF WorkerFault
<1> QED
  BY <1>1, <1>5, <1>6, <1>7, <1>8, <1>29, <1>30, <1>31, <1>32, <1>33,
     <1>34, <1>35, <1>36, <1>37 DEF Next, WipeStep

(* Reading at least one document, or having none. *)
LEMMA StepReads == LegalInv /\ [Next]_vars => ReadsSome'
<1> SUFFICES ASSUME LegalInv, [Next]_vars PROVE ReadsSome'
  OBVIOUS
<1> USE DEF LegalInv, InHand, LegalQueueTypeOK, ReadsSome, Working, Place
<1>1. ASSUME NEW ls \in (SUBSET Leads) \ {{}}, Upload(ls) PROVE ReadsSome'
  BY <1>1 DEF Upload
<1>2. ASSUME NEW u \in Uploads, NEW l \in Leads, NEW ds \in (SUBSET Docs) \ {{}}, ScanLead(u, l, ds) PROVE ReadsSome'
  BY <1>2 DEF ScanLead, Exists, Busy, InTime
<1>3. ASSUME NEW u \in Uploads, NEW d \in Docs, ScanDoc(u, d) PROVE ReadsSome'
  BY <1>3 DEF ScanDoc, Overlap, Busy
<1>4. ASSUME NEW u \in Uploads, ScanQueue(u) PROVE ReadsSome'
  BY <1>4 DEF ScanQueue, SetStatus, Overlap, Busy, InTime
<1>5. ASSUME NEW us \in (SUBSET Uploads) \ {{}}, ScanBreaks(us) PROVE ReadsSome'
  BY <1>5 DEF ScanBreaks, Fault
<1>6. ASSUME NEW b \in Uploads, Pause(b) PROVE ReadsSome'
  BY <1>6 DEF Pause, BatchAction
<1>7. ASSUME NEW b \in Uploads, Resume(b) PROVE ReadsSome'
  BY <1>7 DEF Resume, BatchAction
<1>8. ASSUME NEW b \in Uploads, Cancel(b) PROVE ReadsSome'
  BY <1>8 DEF Cancel, BatchAction
<1>9. ASSUME NEW w \in Workers, NEW l \in Leads, ClaimLead(w, l) PROVE ReadsSome'
  BY <1>9 DEF ClaimLead, Claimable
<1>10. ASSUME NEW w \in Workers, NEW asked \in SUBSET Docs, ReadDocs(w, asked) PROVE ReadsSome'
  BY <1>10 DEF ReadDocs, Shortlist, Settle
<1>11. ASSUME NEW w \in Workers, NEW d \in Docs, SkipDoc(w, d) PROVE ReadsSome'
  BY <1>11 DEF SkipDoc, SetDoc
<1>12. ASSUME NEW w \in Workers, NEW d \in Docs, LoseDoc(w, d) PROVE ReadsSome'
  BY <1>12 DEF LoseDoc, SetDoc
<1>13. ASSUME NEW w \in Workers, NEW d \in Docs, NEW calls \in Calls, ReadDoc(w, d, calls) PROVE ReadsSome'
  <2>1. nOk'[w] \/ nBad'[w]
    <3>1. CASE calls = {"err"}
      BY <1>13, <3>1 DEF ReadDoc, DocOutcome
    <3>2. CASE calls # {"err"}
      BY <1>13, <3>2 DEF ReadDoc, DocOutcome
    <3> QED
      BY <3>1, <3>2
  <2>2. \A v \in Workers \ {w} : nOk'[v] = nOk[v] /\ nBad'[v] = nBad[v] /\ todo'[v] = todo[v] /\ pc'[v] = pc[v]
    BY <1>13 DEF ReadDoc
  <2>3. pc'[w] = "counting" /\ \A l \in Leads, e \in Docs : docStatus'[l][e] # "none" => docStatus[l][e] # "none"
    BY <1>13 DEF ReadDoc, SetDoc
  <2>4. UNCHANGED <<lead, short, verdict, late>>
    BY <1>13 DEF ReadDoc
  <2>5. \A v \in Workers : pc[v] = "completing" => lead[v] \in Leads
    OBVIOUS
  <2>6. ASSUME NEW v \in Workers, pc'[v] \in {"reading", "counting", "handling"}
        PROVE  nOk'[v] \/ nBad'[v] \/ (short'[v] # {} /\ short'[v] \subseteq todo'[v])
    BY <2>1, <2>2, <2>4, <2>6
  <2>7. ASSUME NEW v \in Workers, pc'[v] \in {"saving", "filing", "recount", "rescue", "completing"}
        PROVE  v # w /\ pc'[v] = pc[v] /\ nOk'[v] = nOk[v] /\ nBad'[v] = nBad[v]
    BY <2>2, <2>3, <2>7
  <2> QED
    BY <2>3, <2>4, <2>5, <2>6, <2>7
<1>14. ASSUME NEW w \in Workers, NEW d \in Docs, NEW kept \in BOOLEAN, NEW counted \in BOOLEAN, DocRaises(w, d, kept, counted) PROVE ReadsSome'
  BY <1>14 DEF DocRaises, Keep
<1>15. ASSUME NEW w \in Workers, TryRaises(w) PROVE ReadsSome'
  BY <1>15 DEF TryRaises, Fault
<1>16. ASSUME NEW w \in Workers, HandleDoc(w) PROVE ReadsSome'
  BY <1>16 DEF HandleDoc, SetDoc
<1>17. ASSUME NEW w \in Workers, CountDocs(w) PROVE ReadsSome'
  BY <1>17 DEF CountDocs, Recount
<1>18. ASSUME NEW w \in Workers, SaveLead(w) PROVE ReadsSome'
  BY <1>18 DEF SaveLead, SetStatus, FinalStatus
<1>19. ASSUME NEW w \in Workers, FileResult(w) PROVE ReadsSome'
  BY <1>19 DEF FileResult
<1>20. ASSUME NEW w \in Workers, RecountAll(w) PROVE ReadsSome'
  BY <1>20 DEF RecountAll, Recount
<1>21. ASSUME NEW w \in Workers, SaveRaises(w) PROVE ReadsSome'
  BY <1>21 DEF SaveRaises, FinalStatus, Fault
<1>22. ASSUME NEW w \in Workers, Rescue(w) PROVE ReadsSome'
  BY <1>22 DEF Rescue, SetStatus
<1>23. ASSUME NEW w \in Workers, CompleteLead(w) PROVE ReadsSome'
  BY <1>23 DEF CompleteLead, SetStatus, Forget
<1>24. ASSUME NEW w \in Workers, FailLead(w) PROVE ReadsSome'
  BY <1>24 DEF FailLead, SetStatus, Forget
<1>25. ASSUME NEW w \in Workers, StepRaises(w) PROVE ReadsSome'
  BY <1>25 DEF StepRaises, Fault
<1>26. ASSUME NEW w \in Workers, LoopRaises(w) PROVE ReadsSome'
  BY <1>26 DEF LoopRaises, Fault, Forget
<1>27. ASSUME NEW w \in Workers, Crash(w) PROVE ReadsSome'
  BY <1>27 DEF Crash, Fault, Forget
<1>28. ASSUME NEW w \in Workers, Restart(w) PROVE ReadsSome'
  <2>1. \A l \in Leads, e \in Docs : docStatus'[l][e] # "none" => docStatus[l][e] # "none"
    BY <1>28 DEF Restart, Sweep
  <2>2. pc' = [pc EXCEPT ![w] = "idle"] /\ pc[w] = "down"
    BY <1>28 DEF Restart
  <2>3. UNCHANGED <<lead, short, todo, nOk, nBad, verdict, late>>
    BY <1>28 DEF Restart
  <2>4. \A v \in Workers : pc[v] = "completing" => lead[v] \in Leads
    OBVIOUS
  <2> QED
    BY <2>1, <2>2, <2>3, <2>4
<1>29. ASSUME Boot PROVE ReadsSome'
  BY <1>29 DEF Boot, Sweep, Fault
<1>30. ASSUME NEW b \in Uploads, Wipe(b) PROVE ReadsSome'
  BY <1>30 DEF Wipe, Fault, Exists
<1>31. ASSUME WipeDocs PROVE ReadsSome'
  BY <1>31 DEF WipeDocs, Cleared, WipedUnderWork
<1>32. ASSUME WipeResults PROVE ReadsSome'
  BY <1>32 DEF WipeResults, Cleared, WipedUnderWork
<1>33. ASSUME WipeLeads PROVE ReadsSome'
  BY <1>33 DEF WipeLeads, Cleared, WipedUnderWork
<1>34. ASSUME UNCHANGED vars PROVE ReadsSome'
  BY <1>34 DEF vars
<1> HIDE DEF LegalInv, InHand, LegalQueueTypeOK, ReadsSome, Working, Place
<1>35. ASSUME NEW u \in Uploads, ScanStep(u) PROVE ReadsSome'
  BY <1>35, <1>2, <1>3, <1>4 DEF ScanStep
<1>36. ASSUME NEW w \in Workers, WorkerStep(w) PROVE ReadsSome'
  BY <1>36, <1>9, <1>10, <1>11, <1>12, <1>13, <1>14, <1>16, <1>17, <1>18,
     <1>19, <1>20, <1>22, <1>23, <1>24, <1>28 DEF WorkerStep
<1>37. ASSUME NEW w \in Workers, WorkerFault(w) PROVE ReadsSome'
  BY <1>37, <1>15, <1>21, <1>25, <1>26, <1>27 DEF WorkerFault
<1> QED
  BY <1>1, <1>5, <1>6, <1>7, <1>8, <1>29, <1>30, <1>31, <1>32, <1>33,
     <1>34, <1>35, <1>36, <1>37 DEF Next, WipeStep

(* A verdict comes from a worker whose list is empty. *)
LEMMA StepVerdict == LegalInv /\ [Next]_vars => VerdictMeansSettled'
<1> SUFFICES ASSUME LegalInv, [Next]_vars PROVE VerdictMeansSettled'
  OBVIOUS
<1> USE DEF LegalInv, InHand, LegalQueueTypeOK, VerdictMeansSettled, TodoCovers, Working, Finished, Place
<1>1. ASSUME NEW ls \in (SUBSET Leads) \ {{}}, Upload(ls) PROVE VerdictMeansSettled'
  BY <1>1 DEF Upload
<1>2. ASSUME NEW u \in Uploads, NEW l \in Leads, NEW ds \in (SUBSET Docs) \ {{}}, ScanLead(u, l, ds) PROVE VerdictMeansSettled'
  BY <1>2 DEF ScanLead, Exists, Busy, InTime
<1>3. ASSUME NEW u \in Uploads, NEW d \in Docs, ScanDoc(u, d) PROVE VerdictMeansSettled'
  BY <1>3 DEF ScanDoc, Overlap, Busy
<1>4. ASSUME NEW u \in Uploads, ScanQueue(u) PROVE VerdictMeansSettled'
  BY <1>4 DEF ScanQueue, SetStatus, Overlap, Busy, InTime
<1>5. ASSUME NEW us \in (SUBSET Uploads) \ {{}}, ScanBreaks(us) PROVE VerdictMeansSettled'
  BY <1>5 DEF ScanBreaks, Fault
<1>6. ASSUME NEW b \in Uploads, Pause(b) PROVE VerdictMeansSettled'
  BY <1>6 DEF Pause, BatchAction
<1>7. ASSUME NEW b \in Uploads, Resume(b) PROVE VerdictMeansSettled'
  BY <1>7 DEF Resume, BatchAction
<1>8. ASSUME NEW b \in Uploads, Cancel(b) PROVE VerdictMeansSettled'
  BY <1>8 DEF Cancel, BatchAction
<1>9. ASSUME NEW w \in Workers, NEW l \in Leads, ClaimLead(w, l) PROVE VerdictMeansSettled'
  BY <1>9 DEF ClaimLead, Claimable
<1>10. ASSUME NEW w \in Workers, NEW asked \in SUBSET Docs, ReadDocs(w, asked) PROVE VerdictMeansSettled'
  BY <1>10 DEF ReadDocs, Shortlist, Settle
<1>11. ASSUME NEW w \in Workers, NEW d \in Docs, SkipDoc(w, d) PROVE VerdictMeansSettled'
  BY <1>11 DEF SkipDoc, SetDoc
<1>12. ASSUME NEW w \in Workers, NEW d \in Docs, LoseDoc(w, d) PROVE VerdictMeansSettled'
  BY <1>12 DEF LoseDoc, SetDoc
<1>13. ASSUME NEW w \in Workers, NEW d \in Docs, NEW calls \in Calls, ReadDoc(w, d, calls) PROVE VerdictMeansSettled'
  BY <1>13 DEF ReadDoc, SetDoc, DocOutcome, Keep
<1>14. ASSUME NEW w \in Workers, NEW d \in Docs, NEW kept \in BOOLEAN, NEW counted \in BOOLEAN, DocRaises(w, d, kept, counted) PROVE VerdictMeansSettled'
  BY <1>14 DEF DocRaises, Keep
<1>15. ASSUME NEW w \in Workers, TryRaises(w) PROVE VerdictMeansSettled'
  BY <1>15 DEF TryRaises, Fault
<1>16. ASSUME NEW w \in Workers, HandleDoc(w) PROVE VerdictMeansSettled'
  BY <1>16 DEF HandleDoc, SetDoc
<1>17. ASSUME NEW w \in Workers, CountDocs(w) PROVE VerdictMeansSettled'
  BY <1>17 DEF CountDocs, Recount
<1>18. ASSUME NEW w \in Workers, SaveLead(w) PROVE VerdictMeansSettled'
  BY <1>18 DEF SaveLead, SetStatus, FinalStatus
<1>19. ASSUME NEW w \in Workers, FileResult(w) PROVE VerdictMeansSettled'
  BY <1>19 DEF FileResult
<1>20. ASSUME NEW w \in Workers, RecountAll(w) PROVE VerdictMeansSettled'
  BY <1>20 DEF RecountAll, Recount
<1>21. ASSUME NEW w \in Workers, SaveRaises(w) PROVE VerdictMeansSettled'
  BY <1>21 DEF SaveRaises, FinalStatus, Fault
<1>22. ASSUME NEW w \in Workers, Rescue(w) PROVE VerdictMeansSettled'
  BY <1>22 DEF Rescue, SetStatus
<1>23. ASSUME NEW w \in Workers, CompleteLead(w) PROVE VerdictMeansSettled'
  BY <1>23 DEF CompleteLead, SetStatus, Forget
<1>24. ASSUME NEW w \in Workers, FailLead(w) PROVE VerdictMeansSettled'
  BY <1>24 DEF FailLead, SetStatus, Forget
<1>25. ASSUME NEW w \in Workers, StepRaises(w) PROVE VerdictMeansSettled'
  BY <1>25 DEF StepRaises, Fault
<1>26. ASSUME NEW w \in Workers, LoopRaises(w) PROVE VerdictMeansSettled'
  BY <1>26 DEF LoopRaises, Fault, Forget
<1>27. ASSUME NEW w \in Workers, Crash(w) PROVE VerdictMeansSettled'
  BY <1>27 DEF Crash, Fault, Forget
<1>28. ASSUME NEW w \in Workers, Restart(w) PROVE VerdictMeansSettled'
  BY <1>28 DEF Restart, Sweep
<1>29. ASSUME Boot PROVE VerdictMeansSettled'
  BY <1>29 DEF Boot, Sweep, Fault
<1>30. ASSUME NEW b \in Uploads, Wipe(b) PROVE VerdictMeansSettled'
  BY <1>30 DEF Wipe, Fault, Exists
<1>31. ASSUME WipeDocs PROVE VerdictMeansSettled'
  BY <1>31 DEF WipeDocs, Cleared, WipedUnderWork
<1>32. ASSUME WipeResults PROVE VerdictMeansSettled'
  BY <1>32 DEF WipeResults, Cleared, WipedUnderWork
<1>33. ASSUME WipeLeads PROVE VerdictMeansSettled'
  BY <1>33 DEF WipeLeads, Cleared, WipedUnderWork
<1>34. ASSUME UNCHANGED vars PROVE VerdictMeansSettled'
  BY <1>34 DEF vars
<1> HIDE DEF LegalInv, InHand, LegalQueueTypeOK, VerdictMeansSettled, TodoCovers, Working, Finished, Place
<1>35. ASSUME NEW u \in Uploads, ScanStep(u) PROVE VerdictMeansSettled'
  BY <1>35, <1>2, <1>3, <1>4 DEF ScanStep
<1>36. ASSUME NEW w \in Workers, WorkerStep(w) PROVE VerdictMeansSettled'
  BY <1>36, <1>9, <1>10, <1>11, <1>12, <1>13, <1>14, <1>16, <1>17, <1>18,
     <1>19, <1>20, <1>22, <1>23, <1>24, <1>28 DEF WorkerStep
<1>37. ASSUME NEW w \in Workers, WorkerFault(w) PROVE VerdictMeansSettled'
  BY <1>37, <1>15, <1>21, <1>25, <1>26, <1>27 DEF WorkerFault
<1> QED
  BY <1>1, <1>5, <1>6, <1>7, <1>8, <1>29, <1>30, <1>31, <1>32, <1>33,
     <1>34, <1>35, <1>36, <1>37 DEF Next, WipeStep

(* ... and 'missing documents' from one that found none. *)
LEMMA StepMissing == LegalInv /\ [Next]_vars => MissingMeansEmpty'
<1> SUFFICES ASSUME LegalInv, [Next]_vars PROVE MissingMeansEmpty'
  OBVIOUS
<1> USE DEF LegalInv, InHand, LegalQueueTypeOK, MissingMeansEmpty, ReadsSome, Working, Finished, Place
<1>1. ASSUME NEW ls \in (SUBSET Leads) \ {{}}, Upload(ls) PROVE MissingMeansEmpty'
  BY <1>1 DEF Upload
<1>2. ASSUME NEW u \in Uploads, NEW l \in Leads, NEW ds \in (SUBSET Docs) \ {{}}, ScanLead(u, l, ds) PROVE MissingMeansEmpty'
  BY <1>2 DEF ScanLead, Exists, Busy, InTime
<1>3. ASSUME NEW u \in Uploads, NEW d \in Docs, ScanDoc(u, d) PROVE MissingMeansEmpty'
  BY <1>3 DEF ScanDoc, Overlap, Busy
<1>4. ASSUME NEW u \in Uploads, ScanQueue(u) PROVE MissingMeansEmpty'
  BY <1>4 DEF ScanQueue, SetStatus, Overlap, Busy, InTime
<1>5. ASSUME NEW us \in (SUBSET Uploads) \ {{}}, ScanBreaks(us) PROVE MissingMeansEmpty'
  BY <1>5 DEF ScanBreaks, Fault
<1>6. ASSUME NEW b \in Uploads, Pause(b) PROVE MissingMeansEmpty'
  BY <1>6 DEF Pause, BatchAction
<1>7. ASSUME NEW b \in Uploads, Resume(b) PROVE MissingMeansEmpty'
  BY <1>7 DEF Resume, BatchAction
<1>8. ASSUME NEW b \in Uploads, Cancel(b) PROVE MissingMeansEmpty'
  BY <1>8 DEF Cancel, BatchAction
<1>9. ASSUME NEW w \in Workers, NEW l \in Leads, ClaimLead(w, l) PROVE MissingMeansEmpty'
  BY <1>9 DEF ClaimLead, Claimable
<1>10. ASSUME NEW w \in Workers, NEW asked \in SUBSET Docs, ReadDocs(w, asked) PROVE MissingMeansEmpty'
  BY <1>10 DEF ReadDocs, Shortlist, Settle
<1>11. ASSUME NEW w \in Workers, NEW d \in Docs, SkipDoc(w, d) PROVE MissingMeansEmpty'
  BY <1>11 DEF SkipDoc, SetDoc
<1>12. ASSUME NEW w \in Workers, NEW d \in Docs, LoseDoc(w, d) PROVE MissingMeansEmpty'
  BY <1>12 DEF LoseDoc, SetDoc
<1>13. ASSUME NEW w \in Workers, NEW d \in Docs, NEW calls \in Calls, ReadDoc(w, d, calls) PROVE MissingMeansEmpty'
  BY <1>13 DEF ReadDoc, SetDoc, DocOutcome, Keep
<1>14. ASSUME NEW w \in Workers, NEW d \in Docs, NEW kept \in BOOLEAN, NEW counted \in BOOLEAN, DocRaises(w, d, kept, counted) PROVE MissingMeansEmpty'
  BY <1>14 DEF DocRaises, Keep
<1>15. ASSUME NEW w \in Workers, TryRaises(w) PROVE MissingMeansEmpty'
  BY <1>15 DEF TryRaises, Fault
<1>16. ASSUME NEW w \in Workers, HandleDoc(w) PROVE MissingMeansEmpty'
  BY <1>16 DEF HandleDoc, SetDoc
<1>17. ASSUME NEW w \in Workers, CountDocs(w) PROVE MissingMeansEmpty'
  BY <1>17 DEF CountDocs, Recount
<1>18. ASSUME NEW w \in Workers, SaveLead(w) PROVE MissingMeansEmpty'
  BY <1>18 DEF SaveLead, SetStatus, FinalStatus
<1>19. ASSUME NEW w \in Workers, FileResult(w) PROVE MissingMeansEmpty'
  BY <1>19 DEF FileResult
<1>20. ASSUME NEW w \in Workers, RecountAll(w) PROVE MissingMeansEmpty'
  BY <1>20 DEF RecountAll, Recount
<1>21. ASSUME NEW w \in Workers, SaveRaises(w) PROVE MissingMeansEmpty'
  BY <1>21 DEF SaveRaises, FinalStatus, Fault
<1>22. ASSUME NEW w \in Workers, Rescue(w) PROVE MissingMeansEmpty'
  BY <1>22 DEF Rescue, SetStatus
<1>23. ASSUME NEW w \in Workers, CompleteLead(w) PROVE MissingMeansEmpty'
  BY <1>23 DEF CompleteLead, SetStatus, Forget
<1>24. ASSUME NEW w \in Workers, FailLead(w) PROVE MissingMeansEmpty'
  BY <1>24 DEF FailLead, SetStatus, Forget
<1>25. ASSUME NEW w \in Workers, StepRaises(w) PROVE MissingMeansEmpty'
  BY <1>25 DEF StepRaises, Fault
<1>26. ASSUME NEW w \in Workers, LoopRaises(w) PROVE MissingMeansEmpty'
  BY <1>26 DEF LoopRaises, Fault, Forget
<1>27. ASSUME NEW w \in Workers, Crash(w) PROVE MissingMeansEmpty'
  BY <1>27 DEF Crash, Fault, Forget
<1>28. ASSUME NEW w \in Workers, Restart(w) PROVE MissingMeansEmpty'
  BY <1>28 DEF Restart, Sweep
<1>29. ASSUME Boot PROVE MissingMeansEmpty'
  BY <1>29 DEF Boot, Sweep, Fault
<1>30. ASSUME NEW b \in Uploads, Wipe(b) PROVE MissingMeansEmpty'
  BY <1>30 DEF Wipe, Fault, Exists
<1>31. ASSUME WipeDocs PROVE MissingMeansEmpty'
  BY <1>31 DEF WipeDocs, Cleared, WipedUnderWork
<1>32. ASSUME WipeResults PROVE MissingMeansEmpty'
  BY <1>32 DEF WipeResults, Cleared, WipedUnderWork
<1>33. ASSUME WipeLeads PROVE MissingMeansEmpty'
  BY <1>33 DEF WipeLeads, Cleared, WipedUnderWork
<1>34. ASSUME UNCHANGED vars PROVE MissingMeansEmpty'
  BY <1>34 DEF vars
<1> HIDE DEF LegalInv, InHand, LegalQueueTypeOK, MissingMeansEmpty, ReadsSome, Working, Finished, Place
<1>35. ASSUME NEW u \in Uploads, ScanStep(u) PROVE MissingMeansEmpty'
  BY <1>35, <1>2, <1>3, <1>4 DEF ScanStep
<1>36. ASSUME NEW w \in Workers, WorkerStep(w) PROVE MissingMeansEmpty'
  BY <1>36, <1>9, <1>10, <1>11, <1>12, <1>13, <1>14, <1>16, <1>17, <1>18,
     <1>19, <1>20, <1>22, <1>23, <1>24, <1>28 DEF WorkerStep
<1>37. ASSUME NEW w \in Workers, WorkerFault(w) PROVE MissingMeansEmpty'
  BY <1>37, <1>15, <1>21, <1>25, <1>26, <1>27 DEF WorkerFault
<1> QED
  BY <1>1, <1>5, <1>6, <1>7, <1>8, <1>29, <1>30, <1>31, <1>32, <1>33,
     <1>34, <1>35, <1>36, <1>37 DEF Next, WipeStep

-----------------------------------------------------------------------------
LEMMA InitLegalInv == Init => LegalInv
<1> SUFFICES ASSUME Init PROVE LegalInv
  OBVIOUS
<1>1. LegalQueueTypeOK
  BY InitTypes
<1>2. InHand /\ OneReaderPerLead /\ StatusFollows /\ LateTold /\ TodoCovers /\ ReadsSome
  BY DEF Init, InHand, OneReaderPerLead, StatusFollows, LateTold, TodoCovers, ReadsSome, Working
<1>3. VerdictMeansSettled /\ MissingMeansEmpty
  BY DEF Init, VerdictMeansSettled, MissingMeansEmpty
<1> QED
  BY <1>1, <1>2, <1>3 DEF LegalInv

LEMMA StepLegalInv == LegalInv /\ [Next]_vars => LegalInv'
<1> SUFFICES ASSUME LegalInv, [Next]_vars PROVE LegalInv'
  OBVIOUS
<1>1. LegalQueueTypeOK' /\ InHand'
  BY StepTypes, StepInHand DEF LegalInv
<1>2. OneReaderPerLead' /\ StatusFollows' /\ LateTold' /\ TodoCovers'
  BY StepReader, StepStatus, StepLate, StepTodo
<1>3. ReadsSome' /\ VerdictMeansSettled' /\ MissingMeansEmpty'
  BY StepReads, StepVerdict, StepMissing
<1> QED
  BY <1>1, <1>2, <1>3 DEF LegalInv

THEOREM LegalInvHolds == Spec => []LegalInv
<1> QED
  BY InitLegalInv, StepLegalInv, PTL DEF Spec

(* Leads, documents, workers, uploads and deletions stay in their types. *)
THEOREM LegalQueueTypes == Spec => []LegalQueueTypeOK
<1>1. LegalInv => LegalQueueTypeOK
  BY DEF LegalInv
<1> QED
  BY <1>1, LegalInvHolds, PTL

(* claim_one_lead has no lease, yet two workers are on one lead only if it
   was uploaded again, or deleted and uploaded again, under the first. *)
THEOREM OneReader == Spec => []OneReaderPerLead
<1>1. LegalInv => OneReaderPerLead
  BY DEF LegalInv
<1> QED
  BY <1>1, LegalInvHolds, PTL

(* The comment at DOC_SETTLED in jobs.py: a finished lead has no document
   nobody decided about, but for one that an upload brought while a worker
   was on the lead or after its verdict. *)
THEOREM VerdictSettles == Spec => []VerdictMeansSettled
<1>1. LegalInv => VerdictMeansSettled
  BY DEF LegalInv
<1> QED
  BY <1>1, LegalInvHolds, PTL

(* The comment in process_lead: shortlisting never empties a dossier, so a
   lead that is said to have no documents has none, or late ones only. *)
THEOREM MissingIsEmpty == Spec => []MissingMeansEmpty
<1>1. LegalInv => MissingMeansEmpty
  BY DEF LegalInv
<1> QED
  BY <1>1, LegalInvHolds, PTL

(* A pause is kept: only a worker that was on the lead before an upload took
   it away can write over it. *)
THEOREM PauseIsKept == Spec => PauseHolds
<1>1. ASSUME LegalInv, [Next]_vars,
             NEW l \in Leads, status[l] = "paused", l \notin overlapped
      PROVE  status'[l] \in {"paused", "pending", "failed", "draft", "none"}
  <2> DEFINE Holds == status'[l] \in {"paused", "pending", "failed", "draft", "none"}
  <2>1. \A w \in Workers : lead[w] # l
    BY <1>1 DEF LegalInv, StatusFollows, Working, Finished
  <2> USE <1>1, <2>1 DEF LegalInv, LegalQueueTypeOK, Status, Finished
  <2>2. ASSUME NEW w \in Workers, WorkerStep(w) PROVE Holds
    BY <2>2 DEF WorkerStep, ClaimLead, Claimable, ReadDocs, SkipDoc, LoseDoc, ReadDoc, DocRaises,
       HandleDoc, CountDocs, SaveLead, SetStatus, FileResult, RecountAll, Rescue, CompleteLead,
       FailLead, Restart
  <2>3. ASSUME NEW w \in Workers, WorkerFault(w) PROVE Holds
    BY <2>3 DEF WorkerFault, TryRaises, SaveRaises, StepRaises, LoopRaises, Crash
  <2>4. ASSUME NEW u \in Uploads, ScanStep(u) PROVE Holds
    BY <2>4 DEF ScanStep, ScanLead, ScanDoc, ScanQueue, SetStatus
  <2>5. ASSUME NEW b \in Uploads, Pause(b) \/ Resume(b) \/ Cancel(b) \/ Wipe(b) PROVE Holds
    BY <2>5 DEF Pause, Resume, Cancel, BatchAction, Wipe
  <2>6. ASSUME WipeStep PROVE Holds
    BY <2>6 DEF WipeStep, WipeDocs, WipeResults, WipeLeads, Cleared
  <2>7. ASSUME \/ \E ls \in (SUBSET Leads) \ {{}} : Upload(ls)
               \/ \E us \in (SUBSET Uploads) \ {{}} : ScanBreaks(us)
               \/ Boot \/ UNCHANGED vars
        PROVE  Holds
    BY <2>7 DEF Upload, ScanBreaks, Boot, vars
  <2> HIDE DEF LegalInv, LegalQueueTypeOK, Status, Finished
  <2> QED
    BY <1>1, <2>2, <2>3, <2>4, <2>5, <2>6, <2>7 DEF Next
<1>2. LegalInv /\ [Next]_vars => [\A l \in Leads : status[l] = "paused" /\ l \notin overlapped
        => status'[l] \in {"paused", "pending", "failed", "draft", "none"}]_vars
  BY <1>1
<1> QED
  BY <1>2, LegalInvHolds, PTL DEF Spec, PauseHolds

-----------------------------------------------------------------------------
(* A lead is never left alone: a step that takes its worker or its upload
   away without a word is a fault. *)
LEMMA StepAttended == LegalInv /\ Attended /\ [Next]_vars => Attended'
<1> SUFFICES ASSUME LegalInv, Attended, [Next]_vars PROVE Attended'
  OBVIOUS
<1> USE DEF LegalInv, InHand, LegalQueueTypeOK, Attended, Working, Scanned, Finished, Place
<1>1. ASSUME NEW ls \in (SUBSET Leads) \ {{}}, Upload(ls) PROVE Attended'
  BY <1>1 DEF Upload
<1>2. ASSUME NEW u \in Uploads, NEW l \in Leads, NEW ds \in (SUBSET Docs) \ {{}}, ScanLead(u, l, ds) PROVE Attended'
  BY <1>2 DEF ScanLead, Exists, Busy, InTime
<1>3. ASSUME NEW u \in Uploads, NEW d \in Docs, ScanDoc(u, d) PROVE Attended'
  BY <1>3 DEF ScanDoc, Overlap, Busy
<1>4. ASSUME NEW u \in Uploads, ScanQueue(u) PROVE Attended'
  BY <1>4 DEF ScanQueue, SetStatus, Overlap, Busy, InTime
<1>5. ASSUME NEW us \in (SUBSET Uploads) \ {{}}, ScanBreaks(us) PROVE Attended'
  BY <1>5 DEF ScanBreaks, Fault
<1>6. ASSUME NEW b \in Uploads, Pause(b) PROVE Attended'
  BY <1>6 DEF Pause, BatchAction
<1>7. ASSUME NEW b \in Uploads, Resume(b) PROVE Attended'
  BY <1>7 DEF Resume, BatchAction
<1>8. ASSUME NEW b \in Uploads, Cancel(b) PROVE Attended'
  BY <1>8 DEF Cancel, BatchAction
<1>9. ASSUME NEW w \in Workers, NEW l \in Leads, ClaimLead(w, l) PROVE Attended'
  BY <1>9 DEF ClaimLead, Claimable
<1>10. ASSUME NEW w \in Workers, NEW asked \in SUBSET Docs, ReadDocs(w, asked) PROVE Attended'
  BY <1>10 DEF ReadDocs, Shortlist, Settle
<1>11. ASSUME NEW w \in Workers, NEW d \in Docs, SkipDoc(w, d) PROVE Attended'
  BY <1>11 DEF SkipDoc, SetDoc
<1>12. ASSUME NEW w \in Workers, NEW d \in Docs, LoseDoc(w, d) PROVE Attended'
  BY <1>12 DEF LoseDoc, SetDoc
<1>13. ASSUME NEW w \in Workers, NEW d \in Docs, NEW calls \in Calls, ReadDoc(w, d, calls) PROVE Attended'
  BY <1>13 DEF ReadDoc, SetDoc, DocOutcome, Keep
<1>14. ASSUME NEW w \in Workers, NEW d \in Docs, NEW kept \in BOOLEAN, NEW counted \in BOOLEAN, DocRaises(w, d, kept, counted) PROVE Attended'
  BY <1>14 DEF DocRaises, Keep
<1>15. ASSUME NEW w \in Workers, TryRaises(w) PROVE Attended'
  BY <1>15 DEF TryRaises, Fault
<1>16. ASSUME NEW w \in Workers, HandleDoc(w) PROVE Attended'
  BY <1>16 DEF HandleDoc, SetDoc
<1>17. ASSUME NEW w \in Workers, CountDocs(w) PROVE Attended'
  BY <1>17 DEF CountDocs, Recount
<1>18. ASSUME NEW w \in Workers, SaveLead(w) PROVE Attended'
  BY <1>18 DEF SaveLead, SetStatus, FinalStatus
<1>19. ASSUME NEW w \in Workers, FileResult(w) PROVE Attended'
  BY <1>19 DEF FileResult
<1>20. ASSUME NEW w \in Workers, RecountAll(w) PROVE Attended'
  BY <1>20 DEF RecountAll, Recount
<1>21. ASSUME NEW w \in Workers, SaveRaises(w) PROVE Attended'
  BY <1>21 DEF SaveRaises, FinalStatus, Fault
<1>22. ASSUME NEW w \in Workers, Rescue(w) PROVE Attended'
  BY <1>22 DEF Rescue, SetStatus
<1>23. ASSUME NEW w \in Workers, CompleteLead(w) PROVE Attended'
  BY <1>23 DEF CompleteLead, SetStatus, Forget
<1>24. ASSUME NEW w \in Workers, FailLead(w) PROVE Attended'
  BY <1>24 DEF FailLead, SetStatus, Forget
<1>25. ASSUME NEW w \in Workers, StepRaises(w) PROVE Attended'
  BY <1>25 DEF StepRaises, Fault
<1>26. ASSUME NEW w \in Workers, LoopRaises(w) PROVE Attended'
  BY <1>26 DEF LoopRaises, Fault, Forget
<1>27. ASSUME NEW w \in Workers, Crash(w) PROVE Attended'
  BY <1>27 DEF Crash, Fault, Forget
<1>28. ASSUME NEW w \in Workers, Restart(w) PROVE Attended'
  BY <1>28 DEF Restart, Sweep
<1>29. ASSUME Boot PROVE Attended'
  BY <1>29 DEF Boot, Sweep, Fault
<1>30. ASSUME NEW b \in Uploads, Wipe(b) PROVE Attended'
  BY <1>30 DEF Wipe, Fault, Exists
<1>31. ASSUME WipeDocs PROVE Attended'
  BY <1>31 DEF WipeDocs, Cleared, WipedUnderWork
<1>32. ASSUME WipeResults PROVE Attended'
  BY <1>32 DEF WipeResults, Cleared, WipedUnderWork
<1>33. ASSUME WipeLeads PROVE Attended'
  BY <1>33 DEF WipeLeads, Cleared, WipedUnderWork
<1>34. ASSUME UNCHANGED vars PROVE Attended'
  BY <1>34 DEF vars
<1> HIDE DEF LegalInv, InHand, LegalQueueTypeOK, Attended, Working, Scanned, Finished, Place
<1>35. ASSUME NEW u \in Uploads, ScanStep(u) PROVE Attended'
  BY <1>35, <1>2, <1>3, <1>4 DEF ScanStep
<1>36. ASSUME NEW w \in Workers, WorkerStep(w) PROVE Attended'
  BY <1>36, <1>9, <1>10, <1>11, <1>12, <1>13, <1>14, <1>16, <1>17, <1>18,
     <1>19, <1>20, <1>22, <1>23, <1>24, <1>28 DEF WorkerStep
<1>37. ASSUME NEW w \in Workers, WorkerFault(w) PROVE Attended'
  BY <1>37, <1>15, <1>21, <1>25, <1>26, <1>27 DEF WorkerFault
<1> QED
  BY <1>1, <1>5, <1>6, <1>7, <1>8, <1>29, <1>30, <1>31, <1>32, <1>33,
     <1>34, <1>35, <1>36, <1>37 DEF Next, WipeStep

(* Without a fault no lead stays in "processing" or "draft" with nobody on it. *)
THEOREM NobodyAbandons == Spec => []Attended
<1>1. Init => Attended
  BY DEF Init, Attended
<1> QED
  BY <1>1, StepAttended, LegalInvHolds, PTL DEF Spec
-----------------------------------------------------------------------------
(* A deletion has cleared what it has passed, and marked the leads as hit;  *)
(* a worker that came to such a lead in between has found no document.     *)
Clearing ==
    /\ wiping \in {"results", "leads"} => wiped \subseteq hit
    /\ \A l \in wiped \ overlapped :
         /\ wiping \in {"results", "leads"} =>
               /\ ~HasDocs(l)
               /\ \A w \in Workers : lead[w] = l => pc[w] \in {"claimed", "completing", "failing"}
         /\ wiping = "leads" => resStatus[l] = "none"

Alone(l) == l \notin overlapped \cup hit

(* What a worker holds of a lead nobody else touches is what its documents  *)
(* show: what it has kept of those off its list is of their present file,   *)
(* and one of them failed exactly if it remembers a failure.                *)
Held(w, l) ==
    /\ files[w] = docFile[l]
    /\ \A d \in todo[w] :
          /\ docStatus[l][d] # "none"
          /\ read[w][d] = 0 \/ (pc[w] = "handling" /\ d = doc[w] /\ read[w][d] = docFile[l][d])
    /\ \A d \in Docs \ todo[w] : read[w][d] \in Kept(docStatus[l][d], docFile[l][d])
    /\ nBad[w] <=> \E d \in Docs \ todo[w] : docStatus[l][d] = "failed"
    /\ doc[w] # NoDoc => docStatus[l][doc[w]] # "none"

(* An upload is on a row that is there, unless somebody deleted it.         *)
ScanHasRow == \A l \in Leads \ overlapped : Scanned(l) => Exists(l)

ReadSoFar ==
    \A w \in Workers, l \in Leads : lead[w] = l /\ Alone(l) =>
        /\ pc[w] \in {"reading", "counting", "handling", "saving", "filing", "recount"} => Held(w, l)
        /\ pc[w] \in {"saving", "filing", "recount"} => todo[w] = {}

(* The rows of lead l agree with each other, its outcome being s.           *)
Agree(l, s) ==
    /\ resStatus[l] = s /\ resData[l] = data[l]
    /\ \A d \in Docs : data[l][d] \in Kept(docStatus[l][d], docFile[l][d])
    /\ processed[l] = CountOf(l, "processed") /\ failed[l] = CountOf(l, "failed")
    /\ (s = "completed") <=> (failed[l] = 0)

(* The final save writes one table after the other; none of its statements *)
(* has raised.                                                             *)
SavedSoFar ==
    \A w \in Workers, l \in Leads : lead[w] = l /\ Alone(l) =>
        /\ pc[w] # "rescue"
        /\ pc[w] \in {"filing", "recount"} => data[l] = read[w] /\ verdict[w] = FinalStatus(w)
        /\ pc[w] = "recount" => resStatus[l] = verdict[w] /\ resData[l] = read[w]
        /\ pc[w] = "completing" /\ verdict[w] \in {"completed", "partial"} => Agree(l, verdict[w])

RowsInv == LegalInv /\ ScanHasRow /\ Clearing /\ NoOrphans /\ ReadSoFar /\ SavedSoFar /\ RecordsAgree

(* A step that changes nothing a lead's rows, or a worker, hold.            *)
SameRows(l) ==
    /\ status'[l] = status[l] /\ data'[l] = data[l]
    /\ processed'[l] = processed[l] /\ failed'[l] = failed[l]
    /\ docStatus'[l] = docStatus[l] /\ docFile'[l] = docFile[l]
    /\ resStatus'[l] = resStatus[l] /\ resData'[l] = resData[l]

SameWorker(w) ==
    /\ pc'[w] = pc[w] /\ lead'[w] = lead[w] /\ files'[w] = files[w] /\ todo'[w] = todo[w]
    /\ doc'[w] = doc[w] /\ nOk'[w] = nOk[w] /\ nBad'[w] = nBad[w] /\ read'[w] = read[w] /\ verdict'[w] = verdict[w]

(* The boot sweep finds nothing to do on a lead whose worker is not failing. *)
LEMMA SweepPasses ==
    ASSUME LegalInv, NEW w \in Workers, NEW l \in Leads \ overlapped, lead[w] = l,
           pc[w] # "failing", Sweep
    PROVE  docStatus'[l] = docStatus[l]
<1> USE DEF LegalInv, LegalQueueTypeOK
<1>1. status[l] \in Finished => pc[w] \in {"filing", "recount", "rescue", "completing"}
  <2>1. pc[w] \in Place /\ pc[w] \notin {"idle", "down"}
    BY DEF InHand
  <2>2. pc[w] \in {"claimed", "reading", "counting", "handling", "saving"} => status[l] = "processing"
    BY DEF StatusFollows
  <2> QED
    BY <2>1, <2>2 DEF Place, Finished
<1>2. status[l] \in Finished => \A d \in Docs : docStatus[l][d] # "pending"
  BY <1>1 DEF TodoCovers, LateTold, Working
<1>3. docStatus'[l] = [d \in Docs |-> docStatus[l][d]]
  BY <1>2 DEF Sweep
<1> QED
  BY <1>3

(* A step of anybody else leaves a worker and the lead it is on as they are, *)
(* or counts as an overlap.                                                 *)
LEMMA ElseLeavesAlone ==
    ASSUME LegalInv, NEW w \in Workers, NEW l \in Leads, lead[w] = l, pc[w] # "failing",
           \/ \E v \in Workers \ {w} : WorkerStep(v) \/ WorkerFault(v)
           \/ \E ls \in (SUBSET Leads) \ {{}} : Upload(ls)
           \/ \E u \in Uploads : ScanStep(u)
           \/ \E us \in (SUBSET Uploads) \ {{}} : ScanBreaks(us)
           \/ \E b \in Uploads : Pause(b) \/ Resume(b) \/ Cancel(b) \/ Wipe(b)
           \/ WipeStep \/ Boot \/ UNCHANGED vars,
           Alone(l)'
    PROVE  Alone(l) /\ SameWorker(w) /\ SameRows(l)
<1> DEFINE Same == Alone(l) /\ SameWorker(w) /\ SameRows(l)
<1> USE DEF LegalInv, LegalQueueTypeOK, Alone, SameWorker, SameRows
<1>1. Working(l)
  BY DEF Working
<1>2. l \notin overlapped => status[l] \in Finished \cup {"processing"}
  BY <1>1 DEF StatusFollows, Finished
<1>3. ASSUME NEW v \in Workers \ {w}, WorkerStep(v) \/ WorkerFault(v) PROVE Same
  <2>1. Alone(l)
    <3>1. CASE WorkerFault(v)
      BY <3>1 DEF WorkerFault, TryRaises, SaveRaises, StepRaises, LoopRaises, Crash
    <3>2. CASE WorkerStep(v)
      BY <3>2 DEF WorkerStep, ClaimLead, ReadDocs, SkipDoc, LoseDoc, ReadDoc, DocRaises, HandleDoc,
         CountDocs, SaveLead, FileResult, RecountAll, Rescue, CompleteLead, FailLead, Restart
    <3> QED
      BY <1>3, <3>1, <3>2
  <2>2. lead[v] # l /\ status[l] \in Finished \cup {"processing"}
    BY <1>2, <2>1 DEF OneReaderPerLead
  <2>3. ASSUME Restart(v) PROVE Same
    BY <2>1, <2>3, SweepPasses DEF Restart
  <2>4. ASSUME WorkerFault(v) PROVE Same
    BY <2>1, <2>2, <2>4 DEF WorkerFault, TryRaises, SaveRaises, StepRaises, LoopRaises, Crash, Forget
  <2>5. ASSUME \E m \in Leads : ClaimLead(v, m) PROVE Same
    BY <2>1, <2>2, <2>5 DEF ClaimLead, Claimable, Finished
  <2>11. ASSUME NEW asked \in SUBSET Docs, ReadDocs(v, asked) PROVE Same
    <3>1. UNCHANGED <<leadRow, docRow, resRow, lead>>
      BY <2>11 DEF ReadDocs
    <3>2. /\ pc'[w] = pc[w] /\ files'[w] = files[w] /\ todo'[w] = todo[w] /\ nOk'[w] = nOk[w]
          /\ doc'[w] = doc[w]
          /\ nBad'[w] = nBad[w] /\ read'[w] = read[w] /\ verdict'[w] = verdict[w]
      BY <2>11 DEF ReadDocs, Settle
    <3> QED
      BY <2>1, <3>1, <3>2
  <2>6. ASSUME NEW d \in Docs, SkipDoc(v, d) \/ LoseDoc(v, d) PROVE Same
    BY <2>1, <2>2, <2>6 DEF SkipDoc, LoseDoc, SetDoc
  <2>7. ASSUME NEW d \in Docs, NEW calls \in Calls, ReadDoc(v, d, calls) PROVE Same
    BY <2>1, <2>2, <2>7 DEF ReadDoc, SetDoc, Keep
  <2>12. ASSUME NEW d \in Docs, NEW kept \in BOOLEAN, NEW counted \in BOOLEAN,
                DocRaises(v, d, kept, counted)
         PROVE  Same
    BY <2>1, <2>2, <2>12 DEF DocRaises, Keep
  <2>13. ASSUME HandleDoc(v) PROVE Same
    BY <2>1, <2>2, <2>13 DEF HandleDoc, SetDoc
  <2>8. ASSUME CountDocs(v) \/ RecountAll(v) PROVE Same
    BY <2>1, <2>2, <2>8 DEF CountDocs, RecountAll, Recount
  <2>9. ASSUME SaveLead(v) \/ FileResult(v) \/ Rescue(v) PROVE Same
    BY <2>1, <2>2, <2>9 DEF SaveLead, FileResult, Rescue, SetStatus
  <2>10. ASSUME CompleteLead(v) \/ FailLead(v) PROVE Same
    BY <2>1, <2>2, <2>10 DEF CompleteLead, FailLead, SetStatus, Forget
  <2> QED
    BY <1>3, <2>3, <2>4, <2>5, <2>6, <2>7, <2>8, <2>9, <2>10, <2>11, <2>12, <2>13
       DEF WorkerStep
<1>4. ASSUME NEW ls \in (SUBSET Leads) \ {{}}, Upload(ls) PROVE Same
  BY <1>4 DEF Upload
<1>5. ASSUME NEW u \in Uploads, NEW m \in Leads, NEW ds \in (SUBSET Docs) \ {{}},
             ScanLead(u, m, ds)
      PROVE Same
  BY <1>1, <1>5 DEF ScanLead, Busy
<1>6. ASSUME NEW u \in Uploads, NEW d \in Docs, ScanDoc(u, d) PROVE Same
  BY <1>1, <1>2, <1>6 DEF ScanDoc, Overlap, Busy
<1>7. ASSUME NEW u \in Uploads, ScanQueue(u) PROVE Same
  BY <1>1, <1>2, <1>7 DEF ScanQueue, SetStatus, Overlap, Busy
<1>8. ASSUME NEW us \in (SUBSET Uploads) \ {{}}, ScanBreaks(us) PROVE Same
  BY <1>8 DEF ScanBreaks
<1>9. ASSUME NEW b \in Uploads, Pause(b) \/ Resume(b) \/ Cancel(b) PROVE Same
  <2>1. UNCHANGED <<batch, older, processed, failed, data, docRow, resRow, worker, history>>
    BY <1>9 DEF Pause, Resume, Cancel, BatchAction
  <2>2. Alone(l) /\ status[l] \notin {"pending", "paused"}
    BY <1>2, <2>1 DEF Finished
  <2>3. status'[l] = status[l]
    BY <1>9, <2>2 DEF Pause, Resume, Cancel, BatchAction
  <2> QED
    BY <2>1, <2>2, <2>3
<1>10. ASSUME NEW b \in Uploads, Wipe(b) PROVE Same
  BY <1>10 DEF Wipe
<1>11. ASSUME WipeStep PROVE Same
  BY <1>1, <1>11 DEF WipeStep, WipeDocs, WipeResults, WipeLeads, Cleared, WipedUnderWork
<1>12. ASSUME Boot PROVE Same
  BY <1>12, SweepPasses DEF Boot
<1>13. ASSUME UNCHANGED vars PROVE Same
  BY <1>13 DEF vars
<1> QED
  BY <1>3, <1>4, <1>5, <1>6, <1>7, <1>8, <1>9, <1>10, <1>11, <1>12, <1>13 DEF ScanStep

(* What a step does, seen from a worker: it is one of its own steps, or one *)
(* of somebody else.                                                        *)
LEMMA OwnOrElse ==
    ASSUME NEW w \in Workers, [Next]_vars
    PROVE  \/ WorkerStep(w) \/ WorkerFault(w)
           \/ \E v \in Workers \ {w} : WorkerStep(v) \/ WorkerFault(v)
           \/ \E ls \in (SUBSET Leads) \ {{}} : Upload(ls)
           \/ \E u \in Uploads : ScanStep(u)
           \/ \E us \in (SUBSET Uploads) \ {{}} : ScanBreaks(us)
           \/ \E b \in Uploads : Pause(b) \/ Resume(b) \/ Cancel(b) \/ Wipe(b)
           \/ WipeStep \/ Boot \/ UNCHANGED vars
  BY DEF Next

(* Nobody but the worker itself moves a worker. *)
LEMMA ElseKeepsWorker ==
    ASSUME LegalQueueTypeOK, NEW w \in Workers, [Next]_vars, ~ (WorkerStep(w) \/ WorkerFault(w))
    PROVE  lead'[w] = lead[w] /\ pc'[w] = pc[w]
<1> USE DEF LegalQueueTypeOK
<1>1. ASSUME NEW v \in Workers \ {w}, WorkerStep(v) PROVE lead'[w] = lead[w] /\ pc'[w] = pc[w]
  <2>1. ASSUME NEW asked \in SUBSET Docs, ReadDocs(v, asked) PROVE lead'[w] = lead[w] /\ pc'[w] = pc[w]
    BY <2>1 DEF ReadDocs, Settle
  <2>2. ASSUME NEW d \in Docs, \/ SkipDoc(v, d) \/ LoseDoc(v, d)
                              \/ \E calls \in Calls : ReadDoc(v, d, calls)
        PROVE  lead'[w] = lead[w] /\ pc'[w] = pc[w]
    BY <2>2 DEF SkipDoc, LoseDoc, ReadDoc
  <2>4. ASSUME NEW d \in Docs, NEW kept \in BOOLEAN, NEW counted \in BOOLEAN,
               DocRaises(v, d, kept, counted)
        PROVE  lead'[w] = lead[w] /\ pc'[w] = pc[w]
    BY <2>4 DEF DocRaises
  <2>3. ASSUME \/ \E l \in Leads : ClaimLead(v, l)
               \/ HandleDoc(v) \/ CountDocs(v) \/ SaveLead(v) \/ FileResult(v) \/ RecountAll(v)
               \/ Rescue(v) \/ CompleteLead(v) \/ FailLead(v) \/ Restart(v)
        PROVE  lead'[w] = lead[w] /\ pc'[w] = pc[w]
    BY <2>3 DEF ClaimLead, HandleDoc, CountDocs, SaveLead, FileResult, RecountAll, Rescue, CompleteLead,
       FailLead, Restart, Forget
  <2> QED
    BY <1>1, <2>1, <2>2, <2>3, <2>4 DEF WorkerStep
<1>2. ASSUME NEW v \in Workers \ {w}, WorkerFault(v) PROVE lead'[w] = lead[w] /\ pc'[w] = pc[w]
  BY <1>2 DEF WorkerFault, TryRaises, SaveRaises, StepRaises, LoopRaises, Crash, Forget
<1>3. ASSUME \/ \E ls \in (SUBSET Leads) \ {{}} : Upload(ls)
             \/ \E u \in Uploads : ScanStep(u)
             \/ \E us \in (SUBSET Uploads) \ {{}} : ScanBreaks(us)
             \/ \E b \in Uploads : Pause(b) \/ Resume(b) \/ Cancel(b) \/ Wipe(b)
             \/ WipeStep \/ Boot \/ UNCHANGED vars
      PROVE  lead' = lead /\ pc' = pc
  BY <1>3 DEF Upload, ScanStep, ScanLead, ScanDoc, ScanQueue, ScanBreaks, Pause, Resume, Cancel,
     BatchAction, Wipe, WipeStep, WipeDocs, WipeResults, WipeLeads, Boot, vars
<1> QED
  BY <1>1, <1>2, <1>3, OwnOrElse

(* A document that a worker takes off its list, settled as s and with x of   *)
(* it kept, leaves the account in order.                                    *)
LEMMA LeavesList ==
    ASSUME LegalQueueTypeOK, NEW w \in Workers, NEW l \in Leads, Held(w, l),
           NEW d \in todo[w], NEW s \in DocSettled, NEW x, x \in Kept(s, docFile[l][d]),
           docStatus'[l] = [docStatus[l] EXCEPT ![d] = s],
           read'[w] = [read[w] EXCEPT ![d] = x],
           docFile'[l] = docFile[l], files'[w] = files[w], todo'[w] = todo[w] \ {d},
           nBad'[w] <=> nBad[w] \/ s = "failed", doc'[w] \in {NoDoc, doc[w], d},
           pc[w] = "reading" \/ (pc[w] = "handling" /\ d = doc[w]), pc'[w] = "counting"
    PROVE  Held(w, l)'
<1> USE DEF LegalQueueTypeOK
<1>1. d \in Docs /\ docStatus'[l][d] = s /\ read'[w][d] = x
  OBVIOUS
<1>2. \A e \in Docs \ {d} : docStatus'[l][e] = docStatus[l][e] /\ read'[w][e] = read[w][e]
  OBVIOUS
<1>3. \A e \in todo'[w] : docStatus'[l][e] # "none" /\ read'[w][e] = 0
  BY <1>2 DEF Held
<1>4. \A e \in Docs \ todo'[w] : read'[w][e] \in Kept(docStatus'[l][e], docFile'[l][e])
  BY <1>1, <1>2 DEF Held
<1>5. nBad'[w] <=> \E e \in Docs \ todo'[w] : docStatus'[l][e] = "failed"
  BY <1>1, <1>2 DEF Held
<1>6. doc'[w] # NoDoc => docStatus'[l][doc'[w]] # "none"
  BY <1>1, <1>2 DEF Held, DocSettled
<1> QED
  BY <1>3, <1>4, <1>5, <1>6 DEF Held

(* A worker that nobody disturbs keeps account of what it has read. *)
LEMMA StepReadSoFar == LegalInv /\ ReadSoFar /\ [Next]_vars => ReadSoFar'
<1> SUFFICES ASSUME LegalInv, ReadSoFar, [Next]_vars,
                    NEW w \in Workers, NEW l \in Leads, (lead[w] = l)', Alone(l)'
             PROVE  (/\ pc[w] \in {"reading", "counting", "handling", "saving", "filing", "recount"} => Held(w, l)
                     /\ pc[w] \in {"saving", "filing", "recount"} => todo[w] = {})'
  BY DEF ReadSoFar
<1> DEFINE Reading == (/\ pc[w] \in {"reading", "counting", "handling", "saving", "filing", "recount"} => Held(w, l)
                       /\ pc[w] \in {"saving", "filing", "recount"} => todo[w] = {})
<1> USE DEF LegalInv, LegalQueueTypeOK
<1>1. ASSUME NEW asked \in SUBSET Docs, ReadDocs(w, asked) PROVE Reading'
  <2>1. lead[w] = l /\ Alone(l)
    BY <1>1 DEF ReadDocs, Alone
  <2> QED
    BY <1>1, <2>1 DEF ReadDocs, Held, Kept, Settle, Nothing, InHand
<1>2. ASSUME NEW d \in Docs, SkipDoc(w, d) PROVE Reading'
  <2>1. lead[w] = l /\ Alone(l) /\ Held(w, l) /\ pc[w] = "reading"
    BY <1>2 DEF SkipDoc, Alone, ReadSoFar
  <2>2. read[w][d] = 0 /\ docStatus[l][d] # "none" /\ d \in todo[w]
    BY <1>2, <2>1 DEF SkipDoc, Held
  <2>3. /\ docStatus'[l] = [docStatus[l] EXCEPT ![d] = "skipped"] /\ read'[w] = [read[w] EXCEPT ![d] = 0]
        /\ UNCHANGED <<docFile, files, nBad, doc>> /\ todo'[w] = todo[w] \ {d} /\ pc'[w] = "counting"
    BY <1>2, <2>1, <2>2 DEF SkipDoc, SetDoc
  <2>4. "skipped" \in DocSettled /\ 0 \in Kept("skipped", docFile[l][d])
    BY DEF DocSettled, Kept
  <2>5. Held(w, l)'
    BY <2>1, <2>2, <2>3, <2>4, LeavesList
  <2> QED
    BY <2>3, <2>5
<1>3. ASSUME NEW d \in Docs, LoseDoc(w, d) PROVE Reading'
  <2>1. lead[w] = l /\ Alone(l) /\ Held(w, l) /\ pc[w] = "reading"
    BY <1>3 DEF LoseDoc, Alone, ReadSoFar
  <2>2. read[w][d] = 0 /\ docStatus[l][d] # "none" /\ d \in todo[w]
    BY <1>3, <2>1 DEF LoseDoc, Held
  <2>3. /\ docStatus'[l] = [docStatus[l] EXCEPT ![d] = "failed"] /\ read'[w] = [read[w] EXCEPT ![d] = 0]
        /\ UNCHANGED <<docFile, files, doc>> /\ nBad'[w] /\ todo'[w] = todo[w] \ {d} /\ pc'[w] = "counting"
    BY <1>3, <2>1, <2>2 DEF LoseDoc, SetDoc
  <2>4. "failed" \in DocSettled /\ 0 \in Kept("failed", docFile[l][d])
    BY DEF DocSettled, Kept
  <2>5. Held(w, l)'
    BY <2>1, <2>2, <2>3, <2>4, LeavesList
  <2> QED
    BY <2>3, <2>5
<1>4. ASSUME NEW d \in Docs, NEW calls \in Calls, ReadDoc(w, d, calls) PROVE Reading'
  <2>1. lead[w] = l /\ Alone(l) /\ Held(w, l) /\ pc[w] = "reading"
    BY <1>4 DEF ReadDoc, Alone, ReadSoFar
  <2>2. read[w][d] = 0 /\ docStatus[l][d] # "none" /\ d \in todo[w]
    BY <1>4, <2>1 DEF ReadDoc, Held
  <2> DEFINE out == DocOutcome(calls)
             x   == IF out = "processed" THEN docFile[l][d] ELSE 0
  <2>3. /\ docStatus'[l] = [docStatus[l] EXCEPT ![d] = out]
        /\ UNCHANGED <<docFile, files>> /\ (nBad'[w] <=> nBad[w] \/ out = "failed")
        /\ todo'[w] = todo[w] \ {d} /\ pc'[w] = "counting" /\ doc'[w] = d
    BY <1>4, <2>1, <2>2 DEF ReadDoc, SetDoc
  <2>4. read'[w] = [read[w] EXCEPT ![d] = x]
    BY <1>4, <2>1, <2>2 DEF ReadDoc, Keep, Held
  <2>5. out \in DocSettled /\ x \in Kept(out, docFile[l][d])
    BY DEF DocSettled, Kept, DocOutcome
  <2> HIDE DEF out, x
  <2>6. Held(w, l)'
    BY <2>1, <2>2, <2>3, <2>4, <2>5, LeavesList
  <2> QED
    BY <2>3, <2>6
<1>5. ASSUME NEW d \in Docs, NEW kept \in BOOLEAN, NEW counted \in BOOLEAN,
             DocRaises(w, d, kept, counted)
      PROVE  Reading'
  <2>1. lead[w] = l /\ Alone(l) /\ Held(w, l)
    BY <1>5 DEF DocRaises, Alone, ReadSoFar
  <2>2. /\ UNCHANGED <<docRow, files, todo, nBad>> /\ doc'[w] = d /\ d \in todo[w]
        /\ pc[w] = "reading" /\ pc'[w] = "handling"
        /\ read'[w] = [read[w] EXCEPT ![d] = IF kept THEN files[w][d] ELSE read[w][d]]
    BY <1>5 DEF DocRaises, Keep
  <2> QED
    BY <2>1, <2>2 DEF Held
<1>6. ASSUME HandleDoc(w) PROVE Reading'
  <2>1. lead[w] = l /\ Alone(l) /\ Held(w, l) /\ doc[w] \in Docs /\ pc[w] = "handling"
    BY <1>6 DEF HandleDoc, Alone, ReadSoFar, InHand
  <2> DEFINE x == read[w][doc[w]]
  <2>2. /\ UNCHANGED <<docFile, files>> /\ nBad'[w] /\ todo'[w] = todo[w] \ {doc[w]} /\ pc'[w] = "counting"
        /\ doc'[w] = NoDoc /\ read'[w] = [read[w] EXCEPT ![doc[w]] = x]
    BY <1>6, <2>1 DEF HandleDoc
  <2>3. CASE doc[w] \in todo[w]
    <3>1. docStatus'[l] = [docStatus[l] EXCEPT ![doc[w]] = "failed"]
      BY <1>6, <2>1, <2>3 DEF HandleDoc, SetDoc, Held
    <3>2. "failed" \in DocSettled /\ x \in Kept("failed", docFile[l][doc[w]])
      BY <2>1, <2>3 DEF DocSettled, Kept, Held
    <3>3. Held(w, l)'
      BY <2>1, <2>2, <2>3, <3>1, <3>2, LeavesList
    <3> QED
      BY <2>2, <3>3
  <2>4. CASE doc[w] \notin todo[w]
    <3>1. docStatus'[l] = [docStatus[l] EXCEPT ![doc[w]] = "failed"] /\ read' = read
      BY <1>6, <2>1, <2>4 DEF HandleDoc, SetDoc, Held
    <3>2. todo'[w] = todo[w]
      BY <2>2, <2>4
    <3>3. x \in Kept("failed", docFile[l][doc[w]])
      BY <2>1, <2>4 DEF Kept, Held
    <3>4. \A e \in Docs : docStatus'[l][e] = IF e = doc[w] THEN "failed" ELSE docStatus[l][e]
      BY <2>1, <3>1
    <3>5. \A e \in todo'[w] : docStatus'[l][e] # "none" /\ read'[w][e] = 0
      BY <2>1, <2>4, <3>1, <3>2, <3>4 DEF Held
    <3>6. \A e \in Docs \ todo'[w] : read'[w][e] \in Kept(docStatus'[l][e], docFile'[l][e])
      BY <2>1, <2>2, <3>1, <3>2, <3>3, <3>4 DEF Held
    <3>7. Held(w, l)'
      BY <2>1, <2>2, <2>4, <3>2, <3>4, <3>5, <3>6 DEF Held
    <3> QED
      BY <2>2, <3>7
  <2> QED
    BY <2>3, <2>4
<1>7. ASSUME TryRaises(w) PROVE Reading'
  <2>1. lead[w] = l /\ Alone(l) /\ Held(w, l)
    BY <1>7 DEF TryRaises, Alone, ReadSoFar
  <2>2. UNCHANGED <<docRow, files, todo, nBad, read, doc>> /\ pc[w] = "counting" /\ pc'[w] = "handling"
    BY <1>7 DEF TryRaises
  <2> QED
    BY <2>1, <2>2 DEF Held
<1>8. ASSUME CountDocs(w) \/ SaveLead(w) \/ FileResult(w) PROVE Reading'
  <2>1. lead[w] = l /\ Alone(l)
    BY <1>8 DEF CountDocs, SaveLead, FileResult, Alone
  <2> QED
    BY <1>8, <2>1 DEF CountDocs, SaveLead, FileResult, Held, ReadSoFar
<1>9. ASSUME \/ \E m \in Leads : ClaimLead(w, m)
             \/ RecountAll(w) \/ Rescue(w) \/ CompleteLead(w) \/ FailLead(w) \/ Restart(w)
             \/ SaveRaises(w) \/ StepRaises(w) \/ LoopRaises(w) \/ Crash(w)
      PROVE  Reading'
  BY <1>9 DEF ClaimLead, RecountAll, Rescue, CompleteLead, FailLead, Restart,
     SaveRaises, StepRaises, LoopRaises, Crash
<1>10. ASSUME ~ (WorkerStep(w) \/ WorkerFault(w)) PROVE Reading'
  <2>1. lead[w] = l /\ pc'[w] = pc[w]
    BY <1>10, OwnOrElse, ElseKeepsWorker
  <2>2. CASE pc[w] = "failing"
    BY <2>1, <2>2
  <2>3. CASE pc[w] # "failing"
    <3>1. Alone(l) /\ SameWorker(w) /\ SameRows(l)
      BY <1>10, <2>1, <2>3, OwnOrElse, ElseLeavesAlone
    <3> QED
      BY <2>1, <3>1 DEF ReadSoFar, Held, SameWorker, SameRows
  <2> QED
    BY <2>2, <2>3
<1>11. Reading'
  <2> HIDE DEF LegalInv, LegalQueueTypeOK, Reading
  <2>1. CASE WorkerStep(w)
    BY <2>1, <1>1, <1>2, <1>3, <1>4, <1>5, <1>6, <1>8, <1>9 DEF WorkerStep
  <2>2. CASE WorkerFault(w)
    BY <2>2, <1>7, <1>9 DEF WorkerFault
  <2> QED
    BY <2>1, <2>2, <1>10
<1> QED
  BY <1>11

(* Two documents that show the same status count the same. *)
LEMMA CountSame ==
    ASSUME NEW l, NEW s, docStatus'[l] = docStatus[l] PROVE CountOf(l, s)' = CountOf(l, s)
  BY DEF CountOf

(* No document counts exactly if none shows the status. *)
LEMMA CountZero ==
    ASSUME NEW l, NEW s PROVE CountOf(l, s) = 0 <=> \A d \in Docs : docStatus[l][d] # s
<1> DEFINE D == {d \in Docs : docStatus[l][d] = s}
<1>1. IsFiniteSet(D)
  BY FS_Subset
<1>2. Cardinality(D) = 0 <=> D = {}
  BY <1>1, FS_EmptySet
<1> QED
  BY <1>2 DEF CountOf

(* The statements of the final save, from the lead's own row to the last    *)
(* count, leave rows that agree, if no fault and nobody else comes between. *)
LEMMA StepSavedSoFar == LegalInv /\ ReadSoFar /\ SavedSoFar /\ [Next]_vars => SavedSoFar'
<1> DEFINE Saved(w, l) ==
      /\ pc[w] # "rescue"
      /\ pc[w] \in {"filing", "recount"} => data[l] = read[w] /\ verdict[w] = FinalStatus(w)
      /\ pc[w] = "recount" => resStatus[l] = verdict[w] /\ resData[l] = read[w]
      /\ pc[w] = "completing" /\ verdict[w] \in {"completed", "partial"} => Agree(l, verdict[w])
<1> SUFFICES ASSUME LegalInv, ReadSoFar, SavedSoFar, [Next]_vars,
                    NEW w \in Workers, NEW l \in Leads, (lead[w] = l)', Alone(l)'
             PROVE  Saved(w, l)'
  BY DEF SavedSoFar
<1>1. lead[w] = l /\ Alone(l) => Saved(w, l)
  BY DEF SavedSoFar
<1> USE DEF LegalInv, LegalQueueTypeOK
<1>2. lead[w] = l /\ Alone(l) => Exists(l)
  BY DEF Exists, StatusFollows, Working, Finished, Alone
<1>3. ASSUME NEW asked \in SUBSET Docs, ReadDocs(w, asked) PROVE Saved(w, l)'
  BY <1>3 DEF ReadDocs, Settle
<1>4. ASSUME NEW d \in Docs, SkipDoc(w, d) \/ LoseDoc(w, d) PROVE Saved(w, l)'
  BY <1>4 DEF SkipDoc, LoseDoc
<1>5. ASSUME NEW d \in Docs, \/ \E calls \in Calls : ReadDoc(w, d, calls)
                             \/ \E kept, counted \in BOOLEAN : DocRaises(w, d, kept, counted)
      PROVE  Saved(w, l)'
  BY <1>5 DEF ReadDoc, DocRaises
<1>6. ASSUME \/ \E m \in Leads : ClaimLead(w, m)
             \/ HandleDoc(w) \/ CountDocs(w) \/ CompleteLead(w) \/ FailLead(w) \/ Restart(w)
             \/ TryRaises(w) \/ StepRaises(w) \/ LoopRaises(w) \/ Crash(w)
      PROVE  Saved(w, l)'
  BY <1>6 DEF ClaimLead, HandleDoc, CountDocs, CompleteLead, FailLead, Restart, TryRaises,
     StepRaises, LoopRaises, Crash
<1>7. ASSUME SaveLead(w) PROVE Saved(w, l)'
  <2>1. lead[w] = l /\ Exists(l)
    BY <1>2, <1>7 DEF SaveLead, Alone
  <2> QED
    BY <1>7, <2>1 DEF SaveLead, FinalStatus
<1>8. ASSUME FileResult(w) PROVE Saved(w, l)'
  <2>1. lead[w] = l /\ Saved(w, l)
    BY <1>1, <1>8 DEF FileResult, Alone
  <2> QED
    BY <1>8, <2>1 DEF FileResult, FinalStatus
<1>9. ASSUME RecountAll(w) PROVE Saved(w, l)'
  <2>1. lead[w] = l /\ Alone(l) /\ Saved(w, l) /\ Exists(l) /\ pc[w] = "recount"
    BY <1>1, <1>2, <1>9 DEF RecountAll, Alone
  <2>2. Held(w, l) /\ todo[w] = {}
    BY <2>1 DEF ReadSoFar
  <2>3. /\ processed'[l] = CountOf(l, "processed") /\ failed'[l] = CountOf(l, "failed")
        /\ UNCHANGED <<data, docRow, resRow, verdict>> /\ pc'[w] = "completing"
    BY <1>9, <2>1 DEF RecountAll, Recount
  <2>4. nBad[w] <=> CountOf(l, "failed") # 0
    BY <2>2, CountZero DEF Held
  <2>5. verdict[w] \in {"completed", "partial"} => (verdict[w] = "completed" <=> ~nBad[w])
    BY <2>1 DEF FinalStatus
  <2>6. \A d \in Docs : data[l][d] \in Kept(docStatus[l][d], docFile[l][d])
    BY <2>1, <2>2 DEF Held
  <2>7. CountOf(l, "processed")' = CountOf(l, "processed") /\ CountOf(l, "failed")' = CountOf(l, "failed")
    BY <2>3, CountSame
  <2>8. verdict[w] \in {"completed", "partial"} => Agree(l, verdict[w])'
    BY <2>1, <2>3, <2>4, <2>5, <2>6, <2>7 DEF Agree
  <2> QED
    BY <2>3, <2>8
<1>10. ASSUME SaveRaises(w) \/ Rescue(w) PROVE Saved(w, l)'
  <2>1. lead'[w] = lead[w] /\ hit \subseteq hit' /\ overlapped' = overlapped
    BY <1>10 DEF SaveRaises, Rescue
  <2>2. CASE SaveRaises(w)
    BY <2>1, <2>2 DEF SaveRaises, Alone
  <2>3. CASE Rescue(w)
    BY <1>1, <2>1, <2>3 DEF Rescue, Alone
  <2> QED
    BY <1>10, <2>2, <2>3
<1>11. ASSUME ~ (WorkerStep(w) \/ WorkerFault(w)) PROVE Saved(w, l)'
  <2>1. lead[w] = l /\ pc'[w] = pc[w]
    BY <1>11, OwnOrElse, ElseKeepsWorker
  <2>2. CASE pc[w] = "failing"
    BY <2>1, <2>2
  <2>3. CASE pc[w] # "failing"
    <3>1. Alone(l) /\ SameWorker(w) /\ SameRows(l)
      BY <1>11, <2>1, <2>3, OwnOrElse, ElseLeavesAlone
    <3>2. Agree(l, verdict[w])' <=> Agree(l, verdict[w])
      BY <3>1, CountSame DEF SameWorker, SameRows, Agree
    <3> QED
      BY <1>1, <2>1, <3>1, <3>2 DEF SameWorker, SameRows, FinalStatus
  <2> QED
    BY <2>2, <2>3
<1> QED
  BY <1>3, <1>4, <1>5, <1>6, <1>7, <1>8, <1>9, <1>10, <1>11 DEF WorkerStep, WorkerFault

(* What the boot sweep skips has left nothing in the extraction. *)
LEMMA SweepAgrees ==
    ASSUME LegalQueueTypeOK, NEW l \in Leads, NEW s, Agree(l, s), Sweep,
           UNCHANGED <<leadRow, docFile, resRow>>
    PROVE  Agree(l, s)'
<1> USE DEF LegalQueueTypeOK
<1>1. \A d \in Docs : docStatus'[l][d] = docStatus[l][d]
                      \/ (docStatus[l][d] = "pending" /\ docStatus'[l][d] = "skipped")
  BY DEF Sweep
<1>2. \A d \in Docs : Kept(docStatus'[l][d], docFile[l][d]) = Kept(docStatus[l][d], docFile[l][d])
  BY <1>1 DEF Kept
<1>3. ASSUME NEW t \in {"processed", "failed"} PROVE CountOf(l, t)' = CountOf(l, t)
  <2>1. {d \in Docs : docStatus'[l][d] = t} = {d \in Docs : docStatus[l][d] = t}
    BY <1>1
  <2> QED
    BY <2>1 DEF CountOf
<1> QED
  BY <1>2, <1>3 DEF Agree, Kept

(* The rows of a lead nobody is on change only with a deletion, a process   *)
(* start or the upload that takes the verdict away.                         *)
LEMMA RestsUnchanged ==
    ASSUME LegalInv, Clearing, [Next]_vars, NEW l \in Leads, ~Working(l), ~Working(l)',
           ~Scanned(l)', status'[l] \in {"completed", "partial"}, Alone(l)'
    PROVE  /\ Alone(l) /\ ~Scanned(l)
           /\ SameRows(l) \/ (Sweep /\ UNCHANGED <<leadRow, docFile, resRow>>)
<1> DEFINE Swept == Sweep /\ UNCHANGED <<leadRow, docFile, resRow>>
<1> DEFINE Same == Alone(l) /\ ~Scanned(l) /\ (SameRows(l) \/ Swept)
<1> USE DEF LegalInv, LegalQueueTypeOK, Alone, SameRows, Working, Scanned
<1>1. ASSUME NEW v \in Workers, WorkerStep(v) PROVE Same
  <2>1. lead[v] # l /\ lead'[v] # l
    OBVIOUS
  <2>2. ASSUME Restart(v) PROVE Same
    BY <2>2 DEF Restart
  <2>3. ASSUME NEW m \in Leads, ClaimLead(v, m) PROVE Same
    BY <2>1, <2>3 DEF ClaimLead
  <2>4. ASSUME NEW asked \in SUBSET Docs, ReadDocs(v, asked) PROVE Same
    BY <2>4 DEF ReadDocs
  <2>5. ASSUME NEW d \in Docs, SkipDoc(v, d) \/ LoseDoc(v, d) PROVE Same
    BY <2>1, <2>5 DEF SkipDoc, LoseDoc, SetDoc
  <2>10. ASSUME NEW d \in Docs, NEW kept \in BOOLEAN, NEW counted \in BOOLEAN,
                DocRaises(v, d, kept, counted)
         PROVE  Same
    BY <2>1, <2>10 DEF DocRaises
  <2>11. ASSUME HandleDoc(v) PROVE Same
    BY <2>1, <2>11 DEF HandleDoc, SetDoc
  <2>6. ASSUME NEW d \in Docs, NEW calls \in Calls, ReadDoc(v, d, calls) PROVE Same
    BY <2>1, <2>6 DEF ReadDoc, SetDoc
  <2>7. ASSUME CountDocs(v) \/ RecountAll(v) PROVE Same
    BY <2>1, <2>7 DEF CountDocs, RecountAll, Recount
  <2>8. ASSUME SaveLead(v) \/ FileResult(v) \/ Rescue(v) PROVE Same
    BY <2>1, <2>8 DEF SaveLead, FileResult, Rescue, SetStatus
  <2>9. ASSUME CompleteLead(v) \/ FailLead(v) PROVE Same
    BY <2>1, <2>9 DEF CompleteLead, FailLead, SetStatus
  <2> QED
    BY <1>1, <2>2, <2>3, <2>4, <2>5, <2>6, <2>7, <2>8, <2>9, <2>10, <2>11
       DEF WorkerStep
<1>2. ASSUME NEW v \in Workers, WorkerFault(v) PROVE Same
  BY <1>2 DEF WorkerFault, TryRaises, SaveRaises, StepRaises, LoopRaises, Crash
<1>3. ASSUME NEW ls \in (SUBSET Leads) \ {{}}, Upload(ls) PROVE Same
  BY <1>3 DEF Upload
<1>4. ASSUME NEW u \in Uploads, NEW m \in Leads, NEW ds \in (SUBSET Docs) \ {{}},
             ScanLead(u, m, ds)
      PROVE Same
  BY <1>4 DEF ScanLead
<1>5. ASSUME NEW u \in Uploads, NEW d \in Docs, ScanDoc(u, d) PROVE Same
  <2>1. scanLead[u] # l /\ scanLead' = scanLead
    BY <1>5 DEF ScanDoc
  <2> QED
    BY <1>5, <2>1 DEF ScanDoc, Overlap
<1>6. ASSUME NEW u \in Uploads, ScanQueue(u) PROVE Same
  <2>1. scanLead[u] # l
    BY <1>6 DEF ScanQueue, SetStatus
  <2> QED
    BY <1>6, <2>1 DEF ScanQueue, SetStatus, Overlap
<1>7. ASSUME NEW us \in (SUBSET Uploads) \ {{}}, ScanBreaks(us) PROVE Same
  BY <1>7 DEF ScanBreaks
<1>8. ASSUME NEW b \in Uploads, Pause(b) \/ Resume(b) \/ Cancel(b) PROVE Same
  BY <1>8 DEF Pause, Resume, Cancel, BatchAction
<1>9. ASSUME NEW b \in Uploads, Wipe(b) PROVE Same
  BY <1>9 DEF Wipe
<1>10. ASSUME WipeStep PROVE Same
  BY <1>10 DEF WipeStep, WipeDocs, WipeResults, WipeLeads, Cleared, WipedUnderWork, Clearing
<1>11. ASSUME Boot PROVE Same
  BY <1>11 DEF Boot
<1>12. ASSUME UNCHANGED vars PROVE Same
  BY <1>12 DEF vars
<1> QED
  BY <1>1, <1>2, <1>3, <1>4, <1>5, <1>6, <1>7, <1>8, <1>9, <1>10, <1>11, <1>12 DEF Next, ScanStep

(* A finished lead got its rows from the worker that has just left it, or   *)
(* had them before.                                                         *)
LEMMA StepRecords ==
    LegalInv /\ Clearing /\ SavedSoFar /\ RecordsAgree /\ [Next]_vars => RecordsAgree'
<1> SUFFICES ASSUME LegalInv, Clearing, SavedSoFar, RecordsAgree, [Next]_vars, NEW l \in Leads,
                    status'[l] \in {"completed", "partial"}, Alone(l)', ~Working(l)', ~Scanned(l)'
             PROVE  \A s : s = status'[l] => Agree(l, s)'
  BY DEF RecordsAgree, Agree, Alone
<1>1. CASE ~Working(l)
  <2>1. /\ Alone(l) /\ ~Scanned(l) /\ status[l] = status'[l]
        /\ SameRows(l) \/ (Sweep /\ UNCHANGED <<leadRow, docFile, resRow>>)
    BY <1>1, RestsUnchanged DEF SameRows
  <2>2. Agree(l, status[l])
    BY <1>1, <2>1 DEF RecordsAgree, Agree, Alone
  <2>3. CASE SameRows(l)
    BY <2>2, <2>3, CountSame DEF SameRows, Agree
  <2>4. CASE Sweep /\ UNCHANGED <<leadRow, docFile, resRow>>
    BY <2>1, <2>2, <2>4, SweepAgrees DEF LegalInv
  <2> QED
    BY <2>1, <2>3, <2>4
<1>2. CASE Working(l)
  <2>1. PICK w \in Workers : lead[w] = l
    BY <1>2 DEF Working
  <2>2. lead'[w] # l
    BY DEF Working
  <2>3. WorkerStep(w) \/ WorkerFault(w)
    BY <2>1, <2>2, ElseKeepsWorker DEF LegalInv
  <2> USE DEF LegalInv, LegalQueueTypeOK
  <2>4. CompleteLead(w) \/ FailLead(w) \/ LoopRaises(w) \/ Crash(w)
    <3>1. ~ \E m \in Leads : ClaimLead(w, m)
      BY <2>1 DEF ClaimLead, InHand
    <3> QED
      BY <2>1, <2>2, <2>3, <3>1 DEF WorkerStep, WorkerFault, ReadDocs, SkipDoc, LoseDoc, ReadDoc,
         DocRaises, HandleDoc, CountDocs, SaveLead, FileResult, RecountAll, TryRaises, SaveRaises,
         Rescue, StepRaises, Restart
  <2>5. CompleteLead(w)
    BY <2>1, <2>4 DEF FailLead, SetStatus, LoopRaises, Crash, Alone
  <2>6. Alone(l) /\ status'[l] = verdict[w] /\ pc[w] = "completing"
        /\ UNCHANGED <<processed, failed, data, docRow, resRow>>
    BY <2>1, <2>5 DEF CompleteLead, SetStatus, Alone
  <2>7. Agree(l, verdict[w])
    BY <2>1, <2>6 DEF SavedSoFar
  <2> QED
    BY <2>6, <2>7, CountSame DEF Agree
<1> QED
  BY <1>1, <1>2

(* What keeps a deletion as far as it has come. *)
LEMMA ClearingKept ==
    ASSUME LegalQueueTypeOK, Clearing, UNCHANGED <<wiped, wiping, overlapped, hit>>,
           \A l \in wiped \ overlapped : wiping \in {"results", "leads"} =>
              /\ \A d \in Docs : docStatus'[l][d] = docStatus[l][d]
              /\ resStatus'[l] = resStatus[l]
              /\ \A w \in Workers : lead'[w] = l => pc'[w] \in {"claimed", "completing", "failing"}
    PROVE  Clearing'
  BY DEF Clearing, HasDocs, LegalQueueTypeOK

(* No worker and no upload brings back a row of a lead being deleted without *)
(* being noticed.                                                           *)
LEMMA StepClearing == LegalInv /\ Clearing /\ [Next]_vars => Clearing'
<1> SUFFICES ASSUME LegalInv, Clearing, [Next]_vars PROVE Clearing'
  OBVIOUS
<1> DEFINE Passed(l) == l \in wiped \ overlapped /\ wiping \in {"results", "leads"}
<1>a. ASSUME NEW l \in Leads, Passed(l)
      PROVE  /\ \A d \in Docs : docStatus[l][d] = "none"
             /\ \A w \in Workers : lead[w] = l => pc[w] \in {"claimed", "completing", "failing"}
  BY <1>a DEF Clearing, HasDocs
<1>b. wiped \subseteq Leads
  BY DEF LegalInv, LegalQueueTypeOK
<1> USE DEF LegalInv, LegalQueueTypeOK
<1>1. ASSUME NEW v \in Workers, WorkerStep(v) PROVE Clearing'
  <2> DEFINE Stays(l) == /\ \A d \in Docs : docStatus'[l][d] = docStatus[l][d]
                        /\ resStatus'[l] = resStatus[l]
                        /\ \A w \in Workers : lead'[w] = l =>
                              pc'[w] \in {"claimed", "completing", "failing"}
  <2>1. UNCHANGED <<wiped, wiping, overlapped, hit>>
    BY <1>1 DEF WorkerStep, ClaimLead, ReadDocs, SkipDoc, LoseDoc, ReadDoc, DocRaises, HandleDoc,
       CountDocs, SaveLead, FileResult, RecountAll, Rescue, CompleteLead, FailLead, Restart
  <2> SUFFICES ASSUME NEW l \in Leads, Passed(l) PROVE Stays(l)
    BY <1>b, <2>1, ClearingKept
  <2> HIDE DEF Passed
  <2>2. ASSUME Restart(v) PROVE Stays(l)
    BY <1>a, <2>2 DEF Restart, Sweep
  <2>3. ASSUME NEW m \in Leads, ClaimLead(v, m) PROVE Stays(l)
    BY <1>a, <2>3 DEF ClaimLead
  <2>4. ASSUME NEW asked \in SUBSET Docs, ReadDocs(v, asked) PROVE Stays(l)
    <3>1. lead[v] = l => pc'[v] = "completing"
      BY <1>a, <2>4 DEF ReadDocs, Settle
    <3>2. UNCHANGED <<docRow, resRow, lead>> /\ \A w \in Workers \ {v} : pc'[w] = pc[w]
      BY <2>4 DEF ReadDocs, Settle
    <3> QED
      BY <1>a, <3>1, <3>2
  <2>5. ASSUME NEW d \in Docs, SkipDoc(v, d) \/ LoseDoc(v, d) PROVE Stays(l)
    BY <1>a, <2>5 DEF SkipDoc, LoseDoc, SetDoc
  <2>6. ASSUME NEW d \in Docs, NEW calls \in Calls, ReadDoc(v, d, calls) PROVE Stays(l)
    BY <1>a, <2>6 DEF ReadDoc, SetDoc
  <2>11. ASSUME NEW d \in Docs, NEW kept \in BOOLEAN, NEW counted \in BOOLEAN,
                DocRaises(v, d, kept, counted)
         PROVE  Stays(l)
    BY <1>a, <2>11 DEF DocRaises
  <2>12. ASSUME HandleDoc(v) PROVE Stays(l)
    BY <1>a, <2>12 DEF HandleDoc, SetDoc
  <2>7. ASSUME CountDocs(v) \/ RecountAll(v) PROVE Stays(l)
    BY <1>a, <2>7 DEF CountDocs, RecountAll
  <2>8. ASSUME SaveLead(v) \/ Rescue(v) PROVE Stays(l)
    BY <1>a, <2>8 DEF SaveLead, Rescue
  <2>9. ASSUME FileResult(v) PROVE Stays(l)
    BY <1>a, <2>9 DEF FileResult
  <2>10. ASSUME CompleteLead(v) \/ FailLead(v) PROVE Stays(l)
    <3>1. UNCHANGED <<docRow, resRow>> /\ lead'[v] = NoLead
          /\ \A w \in Workers \ {v} : lead'[w] = lead[w] /\ pc'[w] = pc[w]
      BY <2>10 DEF CompleteLead, FailLead, Forget
    <3> QED
      BY <1>a, <3>1
  <2> QED
    BY <1>1, <2>2, <2>3, <2>4, <2>5, <2>6, <2>7, <2>8, <2>9, <2>10, <2>11, <2>12
       DEF WorkerStep
<1>2. ASSUME NEW v \in Workers, WorkerFault(v) PROVE Clearing'
  <2>1. /\ UNCHANGED <<docRow, resRow, wiped, wiping, overlapped>> /\ hit \subseteq hit'
        /\ \A w \in Workers : lead'[w] = lead[w] \/ lead'[w] = NoLead
        /\ \A w \in Workers \ {v} : pc'[w] = pc[w]
    BY <1>2 DEF WorkerFault, TryRaises, SaveRaises, StepRaises, LoopRaises, Crash, Forget
  <2>2. lead'[v] # NoLead => pc'[v] = "failing"
                           \/ (pc'[v] = "rescue" /\ pc[v] \in {"saving", "filing", "recount"})
                           \/ (pc'[v] = "handling" /\ pc[v] = "counting")
    BY <1>2 DEF WorkerFault, TryRaises, SaveRaises, StepRaises, LoopRaises, Crash, Forget
  <2>3. ASSUME NEW l \in Leads, Passed(l), NEW w \in Workers, lead'[w] = l
        PROVE  pc'[w] \in {"claimed", "completing", "failing"}
    <3>1. pc[w] \in {"claimed", "completing", "failing"}
      BY <1>a, <2>1, <2>3
    <3> QED
      BY <2>1, <2>2, <2>3, <3>1
  <2> QED
    BY <1>b, <2>1, <2>3 DEF Clearing, HasDocs
<1> USE DEF Clearing, HasDocs
<1>3. ASSUME NEW ls \in (SUBSET Leads) \ {{}}, Upload(ls) PROVE Clearing'
  BY <1>3 DEF Upload
<1>4. ASSUME NEW u \in Uploads, NEW m \in Leads, NEW ds \in (SUBSET Docs) \ {{}},
             ScanLead(u, m, ds)
      PROVE Clearing'
  BY <1>4 DEF ScanLead, Busy
<1>5. ASSUME NEW u \in Uploads, NEW d \in Docs, ScanDoc(u, d) PROVE Clearing'
  BY <1>5 DEF ScanDoc, Overlap, Busy
<1>6. ASSUME NEW u \in Uploads, ScanQueue(u) PROVE Clearing'
  BY <1>6 DEF ScanQueue, Overlap, Busy
<1>7. ASSUME NEW us \in (SUBSET Uploads) \ {{}}, ScanBreaks(us) PROVE Clearing'
  BY <1>7 DEF ScanBreaks
<1>8. ASSUME NEW b \in Uploads, Pause(b) \/ Resume(b) \/ Cancel(b) PROVE Clearing'
  BY <1>8 DEF Pause, Resume, Cancel, BatchAction
<1>9. ASSUME NEW b \in Uploads, Wipe(b) PROVE Clearing'
  BY <1>9 DEF Wipe
<1>10. ASSUME WipeDocs PROVE Clearing'
  BY <1>10 DEF WipeDocs, Cleared, WipedUnderWork, Working, Scanned
<1>11. ASSUME WipeResults PROVE Clearing'
  BY <1>11 DEF WipeResults, Cleared, WipedUnderWork, Working, Scanned
<1>12. ASSUME WipeLeads PROVE Clearing'
  BY <1>12 DEF WipeLeads
<1>13. ASSUME Boot PROVE Clearing'
  BY <1>13 DEF Boot, Sweep
<1>14. ASSUME UNCHANGED vars PROVE Clearing'
  BY <1>14 DEF vars
<1> QED
  BY <1>1, <1>2, <1>3, <1>4, <1>5, <1>6, <1>7, <1>8, <1>9, <1>10, <1>11, <1>12, <1>13, <1>14
     DEF Next, ScanStep, WipeStep

(* A row goes only with a deletion, which notes the uploads it met. *)
LEMMA StepScanHasRow == LegalInv /\ ScanHasRow /\ [Next]_vars => ScanHasRow'
<1> SUFFICES ASSUME LegalInv, ScanHasRow, [Next]_vars PROVE ScanHasRow'
  OBVIOUS
<1> USE DEF LegalInv, LegalQueueTypeOK, ScanHasRow, Scanned, Exists
<1>1. ASSUME NEW v \in Workers, WorkerStep(v) \/ WorkerFault(v) PROVE ScanHasRow'
  <2>1. UNCHANGED <<scanLead, overlapped>>
    <3>1. CASE WorkerFault(v)
      BY <3>1 DEF WorkerFault, TryRaises, SaveRaises, StepRaises, LoopRaises, Crash
    <3>2. CASE WorkerStep(v)
      BY <3>2 DEF WorkerStep, ClaimLead, ReadDocs, SkipDoc, LoseDoc, ReadDoc, DocRaises, HandleDoc,
         CountDocs, SaveLead, FileResult, RecountAll, Rescue, CompleteLead, FailLead, Restart
    <3> QED
      BY <1>1, <3>1, <3>2
  <2>2. \A l \in Leads : status'[l] = "none" => status[l] = "none"
    <3>1. CASE WorkerFault(v)
      BY <3>1 DEF WorkerFault, TryRaises, SaveRaises, StepRaises, LoopRaises, Crash
    <3>2. CASE CompleteLead(v) \/ FailLead(v) \/ SaveLead(v) \/ Rescue(v)
      BY <3>2 DEF CompleteLead, FailLead, SaveLead, Rescue, SetStatus, FinalStatus, Finished
    <3>3. CASE WorkerStep(v) /\ ~ (CompleteLead(v) \/ FailLead(v) \/ SaveLead(v) \/ Rescue(v))
      BY <3>3 DEF WorkerStep, ClaimLead, ReadDocs, SkipDoc, LoseDoc, ReadDoc, DocRaises, HandleDoc,
         CountDocs, FileResult, RecountAll, Restart
    <3> QED
      BY <1>1, <3>1, <3>2, <3>3
  <2> QED
    BY <2>1, <2>2
<1>2. ASSUME NEW ls \in (SUBSET Leads) \ {{}}, Upload(ls) PROVE ScanHasRow'
  BY <1>2 DEF Upload
<1>3. ASSUME NEW u \in Uploads, NEW m \in Leads, NEW ds \in (SUBSET Docs) \ {{}},
             ScanLead(u, m, ds)
      PROVE  ScanHasRow'
  BY <1>3 DEF ScanLead
<1>4. ASSUME NEW u \in Uploads, NEW d \in Docs, ScanDoc(u, d) PROVE ScanHasRow'
  BY <1>4 DEF ScanDoc, Overlap
<1>5. ASSUME NEW u \in Uploads, ScanQueue(u) PROVE ScanHasRow'
  BY <1>5 DEF ScanQueue, SetStatus, Overlap
<1>6. ASSUME NEW us \in (SUBSET Uploads) \ {{}}, ScanBreaks(us) PROVE ScanHasRow'
  BY <1>6 DEF ScanBreaks
<1>7. ASSUME NEW b \in Uploads, Pause(b) \/ Resume(b) \/ Cancel(b) PROVE ScanHasRow'
  BY <1>7 DEF Pause, Resume, Cancel, BatchAction
<1>8. ASSUME NEW b \in Uploads, Wipe(b) PROVE ScanHasRow'
  BY <1>8 DEF Wipe
<1>9. ASSUME WipeStep PROVE ScanHasRow'
  BY <1>9 DEF WipeStep, WipeDocs, WipeResults, WipeLeads, Cleared, WipedUnderWork
<1>10. ASSUME Boot PROVE ScanHasRow'
  BY <1>10 DEF Boot
<1>11. ASSUME UNCHANGED vars PROVE ScanHasRow'
  BY <1>11 DEF vars
<1> QED
  BY <1>1, <1>2, <1>3, <1>4, <1>5, <1>6, <1>7, <1>8, <1>9, <1>10, <1>11 DEF Next, ScanStep

(* Documents and results exist with their lead: a worker and an upload write *)
(* them only while the lead is there, and a deletion clears them first.      *)
LEMMA StepOrphans == LegalInv /\ ScanHasRow /\ Clearing /\ NoOrphans /\ [Next]_vars => NoOrphans'
<1> SUFFICES ASSUME LegalInv, ScanHasRow, Clearing, NoOrphans, [Next]_vars PROVE NoOrphans'
  OBVIOUS
<1> USE DEF LegalInv, LegalQueueTypeOK, NoOrphans, HasDocs, Exists
<1>1. ASSUME NEW v \in Workers, WorkerStep(v) PROVE NoOrphans'
  <2>1. overlapped' = overlapped
    BY <1>1 DEF WorkerStep, ClaimLead, ReadDocs, SkipDoc, LoseDoc, ReadDoc, DocRaises, HandleDoc,
       CountDocs, SaveLead, FileResult, RecountAll, Rescue, CompleteLead, FailLead, Restart
  <2>2. ASSUME Restart(v) PROVE NoOrphans'
    BY <2>1, <2>2 DEF Restart, Sweep
  <2>3. ASSUME NEW m \in Leads, ClaimLead(v, m) PROVE NoOrphans'
    BY <2>1, <2>3 DEF ClaimLead
  <2>4. ASSUME NEW asked \in SUBSET Docs, ReadDocs(v, asked) PROVE NoOrphans'
    BY <2>1, <2>4 DEF ReadDocs
  <2>5. ASSUME NEW d \in Docs, SkipDoc(v, d) \/ LoseDoc(v, d) PROVE NoOrphans'
    <3>1. UNCHANGED <<leadRow, resRow>>
      BY <2>5 DEF SkipDoc, LoseDoc
    <3>2. PICK s : SetDoc(lead[v], d, s)
      BY <2>5 DEF SkipDoc, LoseDoc
    <3>3. \A l \in Leads, e \in Docs : docStatus[l][e] = "none" => docStatus'[l][e] = "none"
      BY <3>2 DEF SetDoc
    <3> QED
      BY <2>1, <3>1, <3>3
  <2>6. ASSUME NEW d \in Docs, NEW calls \in Calls, ReadDoc(v, d, calls) PROVE NoOrphans'
    BY <2>1, <2>6 DEF ReadDoc, SetDoc
  <2>11. ASSUME NEW d \in Docs, NEW kept \in BOOLEAN, NEW counted \in BOOLEAN,
                DocRaises(v, d, kept, counted)
         PROVE  NoOrphans'
    BY <2>1, <2>11 DEF DocRaises
  <2>12. ASSUME HandleDoc(v) PROVE NoOrphans'
    BY <2>1, <2>12 DEF HandleDoc, SetDoc
  <2>7. ASSUME CountDocs(v) \/ RecountAll(v) PROVE NoOrphans'
    BY <2>1, <2>7 DEF CountDocs, RecountAll
  <2>8. ASSUME SaveLead(v) \/ Rescue(v) PROVE NoOrphans'
    BY <2>1, <2>8 DEF SaveLead, Rescue, SetStatus, FinalStatus
  <2>9. ASSUME FileResult(v) PROVE NoOrphans'
    <3>1. lead[v] \in Leads \ overlapped => Exists(lead[v])
      BY DEF StatusFollows, Working, Finished
    <3> QED
      BY <2>1, <2>9, <3>1 DEF FileResult
  <2>10. ASSUME CompleteLead(v) \/ FailLead(v) PROVE NoOrphans'
    <3>1. UNCHANGED <<docRow, resRow>>
      BY <2>10 DEF CompleteLead, FailLead
    <3>2. SetStatus(lead[v], verdict[v]) \/ SetStatus(lead[v], "failed")
      BY <2>10 DEF CompleteLead, FailLead
    <3>3. verdict[v] # "none"
      BY DEF Finished
    <3>4. \A l \in Leads : status'[l] = "none" => status[l] = "none"
      <4>1. CASE SetStatus(lead[v], verdict[v])
        BY <3>3, <4>1 DEF SetStatus
      <4>2. CASE SetStatus(lead[v], "failed")
        BY <4>2 DEF SetStatus
      <4> QED
        BY <3>2, <4>1, <4>2
    <3> QED
      BY <2>1, <3>1, <3>4
  <2> QED
    BY <1>1, <2>2, <2>3, <2>4, <2>5, <2>6, <2>7, <2>8, <2>9, <2>10, <2>11, <2>12
       DEF WorkerStep
<1>2. ASSUME NEW v \in Workers, WorkerFault(v) PROVE NoOrphans'
  BY <1>2 DEF WorkerFault, TryRaises, SaveRaises, StepRaises, LoopRaises, Crash
<1>3. ASSUME NEW ls \in (SUBSET Leads) \ {{}}, Upload(ls) PROVE NoOrphans'
  BY <1>3 DEF Upload
<1>4. ASSUME NEW u \in Uploads, NEW m \in Leads, NEW ds \in (SUBSET Docs) \ {{}},
             ScanLead(u, m, ds)
      PROVE NoOrphans'
  BY <1>4 DEF ScanLead
<1>5. ASSUME NEW u \in Uploads, NEW d \in Docs, ScanDoc(u, d) PROVE NoOrphans'
  <2>1. scanLead[u] \in Leads /\ (scanLead[u] \notin overlapped => Exists(scanLead[u]))
    BY <1>5 DEF ScanDoc, ScanHasRow, Scanned
  <2> QED
    BY <1>5, <2>1 DEF ScanDoc, Overlap
<1>6. ASSUME NEW u \in Uploads, ScanQueue(u) PROVE NoOrphans'
  BY <1>6 DEF ScanQueue, SetStatus, Overlap
<1>7. ASSUME NEW us \in (SUBSET Uploads) \ {{}}, ScanBreaks(us) PROVE NoOrphans'
  BY <1>7 DEF ScanBreaks
<1>8. ASSUME NEW b \in Uploads, Pause(b) \/ Resume(b) \/ Cancel(b) PROVE NoOrphans'
  BY <1>8 DEF Pause, Resume, Cancel, BatchAction
<1>9. ASSUME NEW b \in Uploads, Wipe(b) PROVE NoOrphans'
  BY <1>9 DEF Wipe
<1>10. ASSUME WipeStep PROVE NoOrphans'
  BY <1>10 DEF WipeStep, WipeDocs, WipeResults, WipeLeads, Cleared, WipedUnderWork, Clearing
<1>11. ASSUME Boot PROVE NoOrphans'
  BY <1>11 DEF Boot, Sweep
<1>12. ASSUME UNCHANGED vars PROVE NoOrphans'
  BY <1>12 DEF vars
<1> QED
  BY <1>1, <1>2, <1>3, <1>4, <1>5, <1>6, <1>7, <1>8, <1>9, <1>10, <1>11, <1>12 DEF Next, ScanStep

(* The invariant behind RowsFit: what is deleted so far, read so far and
   saved so far. *)
THEOREM RowsInvHolds == Spec => []RowsInv
<1>1. Init => RowsInv
  <2> SUFFICES ASSUME Init PROVE RowsInv
    OBVIOUS
  <2>1. Clearing /\ NoOrphans /\ ScanHasRow
    BY DEF Init, Clearing, NoOrphans, HasDocs, ScanHasRow, Scanned
  <2>2. ReadSoFar /\ SavedSoFar /\ RecordsAgree
    BY DEF Init, ReadSoFar, SavedSoFar, RecordsAgree
  <2> QED
    BY <2>1, <2>2, InitLegalInv DEF RowsInv
<1>2. RowsInv /\ [Next]_vars => RowsInv'
  BY StepLegalInv, StepScanHasRow, StepClearing, StepOrphans, StepReadSoFar, StepSavedSoFar, StepRecords DEF RowsInv
<1> QED
  BY <1>1, <1>2, PTL DEF Spec

(* The lead, its documents, its result and its counters are written by
   statements of their own, deleted table by table, and read together: they
   fit unless a fault or somebody else came between. *)
THEOREM RowsFit == Spec => []RowsAgree
<1>1. RowsInv => RowsAgree
  BY DEF RowsInv, RowsAgree
<1> QED
  BY <1>1, RowsInvHolds, PTL
=============================================================================

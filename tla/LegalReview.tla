---------------------------- MODULE LegalReview ----------------------------
(***************************************************************************)
(* One dossier under review: the corrections of                            *)
(* workspaces/legal/corrections.py, the trust verdict of trust.py, the     *)
(* re-run of process_lead in pipeline.py, and the maintenance commands of  *)
(* backfill.py, which all rewrite the stored extraction.                   *)
(*                                                                         *)
(* A save by a reviewer is one transaction with the lead row locked.  The  *)
(* re-run and the maintenance commands work on a copy of the extraction    *)
(* read earlier, and write it back in separate autocommit statements.      *)
(*                                                                         *)
(* The extraction is a record of functions over the fields: the value      *)
(* shown, the value of the page records behind it ("read") with the        *)
(* evidence of the page it came from, _model_values, _overrides and        *)
(* _trust.  Two history fields go with every copy: "behind", the fields    *)
(* whose latest decision this copy has not seen, and "replay", whether a   *)
(* migration has replaced the values, and whether they were judged since.  *)
(***************************************************************************)
EXTENDS Naturals, FiniteSets

CONSTANTS
    Fields,     \* value fields of the dossier
    Texts,      \* values a field can have
    Blank,      \* no value: an absent key, None or ""
    Unset,      \* no entry in _model_values or _overrides
    Schema,     \* fields the run's schema allows ({}: a row from before schemas)
    Readings,   \* what a run can read: [value, proof]
    Reviewers,
    Jobs,       \* processes that rewrite the extraction: workers and commands
    MaxEdits,   \* bound on decisions of reviewers
    MaxJobs     \* bound on re-runs and commands

Value == Texts \cup {Blank}

-----------------------------------------------------------------------------
(* Trust in one value.                                                     *)

PageFlags == {"blank", "blurry", "faint", "dark", "low_resolution", "rotated"}
Notes     == {"conflict", "name", "format", "not_english"}

\* What is known about a value: notes of the consolidation and of the value
\* itself, found in the text layer, handwriting, flags of the page, and the
\* model's verdict on its legibility ("none" before the model was asked).
Evidence == [notes : SUBSET Notes, verified : BOOLEAN, hand : BOOLEAN,
             page : SUBSET PageFlags,
             legibility : {"clear", "partial", "illegible", "none"}]

DoubtsAsked(e) ==   \* mutant: the model's missing verdict counts as clear
    (IF e.hand THEN {"handwritten"} ELSE {}) \cup e.page
       \cup ({e.legibility} \cap {"partial", "illegible"})
Doubts(e) ==
    (IF e.hand THEN {"handwritten"} ELSE {}) \cup e.page \cup
    CASE e.legibility = "none"  -> {"unchecked"}
      [] e.legibility = "clear" -> {}
      [] OTHER -> {e.legibility}

Reasons(e)  == e.notes \cup (IF e.verified THEN {} ELSE Doubts(e))
Problems(e) == Reasons(e) \ {"unchecked"}

FieldTrust(e) ==
    IF Problems(e) # {} THEN "review"
    ELSE IF Reasons(e) # {} THEN "unchecked"
    ELSE IF e.verified THEN "verified" ELSE "clear"

Trust == {"none", "verified", "clear", "review", "unchecked", "corrected", "confirmed"}

ASSUME LegalReviewAssumption ==
    /\ Blank \notin Texts /\ Unset \notin Value
    /\ Schema \subseteq Fields
    /\ Readings \subseteq [value : [Fields -> Value], proof : [Fields -> Evidence]]
    /\ MaxEdits \in Nat /\ MaxJobs \in Nat

-----------------------------------------------------------------------------
VARIABLES
    ed,      \* legal_leads.extracted_data
    res,     \* legal_lead_results.raw_extractions
    snap,    \* legal_extraction_snapshots: none, or the two copies saved
    last,    \* latest event of legal_field_corrections per field
    seen,    \* values on the screen of each reviewer
    pc, held, heldRes,   \* the jobs: place and the copies they work on
    edits, jobs, crashed

job  == <<pc, held, heldRes>>
vars == <<ed, res, snap, last, seen, job, edits, jobs, crashed>>

Extraction ==
    [value : [Fields -> Value], read : [Fields -> Value], proof : [Fields -> Evidence],
     model : [Fields -> Value \cup {Unset}], over : [Fields -> Value \cup {Unset}],
     trust : [Fields -> Trust], behind : SUBSET Fields, replay : {"none", "unjudged", "judged"}]

Decision == [action : {"none", "corrected", "confirmed", "reverted"}, value : Value]
Place    == {"idle", "snapshot", "judging", "saving", "filing",
             "restoring", "restored", "deleting"}

LegalReviewTypeOK ==
    /\ ed \in Extraction /\ res \in Extraction
    /\ snap \in [taken : BOOLEAN, data : Extraction, results : Extraction]
    /\ last \in [Fields -> Decision]
    /\ seen \in [Reviewers -> [Fields -> Value]]
    /\ pc \in [Jobs -> Place]
    /\ held \in [Jobs -> Extraction] /\ heldRes \in [Jobs -> Extraction]
    /\ edits \in 0 .. MaxEdits /\ jobs \in 0 .. MaxJobs
    /\ crashed \in BOOLEAN

\* latest(): a field whose latest event is a revert has no standing decision.
Stands(L, f) == L[f].action \in {"corrected", "confirmed"}

\* apply_to: corrections are laid over an extraction, whatever it holds ...
Corrected(L) == {f \in Fields : L[f].action = "corrected"}
OverlayValues(e, L) ==   \* mutant: only the value is put back
    [e EXCEPT !.value  = [f \in Fields |-> IF f \in Corrected(L) THEN L[f].value ELSE @[f]],
              !.behind = @ \ Corrected(L)]
OverlayAgain(e, L) ==    \* mutant: _model_values takes whatever value is there
    [e EXCEPT !.value  = [f \in Fields |-> IF f \in Corrected(L) THEN L[f].value ELSE @[f]],
              !.model  = [f \in Fields |-> IF f \in Corrected(L) THEN e.value[f] ELSE @[f]],
              !.over   = [f \in Fields |-> IF f \in Corrected(L) THEN L[f].value ELSE @[f]],
              !.behind = @ \ Corrected(L)]
Overlay(e, L) ==
    [e EXCEPT !.value  = [f \in Fields |-> IF f \in Corrected(L) THEN L[f].value ELSE @[f]],
              !.model  = [f \in Fields |-> IF f \in Corrected(L) /\ @[f] = Unset
                                           THEN e.value[f] ELSE @[f]],
              !.over   = [f \in Fields |-> IF f \in Corrected(L) THEN L[f].value ELSE @[f]],
              !.behind = @ \ Corrected(L)]
\* ... and a confirmation counts only if the value is the one confirmed.
Holding(e, L) ==
    {f \in Fields : L[f].action = "corrected"
                    \/ (L[f].action = "confirmed" /\ L[f].value = e.value[f])}

\* evaluate: a value is trusted as far as its evidence goes, unless a person
\* has settled it.
Evaluate(e, L, settled) ==
    [e EXCEPT !.trust = [f \in Fields |->
                            IF e.value[f] = Blank THEN "none"
                            ELSE IF f \in settled THEN L[f].action
                            ELSE FieldTrust(e.proof[f])],
              !.replay = IF @ = "unjudged" THEN "judged" ELSE @]

\* What a job does after apply_to, and a save after its event: the job drops
\* confirmations of other values, the save takes every standing decision.
Judge(e, L)    == Evaluate(e, L, Holding(e, L))
Reviewed(e, L) == LET o == Overlay(e, L) IN Judge(o, L)
Rejudge(e, L)  == Evaluate(e, L, {f \in Fields : Stands(L, f)})

\* The state of the dossier, from the states of its values.
LeadState(e) ==
    LET states == {e.trust[f] : f \in {g \in Fields : e.trust[g] # "none"}}
    IN  IF states = {} THEN "no_values"
        ELSE IF "review" \in states THEN "needs_review"
        ELSE IF "unchecked" \in states THEN "unverified"
        ELSE IF states \cap {"corrected", "confirmed"} # {} THEN "reviewed"
        ELSE "extracted"

\* An extraction as the model has just read it.
Fresh(r, L) ==
    [value |-> r.value, read |-> r.value, proof |-> r.proof,
     model |-> [f \in Fields |-> Unset], over |-> [f \in Fields |-> Unset],
     trust |-> [f \in Fields |-> "none"],
     behind |-> Corrected(L), replay |-> "none"]

NoEvent    == [f \in Fields |-> [action |-> "none", value |-> Blank]]
NoEvidence == [notes |-> {}, verified |-> FALSE, hand |-> FALSE, page |-> {}, legibility |-> "none"]
Empty      == Fresh([value |-> [f \in Fields |-> Blank],
                     proof |-> [f \in Fields |-> NoEvidence]], NoEvent)

\* The dossier has been read once; nobody has looked at it.
Init ==
    \E r \in Readings :
        /\ ed = Judge(Fresh(r, NoEvent), NoEvent) /\ res = ed
        /\ snap = [taken |-> FALSE, data |-> Empty, results |-> Empty]
        /\ last = NoEvent
        /\ seen = [w \in Reviewers |-> r.value]
        /\ pc = [j \in Jobs |-> "idle"]
        /\ held = [j \in Jobs |-> Empty] /\ heldRes = [j \in Jobs |-> Empty]
        /\ edits = 0 /\ jobs = 0 /\ crashed = FALSE

-----------------------------------------------------------------------------
(* Reviewers.  The screen sends the value it shows along with a decision;  *)
(* a save is refused if the stored value is another one by then.           *)

Load(w) ==
    /\ seen' = [seen EXCEPT ![w] = ed.value]
    /\ UNCHANGED <<ed, res, snap, last, job, edits, jobs, crashed>>

Editable(f) == IF Schema # {} THEN f \in Schema ELSE ed.value[f] # Blank
Expected(w, f) == seen[w][f] = ed.value[f]

Aware(e, f)   == [e EXCEPT !.behind = @ \ {f}]
Unaware(e, f) == [e EXCEPT !.behind = @ \cup {f}]

\* The event, the re-evaluation and both rows, in one transaction.  Copies
\* that jobs hold fall behind.
Record(w, f, action, value, e) ==
    /\ edits < MaxEdits /\ edits' = edits + 1
    /\ Editable(f) /\ Expected(w, f)
    /\ last' = [last EXCEPT ![f] = [action |-> action, value |-> value]]
    /\ ed' = Rejudge(Aware(e, f), last')
    /\ res' = ed'
    /\ held' = [j \in Jobs |-> IF pc[j] = "idle" THEN held[j] ELSE Unaware(held[j], f)]
    /\ UNCHANGED <<snap, seen, pc, heldRes, jobs, crashed>>

\* Typing back the value that is there, uncorrected, is a confirmation.
SameValue(f, v) == v = ed.value[f] /\ ed.over[f] = Unset

\* The value set aside on a correction is the one the model read.
WithOverride(e, f, v) ==
    [e EXCEPT !.model = [e.model EXCEPT ![f] = IF @ = Unset THEN e.value[f] ELSE @],
              !.value = [e.value EXCEPT ![f] = v],
              !.over  = [e.over EXCEPT ![f] = v]]
WithoutOverride(e, f, v) ==
    [e EXCEPT !.model = [e.model EXCEPT ![f] = Unset],
              !.value = [e.value EXCEPT ![f] = v],
              !.over  = [e.over EXCEPT ![f] = Unset]]

Correct(w, f, v) ==
    /\ ~SameValue(f, v)
    /\ Record(w, f, "corrected", v, WithOverride(ed, f, v))

Confirm(w, f) == Record(w, f, "confirmed", ed.value[f], ed)

\* Back to what the model read; without a correction, only the decision goes.
Restored(f) == IF ed.model[f] = Unset THEN ed.value[f] ELSE ed.model[f]

Revert(w, f) ==
    /\ ed.model[f] # Unset \/ ed.over[f] # Unset \/ Stands(last, f)
    /\ Record(w, f, "reverted", Restored(f), WithoutOverride(ed, f, Restored(f)))

-----------------------------------------------------------------------------
(* Jobs: a re-run of the dossier, and the commands of backfill.py.         *)

Start(j, place) ==
    /\ pc[j] = "idle" /\ jobs < MaxJobs /\ jobs' = jobs + 1
    /\ pc' = [pc EXCEPT ![j] = place]
    /\ UNCHANGED <<ed, res, snap, last, seen, edits, crashed>>

Hold(j, e)  == held' = [held EXCEPT ![j] = e]
Goto(j, place) == pc' = [pc EXCEPT ![j] = place]

\* The end of a re-run: the decisions are read and laid over what was read.
Rerun(j, r) ==
    /\ Start(j, "saving")
    /\ Hold(j, Reviewed(Fresh(r, last), last))
    /\ UNCHANGED heldRes

\* The assessment raises, before the decisions were laid over or after; the
\* extraction is saved all the same.
RerunUnjudged(j, r) ==
    /\ Start(j, "saving")
    /\ \E e \in {Fresh(r, last), Overlay(Fresh(r, last), last)} : Hold(j, e)
    /\ UNCHANGED heldRes

\* backfill --apply: both rows are read first, for all dossiers ...
BackfillRead(j) ==
    /\ Start(j, "snapshot")
    /\ Hold(j, ed)
    /\ heldRes' = [heldRes EXCEPT ![j] = res]

\* ... then, dossier by dossier, the first snapshot is kept and the values
\* are replayed from the page records.  Bookkeeping keys stay as they were.
Rebuild(e, r) ==
    IF \A f \in Fields : e.read[f] = Blank
    THEN [e EXCEPT !.replay = "unjudged"]
    ELSE [e EXCEPT !.value = r.value, !.read = r.value, !.proof = r.proof, !.replay = "unjudged"]

BackfillSnapshot(j, r) ==
    /\ pc[j] = "snapshot" /\ Goto(j, "saving")
    /\ snap' = IF snap.taken THEN snap
               ELSE [taken |-> TRUE, data |-> held[j], results |-> heldRes[j]]
    /\ Hold(j, Rebuild(held[j], r))
    /\ heldRes' = [heldRes EXCEPT ![j] = Empty]
    /\ UNCHANGED <<ed, res, last, seen, edits, jobs, crashed>>

\* backfill --trust --apply: judges the copy it has read, with the decisions
\* read just before.
TrustRead(j) == Start(j, "judging") /\ Hold(j, ed) /\ UNCHANGED heldRes

TrustJudge(j) ==
    /\ pc[j] = "judging" /\ Goto(j, "saving")
    /\ Hold(j, Reviewed(held[j], last))
    /\ UNCHANGED <<ed, res, snap, last, seen, heldRes, edits, jobs, crashed>>

\* The lead row, then the result row.
Save(j) ==
    /\ pc[j] = "saving" /\ Goto(j, "filing")
    /\ ed' = held[j]
    /\ UNCHANGED <<res, snap, last, seen, held, heldRes, edits, jobs, crashed>>

File(j) ==
    /\ pc[j] = "filing" /\ Goto(j, "idle")
    /\ res' = held[j]
    /\ Hold(j, Empty)
    /\ UNCHANGED <<ed, snap, last, seen, heldRes, edits, jobs, crashed>>

\* backfill --restore: both copies go back as they were, and the snapshot goes.
Old(e) == [e EXCEPT !.behind = Fields]

RestoreRead(j) ==
    /\ snap.taken
    /\ Start(j, "restoring")
    /\ Hold(j, Old(snap.data))
    /\ heldRes' = [heldRes EXCEPT ![j] = Old(snap.results)]

RestoreLead(j) ==
    /\ pc[j] = "restoring" /\ Goto(j, "restored")
    /\ ed' = held[j] /\ Hold(j, Empty)
    /\ UNCHANGED <<res, snap, last, seen, heldRes, edits, jobs, crashed>>

RestoreResult(j) ==
    /\ pc[j] = "restored" /\ Goto(j, "deleting")
    /\ res' = heldRes[j]
    /\ heldRes' = [heldRes EXCEPT ![j] = Empty]
    /\ UNCHANGED <<ed, snap, last, seen, held, edits, jobs, crashed>>

RestoreDelete(j) ==
    /\ pc[j] = "deleting" /\ Goto(j, "idle")
    /\ snap' = [taken |-> FALSE, data |-> Empty, results |-> Empty]
    /\ Hold(j, Empty)
    /\ UNCHANGED <<ed, res, last, seen, heldRes, edits, jobs, crashed>>

\* The process ends between two statements.
Crash(j) ==
    /\ ~crashed /\ crashed' = TRUE
    /\ pc[j] # "idle" /\ Goto(j, "idle")
    /\ Hold(j, Empty) /\ heldRes' = [heldRes EXCEPT ![j] = Empty]
    /\ UNCHANGED <<ed, res, snap, last, seen, edits, jobs>>

Review(w) ==
    \/ Load(w)
    \/ \E f \in Fields :
        \/ \E v \in Value : Correct(w, f, v)
        \/ Confirm(w, f)
        \/ Revert(w, f)

JobStep(j) ==
    \/ \E r \in Readings : Rerun(j, r) \/ RerunUnjudged(j, r) \/ BackfillSnapshot(j, r)
    \/ BackfillRead(j) \/ TrustRead(j) \/ TrustJudge(j)
    \/ Save(j) \/ File(j)
    \/ RestoreRead(j) \/ RestoreLead(j) \/ RestoreResult(j) \/ RestoreDelete(j)
    \/ Crash(j)

Next == (\E w \in Reviewers : Review(w)) \/ (\E j \in Jobs : JobStep(j))

Spec == Init /\ [][Next]_vars

-----------------------------------------------------------------------------
(* Properties                                                              *)

\* In both rows, a field holds a correction exactly if one stands, and it is
\* the latest one; a copy that a job wrote over a newer decision, an
\* unassessed re-run and a restored snapshot are behind, and nothing else.
Follows(e) ==
    \A f \in Fields \ e.behind :
        /\ last[f].action = "corrected" => e.over[f] = last[f].value
        /\ last[f].action \in {"none", "reverted"} => e.over[f] = Unset
CorrectionsStand == Follows(ed) /\ Follows(res)

\* What the model read is never lost: whatever jobs and reviewers do, a
\* revert brings back the reading behind the stored values, and a value
\* without a correction is that reading.
KeepsReading(e) ==
    e.replay = "none" =>
        \A f \in Fields : IF e.over[f] = Unset
                           THEN e.value[f] = e.read[f] /\ e.model[f] = Unset
                           ELSE e.value[f] = e.over[f] /\ e.model[f] = e.read[f]
ReadingKept == KeepsReading(ed) /\ KeepsReading(res)

\* The rule of trust.py: a value can be relied on if it was found in the text
\* layer, or printed, on a page that passes, and read clearly, and nothing
\* speaks against it.
Reliable(e) == /\ e.notes = {}
               /\ e.verified \/ (~e.hand /\ e.page = {} /\ e.legibility = "clear")

\* A dossier is shown as extracted or reviewed only if a person has settled
\* every value that cannot be relied on.
NothingHidden ==
    ed.replay # "unjudged" /\ LeadState(ed) \in {"extracted", "reviewed"} =>
        \A f \in Fields \ ed.behind :
            ed.value[f] # Blank => Reliable(ed.proof[f]) \/ Stands(last, f)

\* A decision is about the value its reviewer had on the screen.
NoBlindDecision ==
    [][\A f \in Fields : last'[f] # last[f] =>
          \E w \in Reviewers : seen[w][f] = ed.value[f]]_vars
=============================================================================

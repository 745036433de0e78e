------------------------------ MODULE Approvals ------------------------------
(***************************************************************************)
(* Receivers of one lender: the checks of pipeline/verify.py, the approval *)
(* of receivers in pipeline/approvals.py, and the re-verification of       *)
(* reverify.py.                                                            *)
(*                                                                         *)
(* Every process keeps its own copy of the lender's files.  The console    *)
(* ("web") runs the admins' requests and some workers as threads of one    *)
(* process and reloads its copy, in place, after an approval.  Standalone  *)
(* workers load the files when they start.  A re-verification loads them   *)
(* when it starts and works on rows it has read.                           *)
(*                                                                         *)
(* History variables: "mixed" are leads whose rows two writers had in hand *)
(* at a time, or a writer left half written; "missed" are leads saved or   *)
(* checked past an approval of their payee; "contested" are names with two *)
(* decisions in flight, or an approval that broke off.                     *)
(***************************************************************************)
EXTENDS Naturals, FiniteSets

CONSTANTS
    Leads,
    Names,       \* payees as printed, normalised
    None,        \* nothing: no payee, no document, no lead in hand, lock free
    OwnNames,    \* names made from the lender's own code
    Listed,      \* the lender's entry in lender_receivers.json at first
    Alike,       \* pairs <<payee, accepted name>> that match softly
    Docs,        \* extractions that a worker can come back with
    Workers, Standalone,   \* worker threads; those outside the web process
    Admins, Tools,         \* requests in the web process; runs of reverify.py
    MaxRuns, MaxAsks, MaxFaults   \* bounds on extractions, requests, faults

Fields == {"date", "amount", "loan_account_number"}

\* What stage 3 knows of a document: the payee, accepted names carried by a
\* UPI handle or found as words in the text, mandatory fields that do not
\* match the system record, an incoming credit, and the flag of the
\* duplicate ledger for another loan account under the lead code.
Document ==
    [payee : Names \cup {None}, handle : SUBSET Names, words : SUBSET Names,
     wrong : SUBSET Fields, incoming : BOOLEAN, flagged : BOOLEAN]

ASSUME ApprovalsAssumption ==
    /\ OwnNames \subseteq Names /\ Listed \subseteq Names
    /\ None \notin Names \cup Leads \cup Admins \cup Document
    /\ Alike \subseteq Names \X Names
    /\ Docs \subseteq Document
    /\ Standalone \subseteq Workers
    /\ Tools \cap ({"web", "standalone"} \cup Admins) = {}
    /\ MaxRuns \in Nat /\ MaxAsks \in Nat /\ MaxFaults \in Nat

-----------------------------------------------------------------------------
(* verify.run.                                                             *)

SoftMatch(payee, name) == payee # None /\ (payee = name \/ <<payee, name>> \in Alike)

\* A payee that is printed must match itself or by the UPI handle; words in
\* the text count only where no payee could be read.
CheckReceiver(d, allow) ==
    \E name \in allow \cup OwnNames :
        \/ SoftMatch(d.payee, name)
        \/ name \in d.handle
        \/ d.payee = None /\ name \in d.words

Failed(d, allow) == d.wrong \cup (IF CheckReceiver(d, allow) THEN {} ELSE {"receiver"})

Status(d, allow) ==
    IF ~d.incoming /\ Failed(d, allow) = {} THEN "verified" ELSE "unverified"

FailedFields(d, allow) == IF d.incoming THEN {"direction"} ELSE Failed(d, allow)

\* What a worker saves: a lead the ledger flagged is unverified, whatever the
\* checks say, and its outcome lists no failed field.
Row(d, allow) ==
    [doc    |-> d,
     status |-> IF d.flagged THEN "unverified" ELSE Status(d, allow),
     failed |-> IF d.flagged THEN {} ELSE FailedFields(d, allow)]

-----------------------------------------------------------------------------
Actors    == Admins \cup Tools
Processes == {"web", "standalone"} \cup Tools
Home(w)   == IF w \in Standalone THEN "standalone" ELSE "web"
ProcessOf(a) == IF a \in Admins THEN "web" ELSE a

Verdicts == {"none", "verified", "unverified"}
Failures == Fields \cup {"receiver", "direction"}
Rows     == [doc : Document \cup {None}, status : Verdicts, failed : SUBSET Failures]
NoRow    == [doc |-> None, status |-> "none", failed |-> {}]
NoRows   == [l \in Leads |-> NoRow]

VARIABLES
    file,      \* lender_receivers.json
    lists,     \* LENDER_RECEIVERS of every process
    rules,     \* whether LENDER_RULES of the web process is loaded
    lock,      \* holder of _CONFIG_LOCK
    decision,  \* receiver_approvals
    result,    \* lead_results
    job, done, \* jobs: verification_status; rows that are done
    wpc, wlead, wrow,      \* workers: place, lead, row computed
    apc, pair, choice,     \* admins and re-verifications: place, request,
    rows, todo, cur, next, \*   rows read, those left, row in hand, its new row
    runs, asks, faults,
    mixed, missed, contested

config  == <<file, lists, rules, lock>>
tables  == <<decision, result, job, done>>
worker  == <<wpc, wlead, wrow>>
request == <<pair, choice>>
scan    == <<rows, todo, cur, next>>
actor   == <<apc, request, scan>>
history == <<mixed, missed, contested>>
bounds  == <<runs, asks, faults>>
vars    == <<config, tables, worker, actor, history, bounds>>

ApprovalsTypeOK ==
    /\ file \in SUBSET Names
    /\ lists \in [Processes -> SUBSET Names]
    /\ rules \in BOOLEAN /\ lock \in Admins \cup {None}
    /\ decision \in [Names -> {"none", "approved", "rejected"}]
    /\ result \in [Leads -> Rows] /\ job \in [Leads -> Verdicts]
    /\ done \in SUBSET Leads
    /\ wpc \in [Workers -> {"idle", "verify", "save", "complete"}]
    /\ wlead \in [Workers -> Leads \cup {None}] /\ wrow \in [Workers -> Rows]
    /\ apc \in [Actors -> {"idle", "candidates", "teach", "reload", "rules", "fetch",
                           "check", "write", "job", "record"}]
    /\ pair \in [Admins -> Names \cup {None}] /\ choice \in [Admins -> {"approved", "rejected"}]
    /\ rows \in [Actors -> [Leads -> Rows]] /\ todo \in [Actors -> SUBSET Leads]
    /\ cur \in [Actors -> Leads \cup {None}] /\ next \in [Actors -> Rows]
    /\ runs \in 0 .. MaxRuns /\ asks \in 0 .. MaxAsks /\ faults \in 0 .. MaxFaults
    /\ mixed \in SUBSET Leads /\ missed \in SUBSET Leads
    /\ contested \in SUBSET Names

Init ==
    /\ file = Listed /\ lists = [p \in Processes |-> Listed]
    /\ rules = TRUE /\ lock = None
    /\ decision = [n \in Names |-> "none"]
    /\ result = [l \in Leads |-> NoRow] /\ job = [l \in Leads |-> "none"] /\ done = {}
    /\ wpc = [w \in Workers |-> "idle"]
    /\ wlead = [w \in Workers |-> None]
    /\ wrow = [w \in Workers |-> NoRow]
    /\ apc = [a \in Actors |-> "idle"]
    /\ pair = [a \in Admins |-> None]
    /\ choice = [a \in Admins |-> "rejected"]
    /\ rows = [a \in Actors |-> NoRows]
    /\ todo = [a \in Actors |-> {}]
    /\ cur = [a \in Actors |-> None]
    /\ next = [a \in Actors |-> NoRow]
    /\ runs = 0 /\ asks = 0 /\ faults = 0
    /\ mixed = {} /\ missed = {} /\ contested = {}

-----------------------------------------------------------------------------
\* Workers and scans that have a row of the lead in hand.
WorkersOn(l) == {w \in Workers : wpc[w] # "idle" /\ wlead[w] = l}
ScansOn(l)   == {a \in Actors : \/ l \in todo[a]
                                \/ apc[a] \in {"write", "job"} /\ cur[a] = l}

\* The row fails on its receiver alone, by its extraction too, is not flagged
\* and has a payee: an approval of the payee settles it.
Ready(row) ==
    /\ row.status = "unverified" /\ row.failed = {"receiver"}
    /\ row.doc.payee # None /\ row.doc.wrong = {}
    /\ ~row.doc.incoming /\ ~row.doc.flagged

\* An approval of the name has read its candidates, or was recorded.
Approving(n) ==
    \/ decision[n] = "approved"
    \/ \E a \in Admins : /\ apc[a] \notin {"idle", "candidates"}
                         /\ pair[a] = n /\ choice[a] = "approved"

Missing(l, row) == IF Ready(row) /\ Approving(row.doc.payee) THEN missed \cup {l} ELSE missed

-----------------------------------------------------------------------------
(* Workers.                                                                *)

Release(ws) ==
    /\ wpc'   = [w \in Workers |-> IF w \in ws THEN "idle" ELSE wpc[w]]
    /\ wlead' = [w \in Workers |-> IF w \in ws THEN None ELSE wlead[w]]
    /\ wrow'  = [w \in Workers |-> IF w \in ws THEN NoRow ELSE wrow[w]]

\* A job is claimed and read.  A second worker gets it when its lease runs
\* out under the first.
Extract(w, l, d) ==
    /\ wpc[w] = "idle" /\ l \notin done
    /\ runs < MaxRuns /\ runs' = runs + 1
    /\ wpc' = [wpc EXCEPT ![w] = "verify"]
    /\ wlead' = [wlead EXCEPT ![w] = l]
    /\ wrow' = [wrow EXCEPT ![w] = [NoRow EXCEPT !.doc = d]]
    /\ mixed' = IF WorkersOn(l) \cup ScansOn(l) # {} THEN mixed \cup {l} ELSE mixed
    /\ UNCHANGED <<config, tables, actor, missed, contested, asks, faults>>

\* The rules of the web process are gone for a moment while it reloads them:
\* the lookup raises, and the job is tried again.
RulesLoaded(p) == p = "web" => rules

VerifyLead(w) ==
    /\ wpc[w] = "verify" /\ RulesLoaded(Home(w))
    /\ wpc' = [wpc EXCEPT ![w] = "save"]
    /\ wrow' = [wrow EXCEPT ![w] = Row(@.doc, lists[Home(w)])]
    /\ UNCHANGED <<config, tables, wlead, actor, history, bounds>>

VerifyRaises(w) ==
    /\ wpc[w] = "verify" /\ ~RulesLoaded(Home(w))
    /\ Release({w})
    /\ UNCHANGED <<config, tables, actor, history, bounds>>

SaveResult(w) ==
    /\ wpc[w] = "save"
    /\ wpc' = [wpc EXCEPT ![w] = "complete"]
    /\ result' = [result EXCEPT ![wlead[w]] = wrow[w]]
    /\ missed' = Missing(wlead[w], wrow[w])
    /\ UNCHANGED <<config, decision, job, done, wlead, wrow, actor, mixed, contested, bounds>>

CompleteJob(w) ==
    /\ wpc[w] = "complete" /\ Release({w})
    /\ job' = [job EXCEPT ![wlead[w]] = wrow[w].status]
    /\ done' = done \cup {wlead[w]}
    /\ UNCHANGED <<config, decision, result, actor, history, bounds>>

-----------------------------------------------------------------------------
(* decide: one request about one payee.                                    *)

\* A request that is answered, a re-verification at its end, or the process
\* that died with them.
Leave(as) ==
    /\ apc'  = [a \in Actors |-> IF a \in as THEN "idle" ELSE apc[a]]
    /\ todo' = [a \in Actors |-> IF a \in as THEN {} ELSE todo[a]]
    /\ rows' = [a \in Actors |-> IF a \in as THEN NoRows ELSE rows[a]]
    /\ cur'  = [a \in Actors |-> IF a \in as THEN None ELSE cur[a]]
    /\ next' = [a \in Actors |-> IF a \in as THEN NoRow ELSE next[a]]
    /\ pair' = [a \in Admins |-> IF a \in as THEN None ELSE pair[a]]
    /\ choice' = [a \in Admins |-> IF a \in as THEN "rejected" ELSE choice[a]]

\* Pairs that were decided are refused.
AskAgain(a, n, c) ==   \* mutant: a decided pair is decided again
    /\ apc[a] = "idle" /\ asks < MaxAsks /\ asks' = asks + 1
    /\ apc' = [apc EXCEPT ![a] = "candidates"]
    /\ pair' = [pair EXCEPT ![a] = n] /\ choice' = [choice EXCEPT ![a] = c]
    /\ contested' = IF \E b \in Admins : apc[b] # "idle" /\ pair[b] = n
                    THEN contested \cup {n} ELSE contested
    /\ UNCHANGED <<config, tables, worker, scan, mixed, missed, runs, faults>>
Ask(a, n, c) ==
    /\ apc[a] = "idle" /\ asks < MaxAsks /\ asks' = asks + 1
    /\ decision[n] = "none"
    /\ apc' = [apc EXCEPT ![a] = "candidates"]
    /\ pair' = [pair EXCEPT ![a] = n] /\ choice' = [choice EXCEPT ![a] = c]
    /\ contested' = IF \E b \in Admins : apc[b] # "idle" /\ pair[b] = n
                    THEN contested \cup {n} ELSE contested
    /\ UNCHANGED <<config, tables, worker, scan, mixed, missed, runs, faults>>

\* Unverified real leads that failed on this receiver, among others.
Candidate(row) ==
    row.status = "unverified" /\ "receiver" \in row.failed /\ ~row.doc.flagged
        /\ row.doc.payee # None
Candidates(a) ==
    /\ apc[a] = "candidates"
    /\ apc' = [apc EXCEPT ![a] = IF choice[a] = "approved" THEN "teach" ELSE "record"]
    /\ todo' = [todo EXCEPT ![a] =
                    IF choice[a] = "approved"
                    THEN {l \in Leads : Candidate(result[l]) /\ result[l].doc.payee = pair[a]}
                    ELSE {}]
    /\ UNCHANGED <<config, tables, worker, request, rows, cur, next, history, bounds>>

\* add_receiver, under the lock: the file is replaced; the lists of the
\* process are cleared and loaded, then the rules are.
TeachUnloaded(a) ==   \* mutant: the process goes on with its old lists
    /\ apc[a] = "teach" /\ lock = None
    /\ apc' = [apc EXCEPT ![a] = "fetch"]
    /\ file' = file \cup {pair[a]}
    /\ UNCHANGED <<lists, rules, lock, tables, worker, request, scan, history, bounds>>
Teach(a) ==
    /\ apc[a] = "teach" /\ lock = None /\ lock' = a
    /\ apc' = [apc EXCEPT ![a] = "reload"]
    /\ file' = file \cup {pair[a]}
    /\ lists' = [lists EXCEPT !["web"] = {}]
    /\ UNCHANGED <<rules, tables, worker, request, scan, history, bounds>>

Reload(a) ==
    /\ apc[a] = "reload"
    /\ apc' = [apc EXCEPT ![a] = "rules"]
    /\ lists' = [lists EXCEPT !["web"] = file]
    /\ rules' = FALSE
    /\ UNCHANGED <<file, lock, tables, worker, request, scan, history, bounds>>

ReloadRules(a) ==
    /\ apc[a] = "rules"
    /\ apc' = [apc EXCEPT ![a] = "fetch"]
    /\ rules' = TRUE /\ lock' = None
    /\ UNCHANGED <<file, lists, tables, worker, request, scan, history, bounds>>

\* The rows of the candidates are read: those still verified or unverified.
Scannable(l) == result[l].status \in {"verified", "unverified"}

\* Who holds a lead beside this request.
Overlapping(a, ls) ==
    mixed \cup {l \in ls : WorkersOn(l) \cup (ScansOn(l) \ {a}) # {}}

FetchRows(a, ls) ==
    /\ rows' = [rows EXCEPT ![a] = [l \in Leads |-> IF l \in ls THEN result[l] ELSE NoRow]]
    /\ todo' = [todo EXCEPT ![a] = ls]
    /\ mixed' = Overlapping(a, ls)
    /\ apc' = [apc EXCEPT ![a] = "check"]
    /\ UNCHANGED <<tables, worker, request, cur, next, missed, contested>>

Fetch(a) ==
    /\ apc[a] = "fetch"
    /\ FetchRows(a, {l \in todo[a] : Scannable(l)})
    /\ UNCHANGED <<config, bounds>>

\* python reverify.py: the files are loaded, then all rows are read.
StartTool(a) ==
    /\ apc[a] = "idle" /\ asks < MaxAsks /\ asks' = asks + 1
    /\ lists' = [lists EXCEPT ![a] = file]
    /\ FetchRows(a, {l \in Leads : Scannable(l)})
    /\ UNCHANGED <<file, rules, lock, runs, faults>>

-----------------------------------------------------------------------------
(* _reverify_rows: one row after another.                                  *)

\* Flagged leads are skipped, and so are those whose status stays the same.
ChangesFlagged(row, allow) == Status(row.doc, allow) # row.status   \* mutant
Changes(row, allow) == ~row.doc.flagged /\ Status(row.doc, allow) # row.status

CheckRow(a, l) ==
    /\ apc[a] = "check" /\ l \in todo[a] /\ RulesLoaded(ProcessOf(a))
    /\ todo' = [todo EXCEPT ![a] = @ \ {l}]
    /\ LET row == rows[a][l]
           allow == lists[ProcessOf(a)]
           changes == Changes(row, allow)
       IN  /\ apc' = [apc EXCEPT ![a] = IF changes THEN "write" ELSE "check"]
           /\ cur' = [cur EXCEPT ![a] = IF changes THEN l ELSE None]
           /\ rows' = [rows EXCEPT ![a] = [@ EXCEPT ![l] = NoRow]]
           /\ next' = [next EXCEPT ![a] =
                          IF changes THEN [row EXCEPT !.status = Status(row.doc, allow),
                                                      !.failed = FailedFields(row.doc, allow)]
                          ELSE NoRow]
           \* checked while another approval reloads the lists of the process
           /\ missed' = IF a \in Admins /\ lock # None /\ ~changes
                        THEN Missing(l, row) ELSE missed
    /\ UNCHANGED <<config, tables, worker, request, mixed, contested, bounds>>

\* The extraction is left as it is by now.
WriteRowOnly(a) ==   \* mutant: the job keeps the old verdict
    /\ apc[a] = "write"
    /\ apc' = [apc EXCEPT ![a] = "check"]
    /\ LET l == cur[a]
           row == [result[l] EXCEPT !.status = next[a].status, !.failed = next[a].failed]
       IN  /\ result' = [result EXCEPT ![l] = row]
           /\ missed' = Missing(l, row)
    /\ UNCHANGED <<config, decision, job, done, worker, request, scan, mixed, contested, bounds>>
WriteRow(a) ==
    /\ apc[a] = "write"
    /\ apc' = [apc EXCEPT ![a] = "job"]
    /\ LET l == cur[a]
           row == [result[l] EXCEPT !.status = next[a].status, !.failed = next[a].failed]
       IN  /\ result' = [result EXCEPT ![l] = row]
           /\ missed' = Missing(l, row)
    /\ UNCHANGED <<config, decision, job, done, worker, request, scan, mixed, contested, bounds>>

WriteJob(a) ==
    /\ apc[a] = "job"
    /\ apc' = [apc EXCEPT ![a] = "check"]
    /\ job' = [job EXCEPT ![cur[a]] = next[a].status]
    /\ next' = [next EXCEPT ![a] = NoRow] /\ cur' = [cur EXCEPT ![a] = None]
    /\ UNCHANGED <<config, decision, result, done, worker, request, rows, todo, history, bounds>>

EndScan(a) ==
    /\ apc[a] = "check" /\ todo[a] = {}
    /\ IF a \in Tools THEN Leave({a})
       ELSE apc' = [apc EXCEPT ![a] = "record"] /\ UNCHANGED <<request, scan>>
    /\ UNCHANGED <<config, tables, worker, history, bounds>>

\* The decision is inserted unless the pair has one by now; then the request
\* is answered with an error and what it did stays.
Record(a) ==
    /\ apc[a] = "record" /\ Leave({a})
    /\ decision' = [decision EXCEPT ![pair[a]] = IF @ = "none" THEN choice[a] ELSE @]
    /\ UNCHANGED <<config, result, job, done, worker, history, bounds>>

-----------------------------------------------------------------------------
(* Faults.                                                                 *)

\* A request or a re-verification that ends early: a name taught without a
\* decision, a row without its job.
Dropped(as) ==
    /\ Leave(as)
    /\ contested' = contested \cup
           {pair[a] : a \in {b \in as \cap Admins : choice[b] = "approved"
                                /\ apc[b] \notin {"idle", "candidates", "teach"}}}

CheckRaises(a) ==
    /\ apc[a] = "check" /\ todo[a] # {} /\ ~RulesLoaded(ProcessOf(a))
    /\ Dropped({a})
    /\ UNCHANGED <<config, tables, worker, mixed, missed, bounds>>

Interrupted(as, ws) ==
    {cur[a] : a \in {b \in as : apc[b] = "job"}}
        \cup {wlead[w] : w \in {v \in ws : wpc[v] = "complete"}}

\* A process dies and comes back with the files as they are.
CrashWith(p, as, ws) ==
    /\ faults < MaxFaults /\ faults' = faults + 1
    /\ Dropped(as)
    /\ Release(ws)
    /\ mixed' = mixed \cup Interrupted(as, ws)
    /\ lists' = [lists EXCEPT ![p] = file]
    /\ UNCHANGED <<file, tables, missed, runs, asks>>

CrashWeb ==
    /\ CrashWith("web", Admins, Workers \ Standalone)
    /\ rules' = TRUE /\ lock' = None

CrashStandalone == CrashWith("standalone", {}, Standalone) /\ UNCHANGED <<rules, lock>>

CrashTool(a) == /\ apc[a] # "idle"
                /\ CrashWith(a, {a}, {}) /\ UNCHANGED <<rules, lock>>

WorkerStep(w) ==
    \/ \E l \in Leads, d \in Docs : Extract(w, l, d)
    \/ VerifyLead(w) \/ VerifyRaises(w) \/ SaveResult(w) \/ CompleteJob(w)

ScanStep(a) ==
    \/ \E l \in Leads : CheckRow(a, l)
    \/ WriteRow(a) \/ WriteJob(a) \/ EndScan(a) \/ CheckRaises(a)

Decide(a) ==
    \/ \E n \in Names, c \in {"approved", "rejected"} : Ask(a, n, c)
    \/ Candidates(a) \/ Teach(a) \/ Reload(a) \/ ReloadRules(a) \/ Fetch(a) \/ Record(a)

Next ==
    \/ \E w \in Workers : WorkerStep(w)
    \/ \E a \in Admins : Decide(a)
    \/ \E a \in Actors : ScanStep(a)
    \/ \E a \in Tools : StartTool(a) \/ CrashTool(a)
    \/ CrashWeb \/ CrashStandalone

Spec == Init /\ [][Next]_vars

-----------------------------------------------------------------------------
(* Properties                                                              *)

\* The file and the decisions agree: an approved name is in the file, and no
\* name is that was rejected or never approved, unless two decisions about it
\* were in flight at a time or an approval broke off.
Open(n) == \E a \in Admins : apc[a] # "idle" /\ pair[a] = n
FileFollowsDecisions ==
    \A n \in Names :
        /\ decision[n] = "approved" => n \in file
        /\ n \in file \ (Listed \cup contested) => decision[n] = "approved" \/ Open(n)

\* What the receiver file can be relied on: it follows the decisions.
FileSound == ApprovalsTypeOK /\ FileFollowsDecisions

\* approvals.py:5-11: one decision covers every lead of the payee.  A lead
\* that fails on an approved receiver alone - it is in no queue any more - was
\* saved or checked across the approval.
ApprovalCovers ==
    \A l \in Leads : Ready(result[l]) /\ decision[result[l].doc.payee] = "approved" => l \in missed

\* Result and job tell the same verdict once nobody has the lead in hand,
\* unless two had it at a time or one broke off.
VerdictsAgree ==
    \A l \in done \ mixed :
        WorkersOn(l) = {} /\ (\A a \in Actors : ~(apc[a] = "job" /\ cur[a] = l))
            => job[l] = result[l].status

\* server.py:582-584: leads never leave unverified except by legitimately
\* re-verifying.  A verified lead passes the checks with the receivers that
\* are on file, and was not flagged by the ledger.
VerifiedIsJustified ==
    \A l \in Leads \ mixed :
        result[l].status = "verified" =>
            ~result[l].doc.flagged /\ Status(result[l].doc, file) = "verified"
=============================================================================

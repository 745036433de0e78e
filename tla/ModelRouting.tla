----------------------------- MODULE ModelRouting -----------------------------
(***************************************************************************)
(* Which model reads a page of a legal notice: the settings in             *)
(* runtime_config with their validation and the caches of the processes    *)
(* (config/runtime.py), and the plan, the retry and the re-reading of a    *)
(* batch of pages (workspaces/legal/llm.py).                               *)
(*                                                                         *)
(* A save reads, validates, then writes key by key, every statement on its *)
(* own.  Medha always has an endpoint (the default of the environment);    *)
(* Gemini is configured when it has a key.                                 *)
(***************************************************************************)
EXTENDS Naturals, Sequences, FiniteSets, SequencesExt

CONSTANTS Processes, Web, Savers, Requests, None,
          MaxSaves, MaxBatches, MaxFaults     \* bounds

Providers == {"medha", "gemini"}
Options   == [routing : {"single", "hybrid"}, main : Providers, multilingual : Providers,
              scanned : {"english_first", "multilingual"}, fallback : BOOLEAN, key : BOOLEAN]

\* A request names some options, None for the rest; its key is kept, set or cleared.
Request   == [routing : {"single", "hybrid", None}, main : Providers \cup {None},
              multilingual : Providers \cup {None},
              scanned : {"english_first", "multilingual", None},
              fallback : BOOLEAN \cup {None}, key : {"keep", "set", "clear"}]

ASSUME RoutingAssumption ==
    /\ Web \in Processes /\ Requests \subseteq Request /\ None \notin Providers
    /\ MaxSaves \in Nat /\ MaxBatches \in Nat /\ MaxFaults \in Nat

VARIABLES
    table,            \* runtime_config
    cached,           \* what a process read last; None: its time is up
    writing,          \* what a save still has to write, key by key
    batch,            \* the batch being read
    saves, batches, faults,
    overlap           \* history: two saves met, or a fault hit one

vars == <<table, cached, writing, batch, saves, batches, faults, overlap>>
keys == <<"routing", "main", "multilingual", "scanned", "fallback", "key">>
Keys == Range(keys)

Default == [routing |-> "single", main |-> "medha", multilingual |-> "gemini",
            scanned |-> "english_first", fallback |-> TRUE, key |-> FALSE]

Languages == {"english", "multilingual", "unknown"}
Call    == [provider : Providers, status : {"OK", "FAIL", "SUPERSEDED"}]
Batch   == [at : {"first", "retry", "reread", "done"}, conf : Options, language : Languages,
            calls : UNION {[1 .. n -> Call] : n \in 0 .. 3},
            reading : Providers \cup {None}, foreign : BOOLEAN]

RoutingTypeOK ==
    /\ table \in Options /\ cached \in [Processes -> Options \cup {None}]
    /\ \A s \in Savers : writing[s] = <<>> \/
          \E n \in 1 .. Len(keys) : /\ DOMAIN writing[s] = 1 .. n
                                    /\ \A i \in 1 .. n : writing[s][i][1] \in Keys
    /\ batch = None \/ batch \in Batch
    /\ saves \in 0 .. MaxSaves /\ batches \in 0 .. MaxBatches /\ faults \in 0 .. MaxFaults
    /\ overlap \in BOOLEAN

Init ==
    /\ table = Default /\ cached = [p \in Processes |-> None]
    /\ writing = [s \in Savers |-> <<>>] /\ batch = None
    /\ saves = 0 /\ batches = 0 /\ faults = 0 /\ overlap = FALSE

-----------------------------------------------------------------------------
(* Settings.                                                               *)

Configured(provider, conf) == provider = "medha" \/ conf.key

\* What pages may be routed to.
Used(conf) == {conf.main} \cup (IF conf.routing = "hybrid" THEN {conf.multilingual} ELSE {})

CallableNever(conf) == TRUE   \* mutant: everything is accepted
Callable(conf) ==
    /\ \A provider \in Used(conf) : Configured(provider, conf)
    /\ conf.routing = "hybrid" => conf.main # conf.multilingual

Merged(current, request) ==
    [k \in Keys |->
        IF k = "key" THEN request.key = "set" \/ (request.key = "keep" /\ current.key)
        ELSE IF request[k] = None THEN current[k] ELSE request[k]]

\* All the routing is written, what the request left open included; the key
\* only if it was given.
Updates(request, new) ==
    LET pairs == [i \in 1 .. Len(keys) |-> <<keys[i], new[keys[i]]>>]
    IN  IF request.key = "keep" THEN Front(pairs) ELSE pairs

Saving == \E s \in Savers : writing[s] # <<>>

\* The read is a fresh one: it refreshes the cache of the process, too.
StartSave(s, request) ==
    /\ writing[s] = <<>> /\ saves < MaxSaves
    /\ cached' = [cached EXCEPT ![Web] = table]
    /\ LET new == Merged(table, request)
       IN  IF Callable(new)
           THEN /\ writing' = [writing EXCEPT ![s] = Updates(request, new)]
                /\ overlap' = (overlap \/ Saving)
                /\ saves' = saves + 1
           ELSE UNCHANGED <<writing, overlap, saves>>   \* ConfigError
    /\ UNCHANGED <<table, batch, batches, faults>>

\* The database fails the read, not the writes: the save starts from the
\* defaults of the environment.
StartSaveBlind(s, request) ==
    /\ writing[s] = <<>> /\ saves < MaxSaves /\ saves' = saves + 1
    /\ faults < MaxFaults /\ faults' = faults + 1
    /\ LET new == Merged(Default, request)
       IN  Callable(new) /\ writing' = [writing EXCEPT ![s] = Updates(request, new)]
    /\ cached' = [cached EXCEPT ![Web] = Default]
    /\ overlap' = TRUE
    /\ UNCHANGED <<table, batch, batches>>

\* After the last key the cache is dropped, and read again for the answer.
WriteKey(s) ==
    /\ writing[s] # <<>>
    /\ table' = [table EXCEPT ![Head(writing[s])[1]] = Head(writing[s])[2]]
    /\ writing' = [writing EXCEPT ![s] = Tail(@)]
    /\ cached' = IF Len(writing[s]) = 1 THEN [cached EXCEPT ![Web] = table'] ELSE cached
    /\ UNCHANGED <<batch, saves, batches, faults, overlap>>

\* The web process ends, with every save in it.
WebDies ==
    /\ faults < MaxFaults /\ faults' = faults + 1
    /\ overlap' = (overlap \/ Saving)
    /\ writing' = [s \in Savers |-> <<>>]
    /\ cached' = [cached EXCEPT ![Web] = None]
    /\ UNCHANGED <<table, batch, saves, batches>>

\* _TTL
ForgetsOwn(p) ==   \* mutant: only the process that saves drops what it read
    /\ p = Web /\ cached[p] # None /\ cached' = [cached EXCEPT ![p] = None]
    /\ UNCHANGED <<table, writing, batch, saves, batches, faults, overlap>>
Forgets(p) ==
    /\ cached[p] # None /\ cached' = [cached EXCEPT ![p] = None]
    /\ UNCHANGED <<table, writing, batch, saves, batches, faults, overlap>>

-----------------------------------------------------------------------------
(* A batch of pages.                                                       *)

Other(provider) == IF provider = "medha" THEN "gemini" ELSE "medha"

\* plan: who reads first, and who reads again when the reading turns out not
\* to be English.
First(conf, language) ==
    IF conf.routing = "hybrid" /\ (language = "multilingual"
                                   \/ (language = "unknown" /\ conf.scanned = "multilingual"))
    THEN conf.multilingual ELSE conf.main
Escalate(conf, language) ==
    IF conf.routing = "hybrid" /\ language = "unknown" /\ conf.scanned = "english_first"
    THEN conf.multilingual ELSE None

\* settings(): cached, or read; a failing read gives the defaults.
StartBatch(p, language) ==
    /\ batch # None => batch.at = "done"
    /\ batches < MaxBatches /\ batches' = batches + 1
    /\ \E conf \in {IF cached[p] = None THEN table ELSE cached[p], Default} :
          /\ IF conf = (IF cached[p] = None THEN table ELSE cached[p]) THEN UNCHANGED faults
             ELSE cached[p] = None /\ faults < MaxFaults /\ faults' = faults + 1
          /\ cached' = [cached EXCEPT ![p] = conf]
          /\ batch' = [at |-> "first", conf |-> conf, language |-> language,
                       calls |-> <<>>, reading |-> None, foreign |-> FALSE]
    /\ UNCHANGED <<table, writing, saves, overlap>>

Reader == CASE batch.at = "first"  -> First(batch.conf, batch.language)
            [] batch.at = "retry"  -> Other(First(batch.conf, batch.language))
            [] batch.at = "reread" -> Escalate(batch.conf, batch.language)

Recorded(status) == Append(batch.calls, [provider |-> Reader, status |-> status])

\* A retry after a failure, a second reading of what was not English, or the
\* end.
RereadsSame(conf, language, foreign) ==   \* mutant: by the same model, too
    foreign /\ Escalate(conf, language) # None
Rereads(conf, language, foreign) ==
    /\ foreign
    /\ Escalate(conf, language) \notin {None, First(conf, language)}

\* The first reading stays in the record, superseded; calls[-2] of the code.
Superseded(calls) == [calls EXCEPT ![Len(calls) - 1].status = "SUPERSEDED"]

\* An answer that parses; "foreign": it shows that the source was not English.
CallReads(foreign) ==
    /\ Configured(Reader, batch.conf)
    /\ batch' = [batch EXCEPT
          !.calls = IF batch.at = "reread" THEN Superseded(Recorded("OK")) ELSE Recorded("OK"),
          !.reading = Reader, !.foreign = foreign,
          !.at = IF batch.at = "first" /\ Rereads(batch.conf, batch.language, foreign)
                 THEN "reread" ELSE "done"]

\* No answer, one that does not parse, or a model that is not configured and
\* so never called.
CallFails ==
    batch' = [batch EXCEPT
        !.calls = Recorded("FAIL"),
        !.at = IF batch.at = "first" /\ batch.conf.fallback
                   /\ Configured(Other(Reader), batch.conf)
               THEN "retry" ELSE "done"]

ReadBatch ==
    /\ batch # None /\ batch.at # "done"
    /\ CallFails \/ \E foreign \in BOOLEAN : CallReads(foreign)
    /\ UNCHANGED <<table, cached, writing, saves, batches, faults, overlap>>

Next ==
    \/ \E s \in Savers : \/ WriteKey(s)
                         \/ \E request \in Requests : StartSave(s, request) \/ StartSaveBlind(s, request)
    \/ WebDies \/ ReadBatch
    \/ \E p \in Processes : Forgets(p) \/ \E language \in Languages : StartBatch(p, language)

Spec == Init /\ [][Next]_vars
\* Requests end, and the time of a cached reading runs out.
FairSpec == Spec /\ (\A s \in Savers : WF_vars(WriteKey(s)))
                 /\ \A p \in Processes : WF_vars(Forgets(p))

-----------------------------------------------------------------------------
(* Properties                                                              *)

\* runtime.py:156-158: no save leaves a setup that would route pages to a
\* model that cannot be called, or a hybrid of one model, as long as saves do
\* not meet each other or a fault.  What a save checks is what a plan uses.
Routable(conf) ==
    \A language \in Languages :
        \A provider \in {First(conf, language), Escalate(conf, language)} \ {None} :
            Configured(provider, conf)
TwoModels(conf) ==
    conf.routing = "hybrid" => First(conf, "english") # First(conf, "multilingual")
CallableAtRest == Saving \/ overlap \/ (Routable(table) /\ TwoModels(table))

\* A batch is not paid for twice: no model is called twice for it, also when
\* the settings it was started with are halfway through a save.
EachModelOnce ==
    batch # None => \A i, j \in DOMAIN batch.calls :
                        i # j => batch.calls[i].provider # batch.calls[j].provider

\* The record of the calls names the reading that is used: one call is OK, it
\* is the used model's, and no other call is.
OneReadingUsed ==
    batch # None =>
        {batch.calls[i].provider : i \in {j \in DOMAIN batch.calls : batch.calls[j].status = "OK"}}
            = {batch.reading} \ {None}

\* The record of the calls of a batch tells what was paid for and what is used.
CallsTell == RoutingTypeOK /\ EachModelOnce /\ OneReadingUsed

\* A change reaches every process: in the end none works with old settings.
CachesCatchUp == <>[](\A p \in Processes : cached[p] \in {None, table})
=============================================================================

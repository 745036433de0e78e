---------------------------- MODULE MCModelRouting ----------------------------
(* Forms as the console sends them: Gemini for everything, with and without *)
(* its key; each kind of hybrid; back to one model; the key cleared.        *)
EXTENDS ModelRouting, TLC

Form(routing, main, multilingual, scanned, fallback, key) ==
    [routing |-> routing, main |-> main, multilingual |-> multilingual,
     scanned |-> scanned, fallback |-> fallback, key |-> key]

MCRequests ==
    {Form("single", "gemini", None, None, None, "set"),
     Form("hybrid", "medha", "gemini", None, None, "keep"),
     Form("hybrid", "gemini", "medha", None, FALSE, "set"),
     Form(None, None, None, "multilingual", None, "keep"),
     Form("single", "medha", None, None, None, "clear")}
=============================================================================

--------------------------- MODULE MCLegalReview ---------------------------
EXTENDS LegalReview, TLC

CONSTANTS name, address, x, y, j1, j2

Clear   == [notes |-> {}, verified |-> FALSE, hand |-> FALSE, page |-> {}, legibility |-> "clear"]
Proven  == [Clear EXCEPT !.verified = TRUE, !.hand = TRUE]
Blurry  == [Clear EXCEPT !.page = {"blurry"}]
OldRun  == [Clear EXCEPT !.legibility = "none"]
Dispute == [Clear EXCEPT !.verified = TRUE, !.notes = {"conflict"}]

Read(a, ea, b, eb) == [value |-> (name :> a @@ address :> b), proof |-> (name :> ea @@ address :> eb)]

MCFields   == {name, address}
MCTexts    == {x, y}
MCReadings == {Read(x, Blurry, x, Proven), Read(y, OldRun, Blank, Clear)}
MCJobs     == {j1, j2}
Symmetry   == Permutations(MCJobs)
=============================================================================

\* Two ingesters after a lost lock: three rows, one fault, and an overlap
\* that covers late commits and long cycles.
SPECIFICATION Spec
CONSTANTS
    r1 = r1
    r2 = r2
    r3 = r3
    Rows = {r1, r2, r3}
    IdOrder <- MCIdOrder
    TextOrder <- MCTextOrder
    Malformed = {r2}
    Ingesters = {i1, i2}
    Modes = {"live"}
    Batch = 2
    MaxPages = 1
    Overlap = 2
    Latency = 1
    CycleTime = 1
    MaxTime = 3
    MaxFaults = 1
    Nobody = Nobody
    Unset = Unset
SYMMETRY Symmetry
INVARIANTS NoneLeftBehind
PROPERTIES CursorForward

\* One ingester at a time, started live, once or as a backfill: three rows,
\* pages of two, one fault.
SPECIFICATION FairSpec
CONSTANTS
    r1 = r1
    r2 = r2
    r3 = r3
    Rows = {r1, r2, r3}
    IdOrder <- MCIdOrder
    TextOrder <- MCTextOrder
    Malformed = {r2}
    Ingesters = {i1}
    Modes = {"live", "once", "backfill"}
    Batch = 2
    MaxPages = 3
    Overlap = 2
    Latency = 1
    CycleTime = 1
    MaxTime = 3
    MaxFaults = 1
    Nobody = Nobody
    Unset = Unset
PROPERTIES RowsLandUnlessCrowded

SPECIFICATION Spec
CONSTANTS
    l1 = l1  l2 = l2  w1 = w1  w2 = w2
    None = None
    Leads = {l1, l2}  Workers = {w1, w2}  Wipers = {x1}  Reviewers = {v1}
    MaxUploads = 2  MaxRuns = 2  MaxWipes = 2  MaxFaults = 1
SYMMETRY Symmetry
CHECK_DEADLOCK FALSE
INVARIANTS WipedClean DoneWasRun CountedOnce
PROPERTIES RealRowsStay

SPECIFICATION Spec
CONSTANTS
    Leads = {l1}
    Docs = {d1, d2}
    Workers = {w1, w2}
    NoLead = NoLead
    NoDoc = NoDoc
    MaxUploads = 2
    MaxFaults = 1
SYMMETRY Symmetry
CHECK_DEADLOCK FALSE
INVARIANTS OneReaderPerLead VerdictMeansSettled RowsAgree Attended
PROPERTIES PauseHolds
CONSTRAINT SmallCrowd

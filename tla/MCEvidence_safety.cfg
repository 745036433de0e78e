SPECIFICATION Spec
CONSTANTS
    l1 = l1  l2 = l2  i1 = i1  w1 = w1  w2 = w2  p1 = p1  p2 = p2
    None = None
    Leads = {l1, l2}  Images = {i1}  Workers = {w1, w2}  Processes = {p1, p2}
    ImageOf <- MCImageOf
    Threshold = 2  MaxFailures = 3  MaxFaults = 2
SYMMETRY Symmetry
CHECK_DEADLOCK FALSE
INVARIANTS StoreSound OutageStaysLocal FailedBackOff

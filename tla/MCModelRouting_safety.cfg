SPECIFICATION FairSpec
CONSTANTS
    None = None
    Web = web
    Processes = {web, pool}
    Savers = {s1, s2}
    Requests <- MCRequests
    MaxSaves = 2  MaxBatches = 1  MaxFaults = 1
CHECK_DEADLOCK FALSE
INVARIANTS CallsTell CallableAtRest
PROPERTIES CachesCatchUp

\* Two workers: leads of two loan accounts, and no second attempt.
SPECIFICATION PipelineSpec
CONSTANTS
    r1 = r1
    r2 = r2
    r3 = r3
    r4 = r4
    r5 = r5
    r6 = r6
    Jobs = {r1, r3}
    Workers = {w1, w2}
    Verdicts = {"verified", "unverified", "non_document", "unprocessed", "duplicate"}
    Priority <- MCPriority
    MaxAttempts = 2
    MaxFaults = 0
    NoJob = NoJob
    NoVerdict = NoVerdict
    NoIdentity = NoIdentity
    Identities <- MCIdentities
    Row <- MCRow
    Precomputed <- MCPrecomputed
INVARIANTS DifferentLoanReviewed

SPECIFICATION ReadingSpec
CONSTANTS
    Documents <- Order
    PageCount <- Counts
    BatchSize = 2
    Plans <- Instructions
    Asked <- Wanted
    Cleaned <- Clean
    Lenders = {"bank"}
    Replies <- Answers
    MaxMishaps = 1
    Nothing = Nothing
CHECK_DEADLOCK FALSE
INVARIANTS EveryoneOnce EvidenceKept VerdictTells PagesRead

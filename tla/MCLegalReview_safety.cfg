SPECIFICATION Spec
CONSTANTS
    name = name  address = address  x = x  y = y  j1 = j1  j2 = j2
    Blank = Blank  Unset = Unset
    Fields <- MCFields  Schema <- MCFields  Texts <- MCTexts  Readings <- MCReadings
    Reviewers = {r1}
    Jobs <- MCJobs
    MaxEdits = 2  MaxJobs = 2
SYMMETRY Symmetry
CHECK_DEADLOCK FALSE
INVARIANTS CorrectionsStand ReadingKept NothingHidden

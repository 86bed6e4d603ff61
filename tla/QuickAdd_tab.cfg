\* Two commands of one page, one of them left over from a worker that was stopped.
CONSTANTS
    j1 = j1
    j2 = j2
    s1 = s1
    s2 = s2
    Jobs <- TwoJobs
    Leftover <- OldJobs
    Sources <- OneSource
    MaxActive = 1
    Life = 1
    MaxClock = 1
    MaxFaults = 1
    NoSource = NoSource
SPECIFICATION QuickAddFairSpec
INVARIANTS NeverImportsTwice OneOutcome
PROPERTY JobsEnd
CHECK_DEADLOCK FALSE

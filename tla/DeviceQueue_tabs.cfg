\* Two tabs, one card, every kind of operation, one clear-all.
SPECIFICATION DQSpec
CONSTANTS
    f1 = f1
    f2 = f2
    Cards = {c1}
    Tabs = {t1, t2}
    Fields = {f1, f2}
    Staged <- EveryKind
    MaxOps = 3
    MaxDrafts = 1
    MaxClock = 1
    MaxEpoch = 1
INVARIANTS
    WriteBackHarmless
    DeleteStands
    ReviewsAndCreatesKept
    LatestEditWins
CHECK_DEADLOCK FALSE

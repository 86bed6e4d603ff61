\* Two devices: an edit that stays queued beside a review and another edit.
SPECIFICATION SyncSpec
ACTION_CONSTRAINT OneReviewBetween
CONSTANTS
    d1 = d1
    d2 = d2
    t1 = t1
    t2 = t2
    f1 = f1
    f2 = f2
    Cards = {c1}
    Fields = {f1, f2}
    Values = {0, 1, 2, 3, 4, 5}
    OpIds = {0, 1, 2, 3, 4, 5}
    MaxCounter = 12
    MaxClock = 5
    PageSize = 1
    Devices = {d1, d2}
    Tabs = {t1, t2}
    Home <- OwnHome
    DirectTabs = {}
    VerifiedTabs = {t1, t2}
    Refreshers = {}
    Staged <- AllEdits
    Given = {c1}
    Recreates = FALSE
    Faults = {}
    MaxFaults = 0
    MaxOps = 5
    MaxClears = 0
INVARIANTS
    EditsReachTheCloud
CHECK_DEADLOCK FALSE

\* One device, two tabs: creates, edits and deletes, flushed without faults,
\* while one of the tabs refreshes the mirror.
SPECIFICATION SyncSpec
CONSTANTS
    d1 = d1
    d2 = d2
    t1 = t1
    t2 = t2
    f1 = f1
    f2 = f2
    Cards = {c1}
    Fields = {f1, f2}
    Values = {0, 1, 2, 3}
    OpIds = {0, 1, 2, 3}
    MaxCounter = 12
    MaxClock = 3
    PageSize = 1
    Devices = {d1}
    Tabs = {t1, t2}
    Home <- SharedHome
    DirectTabs = {}
    VerifiedTabs = {t1}
    Refreshers = {t2}
    Staged <- AllButReview
    Given = {}
    Recreates = FALSE
    Faults = {}
    MaxFaults = 0
    MaxOps = 3
    MaxClears = 0
INVARIANTS
    EditsReachTheCloud
    LastIntentHolds
    MirrorSettles
CHECK_DEADLOCK FALSE

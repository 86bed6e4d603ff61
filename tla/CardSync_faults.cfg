\* One device, two tabs, one of which tries operations at once; calls time out, pages crash
\* and freeze.  A card changed by every call there can be is at its limit.
SPECIFICATION SyncSpec
CONSTANTS
    d1 = d1
    d2 = d2
    t1 = t1
    t2 = t2
    f1 = f1
    f2 = f2
    Cards = {c1}
    Fields = {f1}
    Values = {0, 1, 2, 3}
    OpIds = {0, 1, 2, 3}
    MaxCounter = 4
    MaxClock = 2
    PageSize = 1
    Devices = {d1}
    Tabs = {t1, t2}
    Home <- SharedHome
    DirectTabs = {t2}
    VerifiedTabs = {t1, t2}
    Refreshers = {}
    Staged <- AllKinds
    Given = {c1}
    Recreates = TRUE
    Faults = {"timeout", "crash", "freeze"}
    MaxFaults = 2
    MaxOps = 2
    MaxClears = 0
INVARIANTS
    RewardBacked
    NothingDropped
    AppliedOnce
CHECK_DEADLOCK FALSE

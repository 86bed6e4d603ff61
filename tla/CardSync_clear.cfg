\* Two devices, one that edits and one that creates, a clear-all and a call that times out.
SPECIFICATION FairSyncSpec
CONSTANTS
    d1 = d1
    d2 = d2
    t1 = t1
    t2 = t2
    f1 = f1
    f2 = f2
    Cards = {c1}
    Fields = {f1, f2}
    Values = {0, 1, 2, 3}
    OpIds = {0, 1, 2, 3}
    MaxCounter = 12
    MaxClock = 3
    PageSize = 1
    Devices = {d1, d2}
    Tabs = {t1, t2}
    Home <- OwnHome
    DirectTabs = {}
    VerifiedTabs = {t1, t2}
    Refreshers = {}
    Staged <- OneCreates
    Given = {c1}
    Recreates = TRUE
    Faults = {"timeout"}
    MaxFaults = 1
    MaxOps = 3
    MaxClears = 1
PROPERTIES
    NoWriteFromBeforeClear
    QueueDrains
CHECK_DEADLOCK FALSE

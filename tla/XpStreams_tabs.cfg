\* Two tabs earn at once while a call or its answer is lost and a tab is loaded again.
SPECIFICATION XpSpec
CONSTANTS
    t1 = t1
    t2 = t2
    Tabs = {t1, t2}
    Awards = {a1, a2}
    Named = {}
    Repeated = {}
    Readers = {t1}
    Reloaders = {t1}
    PerSave = 1
    LedgerSize = 1
    MaxStreams = 3
    MaxClients = 3
    MaxSaves = 2
    MaxReloads = 1
    MaxFaults = 1
INVARIANTS
    NoStreamGap
    CreditedAtRest
PROPERTIES
    ImplementsXpAccount
CHECK_DEADLOCK FALSE

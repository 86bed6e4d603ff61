\* Two tabs of a device and two owners share decks; calls get lost.
SPECIFICATION DeckSpec
CONSTANTS
    k1 = k1
    k2 = k2
    Owners = {o1, o2}
    Decks = {k1, k2}
    DeckBytes <- Sizes
    Fingerprint <- Collision
    Shares = {s1, s2}
    MaxShares = 1
    MaxBytes = 2
    Lifetime = 1
    Skew = 0
    Window = 1
    OwnerRate = 1
    ServiceRate = 2
    MaxClock = 2
    Tabs = {t1, t2}
    MaxPending = 1
    MaxOps = 2
    MaxCalls = 3
    MaxSignIns = 1
INVARIANTS
    LedgerBacksShares
    OneSharePerOperation
    BudgetCountsShares
    LinkBelongs
    UnansweredStaysPending
SYMMETRY Alike
CHECK_DEADLOCK FALSE

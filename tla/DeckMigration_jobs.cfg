\* Jobs that die, owners beside them, shares of every older kind.
SPECIFICATION MigFairSpec
CONSTANTS
    k1 = k1
    k2 = k2
    me = me
    other = other
    Owners = {me}
    Decks = {k1, k2}
    DeckBytes <- Sizes
    Fingerprint <- Alike
    Shares = {1, 2}
    MaxShares = 2
    MaxBytes = 2
    Lifetime = 1
    Skew = 0
    Window = 9
    OwnerRate = 1
    ServiceRate = 1
    MaxClock = 1
    Tabs = {}
    MaxPending = 1
    MaxOps = 0
    MaxCalls = 0
    MaxSignIns = 0
    Migrant = me
    Origins <- Mixes
    PageDocs = 1
    SealChunk = 1
    VerifyDocs = 1
    MaxRevision = 2
INVARIANTS
    LedgerBacksShares
    QuotaHeld
    SealReadable
    SealHolds
    CutoverComplete
    DecksSurvive
CHECK_DEADLOCK FALSE
PROPERTIES
    OnlyForward
    CutoverEnds

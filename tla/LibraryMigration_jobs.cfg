SPECIFICATION LibFairSpec
CONSTANTS
    wA = wA
    wB = wB
    NoId = 0
    Ids <- TheIds
    Words <- TheWords
    WordOf <- TheWordOf
    Canon <- TheCanon
    IdOrder <- TheOrder
    OldCards <- TheOldCards
    PageDocs = 2
    MaxCards = 4
    MaxWrites = 2
    MaxFaults = 2
INVARIANTS
    AsTheUserLeftIt
PROPERTIES
    RollbackRestores
    FenceLifts
CHECK_DEADLOCK FALSE

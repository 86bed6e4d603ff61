\* One card, two review/delete operations, every request content.
SPECIFICATION ServerSpec
CONSTANTS
    Cards = {c1}
    Fields = {f1}
    Values = {v1, v2}
    OpIds = {o1, o2}
    MaxCounter = 3
    MaxClock = 1
    PageSize = 1
INVARIANTS
    ServerTypeOK
    NoFutureDocuments
    TombstoneOrder
    ReceiptsNameRevisions
    OneReceiptPerReview
PROPERTIES
    ImplementsVersionedLibrary
CHECK_DEADLOCK FALSE

SPECIFICATION FairSpec
CONSTANTS
    pos = pos
    both = both
    once = once
    again = again
    w1 = w1
    w2 = w2
    Item <- MCItem
    Worker <- MCWorker
    Ref <- MCRef
    Request <- MCRequest
    Batches <- MCBatches
    Attempts <- MCAttempts
    OpeningStock = 2
    NoRow = NoRow
    NoRequest = NoRequest
    Clean = Clean
INVARIANTS
    TypeOK
    AllocatedMatchesLedger
    AllocatedIsOutstanding
    VersionTellsLedger
PROPERTIES
    EntersTheLedgerOnce
    RequestsEnd

SPECIFICATION Spec
CONSTANTS
    l1 = l1
    l2 = l2
    w1 = w1
    w2 = w2
    Line <- OneLine
    Required <- MCRequired
    Worker <- MCWorker
    Request <- MCRequest
    Batches <- OneLineBatches
    NoWorker = NoWorker
    NoRequest = NoRequest
INVARIANTS
    TypeOK
    ConfirmedOnce
    NothingShipsUnpacked

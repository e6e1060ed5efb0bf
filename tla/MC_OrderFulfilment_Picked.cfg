SPECIFICATION Spec
CONSTANTS
    l1 = l1
    l2 = l2
    w1 = w1
    w2 = w2
    Line <- TwoLines
    Required <- MCRequired
    Worker <- MCWorker
    Request <- MCRequest
    Batches <- TwoScanners
    NoWorker = NoWorker
    NoRequest = NoRequest
INVARIANT ScannedListIsPicked

SPECIFICATION Spec
CONSTANTS
    pos = pos
    both = both
    once = once
    again = again
    w1 = w1
    w2 = w2
    Item <- MCItem
    Worker <- MCWorker
    Ref <- MCRef
    Request <- MCRequest
    Batches <- SaleMeetsDelivery
    Attempts <- MCAttempts
    OpeningStock = 2
    NoRow = NoRow
    NoRequest = NoRequest
    Clean = Clean
INVARIANT InventoryEqualsLedger

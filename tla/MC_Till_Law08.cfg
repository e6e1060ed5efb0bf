SPECIFICATION Spec
CONSTANTS
    a1 = a1
    a2 = a2
    counter = counter
    w1 = w1
    w2 = w2
    Sale <- MCSale
    Total <- MCTotal
    OnAccount <- MCOnAccount
    Worker <- MCWorker
    Request <- MCRequest
    Batches <- PaymentMeetsClose
    Attempts = 2
    NoRequest = NoRequest
INVARIANT ClosedSessionBalances

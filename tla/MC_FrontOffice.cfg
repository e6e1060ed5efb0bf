SPECIFICATION FrontOfficeSpec
CONSTANTS
    w1 = w1
    w2 = w2
    Worker = {w1, w2}
    NoRequest = NoRequest
    Unread = Unread
    Batches <- MCBatches
    Request <- MCRequest
    Buyer = {"b1"}
    Article = {"pad", "disc"}
    Depot = {"d1", "d2"}
    OnHand <- MCOnHand
    Reserved <- MCReserved
    SellingPrice <- MCSellingPrice
    Balance <- MCBalance
    Entry = {"e1", "e2"}
    NoCart = NoCart
    NoEntry = NoEntry
    Claim = {"c1", "c2"}
    Named = {"c2"}
    Worth <- MCWorth
    Mishap = {"x1", "x2"}
    TypeOfMishap <- MCTypeOfMishap
    StopOf <- MCStopOf
    NoProof = NoProof
    Delivered <- MCDelivered
    Letter = {1, 2}
    Text <- MCText
    Member = {"m1"}
    Language = {"ar", "en", "fr"}
    Subdomain = {"s1", "s2"}
    Email = {"a1", "a2"}
    NoSignup = NoSignup
    EntryLines <- MCEntryLines
INVARIANTS
    FrontOfficeTypeOK
    OnlyRivalsCollide
    RefundsAreBacked
    ImportTellsPartsApart
    OfficeIsOnRecord

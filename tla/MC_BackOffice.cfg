SPECIFICATION BackOfficeSpec
CONSTANTS
    w1 = w1
    w2 = w2
    Worker = {w1, w2}
    NoRequest = NoRequest
    Unread = Unread
    Batches <- MCBatches
    Request <- MCRequest
    Transfer = {"t1"}
    Product = {"a", "b"}
    Item <- MCItem
    TransferOf <- MCTransferOf
    ProductOf <- MCProductOf
    Wanted <- MCWanted
    OnShelf <- MCOnShelf
    PurchaseOrder = {"p1", "p2"}
    SupplierInvoice = {"i1"}
    PurchaseReturn = {"r1", "r2"}
    Part = {"a", "b"}
    Ordered <- MCOrdered
    GoodsReceived <- MCGoodsReceived
    SeededStatus <- MCSeededStatus
    PartsInStock <- MCPartsInStock
    CustomerReturn = {"c1", "c2", "c3"}
    Tenant = {"acme", "duo"}
    TenantOf <- MCTenantOf
    Quote = {"q1"}
    Client = {"garage", "walkin"}
    Tier = {"gold", "silver"}
    Good = {"pad"}
    Family = {"brakes"}
    NoOne = NoOne
    TierOf <- MCTierOf
    FamilyOf <- MCFamilyOf
    Shelf <- MCShelf
    Cost <- MCCost
    Intent = {"in1", "in2"}
    Sale = {"s1"}
    SaleOf <- MCSaleOf
    Amount <- MCAmount
    SaleTotal <- MCSaleTotal
    Entry = {"e1", "e2", "e3", "e4"}
    Period = {"q1"}
    NoPeriod = NoPeriod
    Today = "q1"
    Dated <- MCDated
    Chargeback = {"cb1"}
    TaxPeriod = {"2026Q1"}
    Trip = {"d1", "d2", "d3"}
    Stop = {"s1", "s3", "s4"}
    Crew = {"crew"}
    Pack = {"k1"}
    NoCrew = NoCrew
    NoTrip = NoTrip
    UnderWay = {"d2"}
    StopsOf <- MCStopsOf
    Journey = {"j1", "j2"}
    Squad = {"q1", "q2"}
    NoSquad = NoSquad
    NoJourney = NoJourney
    Manifest = {"m1"}
    Cargo = {"o1", "o2"}
    PickItem = {"k1"}
    SparePart = {"pad", "disc", "shoe"}
    PartOf <- MCPartOf
    Needed <- MCNeeded
    AgreedPrice <- MCAgreedPrice
    Price <- MCPrice
    Available <- MCAvailable
    Account = {"acme"}
    Plan = {"free", "pro"}
    Seat = {"users", "branches"}
    StripeBill = {"ch1"}
    Limit <- MCLimit
    Key = {"key"}
    NoRecord = NoRecord
INVARIANTS
    BackOfficeTypeOK
    PostedOnceAsReceived
    ReturnAndRefundAgree
    PricedForTheClient
    CardPaymentsAddUp
    BooksStaySettled
    AnsweredOnce
    GoodsLeaveOnce
    DispatchedOnce
    PickedAsAgreed
    AccountsAreKept
    KeyIsKept
PROPERTIES
    GoodsMoveOnce
    TripNeverTurnsBack

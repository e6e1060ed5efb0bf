---------------------------- MODULE MC_BackOffice ----------------------------
(***************************************************************************)
(* The back office with two requests in progress at once.  Each batch puts *)
(* to one component the calls of its hard cases, some of them twice; TLC   *)
(* tries the batches one by one, in every order of calls and steps.        *)
(***************************************************************************)
EXTENDS BackOffice, TLC

CONSTANTS w1, w2

\* Two products or parts.
Of(a, b) == "a" :> a @@ "b" :> b
Nothing == Of(0, 0)

\* Transfers: two items of one product, a rival shipment, receipts of less, of
\* too much and of an item listed twice, and a till.
MCItem == {"i1", "i2", "i3"}
MCTransferOf == [i \in MCItem |-> "t1"]
MCProductOf == "i1" :> "a" @@ "i2" :> "a" @@ "i3" :> "b"
MCWanted == "i1" :> 1 @@ "i2" :> 1 @@ "i3" :> 1
MCOnShelf == Of(2, 2)
Lists(i1, i2, i3) == "i1" :> i1 @@ "i2" :> i2 @@ "i3" :> i3
Move(op, items, receipt, n) ==
    [op |-> op, transfer |-> "t1", items |-> items, receipt |-> receipt, by |-> n]
Call(op, n) == Move(op, Nothing, Lists(<<>>, <<>>, <<>>), n)
Receive(receipt) == Move("RECEIVE_TRANSFER", Nothing, receipt, 1)
Transferring ==
    {Call("CREATE_TRANSFER", 1), Call("APPROVE_TRANSFER", 1), Call("SHIP_TRANSFER", 1), Call("SHIP_TRANSFER", 2),
     Receive(Lists(<<1>>, <<>>, <<1>>)), Receive(Lists(<<2>>, <<>>, <<>>)),
     Receive(Lists(<<1, 1>>, <<1>>, <<-1>>)),
     Move("SELL", Of(1, 0), Lists(<<>>, <<>>, <<>>), 1)}

\* Purchasing: p1 was received in full, p2 is new.
MCOrdered == "p1" :> Of(2, 1) @@ "p2" :> Of(1, 0)
MCGoodsReceived == "p1" :> Of(2, 1) @@ "p2" :> Nothing
MCSeededStatus == "p1" :> "RECEIVED" @@ "p2" :> "NONE"
MCPartsInStock == Of(2, 2)
Buy(op, order) == [op |-> op, po |-> order]
Bill(op, order, items, n) == [op |-> op, bill |-> "i1", po |-> order, items |-> items, priced |-> TRUE, by |-> n]
SendBack(op, r, items, n) == [op |-> op, rtv |-> r, po |-> "p1", items |-> items, by |-> n]
Billing ==
    {{Buy("CREATE_PO", "p2"), Buy("RECEIVE_PO", "p2"),
      Bill("CREATE_BILL", "p2", Of(1, 0), 1), Bill("MATCH_BILL", "p1", Nothing, 1)},
     {Bill("CREATE_BILL", "p1", Of(2, 0), 1), Bill("CREATE_BILL", "p1", Of(1, 0), 2),
      Bill("MATCH_BILL", "p1", Nothing, 1), Bill("MATCH_BILL", "p1", Nothing, 2),
      Bill("POST_BILL", "p1", Nothing, 1), Bill("POST_BILL", "p1", Nothing, 2)}}
SendingBack ==
    {{SendBack("CREATE_RTV", "r1", Of(2, 0), 1), SendBack("APPROVE_RTV", "r1", Nothing, 1),
      SendBack("REJECT_RTV", "r1", Nothing, 1), SendBack("REJECT_RTV", "r1", Nothing, 2),
      SendBack("SHIP_RTV", "r1", Nothing, 1), SendBack("COMPLETE_RTV", "r1", Nothing, 1)},
     {SendBack("CREATE_RTV", "r1", Of(2, 0), 1), SendBack("CREATE_RTV", "r2", Of(1, 0), 1),
      SendBack("REJECT_RTV", "r1", Nothing, 1)}}

\* Returns of two tenants: rival decisions; rival numbers.
MCTenantOf == "c1" :> "acme" @@ "c2" :> "acme" @@ "c3" :> "duo"
TakeBack(op, r, listed, n) == [op |-> op, ret |-> r, fits |-> TRUE, listed |-> listed, by |-> n]
Returning ==
    {{TakeBack("INITIATE_RETURN", "c1", 0, 1), TakeBack("APPROVE_RETURN", "c1", 0, 1),
      TakeBack("APPROVE_RETURN", "c1", 0, 2), TakeBack("REJECT_RETURN", "c1", 0, 1),
      TakeBack("RECEIVE_RETURN", "c1", 1, 1), TakeBack("RECEIVE_RETURN", "c1", 2, 2),
      TakeBack("COMPLETE_RETURN", "c1", 0, 1)},
     {TakeBack("INITIATE_RETURN", "c1", 0, 1), TakeBack("INITIATE_RETURN", "c2", 0, 1),
      TakeBack("INITIATE_RETURN", "c3", 0, 1), TakeBack("APPROVE_RETURN", "c1", 0, 1),
      TakeBack("APPROVE_RETURN", "c2", 0, 2)}}

\* Quotes: every list of six price rules and either quantity, for a garage of
\* the gold tier; all of them for a client without a tier and for no client.
MCTierOf == "garage" :> "gold" @@ "walkin" :> NoOne
MCFamilyOf == "pad" :> "brakes"
MCShelf == "pad" :> 10
MCCost == "pad" :> 6
Rule(client, tier, good, family, min, type, value) ==
    [client |-> client, tier |-> tier, good |-> good, family |-> family,
     min |-> min, type |-> type, value |-> value]
PriceList ==
    {Rule("garage", NoOne, "pad", NoOne, 1, "FIXED", 8),
     Rule("garage", "gold", "pad", NoOne, 2, "DISCOUNT", 30),
     Rule("walkin", NoOne, "pad", NoOne, 1, "FIXED", 1),
     Rule(NoOne, "gold", NoOne, "brakes", 2, "MARKUP", 15),
     Rule(NoOne, "silver", "pad", NoOne, 1, "MARGIN", 5),
     Rule(NoOne, NoOne, NoOne, NoOne, 1, "DISCOUNT", 5)}
Offer(op, client, n, rules) ==
    [op |-> op, quote |-> "q1", client |-> client, good |-> "pad", quantity |-> n, off |-> 20, rules |-> rules]
Quoting ==
    {{Offer("DRAW_UP_QUOTE", "garage", n, rules)} : n \in 1..2, rules \in SUBSET PriceList}
    \cup {{Offer("DRAW_UP_QUOTE", client, 1, PriceList)} : client \in {"walkin", NoOne}}
    \cup {{Offer(op, "garage", 1, {}) : op \in QuoteOp \ {"DRAW_UP_QUOTE"}}}

\* Cards: a sale of 2, paid by two intents of 1 each.
MCSaleOf == "in1" :> "s1" @@ "in2" :> "s1"
MCAmount == "in1" :> 1 @@ "in2" :> 1
MCSaleTotal == "s1" :> 2
Card(op, intnt, n) == [op |-> op, intent |-> intnt, by |-> n]
PayingByCard ==
    {Card("CREATE_INTENT", "in1", 1), Card("CREATE_INTENT", "in2", 1),
     Card("CONFIRM", "in1", 1), Card("CONFIRM", "in1", 2), Card("CONFIRM", "in2", 1)}

\* Books: e1 is dated in q1, e2 in no period; e3 and e4 reverse e1.
MCDated == [e \in {"e1", "e2", "e3", "e4"} |-> IF e = "e2" THEN NoPeriod ELSE "q1"]
Book(op, e, balanced, n) ==
    [op |-> op, entry |-> e, reverses |-> "e1", period |-> "q1", balanced |-> balanced, by |-> n]
Accounting ==
    {{Book("CREATE_ENTRY", "e1", TRUE, 1), Book("POST_ENTRY", "e1", TRUE, 1),
      Book("REVERSE_ENTRY", "e3", TRUE, 1), Book("REVERSE_ENTRY", "e4", TRUE, 2),
      Book("CLOSE_PERIOD", "e1", TRUE, 1)},
     {Book("CREATE_ENTRY", "e1", TRUE, 1), Book("SYSTEM_ENTRY", "e2", FALSE, 1),
      Book("POST_ENTRY", "e1", TRUE, 1), Book("POST_ENTRY", "e1", TRUE, 2),
      Book("CLOSE_PERIOD", "e1", TRUE, 1), Book("CLOSE_PERIOD", "e1", TRUE, 2)}}

Dispute(op, n) == [op |-> op, chargeback |-> "cb1", by |-> n]
TaxReport(op, figures, n) == [op |-> op, period |-> "2026Q1", figures |-> figures, by |-> n]
Disputing ==
    {{Dispute(op, n) : op \in DisputeOp, n \in 1..2},
     {TaxReport("GENERATE_REPORT", 1, 1), TaxReport("GENERATE_REPORT", 2, 2),
      TaxReport("FILE_REPORT", 0, 1), TaxReport("FILE_REPORT", 0, 2), TaxReport("FILE_REPORT", 0, 3)}}

\* Trips: d1 and d3 are planned, d2 is on the road with two stops reached.
MCStopsOf == "d2" :> {"s3", "s4"}
Drive(op, t, s, c, ok, n) ==
    [op |-> op, trip |-> t, stop |-> s, pack |-> "k1", crew |-> c, success |-> ok, by |-> n]
Plan1(op, crew) == Drive(op, "d1", "s1", crew, TRUE, 1)
Road2(op, s, ok, n) == Drive(op, "d2", s, NoCrew, ok, n)
Delivering ==
    {{Plan1("CREATE_TRIP", "crew"), Drive("CREATE_TRIP", "d3", "s1", "crew", TRUE, 1),
      Plan1("FAIL_TRIP", NoCrew), Plan1("ASSIGN_PROVIDER", NoCrew), Plan1("START_LOADING", "crew")},
     {Plan1("CREATE_TRIP", "crew"), Plan1("ADD_STOP", NoCrew), Plan1("ADD_PACK", NoCrew),
      Plan1("START_LOADING", NoCrew), Plan1("START_TRIP", NoCrew), Plan1("ARRIVE", NoCrew)},
     {Road2("COMPLETE_STOP", "s3", TRUE, 1), Road2("COMPLETE_STOP", "s4", FALSE, 1),
      Road2("COMPLETE_TRIP", "s3", TRUE, 1), Road2("FAIL_TRIP", "s3", TRUE, 1),
      Road2("RTW", "s4", TRUE, 1), Road2("RTW", "s4", TRUE, 2)},
     {Road2("COMPLETE_STOP", "s3", TRUE, 1), Road2("COMPLETE_STOP", "s4", TRUE, 1),
      Road2("COMPLETE_TRIP", "s3", TRUE, 1), Road2("FAIL_TRIP", "s3", TRUE, 1)}}

Plan2(op, j, squad, n) ==
    [op |-> op, journey |-> j, squad |-> squad, manifest |-> "m1", cargo |-> {}, by |-> n]
Load(op, j, cargo) ==
    [op |-> op, journey |-> j, squad |-> NoSquad, manifest |-> "m1", cargo |-> cargo, by |-> 1]
Dispatched ==
    {{Plan2("PLAN_JOURNEY", "j1", "q1", 1), Plan2("PLAN_JOURNEY", "j2", NoSquad, 1),
      Plan2("DISPATCH_JOURNEY", "j1", NoSquad, 1), Plan2("DISPATCH_JOURNEY", "j1", "q2", 2),
      Plan2("DISPATCH_JOURNEY", "j2", "q1", 1)},
     {Plan2("PLAN_JOURNEY", "j1", "q1", 1), Plan2("PLAN_JOURNEY", "j2", NoSquad, 1),
      Load("CREATE_MANIFEST", "j1", {"o1"}), Load("LIST_ORDERS", "j1", {"o2"}),
      Load("SEAL_MANIFEST", "j1", {}), Load("DISPATCH_MANIFEST", "j1", {}),
      Load("DISPATCH_MANIFEST", "j2", {}), Load("COMPLETE_MANIFEST", "j1", {})}}

\* Substitutions: the disc is cheaper by all the price that was agreed, the
\* shoe costs the same, of the ordered pad there is too little.
MCPartOf == "k1" :> "pad"
MCNeeded == "k1" :> 2
MCAgreedPrice == "k1" :> 1
MCPrice == "pad" :> 2 @@ "disc" :> 1 @@ "shoe" :> 2
MCAvailable == "pad" :> 1 @@ "disc" :> 2 @@ "shoe" :> 2
Decision(op, part, n) == [op |-> op, item |-> "k1", part |-> part, by |-> n]
Pick(n) == [op |-> "PICK", item |-> "k1", picked |-> n, by |-> 1]
Substituting ==
    {{Pick(1), Pick(2), Decision("SUGGEST", "disc", 1), Decision("APPROVE_SUB", "pad", 1),
      Decision("APPROVE_SUB", "pad", 2), Decision("REJECT_SUB", "pad", 1)},
     {Pick(1), Decision("SUGGEST", "shoe", 1), Decision("SUGGEST", "disc", 2),
      Decision("REJECT_SUB", "pad", 1), Decision("APPROVE_SUB", "pad", 1)}}

\* Plans: two users are free, one professional; branches are free without
\* limit.
MCLimit == "free" :> ("users" :> 2 @@ "branches" :> 0) @@ "pro" :> ("users" :> 1 @@ "branches" :> 1)
Platform(op, plan, seat, last, status, n) ==
    [op |-> op, account |-> "acme", plan |-> plan, seat |-> seat, charge |-> "ch1",
     last |-> last, status |-> status, by |-> n]
Ask(op, n) == Platform(op, "free", "users", TRUE, "ACTIVE", n)
Subscribing ==
    {{Ask("SIGN_UP", 1), Ask("SIGN_UP", 2), Ask("ADD_SEAT", 1), Ask("ADD_SEAT", 2), Ask("ADD_SEAT", 3),
      Ask("GRANT_SEAT", 1)},
     {Ask("SIGN_UP", 1), Platform("UPGRADE", "pro", "users", TRUE, "ACTIVE", 1), Ask("PAY_PLAN", 1),
      Platform("CHANGE_PLAN", "pro", "users", TRUE, "ACTIVE", 1), Ask("CANCEL_PLAN", 1),
      Platform("ADD_SEAT", "free", "branches", TRUE, "ACTIVE", 1)},
     {Ask("SIGN_UP", 1), Ask("HOOK_UPDATED", 1), Ask("HOOK_PAID", 1), Ask("HOOK_PAID", 2),
      Ask("HOOK_FAILED", 1), Ask("SUSPEND", 1)},
     {Ask("SIGN_UP", 1), Ask("REACTIVATE", 1), Ask("TERMINATE", 1), Ask("HOOK_DELETED", 1), Ask("RENEW", 1),
      Platform("HOOK_UPDATED", "free", "users", FALSE, "TRIAL", 1),
      Platform("HOOK_FAILED", "free", "users", FALSE, "ACTIVE", 1)}}

\* One key: three retries; one answer that is no object and one unknown tenant.
Write(known, json, n) == [op |-> "WRITE", key |-> "key", tenantKnown |-> known, json |-> json, by |-> n]
Writing ==
    {{Write(TRUE, TRUE, n) : n \in 1..3},
     {Write(TRUE, FALSE, 1), Write(TRUE, TRUE, 2), Write(FALSE, TRUE, 3)}}

AllBatches ==
    UNION {{Transferring}, Billing, SendingBack, Returning, Quoting, {PayingByCard}, Accounting, Disputing,
           Delivering, Dispatched, Substituting, Subscribing, Writing}
AllRequests == UNION AllBatches

\* TLC evaluates the definition of a constant at every use, but those it
\* names only once.
MCBatches == AllBatches
MCRequest == AllRequests
=============================================================================

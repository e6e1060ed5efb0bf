------------------------ MODULE MC_OrderFulfilment ------------------------
(***************************************************************************)
(* Small instances of OrderFulfilment: one order, two workers, batches of  *)
(* requests that meet on the order, its pick list or its packs.            *)
(***************************************************************************)
EXTENDS OrderFulfilment, TLC

CONSTANTS l1, l2, w1, w2

OneLine == {l1}
TwoLines == {l1, l2}
MCWorker == {w1, w2}
MCRequired == [l \in Line |-> 2]

Req(op, to, checked, line, qty, pack) ==
    [op |-> op, to |-> to, checked |-> checked, line |-> line, qty |-> qty, pack |-> pack]
Status(to, checked) == Req("STATUS", to, checked, l1, 0, 0)

Confirm == Status("CONFIRMED", TRUE)
ConfirmUnchecked == Status("CONFIRMED", FALSE)
Cancel == Status("CANCELLED", TRUE)
CancelUnchecked == Status("CANCELLED", FALSE)
Process == Status("PROCESSING", TRUE)
Ship == Status("SHIPPED", TRUE)
ShipUnchecked == Status("SHIPPED", FALSE)
NotDelivered == Status("DELIVERY_FAILED", TRUE)
Partial == Req("FULFIL", "PARTIALLY_FULFILLED", TRUE, l1, 0, 0)
Dispatch == Req("TRIP", "OUT_FOR_DELIVERY", FALSE, l1, 0, 0)
Deliver == Req("TRIP", "DELIVERED", FALSE, l1, 0, 0)
Start == Req("LIST", "PICKING", FALSE, l1, 0, 0)
CancelList == Req("LIST", "CANCELLED", FALSE, l1, 0, 0)
Pick(l, n) == Req("PICK", "NONE", FALSE, l, n, 0)
Scan(l, n) == Req("SCAN", "NONE", FALSE, l, n, 0)
AppScan(l, n) == Req("APPSCAN", "NONE", FALSE, l, n, 0)
NewPack == Req("NEWPACK", "NONE", FALSE, l1, 0, 0)
Add(l, n, p) == Req("ADD", "NONE", FALSE, l, n, p)
Seal(p) == Req("SEAL", "NONE", FALSE, l1, 0, p)

MCRequest ==
    {Confirm, ConfirmUnchecked, Cancel, CancelUnchecked, Process, Ship, ShipUnchecked,
     NotDelivered, Partial, Dispatch, Deliver, Start, CancelList, NewPack, Seal(1)}
    \cup UNION { {Pick(l, 2), Pick(l, 1), Scan(l, 1), Scan(l, 2), AppScan(l, 1), Add(l, 2, 1), Add(l, 1, 1), Add(l, -1, 1)} :
                 l \in Line }

\* The batch that sends each request of S once, and those of T once more.
Batch(S, T) == [r \in Request |-> (IF r \in S THEN 1 ELSE 0) + (IF r \in T THEN 1 ELSE 0)]

OneLineBatches ==
    { Batch({Confirm, ConfirmUnchecked, Cancel, Process, Dispatch}, {Confirm}),
      Batch({Confirm, Pick(l1, 2), NewPack, Add(l1, 2, 1), CancelUnchecked, Ship}, {}),
      Batch({Confirm, Pick(l1, 2), NewPack, Add(l1, 2, 1), Process, Partial, ShipUnchecked}, {Partial}),
      Batch({Confirm, Pick(l1, 2), NewPack, Add(l1, 1, 1), Seal(1)}, {Add(l1, 1, 1), NewPack}),
      Batch({Confirm, Pick(l1, 1), NewPack, Add(l1, 1, 1), Add(l1, -1, 1), Ship}, {}),
      Batch({Confirm, Start, CancelList, Scan(l1, 1), AppScan(l1, 1), Pick(l1, 1)}, {Scan(l1, 1)}),
      Batch({Confirm, AppScan(l1, 1), NewPack, Add(l1, 2, 1), Deliver, NotDelivered, Process},
            {AppScan(l1, 1)}) }

\* A cancellation meets the last item packed.
CancelMeetsPacking ==
    { Batch({Confirm, Pick(l1, 2), NewPack, Add(l1, 2, 1), Cancel}, {}) }

\* Two scanners finish the list together.
TwoScanners == { Batch({Confirm, Start, Scan(l1, 2), Scan(l2, 2)}, {}) }
=============================================================================

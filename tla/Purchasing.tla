----------------------------- MODULE Purchasing -----------------------------
(***************************************************************************)
(* Purchase orders, the supplier's invoices for them (three-way match) and *)
(* the goods sent back to the supplier.  Receipts are the ones the seed    *)
(* wrote: `receive` asks for a transition that no status of the schema's   *)
(* enum has in the table, so it refuses every order.                       *)
(***************************************************************************)
EXTENDS Requests

CONSTANTS
    PurchaseOrder,
    SupplierInvoice,    \* invoice numbers of one tenant
    PurchaseReturn,
    Part,
    Ordered,            \* per order and part, the ordered quantity
    GoodsReceived,      \* per order and part, the sum of its receipts
    SeededStatus,       \* the status each seeded order has
    PartsInStock        \* inventory of the branch at the start

PurchaseOrderStatus == {"DRAFT", "ORDERED", "RECEIVED", "PARTIALLY_RECEIVED", "CANCELLED"}
SupplierInvoiceStatus == {"NONE", "PENDING", "MATCHED", "MISMATCHED", "POSTED"}
PurchaseReturnStatus == {"NONE", "REQUESTED", "APPROVED", "SHIPPED", "COMPLETED", "REJECTED"}
InvoiceOp == {"CREATE_BILL", "MATCH_BILL", "POST_BILL"}
ReturnToSupplierOp == {"CREATE_RTV", "APPROVE_RTV", "REJECT_RTV", "SHIP_RTV", "COMPLETE_RTV"}
PurchasingOp == {"CREATE_PO", "RECEIVE_PO"} \cup InvoiceOp \cup ReturnToSupplierOp
Parts == [Part -> Nat]

BillRow == [status: SupplierInvoiceStatus, version: Nat, po: PurchaseOrder,
            items: Parts, priced: BOOLEAN]
SupplierReturnRow == [status: PurchaseReturnStatus, po: PurchaseOrder, items: Parts]

\* A creation makes a row of its own, except that two invoices may carry one
\* number.  A part that an invoice or a return does not list has quantity 0;
\* `priced` says that its prices are those of the order.
ASSUME PurchasingAssumption ==
    /\ Unread \notin BillRow /\ Unread \notin SupplierReturnRow
    /\ Ordered \in [PurchaseOrder -> Parts] /\ GoodsReceived \in [PurchaseOrder -> Parts]
    /\ SeededStatus \in [PurchaseOrder -> PurchaseOrderStatus \cup {"NONE"}]
    /\ PartsInStock \in Parts
    /\ \A r \in Request : r.op \in InvoiceOp =>
          r \in [op: InvoiceOp, bill: SupplierInvoice, po: PurchaseOrder,
                 items: Parts, priced: BOOLEAN, by: Nat]
    /\ \A r \in Request : r.op \in ReturnToSupplierOp =>
          r \in [op: ReturnToSupplierOp, rtv: PurchaseReturn, po: PurchaseOrder, items: Parts, by: Nat]

VARIABLES
    po,       \* status of the purchase orders
    bill,     \* supplier invoices
    posted,   \* per invoice, procurement.invoice.posted events scheduled
    rtv,      \* purchase returns with their items
    stocked   \* inventory quantities of the branch

purchasing == <<po, bill, posted, rtv, stocked>>

PurchasingTypeOK ==
    /\ po \in [PurchaseOrder -> PurchaseOrderStatus \cup {"NONE"}]
    /\ bill \in [SupplierInvoice -> BillRow \cup {Unread}] /\ posted \in [SupplierInvoice -> Nat]
    /\ rtv \in [PurchaseReturn -> SupplierReturnRow \cup {Unread}]
    /\ stocked \in [Part -> Int]

\* A row that does not exist is Unread.
PurchasingInit ==
    /\ po = SeededStatus
    /\ bill = [i \in SupplierInvoice |-> Unread] /\ posted = [i \in SupplierInvoice |-> 0]
    /\ rtv = [r \in PurchaseReturn |-> Unread]
    /\ stocked = PartsInStock

PURCHASE_ORDER_TRANSITIONS ==
    [s \in PurchaseOrderStatus \cup {"NONE"} |->
        CASE s = "DRAFT" -> {"SENT", "CANCELLED"}
          [] s = "RECEIVED" -> {"COMPLETED"}
          [] OTHER -> {}]

PURCHASE_RETURN_TRANSITIONS ==
    [s \in PurchaseReturnStatus |->
        CASE s = "REQUESTED" -> {"APPROVED", "REJECTED"}
          [] s = "APPROVED" -> {"SHIPPED", "REJECTED"}
          [] s = "SHIPPED" -> {"COMPLETED"}
          [] OTHER -> {}]

-----------------------------------------------------------------------------
(* Purchase orders.                                                        *)

CreatePurchaseOrder(w) ==
    /\ At(w, "CREATE_PO", "read")
    /\ po[job[w].po] = "NONE"
    /\ po' = [po EXCEPT ![job[w].po] = "DRAFT"]
    /\ Answer(w)
    /\ UNCHANGED <<bill, posted, rtv, stocked>>

\* The FSM gate comes before the quantities, the receipt and the stock: the
\* transition to RECEIVED is in the table for SENT alone, which is no status.
ReceivePurchaseOrder(w) ==
    /\ At(w, "RECEIVE_PO", "read")
    /\ "RECEIVED" \notin PURCHASE_ORDER_TRANSITIONS[po[job[w].po]]
    /\ Answer(w)
    /\ UNCHANGED purchasing

-----------------------------------------------------------------------------
(* Supplier invoices.                                                      *)

\* createInvoice looks for the number before its transaction; the unique
\* index has the last word.
CreateSupplierInvoice(w) ==
    LET j == job[w] IN
    \/ /\ At(w, "CREATE_BILL", "read")
       /\ SeeIf(w, po[j.po] # "NONE" /\ bill[j.bill] = Unread, Unread, "commit")
       /\ UNCHANGED purchasing
    \/ /\ At(w, "CREATE_BILL", "commit")
       /\ bill[j.bill] = Unread
       /\ bill' = [bill EXCEPT ![j.bill] =
                      [status |-> "PENDING", version |-> 0, po |-> j.po,
                       items |-> j.items, priced |-> j.priced]]
       /\ Answer(w)
       /\ UNCHANGED <<po, posted, rtv, stocked>>

\* Every listed item is on the order with that very quantity and price, and
\* as many have been received.
Matches(b) ==
    \A p \in Part : b.items[p] > 0 =>
        /\ b.items[p] = Ordered[b.po][p] /\ b.priced
        /\ b.items[p] <= GoodsReceived[b.po][p]

ReadBill(w, status) ==
    LET b == bill[job[w].bill] IN
    SeeIf(w, b # Unread /\ b.status = status, b, "commit") /\ UNCHANGED purchasing

\* A write of the invoice's status by its id alone.
UpdateBillById(w, status) ==
    bill' = [bill EXCEPT ![job[w].bill].status = status, ![job[w].bill].version = @ + 1]

\* updateMany where the version is the one read.
UpdateBill(w, status) ==
    /\ bill[job[w].bill].version = saw[w].version
    /\ bill' = [bill EXCEPT ![job[w].bill].status = status, ![job[w].bill].version = @ + 1]

MatchSupplierInvoice(w) ==
    \/ At(w, "MATCH_BILL", "read") /\ ReadBill(w, "PENDING")
    \/ /\ At(w, "MATCH_BILL", "commit")
       /\ UpdateBill(w, IF Matches(saw[w]) THEN "MATCHED" ELSE "MISMATCHED")
       /\ Answer(w)
       /\ UNCHANGED <<po, posted, rtv, stocked>>

PostSupplierInvoice(w) ==
    \/ At(w, "POST_BILL", "read") /\ ReadBill(w, "MATCHED")
    \/ /\ At(w, "POST_BILL", "commit")
       /\ UpdateBill(w, "POSTED")
       /\ posted' = [posted EXCEPT ![job[w].bill] = @ + 1]
       /\ Answer(w)
       /\ UNCHANGED <<po, rtv, stocked>>

-----------------------------------------------------------------------------
(* Returns to the supplier: every write is by id, none looks at a version. *)

\* What the order's returns have taken; those of every status count, the
\* rejected ones too.
Returned(order, p) ==
    MapThenSumSet(LAMBDA r : IF rtv[r] # Unread /\ rtv[r].po = order THEN rtv[r].items[p] ELSE 0,
                  PurchaseReturn)

\* createReturn compares with what is left of the receipts and with the
\* stock, then takes the goods off the stock, not through the ledger service.
CreatePurchaseReturn(w) ==
    LET j == job[w] IN
    \/ /\ At(w, "CREATE_RTV", "read")
       /\ SeeIf(w, /\ po[j.po] \in {"RECEIVED", "PARTIALLY_RECEIVED"}
                   /\ \A p \in Part : /\ j.items[p] <= GoodsReceived[j.po][p] - Returned(j.po, p)
                                      /\ j.items[p] <= stocked[p],
                Unread, "commit")
       /\ UNCHANGED purchasing
    \/ /\ At(w, "CREATE_RTV", "commit")
       /\ rtv' = [rtv EXCEPT ![j.rtv] = [status |-> "REQUESTED", po |-> j.po, items |-> j.items]]
       /\ stocked' = [p \in Part |-> stocked[p] - j.items[p]]
       /\ Answer(w)
       /\ UNCHANGED <<po, bill, posted>>

\* The handler reads a return that may go to `status` ...
ReadPurchaseReturn(w, ok(_)) ==
    LET r == rtv[job[w].rtv] IN
    SeeIf(w, r # Unread /\ ok(r.status), r, "commit") /\ UNCHANGED purchasing

\* ... and writes it by its id, whatever happened in between.
UpdatePurchaseReturn(w, status) ==
    /\ rtv' = [rtv EXCEPT ![job[w].rtv] = [@ EXCEPT !.status = status]]
    /\ Answer(w)
    /\ UNCHANGED <<po, bill, posted>>

ApprovePurchaseReturn(w) ==
    \/ /\ At(w, "APPROVE_RTV", "read")
       /\ ReadPurchaseReturn(w, LAMBDA s : "APPROVED" \in PURCHASE_RETURN_TRANSITIONS[s])
    \/ /\ At(w, "APPROVE_RTV", "commit")
       /\ UpdatePurchaseReturn(w, "APPROVED") /\ UNCHANGED stocked

\* A rejection puts the goods back.
RejectPurchaseReturn(w) ==
    \/ /\ At(w, "REJECT_RTV", "read")
       /\ ReadPurchaseReturn(w, LAMBDA s : s = "REQUESTED")
    \/ /\ At(w, "REJECT_RTV", "commit")
       /\ UpdatePurchaseReturn(w, "REJECTED")
       /\ stocked' = [p \in Part |-> stocked[p] + saw[w].items[p]]

ShipPurchaseReturn(w) ==
    \/ /\ At(w, "SHIP_RTV", "read")
       /\ ReadPurchaseReturn(w, LAMBDA s : s = "APPROVED")
    \/ /\ At(w, "SHIP_RTV", "commit")
       /\ UpdatePurchaseReturn(w, "SHIPPED") /\ UNCHANGED stocked

CompletePurchaseReturn(w) ==
    \/ /\ At(w, "COMPLETE_RTV", "read")
       /\ ReadPurchaseReturn(w, LAMBDA s : s = "SHIPPED")
    \/ /\ At(w, "COMPLETE_RTV", "commit")
       /\ UpdatePurchaseReturn(w, "COMPLETED") /\ UNCHANGED stocked

\* A statement throws; what the transaction wrote is rolled back.
PurchasingFails(w) ==
    /\ pc[w] # "idle" /\ job[w].op \in PurchasingOp
    /\ Answer(w)
    /\ UNCHANGED purchasing

PurchasingStep(w) ==
    \/ CreatePurchaseOrder(w) \/ ReceivePurchaseOrder(w)
    \/ CreateSupplierInvoice(w) \/ MatchSupplierInvoice(w) \/ PostSupplierInvoice(w)
    \/ CreatePurchaseReturn(w) \/ ApprovePurchaseReturn(w) \/ RejectPurchaseReturn(w)
    \/ ShipPurchaseReturn(w) \/ CompletePurchaseReturn(w)
    \/ PurchasingFails(w)

-----------------------------------------------------------------------------
\* However many matches and postings of one invoice run together, the
\* accounts are told of it once, exactly when it is POSTED, and then every
\* item it lists was ordered in that quantity and has been received.
PostedOnceAsReceived ==
    \A i \in SupplierInvoice :
        /\ posted[i] = (IF bill[i] # Unread /\ bill[i].status = "POSTED" THEN 1 ELSE 0)
        /\ posted[i] = 1 => \A p \in Part : bill[i].items[p] > 0 =>
               /\ bill[i].items[p] = Ordered[bill[i].po][p]
               /\ bill[i].items[p] <= GoodsReceived[bill[i].po][p]
=============================================================================

--------------------------- MODULE BranchTransfer ---------------------------
(***************************************************************************)
(* Stock transfers from one branch to another (BranchTransferService),     *)
(* beside the tills of the source branch.  Two items of a transfer may name *)
(* one product, a receipt may list an item more than once, and no quantity *)
(* is asked to be positive.  recordTransaction is the subject of           *)
(* InventoryStock; here it moves its quantity when the caller's            *)
(* transaction commits, or throws.                                         *)
(***************************************************************************)
EXTENDS Requests

CONSTANTS
    Transfer,   \* transfers that may be asked for
    Product,
    Item,       \* the items of all transfers
    TransferOf, \* the transfer of each
    ProductOf,  \* its product
    Wanted,     \* and its requested quantity
    OnShelf     \* what the source branch has of each product at the start

TransferStatus == {"NONE", "REQUESTED", "APPROVED", "SHIPPED", "RECEIVED", "CANCELLED"}
TransferOp == {"CREATE_TRANSFER", "APPROVE_TRANSFER", "SHIP_TRANSFER", "RECEIVE_TRANSFER", "SELL"}
Quantity == [Product -> Int]
ItemQuantity == [Item -> Int]
Receipt == [Item -> Seq(Int)]

\* A receipt has, per item, the quantities it lists for it, one after the other.
\* A creation makes a transfer of its own.
ASSUME TransferAssumption ==
    /\ IsFiniteSet(Item)
    /\ TransferOf \in [Item -> Transfer] /\ ProductOf \in [Item -> Product]
    /\ Wanted \in ItemQuantity
    /\ OnShelf \in Quantity
    /\ \A r \in Request : r.op \in TransferOp =>
          r \in [op: TransferOp, transfer: Transfer, items: Quantity, receipt: Receipt, by: Nat]
    /\ \A q, r \in Request : /\ q.op = "CREATE_TRANSFER" /\ r.op = "CREATE_TRANSFER"
                             /\ q.transfer = r.transfer
                             => q = r

VARIABLES
    transfer,   \* the transfer rows with their items
    source,     \* inventory quantities of the source branch
    dest,       \* and of the destination, counted from the start
    sold        \* what the tills of the source branch have taken

transfers == <<transfer, source, dest, sold>>

TransferRow == [status: TransferStatus, version: Nat, shipped: ItemQuantity, received: ItemQuantity]

TransferTypeOK ==
    /\ transfer \in [Transfer -> TransferRow]
    /\ source \in Quantity /\ dest \in Quantity /\ sold \in Quantity
    /\ \A w \in Worker : pc[w] = "commit" /\ job[w].op \in TransferOp => saw[w] \in TransferRow

None == [p \in Product |-> 0]
Minus(q, r) == [p \in Product |-> q[p] - r[p]]
Sum2(q, r) == [p \in Product |-> q[p] + r[p]]

\* What quantities q of the items of transfer t come to per product, and what
\* the listings of a receipt come to per item.
Together(q, S) == MapThenSumSet(LAMBDA i : q[i], S)
ItemsOf(t, p) == {i \in Item : TransferOf[i] = t /\ ProductOf[i] = p}
PerProduct(q, t) == [p \in Product |-> Together(q, ItemsOf(t, p))]
Listed(r) == [i \in Item |-> Together(r[i], DOMAIN r[i])]

\* What the receipt leaves in an item's received quantity: the last listing.
LastListed(r, received) ==
    [i \in Item |-> IF r[i] = <<>> THEN received[i] ELSE r[i][Len(r[i])]]

\* A receipt lists only items of the transfer, each time at most what was
\* shipped of it (BT-02).
WithinShipped(r, t, shipped) ==
    \A i \in Item : \A k \in DOMAIN r[i] : TransferOf[i] = t /\ r[i][k] <= shipped[i]

TransferInit ==
    /\ transfer = [t \in Transfer |->
                     [status |-> "NONE", version |-> 0, shipped |-> [i \in Item |-> 0],
                      received |-> [i \in Item |-> 0]]]
    /\ source = OnShelf /\ dest = None /\ sold = None

BRANCH_TRANSFER_TRANSITIONS ==
    [s \in TransferStatus |->
        CASE s = "REQUESTED" -> {"APPROVED", "CANCELLED"}
          [] s = "APPROVED" -> {"SHIPPED", "CANCELLED"}
          [] s = "SHIPPED" -> {"RECEIVED"}
          [] OTHER -> {}]

\* The transfer as the handler reads it, and the transition it asks for.
ReadTransfer(w, to, ok) ==
    LET row == transfer[job[w].transfer] IN
    SeeIf(w, ok /\ to \in BRANCH_TRANSFER_TRANSITIONS[row.status], row, "commit")
    /\ UNCHANGED transfers

\* A write by the transfer's id alone.
UpdateTransferById(w, to, shipped, received) ==
    transfer' = [transfer EXCEPT ![job[w].transfer] =
                    [status |-> to, version |-> @.version + 1, shipped |-> shipped, received |-> received]]

\* updateMany where the version is the one read; count 0 rolls the items and
\* the stock movements back.
UpdateTransfer(w, to, shipped, received) ==
    /\ transfer[job[w].transfer].version = saw[w].version
    /\ transfer' = [transfer EXCEPT ![job[w].transfer] =
                       [status |-> to, version |-> @.version + 1, shipped |-> shipped, received |-> received]]

\* createTransfer looks at what is available, before its transaction and item
\* by item (BT-01), and creates the row.
IsAvailable(t) == \A i \in Item : TransferOf[i] = t => Wanted[i] <= source[ProductOf[i]]

CreateTransfer(w) ==
    \/ /\ At(w, "CREATE_TRANSFER", "read")
       /\ SeeIf(w, IsAvailable(job[w].transfer), transfer[job[w].transfer], "commit")
       /\ UNCHANGED transfers
    \/ /\ At(w, "CREATE_TRANSFER", "commit")
       /\ transfer' = [transfer EXCEPT ![job[w].transfer].status = "REQUESTED"]
       /\ Answer(w)
       /\ UNCHANGED <<source, dest, sold>>

ApproveTransfer(w) ==
    \/ At(w, "APPROVE_TRANSFER", "read") /\ ReadTransfer(w, "APPROVED", TRUE)
    \/ /\ At(w, "APPROVE_TRANSFER", "commit")
       /\ UpdateTransfer(w, "APPROVED", saw[w].shipped, saw[w].received)
       /\ Answer(w)
       /\ UNCHANGED <<source, dest, sold>>

\* shipTransfer takes the requested quantities off the source branch,
\* whatever is left there: only a SALE is refused below zero.
ShipTransfer(w) ==
    \/ At(w, "SHIP_TRANSFER", "read") /\ ReadTransfer(w, "SHIPPED", TRUE)
    \/ /\ At(w, "SHIP_TRANSFER", "commit")
       /\ UpdateTransfer(w, "SHIPPED", Wanted, saw[w].received)
       /\ source' = Minus(source, PerProduct(Wanted, job[w].transfer))
       /\ Answer(w)
       /\ UNCHANGED <<dest, sold>>

\* receiveTransfer compares each listing with the shipped quantities it read,
\* and credits each.
ReceiveTransfer(w) ==
    \/ /\ At(w, "RECEIVE_TRANSFER", "read")
       /\ ReadTransfer(w, "RECEIVED", WithinShipped(job[w].receipt, job[w].transfer,
                                                    transfer[job[w].transfer].shipped))
    \/ /\ At(w, "RECEIVE_TRANSFER", "commit")
       /\ UpdateTransfer(w, "RECEIVED", saw[w].shipped, LastListed(job[w].receipt, saw[w].received))
       /\ dest' = Sum2(dest, PerProduct(Listed(job[w].receipt), job[w].transfer))
       /\ Answer(w)
       /\ UNCHANGED <<source, sold>>

\* A till of the source branch sells: recordTransaction refuses a SALE that
\* leaves less than nothing.
SellFromSource(w) ==
    /\ At(w, "SELL", "read")
    /\ \A p \in Product : job[w].items[p] # 0 => job[w].items[p] <= source[p]
    /\ source' = Minus(source, job[w].items)
    /\ sold' = Sum2(sold, job[w].items)
    /\ Answer(w)
    /\ UNCHANGED <<transfer, dest>>

\* A statement throws (a version conflict, on the transfer or on a stock row;
\* a timeout), and the transaction is rolled back.
TransferFails(w) ==
    /\ pc[w] # "idle" /\ job[w].op \in TransferOp
    /\ Answer(w)
    /\ UNCHANGED transfers

TransferStep(w) ==
    \/ CreateTransfer(w) \/ ApproveTransfer(w) \/ ShipTransfer(w) \/ ReceiveTransfer(w)
    \/ SellFromSource(w) \/ TransferFails(w)

-----------------------------------------------------------------------------
\* However often a transfer is shipped or received, and by how many at once,
\* its goods leave the source once, and one receipt is credited for it, none of
\* whose listings exceeds what left of the item.
MayArrive(t) ==
    {PerProduct(Listed(q.receipt), t) :
        q \in {r \in Request : r.op = "RECEIVE_TRANSFER" /\ WithinShipped(r.receipt, t, Wanted)}}

Promise == INSTANCE GoodsInTransit WITH
    Leaves <- [t \in Transfer |-> PerProduct(Wanted, t)],
    Brings <- [t \in Transfer |-> MayArrive(t)],
    where <- [t \in Transfer |-> CASE transfer[t].status = "SHIPPED" -> "road"
                                   [] transfer[t].status = "RECEIVED" -> "dest"
                                   [] OTHER -> "source"],
    left <- [p \in Product |-> OnShelf[p] - sold[p] - source[p]],
    came <- dest

GoodsMoveOnce == Promise!Spec
=============================================================================

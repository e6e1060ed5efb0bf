-------------------------- MODULE OrderFulfilment --------------------------
(***************************************************************************)
(* The life of one business-to-business order: its status (OrdersService,  *)
(* PartialFulfillmentService), its pick list (PickListsService,            *)
(* WarehouseService) and its packs (PacksService), under concurrent        *)
(* requests.  What the order holds of the stock and of the client's credit *)
(* is counted in units of the whole order: reserved is ALLOCATION minus    *)
(* DEALLOCATION, charged is what confirmations added to currentBalance     *)
(* minus what cancellations took off.                                      *)
(*                                                                         *)
(* A worker is one HTTP request.  Reads made before a write are steps of   *)
(* their own, so other requests run between a check and the write it       *)
(* guards.  A transaction (READ COMMITTED) keeps its writes to itself      *)
(* until it commits, and a write of a row waits for the transaction that   *)
(* has written it; a transaction may fail at any statement (no stock left, *)
(* a timeout, a lost connection).                                          *)
(***************************************************************************)
EXTENDS Integers, FiniteSetsExt, Sequences

CONSTANTS
    Line,       \* the order's items, one pick list item each
    Required,   \* ordered quantity of each line
    Worker,     \* concurrently executing requests
    Request,    \* requests clients may send
    Batches,    \* how often each request is sent: functions Request -> Nat
    NoWorker,
    NoRequest

OrderStatus ==
    {"PENDING", "CONFIRMED", "PROCESSING", "PARTIALLY_FULFILLED", "SHIPPED", "READY_FOR_PICKUP",
     "OUT_FOR_DELIVERY", "DELIVERED", "DELIVERY_FAILED", "CANCELLED"}
ListStatus == {"NONE", "CREATED", "PICKING", "PICKED", "PACKED", "CANCELLED"}
ItemStatus == {"PENDING", "PICKED", "SHORTAGE"}

(***************************************************************************)
(* Requests.  STATUS: OrdersService.updateStatus, with expectedVersion when*)
(* `checked`; FULFIL: partialFulfill; LIST: startPicking (to PICKING) and  *)
(* cancelPickList (to CANCELLED); PICK: PickListsService.pickItem, an      *)
(* absolute quantity; SCAN: WarehouseService.pickItem, an increment;       *)
(* APPSCAN: WarehouseMobileController.scanItem; NEWPACK, ADD, SEAL:        *)
(* PacksService; TRIP: LogisticsService.dispatchTrip (OUT_FOR_DELIVERY) and*)
(* DriverMobileController.completeStop (DELIVERED) for a trip the order is *)
(* a stop of.  The fields a kind does not use are left at any value.       *)
(***************************************************************************)
Picking == {"PICK", "SCAN", "APPSCAN"}
Op == {"STATUS", "FULFIL", "TRIP", "LIST", "NEWPACK", "ADD", "SEAL"} \cup Picking
RequestRecord ==
    [op: Op, to: OrderStatus \cup ListStatus, checked: BOOLEAN, line: Line, qty: Int, pack: Nat]

\* The services compare a quantity with at most what is still to be picked, so
\* its sign is the caller's.
ASSUME RequestAssumption ==
    /\ Request \subseteq RequestRecord
    /\ \A r \in Request :
          /\ r.op = "STATUS" => r.to \in OrderStatus
          /\ r.op = "FULFIL" => r.to = "PARTIALLY_FULFILLED" /\ r.checked
          /\ r.op = "TRIP" => r.to \in {"OUT_FOR_DELIVERY", "DELIVERED"} /\ ~r.checked
          /\ r.op = "LIST" => r.to \in {"PICKING", "CANCELLED"}
    /\ Batches \subseteq [Request -> Nat]

ASSUME ValueAssumption ==
    /\ Required \in [Line -> Nat \ {0}]
    /\ NoWorker \notin Worker
    /\ NoRequest \notin Request

VARIABLES
    order,     \* the order row: status and version
    lock,      \* the worker whose transaction has written the order row
    reserved,  \* net reservations the order has made
    charged,   \* net charges to the client's balance
    list,      \* status of the pick list, NONE before it exists
    item,      \* the pick list items
    packs,     \* the packs, numbered from 1: status and item rows
    confirms,  \* version-checked confirmations that were committed
    todo,      \* requests not sent yet
    pc,        \* where each worker is
    job,       \* the request it executes
    expected,  \* the order version the client last read
    saw        \* what the worker has read or computed

data == <<order, lock, reserved, charged, list, item, packs, confirms>>
vars == <<order, lock, reserved, charged, list, item, packs, confirms, todo, pc,
          job, expected, saw>>

OrderRow == [status: OrderStatus, version: Nat]
ItemRow == [picked: Int, status: ItemStatus]
PackRow == [status: {"OPEN", "SEALED"}, rows: Seq([line: Line, qty: Int])]
Sight == [order: OrderRow, mine: ItemRow, picked: [Line -> Int], row: Nat, qty: Int, all: BOOLEAN]

TypeOK ==
    /\ order \in OrderRow
    /\ lock \in Worker \cup {NoWorker}
    /\ reserved \in Int /\ charged \in Int
    /\ list \in ListStatus
    /\ item \in [Line -> ItemRow]
    /\ packs \in Seq(PackRow)
    /\ confirms \in Nat
    /\ todo \in [Request -> Nat]
    /\ pc \in [Worker -> {"idle", "read", "begin", "list", "find", "write", "decide", "commit"}]
    /\ job \in [Worker -> Request \cup {NoRequest}]
    /\ expected \in [Worker -> Nat]
    /\ saw \in [Worker -> Sight]
    /\ \A w \in Worker : pc[w] = "idle" <=> job[w] = NoRequest
    /\ \A w \in Worker :
          lock = w <=> pc[w] \in {"list", "commit"} /\ job[w].op \in {"STATUS", "FULFIL"} /\ job[w].checked

-----------------------------------------------------------------------------
ORDER_TRANSITIONS ==
    [s \in OrderStatus |->
        CASE s = "PENDING" -> {"CONFIRMED", "CANCELLED"}
          [] s = "CONFIRMED" -> {"PROCESSING", "CANCELLED"}
          [] s = "PROCESSING" -> {"PARTIALLY_FULFILLED", "SHIPPED", "CANCELLED"}
          [] s = "PARTIALLY_FULFILLED" -> {"PROCESSING", "SHIPPED", "CANCELLED"}
          [] s \in {"SHIPPED", "READY_FOR_PICKUP", "OUT_FOR_DELIVERY"} -> {"DELIVERED", "DELIVERY_FAILED"}
          [] s = "DELIVERY_FAILED" -> {"PROCESSING", "CANCELLED"}
          [] OTHER -> {}]

PICKLIST_TRANSITIONS ==
    [s \in ListStatus |->
        CASE s = "CREATED" -> {"PICKING", "CANCELLED"}
          [] s = "PICKING" -> {"PICKED", "CANCELLED"}
          [] s = "PICKED" -> {"PACKED", "CANCELLED"}
          [] OTHER -> {}]

Idle(w) ==
    /\ pc' = [pc EXCEPT ![w] = "idle"]
    /\ job' = [job EXCEPT ![w] = NoRequest]

Goto(w, step) ==
    /\ pc' = [pc EXCEPT ![w] = step]
    /\ UNCHANGED job

Is(w, op, step) == pc[w] = step /\ job[w].op = op

Init ==
    /\ order = [status |-> "PENDING", version |-> 0]
    /\ lock = NoWorker
    /\ reserved = 0 /\ charged = 0
    /\ list = "NONE"
    /\ item = [l \in Line |-> [picked |-> 0, status |-> "PENDING"]]
    /\ packs = <<>>
    /\ confirms = 0
    /\ todo \in Batches
    /\ pc = [w \in Worker |-> "idle"]
    /\ job = [w \in Worker |-> NoRequest]
    /\ expected = [w \in Worker |-> 0]
    /\ saw = [w \in Worker |->
                [order |-> [status |-> "PENDING", version |-> 0],
                 mine |-> [picked |-> 0, status |-> "PENDING"],
                 picked |-> [l \in Line |-> 0], row |-> 0, qty |-> 0, all |-> FALSE]]

\* A client that has just seen the order sends a request.
Send(w, r) ==
    /\ pc[w] = "idle"
    /\ todo[r] > 0
    /\ todo' = [todo EXCEPT ![r] = @ - 1]
    /\ job' = [job EXCEPT ![w] = r]
    /\ pc' = [pc EXCEPT ![w] = "read"]
    /\ expected' = [expected EXCEPT ![w] = order.version]
    /\ UNCHANGED <<data, saw>>

-----------------------------------------------------------------------------
(***************************************************************************)
(* The order's status.                                                     *)
(***************************************************************************)
\* findOne and assertTransition, before the transaction.
ReadOrder(w) ==
    /\ pc[w] = "read" /\ job[w].op \in {"STATUS", "FULFIL"}
    /\ IF job[w].to \in ORDER_TRANSITIONS[order.status]
         THEN Goto(w, "begin") /\ saw' = [saw EXCEPT ![w].order = order]
         ELSE Idle(w) /\ UNCHANGED saw
    /\ UNCHANGED <<data, todo, expected>>

\* The version the write of an order row is conditional on: what the client
\* sent, or what partialFulfill read itself.
Awaited(w) == IF job[w].op = "FULFIL" THEN saw[w].order.version ELSE expected[w]

\* The version compared in code, after a read, instead of by the update.
BeginWithReadCheck(w) ==
    /\ pc[w] = "begin"
    /\ job[w].checked => order.version = Awaited(w)
    /\ lock' = IF job[w].checked THEN w ELSE lock
    /\ job[w].op = "STATUS" /\ job[w].to = "PROCESSING" => list = "PACKED"
    /\ Goto(w, IF job[w].op = "STATUS" /\ job[w].to = "CONFIRMED" THEN "list" ELSE "commit")
    /\ UNCHANGED <<order, reserved, charged, list, item, packs, confirms, todo, expected, saw>>

\* PROCESSING that does not look at the pick list.
BeginWithoutListCheck(w) ==
    /\ pc[w] = "begin"
    /\ job[w].checked => lock = NoWorker /\ order.version = Awaited(w)
    /\ lock' = IF job[w].checked THEN w ELSE lock
    /\ Goto(w, IF job[w].op = "STATUS" /\ job[w].to = "CONFIRMED" THEN "list" ELSE "commit")
    /\ UNCHANGED <<order, reserved, charged, list, item, packs, confirms, todo, expected, saw>>

\* The transaction up to its last write: the version check, which locks the
\* row, and the condition of the target status.  allocate and the balance
\* update of CONFIRMED and CANCELLED happen here too and become visible at
\* the commit.
Begin(w) ==
    /\ pc[w] = "begin"
    /\ job[w].checked => lock = NoWorker /\ order.version = Awaited(w)
    /\ lock' = IF job[w].checked THEN w ELSE lock
    /\ job[w].op = "STATUS" /\ job[w].to = "PROCESSING" => list = "PACKED"
    /\ Goto(w, IF job[w].op = "STATUS" /\ job[w].to = "CONFIRMED" THEN "list" ELSE "commit")
    /\ UNCHANGED <<order, reserved, charged, list, item, packs, confirms, todo, expected, saw>>

\* createPickListForOrder works on its own connection: the list is there for
\* everybody before the confirmation commits, and stays if it never does.
MakePickList(w) ==
    /\ pc[w] = "list"
    /\ list' = IF list = "NONE" THEN "CREATED" ELSE list
    /\ Goto(w, "commit")
    /\ UNCHANGED <<order, lock, reserved, charged, item, packs, confirms, todo, expected, saw>>

\* deallocate runs only if the order read before the transaction was
\* CONFIRMED or PROCESSING.
Released(w) ==
    IF job[w].to = "CANCELLED" /\ saw[w].order.status \in {"CONFIRMED", "PROCESSING"} THEN 1 ELSE 0

\* A cancellation that does not restore the client's balance.
CommitStatusKeepingCharge(w) ==
    /\ Is(w, "STATUS", "commit")
    /\ lock \in {NoWorker, w}
    /\ order' = [status |-> job[w].to,
                 version |-> order.version + (IF job[w].checked THEN 1 ELSE 0)]
    /\ lock' = NoWorker
    /\ reserved' = reserved + (IF job[w].to = "CONFIRMED" THEN 1 ELSE 0) - Released(w)
    /\ charged' = charged + (IF job[w].to = "CONFIRMED" THEN 1 ELSE 0)
    /\ confirms' = confirms + (IF job[w].checked /\ job[w].to = "CONFIRMED" THEN 1 ELSE 0)
    /\ Idle(w)
    /\ UNCHANGED <<list, item, packs, todo, expected, saw>>

\* The unconditional order.update and the commit.
CommitStatus(w) ==
    /\ Is(w, "STATUS", "commit")
    /\ lock \in {NoWorker, w}
    /\ order' = [status |-> job[w].to,
                 version |-> order.version + (IF job[w].checked THEN 1 ELSE 0)]
    /\ lock' = NoWorker
    /\ reserved' = reserved + (IF job[w].to = "CONFIRMED" THEN 1 ELSE 0) - Released(w)
    /\ charged' = charged + (CASE job[w].to = "CONFIRMED" -> 1
                               [] job[w].to = "CANCELLED" -> -1
                               [] OTHER -> 0)
    /\ confirms' = confirms + (IF job[w].checked /\ job[w].to = "CONFIRMED" THEN 1 ELSE 0)
    /\ Idle(w)
    /\ UNCHANGED <<list, item, packs, todo, expected, saw>>

\* partialFulfill: the fulfilment lines and the version-checked status.
CommitFulfil(w) ==
    /\ Is(w, "FULFIL", "commit")
    /\ order' = [status |-> "PARTIALLY_FULFILLED", version |-> order.version + 1]
    /\ lock' = NoWorker
    /\ Idle(w)
    /\ UNCHANGED <<reserved, charged, list, item, packs, confirms, todo, expected, saw>>

\* dispatchTrip and completeStop write the status of the stop's order
\* without reading the order.
ReadTrip(w) ==
    /\ Is(w, "TRIP", "read")
    /\ Goto(w, "commit")
    /\ UNCHANGED <<data, todo, expected, saw>>

CommitTrip(w) ==
    /\ Is(w, "TRIP", "commit")
    /\ lock = NoWorker
    /\ order' = [order EXCEPT !.status = job[w].to]
    /\ Idle(w)
    /\ UNCHANGED <<lock, reserved, charged, list, item, packs, confirms, todo, expected, saw>>

-----------------------------------------------------------------------------
(***************************************************************************)
(* The pick list.                                                          *)
(***************************************************************************)
\* startPicking and cancelPickList check the status they read ...
ReadList(w) ==
    /\ Is(w, "LIST", "read")
    /\ IF job[w].to \in PICKLIST_TRANSITIONS[list] THEN Goto(w, "write") ELSE Idle(w)
    /\ UNCHANGED <<data, todo, expected, saw>>

\* ... and write the new one unconditionally.
WriteList(w) ==
    /\ Is(w, "LIST", "write")
    /\ list' = job[w].to
    /\ Idle(w)
    /\ UNCHANGED <<order, lock, reserved, charged, item, packs, confirms, todo, expected, saw>>

\* PickListsService.pickItem needs the item; WarehouseService.pickItem also
\* refuses one that is picked, and it and scanItem a quantity above what is
\* missing.
ReadItem(w) ==
    LET l == job[w].line IN
    /\ pc[w] = "read" /\ job[w].op \in Picking
    /\ IF /\ list # "NONE"
          /\ job[w].op = "SCAN" => item[l].status # "PICKED"
          /\ job[w].op # "PICK" => job[w].qty + item[l].picked <= Required[l]
         THEN Goto(w, "write") /\ saw' = [saw EXCEPT ![w].mine = item[l]]
         ELSE Idle(w) /\ UNCHANGED saw
    /\ UNCHANGED <<data, todo, expected>>

\* Another transaction has written the same pick list item.
ItemLocked(w) ==
    \E v \in Worker \ {w} : /\ pc[v] \in {"decide", "commit"}
                            /\ job[v].op \in Picking
                            /\ job[v].line = job[w].line

\* The item as the request leaves it: PICK sets the quantity; SCAN adds to
\* the current one but takes the status from the quantity it read; APPSCAN
\* writes the sum computed from what it read and leaves the status alone.
Picked(w) ==
    LET l == job[w].line
        n == job[w].qty IN
    CASE job[w].op = "PICK" ->
           [picked |-> n,
            status |-> IF n >= Required[l] THEN "PICKED" ELSE IF n > 0 THEN "SHORTAGE" ELSE "PENDING"]
      [] job[w].op = "SCAN" ->
           [picked |-> item[l].picked + n,
            status |-> IF saw[w].mine.picked + n >= Required[l] THEN "PICKED" ELSE "PENDING"]
      [] OTHER -> [item[l] EXCEPT !.picked = saw[w].mine.picked + n]

WriteItem(w) ==
    /\ pc[w] = "write" /\ job[w].op \in Picking
    /\ ~ItemLocked(w)
    /\ saw' = [saw EXCEPT ![w].mine = Picked(w)]
    /\ Goto(w, "decide")
    /\ UNCHANGED <<data, todo, expected>>

\* Is the whole list picked, as far as this transaction can see?
AllPicked(w) ==
    \A l \in Line :
       LET row == IF l = job[w].line THEN saw[w].mine ELSE item[l] IN
       IF job[w].op = "APPSCAN" THEN row.picked >= Required[l] ELSE row.status = "PICKED"

DecidePicked(w) ==
    /\ pc[w] = "decide" /\ job[w].op \in Picking
    /\ saw' = [saw EXCEPT ![w].all = AllPicked(w)]
    /\ Goto(w, "commit")
    /\ UNCHANGED <<data, todo, expected>>

CommitItem(w) ==
    /\ pc[w] = "commit" /\ job[w].op \in Picking
    /\ item' = [item EXCEPT ![job[w].line] = saw[w].mine]
    /\ list' = IF saw[w].all THEN "PICKED" ELSE list
    /\ Idle(w)
    /\ UNCHANGED <<order, lock, reserved, charged, packs, confirms, todo, expected, saw>>

-----------------------------------------------------------------------------
(***************************************************************************)
(* The packs.                                                              *)
(***************************************************************************)
\* createPack needs a PICKED list; the new pack's number is the next free one.
ReadForPack(w) ==
    /\ Is(w, "NEWPACK", "read")
    /\ IF list = "PICKED"
         THEN Goto(w, "write") /\ saw' = [saw EXCEPT ![w].row = Len(packs) + 1]
         ELSE Idle(w) /\ UNCHANGED saw
    /\ UNCHANGED <<data, todo, expected>>

\* The number is unique per list: of two packs created together one fails.
CreatePack(w) ==
    /\ Is(w, "NEWPACK", "write")
    /\ packs' = IF Len(packs) + 1 = saw[w].row
                THEN Append(packs, [status |-> "OPEN", rows |-> <<>>]) ELSE packs
    /\ Idle(w)
    /\ UNCHANGED <<order, lock, reserved, charged, list, item, confirms, todo, expected, saw>>

\* addItemToPack reads the pack with its pick list, and refuses a sealed pack.
ReadPack(w) ==
    LET p == job[w].pack IN
    /\ Is(w, "ADD", "read")
    /\ IF p \in DOMAIN packs /\ packs[p].status = "OPEN"
         THEN /\ Goto(w, "find")
              /\ saw' = [saw EXCEPT ![w].picked = [l \in Line |-> item[l].picked]]
         ELSE Idle(w) /\ UNCHANGED saw
    /\ UNCHANGED <<data, todo, expected>>

\* It looks for the product in the pack ...
FindPackItem(w) ==
    LET rows == packs[job[w].pack].rows
        has == {k \in DOMAIN rows : rows[k].line = job[w].line} IN
    /\ Is(w, "ADD", "find")
    /\ saw' = [saw EXCEPT ![w].row = IF has = {} THEN 0 ELSE Min(has),
                          ![w].qty = IF has = {} THEN 0 ELSE rows[Min(has)].qty]
    /\ Goto(w, "write")
    /\ UNCHANGED <<data, todo, expected>>

PackItemLocked(w) ==
    \E v \in Worker \ {w} : /\ pc[v] \in {"decide", "commit"} /\ job[v].op = "ADD"
                            /\ job[v].pack = job[w].pack
                            /\ saw[v].row = saw[w].row /\ saw[w].row # 0

\* ... and writes the sum to its row, or a new row.
WritePackItem(w) ==
    /\ Is(w, "ADD", "write")
    /\ ~PackItemLocked(w)
    /\ saw' = [saw EXCEPT ![w].qty = @ + job[w].qty]
    /\ Goto(w, "decide")
    /\ UNCHANGED <<data, todo, expected>>

\* The rows of a pack once the write of w is in.
RowsWith(w) ==
    LET rows == packs[job[w].pack].rows
        mine == [line |-> job[w].line, qty |-> saw[w].qty] IN
    IF saw[w].row = 0 THEN Append(rows, mine) ELSE [rows EXCEPT ![saw[w].row] = mine]

Packed(ps, l) ==
    MapThenSumSet(LAMBDA p : MapThenSumSet(
                     LAMBDA k : IF ps[p].rows[k].line = l THEN ps[p].rows[k].qty ELSE 0,
                     DOMAIN ps[p].rows),
                  DOMAIN ps)

\* Is everything that was picked, when the pack was read, in a pack?
DecidePacked(w) ==
    /\ Is(w, "ADD", "decide")
    /\ saw' = [saw EXCEPT ![w].all =
                 \A l \in Line : Packed([packs EXCEPT ![job[w].pack].rows = RowsWith(w)], l)
                                    >= saw[w].picked[l]]
    /\ Goto(w, "commit")
    /\ UNCHANGED <<data, todo, expected>>

\* If so the list is PACKED and the order goes to PROCESSING, whatever their
\* statuses are.
CommitPackItem(w) ==
    /\ Is(w, "ADD", "commit")
    /\ saw[w].all => lock = NoWorker
    /\ packs' = [packs EXCEPT ![job[w].pack].rows = RowsWith(w)]
    /\ list' = IF saw[w].all THEN "PACKED" ELSE list
    /\ order' = IF saw[w].all THEN [order EXCEPT !.status = "PROCESSING"] ELSE order
    /\ Idle(w)
    /\ UNCHANGED <<lock, reserved, charged, item, confirms, todo, expected, saw>>

\* sealPack checks the status it reads and writes unconditionally.
ReadSeal(w) ==
    LET p == job[w].pack IN
    /\ Is(w, "SEAL", "read")
    /\ IF p \in DOMAIN packs /\ packs[p].status # "SEALED" THEN Goto(w, "write") ELSE Idle(w)
    /\ UNCHANGED <<data, todo, expected, saw>>

SealPack(w) ==
    /\ Is(w, "SEAL", "write")
    /\ packs' = [packs EXCEPT ![job[w].pack].status = "SEALED"]
    /\ Idle(w)
    /\ UNCHANGED <<order, lock, reserved, charged, list, item, confirms, todo, expected, saw>>

-----------------------------------------------------------------------------
\* A transaction fails at a statement: nothing of it remains but the pick list
\* a confirmation made on the side.
Fail(w) ==
    /\ pc[w] \in {"begin", "list", "write", "decide", "commit"}
    /\ lock' = IF lock = w THEN NoWorker ELSE lock
    /\ Idle(w)
    /\ UNCHANGED <<order, reserved, charged, list, item, packs, confirms, todo, expected, saw>>

Step(w) ==
    \/ ReadOrder(w) \/ Begin(w) \/ MakePickList(w) \/ CommitStatus(w) \/ CommitFulfil(w)
    \/ ReadTrip(w) \/ CommitTrip(w)
    \/ ReadList(w) \/ WriteList(w)
    \/ ReadItem(w) \/ WriteItem(w) \/ DecidePicked(w) \/ CommitItem(w)
    \/ ReadForPack(w) \/ CreatePack(w)
    \/ ReadPack(w) \/ FindPackItem(w) \/ WritePackItem(w) \/ DecidePacked(w) \/ CommitPackItem(w)
    \/ ReadSeal(w) \/ SealPack(w)
    \/ Fail(w)

\* Every request has been sent and answered.
Finished ==
    /\ \A w \in Worker : pc[w] = "idle"
    /\ \A r \in Request : todo[r] = 0
    /\ UNCHANGED vars

Next ==
    \/ \E w \in Worker : Step(w)
    \/ \E w \in Worker, r \in Request : Send(w, r)
    \/ Finished

Spec == Init /\ [][Next]_vars

-----------------------------------------------------------------------------
(***************************************************************************)
(* Properties.                                                             *)
(***************************************************************************)
\* The client is charged for the order at most as often as stock has been
\* reserved for it, however confirmations, cancellations and failures race.
ChargedOnlyIfReserved == charged <= reserved

\* Of the confirmations that carry the version the client saw, at most one
\* takes effect: a double click or two back-office users reserve the stock and
\* charge the client once.
CheckedConfirmsOnce == confirms <= 1

\* Confirmations of one order race without charging what is not reserved, or
\* twice.
ConfirmedOnce == ChargedOnlyIfReserved /\ CheckedConfirmsOnce

\* An order that is being processed or was shipped has a pick list, and
\* something of it was entered in a pack: no status request overtakes the
\* warehouse, whatever it read before.  (What is entered may be negative and
\* take out again what another entry put in: addItemToPack does not ask.)
NothingShipsUnpacked ==
    order.status \in {"PROCESSING", "PARTIALLY_FULFILLED", "SHIPPED"} =>
       /\ list # "NONE"
       /\ \E p \in DOMAIN packs : packs[p].rows # <<>>

\* docs/TestingStrategy.md, LAW-06: "Terminal FSM states have no outgoing
\* transitions", failing which "Cancelled orders" are "resurrecting".  The last
\* item packed moves a cancelled order to PROCESSING.
CancelledStaysCancelled == [][order.status = "CANCELLED" => order'.status = "CANCELLED"]_vars

\* docs/OperationalDocumentation.md, 3.2: "Once all items on the list are
\* scanned and verified, the pick list status automatically transitions from
\* PICKING to PICKED".  Two scanners that finish together each miss the other.
ScannedListIsPicked ==
    /\ \A w \in Worker : pc[w] = "idle"
    /\ \A l \in Line : item[l].status = "PICKED"
    => list \notin {"CREATED", "PICKING"}
=============================================================================

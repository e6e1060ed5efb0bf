--------------------------- MODULE CustomerReturns ---------------------------
(***************************************************************************)
(* Returns of delivered orders and their refunds (ReturnsService of        *)
(* returns/).  The inventory is the subject of InventoryStock; here one    *)
(* counts how often a return's goods are put back.                         *)
(***************************************************************************)
EXTENDS Requests

CONSTANTS
    CustomerReturn,   \* returns that may be asked for
    Tenant,
    TenantOf          \* per return, its tenant

ReturnStatus == {"REQUESTED", "APPROVED", "RECEIVED", "COMPLETED", "REJECTED"}
ReturnOp == {"INITIATE_RETURN", "APPROVE_RETURN", "REJECT_RETURN", "RECEIVE_RETURN", "COMPLETE_RETURN"}

ReturnRow == [status: ReturnStatus, version: Nat, number: Nat]
RefundRow == [status: {"PENDING", "COMPLETED"}, version: Nat, number: Nat]

\* `fits` says that no item asks for more than its order item has, `listed`
\* how often a receipt lists the goods as restockable.
ASSUME ReturnAssumption ==
    /\ IsFiniteSet(CustomerReturn) /\ Unread \notin ReturnRow /\ Unread \notin RefundRow
    /\ TenantOf \in [CustomerReturn -> Tenant]
    /\ \A r \in Request : r.op \in ReturnOp =>
          r \in [op: ReturnOp, ret: CustomerReturn, fits: BOOLEAN, listed: Nat, by: Nat]
    /\ \A q, r \in Request :
          q.op = "INITIATE_RETURN" /\ r.op = "INITIATE_RETURN" /\ q.ret = r.ret => q = r

VARIABLES
    ret,         \* the returns
    refund,      \* and the refund of each
    receipts,    \* per return, the receipts that were committed
    restocked    \* and how often its goods were put back

returns == <<ret, refund, receipts, restocked>>

ReturnTypeOK ==
    /\ ret \in [CustomerReturn -> ReturnRow \cup {Unread}]
    /\ refund \in [CustomerReturn -> RefundRow \cup {Unread}]
    /\ receipts \in [CustomerReturn -> Nat] /\ restocked \in [CustomerReturn -> Nat]

ReturnInit ==
    /\ ret = [r \in CustomerReturn |-> Unread] /\ refund = [r \in CustomerReturn |-> Unread]
    /\ receipts = [r \in CustomerReturn |-> 0] /\ restocked = [r \in CustomerReturn |-> 0]

RETURN_TRANSITIONS ==
    [s \in ReturnStatus |->
        CASE s = "REQUESTED" -> {"APPROVED", "REJECTED"}
          [] s = "APPROVED" -> {"RECEIVED", "REJECTED"}
          [] s = "RECEIVED" -> {"COMPLETED"}
          [] OTHER -> {}]

RowsOf(table, tenant) == {r \in CustomerReturn : TenantOf[r] = tenant /\ table[r] # Unread}

\* The next number of a tenant: its rows counted, plus one.
NextNumber(w, table) == Cardinality(RowsOf(table, TenantOf[job[w].ret])) + 1

\* initiateReturn numbers by the tenant's count, and the index on the number
\* is one for all tenants.
InitiateReturn(w) ==
    LET r == job[w].ret IN
    \/ /\ At(w, "INITIATE_RETURN", "read")
       /\ SeeIf(w, job[w].fits, NextNumber(w, ret), "commit")
       /\ UNCHANGED returns
    \/ /\ At(w, "INITIATE_RETURN", "commit")
       /\ \A s \in CustomerReturn : ret[s] # Unread => ret[s].number # saw[w]
       /\ ret' = [ret EXCEPT ![r] = [status |-> "REQUESTED", version |-> 0, number |-> saw[w]]]
       /\ Answer(w)
       /\ UNCHANGED <<refund, receipts, restocked>>

\* The return as the handler reads it, when it may go to `status`.
ReadReturn(w, to, step) ==
    LET r == job[w].ret IN
    SeeIf(w, ret[r] # Unread /\ to \in RETURN_TRANSITIONS[ret[r].status],
          [row |-> ret[r], refund |-> refund[r]], step)

\* A write of the return by its id.
UpdateReturnById(w, status) ==
    ret' = [ret EXCEPT ![job[w].ret].status = status, ![job[w].ret].version = @ + 1]

\* updateMany where the version is the one read; count 0 rolls back.
UpdateReturn(w, status) ==
    /\ ret[job[w].ret].version = saw[w].row.version
    /\ ret' = [ret EXCEPT ![job[w].ret].status = status, ![job[w].ret].version = @ + 1]

\* approveReturn numbers the refund before its transaction; the refund's
\* indexes are on the return and on the number within the tenant.
ApproveReturn(w) ==
    LET r == job[w].ret IN
    \/ /\ At(w, "APPROVE_RETURN", "read")
       /\ ReadReturn(w, "APPROVED", "check")
       /\ UNCHANGED returns
    \/ /\ At(w, "APPROVE_RETURN", "check")
       /\ See(w, [row |-> saw[w].row, number |-> NextNumber(w, refund)], "commit")
       /\ UNCHANGED returns
    \/ /\ At(w, "APPROVE_RETURN", "commit")
       /\ UpdateReturn(w, "APPROVED")
       /\ refund[r] = Unread
       /\ \A s \in RowsOf(refund, TenantOf[r]) : refund[s].number # saw[w].number
       /\ refund' = [refund EXCEPT ![r] = [status |-> "PENDING", version |-> 0, number |-> saw[w].number]]
       /\ Answer(w)
       /\ UNCHANGED <<receipts, restocked>>

\* rejectReturn only rejects a return that is still REQUESTED.
RejectReturn(w) ==
    LET r == job[w].ret IN
    \/ /\ At(w, "REJECT_RETURN", "read")
       /\ SeeIf(w, ret[r] # Unread /\ ret[r].status = "REQUESTED", [row |-> ret[r]], "commit")
       /\ UNCHANGED returns
    \/ /\ At(w, "REJECT_RETURN", "commit")
       /\ UpdateReturn(w, "REJECTED")
       /\ Answer(w)
       /\ UNCHANGED <<refund, receipts, restocked>>

\* receiveReturn puts the goods back once for every time they are listed.
ReceiveReturn(w) ==
    \/ /\ At(w, "RECEIVE_RETURN", "read")
       /\ ReadReturn(w, "RECEIVED", "commit")
       /\ UNCHANGED returns
    \/ /\ At(w, "RECEIVE_RETURN", "commit")
       /\ UpdateReturn(w, "RECEIVED")
       /\ receipts' = [receipts EXCEPT ![job[w].ret] = @ + 1]
       /\ restocked' = [restocked EXCEPT ![job[w].ret] = @ + job[w].listed]
       /\ Answer(w)
       /\ UNCHANGED refund

\* completeReturn completes the refund if it was PENDING, then the return.
CompleteReturn(w) ==
    LET r == job[w].ret
        paid == saw[w].refund IN
    \/ /\ At(w, "COMPLETE_RETURN", "read")
       /\ ReadReturn(w, "COMPLETED", "commit")
       /\ UNCHANGED returns
    \/ /\ At(w, "COMPLETE_RETURN", "commit")
       /\ IF paid # Unread /\ paid.status = "PENDING"
          THEN /\ refund[r].version = paid.version
               /\ refund' = [refund EXCEPT ![r].status = "COMPLETED", ![r].version = @ + 1]
          ELSE UNCHANGED refund
       /\ UpdateReturn(w, "COMPLETED")
       /\ Answer(w)
       /\ UNCHANGED <<receipts, restocked>>

ReturnFails(w) ==
    /\ pc[w] # "idle" /\ job[w].op \in ReturnOp
    /\ Answer(w)
    /\ UNCHANGED returns

ReturnStep(w) ==
    \/ InitiateReturn(w) \/ ApproveReturn(w) \/ RejectReturn(w)
    \/ ReceiveReturn(w) \/ CompleteReturn(w) \/ ReturnFails(w)

-----------------------------------------------------------------------------
\* Whoever approves, rejects, receives and completes at the same time: money
\* is owed exactly for a return that was approved, paid back exactly when it
\* is COMPLETED, and its goods come in by one receipt.
ReturnAndRefundAgree ==
    \A r \in CustomerReturn :
        LET status == IF ret[r] = Unread THEN "REQUESTED" ELSE ret[r].status IN
        /\ refund[r] # Unread <=> status \in {"APPROVED", "RECEIVED", "COMPLETED"}
        /\ refund[r] # Unread => (refund[r].status = "COMPLETED" <=> status = "COMPLETED")
        /\ receipts[r] = (IF status \in {"RECEIVED", "COMPLETED"} THEN 1 ELSE 0)
=============================================================================

-------------------------------- MODULE Till --------------------------------
(***************************************************************************)
(* One branch's till on one business day: cash sessions                     *)
(* (CashSessionService), sales, refunds and voids (SalesService,            *)
(* SalesExtensionsService), payments (PaymentsService) and the Z-report     *)
(* (ZReportsService).  The stock a sale moves is the subject of             *)
(* InventoryStock; here it only counts how often a void put it back.        *)
(*                                                                          *)
(* A worker is one HTTP request.  Its reads are steps of their own, whether *)
(* the code makes them before its transaction or in it (READ COMMITTED),    *)
(* and its writes take effect together when the transaction commits: a      *)
(* conditional update that waits for another transaction's row decides on   *)
(* what that one committed.  Payment and refund rows are summed up and      *)
(* counted, which is all the services do with them.  No request is checked  *)
(* before its handler: a payment may be of nothing or less.                 *)
(***************************************************************************)
EXTENDS Integers, FiniteSetsExt, Sequences

CONSTANTS
    Sale,        \* the sales of the day
    Total,       \* the total of each
    OnAccount,   \* those of a registered customer (one customer for all)
    Worker,      \* concurrently executing requests
    Request,     \* requests clients may send
    Batches,     \* how often each request is sent: functions Request -> Nat
    Attempts,    \* how often withRetry runs SalesService.create
    NoRequest

(***************************************************************************)
(* SALE: SalesService.create; PAY: PaymentsService.create; REFUND and VOID:*)
(* SalesService; XVOID: SalesExtensionsService.voidSale; OPEN and CLOSE:   *)
(* CashSessionService; ZREPORT: ZReportsService.closeDay.  The amount of   *)
(* an OPEN is the opening cash.  Only a PAY has a meaningful `cash`.       *)
(***************************************************************************)
Op == {"SALE", "PAY", "REFUND", "VOID", "XVOID", "OPEN", "CLOSE", "ZREPORT"}

ASSUME RequestAssumption ==
    /\ Request \subseteq [op: Op, sale: Sale, amount: Int, cash: BOOLEAN]
    /\ Batches \subseteq [Request -> Nat]
    \* a SALE request makes a new sale, so it is sent once
    /\ \A b \in Batches, r \in Request : r.op = "SALE" => b[r] <= 1
    /\ \A q, r \in Request : q.op = "SALE" /\ r.op = "SALE" /\ q.sale = r.sale => q = r

ASSUME ValueAssumption ==
    /\ Total \in [Sale -> Int]
    /\ OnAccount \subseteq Sale
    /\ Attempts \in Nat \ {0}
    /\ NoRequest \notin Request

VARIABLES
    sales,     \* the sale rows with their invoices
    rows,      \* per sale, its payment rows: what payments add and take off,
               \* what the rows of refunds add, and how many rows there are
    refunds,   \* per sale, the sum of its refund rows
    stock,     \* per sale, how often its stock was put back
    ends,      \* per sale, the version-checked voids and full refunds
    sessions,  \* the cash sessions, numbered from 1
    drawer,    \* per session, its cash payments and cash refunds
    reported,  \* has the day's Z-report been made?
    customer,  \* the customer row: balance and version
    todo,      \* requests not sent yet
    pc,        \* where each worker is: the step it takes next
    job,       \* the request it executes
    attempt,   \* the run of withRetry a SALE is in
    saw        \* what the worker has read

till == <<sales, rows, refunds, stock, ends, sessions, drawer, reported, customer>>
vars == <<sales, rows, refunds, stock, ends, sessions, drawer, reported, customer,
          todo, pc, job, attempt, saw>>

SaleRow == [status: {"NONE", "COMPLETED", "REFUNDED", "VOIDED"},
            version: Nat, invoice: {"NONE", "UNPAID", "PAID", "VOIDED"}]
SeenRow(n) == [sale: SaleRow, rows: Int, session: 0..n, sum: Int, version: Nat]
SessionRow == [status: {"OPEN", "CLOSED"}, opening: Int, expected: Int]
PaymentRows == [paid: Nat, less: Nat, back: Nat, count: Nat]

TypeOK ==
    /\ sales \in [Sale -> SaleRow]
    /\ rows \in [Sale -> PaymentRows] /\ refunds \in [Sale -> Nat]
    /\ stock \in [Sale -> Nat] /\ ends \in [Sale -> Nat]
    /\ sessions \in Seq(SessionRow)
    /\ drawer \in Seq([in: Int, out: Nat])
    /\ Len(drawer) = Len(sessions)
    /\ reported \in BOOLEAN
    /\ customer \in [balance: Int, version: Nat]
    /\ todo \in [Request -> Nat]
    /\ pc \in [Worker -> {"idle", "read", "report", "session", "customer", "sum", "commit"}]
    /\ job \in [Worker -> Request \cup {NoRequest}]
    /\ attempt \in [Worker -> 1..Attempts]
    /\ saw \in [Worker -> SeenRow(Len(sessions))]
    /\ \A w \in Worker : pc[w] = "idle" <=> job[w] = NoRequest
    /\ \A s \in Sale : sales[s].status = "NONE" <=> sales[s].invoice = "NONE"

NothingSeen == [sale |-> [status |-> "NONE", version |-> 0, invoice |-> "NONE"],
                rows |-> 0, session |-> 0, sum |-> 0, version |-> 0]

Init ==
    /\ sales = [s \in Sale |-> [status |-> "NONE", version |-> 0, invoice |-> "NONE"]]
    /\ rows = [s \in Sale |-> [paid |-> 0, less |-> 0, back |-> 0, count |-> 0]]
    /\ refunds = [s \in Sale |-> 0]
    /\ stock = [s \in Sale |-> 0] /\ ends = [s \in Sale |-> 0]
    /\ sessions = <<>> /\ drawer = <<>>
    /\ reported = FALSE
    /\ customer = [balance |-> 0, version |-> 0]
    /\ todo \in Batches
    /\ pc = [w \in Worker |-> "idle"]
    /\ job = [w \in Worker |-> NoRequest]
    /\ attempt = [w \in Worker |-> 1]
    /\ saw = [w \in Worker |-> NothingSeen]

-----------------------------------------------------------------------------
\* The steps of each operation before its commit, in the order of the code:
\* the first, and the one that follows a step.
First(r) ==
    CASE r.op \in {"SALE", "CLOSE"} -> "session"
      [] r.op \in {"OPEN", "ZREPORT"} -> "report"
      [] OTHER -> "read"

After(w) ==
    CASE pc[w] = "read" /\ job[w].op = "PAY" -> "report"
      [] pc[w] = "read" /\ job[w].op = "REFUND" -> "session"
      [] pc[w] = "report" -> "session"
      [] pc[w] = "session" /\ job[w].op = "REFUND" -> "sum"
      [] pc[w] = "session" /\ job[w].op = "SALE" /\ job[w].sale \in OnAccount -> "customer"
      [] OTHER -> "commit"

Goto(w, step) == pc' = [pc EXCEPT ![w] = step]

Idle(w) ==
    /\ pc' = [pc EXCEPT ![w] = "idle"]
    /\ job' = [job EXCEPT ![w] = NoRequest]
    /\ attempt' = [attempt EXCEPT ![w] = 1]
    /\ saw' = [saw EXCEPT ![w] = NothingSeen]

Is(w, op) == pc[w] = "commit" /\ job[w].op = op

Send(w, r) ==
    /\ pc[w] = "idle"
    /\ todo[r] > 0
    /\ todo' = [todo EXCEPT ![r] = @ - 1]
    /\ job' = [job EXCEPT ![w] = r]
    /\ Goto(w, First(r))
    /\ UNCHANGED <<till, attempt, saw>>

\* The exception a step or a failing statement throws ends the request; withRetry
\* runs SalesService.create again while it has attempts left.
Throw(w) ==
    /\ IF job[w].op = "SALE" /\ attempt[w] < Attempts
         THEN /\ Goto(w, "session")
              /\ attempt' = [attempt EXCEPT ![w] = @ + 1]
              /\ saw' = [saw EXCEPT ![w] = NothingSeen]
              /\ UNCHANGED job
         ELSE Idle(w)
    /\ UNCHANGED <<till, todo>>

-----------------------------------------------------------------------------
(* The reads and the checks that follow them.                               *)

\* What a payment takes for paid: all payment rows, those of refunds too.
Added(s) == rows[s].paid + rows[s].back
RowSum(s) == Added(s) - rows[s].less

\* May the operation go on with the sale it has read?  A payment takes any
\* sale; refund and till void ask SALE_TRANSITIONS; a till void needs a sale
\* without payment rows; a refund of something is compared with the total
\* alone; the manager's void only excludes VOIDED.
SaleAllows(r) ==
    LET sale == sales[r.sale] IN
    CASE r.op = "PAY" -> sale.status # "NONE"
      [] r.op = "REFUND" -> sale.status = "COMPLETED" /\ r.amount > 0 /\ r.amount <= Total[r.sale]
      [] r.op = "VOID" -> sale.status = "COMPLETED" /\ rows[r.sale].count = 0
      [] OTHER -> sale.status \notin {"NONE", "VOIDED"}

ReadSale(w) ==
    /\ pc[w] = "read"
    /\ SaleAllows(job[w])
    /\ saw' = [saw EXCEPT ![w] = [@ EXCEPT !.sale = sales[job[w].sale], !.rows = RowSum(job[w].sale)]]
    /\ Goto(w, After(w))
    /\ UNCHANGED <<till, todo, job, attempt>>

RejectSale(w) ==
    /\ pc[w] = "read"
    /\ ~SaleAllows(job[w])
    /\ Throw(w)

\* No payment, session or second report after the day's Z-report.
ReadReport(w) ==
    /\ pc[w] = "report"
    /\ ~reported
    /\ Goto(w, After(w))
    /\ UNCHANGED <<till, todo, job, attempt, saw>>

RejectReport(w) ==
    /\ pc[w] = "report"
    /\ reported
    /\ Throw(w)

OpenSessions == {n \in DOMAIN sessions : sessions[n].status = "OPEN"}

\* findFirst of an OPEN session, 0 for none.  A sale, a payment and a close
\* need one, an open refuses one, a refund and the Z-report take either; a
\* payment is also compared with what the sale was seen to owe.
SessionAllows(w, n) ==
    /\ IF OpenSessions = {} THEN n = 0 ELSE n \in OpenSessions
    /\ job[w].op \in {"SALE", "PAY", "CLOSE"} => n # 0
    /\ job[w].op = "OPEN" => n = 0
    /\ job[w].op = "PAY" => job[w].amount <= Total[job[w].sale] - saw[w].rows

Balance(n) == sessions[n].opening + drawer[n].in - drawer[n].out

\* A close reads the payments with the session and computes what should be in
\* the drawer.
ReadSession(w) ==
    /\ pc[w] = "session"
    /\ \E n \in 0..Len(sessions) :
          /\ SessionAllows(w, n)
          /\ saw' = [saw EXCEPT ![w] = [@ EXCEPT !.session = n,
                                                 !.sum = IF job[w].op = "CLOSE" THEN Balance(n) ELSE saw[w].sum]]
    /\ Goto(w, After(w))
    /\ UNCHANGED <<till, todo, job, attempt>>

RejectSession(w) ==
    /\ pc[w] = "session"
    /\ \A n \in 0..Len(sessions) : ~SessionAllows(w, n)
    /\ Throw(w)

\* SalesService.create reads the customer for its version.
ReadCustomer(w) ==
    /\ pc[w] = "customer"
    /\ saw' = [saw EXCEPT ![w].version = customer.version]
    /\ Goto(w, After(w))
    /\ UNCHANGED <<till, todo, job, attempt>>

\* (Mutant.)  The request's own refund counts twice.
AggregateCountingTwice(w) ==
    /\ pc[w] = "sum"
    /\ saw' = [saw EXCEPT ![w].sum = refunds[job[w].sale] + 2 * job[w].amount]
    /\ Goto(w, After(w))
    /\ UNCHANGED <<till, todo, job, attempt>>

\* refundSale adds up the refunds of the sale, its own included.
Aggregate(w) ==
    /\ pc[w] = "sum"
    /\ saw' = [saw EXCEPT ![w].sum = refunds[job[w].sale] + job[w].amount]
    /\ Goto(w, After(w))
    /\ UNCHANGED <<till, todo, job, attempt>>

-----------------------------------------------------------------------------
(* The commits.                                                             *)

\* The sale with its unpaid invoice, and the debit of the customer who must
\* still have the version that was read.
CustomerUnchanged(w) == job[w].sale \in OnAccount => customer.version = saw[w].version

Debited(c, s) ==
    IF s \in OnAccount THEN [balance |-> c.balance + Total[s], version |-> c.version + 1] ELSE c

\* (Mutant.)  A conflict on the customer is passed over, the sale stays.
CommitSaleIgnoringConflict(w) ==
    /\ Is(w, "SALE")
    /\ sales' = [sales EXCEPT ![job[w].sale] =
                    [status |-> "COMPLETED", version |-> 0, invoice |-> "UNPAID"]]
    /\ customer' = IF CustomerUnchanged(w) THEN Debited(customer, job[w].sale) ELSE customer
    /\ Idle(w)
    /\ UNCHANGED <<rows, refunds, stock, ends, sessions, drawer, reported, todo>>

\* (Mutant.)  The sale is made without its invoice.
CommitSaleWithoutInvoice(w) ==
    /\ Is(w, "SALE")
    /\ CustomerUnchanged(w)
    /\ sales' = [sales EXCEPT ![job[w].sale] =
                    [status |-> "COMPLETED", version |-> 0, invoice |-> "NONE"]]
    /\ customer' = Debited(customer, job[w].sale)
    /\ Idle(w)
    /\ UNCHANGED <<rows, refunds, stock, ends, sessions, drawer, reported, todo>>

CommitSale(w) ==
    /\ Is(w, "SALE")
    /\ CustomerUnchanged(w)
    /\ sales' = [sales EXCEPT ![job[w].sale] =
                    [status |-> "COMPLETED", version |-> 0, invoice |-> "UNPAID"]]
    /\ customer' = Debited(customer, job[w].sale)
    /\ Idle(w)
    /\ UNCHANGED <<rows, refunds, stock, ends, sessions, drawer, reported, todo>>

\* (Mutant.)  The payments are summed after the new row is in, and it is
\* added once more.
SettlesCountingTwice(w) == saw[w].rows + 2 * job[w].amount >= Total[job[w].sale]

\* The rows of a sale with one more payment; a negative one takes off.
WithPayment(r, a) ==
    [paid |-> r.paid + (IF a > 0 THEN a ELSE 0), less |-> r.less + (IF a < 0 THEN -a ELSE 0),
     back |-> r.back, count |-> r.count + 1]

\* The payment row, the invoice if what was read and this payment settle it,
\* the credit of the customer.  No status or version of the sale is asked, and
\* the session is the one that was read.
Settles(w) == saw[w].rows + job[w].amount >= Total[job[w].sale]

CommitPay(w) ==
    LET s == job[w].sale  a == job[w].amount IN
    /\ Is(w, "PAY")
    /\ rows' = [rows EXCEPT ![s] = WithPayment(@, a)]
    /\ drawer' = IF job[w].cash
                 THEN [drawer EXCEPT ![saw[w].session] = [in |-> @.in + a, out |-> @.out]]
                 ELSE drawer
    /\ sales' = IF Settles(w)
                THEN [sales EXCEPT ![s] = [status |-> @.status, version |-> @.version,
                                           invoice |-> "PAID"]]
                ELSE sales
    /\ customer' = IF s \in OnAccount
                   THEN [balance |-> customer.balance - a, version |-> customer.version]
                   ELSE customer
    /\ Idle(w)
    /\ UNCHANGED <<refunds, stock, ends, sessions, reported, todo>>

\* (Mutant.)  The update goes by the id alone.
SaleUnchangedUnchecked(w) == TRUE

\* Does the update of the sale conditional on the version that was read hit?
SaleUnchanged(w) == sales[job[w].sale].version = saw[w].sale.version

\* The refund row, with a session its payment row, and REFUNDED when the sum
\* reaches the total.
InFull(w) == saw[w].sum >= Total[job[w].sale]

CommitRefund(w) ==
    LET s == job[w].sale  a == job[w].amount  n == saw[w].session IN
    /\ Is(w, "REFUND")
    /\ InFull(w) => SaleUnchanged(w)
    /\ refunds' = [refunds EXCEPT ![s] = @ + a]
    /\ rows' = IF n = 0 THEN rows
               ELSE [rows EXCEPT ![s] = [paid |-> @.paid, less |-> @.less, back |-> @.back + a,
                                         count |-> @.count + 1]]
    /\ drawer' = IF n = 0 THEN drawer ELSE [drawer EXCEPT ![n] = [in |-> @.in, out |-> @.out + a]]
    /\ sales' = IF InFull(w)
                THEN [sales EXCEPT ![s] = [status |-> "REFUNDED", version |-> @.version + 1,
                                           invoice |-> @.invoice]]
                ELSE sales
    /\ ends' = IF InFull(w) THEN [ends EXCEPT ![s] = @ + 1] ELSE ends
    /\ Idle(w)
    /\ UNCHANGED <<stock, sessions, reported, customer, todo>>

\* The void at the till: version-checked, invoice voided, stock put back; the
\* customer's balance stays.
CommitVoid(w) ==
    LET s == job[w].sale IN
    /\ Is(w, "VOID")
    /\ SaleUnchanged(w)
    /\ sales' = [sales EXCEPT ![s] =
                    [status |-> "VOIDED", version |-> @.version + 1, invoice |-> "VOIDED"]]
    /\ stock' = [stock EXCEPT ![s] = @ + 1]
    /\ ends' = [ends EXCEPT ![s] = @ + 1]
    /\ Idle(w)
    /\ UNCHANGED <<rows, refunds, sessions, drawer, reported, customer, todo>>

\* The manager's void: the same without the version.
CommitXVoid(w) ==
    LET s == job[w].sale IN
    /\ Is(w, "XVOID")
    /\ sales' = [sales EXCEPT ![s] =
                    [status |-> "VOIDED", version |-> @.version, invoice |-> "VOIDED"]]
    /\ stock' = [stock EXCEPT ![s] = @ + 1]
    /\ Idle(w)
    /\ UNCHANGED <<rows, refunds, ends, sessions, drawer, reported, customer, todo>>

CommitOpen(w) ==
    /\ Is(w, "OPEN")
    /\ sessions' = Append(sessions, [status |-> "OPEN", opening |-> job[w].amount, expected |-> 0])
    /\ drawer' = Append(drawer, [in |-> 0, out |-> 0])
    /\ Idle(w)
    /\ UNCHANGED <<sales, rows, refunds, stock, ends, reported, customer, todo>>

\* Whatever became of the session since it was read.
CommitClose(w) ==
    LET n == saw[w].session IN
    /\ Is(w, "CLOSE")
    /\ sessions' = [sessions EXCEPT ![n] =
                       [status |-> "CLOSED", opening |-> @.opening, expected |-> saw[w].sum]]
    /\ Idle(w)
    /\ UNCHANGED <<sales, rows, refunds, stock, ends, drawer, reported, customer, todo>>

\* The report is unique per branch and day.  The open session is closed without
\* an expected amount of its own; the amounts of the report itself feed nothing.
CommitReport(w) ==
    LET n == saw[w].session IN
    /\ Is(w, "ZREPORT")
    /\ ~reported
    /\ reported' = TRUE
    /\ sessions' = IF n = 0 THEN sessions ELSE [sessions EXCEPT ![n].status = "CLOSED"]
    /\ Idle(w)
    /\ UNCHANGED <<sales, rows, refunds, stock, ends, drawer, customer, todo>>

\* A conditional update or the unique key misses and the code throws, or any
\* other statement of the transaction fails.
Fail(w) == pc[w] = "commit" /\ Throw(w)

Step(w) ==
    \/ ReadSale(w) \/ RejectSale(w) \/ ReadReport(w) \/ RejectReport(w)
    \/ ReadSession(w) \/ RejectSession(w) \/ ReadCustomer(w) \/ Aggregate(w)
    \/ CommitSale(w) \/ CommitPay(w) \/ CommitRefund(w) \/ CommitVoid(w) \/ CommitXVoid(w)
    \/ CommitOpen(w) \/ CommitClose(w) \/ CommitReport(w)
    \/ Fail(w)

\* Every request has been sent and answered.
Finished ==
    /\ \A w \in Worker : pc[w] = "idle"
    /\ \A r \in Request : todo[r] = 0
    /\ UNCHANGED vars

Next ==
    \/ \E w \in Worker : Step(w)
    \/ \E w \in Worker, r \in Request : Send(w, r)
    \/ Finished

Spec == Init /\ [][Next]_vars

-----------------------------------------------------------------------------
(***************************************************************************)
(* Properties.                                                             *)
(***************************************************************************)
Sold(s) == sales[s].status # "NONE"

\* A sale is ended by at most one of the operations that check its version,
\* however refunds and till voids race and whatever the manager's void, which
\* does not count the version up, does between their read and their write.
CheckedEndsOnce == \A s \in Sale : ends[s] <= 1

\* A sale ends up REFUNDED only when its refunds add up to its total: refunds
\* that do not see each other leave it COMPLETED, never the other way round.
RefundedInFull == \A s \in Sale : sales[s].status = "REFUNDED" => refunds[s] >= Total[s]

\* An invoice is PAID only when the payment rows of its sale that add something
\* cover it, though each payment adds itself to a sum read before its
\* transaction.  Negative payments are left out: PaymentsService refuses none,
\* and never takes PAID back for them.
PaidInvoiceCovered == \A s \in Sale : sales[s].invoice = "PAID" => Added(s) >= Total[s]

\* What a customer owes is what was sold on account less what was paid, across
\* retries of the sale and payments that do not count the version up, a
\* negative payment raising it.
Paid(s) == rows[s].paid - rows[s].less

CustomerOwesUnpaid ==
    customer.balance =
        MapThenSumSet(LAMBDA s : Total[s] - Paid(s), {s \in OnAccount : Sold(s)})

\* docs/TestingStrategy.md, LAW-08: "Cash session balance = Opening + Sales -
\* Refunds", of a session that was closed.
ClosedSessionBalances ==
    \A n \in DOMAIN sessions :
        sessions[n].status = "CLOSED" =>
           sessions[n].expected = Balance(n)
=============================================================================

----------------------------- MODULE TillProofs -----------------------------
(***************************************************************************)
(* Safety of the till for any number of sales, workers, requests and       *)
(* retries: type correctness, one version-checked end per sale, refunds    *)
(* that cover a refunded sale and payment rows that cover a paid invoice,  *)
(* whatever the amounts, which may be negative.                            *)
(*                                                                         *)
(* The inductive invariant says what a worker still knows of what it read: *)
(* a refund or void read version 0 (SeenVersions), the sums read are lower *)
(* bounds of what the rows add now (SeenSums), and the version counts ends *)
(* (VersionsCountEnds).  That a sale is made once (SalesMadeOnce) keeps    *)
(* SalesService.create from setting a version back.                        *)
(***************************************************************************)
EXTENDS Till, SequenceTheorems, SumTheorems

USE DEF PaymentRows

\* The operations that read a sale first.
OnSale == {"PAY", "REFUND", "VOID", "XVOID"}

\* A worker is at a step of its operation, and has what the step needs.
AtOwnStep ==
    \A w \in Worker :
        /\ pc[w] = "read" => job[w].op \in OnSale
        /\ pc[w] = "report" => job[w].op \in {"PAY", "OPEN", "ZREPORT"}
        /\ pc[w] = "session" => job[w].op \notin {"VOID", "XVOID"}
        /\ pc[w] = "customer" => job[w].op = "SALE"
        /\ pc[w] = "sum" => job[w].op = "REFUND"
        /\ pc[w] = "commit" /\ job[w].op \in {"PAY", "CLOSE"} => saw[w].session # 0
        /\ pc[w] \notin {"idle", "read"} /\ job[w].op \in OnSale => Sold(job[w].sale)
        /\ pc[w] \notin {"idle", "read"} /\ job[w].op = "REFUND" => job[w].amount > 0

\* A sale is made by one request, which is sent once.
SalesMadeOnce ==
    \A r \in Request :
        r.op = "SALE" =>
            /\ todo[r] <= 1
            /\ todo[r] = 1 \/ Sold(r.sale) => \A w \in Worker : job[w] # r
            /\ Sold(r.sale) => todo[r] = 0
            /\ \A w, v \in Worker : job[w] = r /\ job[v] = r => w = v

VersionsCountEnds ==
    \A s \in Sale :
        /\ sales[s].version = ends[s]
        /\ ends[s] <= 1
        /\ sales[s].status \in {"NONE", "COMPLETED"} => ends[s] = 0

SeenVersions ==
    \A w \in Worker :
        job[w] # NoRequest /\ job[w].op \in {"REFUND", "VOID"} /\ pc[w] # "read"
            => saw[w].sale.version = 0

SeenSums ==
    \A w \in Worker :
        job[w] # NoRequest =>
            /\ job[w].op = "PAY" /\ pc[w] # "read" => saw[w].rows <= Added(job[w].sale)
            /\ job[w].op = "REFUND" /\ pc[w] = "commit"
                  => saw[w].sum <= refunds[job[w].sale] + job[w].amount

Inv ==
    /\ TypeOK
    /\ AtOwnStep
    /\ SalesMadeOnce
    /\ VersionsCountEnds
    /\ SeenVersions
    /\ SeenSums
    /\ RefundedInFull
    /\ PaidInvoiceCovered

-----------------------------------------------------------------------------
(* Facts about requests and rows.                                           *)

LEMMA TillTyping ==
    ASSUME Inv
    PROVE  /\ sales \in [Sale -> SaleRow]
           /\ \A s \in Sale : sales[s].status = "NONE" <=> sales[s].invoice = "NONE"
           /\ rows \in [Sale -> PaymentRows] /\ refunds \in [Sale -> Nat]
           /\ stock \in [Sale -> Nat] /\ ends \in [Sale -> Nat]
           /\ sessions \in Seq(SessionRow) /\ drawer \in Seq([in: Int, out: Nat])
           /\ Len(drawer) = Len(sessions) /\ Len(sessions) \in Nat /\ Len(sessions) <= Len(sessions)
           /\ customer \in [balance: Int, version: Nat] /\ reported \in BOOLEAN
BY DEF Inv, TypeOK

LEMMA JobTyping ==
    ASSUME TypeOK, NEW w \in Worker, pc[w] # "idle"
    PROVE  /\ job[w] \in Request
           /\ job[w].op \in Op /\ job[w].sale \in Sale
           /\ job[w].amount \in Int /\ job[w].cash \in BOOLEAN
BY RequestAssumption DEF TypeOK

\* A worker that has seen nothing has seen nothing wrong.
LEMMA NothingSeenTyping ==
    /\ \A n \in Nat :
          NothingSeen \in SeenRow(n)
    /\ NothingSeen.sale.version = 0 /\ NothingSeen.rows = 0
BY DEF NothingSeen, SaleRow, SeenRow

LEMMA InitInv == Init => Inv
<1> SUFFICES ASSUME Init PROVE Inv
  OBVIOUS
<1>1. TypeOK
  <2>1. sales \in [Sale -> SaleRow] /\ \A s \in Sale : sales[s].status = "NONE" <=> sales[s].invoice = "NONE"
    BY DEF Init, SaleRow
  <2>2. /\ rows \in [Sale -> PaymentRows] /\ refunds \in [Sale -> Nat]
        /\ stock \in [Sale -> Nat] /\ ends \in [Sale -> Nat]
    BY DEF Init
  <2>3. /\ sessions \in Seq(SessionRow) /\ drawer \in Seq([in: Int, out: Nat])
        /\ Len(drawer) = Len(sessions) /\ 0 \in 0..Len(sessions)
    BY DEF Init
  <2>4. customer \in [balance: Int, version: Nat]
    BY DEF Init
  <2>8. reported \in BOOLEAN
    BY Zenon DEF Init
  <2>7. todo \in [Request -> Nat]
    BY RequestAssumption DEF Init
  <2>5. /\ pc \in [Worker -> {"idle", "read", "report", "session", "customer", "sum", "commit"}]
        /\ job \in [Worker -> Request \cup {NoRequest}] /\ attempt \in [Worker -> 1..Attempts]
        /\ \A w \in Worker : pc[w] = "idle" <=> job[w] = NoRequest
    BY ValueAssumption DEF Init
  <2>6. saw \in [Worker -> SeenRow(Len(sessions))]
    BY <2>3, NothingSeenTyping DEF Init
  <2> QED
    BY <2>1, <2>2, <2>3, <2>4, <2>5, <2>6, <2>7, <2>8 DEF TypeOK
<1>2. SalesMadeOnce
  BY RequestAssumption, ValueAssumption DEF Init, SalesMadeOnce, Sold
<1>3. AtOwnStep /\ VersionsCountEnds /\ SeenVersions /\ SeenSums
  BY DEF Init, AtOwnStep, VersionsCountEnds, SeenVersions, SeenSums
<1>4. RefundedInFull /\ PaidInvoiceCovered
  BY DEF Init, RefundedInFull, PaidInvoiceCovered
<1> QED
  BY <1>1, <1>2, <1>3, <1>4 DEF Inv

-----------------------------------------------------------------------------
(* A step that leaves the till and the unsent requests alone: reads and     *)
(* throws.                                                                  *)

\* The row conjuncts of the invariant hold as before.
LEMMA TillKept ==
    ASSUME Inv, UNCHANGED <<till, todo>>
    PROVE  VersionsCountEnds' /\ RefundedInFull' /\ PaidInvoiceCovered'
BY DEF Inv, till, VersionsCountEnds, RefundedInFull, PaidInvoiceCovered, Added

\* What a read may change: the step of the worker and what it has seen.
LEMMA ReadKeeps ==
    ASSUME Inv, NEW w \in Worker, NEW step, NEW new \in SeenRow(Len(sessions)),
           pc[w] # "idle", UNCHANGED <<till, todo, job, attempt>>,
           pc' = [pc EXCEPT ![w] = step], saw' = [saw EXCEPT ![w] = new],
           step \in {"report", "session", "customer", "sum", "commit"},
           step = "report" => job[w].op = "PAY",
           step = "session" => job[w].op \notin {"VOID", "XVOID"},
           step = "customer" => job[w].op = "SALE",
           step = "sum" => job[w].op = "REFUND",
           step = "commit" /\ job[w].op \in {"PAY", "CLOSE"} => new.session # 0,
           job[w].op \in OnSale => Sold(job[w].sale),
           job[w].op = "REFUND" => job[w].amount > 0,
           job[w].op \in {"REFUND", "VOID"} => new.sale.version = 0,
           job[w].op = "PAY" => new.rows <= Added(job[w].sale),
           job[w].op = "REFUND" /\ step = "commit"
              => new.sum <= refunds[job[w].sale] + job[w].amount
    PROVE  Inv'
<1>1. TypeOK'
  BY JobTyping DEF Inv, TypeOK, till
<1>2. AtOwnStep'
  BY JobTyping, ZenonT(40) DEF Inv, TypeOK, AtOwnStep, till, Sold
<1>3. SalesMadeOnce'
  BY DEF Inv, SalesMadeOnce, till, Sold
<1>4. SeenVersions'
  BY DEF Inv, TypeOK, SeenVersions, till
<1>5. SeenSums'
  BY DEF Inv, TypeOK, SeenSums, till, Added
<1> QED
  BY <1>1, <1>2, <1>3, <1>4, <1>5, TillKept DEF Inv

\* A worker starts over, or ends, with nothing seen.
LEMMA ForgetKeeps ==
    ASSUME Inv, NEW w \in Worker, NEW step, NEW r, NEW n \in 1..Attempts,
           pc[w] # "idle", UNCHANGED <<till, todo>>,
           \/ step = "session" /\ r = job[w] /\ r.op = "SALE"
           \/ step = "idle" /\ r = NoRequest,
           pc' = [pc EXCEPT ![w] = step], job' = [job EXCEPT ![w] = r],
           attempt' = [attempt EXCEPT ![w] = n], saw' = [saw EXCEPT ![w] = NothingSeen]
    PROVE  Inv'
<1>0. job[w] \in Request /\ NoRequest \notin Request
  BY JobTyping, ValueAssumption DEF Inv
<1>1. TypeOK'
  <2>1. NothingSeen \in SeenRow(Len(sessions))
    BY NothingSeenTyping DEF Inv, TypeOK
  <2>2. saw' \in [Worker -> SeenRow(Len(sessions))]
    BY <2>1 DEF Inv, TypeOK
  <2>3. /\ pc' \in [Worker -> {"idle", "read", "report", "session", "customer", "sum", "commit"}]
        /\ job' \in [Worker -> Request \cup {NoRequest}]
        /\ attempt' \in [Worker -> 1..Attempts]
        /\ \A v \in Worker : pc'[v] = "idle" <=> job'[v] = NoRequest
    BY <1>0 DEF Inv, TypeOK
  <2> QED
    BY <2>2, <2>3 DEF Inv, TypeOK, till
<1>2. AtOwnStep'
  BY <1>0 DEF Inv, TypeOK, AtOwnStep, till, Sold, OnSale
<1>3. SalesMadeOnce'
  <2>1. \A v \in Worker : job'[v] \in Request => job[v] = job'[v]
    BY <1>0 DEF Inv, TypeOK
  <2>2. todo' = todo /\ sales' = sales
    BY DEF till
  <2> QED
    BY <2>1, <2>2 DEF Inv, SalesMadeOnce, Sold
<1>4. SeenVersions'
  BY NothingSeenTyping DEF Inv, TypeOK, SeenVersions
<1>5. SeenSums'
  BY NothingSeenTyping DEF Inv, TypeOK, SeenSums, till, Added
<1> QED
  BY <1>1, <1>2, <1>3, <1>4, <1>5, TillKept DEF Inv

LEMMA ThrowStep ==
    ASSUME Inv, NEW w \in Worker, pc[w] # "idle", Throw(w)
    PROVE  Inv'
<1>1. CASE job[w].op = "SALE" /\ attempt[w] < Attempts
  <2>1. attempt[w] + 1 \in 1..Attempts
    BY <1>1, ValueAssumption DEF Inv, TypeOK
  <2>2. job' = [job EXCEPT ![w] = job[w]]
    BY <1>1 DEF Inv, TypeOK, Throw
  <2> QED
    BY <1>1, <2>1, <2>2, ForgetKeeps DEF Throw, Goto
<1>2. CASE ~(job[w].op = "SALE" /\ attempt[w] < Attempts)
  <2>1. 1 \in 1..Attempts
    BY ValueAssumption
  <2> QED
    BY <1>2, <2>1, ForgetKeeps DEF Throw, Idle
<1> QED
  BY <1>1, <1>2

LEMMA SendStep ==
    ASSUME Inv, NEW w \in Worker, NEW q \in Request, Send(w, q)
    PROVE  Inv'
<1>0. q.op \in Op /\ q.sale \in Sale /\ NoRequest \notin Request
  BY RequestAssumption, ValueAssumption
<1>1. /\ First(q) \in {"read", "report", "session"}
      /\ First(q) = "read" => q.op \in OnSale
      /\ First(q) = "report" => q.op \in {"OPEN", "ZREPORT"}
      /\ First(q) = "session" => q.op \in {"SALE", "CLOSE"}
  BY <1>0 DEF First, Op, OnSale
<1>2. /\ pc[w] = "idle" /\ todo[q] > 0 /\ UNCHANGED <<till, attempt, saw>>
      /\ pc' = [pc EXCEPT ![w] = First(q)]
      /\ job' = [job EXCEPT ![w] = q]
      /\ todo' = [todo EXCEPT ![q] = @ - 1]
  BY DEF Send, Goto
<1> HIDE DEF First
<1>3. TypeOK'
  <2>1. todo' \in [Request -> Nat]
    BY <1>2 DEF Inv, TypeOK
  <2>2. /\ pc' \in [Worker -> {"idle", "read", "report", "session", "customer", "sum", "commit"}]
        /\ job' \in [Worker -> Request \cup {NoRequest}]
        /\ \A v \in Worker : pc'[v] = "idle" <=> job'[v] = NoRequest
    BY <1>0, <1>1, <1>2 DEF Inv, TypeOK
  <2> QED
    BY <1>2, <2>1, <2>2 DEF Inv, TypeOK, till
<1>4. AtOwnStep'
  BY <1>0, <1>1, <1>2, SMTT(30) DEF Inv, TypeOK, AtOwnStep, till, Sold, OnSale
<1>5. SalesMadeOnce'
  <2> SUFFICES ASSUME NEW r \in Request, r.op = "SALE"
               PROVE  /\ todo'[r] <= 1
                      /\ todo'[r] = 1 \/ Sold(r.sale) => \A v \in Worker : job'[v] # r
                      /\ Sold(r.sale) => todo'[r] = 0
                      /\ \A v, u \in Worker : job'[v] = r /\ job'[u] = r => v = u
    BY <1>2 DEF SalesMadeOnce, Sold, till
  <2>1. CASE r = q
    <3>1. todo[q] = 1 /\ todo'[q] = 0 /\ ~Sold(q.sale)
      BY <1>2, <2>1 DEF Inv, TypeOK, SalesMadeOnce
    <3>2. \A v \in Worker : job[v] # q
      BY <2>1, <3>1 DEF Inv, SalesMadeOnce
    <3> QED
      BY <1>2, <2>1, <3>1, <3>2 DEF Inv, TypeOK
  <2>2. CASE r # q
    <3>1. todo'[r] = todo[r] /\ \A v \in Worker : job'[v] = r => job[v] = r
      BY <1>2, <2>2 DEF Inv, TypeOK
    <3> QED
      BY <3>1 DEF Inv, SalesMadeOnce
  <2> QED
    BY <2>1, <2>2
<1>6. SeenVersions'
  BY <1>0, <1>1, <1>2 DEF Inv, TypeOK, SeenVersions, OnSale
<1>7. SeenSums'
  BY <1>0, <1>1, <1>2 DEF Inv, TypeOK, SeenSums, till, Added, OnSale
<1>8. VersionsCountEnds' /\ RefundedInFull' /\ PaidInvoiceCovered'
  BY <1>2 DEF Inv, till, VersionsCountEnds, RefundedInFull, PaidInvoiceCovered, Added
<1> QED
  BY <1>3, <1>4, <1>5, <1>6, <1>7, <1>8 DEF Inv

LEMMA ReadStep ==
    ASSUME Inv, NEW w \in Worker,
           ReadSale(w) \/ ReadReport(w) \/ ReadSession(w) \/ ReadCustomer(w) \/ Aggregate(w)
    PROVE  Inv'
<1>0. /\ pc[w] # "idle" /\ job[w] \in Request /\ job[w].sale \in Sale /\ job[w].amount \in Int
      /\ job[w].op \in Op
  <2>1. pc[w] # "idle"
    BY DEF ReadSale, ReadReport, ReadSession, ReadCustomer, Aggregate
  <2> QED
    BY <2>1, JobTyping DEF Inv
<1>1. saw[w] \in SeenRow(Len(sessions))
  BY DEF Inv, TypeOK
<1>2. /\ pc[w] # "read" /\ job[w].op \in OnSale => Sold(job[w].sale)
      /\ pc[w] # "read" /\ job[w].op = "REFUND" => job[w].amount > 0
      /\ pc[w] # "read" /\ job[w].op \in {"REFUND", "VOID"} => saw[w].sale.version = 0
      /\ pc[w] # "read" /\ job[w].op = "PAY" => saw[w].rows <= Added(job[w].sale)
  BY <1>0 DEF Inv, TypeOK, AtOwnStep, SeenVersions, SeenSums
<1>3. CASE ReadSale(w)
  <2> DEFINE new == [saw[w] EXCEPT !.sale = sales[job[w].sale], !.rows = RowSum(job[w].sale)]
  <2>1. pc[w] = "read" /\ job[w].op \in OnSale
    BY <1>3 DEF Inv, AtOwnStep, ReadSale
  <2>2. /\ sales[job[w].sale] \in SaleRow
        /\ RowSum(job[w].sale) \in Int /\ RowSum(job[w].sale) <= Added(job[w].sale)
    <3>1. sales[job[w].sale] \in SaleRow /\ rows[job[w].sale] \in PaymentRows
      BY <1>0, TillTyping
    <3> QED
      BY <3>1 DEF Added, RowSum
  <2>3. Sold(job[w].sale) /\ (job[w].op = "REFUND" => job[w].amount > 0)
    BY <1>3, <2>1 DEF ReadSale, SaleAllows, Sold, OnSale
  <2>4. job[w].op \in {"REFUND", "VOID"} => sales[job[w].sale].version = 0
    <3>1. job[w].op \in {"REFUND", "VOID"} => sales[job[w].sale].status = "COMPLETED"
      BY <1>3 DEF ReadSale, SaleAllows
    <3> QED
      BY <1>0, <3>1 DEF Inv, VersionsCountEnds
  <2>5. /\ new \in SeenRow(Len(sessions))
        /\ new.sale = sales[job[w].sale] /\ new.rows = RowSum(job[w].sale)
    BY <1>1, <2>2 DEF SeenRow
  <2>6. /\ After(w) \in {"report", "session", "commit"}
        /\ After(w) = "report" => job[w].op = "PAY"
        /\ After(w) = "session" => job[w].op = "REFUND"
        /\ After(w) = "commit" => job[w].op \in {"VOID", "XVOID"}
    BY <2>1 DEF OnSale, After
  <2>7. /\ saw' = [saw EXCEPT ![w] = new] /\ pc' = [pc EXCEPT ![w] = After(w)]
        /\ UNCHANGED <<till, todo, job, attempt>>
    BY <1>3 DEF ReadSale, Goto
  <2>8. new.rows <= Added(job[w].sale)
    BY <2>2, <2>5
  <2> HIDE DEF new
  <2> QED
    BY <1>0, <2>1, <2>3, <2>4, <2>5, <2>6, <2>7, <2>8, ReadKeeps
<1>4. CASE ReadReport(w)
  <2>1. job[w].op \in {"PAY", "OPEN", "ZREPORT"} /\ pc[w] = "report"
    BY <1>4 DEF Inv, AtOwnStep, ReadReport
  <2>2. After(w) = "session"
    BY <2>1 DEF After
  <2>3. /\ saw' = [saw EXCEPT ![w] = saw[w]] /\ pc' = [pc EXCEPT ![w] = "session"]
        /\ UNCHANGED <<till, todo, job, attempt>>
    BY <1>4, <2>2 DEF ReadReport, Goto, Inv, TypeOK
  <2> QED
    BY <1>0, <1>1, <1>2, <2>1, <2>3, ReadKeeps
<1>5. CASE ReadSession(w)
  <2>1. pc[w] = "session" /\ job[w].op \notin {"VOID", "XVOID"}
    BY <1>5 DEF Inv, AtOwnStep, ReadSession
  <2>2. PICK n \in 0..Len(sessions) :
            /\ SessionAllows(w, n)
            /\ saw' = [saw EXCEPT ![w] = [@ EXCEPT !.session = n,
                                                   !.sum = IF job[w].op = "CLOSE" THEN Balance(n) ELSE saw[w].sum]]
    BY <1>5 DEF ReadSession
  <2> DEFINE sum == IF job[w].op = "CLOSE" THEN Balance(n) ELSE saw[w].sum
  <2> DEFINE new == [saw[w] EXCEPT !.session = n, !.sum = sum]
  <2>3. job[w].op \in {"PAY", "CLOSE"} => n # 0
    BY <2>2 DEF SessionAllows
  <2>4. sum \in Int
    <3>1. CASE job[w].op = "CLOSE"
      <4>1. n \in 1..Len(sessions)
        BY <2>3, <3>1
      <4>2. n \in DOMAIN sessions /\ n \in DOMAIN drawer
        BY <4>1 DEF Inv, TypeOK
      <4>3. sessions[n] \in SessionRow
        BY <4>2, ElementOfSeq, <4>1 DEF Inv, TypeOK
      <4>4. drawer[n] \in [in: Int, out: Nat]
        BY <4>2, ElementOfSeq, <4>1 DEF Inv, TypeOK
      <4> QED
        BY <3>1, <4>3, <4>4 DEF SessionRow, Balance
    <3>2. CASE job[w].op # "CLOSE"
      BY <1>1, <3>2 DEF SeenRow
    <3> QED
      BY <3>1, <3>2
  <2>5. /\ saw' = [saw EXCEPT ![w] = new] /\ pc' = [pc EXCEPT ![w] = After(w)]
        /\ UNCHANGED <<till, todo, job, attempt>>
    <3>1. saw' = [saw EXCEPT ![w] = new]
      BY <2>2
    <3>2. pc' = [pc EXCEPT ![w] = After(w)] /\ UNCHANGED <<till, todo, job, attempt>>
      BY <1>5 DEF ReadSession, Goto
    <3> QED
      BY <3>1, <3>2
  <2>6. /\ After(w) \in {"sum", "customer", "commit"}
        /\ After(w) = "sum" => job[w].op = "REFUND"
        /\ After(w) = "customer" => job[w].op = "SALE"
        /\ After(w) = "commit" => job[w].op # "REFUND"
    BY <2>1 DEF After
  <2> HIDE DEF sum
  <2>7. /\ new \in SeenRow(Len(sessions))
        /\ new.session = n /\ new.sale = saw[w].sale /\ new.rows = saw[w].rows
    BY <1>1, <2>4 DEF SeenRow
  <2> HIDE DEF new
  <2> QED
    BY <1>0, <1>2, <2>1, <2>3, <2>5, <2>6, <2>7, ReadKeeps DEF OnSale
<1>6. CASE ReadCustomer(w)
  <2> DEFINE new == [saw[w] EXCEPT !.version = customer.version]
  <2>1. pc[w] = "customer" /\ job[w].op = "SALE" /\ customer.version \in Nat
    BY <1>6 DEF Inv, TypeOK, AtOwnStep, ReadCustomer
  <2>2. /\ saw' = [saw EXCEPT ![w] = new] /\ pc' = [pc EXCEPT ![w] = After(w)]
        /\ UNCHANGED <<till, todo, job, attempt>>
    BY <1>6 DEF ReadCustomer, Goto
  <2>3. After(w) = "commit"
    BY <2>1 DEF After
  <2>4. new \in SeenRow(Len(sessions))
    BY <1>1, <2>1 DEF SeenRow
  <2> HIDE DEF new
  <2> QED
    BY <1>0, <2>1, <2>2, <2>3, <2>4, ReadKeeps DEF OnSale
<1>7. CASE Aggregate(w)
  <2> DEFINE sum == refunds[job[w].sale] + job[w].amount
  <2> DEFINE new == [saw[w] EXCEPT !.sum = sum]
  <2>1. pc[w] = "sum" /\ job[w].op = "REFUND" /\ sum \in Int
    <3>1. pc[w] = "sum" /\ job[w].op = "REFUND"
      BY <1>7 DEF Inv, AtOwnStep, Aggregate
    <3>2. refunds[job[w].sale] \in Nat
      BY <1>0, TillTyping
    <3> QED
      BY <1>0, <3>1, <3>2
  <2>2. /\ saw' = [saw EXCEPT ![w] = new] /\ pc' = [pc EXCEPT ![w] = After(w)]
        /\ UNCHANGED <<till, todo, job, attempt>>
    BY <1>7 DEF Aggregate, Goto
  <2>3. After(w) = "commit"
    BY <2>1 DEF After
  <2>4. /\ new \in SeenRow(Len(sessions)) /\ new.sum <= sum
        /\ new.sale = saw[w].sale /\ new.rows = saw[w].rows
    BY <1>1, <2>1 DEF SeenRow
  <2> HIDE DEF new
  <2> QED
    BY <1>0, <1>2, <2>1, <2>2, <2>3, <2>4, ReadKeeps DEF OnSale
<1> QED
  BY <1>3, <1>4, <1>5, <1>6, <1>7

-----------------------------------------------------------------------------
(* The commits.                                                             *)

LEMMA CommitTyping ==
    ASSUME Inv, NEW w \in Worker, pc[w] = "commit"
    PROVE  /\ job[w] \in Request /\ job[w].op \in Op /\ job[w].sale \in Sale /\ job[w].amount \in Int
           /\ sales[job[w].sale] \in SaleRow
           /\ rows[job[w].sale].paid \in Nat /\ rows[job[w].sale].back \in Nat
           /\ saw[w] \in SeenRow(Len(sessions)) /\ Total[job[w].sale] \in Int
           /\ Len(sessions) \in Nat
           /\ job[w].op = "REFUND" => job[w].amount \in Nat
           /\ job[w].op \in OnSale => Sold(job[w].sale)
           /\ job[w].op \in {"PAY", "CLOSE"} => saw[w].session # 0
<1>1. /\ job[w] \in Request /\ job[w].op \in Op /\ job[w].sale \in Sale /\ job[w].amount \in Int
  BY JobTyping DEF Inv
<1>2. /\ sales[job[w].sale] \in SaleRow
      /\ rows[job[w].sale].paid \in Nat /\ rows[job[w].sale].back \in Nat
      /\ saw[w] \in SeenRow(Len(sessions)) /\ Len(sessions) \in Nat
  BY <1>1 DEF Inv, TypeOK
<1>3. Total[job[w].sale] \in Int
  BY <1>1, ValueAssumption
<1>4. /\ job[w].op \in OnSale => Sold(job[w].sale)
      /\ job[w].op \in {"PAY", "CLOSE"} => saw[w].session # 0
  BY DEF Inv, AtOwnStep
<1>5. job[w].op = "REFUND" => job[w].amount \in Nat
  BY <1>1 DEF Inv, AtOwnStep
<1> QED
  BY <1>1, <1>2, <1>3, <1>4, <1>5

\* A worker that commits is idle again, and what the others know stays true as
\* long as sales are not unsold and sums do not shrink.
LEMMA CommitKeeps ==
    ASSUME Inv, NEW w \in Worker, pc[w] = "commit", Idle(w), UNCHANGED todo,
           \A s \in Sale : /\ Sold(s) => sales'[s].status # "NONE"
                           /\ sales'[s].status # "NONE" =>
                                 Sold(s) \/ (job[w].op = "SALE" /\ job[w].sale = s)
                           /\ Added(s) <= rows'[s].paid + rows'[s].back
                           /\ refunds[s] <= refunds'[s],
           rows' \in [Sale -> PaymentRows], refunds' \in [Sale -> Nat]
    PROVE  AtOwnStep' /\ SalesMadeOnce' /\ SeenVersions' /\ SeenSums'
<1>1. /\ job[w] \in Request /\ NoRequest \notin Request
      /\ \A r \in Request : r.sale \in Sale /\ r.amount \in Int
      /\ \A v \in Worker : job[v] = NoRequest \/ (job[v].sale \in Sale /\ job[v].amount \in Int)
  <2>1. job[w] \in Request /\ NoRequest \notin Request
    BY CommitTyping, ValueAssumption
  <2>2. \A r \in Request : r.sale \in Sale /\ r.amount \in Int
    BY RequestAssumption
  <2>3. \A v \in Worker : job[v] \in Request \cup {NoRequest}
    BY DEF Inv, TypeOK
  <2> QED
    BY <2>1, <2>2, <2>3
<1>2. /\ pc' = [pc EXCEPT ![w] = "idle"] /\ job' = [job EXCEPT ![w] = NoRequest]
      /\ saw' = [saw EXCEPT ![w] = NothingSeen]
  BY DEF Idle
<1>3. /\ \A v \in Worker \ {w} : pc'[v] = pc[v] /\ job'[v] = job[v] /\ saw'[v] = saw[v]
      /\ pc'[w] = "idle" /\ job'[w] = NoRequest
  BY <1>2 DEF Inv, TypeOK
<1>4. AtOwnStep'
  <2> SUFFICES ASSUME NEW v \in Worker
               PROVE  /\ pc'[v] = "read" => job'[v].op \in OnSale
                      /\ pc'[v] = "report" => job'[v].op \in {"PAY", "OPEN", "ZREPORT"}
                      /\ pc'[v] = "session" => job'[v].op \notin {"VOID", "XVOID"}
                      /\ pc'[v] = "customer" => job'[v].op = "SALE"
                      /\ pc'[v] = "sum" => job'[v].op = "REFUND"
                      /\ pc'[v] = "commit" /\ job'[v].op \in {"PAY", "CLOSE"} => saw'[v].session # 0
                      /\ pc'[v] \notin {"idle", "read"} /\ job'[v].op \in OnSale
                            => sales'[job'[v].sale].status # "NONE"
                      /\ pc'[v] \notin {"idle", "read"} /\ job'[v].op = "REFUND"
                            => job'[v].amount > 0
    BY DEF AtOwnStep, Sold
  <2>1. CASE v = w
    BY <1>3, <2>1
  <2>2. CASE v # w
    <3>1. pc[v] # "idle" => job[v].sale \in Sale
      BY <1>1 DEF Inv, TypeOK
    <3> QED
      BY <1>3, <2>2, <3>1 DEF Inv, AtOwnStep
  <2> QED
    BY <2>1, <2>2
<1>5. SalesMadeOnce'
  <2> SUFFICES ASSUME NEW r \in Request, r.op = "SALE"
               PROVE  /\ todo[r] <= 1
                      /\ todo[r] = 1 \/ sales'[r.sale].status # "NONE"
                            => \A v \in Worker : job'[v] # r
                      /\ sales'[r.sale].status # "NONE" => todo[r] = 0
                      /\ \A v, u \in Worker : job'[v] = r /\ job'[u] = r => v = u
    BY DEF SalesMadeOnce, Sold
  <2>1. \A v \in Worker : job'[v] = r => v # w /\ job[v] = r
    BY <1>1, <1>3
  <2>2. CASE sales'[r.sale].status # "NONE" /\ ~Sold(r.sale)
    <3>1. job[w] = r
      BY <1>1, <2>2, RequestAssumption
    <3>2. todo[r] = 0
      BY <3>1 DEF Inv, TypeOK, SalesMadeOnce
    <3>3. \A v \in Worker : job'[v] # r
      BY <2>1, <3>1 DEF Inv, SalesMadeOnce
    <3> QED
      BY <3>2, <3>3
  <2>3. CASE ~(sales'[r.sale].status # "NONE" /\ ~Sold(r.sale))
    BY <2>1, <2>3 DEF Inv, SalesMadeOnce
  <2> QED
    BY <2>2, <2>3
<1>6. SeenVersions'
  BY <1>3 DEF Inv, SeenVersions
<1>7. SeenSums'
  <2> SUFFICES ASSUME NEW v \in Worker, job'[v] # NoRequest
               PROVE  /\ job[v].op = "PAY" /\ pc[v] # "read"
                            => saw[v].rows <= rows'[job[v].sale].paid + rows'[job[v].sale].back
                      /\ job[v].op = "REFUND" /\ pc[v] = "commit"
                            => saw[v].sum <= refunds'[job[v].sale] + job[v].amount
    BY <1>3 DEF SeenSums, Added
  <2>1. v # w /\ job[v] # NoRequest
    BY <1>3
  <2>2. /\ job[v].op = "PAY" /\ pc[v] # "read" => saw[v].rows <= Added(job[v].sale)
        /\ job[v].op = "REFUND" /\ pc[v] = "commit"
              => saw[v].sum <= refunds[job[v].sale] + job[v].amount
    BY <2>1 DEF Inv, SeenSums
  <2>3. /\ job[v].sale \in Sale /\ job[v].amount \in Int
        /\ saw[v].rows \in Int /\ saw[v].sum \in Int
        /\ Added(job[v].sale) \in Nat /\ refunds[job[v].sale] \in Nat
        /\ rows'[job[v].sale].paid + rows'[job[v].sale].back \in Nat
        /\ refunds'[job[v].sale] \in Nat
    <3>1. job[v].sale \in Sale /\ job[v].amount \in Int
      BY <1>1, <2>1
    <3>2. saw[v] \in SeenRow(Len(sessions))
      BY DEF Inv, TypeOK
    <3>3. saw[v].rows \in Int /\ saw[v].sum \in Int
      BY <3>2 DEF SeenRow
    <3>4. Added(job[v].sale) \in Nat /\ refunds[job[v].sale] \in Nat
      <4>1. rows \in [Sale -> PaymentRows] /\ refunds \in [Sale -> Nat]
        BY TillTyping
      <4>2. Added(job[v].sale) = rows[job[v].sale].paid + rows[job[v].sale].back
        BY DEF Added
      <4>3. /\ rows[job[v].sale].paid \in Nat /\ rows[job[v].sale].back \in Nat
            /\ refunds[job[v].sale] \in Nat
        BY <3>1, <4>1
      <4> QED
        BY <4>2, <4>3
    <3>5. /\ rows'[job[v].sale].paid + rows'[job[v].sale].back \in Nat
          /\ refunds'[job[v].sale] \in Nat
      BY <3>1
    <3> QED
      BY <3>1, <3>3, <3>4, <3>5
  <2> HIDE DEF Added
  <2> QED
    BY <2>2, <2>3
<1> QED
  BY <1>4, <1>5, <1>6, <1>7

\* The typing of the workers after a commit.
LEMMA CommitIdles ==
    ASSUME Inv, NEW w \in Worker, Idle(w),
           Len(sessions) \in Nat, Len(sessions') \in Nat, Len(sessions) <= Len(sessions')
    PROVE  /\ pc' \in [Worker -> {"idle", "read", "report", "session", "customer", "sum", "commit"}]
           /\ job' \in [Worker -> Request \cup {NoRequest}]
           /\ attempt' \in [Worker -> 1..Attempts]
           /\ saw' \in [Worker -> SeenRow(Len(sessions'))]
           /\ \A v \in Worker : pc'[v] = "idle" <=> job'[v] = NoRequest
<1>1. NothingSeen \in SeenRow(Len(sessions'))
  BY NothingSeenTyping
<1>2. \A v \in Worker : saw[v] \in SeenRow(Len(sessions'))
  BY DEF Inv, TypeOK, SeenRow
<1>3. 1 \in 1..Attempts
  BY ValueAssumption
<1> QED
  BY <1>1, <1>2, <1>3 DEF Inv, TypeOK, Idle

LEMMA CommitTypes ==
    ASSUME Inv, NEW w \in Worker, Idle(w), UNCHANGED todo,
           sales' \in [Sale -> SaleRow], rows' \in [Sale -> PaymentRows],
           refunds' \in [Sale -> Nat], stock' \in [Sale -> Nat], ends' \in [Sale -> Nat],
           sessions' \in Seq(SessionRow), drawer' \in Seq([in: Int, out: Nat]),
           Len(drawer') = Len(sessions'), Len(sessions) <= Len(sessions'),
           reported' \in BOOLEAN, customer' \in [balance: Int, version: Nat],
           \A s \in Sale : sales'[s].status = "NONE" <=> sales'[s].invoice = "NONE"
    PROVE  TypeOK'
<1>1. Len(sessions) \in Nat /\ Len(sessions') \in Nat
  BY DEF Inv, TypeOK
<1>2. /\ pc' \in [Worker -> {"idle", "read", "report", "session", "customer", "sum", "commit"}]
      /\ job' \in [Worker -> Request \cup {NoRequest}] /\ attempt' \in [Worker -> 1..Attempts]
      /\ saw' \in [Worker -> SeenRow(Len(sessions'))]
      /\ \A v \in Worker : pc'[v] = "idle" <=> job'[v] = NoRequest
  BY <1>1, CommitIdles
<1> QED
  BY <1>2 DEF Inv, TypeOK

LEMMA DrawerRow ==
    ASSUME NEW d \in Seq([in: Int, out: Nat]), NEW n \in 1..Len(d)
    PROVE  d[n].in \in Int /\ d[n].out \in Nat
<1>1. d[n] \in [in: Int, out: Nat]
  BY ElementOfSeq
<1> QED
  BY <1>1

\* What a payment does to the sums of the rows, of whatever sign it is.
LEMMA PaymentCounts ==
    ASSUME NEW r \in PaymentRows, NEW a \in Int
    PROVE  /\ WithPayment(r, a) \in PaymentRows
           /\ WithPayment(r, a).paid - WithPayment(r, a).less = r.paid - r.less + a
           /\ WithPayment(r, a).paid + WithPayment(r, a).back >= r.paid + r.back + a
           /\ WithPayment(r, a).paid + WithPayment(r, a).back >= r.paid + r.back
<1>1. r.paid \in Nat /\ r.less \in Nat /\ r.back \in Nat /\ r.count \in Nat
  OBVIOUS
<1>2. CASE a > 0
  BY <1>1, <1>2 DEF WithPayment
<1>3. CASE a < 0
  BY <1>1, <1>3 DEF WithPayment
<1>4. CASE a = 0
  BY <1>1, <1>4 DEF WithPayment
<1> QED
  BY <1>2, <1>3, <1>4

LEMMA DrawerTyping ==
    ASSUME NEW d \in Seq([in: Int, out: Nat]), NEW n \in 1..Len(d), NEW i \in Int, NEW o \in Nat
    PROVE  /\ d[n].in \in Int /\ d[n].out \in Nat
           /\ [d EXCEPT ![n] = [in |-> i, out |-> o]] \in Seq([in: Int, out: Nat])
           /\ Len([d EXCEPT ![n] = [in |-> i, out |-> o]]) = Len(d)
<1>1. d[n] \in [in: Int, out: Nat]
  BY ElementOfSeq
<1>2. [in |-> i, out |-> o] \in [in: Int, out: Nat]
  OBVIOUS
<1> QED
  BY <1>1, <1>2, ExceptSeq

LEMMA CountTyping ==
    ASSUME NEW f \in [Sale -> Nat], NEW s \in Sale, NEW v \in Nat
    PROVE  [f EXCEPT ![s] = v] \in [Sale -> Nat]
OBVIOUS

LEMMA CommitSaleStep ==
    ASSUME Inv, NEW w \in Worker, CommitSale(w)
    PROVE  Inv'
<1> DEFINE s == job[w].sale
<1> DEFINE made == [status |-> "COMPLETED", version |-> 0, invoice |-> "UNPAID"]
<1>0. /\ pc[w] = "commit" /\ job[w].op = "SALE" /\ Idle(w)
      /\ sales' = [sales EXCEPT ![s] = made]
      /\ customer' = Debited(customer, s)
      /\ UNCHANGED <<rows, refunds, stock, ends, sessions, drawer, reported, todo>>
  BY DEF CommitSale, Is
<1>1. s \in Sale /\ Total[s] \in Int /\ job[w] \in Request /\ Len(sessions) \in Nat
  BY <1>0, CommitTyping
<1>2. ~Sold(s)
  BY <1>0, <1>1 DEF Inv, SalesMadeOnce
<1> HIDE DEF s
<1>3. TypeOK'
  <2>1. sales' \in [Sale -> SaleRow] /\ \A t \in Sale : sales'[t].status = "NONE" <=> sales'[t].invoice = "NONE"
    BY <1>0, <1>1 DEF Inv, TypeOK, SaleRow
  <2>2. customer' \in [balance: Int, version: Nat]
    <3>1. /\ customer \in [balance: Int, version: Nat]
          /\ customer' = customer
             \/ customer' = [balance |-> customer.balance + Total[s], version |-> customer.version + 1]
      BY <1>0, TillTyping DEF Debited
    <3> QED
      BY <1>1, <3>1
  <2>3. /\ rows' \in [Sale -> PaymentRows] /\ refunds' \in [Sale -> Nat]
        /\ stock' \in [Sale -> Nat] /\ ends' \in [Sale -> Nat]
        /\ sessions' \in Seq(SessionRow) /\ drawer' \in Seq([in: Int, out: Nat])
        /\ Len(drawer') = Len(sessions') /\ Len(sessions) <= Len(sessions')
    BY <1>0, <1>1 DEF Inv, TypeOK
  <2>4. reported' \in BOOLEAN
    BY <1>0 DEF Inv, TypeOK
  <2> QED
    BY <1>0, <2>1, <2>2, <2>3, <2>4, CommitTypes
<1>4. AtOwnStep' /\ SalesMadeOnce' /\ SeenVersions' /\ SeenSums'
  <2>1. \A t \in Sale : /\ Sold(t) => sales'[t].status # "NONE"
                        /\ sales'[t].status # "NONE" => Sold(t) \/ s = t
                        /\ Added(t) <= rows'[t].paid + rows'[t].back
                        /\ refunds[t] <= refunds'[t]
    BY <1>0, <1>1, SMTT(30) DEF Inv, TypeOK, Sold, Added
  <2>2. rows' \in [Sale -> PaymentRows] /\ refunds' \in [Sale -> Nat]
    BY <1>0 DEF Inv, TypeOK
  <2> QED
    BY <1>0, <2>1, <2>2, CommitKeeps DEF s
<1>5. VersionsCountEnds' /\ RefundedInFull' /\ PaidInvoiceCovered'
  BY <1>0, <1>1, <1>2 DEF Inv, TypeOK, VersionsCountEnds, RefundedInFull, PaidInvoiceCovered,
                          Sold, Added
<1> QED
  BY <1>3, <1>4, <1>5 DEF Inv

LEMMA CommitPayStep ==
    ASSUME Inv, NEW w \in Worker, CommitPay(w)
    PROVE  Inv'
<1> DEFINE s == job[w].sale
<1> DEFINE a == job[w].amount
<1> DEFINE n == saw[w].session
<1> DEFINE more == WithPayment(rows[s], a)
<1> DEFINE settled == [status |-> sales[s].status, version |-> sales[s].version, invoice |-> "PAID"]
<1>0. /\ pc[w] = "commit" /\ job[w].op = "PAY" /\ Idle(w)
      /\ rows' = [rows EXCEPT ![s] = more]
      /\ drawer' = IF job[w].cash
                   THEN [drawer EXCEPT ![n] = [in |-> drawer[n].in + a, out |-> drawer[n].out]]
                   ELSE drawer
      /\ sales' = IF Settles(w) THEN [sales EXCEPT ![s] = settled] ELSE sales
      /\ customer' = IF s \in OnAccount
                     THEN [balance |-> customer.balance - a, version |-> customer.version]
                     ELSE customer
      /\ UNCHANGED <<refunds, stock, ends, sessions, reported, todo>>
  BY DEF CommitPay, Is
<1>1. /\ s \in Sale /\ a \in Int /\ Total[s] \in Int /\ Len(sessions) \in Nat /\ sales[s] \in SaleRow
      /\ rows[s] \in PaymentRows /\ saw[w] \in SeenRow(Len(sessions))
      /\ Sold(s) /\ n # 0 /\ job[w] # NoRequest
  BY <1>0, CommitTyping, TillTyping, ValueAssumption DEF OnSale
<1>2. n \in 1..Len(sessions) /\ saw[w].rows \in Int
  BY <1>1 DEF SeenRow
<1>3. saw[w].rows <= Added(s)
  BY <1>0, <1>1 DEF Inv, SeenSums
<1>4. Settles(w) => saw[w].rows + a >= Total[s]
  BY DEF Settles
<1>5. settled \in SaleRow /\ settled.status # "NONE" /\ settled.invoice # "NONE"
  BY <1>1 DEF SaleRow, Sold
<1>6. /\ more \in PaymentRows
      /\ more.paid + more.back >= Added(s) + a /\ more.paid + more.back >= Added(s)
      /\ Added(s) \in Nat
  <2>1. rows[s].paid + rows[s].back \in Nat
    BY <1>1
  <2> QED
    BY <1>1, <2>1, PaymentCounts DEF Added
<1>7. \A t \in Sale : rows[t].paid + rows[t].back \in Nat
  BY DEF Inv, TypeOK
<1> HIDE DEF s, a, n, more
<1>8. TypeOK'
  <2>1. sales' \in [Sale -> SaleRow] /\ \A t \in Sale : sales'[t].status = "NONE" <=> sales'[t].invoice = "NONE"
    <3> HIDE DEF settled
    <3>1. CASE Settles(w)
      BY <1>0, <1>1, <1>5, <3>1 DEF Inv, TypeOK
    <3>2. CASE ~Settles(w)
      BY <1>0, <3>2 DEF Inv, TypeOK
    <3> QED
      BY <3>1, <3>2
  <2>2. customer' \in [balance: Int, version: Nat]
    BY <1>0, <1>1 DEF Inv, TypeOK
  <2>3. drawer' \in Seq([in: Int, out: Nat]) /\ Len(drawer') = Len(drawer)
    <3>1. n \in 1..Len(drawer) /\ drawer \in Seq([in: Int, out: Nat])
      BY <1>2 DEF Inv, TypeOK
    <3>2. drawer[n].in \in Int /\ drawer[n].out \in Nat
      BY <3>1, DrawerRow
    <3>3. drawer[n].in + a \in Int
      BY <1>1, <3>2
    <3> QED
      <4>1. /\ [drawer EXCEPT ![n] = [in |-> drawer[n].in + a, out |-> drawer[n].out]]
                  \in Seq([in: Int, out: Nat])
            /\ Len([drawer EXCEPT ![n] = [in |-> drawer[n].in + a, out |-> drawer[n].out]])
                  = Len(drawer)
        BY <3>1, <3>2, <3>3, DrawerTyping
      <4> QED
        BY <1>0, <3>1, <4>1
  <2>4. rows' \in [Sale -> PaymentRows]
    BY <1>0, <1>1, <1>6 DEF Inv, TypeOK
  <2>5. /\ refunds' \in [Sale -> Nat] /\ stock' \in [Sale -> Nat] /\ ends' \in [Sale -> Nat]
        /\ sessions' \in Seq(SessionRow)
        /\ Len(drawer) = Len(sessions') /\ Len(sessions) <= Len(sessions')
    BY <1>0, TillTyping
  <2>6. reported' \in BOOLEAN
    BY <1>0 DEF Inv, TypeOK
  <2> QED
    BY <1>0, <2>1, <2>2, <2>3, <2>4, <2>5, <2>6, CommitTypes
<1>9. \A t \in Sale : /\ sales'[t].status = sales[t].status
                      /\ sales'[t].version = sales[t].version
                      /\ Added(t) <= rows'[t].paid + rows'[t].back
  <2>1. \A t \in Sale : sales'[t].status = sales[t].status /\ sales'[t].version = sales[t].version
    <3>1. settled.status = sales[s].status /\ settled.version = sales[s].version
      OBVIOUS
    <3> HIDE DEF settled
    <3>2. CASE Settles(w)
      <4>1. sales \in [Sale -> SaleRow]
        BY DEF Inv, TypeOK
      <4>2. sales' = [sales EXCEPT ![s] = settled]
        BY <1>0, <3>2
      <4> QED
        BY <3>1, <4>1, <4>2
    <3>3. CASE ~Settles(w)
      BY <1>0, <3>3
    <3> QED
      BY <3>2, <3>3
  <2>2. \A t \in Sale : Added(t) <= rows'[t].paid + rows'[t].back
    <3> SUFFICES ASSUME NEW t \in Sale PROVE Added(t) <= rows'[t].paid + rows'[t].back
      OBVIOUS
    <3>1. CASE t = s
      <4>1. rows'[t] = more
        BY <1>0, <3>1 DEF Inv, TypeOK
      <4> QED
        BY <1>1, <1>6, <3>1, <4>1
    <3>2. CASE t # s
      <4>1. rows'[t] = rows[t]
        BY <1>0, <3>2 DEF Inv, TypeOK
      <4> QED
        BY <1>7, <4>1 DEF Added
    <3> QED
      BY <3>1, <3>2
  <2> QED
    BY <2>1, <2>2
<1>10. AtOwnStep' /\ SalesMadeOnce' /\ SeenVersions' /\ SeenSums'
  <2>1. /\ rows' \in [Sale -> PaymentRows] /\ refunds' \in [Sale -> Nat]
        /\ \A t \in Sale : refunds[t] <= refunds'[t]
    BY <1>0, <1>8 DEF Inv, TypeOK
  <2> QED
    BY <1>0, <1>9, <2>1, CommitKeeps DEF Sold
<1>11. VersionsCountEnds' /\ RefundedInFull'
  BY <1>0, <1>9 DEF Inv, VersionsCountEnds, RefundedInFull
<1>12. PaidInvoiceCovered'
  <2> SUFFICES ASSUME NEW t \in Sale, sales'[t].invoice = "PAID"
               PROVE  rows'[t].paid + rows'[t].back >= Total[t]
    BY DEF PaidInvoiceCovered, Added
  <2>1. CASE t = s /\ Settles(w)
    <3>1. rows'[s] = more
      BY <1>0, <1>1 DEF Inv, TypeOK
    <3> QED
      BY <1>1, <1>2, <1>3, <1>4, <1>6, <2>1, <3>1, SMTT(30)
  <2>2. CASE ~(t = s /\ Settles(w))
    <3>1. sales[t].invoice = "PAID"
      BY <1>0, <1>1, <2>2 DEF Inv, TypeOK
    <3>2. Added(t) >= Total[t] /\ Total[t] \in Int
      BY <3>1, ValueAssumption DEF Inv, PaidInvoiceCovered
    <3>3. Added(t) \in Nat /\ rows'[t].paid + rows'[t].back \in Nat
      BY <1>7, <1>8 DEF TypeOK, Added
    <3> QED
      BY <1>9, <3>2, <3>3
  <2> QED
    BY <2>1, <2>2
<1> QED
  BY <1>8, <1>10, <1>11, <1>12 DEF Inv

LEMMA CommitRefundStep ==
    ASSUME Inv, NEW w \in Worker, CommitRefund(w)
    PROVE  Inv'
<1> DEFINE s == job[w].sale
<1> DEFINE a == job[w].amount
<1> DEFINE n == saw[w].session
<1> DEFINE more == [paid |-> rows[s].paid, less |-> rows[s].less, back |-> rows[s].back + a,
                    count |-> rows[s].count + 1]
<1> DEFINE ended == [status |-> "REFUNDED", version |-> sales[s].version + 1, invoice |-> sales[s].invoice]
<1>0. /\ pc[w] = "commit" /\ job[w].op = "REFUND" /\ Idle(w)
      /\ InFull(w) => sales[s].version = saw[w].sale.version
      /\ refunds' = [refunds EXCEPT ![s] = refunds[s] + a]
      /\ rows' = IF n = 0 THEN rows ELSE [rows EXCEPT ![s] = more]
      /\ drawer' = IF n = 0 THEN drawer
                   ELSE [drawer EXCEPT ![n] = [in |-> drawer[n].in, out |-> drawer[n].out + a]]
      /\ sales' = IF InFull(w) THEN [sales EXCEPT ![s] = ended] ELSE sales
      /\ ends' = IF InFull(w) THEN [ends EXCEPT ![s] = ends[s] + 1] ELSE ends
      /\ UNCHANGED <<stock, sessions, reported, customer, todo>>
  BY DEF CommitRefund, Is, SaleUnchanged
<1>1. /\ s \in Sale /\ a \in Nat /\ Total[s] \in Int /\ Len(sessions) \in Nat /\ sales[s] \in SaleRow
      /\ saw[w] \in SeenRow(Len(sessions))
      /\ Sold(s) /\ job[w] # NoRequest
  BY <1>0, CommitTyping, TillTyping, ValueAssumption DEF OnSale
<1>2. n \in 0..Len(sessions) /\ saw[w].sum \in Int /\ refunds[s] \in Nat /\ ends[s] \in Nat
  BY <1>1 DEF SeenRow, Inv, TypeOK
<1>3. saw[w].sum <= refunds[s] + a /\ saw[w].sale.version = 0
  BY <1>0, <1>1 DEF Inv, SeenSums, SeenVersions
<1>4. InFull(w) => saw[w].sum >= Total[s]
  BY DEF InFull
<1>5. /\ ended \in SaleRow /\ ended.status = "REFUNDED" /\ ended.invoice = sales[s].invoice
      /\ ended.version = sales[s].version + 1 /\ sales[s].invoice # "NONE"
  <2>1. sales[s].invoice # "NONE"
    BY <1>1, TillTyping DEF Sold
  <2>2. sales[s].version \in Nat /\ sales[s].invoice \in {"NONE", "UNPAID", "PAID", "VOIDED"}
    BY <1>1 DEF SaleRow
  <2> HIDE DEF s
  <2> QED
    BY <2>1, <2>2 DEF SaleRow
<1>6. /\ more \in PaymentRows
      /\ more.paid + more.back = Added(s) + a /\ Added(s) \in Nat
  <2>1. /\ rows[s].paid \in Nat /\ rows[s].less \in Nat /\ rows[s].back \in Nat
        /\ rows[s].count \in Nat
    <3>1. rows[s] \in PaymentRows
      BY <1>1, TillTyping
    <3> QED
      BY <3>1
  <2>2. Added(s) = rows[s].paid + rows[s].back
    BY DEF Added
  <2>3. a \in Nat
    BY <1>1
  <2> HIDE DEF Added, s, a
  <2>4. more \in PaymentRows
    BY <2>1, <2>3
  <2>5. more.paid = rows[s].paid /\ more.back = rows[s].back + a
    OBVIOUS
  <2> HIDE DEF more
  <2> QED
    BY <2>1, <2>2, <2>3, <2>4, <2>5
<1>7. \A t \in Sale : rows[t].paid + rows[t].back \in Nat
  BY DEF Inv, TypeOK
<1> HIDE DEF s, a, n, more, ended
<1>8. /\ refunds' \in [Sale -> Nat] /\ refunds'[s] = refunds[s] + a
      /\ \A t \in Sale : refunds[t] <= refunds'[t]
  <2>1. refunds \in [Sale -> Nat] /\ refunds' = [refunds EXCEPT ![s] = refunds[s] + a]
    BY <1>0, TillTyping
  <2> QED
    BY <1>1, <1>2, <2>1
<1>9. \A t \in Sale : \/ t = s /\ InFull(w) /\ sales'[t] = ended /\ ends'[t] = ends[t] + 1
                      \/ ~(t = s /\ InFull(w)) /\ sales'[t] = sales[t] /\ ends'[t] = ends[t]
  <2>1. sales \in [Sale -> SaleRow] /\ ends \in [Sale -> Nat]
    BY DEF Inv, TypeOK
  <2>2. CASE InFull(w)
    <3>1. sales' = [sales EXCEPT ![s] = ended] /\ ends' = [ends EXCEPT ![s] = ends[s] + 1]
      BY <1>0, <2>2
    <3> QED
      BY <1>1, <2>1, <2>2, <3>1
  <2>3. CASE ~InFull(w)
    BY <1>0, <2>3
  <2> QED
    BY <2>2, <2>3
<1>10. TypeOK'
  <2>1. sales' \in [Sale -> SaleRow] /\ \A t \in Sale : sales'[t].status = "NONE" <=> sales'[t].invoice = "NONE"
    <3>1. sales' \in [Sale -> SaleRow]
      BY <1>0, <1>5 DEF Inv, TypeOK
    <3>2. \A t \in Sale : sales'[t].status = "NONE" <=> sales'[t].invoice = "NONE"
      BY <1>5, <1>9, ZenonT(40) DEF Inv, TypeOK
    <3> QED
      BY <3>1, <3>2
  <2>2. drawer' \in Seq([in: Int, out: Nat]) /\ Len(drawer') = Len(drawer)
    <3>1. CASE n = 0
      BY <1>0, <3>1 DEF Inv, TypeOK
    <3>2. CASE n # 0
      <4>1. n \in 1..Len(drawer) /\ drawer \in Seq([in: Int, out: Nat])
        BY <1>2, <3>2 DEF Inv, TypeOK
      <4>2. drawer[n].in \in Int /\ drawer[n].out \in Nat
        BY <4>1, DrawerRow
      <4>3. drawer[n].out + a \in Nat
        BY <1>1, <4>2
      <4>4. /\ [drawer EXCEPT ![n] = [in |-> drawer[n].in, out |-> drawer[n].out + a]]
                  \in Seq([in: Int, out: Nat])
            /\ Len([drawer EXCEPT ![n] = [in |-> drawer[n].in, out |-> drawer[n].out + a]])
                  = Len(drawer)
        BY <4>1, <4>2, <4>3, DrawerTyping
      <4> QED
        BY <1>0, <3>2, <4>4
    <3> QED
      BY <3>1, <3>2
  <2>3. rows' \in [Sale -> PaymentRows]
    <3>1. rows \in [Sale -> PaymentRows]
      BY DEF Inv, TypeOK
    <3>2. CASE n = 0
      BY <1>0, <3>1, <3>2
    <3>3. CASE n # 0
      BY <1>0, <1>6, <3>1, <3>3
    <3> QED
      BY <3>2, <3>3
  <2>4. ends' \in [Sale -> Nat]
    <3>1. ends \in [Sale -> Nat]
      BY TillTyping
    <3>2. CASE InFull(w)
      <4>1. ends' = [ends EXCEPT ![s] = ends[s] + 1]
        BY <1>0, <3>2
      <4> QED
        BY <1>1, <1>2, <3>1, <4>1, CountTyping
    <3>3. CASE ~InFull(w)
      BY <1>0, <3>1, <3>3
    <3> QED
      BY <3>2, <3>3
  <2>5. /\ stock' \in [Sale -> Nat] /\ sessions' \in Seq(SessionRow)
        /\ Len(drawer) = Len(sessions') /\ Len(sessions) <= Len(sessions')
        /\ customer' \in [balance: Int, version: Nat]
    BY <1>0, TillTyping
  <2>6. reported' \in BOOLEAN
    BY <1>0 DEF Inv, TypeOK
  <2> QED
    BY <1>0, <1>8, <2>1, <2>2, <2>3, <2>4, <2>5, <2>6, CommitTypes
<1>11. rows' \in [Sale -> PaymentRows]
  BY <1>10 DEF TypeOK
<1>12. \A t \in Sale : Added(t) <= rows'[t].paid + rows'[t].back
  <2> SUFFICES ASSUME NEW t \in Sale PROVE Added(t) <= rows'[t].paid + rows'[t].back
    OBVIOUS
  <2>1. CASE t = s /\ n # 0
    <3>1. rows'[t] = more
      BY <1>0, <2>1 DEF Inv, TypeOK
    <3> QED
      BY <1>1, <1>6, <2>1, <3>1
  <2>2. CASE ~(t = s /\ n # 0)
    <3>1. rows'[t] = rows[t]
      BY <1>0, <2>2 DEF Inv, TypeOK
    <3> QED
      BY <1>7, <3>1 DEF Added
  <2> QED
    BY <2>1, <2>2
<1>13. AtOwnStep' /\ SalesMadeOnce' /\ SeenVersions' /\ SeenSums'
  <2>1. \A t \in Sale : sales'[t].status # "NONE" <=> Sold(t)
    BY <1>1, <1>5, <1>9 DEF Sold
  <2> QED
    BY <1>0, <1>8, <1>11, <1>12, <2>1, CommitKeeps
<1>14. VersionsCountEnds'
  <2>1. InFull(w) => ends[s] = 0 /\ sales[s].version = 0
    BY <1>0, <1>1, <1>3 DEF Inv, VersionsCountEnds
  <2> QED
    BY <1>1, <1>5, <1>9, <2>1 DEF Inv, VersionsCountEnds
<1>15. RefundedInFull'
  <2> SUFFICES ASSUME NEW t \in Sale, sales'[t].status = "REFUNDED" PROVE refunds'[t] >= Total[t]
    BY DEF RefundedInFull
  <2>1. CASE t = s /\ InFull(w)
    BY <1>1, <1>2, <1>3, <1>4, <1>8, <2>1
  <2>2. CASE ~(t = s /\ InFull(w))
    <3>1. refunds[t] >= Total[t]
      BY <1>9, <2>2 DEF Inv, RefundedInFull
    <3>2. refunds[t] \in Nat /\ refunds'[t] \in Nat /\ Total[t] \in Int
      BY <1>8, ValueAssumption DEF Inv, TypeOK
    <3> QED
      BY <1>8, <3>1, <3>2
  <2> QED
    BY <2>1, <2>2
<1>16. PaidInvoiceCovered'
  <2> SUFFICES ASSUME NEW t \in Sale, sales'[t].invoice = "PAID"
               PROVE  rows'[t].paid + rows'[t].back >= Total[t]
    BY DEF PaidInvoiceCovered, Added
  <2>1. sales[t].invoice = "PAID"
    BY <1>5, <1>9
  <2>2. Added(t) >= Total[t] /\ Total[t] \in Int
    BY <2>1, ValueAssumption DEF Inv, PaidInvoiceCovered
  <2>3. Added(t) \in Nat /\ rows'[t].paid + rows'[t].back \in Nat
    BY <1>7, <1>11 DEF Added
  <2> QED
    BY <1>12, <2>2, <2>3
<1> QED
  BY <1>10, <1>13, <1>14, <1>15, <1>16 DEF Inv
\* A void: the sale keeps or raises its version with `ends`, no row shrinks.
LEMMA VoidKeeps ==
    ASSUME Inv, NEW w \in Worker, pc[w] = "commit", job[w].op \in {"VOID", "XVOID"}, Idle(w),
           NEW v \in 0..1,
           sales' = [sales EXCEPT ![job[w].sale] =
                       [status |-> "VOIDED", version |-> v, invoice |-> "VOIDED"]],
           stock' = [stock EXCEPT ![job[w].sale] = @ + 1],
           ends' = [ends EXCEPT ![job[w].sale] = v],
           UNCHANGED <<rows, refunds, sessions, drawer, reported, customer, todo>>
    PROVE  Inv'
<1> DEFINE s == job[w].sale
<1> DEFINE voided == [status |-> "VOIDED", version |-> v, invoice |-> "VOIDED"]
<1>1. s \in Sale /\ Sold(s) /\ sales' = [sales EXCEPT ![s] = voided] /\ ends' = [ends EXCEPT ![s] = v]
  BY CommitTyping DEF OnSale
<1>2. /\ voided \in SaleRow /\ voided.status = "VOIDED" /\ voided.invoice = "VOIDED"
      /\ voided.version = v
  BY DEF SaleRow
<1>3. stock' \in [Sale -> Nat]
  <2>1. stock \in [Sale -> Nat] /\ stock' = [stock EXCEPT ![s] = stock[s] + 1]
    BY TillTyping
  <2> QED
    BY <1>1, <2>1
<1> HIDE DEF s, voided
<1>4. \A t \in Sale : \/ t = s /\ sales'[t] = voided /\ ends'[t] = v
                      \/ t # s /\ sales'[t] = sales[t] /\ ends'[t] = ends[t]
  BY <1>1, TillTyping
<1>5. TypeOK'
  <2>1. sales' \in [Sale -> SaleRow] /\ ends' \in [Sale -> Nat]
    <3>1. sales \in [Sale -> SaleRow] /\ ends \in [Sale -> Nat]
      BY TillTyping
    <3>2. sales' \in [Sale -> SaleRow]
      BY <1>1, <1>2, <3>1
    <3>3. ends' \in [Sale -> Nat]
      <4>1. v \in Nat
        OBVIOUS
      <4> QED
        BY <1>1, <3>1, <4>1, CountTyping
    <3> QED
      BY <3>2, <3>3
  <2>2. \A t \in Sale : sales'[t].status = "NONE" <=> sales'[t].invoice = "NONE"
    BY <1>2, <1>4, TillTyping
  <2>3. /\ rows' \in [Sale -> PaymentRows] /\ refunds' \in [Sale -> Nat]
        /\ sessions' \in Seq(SessionRow) /\ drawer' \in Seq([in: Int, out: Nat])
        /\ Len(drawer') = Len(sessions') /\ Len(sessions) <= Len(sessions')
        /\ customer' \in [balance: Int, version: Nat]
    BY TillTyping
  <2>4. reported' \in BOOLEAN
    BY TillTyping
  <2> QED
    BY <1>3, <2>1, <2>2, <2>3, <2>4, CommitTypes
<1>6. AtOwnStep' /\ SalesMadeOnce' /\ SeenVersions' /\ SeenSums'
  <2>1. \A t \in Sale : sales'[t].status # "NONE" <=> Sold(t)
    BY <1>1, <1>2, <1>4 DEF Sold
  <2>2. rows' \in [Sale -> PaymentRows] /\ refunds' \in [Sale -> Nat]
    BY TillTyping
  <2>3. \A t \in Sale : Added(t) <= rows'[t].paid + rows'[t].back /\ refunds[t] <= refunds'[t]
    BY TillTyping DEF Added
  <2> QED
    BY <2>1, <2>2, <2>3, CommitKeeps
<1>7. VersionsCountEnds'
  BY <1>2, <1>4 DEF Inv, VersionsCountEnds
<1>8. RefundedInFull' /\ PaidInvoiceCovered'
  BY <1>2, <1>4 DEF Inv, RefundedInFull, PaidInvoiceCovered, Added
<1> QED
  BY <1>5, <1>6, <1>7, <1>8 DEF Inv

LEMMA CommitVoidStep ==
    ASSUME Inv, NEW w \in Worker, CommitVoid(w)
    PROVE  Inv'
<1> DEFINE s == job[w].sale
<1>1. /\ pc[w] = "commit" /\ job[w].op = "VOID" /\ Idle(w)
      /\ sales[s].version = saw[w].sale.version
      /\ sales' = [sales EXCEPT ![s] =
                     [status |-> "VOIDED", version |-> sales[s].version + 1, invoice |-> "VOIDED"]]
      /\ stock' = [stock EXCEPT ![s] = @ + 1]
      /\ ends' = [ends EXCEPT ![s] = ends[s] + 1]
      /\ UNCHANGED <<rows, refunds, sessions, drawer, reported, customer, todo>>
  BY DEF CommitVoid, Is, SaleUnchanged
<1>2. s \in Sale /\ job[w] # NoRequest
  BY <1>1, CommitTyping, ValueAssumption
<1>3. sales[s].version = 0 /\ ends[s] = 0
  BY <1>1, <1>2 DEF Inv, SeenVersions, VersionsCountEnds
<1> DEFINE v == sales[s].version + 1
<1>4. v = ends[s] + 1 /\ v \in 0..1
  BY <1>3
<1>5. /\ sales' = [sales EXCEPT ![s] = [status |-> "VOIDED", version |-> v, invoice |-> "VOIDED"]]
      /\ ends' = [ends EXCEPT ![s] = v] /\ job[w].op \in {"VOID", "XVOID"}
  BY <1>1, <1>4
<1> HIDE DEF v
<1> QED
  BY <1>1, <1>4, <1>5, VoidKeeps

LEMMA CommitXVoidStep ==
    ASSUME Inv, NEW w \in Worker, CommitXVoid(w)
    PROVE  Inv'
<1> DEFINE s == job[w].sale
<1> DEFINE v == sales[s].version
<1>1. /\ pc[w] = "commit" /\ job[w].op = "XVOID" /\ Idle(w)
      /\ sales' = [sales EXCEPT ![s] = [status |-> "VOIDED", version |-> v, invoice |-> "VOIDED"]]
      /\ stock' = [stock EXCEPT ![s] = @ + 1]
      /\ UNCHANGED <<rows, refunds, ends, sessions, drawer, reported, customer, todo>>
  BY DEF CommitXVoid, Is
<1>2. s \in Sale
  BY <1>1, CommitTyping
<1>3. v = ends[s] /\ v \in 0..1
  <2>1. v = ends[s] /\ ends[s] <= 1
    BY <1>2 DEF Inv, VersionsCountEnds
  <2>2. ends[s] \in Nat
    BY <1>2, TillTyping
  <2> QED
    BY <2>1, <2>2
<1>4. ends' = [ends EXCEPT ![s] = v]
  BY <1>1, <1>2, <1>3, TillTyping
<1> HIDE DEF v
<1> QED
  BY <1>1, <1>3, <1>4, VoidKeeps

\* A commit that only touches the sessions and the report.
LEMMA SessionsKeep ==
    ASSUME Inv, NEW w \in Worker, pc[w] = "commit", Idle(w),
           UNCHANGED <<sales, rows, refunds, stock, ends, customer, todo>>,
           sessions' \in Seq(SessionRow), drawer' \in Seq([in: Int, out: Nat]),
           Len(drawer') = Len(sessions'), Len(sessions) <= Len(sessions'), reported' \in BOOLEAN
    PROVE  Inv'
<1>1. TypeOK'
  <2>1. /\ sales' \in [Sale -> SaleRow] /\ rows' \in [Sale -> PaymentRows]
        /\ refunds' \in [Sale -> Nat] /\ stock' \in [Sale -> Nat] /\ ends' \in [Sale -> Nat]
        /\ customer' \in [balance: Int, version: Nat]
        /\ \A s \in Sale : sales'[s].status = "NONE" <=> sales'[s].invoice = "NONE"
    BY TillTyping
  <2> QED
    BY <2>1, CommitTypes
<1>2. AtOwnStep' /\ SalesMadeOnce' /\ SeenVersions' /\ SeenSums'
  <2>1. rows' \in [Sale -> PaymentRows] /\ refunds' \in [Sale -> Nat]
    BY TillTyping
  <2>2. \A s \in Sale : /\ sales'[s].status # "NONE" <=> Sold(s)
                        /\ Added(s) <= rows'[s].paid + rows'[s].back /\ refunds[s] <= refunds'[s]
    BY TillTyping DEF Sold, Added
  <2> QED
    BY <2>1, <2>2, CommitKeeps
<1>3. VersionsCountEnds' /\ RefundedInFull' /\ PaidInvoiceCovered'
  BY DEF Inv, VersionsCountEnds, RefundedInFull, PaidInvoiceCovered, Added
<1> QED
  BY <1>1, <1>2, <1>3 DEF Inv

LEMMA CommitOpenStep ==
    ASSUME Inv, NEW w \in Worker, CommitOpen(w)
    PROVE  Inv'
<1> DEFINE opened == [status |-> "OPEN", opening |-> job[w].amount, expected |-> 0]
<1> DEFINE empty == [in |-> 0, out |-> 0]
<1>1. /\ pc[w] = "commit" /\ Idle(w)
      /\ sessions' = Append(sessions, opened) /\ drawer' = Append(drawer, empty)
      /\ UNCHANGED <<sales, rows, refunds, stock, ends, reported, customer, todo>>
  BY DEF CommitOpen, Is
<1>2. opened \in SessionRow /\ empty \in [in: Int, out: Nat]
  BY <1>1, CommitTyping DEF SessionRow
<1> HIDE DEF opened, empty
<1>3. /\ sessions' \in Seq(SessionRow) /\ Len(sessions') = Len(sessions) + 1
      /\ drawer' \in Seq([in: Int, out: Nat]) /\ Len(drawer') = Len(drawer) + 1
  BY <1>1, <1>2, TillTyping, AppendProperties
<1>4. Len(drawer') = Len(sessions') /\ Len(sessions) <= Len(sessions')
  BY <1>3, TillTyping
<1>5. reported' \in BOOLEAN
  BY <1>1, TillTyping
<1> QED
  BY <1>1, <1>3, <1>4, <1>5, SessionsKeep

LEMMA SessionTyping ==
    ASSUME NEW q \in Seq(SessionRow), NEW n \in 1..Len(q), NEW e \in Int
    PROVE  /\ q[n].opening \in Int /\ q[n].expected \in Int
           /\ [q EXCEPT ![n] = [status |-> "CLOSED", opening |-> q[n].opening, expected |-> e]]
                 \in Seq(SessionRow)
           /\ Len([q EXCEPT ![n] = [status |-> "CLOSED", opening |-> q[n].opening, expected |-> e]])
                 = Len(q)
<1>0. q[n] \in SessionRow
  BY ElementOfSeq
<1>1. q[n].opening \in Int /\ q[n].expected \in Int
  BY <1>0 DEF SessionRow
<1>2. [status |-> "CLOSED", opening |-> q[n].opening, expected |-> e] \in SessionRow
  BY <1>1 DEF SessionRow
<1> QED
  BY <1>1, <1>2, ExceptSeq

LEMMA CommitCloseStep ==
    ASSUME Inv, NEW w \in Worker, CommitClose(w)
    PROVE  Inv'
<1> DEFINE n == saw[w].session
<1> DEFINE sum == saw[w].sum
<1>1. /\ pc[w] = "commit" /\ job[w].op = "CLOSE" /\ Idle(w)
      /\ sessions' = [sessions EXCEPT ![n] =
                        [status |-> "CLOSED", opening |-> sessions[n].opening, expected |-> sum]]
      /\ UNCHANGED <<sales, rows, refunds, stock, ends, drawer, reported, customer, todo>>
  BY DEF CommitClose, Is
<1>2. n \in 1..Len(sessions) /\ sum \in Int
  BY <1>1, CommitTyping DEF SeenRow
<1> HIDE DEF n, sum
<1>3. sessions' \in Seq(SessionRow) /\ Len(sessions') = Len(sessions)
  BY <1>1, <1>2, TillTyping, SessionTyping
<1>4. /\ drawer' \in Seq([in: Int, out: Nat])
      /\ Len(drawer') = Len(sessions') /\ Len(sessions) <= Len(sessions')
  BY <1>1, <1>3, TillTyping
<1>5. reported' \in BOOLEAN
  BY <1>1, TillTyping
<1> QED
  BY <1>1, <1>3, <1>4, <1>5, SessionsKeep

LEMMA CommitReportStep ==
    ASSUME Inv, NEW w \in Worker, CommitReport(w)
    PROVE  Inv'
<1> DEFINE n == saw[w].session
<1>1. /\ pc[w] = "commit" /\ Idle(w) /\ reported' = TRUE
      /\ sessions' = IF n = 0 THEN sessions ELSE [sessions EXCEPT ![n].status = "CLOSED"]
      /\ UNCHANGED <<sales, rows, refunds, stock, ends, drawer, customer, todo>>
  BY DEF CommitReport, Is
<1>2. n \in 0..Len(sessions)
  BY <1>1, CommitTyping DEF SeenRow
<1> HIDE DEF n
<1>3. sessions' \in Seq(SessionRow) /\ Len(sessions') = Len(sessions)
  <2>1. CASE n = 0
    BY <1>1, <2>1, TillTyping
  <2>2. CASE n # 0
    <3>1. n \in 1..Len(sessions) /\ sessions \in Seq(SessionRow)
      BY <1>2, <2>2, TillTyping
    <3>2. sessions[n] \in SessionRow
      BY <3>1, ElementOfSeq
    <3>3. [sessions[n] EXCEPT !.status = "CLOSED"] \in SessionRow
      BY <3>2 DEF SessionRow
    <3>4. sessions' = [sessions EXCEPT ![n] = [sessions[n] EXCEPT !.status = "CLOSED"]]
      BY <1>1, <2>2
    <3> QED
      BY <3>1, <3>3, <3>4, ExceptSeq
  <2> QED
    BY <2>1, <2>2
<1>4. /\ drawer' \in Seq([in: Int, out: Nat])
      /\ Len(drawer') = Len(sessions') /\ Len(sessions) <= Len(sessions')
  BY <1>1, <1>3, TillTyping
<1>5. reported' \in BOOLEAN
  BY <1>1
<1> QED
  BY <1>1, <1>3, <1>4, <1>5, SessionsKeep

-----------------------------------------------------------------------------
LEMMA NextInv == Inv /\ [Next]_vars => Inv'
<1> SUFFICES ASSUME Inv, [Next]_vars PROVE Inv'
  OBVIOUS
<1>1. ASSUME NEW w \in Worker, Step(w) PROVE Inv'
  <2>1. CASE ReadSale(w) \/ ReadReport(w) \/ ReadSession(w) \/ ReadCustomer(w) \/ Aggregate(w)
    BY <2>1, ReadStep
  <2>2. CASE RejectSale(w) \/ RejectReport(w) \/ RejectSession(w) \/ Fail(w)
    <3>1. pc[w] # "idle" /\ Throw(w)
      BY <2>2 DEF RejectSale, RejectReport, RejectSession, Fail
    <3> QED
      BY <3>1, ThrowStep
  <2>3. CASE CommitSale(w)
    BY <2>3, CommitSaleStep
  <2>4. CASE CommitPay(w)
    BY <2>4, CommitPayStep
  <2>5. CASE CommitRefund(w)
    BY <2>5, CommitRefundStep
  <2>6. CASE CommitVoid(w)
    BY <2>6, CommitVoidStep
  <2>7. CASE CommitXVoid(w)
    BY <2>7, CommitXVoidStep
  <2>8. CASE CommitOpen(w)
    BY <2>8, CommitOpenStep
  <2>9. CASE CommitClose(w)
    BY <2>9, CommitCloseStep
  <2>10. CASE CommitReport(w)
    BY <2>10, CommitReportStep
  <2> QED
    BY <1>1, <2>1, <2>2, <2>3, <2>4, <2>5, <2>6, <2>7, <2>8, <2>9, <2>10 DEF Step
<1>2. ASSUME NEW w \in Worker, NEW r \in Request, Send(w, r) PROVE Inv'
  BY <1>2, SendStep
<1>3. CASE UNCHANGED vars
  <2>1. /\ TypeOK' /\ SalesMadeOnce' /\ AtOwnStep'
        /\ VersionsCountEnds' /\ RefundedInFull' /\ PaidInvoiceCovered'
    BY <1>3 DEF vars, Inv, TypeOK, SalesMadeOnce, AtOwnStep, Sold, VersionsCountEnds,
                RefundedInFull, PaidInvoiceCovered, Added
  <2>2. SeenVersions' /\ SeenSums'
    BY <1>3 DEF vars, Inv, SeenVersions, SeenSums, Added
  <2> QED
    BY <2>1, <2>2 DEF Inv
<1> QED
  BY <1>1, <1>2, <1>3 DEF Next, Finished

\* The rows of sales, payments, refunds, sessions, drawers and of the customer
\* are well-formed in every state, and a worker that has read a session has
\* read one that exists.
THEOREM TypeCorrect == Spec => []TypeOK
<1>1. Inv => TypeOK
  BY DEF Inv
<1> QED
  BY <1>1, InitInv, NextInv, PTL DEF Spec

\* SalesService.refundSale and voidSale end a sale at most once between them,
\* whatever number of them read it before one commits, and although the
\* manager's void writes the row without the version.
THEOREM EndsOnce == Spec => []CheckedEndsOnce
<1>1. Inv => CheckedEndsOnce
  BY DEF Inv, VersionsCountEnds, CheckedEndsOnce
<1> QED
  BY <1>1, InitInv, NextInv, PTL DEF Spec

\* SalesService.refundSale sets REFUNDED on a sum of refund rows another
\* transaction may add to: what it read is at most what there is.
THEOREM RefundsCover == Spec => []RefundedInFull
<1>1. Inv => RefundedInFull
  BY DEF Inv
<1> QED
  BY <1>1, InitInv, NextInv, PTL DEF Spec

\* PaymentsService.create sets PAID on a sum read before its transaction and
\* its own amount: what the rows add is never taken back, and a negative payment,
\* which the service takes, is not among them.
THEOREM PaymentsCover == Spec => []PaidInvoiceCovered
<1>1. Inv => PaidInvoiceCovered
  BY DEF Inv
<1> QED
  BY <1>1, InitInv, NextInv, PTL DEF Spec

-----------------------------------------------------------------------------
(***************************************************************************)
(* What the customer owes is the sum, over the sales on account that were  *)
(* made, of what is not paid of each.  A commit moves one term of it: a    *)
(* sale adds its total, which nobody has paid any of yet, and a payment    *)
(* takes its amount, which may be negative, off the term of its sale.      *)
(***************************************************************************)
Charged == {s \in OnAccount : Sold(s)}
Unpaid == [s \in Sale |-> Total[s] - Paid(s)]

OwesUnpaid ==
    /\ IsFiniteSet(Charged)
    /\ \A s \in Sale : ~Sold(s) => Paid(s) = 0
    /\ customer.balance = SumOn(Unpaid, Charged)

LEMMA UnpaidType ==
    ASSUME Inv
    PROVE  /\ \A s \in Sale : Unpaid[s] \in Int /\ Total[s] \in Int /\ Paid(s) \in Int
           /\ Charged \subseteq Sale
           /\ customer.balance \in Int
<1>1. \A s \in Sale : Total[s] \in Int /\ Paid(s) \in Int
  <2>1. rows \in [Sale -> PaymentRows]
    BY TillTyping
  <2> QED
    BY <2>1, ValueAssumption DEF Paid
<1>2. Charged \subseteq Sale
  BY ValueAssumption DEF Charged
<1>3. customer.balance \in Int
  BY TillTyping
<1> QED
  BY <1>1, <1>2, <1>3 DEF Unpaid

\* What matters here of a step that leaves the account alone.
LEMMA AccountRests ==
    ASSUME Inv, OwesUnpaid, customer' = customer,
           \A s \in Sale : Paid(s)' = Paid(s) /\ (Sold(s)' <=> Sold(s))
    PROVE  OwesUnpaid'
<1>1. Charged' = Charged
  BY ValueAssumption DEF Charged
<1>2. Unpaid' = Unpaid
  BY DEF Unpaid
<1>3. \A s \in Sale : ~Sold(s)' => Paid(s)' = 0
  BY DEF OwesUnpaid
<1> QED
  BY <1>1, <1>2, <1>3 DEF OwesUnpaid

LEMMA InitOwesUnpaid == Init => OwesUnpaid
<1> SUFFICES ASSUME Init PROVE OwesUnpaid
  OBVIOUS
<1>1. \A s \in Sale : ~Sold(s) /\ Paid(s) = 0
  BY DEF Init, Sold, Paid
<1>2. Charged = {}
  BY <1>1, ValueAssumption DEF Charged
<1>3. SumOn(Unpaid, Charged) = 0
  BY <1>2, SumOfNone
<1>4. customer.balance = 0
  BY DEF Init
<1> QED
  BY <1>1, <1>2, <1>3, <1>4, FS_EmptySet DEF OwesUnpaid

LEMMA SaleOwesUnpaid ==
    ASSUME Inv, OwesUnpaid, NEW w \in Worker, CommitSale(w)
    PROVE  OwesUnpaid'
<1> DEFINE s == job[w].sale
<1>1. /\ pc[w] = "commit" /\ job[w].op = "SALE"
      /\ sales' = [sales EXCEPT ![s] = [status |-> "COMPLETED", version |-> 0, invoice |-> "UNPAID"]]
      /\ customer' = Debited(customer, s) /\ rows' = rows
  BY DEF CommitSale, Is
<1>2. s \in Sale /\ Total[s] \in Int /\ job[w] \in Request
  BY <1>1, CommitTyping
<1>3. ~Sold(s) /\ Paid(s) = 0
  BY <1>1, <1>2 DEF Inv, SalesMadeOnce, OwesUnpaid
<1> HIDE DEF s
<1>4. \A t \in Sale : Sold(t)' <=> Sold(t) \/ t = s
  <2>1. sales'[s].status = "COMPLETED" /\ \A t \in Sale \ {s} : sales'[t] = sales[t]
    <3>1. sales \in [Sale -> SaleRow]
      BY TillTyping
    <3> QED
      BY <1>1, <1>2, <3>1
  <2> QED
    BY <1>2, <2>1 DEF Sold
<1>5. Unpaid' = Unpaid
  BY <1>1 DEF Unpaid, Paid
<1>6. \A t \in Sale : ~Sold(t)' => Paid(t)' = 0
  BY <1>1, <1>4 DEF OwesUnpaid, Paid
<1>7. CASE s \in OnAccount
  <2>1. Charged' = Charged \cup {s}
    <3>1. Charged' = {t \in OnAccount : Sold(t)'}
      BY DEF Charged
    <3>2. \A t \in OnAccount : Sold(t)' <=> Sold(t) \/ t = s
      BY <1>4, <1>7, ValueAssumption
    <3> QED
      BY <1>7, <3>1, <3>2 DEF Charged
  <2>2. s \notin Charged
    BY <1>3 DEF Charged
  <2> DEFINE C == Charged \cup {s}
  <2>3. IsFiniteSet(C) /\ s \in C /\ C \ {s} = Charged
    BY <2>2, FS_AddElement DEF OwesUnpaid
  <2>4. \A t \in C : Unpaid[t] \in Int
    BY <1>2, UnpaidType
  <2>5. SumOn(Unpaid, C) = Unpaid[s] + SumOn(Unpaid, C \ {s})
    <3> HIDE DEF C
    <3> QED
      BY <2>3, <2>4, SumSplits
  <2>6. SumOn(Unpaid, C) = Unpaid[s] + SumOn(Unpaid, Charged)
    BY <2>3, <2>5
  <2>7. Unpaid[s] = Total[s]
    BY <1>2, <1>3 DEF Unpaid
  <2>8. customer'.balance = customer.balance + Total[s]
    BY <1>1, <1>7 DEF Debited
  <2>9. customer.balance = SumOn(Unpaid, Charged) /\ customer.balance \in Int
    BY UnpaidType DEF OwesUnpaid
  <2>10. customer'.balance = SumOn(Unpaid, C)
    BY <1>2, <2>6, <2>7, <2>8, <2>9
  <2> QED
    BY <1>5, <1>6, <2>1, <2>3, <2>10 DEF OwesUnpaid
<1>8. CASE s \notin OnAccount
  <2>1. Charged' = Charged
    <3>1. Charged' = {t \in OnAccount : Sold(t)'}
      BY DEF Charged
    <3>2. \A t \in OnAccount : Sold(t)' <=> Sold(t)
      BY <1>4, <1>8, ValueAssumption
    <3> QED
      BY <3>1, <3>2 DEF Charged
  <2>2. customer' = customer
    BY <1>1, <1>8 DEF Debited
  <2> QED
    BY <1>5, <1>6, <2>1, <2>2 DEF OwesUnpaid
<1> QED
  BY <1>7, <1>8

LEMMA PayOwesUnpaid ==
    ASSUME Inv, OwesUnpaid, NEW w \in Worker, CommitPay(w)
    PROVE  OwesUnpaid'
<1> DEFINE s == job[w].sale
           a == job[w].amount
<1>1. /\ pc[w] = "commit" /\ job[w].op = "PAY"
      /\ rows' = [rows EXCEPT ![s] = WithPayment(@, a)]
      /\ sales' = sales \/ sales' = [sales EXCEPT ![s] = [status |-> sales[s].status, version |-> sales[s].version, invoice |-> "PAID"]]
      /\ customer' = IF s \in OnAccount
                     THEN [balance |-> customer.balance - a, version |-> customer.version]
                     ELSE customer
  BY DEF CommitPay, Is
<1>2. s \in Sale /\ a \in Int /\ Sold(s)
  BY <1>1, CommitTyping DEF OnSale
<1> HIDE DEF s, a
<1>3. \A t \in Sale : Sold(t)' <=> Sold(t)
  <2>1. sales \in [Sale -> SaleRow]
    BY TillTyping
  <2>2. \A t \in Sale : sales'[t].status = sales[t].status
    BY <1>1, <1>2, <2>1
  <2> QED
    BY <2>2 DEF Sold
<1>4. Charged' = Charged
  BY <1>3, ValueAssumption DEF Charged
<1>5. rows'[s].paid - rows'[s].less = Paid(s) + a /\ \A t \in Sale \ {s} : Paid(t)' = Paid(t)
  <2>1. rows \in [Sale -> PaymentRows]
    BY TillTyping
  <2>2. rows'[s] = WithPayment(rows[s], a) /\ \A t \in Sale \ {s} : rows'[t] = rows[t]
    BY <1>1, <1>2, <2>1
  <2>3. rows[s] \in PaymentRows
    BY <1>2, <2>1
  <2> QED
    <3>1. /\ WithPayment(rows[s], a) \in PaymentRows
          /\ WithPayment(rows[s], a).paid - WithPayment(rows[s], a).less = rows[s].paid - rows[s].less + a
      BY <1>2, <2>3, PaymentCounts
    <3>2. rows'[s].paid - rows'[s].less = Paid(s) + a
      BY <2>2, <3>1 DEF Paid
    <3> QED
      BY <2>2, <3>2 DEF Paid
<1>6. \A t \in Sale : ~Sold(t)' => Paid(t)' = 0
  BY <1>2, <1>3, <1>5 DEF OwesUnpaid
<1> DEFINE f == Unpaid
           g == Unpaid'
<1>7. /\ \A t \in Sale : f[t] \in Int
      /\ g[s] = f[s] - a /\ \A t \in Sale \ {s} : g[t] = f[t]
  <2>1. g[s] = Total[s] - (Paid(s) + a) /\ f[s] = Total[s] - Paid(s)
    BY <1>2, <1>5 DEF Unpaid, Paid
  <2>2. Total[s] \in Int /\ Paid(s) \in Int
    BY <1>2, UnpaidType
  <2>3. g[s] = f[s] - a
    BY <1>2, <2>1, <2>2
  <2> QED
    BY <1>5, <2>3, UnpaidType DEF Unpaid
<1> HIDE DEF f, g
<1>8. IsFiniteSet(Charged) /\ Charged \subseteq Sale /\ customer.balance = SumOn(f, Charged)
  BY UnpaidType DEF OwesUnpaid, f
<1>9. customer'.balance = SumOn(g, Charged)
  <2>1. CASE s \in OnAccount
    <3>1. s \in Charged
      BY <1>2, <2>1 DEF Charged
    <3>2. \A t \in Charged : f[t] \in Int /\ g[t] \in Int
      BY <1>2, <1>7, <1>8
    <3>3. \A t \in Charged \ {s} : f[t] = g[t]
      BY <1>7, <1>8
    <3>4. SumOn(f, Charged) \in Int /\ SumOn(g, Charged) = SumOn(f, Charged) + (g[s] - f[s])
      BY <1>8, <3>1, <3>2, <3>3, SumMoves
    <3>5. customer'.balance = customer.balance - a
      BY <1>1, <2>1
    <3> QED
      BY <1>2, <1>7, <1>8, <3>4, <3>5
  <2>2. CASE s \notin OnAccount
    <3>1. \A t \in Charged : f[t] = g[t]
      BY <1>7, <1>8, <2>2 DEF Charged
    <3>2. SumOn(f, Charged) = SumOn(g, Charged)
      BY <1>8, <3>1, SumOfSame
    <3> QED
      BY <1>1, <1>8, <2>2, <3>2
  <2> QED
    BY <2>1, <2>2
<1> QED
  BY <1>4, <1>6, <1>8, <1>9 DEF OwesUnpaid, g

\* The other commits change a sale's end, its refunds or the session, never
\* whether it was made, what was paid or the customer.
LEMMA EndsOweUnpaid ==
    ASSUME Inv, OwesUnpaid, NEW w \in Worker,
           CommitRefund(w) \/ CommitVoid(w) \/ CommitXVoid(w)
    PROVE  OwesUnpaid'
<1> DEFINE s == job[w].sale
<1>1. pc[w] = "commit" /\ job[w].op \in {"REFUND", "VOID", "XVOID"} /\ customer' = customer
  BY DEF CommitRefund, CommitVoid, CommitXVoid, Is
<1>2. s \in Sale /\ Sold(s)
  BY <1>1, CommitTyping DEF OnSale
<1>3. \A t \in Sale : Sold(t)' <=> Sold(t)
  <2>1. \/ sales' = sales
        \/ /\ sales'[s].status \in {"REFUNDED", "VOIDED"}
           /\ \A t \in Sale \ {s} : sales'[t] = sales[t]
    <3>1. CASE CommitRefund(w)
      BY <1>2, <3>1, TillTyping DEF CommitRefund
    <3>2. CASE CommitVoid(w)
      BY <1>2, <3>2, TillTyping DEF CommitVoid
    <3>3. CASE CommitXVoid(w)
      BY <1>2, <3>3, TillTyping DEF CommitXVoid
    <3> QED
      BY <3>1, <3>2, <3>3
  <2> QED
    BY <1>2, <2>1 DEF Sold
<1>4. \A t \in Sale : Paid(t)' = Paid(t)
  <2>1. CASE CommitRefund(w)
    <3>1. \/ rows' = rows
          \/ rows' = [rows EXCEPT ![s] = [paid |-> rows[s].paid, less |-> rows[s].less,
                                          back |-> rows[s].back + job[w].amount,
                                          count |-> rows[s].count + 1]]
      BY <1>2, <2>1, TillTyping DEF CommitRefund
    <3>2. rows \in [Sale -> PaymentRows]
      BY TillTyping
    <3> QED
      BY <1>2, <3>1, <3>2 DEF Paid
  <2>2. CASE CommitVoid(w) \/ CommitXVoid(w)
    BY <2>2 DEF CommitVoid, CommitXVoid, Paid
  <2> QED
    BY <2>1, <2>2
<1> QED
  BY <1>1, <1>3, <1>4, AccountRests

LEMMA NextOwesUnpaid == Inv /\ OwesUnpaid /\ [Next]_vars => OwesUnpaid'
<1> SUFFICES ASSUME Inv, OwesUnpaid, [Next]_vars PROVE OwesUnpaid'
  OBVIOUS
<1>1. CASE UNCHANGED <<sales, rows, customer>>
  BY <1>1, AccountRests DEF Sold, Paid
<1>2. ASSUME NEW w \in Worker, Step(w) PROVE OwesUnpaid'
  <2>1. CASE CommitSale(w)
    BY <2>1, SaleOwesUnpaid
  <2>2. CASE CommitPay(w)
    BY <2>2, PayOwesUnpaid
  <2>3. CASE CommitRefund(w) \/ CommitVoid(w) \/ CommitXVoid(w)
    BY <2>3, EndsOweUnpaid
  <2>4. CASE CommitOpen(w) \/ CommitClose(w) \/ CommitReport(w)
    BY <1>1, <2>4 DEF CommitOpen, CommitClose, CommitReport
  <2>5. CASE ReadSale(w) \/ ReadReport(w) \/ ReadSession(w) \/ ReadCustomer(w) \/ Aggregate(w)
    BY <1>1, <2>5 DEF ReadSale, ReadReport, ReadSession, ReadCustomer, Aggregate, till
  <2>6. CASE RejectSale(w) \/ RejectReport(w) \/ RejectSession(w) \/ Fail(w)
    BY <1>1, <2>6 DEF RejectSale, RejectReport, RejectSession, Fail, Throw, till
  <2> QED
    BY <1>2, <2>1, <2>2, <2>3, <2>4, <2>5, <2>6 DEF Step
<1>3. ASSUME NEW w \in Worker, NEW r \in Request, Send(w, r) PROVE OwesUnpaid'
  BY <1>1, <1>3 DEF Send, till
<1>4. CASE UNCHANGED vars
  BY <1>1, <1>4 DEF vars
<1> QED
  BY <1>2, <1>3, <1>4 DEF Next, Finished

\* A customer owes what was sold on account less what was paid, though a sale
\* whose customer changed is run again and payments change the balance without
\* changing the version the sale checks.
THEOREM OwesWhatIsUnpaid == Spec => []CustomerOwesUnpaid
<1>1. Spec => [](Inv /\ OwesUnpaid)
  BY InitInv, InitOwesUnpaid, NextInv, NextOwesUnpaid, PTL DEF Spec
<1>2. Inv /\ OwesUnpaid => CustomerOwesUnpaid
  <2> SUFFICES ASSUME Inv, OwesUnpaid PROVE CustomerOwesUnpaid
    OBVIOUS
  <2>1. Charged \subseteq Sale
    BY UnpaidType
  <2>2. MapThenSumSet(LAMBDA s : Total[s] - Paid(s), Charged) = SumOn(Unpaid, Charged)
    BY <2>1, ZenonT(40) DEF Unpaid, SumOn, MapThenSumSet, MapThenFoldSet
  <2> QED
    BY <2>2 DEF OwesUnpaid, CustomerOwesUnpaid, Charged
<1> QED
  BY <1>1, <1>2, PTL
=============================================================================

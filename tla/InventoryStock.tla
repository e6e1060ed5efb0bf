--------------------------- MODULE InventoryStock ---------------------------
(***************************************************************************)
(* The inventory rows of one tenant and the two services that write them:  *)
(* InventoryLedgerService (version-checked writes of an absolute quantity) *)
(* and InventorySafetyService (unversioned increments of quantity and      *)
(* allocated), with the row life cycle of InventoryService.                *)
(*                                                                         *)
(* A worker is one HTTP request executing its database transaction under   *)
(* PostgreSQL.  Between two statements of a transaction other workers run: *)
(*   - a read returns the transaction's own write or the committed row;    *)
(*   - a write waits while another transaction holds an uncommitted write  *)
(*     of the same row, and then applies to the latest committed row;      *)
(*   - a rollback drops every uncommitted write and ledger entry;          *)
(*   - a wait cycle is broken by aborting one of its transactions.         *)
(* A row update and the ledger entry that follows it in the same           *)
(* transaction are one step: nothing another worker can see separates      *)
(* them.  Prices and costs are left out.                                   *)
(***************************************************************************)
EXTENDS Integers, FiniteSetsExt, Sequences

CONSTANTS
    Item,          \* inventory keys: (branch, product) pairs
    Worker,        \* concurrently executing requests
    Ref,           \* what tells two requests of the same content apart
    Request,       \* the requests clients may send
    Batches,       \* sets of requests that may be pending together
    Attempts,      \* per kind, how often withRetry runs the operation
    OpeningStock,  \* quantity of every row at the start, entered in the ledger
    NoRow,         \* no inventory row exists for the key
    NoRequest,     \* the worker is idle
    Clean          \* the transaction has not written the row

(***************************************************************************)
(* Kinds of request, by the code that issues them:                         *)
(*   SALE        SalesService.create: recordTransaction(SALE) per line     *)
(*   MOVE        PO receipt, branch transfer, POS void: recordTransaction  *)
(*               with a caller's transaction, signed quantity              *)
(*   ADJUST      InventoryService.adjustStock: recordTransaction alone     *)
(*   CREATE      InventoryService.create: upsert, then an ADJUSTMENT       *)
(*   REMOVE      InventoryService.remove                                   *)
(*   ALLOCATE, COMMIT, DEALLOCATE, RESTOCK   InventorySafetyService        *)
(***************************************************************************)
Versioned == {"SALE", "MOVE", "ADJUST", "CREATE"}
Serializable == {"ADJUST", "CREATE"}
Reserving == {"ALLOCATE", "COMMIT", "DEALLOCATE"}
Kind == Versioned \cup Reserving \cup {"RESTOCK", "REMOVE"}

Row == [id: Nat, quantity: Int, allocated: Int, version: Nat]
Line == [item: Item, qty: Int]
RequestRecord == [kind: Kind, ref: Ref, lines: Seq(Line)]

\* A request has a line, and several only in the operations that take several.
\* Quantities have any sign: no ValidationPipe is installed, so what the DTO
\* classes declare of them is not looked at.
ASSUME RequestAssumption ==
    /\ Request \subseteq RequestRecord
    /\ \A r \in Request :
          /\ Len(r.lines) >= 1
          /\ r.kind \in {"ADJUST", "CREATE", "REMOVE"} => Len(r.lines) = 1
    /\ Batches \subseteq SUBSET Request

ASSUME ValueAssumption ==
    /\ Attempts \in [Kind -> Nat \ {0}]
    /\ OpeningStock \in Nat
    /\ NoRow \notin Row
    /\ Clean \notin Row \cup {NoRow}
    /\ NoRequest \notin Request

VARIABLES
    rows,     \* committed inventory rows
    created,  \* how many rows have existed for the key: the next row's id
    ledger,   \* committed ledger entries of the key, summed by effect
    past,     \* what the ledger said when the key's last row was deleted (history)
    served,   \* the requests whose transaction committed (history)
    todo,     \* requests not sent yet
    pc,       \* where each worker is
    job,      \* the request it executes
    line,     \* the line it is at
    attempt,  \* the run of withRetry it is in
    seen,     \* the row its last read returned
    stale,    \* has that row changed since a Serializable transaction read it
    own,      \* its uncommitted row writes
    entry     \* its uncommitted ledger entries, summed by effect

shared == <<rows, created, ledger, past, served>>
vars == <<rows, created, ledger, past, served, todo, pc, job, line, attempt, seen,
          stale, own, entry>>

Effect == [qty: Int, alloc: Int]
Nothing == [qty |-> 0, alloc |-> 0]
Plus(e, f) == [qty |-> e.qty + f.qty, alloc |-> e.alloc + f.alloc]

TypeOK ==
    /\ rows \in [Item -> Row \cup {NoRow}]
    /\ created \in [Item -> Nat]
    /\ ledger \in [Item -> Effect]
    /\ past \in [Item -> Effect]
    /\ served \in SUBSET Request
    /\ todo \in SUBSET Request
    /\ pc \in [Worker -> {"idle", "upsert", "read", "write", "commit"}]
    /\ job \in [Worker -> Request \cup {NoRequest}]
    /\ line \in [Worker -> Nat]
    /\ attempt \in [Worker -> Nat]
    /\ seen \in [Worker -> Row \cup {NoRow}]
    /\ stale \in [Worker -> BOOLEAN]
    /\ own \in [Worker -> [Item -> Row \cup {Clean}]]
    /\ entry \in [Worker -> [Item -> Effect]]
    /\ \A w \in Worker : pc[w] = "idle" <=> job[w] = NoRequest
    /\ \A w \in Worker :
          pc[w] \in {"upsert", "read", "write"} => line[w] \in 1..Len(job[w].lines)

-----------------------------------------------------------------------------
\* The line a worker is at, and what it may see and lock.
At(w) == job[w].lines[line[w]]

Visible(w, i) == IF own[w][i] # Clean THEN own[w][i] ELSE rows[i]

Locked(w, i) == \E v \in Worker \ {w} : own[v][i] # Clean

\* The Serializable transactions whose snapshot is out of date once the
\* committed rows of `items` change.
Overtaken(items) ==
    [v \in Worker |-> \/ stale[v]
                      \/ pc[v] = "write" /\ job[v].kind \in Serializable /\ At(v).item \in items]

FirstStep(kind) ==
    CASE kind = "CREATE" -> "upsert" [] kind = "RESTOCK" -> "write" [] OTHER -> "read"

-----------------------------------------------------------------------------
\* The checks on the row a service has just read.

\* executeInventoryLogic rejects a SALE that would go below zero, allocate
\* one that exceeds quantity - allocated, commit and remove a missing row.
\* (SalesService.create also rejects a line without a row.)
Accepts(r, k, row) ==
    CASE r.kind = "SALE" -> row # NoRow /\ row.quantity >= r.lines[k].qty
      [] r.kind = "ALLOCATE" ->
           row # NoRow /\ row.quantity - row.allocated >= r.lines[k].qty
      [] r.kind \in {"COMMIT", "REMOVE"} -> row # NoRow
      [] OTHER -> TRUE

\* The change a line makes, as its ledger entry says it: COMMIT counts on
\* both sides, ALLOCATION and DEALLOCATION on the reservation only.
Change(r, k) ==
    LET n == r.lines[k].qty IN
    CASE r.kind = "SALE" -> [qty |-> -n, alloc |-> 0]
      [] r.kind = "ALLOCATE" -> [qty |-> 0, alloc |-> n]
      [] r.kind = "DEALLOCATE" -> [qty |-> 0, alloc |-> -n]
      [] r.kind = "COMMIT" -> [qty |-> -n, alloc |-> -n]
      [] OTHER -> [qty |-> n, alloc |-> 0]

\* A version check that compares the row's identity only.
FoundIgnoringVersion(w, i) ==
    IF seen[w] = NoRow THEN Visible(w, i) = NoRow
    ELSE Visible(w, i) # NoRow /\ Visible(w, i).id = seen[w].id

\* Does the write find the row it was prepared for?  updateMany where id and
\* version, create when none was read, update where id, upsert always; and
\* a Serializable transaction fails on any concurrent update of its row.
Finds(w, i) ==
    LET now == Visible(w, i) IN
    CASE job[w].kind = "RESTOCK" -> TRUE
      [] job[w].kind \in Versioned ->
           /\ IF seen[w] = NoRow THEN now = NoRow
              ELSE now # NoRow /\ now.id = seen[w].id /\ now.version = seen[w].version
           /\ ~stale[w]
      [] OTHER -> now # NoRow /\ now.id = seen[w].id

FreshRow(i, n) == [id |-> created[i] + 1, quantity |-> n, allocated |-> 0, version |-> 0]

\* A reservation written as an absolute value computed from the row read.
WrittenAbsolute(w, i) ==
    LET e == Change(job[w], line[w])
        now == Visible(w, i) IN
    IF now = NoRow THEN FreshRow(i, e.qty) ELSE
    CASE job[w].kind \in Reserving ->
           [now EXCEPT !.quantity = @ + e.qty, !.allocated = seen[w].allocated + e.alloc]
      [] job[w].kind = "RESTOCK" -> [now EXCEPT !.quantity = @ + e.qty]
      [] OTHER -> [now EXCEPT !.quantity = seen[w].quantity + e.qty, !.version = @ + 1]

\* The row after the write: increments on the latest row for the safety
\* service, the absolute quantity computed from the row read and a version
\* bump for the ledger service, a new row where there was none.
Written(w, i) ==
    LET e == Change(job[w], line[w])
        now == Visible(w, i) IN
    IF now = NoRow THEN FreshRow(i, e.qty) ELSE
    CASE job[w].kind \in Reserving ->
           [now EXCEPT !.quantity = @ + e.qty, !.allocated = @ + e.alloc]
      [] job[w].kind = "RESTOCK" -> [now EXCEPT !.quantity = @ + e.qty]
      [] OTHER -> [now EXCEPT !.quantity = seen[w].quantity + e.qty, !.version = @ + 1]

-----------------------------------------------------------------------------
Init ==
    /\ rows = [i \in Item |-> [id |-> 1, quantity |-> OpeningStock, allocated |-> 0, version |-> 0]]
    /\ created = [i \in Item |-> 1]
    /\ ledger = [i \in Item |-> [qty |-> OpeningStock, alloc |-> 0]]
    /\ past = [i \in Item |-> Nothing]
    /\ served = {}
    /\ todo \in Batches
    /\ pc = [w \in Worker |-> "idle"]
    /\ job = [w \in Worker |-> NoRequest]
    /\ line = [w \in Worker |-> 1]
    /\ attempt = [w \in Worker |-> 1]
    /\ seen = [w \in Worker |-> NoRow]
    /\ stale = [w \in Worker |-> FALSE]
    /\ own = [w \in Worker |-> [i \in Item |-> Clean]]
    /\ entry = [w \in Worker |-> [i \in Item |-> Nothing]]

\* The transaction of w ends without a trace, and w goes to step `next`.
Rollback(w, next) ==
    /\ pc' = [pc EXCEPT ![w] = next]
    /\ line' = [line EXCEPT ![w] = 1]
    /\ seen' = [seen EXCEPT ![w] = NoRow]
    /\ stale' = [stale EXCEPT ![w] = FALSE]
    /\ own' = [own EXCEPT ![w] = [i \in Item |-> Clean]]
    /\ entry' = [entry EXCEPT ![w] = [i \in Item |-> Nothing]]
    /\ UNCHANGED <<shared, todo>>

\* withRetry without its attempt counter.
RetryForever(w) ==
    /\ UNCHANGED <<job, attempt>>
    /\ Rollback(w, IF job[w].kind = "CREATE" THEN "read" ELSE FirstStep(job[w].kind))

\* withRetry inside the transaction instead of around it: what the failed
\* attempt has written stays.
RetryInside(w) ==
    \/ /\ attempt[w] < Attempts[job[w].kind]
       /\ attempt' = [attempt EXCEPT ![w] = @ + 1]
       /\ pc' = [pc EXCEPT ![w] = FirstStep(job[w].kind)]
       /\ line' = [line EXCEPT ![w] = 1]
       /\ UNCHANGED <<shared, todo, job, seen, stale, own, entry>>
    \/ /\ attempt[w] >= Attempts[job[w].kind]
       /\ attempt' = [attempt EXCEPT ![w] = 1]
       /\ job' = [job EXCEPT ![w] = NoRequest]
       /\ Rollback(w, "idle")

\* An operation threw: withRetry runs it again until its attempts are used
\* up (a CREATE repeats its recordTransaction, not its upsert), and then the
\* request fails.
Throw(w) ==
    \/ /\ attempt[w] < Attempts[job[w].kind]
       /\ attempt' = [attempt EXCEPT ![w] = @ + 1]
       /\ UNCHANGED job
       /\ Rollback(w, IF job[w].kind = "CREATE" THEN "read" ELSE FirstStep(job[w].kind))
    \/ /\ attempt[w] >= Attempts[job[w].kind]
       /\ attempt' = [attempt EXCEPT ![w] = 1]
       /\ job' = [job EXCEPT ![w] = NoRequest]
       /\ Rollback(w, "idle")

\* A client sends r to an idle worker.  The services ask nothing of what came
\* before: two cancellations of an order that both read it CONFIRMED both
\* release it (which ones get that far is the subject of OrderFulfilment).
Send(w, r) ==
    /\ pc[w] = "idle"
    /\ r \in todo
    /\ todo' = todo \ {r}
    /\ job' = [job EXCEPT ![w] = r]
    /\ pc' = [pc EXCEPT ![w] = FirstStep(r.kind)]
    /\ UNCHANGED <<shared, line, attempt, seen, stale, own, entry>>

\* InventoryService.create's upsert, outside any transaction: a row with no
\* stock unless there is one.
Upsert(w) ==
    LET i == At(w).item IN
    /\ pc[w] = "upsert"
    /\ ~Locked(w, i)
    /\ \/ /\ rows[i] = NoRow
          /\ rows' = [rows EXCEPT ![i] = FreshRow(i, 0)]
          /\ created' = [created EXCEPT ![i] = @ + 1]
          /\ stale' = Overtaken({i})
       \/ /\ rows[i] # NoRow
          /\ UNCHANGED <<rows, created, stale>>
    /\ IF At(w).qty > 0
         THEN pc' = [pc EXCEPT ![w] = "read"] /\ UNCHANGED job
         ELSE pc' = [pc EXCEPT ![w] = "idle"] /\ job' = [job EXCEPT ![w] = NoRequest]
    /\ UNCHANGED <<ledger, past, served, todo, line, attempt, seen, own, entry>>

\* The service reads the row of its next line and accepts it.
ReadRow(w) ==
    LET row == Visible(w, At(w).item) IN
    /\ pc[w] = "read"
    /\ Accepts(job[w], line[w], row)
    /\ ~(job[w].kind = "DEALLOCATE" /\ row = NoRow)
    /\ seen' = [seen EXCEPT ![w] = row]
    /\ stale' = [stale EXCEPT ![w] = FALSE]
    /\ pc' = [pc EXCEPT ![w] = "write"]
    /\ UNCHANGED <<shared, todo, job, line, attempt, own, entry>>

\* The loop over the lines that starts the next one before this is written.
AdvancePastEnd(w) ==
    /\ line' = [line EXCEPT ![w] = @ + 1]
    /\ pc' = [pc EXCEPT ![w] = IF line[w] <= Len(job[w].lines) THEN FirstStep(job[w].kind) ELSE "commit"]

\* The loop over the lines.
Advance(w) ==
    /\ line' = [line EXCEPT ![w] = @ + 1]
    /\ pc' = [pc EXCEPT ![w] = IF line[w] < Len(job[w].lines) THEN
                  (IF job[w].kind = "RESTOCK" THEN "write" ELSE "read") ELSE "commit"]

\* allocate that passes over a line it cannot reserve.
PassOver(w) ==
    /\ pc[w] = "read"
    /\ ~Accepts(job[w], line[w], Visible(w, At(w).item))
    /\ Advance(w)
    /\ UNCHANGED <<shared, todo, job, attempt, seen, stale, own, entry>>

\* The service rejects the row it read.
RejectRow(w) ==
    /\ pc[w] = "read"
    /\ ~Accepts(job[w], line[w], Visible(w, At(w).item))
    /\ Throw(w)

\* deallocate passes over a line whose row is gone.
SkipMissingRow(w) ==
    /\ pc[w] = "read"
    /\ job[w].kind = "DEALLOCATE"
    /\ Visible(w, At(w).item) = NoRow
    /\ Advance(w)
    /\ UNCHANGED <<shared, todo, job, attempt, seen, stale, own, entry>>

\* The row update and its ledger entry, under the row's lock.
WriteRow(w) ==
    LET i == At(w).item IN
    /\ pc[w] = "write"
    /\ job[w].kind # "REMOVE"
    /\ ~Locked(w, i)
    /\ Finds(w, i)
    /\ own' = [own EXCEPT ![w][i] = Written(w, i)]
    /\ entry' = [entry EXCEPT ![w][i] = Plus(@, Change(job[w], line[w]))]
    /\ Advance(w)
    /\ UNCHANGED <<shared, todo, job, attempt, seen, stale>>

\* The write found another version, no row, or a row that should not exist.
Conflict(w) ==
    LET i == At(w).item IN
    /\ pc[w] = "write"
    /\ ~Locked(w, i)
    /\ ~Finds(w, i)
    /\ Throw(w)

\* InventoryService.remove deletes the row it read, whatever is allocated.  The
\* ledger is another table and keeps the entries of the row that is gone.
DeleteRow(w) ==
    LET i == At(w).item IN
    /\ pc[w] = "write"
    /\ job[w].kind = "REMOVE"
    /\ ~Locked(w, i)
    /\ Finds(w, i)
    /\ rows' = [rows EXCEPT ![i] = NoRow]
    /\ past' = [past EXCEPT ![i] = ledger[i]]
    /\ stale' = Overtaken({i})
    /\ pc' = [pc EXCEPT ![w] = "idle"]
    /\ job' = [job EXCEPT ![w] = NoRequest]
    /\ seen' = [seen EXCEPT ![w] = NoRow]
    /\ UNCHANGED <<created, ledger, served, todo, line, attempt, own, entry>>

\* The caller's transaction commits: its writes and entries become visible.
Commit(w) ==
    LET dirty == {i \in Item : own[w][i] # Clean} IN
    /\ pc[w] = "commit"
    /\ rows' = [i \in Item |-> IF i \in dirty THEN own[w][i] ELSE rows[i]]
    /\ created' = [i \in Item |-> IF i \in dirty /\ rows[i] = NoRow THEN created[i] + 1 ELSE created[i]]
    /\ ledger' = [i \in Item |-> Plus(ledger[i], entry[w][i])]
    /\ served' = served \cup {job[w]}
    /\ stale' = [Overtaken(dirty) EXCEPT ![w] = FALSE]
    /\ pc' = [pc EXCEPT ![w] = "idle"]
    /\ job' = [job EXCEPT ![w] = NoRequest]
    /\ line' = [line EXCEPT ![w] = 1]
    /\ attempt' = [attempt EXCEPT ![w] = 1]
    /\ seen' = [seen EXCEPT ![w] = NoRow]
    /\ own' = [own EXCEPT ![w] = [i \in Item |-> Clean]]
    /\ entry' = [entry EXCEPT ![w] = [i \in Item |-> Nothing]]
    /\ UNCHANGED <<past, todo>>

\* The caller's transaction throws for a reason of its own (another table's
\* version conflict, a timeout) after the stock statements ran.
CallerFails(w) ==
    /\ pc[w] = "commit"
    /\ Throw(w)

\* w needs a row that v has written and not committed.
Waits(w, v) == pc[w] = "write" /\ own[v][At(w).item] # Clean /\ v # w

\* PostgreSQL aborts a transaction of a wait cycle (deadlock detection).
BreakDeadlock(w) ==
    /\ \E v \in Worker : Waits(w, v) /\ Waits(v, w)
    /\ Throw(w)

Step(w) ==
    \/ Upsert(w) \/ ReadRow(w) \/ RejectRow(w) \/ SkipMissingRow(w)
    \/ WriteRow(w) \/ Conflict(w) \/ DeleteRow(w) \/ Commit(w)
    \/ CallerFails(w) \/ BreakDeadlock(w)

\* No request in progress and none to be sent.
Finished ==
    /\ \A w \in Worker : pc[w] = "idle"
    /\ todo = {}
    /\ UNCHANGED vars

Next ==
    \/ \E w \in Worker : Step(w)
    \/ \E w \in Worker, r \in Request : Send(w, r)
    \/ Finished

Spec == Init /\ [][Next]_vars

\* Node runs every promise to its end and PostgreSQL queues lock requests
\* first come, first served, so a transaction that can go on again and again
\* goes on.  Clients owe nothing.
FairSpec == Spec /\ \A w \in Worker : SF_vars(Step(w))
-----------------------------------------------------------------------------
(***************************************************************************)
(* Properties.                                                             *)
(***************************************************************************)
Requests(i) == {r \in Request : \E k \in 1..Len(r.lines) : r.lines[k].item = i}

\* Items only the version-checked writers touch, and items whose stock only
\* the SALE test guards.
VersionedOnly(i) == \A r \in Requests(i) : r.kind \in Versioned \cup {"REMOVE"}

OnlySalesTake(i) ==
    \A r \in Requests(i) :
       /\ r.kind # "COMMIT"
       /\ \A k \in 1..Len(r.lines) : r.kind # "SALE" => r.lines[k].qty >= 0

\* What the ledger says of the row there is now: the entries made since the
\* one before it was deleted.
Since ==
    [i \in Item |-> [qty |-> ledger[i].qty - past[i].qty, alloc |-> ledger[i].alloc - past[i].alloc]]

\* The reserved quantity of a row is what the ALLOCATION, COMMIT and
\* DEALLOCATION entries made since there is that row add up to, however the
\* increments of concurrent orders interleave with the versioned writers,
\* retries and deletions.
AllocatedMatchesLedger ==
    \A i \in Item : rows[i] # NoRow => rows[i].allocated = Since[i].alloc

\* What is reserved of a product is what was allocated less what was committed
\* or released by whole requests: no line of an order is reserved, shipped or
\* released without its others, whatever attempts and aborted transactions
\* came between.  A release that is asked for twice counts twice.  (A row
\* deleted by InventoryService.remove takes its reservations with it, so only
\* rows that were never deleted count.)
LineTotal(lines, i) ==
    MapThenSumSet(LAMBDA k : IF lines[k].item = i THEN lines[k].qty ELSE 0, DOMAIN lines)

Reserves(r, i) ==
    CASE r.kind = "ALLOCATE" -> LineTotal(r.lines, i)
      [] r.kind \in {"COMMIT", "DEALLOCATE"} -> -LineTotal(r.lines, i)
      [] OTHER -> 0

AllocatedIsOutstanding ==
    \A i \in Item :
       rows[i] # NoRow /\ created[i] = 1 =>
          rows[i].allocated = MapThenSumSet(LAMBDA r : Reserves(r, i), served)

\* With version-checked writers only, no update is lost: the quantity of a
\* row is the sum of the ledger entries made since there is that row.
VersionedQuantityMatchesLedger ==
    \A i \in Item :
       VersionedOnly(i) /\ rows[i] # NoRow => rows[i].quantity = Since[i].qty

\* Two tills that race for the last piece sell it once: what was sold of a
\* row's stock never exceeds what was received of it.
NeverOversold == \A i \in Item : OnlySalesTake(i) => Since[i].qty >= 0

\* The version of a row is worth having: no movement that checks it is lost,
\* and the last piece is sold once.
VersionTellsLedger == VersionedQuantityMatchesLedger /\ NeverOversold

\* A request enters the ledger all at once and once, however many attempts
\* it took and however many of its lines an attempt had already written.
\* (deallocate may pass over lines.)
EntersTheLedgerOnce ==
    [][ \A w \in Worker :
          pc[w] = "commit" /\ pc'[w] = "idle" /\ ledger' # ledger
             /\ job[w].kind # "DEALLOCATE" =>
          \A i \in Item :
             LET n == MapThenSumSet(
                        LAMBDA k : IF job[w].lines[k].item = i
                                   THEN Change(job[w], k).qty ELSE 0,
                        DOMAIN job[w].lines)
             IN ledger'[i].qty = ledger[i].qty + n ]_vars

\* Every request ends: no retry goes on for ever and no transactions wait on
\* each other for ever.
RequestsEnd == \A w \in Worker : pc[w] # "idle" ~> pc[w] = "idle"

\* docs/TestingStrategy.md, LAW-01: "Inventory quantity = Sum of all ledger
\* entries", for every row.  The absolute write of a versioned writer loses
\* an increment that did not touch the version (and a row that is deleted and
\* made again starts from nothing, its ledger does not).
InventoryEqualsLedger ==
    \A i \in Item : rows[i] # NoRow => rows[i].quantity = ledger[i].qty
=============================================================================

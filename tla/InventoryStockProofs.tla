------------------------ MODULE InventoryStockProofs ------------------------
(***************************************************************************)
(* Proofs about InventoryStock, for any sets of items, workers, requests   *)
(* and attempts.                                                           *)
(***************************************************************************)
EXTENDS InventoryStock, SumTheorems

\* A request starts at its first line, and only a CREATE upserts.
Starts ==
    \A w \in Worker :
       /\ pc[w] = "idle" => line[w] = 1
       /\ pc[w] = "upsert" => job[w].kind = "CREATE"

Typing == TypeOK /\ Starts

\* Two transactions never hold uncommitted writes of the same row.
OneWriter ==
    \A v, w \in Worker : \A i \in Item :
       own[v][i] # Clean /\ own[w][i] # Clean => v = w

\* The pending entries of a row the transaction has not written are empty,
\* and only a transaction that can still commit has written rows.
CleanHasNoEntry ==
    \A w \in Worker : \A i \in Item : own[w][i] = Clean => entry[w][i].alloc = 0

NothingToCommit ==
    \A w \in Worker :
       pc[w] \in {"idle", "upsert"} \/ job[w].kind = "REMOVE" => \A i \in Item : own[w][i] = Clean

\* An uncommitted row is ahead of the ledger by its own pending entries.
OwnAheadOfLedger ==
    \A w \in Worker : \A i \in Item :
       own[w][i] # Clean => own[w][i].allocated = Since[i].alloc + entry[w][i].alloc

\* A missing row reserves nothing.
MissingReservesNothing ==
    \A i \in Item : rows[i] = NoRow => Since[i].alloc = 0

\* The inductive invariant behind AllocatedMatchesLedger.
Reserved ==
    /\ OneWriter
    /\ CleanHasNoEntry
    /\ NothingToCommit
    /\ OwnAheadOfLedger
    /\ MissingReservesNothing
    /\ AllocatedMatchesLedger

-----------------------------------------------------------------------------
\* What the assumptions say of one request.
LEMMA RequestFacts ==
    ASSUME NEW r \in Request
    PROVE  /\ r \in RequestRecord
           /\ r.kind \in Kind /\ r.ref \in Ref /\ r.lines \in Seq(Line)
           /\ Len(r.lines) \in Nat /\ Len(r.lines) >= 1
           /\ \A k \in 1..Len(r.lines) : r.lines[k].item \in Item /\ r.lines[k].qty \in Int
           /\ r # NoRequest
           /\ r.kind \in {"CREATE", "REMOVE"} => Len(r.lines) = 1
<1>1. r \in RequestRecord /\ Len(r.lines) >= 1 /\ r # NoRequest
      /\ (r.kind \in {"CREATE", "REMOVE"} => Len(r.lines) = 1)
  BY RequestAssumption, ValueAssumption
<1>2. r.kind \in Kind /\ r.ref \in Ref /\ r.lines \in Seq(Line)
  BY <1>1 DEF RequestRecord
<1>3. Len(r.lines) \in Nat
  BY <1>2
<1>4. \A k \in 1..Len(r.lines) : r.lines[k].item \in Item /\ r.lines[k].qty \in Int
  <2>1. \A k \in 1..Len(r.lines) : r.lines[k] \in Line
    BY <1>2
  <2> QED
    BY <2>1 DEF Line
<1> QED
  BY <1>1, <1>2, <1>3, <1>4

\* The change of a line is an effect.
LEMMA ChangeType ==
    ASSUME NEW r \in Request, NEW k \in 1..Len(r.lines)
    PROVE  Change(r, k) \in Effect
BY RequestFacts DEF Change, Effect

\* The record `Nothing` and sums of effects are effects.
LEMMA EffectType ==
    /\ Nothing \in Effect
    /\ \A e, f \in Effect : Plus(e, f) \in Effect
BY DEF Nothing, Plus, Effect

\* What the ledger says of a row is a number on either side, and stays while
\* the ledger and the last deletion do.
LEMMA SinceInt ==
    ASSUME TypeOK
    PROVE  \A k \in Item : Since[k].qty \in Int /\ Since[k].alloc \in Int
<1>1. \A k \in Item : ledger[k] \in Effect /\ past[k] \in Effect
  BY DEF TypeOK
<1> QED
  BY <1>1 DEF Since, Effect

LEMMA SinceFacts ==
    ASSUME TypeOK, NEW i \in Item
    PROVE  /\ ledger'[i] = ledger[i] /\ past'[i] = past[i] => Since'[i] = Since[i]
           /\ past'[i] = ledger[i] /\ ledger'[i] = ledger[i] => Since'[i].qty = 0 /\ Since'[i].alloc = 0
<1>1. ledger[i] \in Effect /\ past[i] \in Effect
  BY DEF TypeOK
<1> QED
  BY <1>1 DEF Since, Effect

LEMMA OvertakenType ==
    ASSUME TypeOK, NEW items
    PROVE  Overtaken(items) \in [Worker -> BOOLEAN]
BY DEF Overtaken, TypeOK

\* In a state where the worker has a line, the line is one of its request's.
LEMMA LineFacts ==
    ASSUME TypeOK, NEW w \in Worker, pc[w] \in {"upsert", "read", "write"}
    PROVE  /\ job[w] \in Request
           /\ line[w] \in 1..Len(job[w].lines)
           /\ At(w).item \in Item /\ At(w).qty \in Int
<1>1. job[w] \in Request /\ line[w] \in 1..Len(job[w].lines)
  BY DEF TypeOK
<1> QED
  BY <1>1, RequestFacts DEF At

\* The first step of a request, when it is not its upsert, needs a line.
LEMMA FirstStepType ==
    ASSUME NEW kind \in Kind
    PROVE  /\ FirstStep(kind) \in {"upsert", "read", "write"}
           /\ FirstStep(kind) = "upsert" => kind = "CREATE"
BY DEF FirstStep

\* What a write of w leaves when it applies to `now` with change e: the four
\* cases of Written.
WriteResult(w, now, e) ==
    LET i == At(w).item IN
    \/ /\ job[w].kind \in Reserving
       /\ now \in Row
       /\ Written(w, i) = [now EXCEPT !.quantity = @ + e.qty, !.allocated = @ + e.alloc]
    \/ /\ job[w].kind \notin Reserving
       /\ now = NoRow
       /\ Written(w, i) = FreshRow(i, e.qty)
    \/ /\ job[w].kind = "RESTOCK"
       /\ now \in Row
       /\ Written(w, i) = [now EXCEPT !.quantity = @ + e.qty]
    \/ /\ job[w].kind \in Versioned
       /\ now \in Row /\ seen[w] \in Row
       /\ now.id = seen[w].id /\ now.version = seen[w].version
       /\ Written(w, i) =
            [now EXCEPT !.quantity = seen[w].quantity + e.qty, !.version = @ + 1]

LEMMA WrittenCases ==
    ASSUME TypeOK, NEW w \in Worker, pc[w] = "write", job[w].kind # "REMOVE",
           Finds(w, At(w).item)
    PROVE  /\ Visible(w, At(w).item) \in Row \cup {NoRow}
           /\ Change(job[w], line[w]) \in Effect
           /\ WriteResult(w, Visible(w, At(w).item), Change(job[w], line[w]))
<1> DEFINE i == At(w).item
           now == Visible(w, i)
           e == Change(job[w], line[w])
<1>1. i \in Item /\ e \in Effect /\ job[w].kind \in Kind
  BY LineFacts, ChangeType, RequestFacts
<1>2. now \in Row \cup {NoRow} /\ seen[w] \in Row \cup {NoRow}
  BY <1>1 DEF TypeOK, Visible
<1>4. CASE job[w].kind \in Reserving
  <2>1. now \in Row
    BY <1>2, <1>4 DEF Finds, Versioned, Reserving
  <2>2. Written(w, i) = [now EXCEPT !.quantity = @ + e.qty, !.allocated = @ + e.alloc]
    BY <1>4, <2>1, ValueAssumption DEF Written, Reserving
  <2> QED
    BY <1>1, <1>2, <1>4, <2>1, <2>2 DEF WriteResult
<1>5. CASE job[w].kind \notin Reserving /\ now = NoRow
  <2>1. Written(w, i) = FreshRow(i, e.qty)
    BY <1>5 DEF Written
  <2> QED
    BY <1>1, <1>2, <1>5, <2>1 DEF WriteResult
<1>6. CASE job[w].kind = "RESTOCK" /\ now # NoRow
  <2>1. Written(w, i) = [now EXCEPT !.quantity = @ + e.qty]
    BY <1>6 DEF Written, Reserving
  <2> QED
    BY <1>1, <1>2, <1>6, <2>1 DEF WriteResult
<1>7. CASE job[w].kind \notin Reserving \cup {"RESTOCK"} /\ now # NoRow
  <2>1. job[w].kind \in Versioned
    BY <1>1, <1>7 DEF Versioned, Kind
  <2>2. seen[w] # NoRow /\ now.id = seen[w].id /\ now.version = seen[w].version
    BY <2>1, <1>7 DEF Finds, Versioned
  <2>3. Written(w, i) =
          [now EXCEPT !.quantity = seen[w].quantity + e.qty, !.version = @ + 1]
    BY <1>7 DEF Written
  <2> QED
    BY <1>1, <1>2, <1>7, <2>1, <2>2, <2>3 DEF WriteResult
<1> QED
  BY <1>4, <1>5, <1>6, <1>7

\* The updates of a row, and a fresh row, are rows.
LEMMA RowUpdates ==
    ASSUME NEW row \in Row, NEW q \in Int, NEW a \in Int, NEW v \in Nat
    PROVE  /\ [row EXCEPT !.quantity = q, !.allocated = a] \in Row
           /\ [row EXCEPT !.quantity = q] \in Row
           /\ [row EXCEPT !.quantity = q, !.version = v] \in Row
BY DEF Row

LEMMA FreshRowType ==
    ASSUME NEW i \in Item, created[i] \in Nat, NEW n \in Int
    PROVE  FreshRow(i, n) \in Row
BY DEF FreshRow, Row

\* What a write leaves is a row.
LEMMA WrittenType ==
    ASSUME TypeOK, NEW w \in Worker, pc[w] = "write", job[w].kind # "REMOVE",
           Finds(w, At(w).item)
    PROVE  Written(w, At(w).item) \in Row
<1>1. created[At(w).item] \in Nat
  BY LineFacts DEF TypeOK
<1>2. PICK now \in Row \cup {NoRow}, e \in Effect : WriteResult(w, now, e)
  BY WrittenCases
<1>3. e.qty \in Int /\ e.alloc \in Int
  BY DEF Effect
<1>4. \A row \in Row : row.quantity \in Int /\ row.allocated \in Int /\ row.version \in Nat
  BY DEF Row
<1>5. CASE now = NoRow
  BY <1>1, <1>2, <1>3, <1>5, FreshRowType, LineFacts, ValueAssumption DEF WriteResult
<1>6. CASE now \in Row
  <2>1. now.quantity + e.qty \in Int /\ now.allocated + e.alloc \in Int /\ now.version + 1 \in Nat
    BY <1>3, <1>4, <1>6
  <2>2. seen[w] \in Row => seen[w].quantity + e.qty \in Int
    BY <1>3, <1>4
  <2>3. [now EXCEPT !.quantity = now.quantity + e.qty,
                    !.allocated = now.allocated + e.alloc] \in Row
    BY <1>6, <2>1, RowUpdates
  <2>4. [now EXCEPT !.quantity = now.quantity + e.qty] \in Row
    BY <1>6, <2>1, RowUpdates
  <2>5. seen[w] \in Row => [now EXCEPT !.quantity = seen[w].quantity + e.qty,
                                       !.version = now.version + 1] \in Row
    BY <1>6, <2>1, <2>2, RowUpdates
  <2> QED
    BY <1>2, <1>6, <2>3, <2>4, <2>5, ValueAssumption DEF WriteResult
<1> QED
  BY <1>5, <1>6

\* What the job of a worker that is not idle is.
LEMMA JobFacts ==
    ASSUME TypeOK, NEW w \in Worker, pc[w] # "idle"
    PROVE  job[w] \in Request /\ Len(job[w].lines) \in Nat /\ 1 \in 1..Len(job[w].lines)
<1>1. job[w] \in Request
  BY DEF TypeOK
<1> QED
  BY <1>1, RequestFacts

\* A throw keeps the typing: the request runs again from its first line, or
\* the worker is idle.
LEMMA ThrowTyping ==
    ASSUME Typing, NEW w \in Worker, pc[w] # "idle", Throw(w)
    PROVE  Typing'
<1> DEFINE next == IF job[w].kind = "CREATE" THEN "read" ELSE FirstStep(job[w].kind)
<1>1. /\ job[w] \in Request /\ 1 \in 1..Len(job[w].lines)
      /\ job[w].kind \in Kind
      /\ job[w] # NoRequest
  BY JobFacts, RequestFacts DEF Typing
<1>2. next \in {"read", "write"}
  BY <1>1, FirstStepType
<1>3. ASSUME NEW n \in {"idle", "read", "write"}, Rollback(w, n),
             attempt' \in [Worker -> Nat],
             \/ n # "idle" /\ job' = job
             \/ n = "idle" /\ job' = [job EXCEPT ![w] = NoRequest]
      PROVE  Typing'
  <2> USE <1>3
  <2>1. /\ rows' \in [Item -> Row \cup {NoRow}]
        /\ created' \in [Item -> Nat]
        /\ ledger' \in [Item -> Effect]
        /\ past' \in [Item -> Effect]
        /\ served' \in SUBSET Request
        /\ todo' \in SUBSET Request
    BY DEF Rollback, shared, Typing, TypeOK
  <2>2. /\ pc' \in [Worker -> {"idle", "upsert", "read", "write", "commit"}]
        /\ job' \in [Worker -> Request \cup {NoRequest}]
        /\ line' \in [Worker -> Nat]
        /\ seen' \in [Worker -> Row \cup {NoRow}]
        /\ stale' \in [Worker -> BOOLEAN]
    BY DEF Rollback, Typing, TypeOK
  <2>3. own' \in [Worker -> [Item -> Row \cup {Clean}]]
    BY DEF Rollback, Typing, TypeOK
  <2>4. entry' \in [Worker -> [Item -> Effect]]
    BY EffectType DEF Rollback, Typing, TypeOK
  <2>5. \A v \in Worker : pc'[v] = "idle" <=> job'[v] = NoRequest
    BY <1>1 DEF Rollback, Typing, TypeOK
  <2>6. \A v \in Worker : pc'[v] \in {"upsert", "read", "write"} => line'[v] \in 1..Len(job'[v].lines)
    BY <1>1 DEF Rollback, Typing, TypeOK
  <2>7. Starts'
    BY DEF Rollback, Typing, TypeOK, Starts
  <2> QED
    BY <2>1, <2>2, <2>3, <2>4, <2>5, <2>6, <2>7 DEF Typing, TypeOK
<1>4. CASE attempt[w] < Attempts[job[w].kind] /\ attempt' = [attempt EXCEPT ![w] = @ + 1]
           /\ UNCHANGED job /\ Rollback(w, next)
  <2>1. attempt' \in [Worker -> Nat]
    BY <1>4 DEF Typing, TypeOK
  <2> QED
    BY <1>2, <1>3, <1>4, <2>1
<1>5. CASE attempt' = [attempt EXCEPT ![w] = 1] /\ job' = [job EXCEPT ![w] = NoRequest]
           /\ Rollback(w, "idle")
  <2>1. attempt' \in [Worker -> Nat]
    BY <1>5 DEF Typing, TypeOK
  <2> QED
    BY <1>3, <1>5, <2>1
<1> QED
  BY <1>4, <1>5 DEF Throw

\* Moving on to the next line keeps the worker within its request.
LEMMA AdvanceTyping ==
    ASSUME Typing, NEW w \in Worker, pc[w] \in {"read", "write"}, Advance(w),
           UNCHANGED job
    PROVE  /\ pc' \in [Worker -> {"idle", "upsert", "read", "write", "commit"}]
           /\ line' \in [Worker -> Nat]
           /\ \A v \in Worker : pc'[v] = "idle" <=> job'[v] = NoRequest
           /\ \A v \in Worker : pc'[v] \in {"upsert", "read", "write"} => line'[v] \in 1..Len(job'[v].lines)
           /\ Starts'
<1>1. job[w] \in Request /\ Len(job[w].lines) \in Nat /\ line[w] \in 1..Len(job[w].lines)
  BY JobFacts, LineFacts DEF Typing
<1>2. line[w] < Len(job[w].lines) => line[w] + 1 \in 1..Len(job[w].lines)
  BY <1>1
<1>3. line' \in [Worker -> Nat]
  BY <1>1 DEF Advance, Typing, TypeOK
<1>4. /\ pc' \in [Worker -> {"idle", "upsert", "read", "write", "commit"}]
      /\ \A v \in Worker : pc'[v] = "idle" <=> job'[v] = NoRequest
      /\ Starts'
  BY <1>1, ValueAssumption DEF Advance, Typing, TypeOK, Starts
<1>5. \A v \in Worker : pc'[v] \in {"upsert", "read", "write"} => line'[v] \in 1..Len(job'[v].lines)
  BY <1>1, <1>2 DEF Advance, Typing, TypeOK
<1> QED
  BY <1>3, <1>4, <1>5

-----------------------------------------------------------------------------
LEMMA InitTyping == Init => Typing
<1> SUFFICES ASSUME Init PROVE Typing
  OBVIOUS
<1>1. [id |-> 1, quantity |-> OpeningStock, allocated |-> 0, version |-> 0] \in Row
  BY ValueAssumption DEF Row
<1>2. [qty |-> OpeningStock, alloc |-> 0] \in Effect
  BY ValueAssumption DEF Effect
<1>3. todo \in SUBSET Request
  BY RequestAssumption DEF Init
<1> QED
  BY <1>1, <1>2, <1>3, EffectType, ValueAssumption DEF Init, Typing, TypeOK, Starts

\* Every action of a worker keeps the typing.
LEMMA StepTyping ==
    ASSUME Typing, NEW w \in Worker, Step(w)
    PROVE  Typing'
<1> USE DEF Typing, shared
<1> DEFINE i == At(w).item
<1>1. CASE Upsert(w)
  <2>1. pc[w] = "upsert" /\ i \in Item /\ job[w] \in Request /\ line[w] \in 1..Len(job[w].lines)
    BY <1>1, LineFacts DEF Upsert
  <2>2. line[w] = 1
    BY <2>1, RequestFacts DEF Starts
  <2>3. FreshRow(i, 0) \in Row
    BY <2>1, FreshRowType DEF TypeOK
  <2>4. rows' \in [Item -> Row \cup {NoRow}] /\ created' \in [Item -> Nat]
        /\ stale' \in [Worker -> BOOLEAN]
    <3>1. CASE rows[i] = NoRow
      <4>1. rows' = [rows EXCEPT ![i] = FreshRow(i, 0)] /\ created' = [created EXCEPT ![i] = @ + 1]
        BY <1>1, <3>1 DEF Upsert
      <4>2. stale' = Overtaken({i})
        BY <1>1, <3>1 DEF Upsert
      <4> QED
        BY <2>1, <2>3, <4>1, <4>2, OvertakenType DEF TypeOK
    <3>2. CASE rows[i] # NoRow
      BY <1>1, <3>2 DEF Upsert, TypeOK
    <3> QED
      BY <3>1, <3>2
  <2>5. /\ pc' \in [Worker -> {"idle", "upsert", "read", "write", "commit"}]
        /\ job' \in [Worker -> Request \cup {NoRequest}]
        /\ \A v \in Worker : pc'[v] = "idle" <=> job'[v] = NoRequest
        /\ \A v \in Worker : pc'[v] \in {"upsert", "read", "write"} => line'[v] \in 1..Len(job'[v].lines)
        /\ Starts'
    <3>1. CASE At(w).qty > 0
      <4>1. pc' = [pc EXCEPT ![w] = "read"] /\ job' = job /\ line' = line
        BY <1>1, <3>1 DEF Upsert
      <4>2. /\ pc \in [Worker -> {"idle", "upsert", "read", "write", "commit"}]
            /\ job \in [Worker -> Request \cup {NoRequest}]
            /\ \A v \in Worker : pc[v] = "idle" <=> job[v] = NoRequest
            /\ \A v \in Worker : pc[v] \in {"upsert", "read", "write"} => line[v] \in 1..Len(job[v].lines)
        BY DEF TypeOK
      <4>3. pc'[w] = "read" /\ \A v \in Worker \ {w} : pc'[v] = pc[v]
        BY <4>1, <4>2
      <4>4. Starts'
        BY <4>1, <4>3 DEF Starts
      <4> QED
        BY <2>1, <4>1, <4>2, <4>3, <4>4
    <3>2. CASE ~(At(w).qty > 0)
      <4>1. /\ pc' = [pc EXCEPT ![w] = "idle"] /\ job' = [job EXCEPT ![w] = NoRequest]
            /\ line' = line
        BY <1>1, <3>2 DEF Upsert
      <4> QED
        BY <2>2, <4>1, ValueAssumption DEF TypeOK, Starts
    <3> QED
      BY <3>1, <3>2
  <2> QED
    BY <1>1, <2>4, <2>5 DEF Upsert, TypeOK
<1>2. CASE ReadRow(w)
  <2>1. Visible(w, i) \in Row \cup {NoRow}
    <3>1. i \in Item
      BY <1>2, LineFacts DEF ReadRow
    <3> QED
      BY <1>2, <3>1 DEF ReadRow, Visible, TypeOK, Accepts
  <2> QED
    BY <1>2, <2>1 DEF ReadRow, TypeOK, Starts
<1>3. CASE RejectRow(w)
  BY <1>3, ThrowTyping DEF RejectRow
<1>4. CASE SkipMissingRow(w)
  BY <1>4, AdvanceTyping DEF SkipMissingRow, TypeOK
<1>5. CASE WriteRow(w)
  <2>1. i \in Item /\ job[w] \in Request /\ line[w] \in 1..Len(job[w].lines)
    BY <1>5, LineFacts DEF WriteRow
  <2>2. Written(w, i) \in Row /\ Change(job[w], line[w]) \in Effect
    BY <1>5, <2>1, WrittenType, ChangeType DEF WriteRow
  <2>3. own' \in [Worker -> [Item -> Row \cup {Clean}]]
    BY <1>5, <2>1, <2>2 DEF WriteRow, TypeOK
  <2>4. Plus(entry[w][i], Change(job[w], line[w])) \in Effect
    BY <2>1, <2>2, EffectType DEF TypeOK
  <2>5. entry' \in [Worker -> [Item -> Effect]]
    BY <1>5, <2>1, <2>4 DEF WriteRow, TypeOK
  <2>6. Advance(w) /\ UNCHANGED job /\ pc[w] = "write"
    BY <1>5 DEF WriteRow
  <2> QED
    BY <1>5, <2>3, <2>5, <2>6, AdvanceTyping DEF WriteRow, TypeOK
<1>6. CASE Conflict(w)
  BY <1>6, ThrowTyping DEF Conflict
<1>7. CASE DeleteRow(w)
  <2>1. i \in Item /\ job[w] \in Request /\ line[w] = 1
    BY <1>7, LineFacts, RequestFacts DEF DeleteRow
  <2> QED
    BY <1>7, <2>1, EffectType, OvertakenType, ValueAssumption DEF DeleteRow, TypeOK, Starts
<1>8. CASE Commit(w)
  <2>1. job[w] \in Request /\ job[w].ref \in Ref
    BY <1>8, JobFacts, RequestFacts DEF Commit
  <2>2. rows' \in [Item -> Row \cup {NoRow}]
    BY <1>8, ValueAssumption DEF Commit, TypeOK
  <2>3. created' \in [Item -> Nat]
    BY <1>8 DEF Commit, TypeOK
  <2>4. ledger' \in [Item -> Effect]
    BY <1>8, EffectType DEF Commit, TypeOK
  <2>5. past' \in [Item -> Effect] /\ served' \in SUBSET Request
    BY <1>8, <2>1 DEF Commit, TypeOK
  <2>6. /\ todo' \in SUBSET Request
        /\ pc' \in [Worker -> {"idle", "upsert", "read", "write", "commit"}]
        /\ job' \in [Worker -> Request \cup {NoRequest}]
        /\ line' \in [Worker -> Nat]
        /\ attempt' \in [Worker -> Nat]
        /\ seen' \in [Worker -> Row \cup {NoRow}]
        /\ stale' \in [Worker -> BOOLEAN]
    BY <1>8, OvertakenType DEF Commit, TypeOK
  <2>7. own' \in [Worker -> [Item -> Row \cup {Clean}]] /\ entry' \in [Worker -> [Item -> Effect]]
    BY <1>8, EffectType DEF Commit, TypeOK
  <2>8. /\ \A v \in Worker : pc'[v] = "idle" <=> job'[v] = NoRequest
        /\ \A v \in Worker : pc'[v] \in {"upsert", "read", "write"} => line'[v] \in 1..Len(job'[v].lines)
        /\ Starts'
    BY <1>8 DEF Commit, TypeOK, Starts
  <2> QED
    BY <2>2, <2>3, <2>4, <2>5, <2>6, <2>7, <2>8 DEF TypeOK
<1>9. CASE CallerFails(w)
  BY <1>9, ThrowTyping DEF CallerFails
<1>10. CASE BreakDeadlock(w)
  BY <1>10, ThrowTyping DEF BreakDeadlock, Waits
<1> QED
  BY <1>1, <1>2, <1>3, <1>4, <1>5, <1>6, <1>7, <1>8, <1>9, <1>10 DEF Step

LEMMA SendTyping ==
    ASSUME Typing, NEW w \in Worker, NEW r \in Request, Send(w, r)
    PROVE  Typing'
<1>1. /\ 1 \in 1..Len(r.lines) /\ r # NoRequest
      /\ FirstStep(r.kind) \in {"upsert", "read", "write"}
      /\ FirstStep(r.kind) = "upsert" => r.kind = "CREATE"
  BY RequestFacts, FirstStepType
<1> QED
  BY <1>1 DEF Send, shared, Typing, TypeOK, Starts

LEMMA NextTyping == Typing /\ [Next]_vars => Typing'
<1> SUFFICES ASSUME Typing, [Next]_vars PROVE Typing'
  OBVIOUS
<1>1. CASE UNCHANGED vars
  BY <1>1 DEF vars, Typing, TypeOK, Starts, At
<1>2. CASE Next
  BY <1>1, <1>2, StepTyping, SendTyping DEF Next, Finished
<1> QED
  BY <1>1, <1>2

\* Every reachable state is well typed: in particular no worker ever runs past
\* the lines of its request.
THEOREM TypeCorrect == Spec => []TypeOK
<1>1. Spec => []Typing
  BY InitTyping, NextTyping, PTL DEF Spec
<1> QED
  BY <1>1, PTL DEF Typing

-----------------------------------------------------------------------------
LEMMA InitReserved == Init => Reserved
BY ValueAssumption DEF Init, Reserved, OneWriter, CleanHasNoEntry, NothingToCommit,
   OwnAheadOfLedger, MissingReservesNothing, AllocatedMatchesLedger, Nothing, Since

\* A rollback forgets the uncommitted writes together with their entries.
LEMMA ThrowReserved ==
    ASSUME Typing, Reserved, NEW w \in Worker, Throw(w)
    PROVE  Reserved'
<1>1. /\ rows' = rows /\ Since' = Since
      /\ own' = [own EXCEPT ![w] = [i \in Item |-> Clean]]
      /\ entry' = [entry EXCEPT ![w] = [i \in Item |-> Nothing]]
      /\ \A v \in Worker \ {w} : pc'[v] = pc[v] /\ job'[v] = job[v]
  BY DEF Throw, Rollback, shared, Typing, TypeOK, Since
<1>2. /\ \A i \in Item : own'[w][i] = Clean /\ entry'[w][i].alloc = 0
      /\ \A v \in Worker \ {w} : own'[v] = own[v] /\ entry'[v] = entry[v]
  BY <1>1 DEF Typing, TypeOK, Nothing
<1>3. OneWriter'
  BY <1>2 DEF Reserved, OneWriter
<1>4. CleanHasNoEntry' /\ OwnAheadOfLedger'
  BY <1>1, <1>2 DEF Reserved, CleanHasNoEntry, OwnAheadOfLedger
<1>5. NothingToCommit'
  BY <1>1, <1>2 DEF Reserved, NothingToCommit
<1>6. MissingReservesNothing' /\ AllocatedMatchesLedger'
  BY <1>1 DEF Reserved, MissingReservesNothing, AllocatedMatchesLedger
<1> QED
  BY <1>3, <1>4, <1>5, <1>6 DEF Reserved

\* Only COMMIT, ALLOCATE and DEALLOCATE change the reservation.
LEMMA OnlyReservingReserves ==
    ASSUME NEW r \in Request, NEW k \in 1..Len(r.lines), r.kind \notin Reserving
    PROVE  Change(r, k).alloc = 0
BY DEF Change, Reserving

\* The reservation a write leaves is the one it found plus the change its
\* ledger entry records: the safety service increments, and the ledger
\* service's absolute write does not name the column.
LEMMA WrittenReservation ==
    ASSUME TypeOK, NEW w \in Worker, pc[w] = "write", job[w].kind # "REMOVE",
           Finds(w, At(w).item)
    PROVE  LET now == Visible(w, At(w).item)
               e == Change(job[w], line[w])
           IN  Written(w, At(w).item).allocated =
                  (IF now = NoRow THEN 0 ELSE now.allocated) + e.alloc
<1> DEFINE i == At(w).item
           now == Visible(w, i)
           e == Change(job[w], line[w])
<1>1. now \in Row \cup {NoRow} /\ e \in Effect /\ WriteResult(w, now, e)
  BY WrittenCases
<1>2. job[w] \in Request /\ line[w] \in 1..Len(job[w].lines)
  BY LineFacts
<1>3. job[w].kind \notin Reserving => e.alloc = 0
  BY <1>2, OnlyReservingReserves
<1>4. e.alloc \in Int /\ e.qty \in Int
  BY <1>1 DEF Effect
<1>5. now \in Row => now.allocated \in Int /\ now # NoRow
  BY ValueAssumption DEF Row
<1> HIDE DEF i, now, e
<1>6. CASE job[w].kind \in Reserving /\ now \in Row
           /\ Written(w, i) = [now EXCEPT !.quantity = @ + e.qty, !.allocated = @ + e.alloc]
  <2>1. Written(w, i).allocated = now.allocated + e.alloc
    BY <1>6 DEF Row
  <2> QED
    BY <1>5, <1>6, <2>1 DEF i, now, e
<1>7. CASE job[w].kind \notin Reserving /\ now = NoRow /\ Written(w, i) = FreshRow(i, e.qty)
  BY <1>3, <1>7 DEF FreshRow, i, now, e
<1>8. CASE job[w].kind = "RESTOCK" /\ now \in Row
           /\ Written(w, i) = [now EXCEPT !.quantity = @ + e.qty]
  <2>1. Written(w, i).allocated = now.allocated /\ job[w].kind \notin Reserving
    BY <1>8 DEF Row, Reserving
  <2> QED
    BY <1>3, <1>5, <1>8, <2>1 DEF i, now, e
<1>9. CASE job[w].kind \in Versioned /\ now \in Row
           /\ Written(w, i) =
                [now EXCEPT !.quantity = seen[w].quantity + e.qty, !.version = @ + 1]
  <2>1. Written(w, i).allocated = now.allocated /\ job[w].kind \notin Reserving
    BY <1>9 DEF Row, Reserving, Versioned
  <2> QED
    BY <1>3, <1>5, <1>9, <2>1 DEF i, now, e
<1> QED
  BY <1>1, <1>6, <1>7, <1>8, <1>9 DEF WriteResult, i, now, e

LEMMA WriteReserved ==
    ASSUME Typing, Reserved, NEW w \in Worker, WriteRow(w)
    PROVE  Reserved'
<1> DEFINE i == At(w).item
           e == Change(job[w], line[w])
<1>1. /\ i \in Item /\ e \in Effect
      /\ pc[w] = "write" /\ job[w].kind # "REMOVE" /\ ~Locked(w, i) /\ Finds(w, i)
      /\ rows' = rows /\ Since' = Since /\ job' = job
      /\ own' = [own EXCEPT ![w][i] = Written(w, i)]
      /\ entry' = [entry EXCEPT ![w][i] = Plus(@, e)]
      /\ pc'[w] \notin {"idle", "upsert"} /\ \A v \in Worker \ {w} : pc'[v] = pc[v]
  BY LineFacts, ChangeType DEF WriteRow, shared, Advance, Typing, TypeOK, Since
<1>2. /\ own'[w][i] = Written(w, i) /\ entry'[w][i] = Plus(entry[w][i], e)
      /\ \A v \in Worker : \A j \in Item :
            v # w \/ j # i => own'[v][j] = own[v][j] /\ entry'[v][j] = entry[v][j]
  BY <1>1 DEF Typing, TypeOK
<1>3. Written(w, i) # Clean
  BY <1>1, WrittenType, ValueAssumption DEF Typing
<1>4. Written(w, i).allocated = Since[i].alloc + entry[w][i].alloc + e.alloc
  <2>1. Written(w, i).allocated =
           (IF Visible(w, i) = NoRow THEN 0 ELSE Visible(w, i).allocated) + e.alloc
    BY <1>1, WrittenReservation DEF Typing
  <2>2. /\ Since[i].alloc \in Int /\ entry[w][i].alloc \in Int /\ e.alloc \in Int
        /\ own[w][i] \in Row \cup {Clean}
    <3>1. Since[i].alloc \in Int
      BY <1>1, SinceInt DEF Typing
    <3>2. entry[w][i] \in Effect /\ own[w][i] \in Row \cup {Clean}
      BY <1>1 DEF Typing, TypeOK
    <3> QED
      BY <1>1, <3>1, <3>2 DEF Effect
  <2>3. (IF Visible(w, i) = NoRow THEN 0 ELSE Visible(w, i).allocated)
           = Since[i].alloc + entry[w][i].alloc
    <3>1. CASE own[w][i] # Clean
      BY <1>1, <2>2, <3>1, ValueAssumption DEF Visible, Reserved, OwnAheadOfLedger
    <3>2. CASE own[w][i] = Clean
      BY <1>1, <2>2, <3>2 DEF Visible, Reserved, CleanHasNoEntry, MissingReservesNothing,
                              AllocatedMatchesLedger
    <3> QED
      BY <3>1, <3>2
  <2> QED
    BY <2>1, <2>2, <2>3
<1>5. entry'[w][i].alloc = entry[w][i].alloc + e.alloc
  BY <1>2 DEF Plus
<1>6. OneWriter'
  BY <1>1, <1>2 DEF Reserved, OneWriter, Locked
<1>7. CleanHasNoEntry'
  BY <1>2, <1>3 DEF Reserved, CleanHasNoEntry
<1>8. NothingToCommit'
  BY <1>1, <1>2 DEF Reserved, NothingToCommit
<1>9. OwnAheadOfLedger'
  <2>1. own'[w][i].allocated = Since'[i].alloc + entry'[w][i].alloc
    <3>1. Since[i].alloc \in Int /\ entry[w][i].alloc \in Int /\ e.alloc \in Int
      <4>1. Since[i].alloc \in Int
        BY <1>1, SinceInt DEF Typing
      <4>2. entry[w][i] \in Effect
        BY <1>1 DEF Typing, TypeOK
      <4> QED
        BY <1>1, <4>1, <4>2 DEF Effect
    <3> HIDE DEF e, i
    <3> QED
      BY <1>1, <1>2, <1>4, <1>5, <3>1
  <2>2. ASSUME NEW v \in Worker, NEW j \in Item, own'[v][j] # Clean, v # w \/ j # i
        PROVE  own'[v][j].allocated = Since'[j].alloc + entry'[v][j].alloc
    BY <1>1, <1>2, <2>2 DEF Reserved, OwnAheadOfLedger
  <2> QED
    BY <2>1, <2>2 DEF OwnAheadOfLedger
<1>10. MissingReservesNothing' /\ AllocatedMatchesLedger'
  BY <1>1 DEF Reserved, MissingReservesNothing, AllocatedMatchesLedger
<1> QED
  BY <1>6, <1>7, <1>8, <1>9, <1>10 DEF Reserved

\* A commit adds what was pending to what the ledger says.
LEMMA CommitSince ==
    ASSUME TypeOK, NEW w \in Worker, NEW j \in Item, ledger'[j] = Plus(ledger[j], entry[w][j]), past' = past
    PROVE  /\ Since'[j].qty = Since[j].qty + entry[w][j].qty
           /\ Since'[j].alloc = Since[j].alloc + entry[w][j].alloc
           /\ Since[j].qty \in Int /\ entry[w][j].qty \in Int
           /\ Since[j].alloc \in Int /\ entry[w][j].alloc \in Int
<1>1. ledger[j] \in Effect /\ past[j] \in Effect /\ entry[w][j] \in Effect
  BY DEF TypeOK
<1>2. /\ ledger[j].qty \in Int /\ past[j].qty \in Int /\ entry[w][j].qty \in Int
      /\ ledger[j].alloc \in Int /\ past[j].alloc \in Int /\ entry[w][j].alloc \in Int
  BY <1>1 DEF Effect
<1>3. /\ ledger'[j].qty = ledger[j].qty + entry[w][j].qty
      /\ ledger'[j].alloc = ledger[j].alloc + entry[w][j].alloc
  BY DEF Plus
<1>4. /\ Since[j].qty = ledger[j].qty - past[j].qty /\ Since'[j].qty = ledger'[j].qty - past[j].qty
      /\ Since[j].alloc = ledger[j].alloc - past[j].alloc /\ Since'[j].alloc = ledger'[j].alloc - past[j].alloc
  BY DEF Since
<1> QED
  BY <1>2, <1>3, <1>4

LEMMA CommitReserved ==
    ASSUME Typing, Reserved, NEW w \in Worker, Commit(w)
    PROVE  Reserved'
<1>1. /\ own' = [own EXCEPT ![w] = [j \in Item |-> Clean]]
      /\ entry' = [entry EXCEPT ![w] = [j \in Item |-> Nothing]]
      /\ rows' = [j \in Item |-> IF own[w][j] # Clean THEN own[w][j] ELSE rows[j]]
      /\ ledger' = [j \in Item |-> Plus(ledger[j], entry[w][j])] /\ past' = past
      /\ \A v \in Worker \ {w} : pc'[v] = pc[v] /\ job'[v] = job[v]
  BY DEF Commit, Typing, TypeOK
<1>2. /\ \A j \in Item : own'[w][j] = Clean /\ entry'[w][j].alloc = 0
      /\ \A v \in Worker \ {w} : own'[v] = own[v] /\ entry'[v] = entry[v]
  BY <1>1 DEF Typing, TypeOK, Nothing
<1>3. \A j \in Item : /\ Since'[j].alloc = Since[j].alloc + entry[w][j].alloc
                      /\ Since[j].alloc \in Int /\ entry[w][j].alloc \in Int
  BY <1>1, CommitSince DEF Typing
<1>4. OneWriter' /\ CleanHasNoEntry' /\ NothingToCommit'
  BY <1>1, <1>2 DEF Reserved, OneWriter, CleanHasNoEntry, NothingToCommit
<1>5. OwnAheadOfLedger'
  <2> SUFFICES ASSUME NEW v \in Worker, NEW j \in Item, own'[v][j] # Clean
               PROVE  own'[v][j].allocated = Since'[j].alloc + entry'[v][j].alloc
    BY DEF OwnAheadOfLedger
  <2>1. v # w /\ own'[v][j] = own[v][j] /\ entry'[v][j] = entry[v][j]
    BY <1>2
  <2>2. own[w][j] = Clean
    BY <2>1 DEF Reserved, OneWriter
  <2>3. Since'[j].alloc = Since[j].alloc
    BY <1>3, <2>2 DEF Reserved, CleanHasNoEntry
  <2> QED
    BY <2>1, <2>3 DEF Reserved, OwnAheadOfLedger
<1>6. MissingReservesNothing' /\ AllocatedMatchesLedger'
  <2> SUFFICES ASSUME NEW j \in Item
               PROVE  /\ rows'[j] = NoRow => Since'[j].alloc = 0
                      /\ rows'[j] # NoRow => rows'[j].allocated = Since'[j].alloc
    BY DEF MissingReservesNothing, AllocatedMatchesLedger
  <2>1. CASE own[w][j] # Clean
    <3>1. rows'[j] = own[w][j] /\ own[w][j] \in Row
      BY <1>1, <2>1 DEF Typing, TypeOK
    <3> QED
      BY <1>3, <2>1, <3>1, ValueAssumption DEF Reserved, OwnAheadOfLedger
  <2>2. CASE own[w][j] = Clean
    <3>1. rows'[j] = rows[j] /\ Since'[j].alloc = Since[j].alloc
      BY <1>1, <1>3, <2>2 DEF Reserved, CleanHasNoEntry
    <3> QED
      BY <3>1 DEF Reserved, MissingReservesNothing, AllocatedMatchesLedger
  <2> QED
    BY <2>1, <2>2
<1> QED
  BY <1>4, <1>5, <1>6 DEF Reserved

LEMMA DeleteReserved ==
    ASSUME Typing, Reserved, NEW w \in Worker, DeleteRow(w)
    PROVE  Reserved'
<1> DEFINE i == At(w).item
<1>1. /\ i \in Item /\ job[w].kind = "REMOVE" /\ ~Locked(w, i)
      /\ rows' = [rows EXCEPT ![i] = NoRow] /\ past' = [past EXCEPT ![i] = ledger[i]] /\ ledger' = ledger
      /\ own' = own /\ entry' = entry
      /\ \A v \in Worker \ {w} : pc'[v] = pc[v] /\ job'[v] = job[v]
  BY LineFacts DEF DeleteRow, Typing, TypeOK
<1>2. \A v \in Worker : own[v][i] = Clean
  BY <1>1 DEF Locked, Reserved, NothingToCommit
<1>3. /\ rows'[i] = NoRow /\ Since'[i].alloc = 0
      /\ \A j \in Item \ {i} : rows'[j] = rows[j] /\ Since'[j] = Since[j]
  <2>1. /\ rows'[i] = NoRow /\ past'[i] = ledger[i]
        /\ \A j \in Item \ {i} : rows'[j] = rows[j] /\ past'[j] = past[j]
    BY <1>1 DEF Typing, TypeOK
  <2> QED
    BY <1>1, <2>1, SinceFacts DEF Typing
<1>4. OneWriter' /\ CleanHasNoEntry'
  BY <1>1 DEF Reserved, OneWriter, CleanHasNoEntry
<1>5. NothingToCommit'
  BY <1>1 DEF Reserved, NothingToCommit
<1>6. OwnAheadOfLedger'
  BY <1>1, <1>2, <1>3 DEF Reserved, OwnAheadOfLedger
<1>7. MissingReservesNothing' /\ AllocatedMatchesLedger'
  BY <1>3 DEF Reserved, MissingReservesNothing, AllocatedMatchesLedger
<1> QED
  BY <1>4, <1>5, <1>6, <1>7 DEF Reserved

LEMMA UpsertReserved ==
    ASSUME Typing, Reserved, NEW w \in Worker, Upsert(w)
    PROVE  Reserved'
<1> DEFINE i == At(w).item
<1>1. /\ i \in Item /\ pc[w] = "upsert" /\ job[w].kind = "CREATE"
      /\ Since' = Since /\ own' = own /\ entry' = entry
      /\ rows' = rows \/ (rows[i] = NoRow /\ rows' = [rows EXCEPT ![i] = FreshRow(i, 0)])
      /\ ~Locked(w, i)
      /\ \A v \in Worker \ {w} : pc'[v] = pc[v] /\ job'[v] = job[v]
      /\ \/ pc'[w] = "read" /\ job' = job
         \/ pc'[w] = "idle"
  BY LineFacts DEF Upsert, Typing, TypeOK, Starts, Since
<1>2. \A j \in Item : \/ rows'[j] = rows[j]
                      \/ rows[j] = NoRow /\ rows'[j].allocated = 0
  BY <1>1 DEF Typing, TypeOK, FreshRow
<1>3. OneWriter' /\ CleanHasNoEntry' /\ OwnAheadOfLedger'
  BY <1>1 DEF Reserved, OneWriter, CleanHasNoEntry, OwnAheadOfLedger
<1>4. MissingReservesNothing' /\ AllocatedMatchesLedger'
  BY <1>1, <1>2, ValueAssumption DEF Reserved, MissingReservesNothing, AllocatedMatchesLedger
<1>5. NothingToCommit'
  BY <1>1 DEF Reserved, NothingToCommit
<1> QED
  BY <1>3, <1>4, <1>5 DEF Reserved

\* The actions that touch neither the rows nor the ledger nor any uncommitted
\* write.
LEMMA QuietReserved ==
    ASSUME Typing, Reserved, NEW w \in Worker,
           \/ ReadRow(w) \/ SkipMissingRow(w) \/ \E r \in Request : Send(w, r)
    PROVE  Reserved'
<1>1. /\ rows' = rows /\ Since' = Since /\ own' = own /\ entry' = entry
      /\ \A v \in Worker \ {w} : pc'[v] = pc[v] /\ job'[v] = job[v]
  BY DEF ReadRow, SkipMissingRow, Send, Advance, shared, Typing, TypeOK, Since
<1>2. pc[w] = "idle" \/ (job' = job /\ pc'[w] \notin {"idle", "upsert"})
  BY DEF ReadRow, SkipMissingRow, Send, Advance, Typing, TypeOK
<1>3. NothingToCommit'
  BY <1>1, <1>2 DEF Reserved, NothingToCommit
<1> QED
  BY <1>1, <1>3 DEF Reserved, OneWriter, CleanHasNoEntry, OwnAheadOfLedger,
                    MissingReservesNothing, AllocatedMatchesLedger

LEMMA NextReserved == Typing /\ Reserved /\ [Next]_vars => Reserved'
<1> SUFFICES ASSUME Typing, Reserved, [Next]_vars PROVE Reserved'
  OBVIOUS
<1>1. CASE UNCHANGED vars
  BY <1>1 DEF vars, Reserved, OneWriter, CleanHasNoEntry, NothingToCommit,
              OwnAheadOfLedger, MissingReservesNothing, AllocatedMatchesLedger, Since
<1>2. ASSUME NEW w \in Worker, Step(w) PROVE Reserved'
  <2>1. CASE Upsert(w)
    BY <2>1, UpsertReserved
  <2>2. CASE ReadRow(w) \/ SkipMissingRow(w)
    BY <2>2, QuietReserved
  <2>3. CASE WriteRow(w)
    BY <2>3, WriteReserved
  <2>4. CASE DeleteRow(w)
    BY <2>4, DeleteReserved
  <2>5. CASE Commit(w)
    BY <2>5, CommitReserved
  <2>6. CASE RejectRow(w) \/ Conflict(w) \/ CallerFails(w) \/ BreakDeadlock(w)
    BY <2>6, ThrowReserved DEF RejectRow, Conflict, CallerFails, BreakDeadlock
  <2> QED
    BY <1>2, <2>1, <2>2, <2>3, <2>4, <2>5, <2>6 DEF Step
<1>3. ASSUME NEW w \in Worker, NEW r \in Request, Send(w, r) PROVE Reserved'
  BY <1>3, QuietReserved
<1> QED
  BY <1>1, <1>2, <1>3 DEF Next, Finished

\* Whatever the interleaving of tills, orders, trips, adjustments, retries and
\* deletions, the reserved quantity of every row is exactly what the ALLOCATION,
\* COMMIT and DEALLOCATION entries made since there is that row add up to.
THEOREM ReservationsMatchLedger == Spec => []AllocatedMatchesLedger
<1>1. Spec => [](Typing /\ Reserved)
  BY InitTyping, InitReserved, NextTyping, NextReserved, PTL DEF Spec
<1> QED
  BY <1>1, PTL DEF Reserved

-----------------------------------------------------------------------------
(***************************************************************************)
(* What the version is good for.  A row's id and version tell two of its   *)
(* states apart unless a writer that does not count the version up came in *)
(* between; on the items the property is about there is none, or it only   *)
(* adds stock.                                                             *)
(***************************************************************************)

\* `later` follows `row` among the rows of item i.
Follows(i, row, later) ==
    later.id = row.id =>
       /\ row.version <= later.version
       /\ row.version = later.version =>
             /\ VersionedOnly(i) => later.quantity = row.quantity
             /\ OnlySalesTake(i) => later.quantity >= row.quantity

\* Quantity q goes with ledger sum n.
Accounts(i, q, n) ==
    /\ VersionedOnly(i) => q = n
    /\ OnlySalesTake(i) => 0 <= q /\ q <= n

CommittedAccounts ==
    \A i \in Item : IF rows[i] = NoRow THEN Since[i].qty = 0
                    ELSE rows[i].id <= created[i] /\ Accounts(i, rows[i].quantity, Since[i].qty)

PendingAccounts ==
    \A w \in Worker, i \in Item :
       IF own[w][i] = Clean THEN entry[w][i].qty = 0
       ELSE /\ Accounts(i, own[w][i].quantity, Since[i].qty + entry[w][i].qty)
            /\ IF rows[i] = NoRow THEN own[w][i].id = created[i] + 1
               ELSE own[w][i].id = rows[i].id /\ Follows(i, rows[i], own[w][i])

\* The row a worker prepares its write for.
SeenFits(w) ==
    LET i == At(w).item IN
    pc[w] = "write" /\ job[w].kind # "RESTOCK" =>
       /\ job[w].kind = "SALE" => seen[w] # NoRow /\ seen[w].quantity >= At(w).qty
       /\ seen[w] # NoRow =>
             /\ OnlySalesTake(i) => seen[w].quantity >= 0
             /\ own[w][i] # Clean => seen[w] = own[w][i]
             /\ own[w][i] = Clean =>
                   seen[w].id <= created[i] /\ (rows[i] # NoRow => Follows(i, seen[w], rows[i]))

Accounted == CommittedAccounts /\ PendingAccounts /\ \A w \in Worker : SeenFits(w)

LEMMA InitAccounted == Init => Accounted
<1> SUFFICES ASSUME Init PROVE Accounted
  OBVIOUS
<1>1. CommittedAccounts
  BY ValueAssumption DEF Init, CommittedAccounts, Accounts, Row, Since, Nothing
<1>2. PendingAccounts
  BY DEF Init, PendingAccounts, Nothing
<1>3. \A w \in Worker : SeenFits(w)
  BY DEF Init, SeenFits
<1> QED
  BY <1>1, <1>2, <1>3 DEF Accounted

\* The line a worker is at belongs to a request about its item.
LEMMA LineRequests ==
    ASSUME TypeOK, NEW w \in Worker, pc[w] \in {"upsert", "read", "write"}
    PROVE  job[w] \in Requests(At(w).item)
BY LineFacts DEF Requests, At

\* What a line does to the quantity of an item that only sales take from.
LEMMA OnlySalesLower ==
    ASSUME TypeOK, NEW w \in Worker, pc[w] = "write", OnlySalesTake(At(w).item)
    PROVE  LET e == Change(job[w], line[w]) IN
           /\ job[w].kind # "COMMIT"
           /\ job[w].kind = "SALE" => e.qty = - At(w).qty
           /\ job[w].kind # "SALE" => e.qty >= 0
<1>1. /\ job[w] \in Requests(At(w).item) /\ line[w] \in 1..Len(job[w].lines)
      /\ At(w) = job[w].lines[line[w]] /\ At(w).qty \in Int
  BY LineRequests, LineFacts DEF At
<1>2. job[w].kind # "COMMIT" /\ (job[w].kind # "SALE" => At(w).qty >= 0)
  BY <1>1 DEF OnlySalesTake
<1> QED
  BY <1>1, <1>2 DEF Change

LEMMA RowParts ==
    ASSUME NEW row \in Row
    PROVE  row.id \in Nat /\ row.version \in Nat /\ row.quantity \in Int
BY DEF Row

LEMMA FollowsOn ==
    ASSUME NEW i \in Item, NEW r \in Row, NEW s \in Row, NEW t \in Row,
           Follows(i, r, s), Follows(i, s, t), s.id = t.id
    PROVE  Follows(i, r, t)
BY RowParts DEF Follows

\* The steps that touch neither rows nor ledger nor pending writes, and take
\* no worker to its write.
LEMMA RestAccounted ==
    ASSUME Typing, Accounted, UNCHANGED <<rows, created, own, entry>>, Since' = Since,
           NEW w \in Worker, SeenFits(w)',
           \A v \in Worker \ {w} : pc'[v] = pc[v] /\ job'[v] = job[v] /\ line'[v] = line[v] /\ seen'[v] = seen[v]
    PROVE  Accounted'
<1>1. CommittedAccounts' /\ PendingAccounts'
  BY DEF Accounted, CommittedAccounts, PendingAccounts
<1>2. ASSUME NEW v \in Worker \ {w}
      PROVE  SeenFits(v)'
  <2>1. SeenFits(v)
    BY <1>2 DEF Accounted
  <2>2. UNCHANGED <<pc[v], job[v], line[v], seen[v], own[v]>> /\ At(v)' = At(v)
    BY <1>2 DEF At
  <2> QED
    BY <2>1, <2>2 DEF SeenFits
<1> QED
  BY <1>1, <1>2 DEF Accounted

LEMMA ThrowAccounted ==
    ASSUME Typing, Reserved, Accounted, NEW w \in Worker, pc[w] # "idle", Throw(w)
    PROVE  Accounted'
<1>1. /\ rows' = rows /\ Since' = Since /\ created' = created
      /\ own' = [own EXCEPT ![w] = [i \in Item |-> Clean]]
      /\ entry' = [entry EXCEPT ![w] = [i \in Item |-> Nothing]]
      /\ \A v \in Worker \ {w} : pc'[v] = pc[v] /\ job'[v] = job[v] /\ line'[v] = line[v] /\ seen'[v] = seen[v]
      /\ seen'[w] = NoRow
      /\ pc'[w] = "write" => job'[w].kind = "RESTOCK"
  <2>1. FirstStep(job[w].kind) = "write" => job[w].kind = "RESTOCK"
    BY JobFacts, RequestFacts DEF Typing, FirstStep
  <2> QED
    BY <2>1 DEF Throw, Rollback, shared, Typing, TypeOK, Since
<1>2. /\ \A i \in Item : own'[w][i] = Clean /\ entry'[w][i].qty = 0
      /\ \A v \in Worker \ {w} : own'[v] = own[v] /\ entry'[v] = entry[v]
  BY <1>1 DEF Typing, TypeOK, Nothing
<1>3. CommittedAccounts'
  BY <1>1 DEF Accounted, CommittedAccounts
<1>4. PendingAccounts'
  BY <1>1, <1>2 DEF Accounted, PendingAccounts
<1>5. ASSUME NEW v \in Worker
      PROVE  SeenFits(v)'
  <2>1. CASE v = w
    BY <1>1, <2>1 DEF SeenFits
  <2>2. CASE v # w
    <3>1. SeenFits(v)
      BY DEF Accounted
    <3>2. UNCHANGED <<pc[v], job[v], line[v], seen[v], own[v]>> /\ At(v)' = At(v)
      BY <1>1, <1>2, <2>2 DEF At
    <3> QED
      BY <1>1, <3>1, <3>2 DEF SeenFits
  <2> QED
    BY <2>1, <2>2
<1> QED
  BY <1>3, <1>4, <1>5 DEF Accounted

LEMMA ReadAccounted ==
    ASSUME Typing, Reserved, Accounted, NEW w \in Worker, ReadRow(w)
    PROVE  Accounted'
<1> DEFINE i == At(w).item
           row == Visible(w, i)
<1>1. /\ UNCHANGED <<rows, created, own, entry, job, line>> /\ Since' = Since
      /\ \A v \in Worker \ {w} : pc'[v] = pc[v] /\ seen'[v] = seen[v]
      /\ pc[w] = "read" /\ pc'[w] = "write" /\ seen'[w] = row /\ Accepts(job[w], line[w], row)
  BY DEF ReadRow, shared, Typing, TypeOK, Since
<1>2. i \in Item /\ job[w] \in Request /\ line[w] \in 1..Len(job[w].lines) /\ At(w) = job[w].lines[line[w]]
  BY <1>1, LineFacts DEF Typing, At
<1>3. row \in Row \cup {NoRow} /\ own[w][i] \in Row \cup {Clean} /\ rows[i] \in Row \cup {NoRow}
      /\ Since[i].qty \in Int /\ entry[w][i].qty \in Int
  <2>1. own[w][i] \in Row \cup {Clean} /\ rows[i] \in Row \cup {NoRow}
    BY <1>2 DEF Typing, TypeOK
  <2>2. Since[i].qty \in Int /\ entry[w][i] \in Effect
    BY <1>2, SinceInt DEF Typing, TypeOK
  <2>3. row \in Row \cup {NoRow}
    BY <2>1 DEF Visible
  <2> QED
    BY <2>1, <2>2, <2>3 DEF Effect
<1>4. row # NoRow => /\ own[w][i] # Clean => row = own[w][i]
                     /\ own[w][i] = Clean => row = rows[i] /\ rows[i] # NoRow
  BY DEF Visible
<1>5. row # NoRow /\ OnlySalesTake(i) => row.quantity >= 0
  <2>1. /\ own[w][i] = Clean /\ rows[i] # NoRow => Accounts(i, rows[i].quantity, Since[i].qty)
        /\ own[w][i] # Clean => Accounts(i, own[w][i].quantity, Since[i].qty + entry[w][i].qty)
    BY <1>2 DEF Accounted, CommittedAccounts, PendingAccounts
  <2> HIDE DEF row, i
  <2> QED
    BY <1>3, <1>4, <2>1, ValueAssumption DEF Accounts
<1>6. job[w].kind = "SALE" => row # NoRow /\ row.quantity >= At(w).qty
  BY <1>1, <1>2 DEF Accepts
<1>7. row # NoRow /\ own[w][i] = Clean => row.id <= created[i] /\ Follows(i, row, rows[i])
  <2>1. row # NoRow => row.version \in Nat /\ row.quantity \in Int
    BY <1>3, RowParts
  <2> QED
    <3>1. rows[i] # NoRow => rows[i].id <= created[i]
      BY <1>2 DEF Accounted, CommittedAccounts
    <3> HIDE DEF row, i
    <3> QED
      BY <1>4, <2>1, <3>1 DEF Follows
<1>8. At(w)' = At(w)
  BY <1>1 DEF At
<1>9. SeenFits(w)'
  <2> HIDE DEF row
  <2> QED
    BY <1>1, <1>4, <1>5, <1>6, <1>7, <1>8 DEF SeenFits, Follows
<1> QED
  BY <1>1, <1>9, RestAccounted

\* A write's row goes with the ledger it will be entered in, and follows the
\* row it was written over.
LEMMA WrittenAccounts ==
    ASSUME Typing, Reserved, Accounted, NEW w \in Worker, pc[w] = "write", job[w].kind # "REMOVE",
           Finds(w, At(w).item)
    PROVE  LET i == At(w).item
               e == Change(job[w], line[w])
               now == Visible(w, i)
               new == Written(w, i)
           IN  /\ Accounts(i, new.quantity, Since[i].qty + entry[w][i].qty + e.qty)
               /\ now # NoRow => new.id = now.id /\ Follows(i, now, new)
               /\ now = NoRow => new.id = created[i] + 1
<1> DEFINE i == At(w).item
           now == Visible(w, i)
           e == Change(job[w], line[w])
           new == Written(w, i)
           n == Since[i].qty + entry[w][i].qty
<1>1. now \in Row \cup {NoRow} /\ e \in Effect /\ WriteResult(w, now, e)
  BY WrittenCases DEF Typing
<1>2. i \in Item /\ job[w] \in Request /\ job[w] \in Requests(i) /\ job[w].kind \in Kind
  BY LineFacts, LineRequests, RequestFacts DEF Typing
<1>3. e.qty \in Int /\ n \in Int /\ own[w][i] \in Row \cup {Clean} /\ rows[i] \in Row \cup {NoRow}
      /\ At(w).qty \in Int /\ Since[i].qty \in Int /\ entry[w][i].qty \in Int
  <2>1. /\ Since[i].qty \in Int /\ entry[w][i] \in Effect
        /\ own[w][i] \in Row \cup {Clean} /\ rows[i] \in Row \cup {NoRow}
    BY <1>2, SinceInt DEF Typing, TypeOK
  <2>2. Since[i].qty \in Int /\ entry[w][i].qty \in Int /\ e.qty \in Int
    BY <1>1, <2>1 DEF Effect
  <2>3. At(w).qty \in Int
    BY LineFacts DEF Typing
  <2> QED
    BY <2>1, <2>2, <2>3
<1>4. /\ now # NoRow => Accounts(i, now.quantity, n)
      /\ now = NoRow => n = 0 /\ rows[i] = NoRow
  <2>1. CASE own[w][i] # Clean
    <3>1. now = own[w][i] /\ now # NoRow
      BY <1>3, <2>1, ValueAssumption DEF Visible
    <3> QED
      BY <1>2, <2>1, <3>1 DEF Accounted, PendingAccounts
  <2>2. CASE own[w][i] = Clean
    <3>1. now = rows[i] /\ entry[w][i].qty = 0 /\ n = Since[i].qty
      BY <1>2, <1>3, <2>2 DEF Accounted, PendingAccounts, Visible
    <3> HIDE DEF n
    <3> QED
      BY <1>2, <3>1 DEF Accounted, CommittedAccounts
  <2> QED
    BY <2>1, <2>2
<1>5. OnlySalesTake(i) =>
         /\ job[w].kind # "COMMIT"
         /\ job[w].kind = "SALE" => e.qty = - At(w).qty
         /\ job[w].kind # "SALE" => e.qty >= 0
  BY OnlySalesLower DEF Typing
<1>6. VersionedOnly(i) => job[w].kind \in Versioned
  BY <1>2 DEF VersionedOnly
<1>7. SeenFits(w)
  BY DEF Accounted
<1>8. n + e.qty = Since[i].qty + entry[w][i].qty + e.qty
  BY <1>3
<1> HIDE DEF now, e, new, n
<1>9. CASE now = NoRow
  <2>1. new = FreshRow(i, e.qty)
    BY <1>1, <1>9, ValueAssumption DEF WriteResult, new
  <2>2. new.quantity = e.qty /\ new.id = created[i] + 1
    BY <2>1 DEF FreshRow
  <2>3. job[w].kind # "SALE"
    <3> SUFFICES ASSUME job[w].kind = "SALE" PROVE FALSE
      OBVIOUS
    <3>1. seen[w] # NoRow
      BY <1>7 DEF SeenFits
    <3> QED
      BY <1>9, <3>1 DEF Finds, Versioned, now
  <2>4. Accounts(i, new.quantity, n + e.qty)
    BY <1>3, <1>4, <1>5, <1>9, <2>2, <2>3 DEF Accounts
  <2> QED
    BY <1>8, <1>9, <2>2, <2>4 DEF now, e, new
<1>10. CASE now \in Row /\ job[w].kind \notin Versioned
  <2>1. /\ new.quantity = now.quantity + (IF job[w].kind \in Reserving \cup {"RESTOCK"} THEN e.qty ELSE 0)
        /\ new.id = now.id /\ new.version = now.version
    <3>1. job[w].kind \in Reserving \cup {"RESTOCK"} /\ now # NoRow
      BY <1>2, <1>10, ValueAssumption DEF WriteResult, Kind
    <3> QED
      BY <1>1, <1>10, <3>1 DEF WriteResult, Row, new, Reserving, Versioned
  <2>2. job[w].kind \in Reserving \cup {"RESTOCK"} /\ now # NoRow
    BY <1>2, <1>10, ValueAssumption DEF Kind
  <2>3. now.quantity \in Int /\ now.version \in Nat
    BY <1>10, RowParts
  <2>4. ~ VersionedOnly(i) /\ (OnlySalesTake(i) => e.qty >= 0)
    BY <1>5, <1>6, <1>10 DEF Versioned
  <2>5. new.quantity = now.quantity + e.qty
    BY <2>1, <2>2
  <2>6. Accounts(i, new.quantity, n + e.qty) /\ Follows(i, now, new)
    BY <1>3, <1>4, <2>1, <2>2, <2>3, <2>4, <2>5 DEF Accounts, Follows
  <2> QED
    BY <1>8, <2>1, <2>2, <2>6 DEF now, e, new
<1>11. CASE now \in Row /\ job[w].kind \in Versioned
  <2>1. /\ seen[w] \in Row /\ now.id = seen[w].id /\ now.version = seen[w].version
        /\ new = [now EXCEPT !.quantity = seen[w].quantity + e.qty, !.version = @ + 1]
    <3>1. job[w].kind \notin Reserving \cup {"RESTOCK"} /\ now # NoRow
      BY <1>11, ValueAssumption DEF Versioned, Reserving
    <3> QED
      BY <1>1, <1>11, <3>1 DEF WriteResult, new
  <2>2. /\ now.quantity \in Int /\ now.version \in Nat /\ now # NoRow
        /\ seen[w].quantity \in Int /\ seen[w].version \in Nat /\ seen[w] # NoRow
    BY <1>11, <2>1, RowParts, ValueAssumption
  <2>3. new.quantity = seen[w].quantity + e.qty /\ new.id = now.id /\ new.version = now.version + 1
    BY <1>11, <2>1 DEF Row
  <2>4. job[w].kind # "RESTOCK"
    BY <1>11 DEF Versioned
  <2>5. /\ VersionedOnly(i) => seen[w].quantity = now.quantity
        /\ OnlySalesTake(i) => 0 <= seen[w].quantity /\ seen[w].quantity <= now.quantity
    <3>1. CASE own[w][i] # Clean
      <4>1. now = own[w][i]
        BY <3>1 DEF now, Visible
      <4> QED
        BY <1>7, <2>2, <2>4, <3>1, <4>1 DEF SeenFits
    <3>2. CASE own[w][i] = Clean
      <4>1. now = rows[i]
        BY <3>2 DEF now, Visible
      <4>2. Follows(i, seen[w], now) /\ (OnlySalesTake(i) => seen[w].quantity >= 0)
        BY <1>7, <2>2, <2>4, <3>2, <4>1 DEF SeenFits
      <4> QED
        BY <2>1, <2>2, <4>2 DEF Follows
    <3> QED
      BY <3>1, <3>2
  <2>6. OnlySalesTake(i) => 0 <= seen[w].quantity + e.qty
    <3>1. CASE job[w].kind = "SALE"
      <4>1. seen[w].quantity >= At(w).qty
        BY <1>7, <3>1 DEF SeenFits
      <4> QED
        BY <1>3, <1>5, <2>2, <3>1, <4>1
    <3>2. CASE job[w].kind # "SALE"
      BY <1>3, <1>5, <2>2, <2>5, <3>2
    <3> QED
      BY <3>1, <3>2
  <2>7. Accounts(i, new.quantity, n + e.qty)
    BY <1>3, <1>4, <2>2, <2>3, <2>5, <2>6 DEF Accounts
  <2>8. Follows(i, now, new)
    BY <2>2, <2>3 DEF Follows
  <2> QED
    BY <1>8, <2>2, <2>3, <2>7, <2>8 DEF now, e, new
<1> QED
  BY <1>1, <1>9, <1>10, <1>11

LEMMA WriteAccounted ==
    ASSUME Typing, Reserved, Accounted, NEW w \in Worker, WriteRow(w)
    PROVE  Accounted'
<1> DEFINE i == At(w).item
           e == Change(job[w], line[w])
           new == Written(w, i)
<1>1. /\ i \in Item /\ e \in Effect
      /\ pc[w] = "write" /\ job[w].kind # "REMOVE" /\ ~Locked(w, i) /\ Finds(w, i)
      /\ rows' = rows /\ Since' = Since /\ created' = created /\ job' = job /\ seen' = seen
      /\ own' = [own EXCEPT ![w][i] = new]
      /\ entry' = [entry EXCEPT ![w][i] = Plus(@, e)]
      /\ \A v \in Worker \ {w} : pc'[v] = pc[v] /\ line'[v] = line[v]
      /\ pc'[w] = "write" => job[w].kind = "RESTOCK"
  BY LineFacts, ChangeType DEF WriteRow, shared, Advance, Typing, TypeOK, Since
<1>2. /\ own'[w][i] = new /\ entry'[w][i] = Plus(entry[w][i], e)
      /\ \A v \in Worker : \A j \in Item :
            v # w \/ j # i => own'[v][j] = own[v][j] /\ entry'[v][j] = entry[v][j]
  BY <1>1 DEF Typing, TypeOK
<1>3. new \in Row /\ new # Clean
  BY <1>1, WrittenType, ValueAssumption DEF Typing
<1>4. /\ Accounts(i, new.quantity, Since[i].qty + entry[w][i].qty + e.qty)
      /\ Visible(w, i) # NoRow => new.id = Visible(w, i).id /\ Follows(i, Visible(w, i), new)
      /\ Visible(w, i) = NoRow => new.id = created[i] + 1
  BY <1>1, WrittenAccounts
<1>5. entry'[w][i].qty = entry[w][i].qty + e.qty
  BY <1>2 DEF Plus
<1>6. /\ Since[i].qty \in Int /\ entry[w][i].qty \in Int /\ e.qty \in Int
      /\ own[w][i] \in Row \cup {Clean} /\ rows[i] \in Row \cup {NoRow}
  <2>1. Since[i].qty \in Int
    BY <1>1, SinceInt DEF Typing
  <2>2. entry[w][i] \in Effect /\ own[w][i] \in Row \cup {Clean} /\ rows[i] \in Row \cup {NoRow}
    BY <1>1 DEF Typing, TypeOK
  <2> QED
    BY <1>1, <2>1, <2>2 DEF Effect
<1> HIDE DEF i, e, new
<1>7. Accounts(i, own'[w][i].quantity, Since[i].qty + entry'[w][i].qty)
  <2>1. Since[i].qty + entry'[w][i].qty = Since[i].qty + entry[w][i].qty + e.qty
    BY <1>5, <1>6
  <2> QED
    BY <1>2, <1>4, <2>1
<1>8. IF rows[i] = NoRow THEN new.id = created[i] + 1
      ELSE new.id = rows[i].id /\ Follows(i, rows[i], new)
  <2>1. CASE own[w][i] = Clean
    BY <1>4, <2>1 DEF Visible
  <2>2. CASE own[w][i] # Clean
    <3>1. /\ Visible(w, i) = own[w][i] /\ own[w][i] \in Row /\ own[w][i] # NoRow
          /\ new.id = own[w][i].id /\ Follows(i, own[w][i], new)
      BY <1>4, <1>6, <2>2, ValueAssumption DEF Visible
    <3>2. IF rows[i] = NoRow THEN own[w][i].id = created[i] + 1
          ELSE own[w][i].id = rows[i].id /\ Follows(i, rows[i], own[w][i])
      BY <1>1, <2>2 DEF Accounted, PendingAccounts
    <3> QED
      BY <1>1, <1>3, <1>6, <3>1, <3>2, FollowsOn
  <2> QED
    BY <2>1, <2>2
<1>9. CommittedAccounts'
  BY <1>1 DEF Accounted, CommittedAccounts
<1>10. PendingAccounts'
  <2> SUFFICES ASSUME NEW v \in Worker, NEW j \in Item
               PROVE  IF own'[v][j] = Clean THEN entry'[v][j].qty = 0
                      ELSE /\ Accounts(j, own'[v][j].quantity, Since'[j].qty + entry'[v][j].qty)
                           /\ IF rows'[j] = NoRow THEN own'[v][j].id = created'[j] + 1
                              ELSE own'[v][j].id = rows'[j].id /\ Follows(j, rows'[j], own'[v][j])
    BY DEF PendingAccounts, Accounts, Follows
  <2>1. CASE v = w /\ j = i
    BY <1>1, <1>2, <1>3, <1>7, <1>8, <2>1
  <2>2. CASE v # w \/ j # i
    BY <1>1, <1>2, <2>2 DEF Accounted, PendingAccounts
  <2> QED
    BY <2>1, <2>2
<1>11. ASSUME NEW v \in Worker
       PROVE  SeenFits(v)'
  <2>1. CASE v = w
    BY <1>1, <2>1 DEF SeenFits
  <2>2. CASE v # w
    <3>1. /\ pc'[v] = pc[v] /\ job'[v] = job[v] /\ line'[v] = line[v] /\ seen'[v] = seen[v] /\ At(v)' = At(v)
      BY <1>1, <2>2 DEF At
    <3>2. \A j \in Item : own'[v][j] = own[v][j]
      BY <1>2, <2>2
    <3>3. pc[v] = "write" => At(v).item \in Item
      BY LineFacts DEF Typing
    <3> QED
      BY <1>1, <3>1, <3>2, <3>3 DEF Accounted, SeenFits, OnlySalesTake, Follows
  <2> QED
    BY <2>1, <2>2
<1> QED
  BY <1>9, <1>10, <1>11 DEF Accounted

LEMMA CommitAccounted ==
    ASSUME Typing, Reserved, Accounted, NEW w \in Worker, Commit(w)
    PROVE  Accounted'
<1>1. /\ own' = [own EXCEPT ![w] = [j \in Item |-> Clean]]
      /\ entry' = [entry EXCEPT ![w] = [j \in Item |-> Nothing]]
      /\ rows' = [j \in Item |-> IF own[w][j] # Clean THEN own[w][j] ELSE rows[j]]
      /\ created' = [j \in Item |-> IF own[w][j] # Clean /\ rows[j] = NoRow THEN created[j] + 1 ELSE created[j]]
      /\ ledger' = [j \in Item |-> Plus(ledger[j], entry[w][j])] /\ past' = past
      /\ pc'[w] = "idle"
      /\ \A v \in Worker \ {w} : pc'[v] = pc[v] /\ job'[v] = job[v] /\ line'[v] = line[v] /\ seen'[v] = seen[v]
  BY DEF Commit, Typing, TypeOK
<1>2. /\ \A j \in Item : own'[w][j] = Clean /\ entry'[w][j].qty = 0
      /\ \A v \in Worker \ {w} : own'[v] = own[v] /\ entry'[v] = entry[v]
  BY <1>1 DEF Typing, TypeOK, Nothing
<1>3. \A j \in Item : /\ created[j] \in Nat
                      /\ own[w][j] \in Row \cup {Clean} /\ rows[j] \in Row \cup {NoRow}
  BY DEF Typing, TypeOK
<1>4. \A j \in Item : /\ Since'[j].qty = Since[j].qty + entry[w][j].qty
                      /\ Since[j].qty \in Int /\ entry[w][j].qty \in Int
  BY <1>1, CommitSince DEF Typing
<1>5. \A j \in Item : own[w][j] = Clean =>
         rows'[j] = rows[j] /\ created'[j] = created[j] /\ Since'[j].qty = Since[j].qty
  BY <1>1, <1>4 DEF Accounted, PendingAccounts
<1>6. \A j \in Item : own[w][j] # Clean =>
         /\ rows'[j] = own[w][j] /\ rows'[j] \in Row /\ rows'[j] # NoRow
         /\ created'[j] = IF rows[j] = NoRow THEN created[j] + 1 ELSE created[j]
         /\ Accounts(j, own[w][j].quantity, Since'[j].qty)
         /\ IF rows[j] = NoRow THEN own[w][j].id = created[j] + 1
            ELSE own[w][j].id = rows[j].id /\ Follows(j, rows[j], own[w][j])
  BY <1>1, <1>3, <1>4, ValueAssumption DEF Accounted, PendingAccounts
<1>7. \A j \in Item, v \in Worker \ {w} : own[w][j] # Clean => own[v][j] = Clean
  BY DEF Reserved, OneWriter
<1>8. CommittedAccounts'
  <2> SUFFICES ASSUME NEW j \in Item
               PROVE  IF rows'[j] = NoRow THEN Since'[j].qty = 0
                      ELSE rows'[j].id <= created'[j] /\ Accounts(j, rows'[j].quantity, Since'[j].qty)
    BY DEF CommittedAccounts, Accounts
  <2>1. CASE own[w][j] = Clean
    BY <1>5, <2>1 DEF Accounted, CommittedAccounts
  <2>2. CASE own[w][j] # Clean
    <3>1. rows'[j].id \in Nat /\ created'[j] \in Nat /\ rows'[j].id <= created'[j]
      <4>1. rows[j] # NoRow => rows[j].id <= created[j]
        BY DEF Accounted, CommittedAccounts
      <4> QED
        BY <1>3, <1>6, <2>2, <4>1, RowParts
    <3> QED
      BY <1>6, <2>2, <3>1
  <2> QED
    BY <2>1, <2>2
<1>9. PendingAccounts'
  <2> SUFFICES ASSUME NEW v \in Worker, NEW j \in Item
               PROVE  IF own'[v][j] = Clean THEN entry'[v][j].qty = 0
                      ELSE /\ Accounts(j, own'[v][j].quantity, Since'[j].qty + entry'[v][j].qty)
                           /\ IF rows'[j] = NoRow THEN own'[v][j].id = created'[j] + 1
                              ELSE own'[v][j].id = rows'[j].id /\ Follows(j, rows'[j], own'[v][j])
    BY DEF PendingAccounts, Accounts, Follows
  <2>1. CASE v = w
    BY <1>2, <2>1
  <2>2. CASE v # w
    <3>1. own'[v][j] = own[v][j] /\ entry'[v][j] = entry[v][j]
      BY <1>2, <2>2
    <3>2. CASE own[v][j] = Clean
      BY <3>1, <3>2 DEF Accounted, PendingAccounts
    <3>3. CASE own[v][j] # Clean
      <4>1. own[w][j] = Clean
        BY <1>7, <2>2, <3>3
      <4> QED
        BY <1>5, <3>1, <3>3, <4>1 DEF Accounted, PendingAccounts
    <3> QED
      BY <3>2, <3>3
  <2> QED
    BY <2>1, <2>2
<1>10. ASSUME NEW v \in Worker
       PROVE  SeenFits(v)'
  <2>1. CASE v = w
    BY <1>1, <2>1 DEF SeenFits
  <2>2. CASE v # w /\ pc[v] = "write"
    <3> DEFINE j == At(v).item
    <3>1. /\ pc'[v] = pc[v] /\ job'[v] = job[v] /\ line'[v] = line[v] /\ seen'[v] = seen[v] /\ At(v)' = At(v)
          /\ j \in Item /\ own'[v] = own[v]
      BY <1>1, <1>2, <2>2, LineFacts DEF At, Typing
    <3>2. SeenFits(v)
      BY DEF Accounted
    <3>3. CASE own[w][j] = Clean
      <4>1. rows'[j] = rows[j] /\ created'[j] = created[j]
        BY <1>5, <3>1, <3>3
      <4> QED
        BY <3>1, <3>2, <4>1 DEF SeenFits, OnlySalesTake, Follows
    <3>4. CASE own[w][j] # Clean /\ seen[v] # NoRow /\ job[v].kind # "RESTOCK"
      <4>1. own[v][j] = Clean /\ seen[v] \in Row /\ created[j] \in Nat
        BY <1>3, <1>7, <2>2, <3>1, <3>4 DEF Typing, TypeOK
      <4>2. seen[v].id <= created[j] /\ (rows[j] # NoRow => Follows(j, seen[v], rows[j]))
        BY <2>2, <3>2, <3>4, <4>1 DEF SeenFits
      <4>3. seen[v].id <= created'[j] /\ Follows(j, seen[v], rows'[j])
        <5>1. CASE rows[j] = NoRow
          <6>1. rows'[j].id = created[j] + 1 /\ created'[j] = created[j] + 1
            BY <1>6, <3>1, <3>4, <5>1
          <6>2. seen[v].id \in Nat
            BY <4>1, RowParts
          <6> HIDE DEF j
          <6> QED
            BY <4>1, <4>2, <6>1, <6>2 DEF Follows
        <5>2. CASE rows[j] # NoRow
          <6>1. /\ rows'[j] = own[w][j] /\ rows'[j] \in Row /\ created'[j] = created[j]
                /\ rows'[j].id = rows[j].id /\ Follows(j, rows[j], rows'[j]) /\ rows[j] \in Row
            BY <1>3, <1>6, <3>1, <3>4, <5>2
          <6> HIDE DEF j
          <6> QED
            BY <3>1, <4>1, <4>2, <5>2, <6>1, FollowsOn
        <5> QED
          BY <5>1, <5>2
      <4> QED
        BY <3>1, <3>2, <4>1, <4>3 DEF SeenFits, OnlySalesTake, Follows
    <3>5. CASE seen[v] = NoRow \/ job[v].kind = "RESTOCK"
      BY <2>2, <3>1, <3>2, <3>5 DEF SeenFits
    <3> QED
      BY <3>3, <3>4, <3>5
  <2>3. CASE v # w /\ pc[v] # "write"
    BY <1>1, <2>3 DEF SeenFits
  <2> QED
    BY <2>1, <2>2, <2>3
<1> QED
  BY <1>8, <1>9, <1>10 DEF Accounted

\* A row comes or goes while nobody holds it: what others have seen of it is
\* of an older id.
LEMMA RowComesOrGoes ==
    ASSUME Typing, Reserved, Accounted, NEW w \in Worker, pc'[w] # "write", NEW i \in Item,
           \A v \in Worker : own[v][i] = Clean,
           UNCHANGED <<own, entry>>,
           \A j \in Item \ {i} : rows'[j] = rows[j] /\ created'[j] = created[j] /\ Since'[j] = Since[j],
           \A v \in Worker \ {w} : pc'[v] = pc[v] /\ job'[v] = job[v] /\ line'[v] = line[v] /\ seen'[v] = seen[v],
           \/ rows'[i] = NoRow /\ Since'[i].qty = 0 /\ created'[i] = created[i]
           \/ /\ rows[i] = NoRow /\ Since'[i] = Since[i]
              /\ created'[i] = created[i] + 1 /\ rows'[i] = FreshRow(i, 0)
    PROVE  Accounted'
<1>1. created[i] \in Nat /\ created[i] <= created'[i]
  BY DEF Typing, TypeOK
<1>2. CommittedAccounts'
  <2> SUFFICES ASSUME NEW j \in Item
               PROVE  IF rows'[j] = NoRow THEN Since'[j].qty = 0
                      ELSE rows'[j].id <= created'[j] /\ Accounts(j, rows'[j].quantity, Since'[j].qty)
    BY DEF CommittedAccounts, Accounts
  <2>1. CASE j # i
    BY <2>1 DEF Accounted, CommittedAccounts
  <2>2. CASE j = i /\ rows[i] = NoRow /\ rows'[i] = FreshRow(i, 0) /\ Since'[i] = Since[i]
             /\ created'[i] = created[i] + 1
    <3>1. rows'[i].id = created[i] + 1 /\ rows'[i].quantity = 0 /\ Since'[i].qty = 0
      BY <2>2 DEF FreshRow, Accounted, CommittedAccounts
    <3> QED
      BY <1>1, <2>2, <3>1 DEF Accounts
  <2> QED
    BY <2>1, <2>2
<1>3. PendingAccounts'
  <2> SUFFICES ASSUME NEW v \in Worker, NEW j \in Item
               PROVE  IF own'[v][j] = Clean THEN entry'[v][j].qty = 0
                      ELSE /\ Accounts(j, own'[v][j].quantity, Since'[j].qty + entry'[v][j].qty)
                           /\ IF rows'[j] = NoRow THEN own'[v][j].id = created'[j] + 1
                              ELSE own'[v][j].id = rows'[j].id /\ Follows(j, rows'[j], own'[v][j])
    BY DEF PendingAccounts, Accounts, Follows
  <2>1. CASE j = i
    BY <2>1 DEF Accounted, PendingAccounts
  <2>2. CASE j # i
    BY <2>2 DEF Accounted, PendingAccounts
  <2> QED
    BY <2>1, <2>2
<1>4. ASSUME NEW v \in Worker
      PROVE  SeenFits(v)'
  <2>1. CASE v = w
    BY <2>1 DEF SeenFits
  <2>2. CASE v # w /\ pc[v] = "write"
    <3>1. /\ pc'[v] = pc[v] /\ job'[v] = job[v] /\ line'[v] = line[v] /\ seen'[v] = seen[v] /\ At(v)' = At(v)
          /\ At(v).item \in Item
      BY <2>2, LineFacts DEF At, Typing
    <3>2. SeenFits(v)
      BY DEF Accounted
    <3>3. CASE At(v).item # i
      BY <3>1, <3>2, <3>3 DEF SeenFits, OnlySalesTake, Follows
    <3>4. CASE At(v).item = i /\ seen[v] # NoRow /\ job[v].kind # "RESTOCK"
      <4>1. seen[v].id \in Nat /\ seen[v].id <= created[i]
        <5>1. seen[v] \in Row
          BY <3>4 DEF Typing, TypeOK
        <5> QED
          BY <2>2, <3>2, <3>4, <5>1, RowParts DEF SeenFits
      <4>2. rows'[i] # NoRow => rows'[i].id = created[i] + 1
        BY DEF FreshRow
      <4>3. rows'[i] # NoRow => Follows(i, seen[v], rows'[i])
        BY <1>1, <4>1, <4>2 DEF Follows
      <4>4. seen[v].id <= created'[i]
        BY <1>1, <4>1
      <4> QED
        BY <3>1, <3>2, <3>4, <4>3, <4>4 DEF SeenFits, OnlySalesTake, Follows
    <3>5. CASE seen[v] = NoRow \/ job[v].kind = "RESTOCK"
      BY <2>2, <3>1, <3>2, <3>5 DEF SeenFits
    <3> QED
      BY <3>3, <3>4, <3>5
  <2>3. CASE v # w /\ pc[v] # "write"
    BY <2>3 DEF SeenFits
  <2> QED
    BY <2>1, <2>2, <2>3
<1> QED
  BY <1>2, <1>3, <1>4 DEF Accounted

LEMMA DeleteAccounted ==
    ASSUME Typing, Reserved, Accounted, NEW w \in Worker, DeleteRow(w)
    PROVE  Accounted'
<1> DEFINE i == At(w).item
<1>1. /\ i \in Item /\ job[w].kind = "REMOVE" /\ ~Locked(w, i) /\ pc'[w] = "idle"
      /\ rows' = [rows EXCEPT ![i] = NoRow] /\ past' = [past EXCEPT ![i] = ledger[i]] /\ ledger' = ledger
      /\ UNCHANGED <<own, entry, created>>
      /\ \A v \in Worker \ {w} : pc'[v] = pc[v] /\ job'[v] = job[v] /\ line'[v] = line[v] /\ seen'[v] = seen[v]
  BY LineFacts DEF DeleteRow, Typing, TypeOK
<1>2. \A v \in Worker : own[v][i] = Clean
  BY <1>1 DEF Locked, Reserved, NothingToCommit
<1>3. /\ rows'[i] = NoRow /\ Since'[i].qty = 0
      /\ \A j \in Item \ {i} : rows'[j] = rows[j] /\ Since'[j] = Since[j]
  <2>1. /\ rows'[i] = NoRow /\ past'[i] = ledger[i]
        /\ \A j \in Item \ {i} : rows'[j] = rows[j] /\ past'[j] = past[j]
    BY <1>1 DEF Typing, TypeOK
  <2> QED
    BY <1>1, <2>1, SinceFacts DEF Typing
<1> QED
  BY <1>1, <1>2, <1>3, RowComesOrGoes

LEMMA UpsertAccounted ==
    ASSUME Typing, Reserved, Accounted, NEW w \in Worker, Upsert(w)
    PROVE  Accounted'
<1> DEFINE i == At(w).item
<1>1. /\ i \in Item /\ pc[w] = "upsert" /\ ~Locked(w, i) /\ pc'[w] # "write"
      /\ UNCHANGED <<own, entry>> /\ Since' = Since
      /\ \A v \in Worker \ {w} : pc'[v] = pc[v] /\ job'[v] = job[v] /\ line'[v] = line[v] /\ seen'[v] = seen[v]
  BY LineFacts DEF Upsert, Typing, TypeOK, Since
<1>2. \A v \in Worker : own[v][i] = Clean
  BY <1>1 DEF Locked, Reserved, NothingToCommit
<1>3. CASE rows[i] = NoRow
  <2>1. rows' = [rows EXCEPT ![i] = FreshRow(i, 0)] /\ created' = [created EXCEPT ![i] = @ + 1]
    BY <1>3 DEF Upsert
  <2>2. /\ rows'[i] = FreshRow(i, 0) /\ created'[i] = created[i] + 1
        /\ \A j \in Item \ {i} : rows'[j] = rows[j] /\ created'[j] = created[j]
    BY <1>1, <2>1 DEF Typing, TypeOK
  <2> QED
    BY <1>1, <1>2, <1>3, <2>2, RowComesOrGoes
<1>4. CASE rows[i] # NoRow
  <2>1. UNCHANGED <<rows, created>>
    BY <1>4 DEF Upsert
  <2>2. SeenFits(w)'
    BY <1>1 DEF SeenFits
  <2> QED
    BY <1>1, <2>1, <2>2, RestAccounted
<1> QED
  BY <1>3, <1>4

LEMMA QuietAccounted ==
    ASSUME Typing, Accounted, NEW w \in Worker, SkipMissingRow(w) \/ \E r \in Request : Send(w, r)
    PROVE  Accounted'
<1>1. /\ UNCHANGED <<rows, created, own, entry, seen>> /\ Since' = Since
      /\ \A v \in Worker \ {w} : pc'[v] = pc[v] /\ job'[v] = job[v] /\ line'[v] = line[v]
  BY DEF SkipMissingRow, Send, Advance, shared, Typing, TypeOK, Since
<1>2. pc'[w] = "write" => job'[w].kind = "RESTOCK"
  <2>1. CASE SkipMissingRow(w)
    BY <2>1 DEF SkipMissingRow, Advance, Typing, TypeOK
  <2>2. ASSUME NEW r \in Request, Send(w, r)
        PROVE  pc'[w] = "write" => job'[w].kind = "RESTOCK"
    <3>1. pc'[w] = FirstStep(r.kind) /\ job'[w] = r
      BY <2>2 DEF Send, Typing, TypeOK
    <3>2. FirstStep(r.kind) = "write" => r.kind = "RESTOCK"
      BY RequestFacts DEF FirstStep
    <3> QED
      BY <3>1, <3>2
  <2> QED
    BY <2>1, <2>2
<1>3. SeenFits(w)'
  BY <1>2 DEF SeenFits
<1> QED
  BY <1>1, <1>3, RestAccounted

LEMMA NextAccounted == Typing /\ Reserved /\ Accounted /\ [Next]_vars => Accounted'
<1> SUFFICES ASSUME Typing, Reserved, Accounted, [Next]_vars PROVE Accounted'
  OBVIOUS
<1>1. CASE UNCHANGED vars
  BY <1>1 DEF vars, Accounted, CommittedAccounts, PendingAccounts, SeenFits, At, Since
<1>2. ASSUME NEW w \in Worker, Step(w) PROVE Accounted'
  <2>1. CASE RejectRow(w) \/ Conflict(w) \/ CallerFails(w) \/ BreakDeadlock(w)
    <3>1. pc[w] # "idle" /\ Throw(w)
      BY <2>1 DEF RejectRow, Conflict, CallerFails, BreakDeadlock, Waits
    <3> QED
      BY <3>1, ThrowAccounted
  <2> QED
    BY <1>2, <2>1, UpsertAccounted, ReadAccounted, QuietAccounted, WriteAccounted, DeleteAccounted,
       CommitAccounted DEF Step
<1>3. ASSUME NEW w \in Worker, NEW r \in Request, Send(w, r) PROVE Accounted'
  BY <1>3, QuietAccounted
<1> QED
  BY <1>1, <1>2, <1>3 DEF Next, Finished

\* With version-checked writers no update of the row there is now is lost, and
\* tills that race for its last piece sell it once, however retries, deletions,
\* reservations and restocking that pass the version by interleave with them.
THEOREM VersionTells == Spec => []VersionTellsLedger
<1>1. Spec => [](Typing /\ Reserved /\ Accounted)
  BY InitTyping, InitReserved, InitAccounted, NextTyping, NextReserved, NextAccounted, PTL DEF Spec
<1>2. Typing /\ Accounted => VersionTellsLedger
  <2>1. ASSUME Typing, Accounted, NEW i \in Item
        PROVE  /\ VersionedOnly(i) /\ rows[i] # NoRow => rows[i].quantity = Since[i].qty
               /\ OnlySalesTake(i) => Since[i].qty >= 0
    <3>1. Since[i].qty \in Int /\ (rows[i] # NoRow => rows[i].quantity \in Int)
      <4>1. rows[i] \in Row \cup {NoRow}
        BY <2>1 DEF Typing, TypeOK
      <4> QED
        BY <2>1, <4>1, RowParts, SinceInt DEF Typing
    <3> QED
      BY <2>1, <3>1 DEF Accounted, CommittedAccounts, Accounts
  <2> QED
    BY <2>1 DEF VersionTellsLedger, VersionedQuantityMatchesLedger, NeverOversold
<1> QED
  BY <1>1, <1>2, PTL

-----------------------------------------------------------------------------
(***************************************************************************)
(* What is reserved is what the committed requests ask for.  A request is  *)
(* sent once; while it runs, its pending entries are those of the lines it *)
(* has passed, so at its commit the ledger moves by the whole request.  A  *)
(* row that was deleted (its id is not the first any more) is left out, as *)
(* in the property.                                                        *)
(***************************************************************************)
Busy(w) == pc[w] # "idle"
FirstRow(i) == rows[i] # NoRow /\ created[i] = 1

\* What a request's first n lines ask for of item i.
Asked(lines, i, n) == SumOn([k \in 1..Len(lines) |-> IF lines[k].item = i THEN lines[k].qty ELSE 0], 1..n)

\* What the committed requests reserve of an item.
Outstanding(i) == SumOn([r \in Request |-> Reserves(r, i)], served)

SentOnce ==
    /\ todo \cap served = {}
    /\ \A w \in Worker : Busy(w) => job[w] \notin todo \cup served
    /\ \A v, w \in Worker : Busy(v) /\ Busy(w) /\ job[v] = job[w] => v = w

Signed(kind, n) == IF kind = "ALLOCATE" THEN n ELSE -n

PendingIsAsked(w) ==
    Busy(w) =>
       /\ pc[w] = "commit" => line[w] = Len(job[w].lines) + 1
       /\ \A i \in Item :
             /\ job[w].kind \notin Reserving => entry[w][i].alloc = 0
             /\ job[w].kind \in Reserving /\ FirstRow(i) =>
                   entry[w][i].alloc = Signed(job[w].kind, Asked(job[w].lines, i, line[w] - 1))

LedgerIsOutstanding ==
    /\ IsFiniteSet(served)
    /\ \A i \in Item :
          /\ created[i] >= 1
          /\ FirstRow(i) => past[i] = Nothing /\ ledger[i].alloc = Outstanding(i)

Owed == SentOnce /\ LedgerIsOutstanding /\ \A w \in Worker : PendingIsAsked(w)

-----------------------------------------------------------------------------
LEMMA AskedSums ==
    ASSUME NEW r \in Request, NEW i
    PROVE  /\ \A n \in 0..Len(r.lines) : Asked(r.lines, i, n) \in Int
           /\ Asked(r.lines, i, 0) = 0
           /\ \A n \in 1..Len(r.lines) :
                 Asked(r.lines, i, n) =
                    Asked(r.lines, i, n - 1) + (IF r.lines[n].item = i THEN r.lines[n].qty ELSE 0)
<1> DEFINE L == Len(r.lines)
           v == [k \in 1..L |-> IF r.lines[k].item = i THEN r.lines[k].qty ELSE 0]
<1>1. L \in Nat /\ \A k \in 1..L : v[k] \in Int
  BY RequestFacts
<1>2. \A n \in 0..L : IsFiniteSet(1..n) /\ 1..n \subseteq 1..L
  BY <1>1, FS_Interval
<1>3. \A n \in 0..L : Asked(r.lines, i, n) = SumOn(v, 1..n)
  BY DEF Asked
<1>4. \A n \in 1..L : v[n] = IF r.lines[n].item = i THEN r.lines[n].qty ELSE 0
  OBVIOUS
<1> HIDE DEF v
<1>5. \A n \in 0..L : SumOn(v, 1..n) \in Int
  BY <1>1, <1>2, SumIsInt
<1>6. SumOn(v, 1..0) = 0
  <2>1. 1..0 = {}
    OBVIOUS
  <2> QED
    BY <2>1, SumOfNone
<1>7. ASSUME NEW n \in 1..L
      PROVE  SumOn(v, 1..n) = SumOn(v, 1..(n - 1)) + v[n]
  <2>1. n \in 0..L /\ n - 1 \in 0..L /\ n \in 1..n /\ (1..n) \ {n} = 1..(n - 1)
    BY <1>1
  <2>2. SumOn(v, 1..n) = v[n] + SumOn(v, (1..n) \ {n})
    BY <1>1, <1>2, <2>1, SumSplits
  <2>3. v[n] \in Int /\ SumOn(v, 1..(n - 1)) \in Int
    BY <1>1, <1>5, <2>1
  <2>4. SumOn(v, (1..n) \ {n}) = SumOn(v, 1..(n - 1))
    BY <2>1
  <2> QED
    BY <2>2, <2>3, <2>4
<1>8. 0 \in 0..L /\ \A n \in 1..L : n \in 0..L /\ n - 1 \in 0..L
  BY <1>1
<1> HIDE DEF L
<1>9. Asked(r.lines, i, 0) = 0
  BY <1>3, <1>6, <1>8
<1>10. \A n \in 1..L : Asked(r.lines, i, n) = Asked(r.lines, i, n - 1) + v[n]
  BY <1>3, <1>7, <1>8
<1> QED
  BY <1>3, <1>4, <1>5, <1>9, <1>10 DEF L

LEMMA AskedStep ==
    ASSUME NEW r \in Request, NEW i, NEW n \in 1..Len(r.lines)
    PROVE  Asked(r.lines, i, n) =
              Asked(r.lines, i, n - 1) + (IF r.lines[n].item = i THEN r.lines[n].qty ELSE 0)
BY AskedSums

LEMMA TotalIsAsked ==
    ASSUME NEW r \in Request, NEW i
    PROVE  LineTotal(r.lines, i) = Asked(r.lines, i, Len(r.lines)) /\ LineTotal(r.lines, i) \in Int
<1>1. DOMAIN r.lines = 1..Len(r.lines) /\ Len(r.lines) \in Nat
  BY RequestFacts
<1> DEFINE v == [k \in 1..Len(r.lines) |-> IF r.lines[k].item = i THEN r.lines[k].qty ELSE 0]
<1>2. LineTotal(r.lines, i) = SumOn(v, 1..Len(r.lines))
  <2>1. LineTotal(r.lines, i) = MapThenSumSet(LAMBDA k : IF r.lines[k].item = i THEN r.lines[k].qty ELSE 0, 1..Len(r.lines))
    BY <1>1, Zenon DEF LineTotal
  <2>2. SumOn(v, 1..Len(r.lines)) = MapThenSumSet(LAMBDA k : IF r.lines[k].item = i THEN r.lines[k].qty ELSE 0, 1..Len(r.lines))
    BY ZenonT(40) DEF SumOn, MapThenSumSet, MapThenFoldSet
  <2> QED
    BY <2>1, <2>2
<1>3. Len(r.lines) \in 0..Len(r.lines)
  BY <1>1
<1>4. Asked(r.lines, i, Len(r.lines)) = SumOn(v, 1..Len(r.lines))
  BY DEF Asked
<1> HIDE DEF v
<1>5. Asked(r.lines, i, Len(r.lines)) \in Int
  BY <1>3, AskedSums
<1> QED
  BY <1>2, <1>4, <1>5

\* What a request reserves is what all its lines ask for.
LEMMA ReservesAll ==
    ASSUME NEW r \in Request, NEW i
    PROVE  /\ Reserves(r, i) \in Int
           /\ r.kind \in Reserving => Reserves(r, i) = Signed(r.kind, Asked(r.lines, i, Len(r.lines)))
           /\ r.kind \notin Reserving => Reserves(r, i) = 0
<1>1. LineTotal(r.lines, i) = Asked(r.lines, i, Len(r.lines)) /\ LineTotal(r.lines, i) \in Int
  BY TotalIsAsked
<1> QED
  BY <1>1 DEF Reserves, Reserving, Signed

LEMMA OutstandingStays ==
    ASSUME UNCHANGED served, NEW CONSTANT i
    PROVE  Outstanding(i)' = Outstanding(i)
BY DEF Outstanding

\* A request that commits adds what it reserves.
LEMMA OutstandingGrows ==
    ASSUME NEW CONSTANT r \in Request, served \subseteq Request, IsFiniteSet(served), r \notin served,
           served' = served \cup {r}, NEW CONSTANT i
    PROVE  /\ Outstanding(i)' = Outstanding(i) + Reserves(r, i) /\ Outstanding(i) \in Int
           /\ IsFiniteSet(served')
<1> DEFINE v == [q \in Request |-> Reserves(q, i)]
           S == served \cup {r}
<1>1. /\ Outstanding(i) = SumOn(v, served) /\ Outstanding(i)' = SumOn(v, S)
      /\ v[r] = Reserves(r, i)
  BY DEF Outstanding
<1>2. IsFiniteSet(S) /\ r \in S /\ S \ {r} = served
  BY FS_AddElement
<1>3. \A q \in S : v[q] \in Int
  BY ReservesAll
<1> HIDE DEF v
<1>4. SumOn(v, S) = v[r] + SumOn(v, S \ {r})
  <2> HIDE DEF S
  <2> QED
    BY <1>2, <1>3, SumSplits
<1>5. SumOn(v, served) \in Int
  BY <1>3, SumIsInt
<1>6. SumOn(v, S) = v[r] + SumOn(v, served)
  BY <1>2, <1>4
<1> QED
  BY <1>1, <1>2, <1>3, <1>5, <1>6

LEMMA InitOwed == Init => Owed
<1> SUFFICES ASSUME Init PROVE Owed
  OBVIOUS
<1>1. SentOnce /\ \A w \in Worker : PendingIsAsked(w)
  BY DEF Init, SentOnce, Busy, PendingIsAsked
<1>2. served = {} /\ \A i \in Item : past[i] = Nothing
  BY DEF Init
<1>3. LedgerIsOutstanding
  <2>1. \A i \in Item : Outstanding(i) = 0
    BY <1>2, SumOfNone DEF Outstanding
  <2>2. \A i \in Item : created[i] >= 1 /\ ledger[i].alloc = 0
    BY DEF Init
  <2> QED
    BY <1>2, <2>1, <2>2, FS_EmptySet DEF LedgerIsOutstanding
<1> QED
  BY <1>1, <1>3 DEF Owed

\* A step of w that commits nothing: what counts is what w has pending after
\* it.
LEMMA StepOwed ==
    ASSUME Typing, Owed, NEW w \in Worker, UNCHANGED <<served, todo>>,
           \A v \in Worker \ {w} : pc'[v] = pc[v] /\ job'[v] = job[v] /\ line'[v] = line[v] /\ entry'[v] = entry[v],
           pc'[w] = "idle" \/ (Busy(w) /\ job'[w] = job[w]),
           \A i \in Item :
              /\ created'[i] >= 1
              /\ FirstRow(i)' => FirstRow(i) /\ ledger'[i].alloc = ledger[i].alloc /\ past'[i] = past[i],
           PendingIsAsked(w)'
    PROVE  Owed'
<1>1. \A v \in Worker : Busy(v)' => Busy(v) /\ job'[v] = job[v]
  BY DEF Busy
<1>2. SentOnce'
  BY <1>1 DEF Owed, SentOnce
<1>3. \A i : Outstanding(i)' = Outstanding(i)
  BY OutstandingStays
<1>4. LedgerIsOutstanding'
  BY <1>3 DEF Owed, LedgerIsOutstanding, Nothing
<1>5. ASSUME NEW v \in Worker, v # w
      PROVE  PendingIsAsked(v)'
  BY <1>5 DEF Owed, PendingIsAsked, Busy
<1> QED
  BY <1>2, <1>4, <1>5 DEF Owed

LEMMA ThrowOwed ==
    ASSUME Typing, Owed, NEW w \in Worker, Busy(w), Throw(w)
    PROVE  Owed'
<1>1. /\ UNCHANGED <<served, todo, rows, created, ledger, past>>
      /\ \A v \in Worker \ {w} : pc'[v] = pc[v] /\ job'[v] = job[v] /\ line'[v] = line[v] /\ entry'[v] = entry[v]
      /\ pc'[w] = "idle" \/ job'[w] = job[w]
      /\ line'[w] = 1 /\ entry'[w] = [i \in Item |-> Nothing]
  BY DEF Throw, Rollback, shared, Typing, TypeOK
<1>2. pc'[w] # "commit"
  <2>1. job[w].kind \in Kind
    BY JobFacts, RequestFacts DEF Typing, Busy
  <2>2. FirstStep(job[w].kind) # "commit"
    BY <2>1, FirstStepType
  <2> QED
    BY <2>2 DEF Throw, Rollback, Typing, TypeOK
<1>3. PendingIsAsked(w)'
  <2>1. \A i \in Item : entry'[w][i].alloc = 0
    BY <1>1 DEF Nothing
  <2>2. ASSUME Busy(w)', NEW i \in Item
        PROVE  Asked(job'[w].lines, i, line'[w] - 1) = 0
    <3>1. job'[w] \in Request /\ line'[w] - 1 = 0
      BY <1>1, <2>2, JobFacts DEF Typing, Busy
    <3> QED
      BY <3>1, AskedSums
  <2> QED
    BY <1>2, <2>1, <2>2 DEF PendingIsAsked, Signed
<1>4. \A i \in Item : created'[i] >= 1 /\ (FirstRow(i)' => FirstRow(i) /\ ledger'[i].alloc = ledger[i].alloc /\ past'[i] = past[i])
  BY <1>1 DEF FirstRow, Owed, LedgerIsOutstanding
<1> QED
  BY <1>1, <1>3, <1>4, StepOwed

\* Passing a line: what is pending grows by what the line asks for, or the
\* line is of a row that is gone.
LEMMA AdvanceOwed ==
    ASSUME Typing, Owed, NEW w \in Worker, pc[w] \in {"read", "write"}, Advance(w),
           UNCHANGED <<rows, created, ledger, past, served, todo, job>>,
           \A v \in Worker \ {w} : entry'[v] = entry[v],
           \A i \in Item \ {At(w).item} : entry'[w][i] = entry[w][i],
           LET i == At(w).item IN
           \/ entry'[w][i] = Plus(entry[w][i], Change(job[w], line[w]))
           \/ entry'[w] = entry[w] /\ ~ FirstRow(i)
    PROVE  Owed'
<1> DEFINE i == At(w).item
           r == job[w]
           n == line[w]
           q == At(w).qty
<1>1. /\ r \in Request /\ n \in 1..Len(r.lines) /\ i \in Item /\ q \in Int
      /\ i = r.lines[n].item /\ q = r.lines[n].qty /\ Len(r.lines) \in Nat
  BY LineFacts, RequestFacts DEF At, Typing
<1>2. /\ line'[w] = n + 1
      /\ pc'[w] = "commit" => n = Len(r.lines)
      /\ \A v \in Worker \ {w} : pc'[v] = pc[v] /\ line'[v] = line[v]
  <2>1. n < Len(r.lines) \/ n = Len(r.lines)
    BY <1>1
  <2> QED
    BY <2>1 DEF Advance, Typing, TypeOK
<1>3. PendingIsAsked(w) /\ Busy(w)
  BY DEF Owed, Busy
<1>4. n \in Nat /\ n + 1 - 1 = n /\ n - 1 \in 0..Len(r.lines) /\ n \in 0..Len(r.lines)
  BY <1>1
<1>5. ASSUME NEW j \in Item
      PROVE  /\ r.kind \notin Reserving => entry'[w][j].alloc = 0
             /\ r.kind \in Reserving /\ FirstRow(j) => entry'[w][j].alloc = Signed(r.kind, Asked(r.lines, j, n))
  <2> DEFINE before == Asked(r.lines, j, n - 1)
             after == Asked(r.lines, j, n)
  <2>1. before \in Int /\ after = before + (IF j = i THEN q ELSE 0)
    <3>1. before \in Int
      BY <1>1, <1>4, AskedSums
    <3>2. after = before + (IF r.lines[n].item = j THEN r.lines[n].qty ELSE 0)
      <4> HIDE DEF r, n
      <4>1. /\ r \in Request /\ n \in 1..Len(r.lines)
        BY <1>1
      <4> QED
        BY <4>1, AskedStep
    <3> QED
      BY <1>1, <3>1, <3>2
  <2>2. /\ r.kind \notin Reserving => entry[w][j].alloc = 0
        /\ r.kind \in Reserving /\ FirstRow(j) => entry[w][j].alloc = Signed(r.kind, before)
    BY <1>3 DEF PendingIsAsked
  <2> HIDE DEF before, after
  <2>3. CASE entry'[w][j] = entry[w][j] /\ (j # i \/ ~ FirstRow(j))
    BY <2>1, <2>2, <2>3 DEF before, after
  <2>4. CASE j = i /\ entry'[w][i] = Plus(entry[w][i], Change(r, n))
    <3>1. entry'[w][j].alloc = entry[w][j].alloc + Change(r, n).alloc
      BY <2>4 DEF Plus
    <3>2. r.kind \notin Reserving => Change(r, n).alloc = 0
      BY <1>1, OnlyReservingReserves
    <3>3. r.kind \in Reserving => Change(r, n).alloc = Signed(r.kind, q)
      BY <1>1 DEF Change, Reserving, Signed
    <3>4. r.kind \in Reserving /\ FirstRow(j) => Signed(r.kind, before) + Signed(r.kind, q) = Signed(r.kind, after)
      <4>1. before \in Int /\ q \in Int /\ after = before + q
        BY <1>1, <2>1, <2>4
      <4> HIDE DEF r, q
      <4> QED
        BY <4>1 DEF Signed
    <3> QED
      BY <2>2, <3>1, <3>2, <3>3, <3>4 DEF before, after
  <2> QED
    BY <2>3, <2>4
<1>6. PendingIsAsked(w)'
  <2>1. job'[w] = r /\ line'[w] - 1 = n /\ (pc'[w] = "commit" => line'[w] = Len(r.lines) + 1)
    <3>1. job'[w] = r
      OBVIOUS
    <3>2. line'[w] - 1 = n
      BY <1>2, <1>4
    <3>3. pc'[w] = "commit" => line'[w] = Len(r.lines) + 1
      BY <1>2
    <3> QED
      BY <3>1, <3>2, <3>3
  <2>2. \A j : FirstRow(j)' <=> FirstRow(j)
    BY DEF FirstRow
  <2> HIDE DEF r, n
  <2> QED
    BY <1>5, <2>1, <2>2 DEF PendingIsAsked
<1>7. \A j \in Item : created'[j] >= 1 /\ (FirstRow(j)' => FirstRow(j) /\ ledger'[j].alloc = ledger[j].alloc /\ past'[j] = past[j])
  BY DEF FirstRow, Owed, LedgerIsOutstanding
<1> HIDE DEF i, r, n, q
<1> QED
  BY <1>2, <1>3, <1>6, <1>7, StepOwed

LEMMA ReadOwed ==
    ASSUME Typing, Owed, NEW w \in Worker, ReadRow(w)
    PROVE  Owed'
<1>1. /\ UNCHANGED <<served, todo, rows, created, ledger, past, entry, job, line>>
      /\ \A v \in Worker \ {w} : pc'[v] = pc[v]
      /\ pc[w] = "read" /\ pc'[w] = "write"
  BY DEF ReadRow, shared, Typing, TypeOK
<1>2. PendingIsAsked(w)'
  BY <1>1 DEF Owed, PendingIsAsked, Busy, FirstRow
<1>3. \A i \in Item : created'[i] >= 1 /\ (FirstRow(i)' => FirstRow(i) /\ ledger'[i].alloc = ledger[i].alloc /\ past'[i] = past[i])
  BY <1>1 DEF FirstRow, Owed, LedgerIsOutstanding
<1> QED
  BY <1>1, <1>2, <1>3, StepOwed DEF Busy

LEMMA SkipOwed ==
    ASSUME Typing, Owed, NEW w \in Worker, SkipMissingRow(w)
    PROVE  Owed'
<1> DEFINE i == At(w).item
<1>1. /\ pc[w] = "read" /\ Advance(w) /\ UNCHANGED <<rows, created, ledger, past, served, todo, job, entry>>
      /\ Visible(w, i) = NoRow
  BY DEF SkipMissingRow, shared
<1>2. i \in Item
  BY <1>1, LineFacts DEF Typing
<1>3. own[w][i] \in Row \cup {Clean}
  BY <1>2 DEF Typing, TypeOK
<1>4. rows[i] = NoRow
  BY <1>1, <1>3, ValueAssumption DEF Visible
<1> QED
  BY <1>1, <1>4, AdvanceOwed DEF FirstRow

LEMMA WriteOwed ==
    ASSUME Typing, Owed, NEW w \in Worker, WriteRow(w)
    PROVE  Owed'
<1> DEFINE i == At(w).item
<1>1. /\ i \in Item /\ pc[w] = "write" /\ Advance(w) /\ UNCHANGED <<rows, created, ledger, past, served, todo, job>>
      /\ entry' = [entry EXCEPT ![w][i] = Plus(@, Change(job[w], line[w]))]
  BY LineFacts DEF WriteRow, shared, Typing
<1>2. /\ entry'[w][i] = Plus(entry[w][i], Change(job[w], line[w]))
      /\ \A v \in Worker \ {w} : entry'[v] = entry[v]
      /\ \A j \in Item \ {i} : entry'[w][j] = entry[w][j]
  BY <1>1 DEF Typing, TypeOK
<1> QED
  BY <1>1, <1>2, AdvanceOwed

\* A row that goes, or comes again, is not the first any more.
LEMMA RowsOwed ==
    ASSUME Typing, Reserved, Owed, NEW w \in Worker, Upsert(w) \/ DeleteRow(w)
    PROVE  Owed'
<1> DEFINE i == At(w).item
<1>1. /\ i \in Item /\ Busy(w) /\ UNCHANGED <<served, todo, entry, line>>
      /\ \A v \in Worker \ {w} : pc'[v] = pc[v] /\ job'[v] = job[v]
      /\ pc'[w] = "idle" \/ (pc'[w] = "read" /\ job'[w] = job[w] /\ pc[w] = "upsert")
  BY LineFacts DEF Upsert, DeleteRow, Typing, TypeOK, Busy
<1>2. \A j \in Item : /\ created[j] \in Nat /\ created[j] >= 1
                      /\ FirstRow(j)' => FirstRow(j) /\ ledger'[j].alloc = ledger[j].alloc /\ past'[j] = past[j]
                      /\ created'[j] >= 1
  <2>1. CASE Upsert(w)
    <3>1. /\ ledger' = ledger /\ past' = past
          /\ \/ rows' = rows /\ created' = created
             \/ rows[i] = NoRow /\ rows' = [rows EXCEPT ![i] = FreshRow(i, 0)] /\ created' = [created EXCEPT ![i] = @ + 1]
      BY <2>1 DEF Upsert
    <3>2. \A j \in Item : created[j] \in Nat /\ created[j] >= 1
      BY DEF Typing, TypeOK, Owed, LedgerIsOutstanding
    <3>3. \A j \in Item : \/ rows'[j] = rows[j] /\ created'[j] = created[j]
                          \/ created'[j] = created[j] + 1
      BY <3>1 DEF Typing, TypeOK
    <3>4. \A j \in Item : created'[j] = created[j] + 1 => created'[j] # 1 /\ created'[j] >= 1
      BY <3>2
    <3> QED
      BY <3>1, <3>2, <3>3, <3>4 DEF FirstRow
  <2>2. CASE DeleteRow(w)
    <3>1. rows' = [rows EXCEPT ![i] = NoRow] /\ past' = [past EXCEPT ![i] = ledger[i]] /\ ledger' = ledger /\ created' = created
      BY <2>2 DEF DeleteRow
    <3>2. /\ rows'[i] = NoRow
          /\ \A j \in Item \ {i} : rows'[j] = rows[j] /\ past'[j] = past[j]
      BY <1>1, <3>1 DEF Typing, TypeOK
    <3> QED
      BY <3>1, <3>2 DEF FirstRow, Typing, TypeOK, Owed, LedgerIsOutstanding
  <2> QED
    BY <2>1, <2>2
<1>3. PendingIsAsked(w)'
  <2>1. CASE pc'[w] = "idle"
    BY <2>1 DEF PendingIsAsked, Busy
  <2>2. CASE pc'[w] = "read" /\ job'[w] = job[w] /\ pc[w] = "upsert"
    <3>1. job[w].kind = "CREATE" /\ \A j \in Item : entry[w][j].alloc = 0
      BY <2>2 DEF Typing, Starts, Reserved, NothingToCommit, CleanHasNoEntry
    <3> QED
      BY <1>1, <2>2, <3>1 DEF PendingIsAsked, Reserving
  <2> QED
    BY <1>1, <2>1, <2>2
<1> QED
  BY <1>1, <1>2, <1>3, StepOwed

LEMMA SendOwed ==
    ASSUME Typing, Reserved, Owed, NEW w \in Worker, NEW r \in Request, Send(w, r)
    PROVE  Owed'
<1>1. /\ pc[w] = "idle" /\ r \in todo /\ todo' = todo \ {r}
      /\ pc'[w] = FirstStep(r.kind) /\ job'[w] = r /\ line'[w] = 1
      /\ UNCHANGED <<rows, created, ledger, past, served, entry, line>>
      /\ \A v \in Worker \ {w} : pc'[v] = pc[v] /\ job'[v] = job[v]
  BY DEF Send, shared, Typing, TypeOK, Starts
<1>2. FirstStep(r.kind) \in {"upsert", "read", "write"}
  BY RequestFacts, FirstStepType
<1>3. \A v \in Worker \ {w} : Busy(v)' <=> Busy(v)
  BY <1>1 DEF Busy
<1>4. Busy(w)' /\ ~ Busy(w)
  BY <1>1, <1>2 DEF Busy
<1>5. SentOnce'
  <2>1. r \notin served /\ \A v \in Worker \ {w} : Busy(v) => job[v] # r
    BY <1>1 DEF Owed, SentOnce
  <2> QED
    BY <1>1, <1>3, <1>4, <2>1 DEF Owed, SentOnce
<1>6. \A i : Outstanding(i)' = Outstanding(i)
  BY <1>1, OutstandingStays
<1>8. LedgerIsOutstanding'
  BY <1>1, <1>6 DEF Owed, LedgerIsOutstanding, FirstRow, Nothing
<1>9. PendingIsAsked(w)'
  <2>1. \A i \in Item : entry[w][i].alloc = 0
    BY <1>1 DEF Reserved, NothingToCommit, CleanHasNoEntry
  <2>2. \A i \in Item : Asked(r.lines, i, 1 - 1) = 0
    BY AskedSums
  <2> QED
    BY <1>1, <1>2, <2>1, <2>2 DEF PendingIsAsked, Signed
<1>10. ASSUME NEW v \in Worker, v # w
       PROVE  PendingIsAsked(v)'
  BY <1>1, <1>3, <1>10 DEF Owed, PendingIsAsked, FirstRow, Busy
<1> QED
  BY <1>5, <1>8, <1>9, <1>10 DEF Owed

LEMMA CommitOwed ==
    ASSUME Typing, Reserved, Owed, NEW w \in Worker, Commit(w)
    PROVE  Owed'
<1> DEFINE r == job[w]
<1>1. /\ pc[w] = "commit" /\ pc'[w] = "idle" /\ todo' = todo /\ past' = past
      /\ \A v \in Worker \ {w} : pc'[v] = pc[v] /\ job'[v] = job[v] /\ line'[v] = line[v] /\ entry'[v] = entry[v]
      /\ served' = served \cup {r}
      /\ \A j \in Item : /\ rows'[j] = (IF own[w][j] # Clean THEN own[w][j] ELSE rows[j])
                          /\ created'[j] = (IF own[w][j] # Clean /\ rows[j] = NoRow THEN created[j] + 1 ELSE created[j])
                          /\ ledger'[j] = Plus(ledger[j], entry[w][j])
  BY DEF Commit, Typing, TypeOK
<1>2. /\ Busy(w) /\ r \in Request /\ Len(r.lines) \in Nat /\ r \notin todo /\ r \notin served
      /\ served \subseteq Request /\ IsFiniteSet(served)
  <2>1. Busy(w) /\ r \in Request /\ Len(r.lines) \in Nat
    BY <1>1, JobFacts DEF Busy, Typing
  <2> QED
    BY <2>1 DEF Owed, SentOnce, LedgerIsOutstanding, Typing, TypeOK
<1>3. /\ \A v \in Worker \ {w} : Busy(v)' <=> Busy(v)
      /\ ~ Busy(w)'
  BY <1>1 DEF Busy
<1>4. SentOnce'
  <2>1. \A v \in Worker \ {w} : Busy(v) => job[v] # r
    BY <1>2 DEF Owed, SentOnce
  <2> QED
    BY <1>1, <1>2, <1>3, <2>1 DEF Owed, SentOnce
<1>7. \A j \in Item : /\ created[j] \in Nat /\ created[j] >= 1 /\ created'[j] >= 1
                      /\ FirstRow(j)' => FirstRow(j)
                      /\ ledger'[j].alloc = ledger[j].alloc + entry[w][j].alloc
                      /\ ledger[j].alloc \in Int /\ entry[w][j].alloc \in Int
  <2> SUFFICES ASSUME NEW j \in Item
               PROVE  /\ created[j] \in Nat /\ created[j] >= 1 /\ created'[j] >= 1
                      /\ FirstRow(j)' => FirstRow(j)
                      /\ ledger'[j].alloc = ledger[j].alloc + entry[w][j].alloc
                      /\ ledger[j].alloc \in Int /\ entry[w][j].alloc \in Int
    OBVIOUS
  <2>1. created[j] \in Nat /\ created[j] >= 1 /\ ledger[j] \in Effect /\ entry[w][j] \in Effect
    BY DEF Typing, TypeOK, Owed, LedgerIsOutstanding
  <2>2. created'[j] \in {created[j], created[j] + 1} /\ (created'[j] = created[j] => rows[j] # NoRow \/ rows'[j] = rows[j])
    BY <1>1, <2>1
  <2>3. created'[j] >= 1 /\ (created'[j] = 1 => created'[j] = created[j])
    BY <2>1, <2>2
  <2>4. FirstRow(j)' => FirstRow(j)
    BY <2>2, <2>3 DEF FirstRow
  <2>5. ledger'[j].alloc = ledger[j].alloc + entry[w][j].alloc
    <3>1. ledger'[j] = Plus(ledger[j], entry[w][j])
      BY <1>1
    <3>2. Plus(ledger[j], entry[w][j]).alloc = ledger[j].alloc + entry[w][j].alloc
      BY Zenon DEF Plus
    <3> QED
      BY <3>1, <3>2
  <2>6. ledger[j].alloc \in Int /\ entry[w][j].alloc \in Int
    BY <2>1 DEF Effect
  <2> QED
    BY <2>1, <2>3, <2>4, <2>5, <2>6
<1>8. ASSUME NEW v \in Worker
      PROVE  PendingIsAsked(v)'
  BY <1>1, <1>3, <1>7, <1>8 DEF Owed, PendingIsAsked, Busy
<1>9. \A i : /\ Outstanding(i)' = Outstanding(i) + Reserves(r, i) /\ Outstanding(i) \in Int
            /\ IsFiniteSet(served')
  <2> HIDE DEF r
  <2> QED
    BY <1>1, <1>2, OutstandingGrows
<1>10. ASSUME NEW j \in Item, FirstRow(j)
       PROVE  entry[w][j].alloc = Reserves(r, j)
  <2>1. line[w] = Len(r.lines) + 1 /\ line[w] - 1 = Len(r.lines)
    <3>1. line[w] = Len(r.lines) + 1
      BY <1>1, <1>2 DEF Owed, PendingIsAsked
    <3> QED
      BY <1>2, <3>1
  <2>2. /\ r.kind \notin Reserving => entry[w][j].alloc = 0
        /\ r.kind \in Reserving => entry[w][j].alloc = Signed(r.kind, Asked(r.lines, j, Len(r.lines)))
    BY <1>2, <1>10, <2>1 DEF Owed, PendingIsAsked
  <2> QED
    BY <1>2, <2>2, ReservesAll
<1>11. ASSUME NEW j \in Item, FirstRow(j)'
       PROVE  past'[j] = Nothing /\ ledger'[j].alloc = Outstanding(j)'
  <2>1. FirstRow(j) /\ past[j] = Nothing /\ ledger[j].alloc = Outstanding(j)
    BY <1>7, <1>11 DEF Owed, LedgerIsOutstanding
  <2> QED
    BY <1>1, <1>7, <1>9, <1>10, <2>1
<1>12. LedgerIsOutstanding'
  BY <1>1, <1>2, <1>7, <1>11, FS_AddElement DEF LedgerIsOutstanding, Nothing
<1> QED
  BY <1>4, <1>8, <1>12 DEF Owed

LEMMA NextOwed == Typing /\ Reserved /\ Owed /\ [Next]_vars => Owed'
<1> SUFFICES ASSUME Typing, Reserved, Owed, [Next]_vars PROVE Owed'
  OBVIOUS
<1>1. CASE UNCHANGED vars
  <2>1. UNCHANGED <<rows, created, ledger, past, served, todo, pc, job, line, entry>>
    BY <1>1 DEF vars
  <2>2. \A i : Outstanding(i)' = Outstanding(i)
    BY <2>1, OutstandingStays
  <2>3. SentOnce' /\ LedgerIsOutstanding'
    BY <2>1, <2>2 DEF Owed, SentOnce, LedgerIsOutstanding, Busy, FirstRow, Nothing
  <2>4. \A w \in Worker : PendingIsAsked(w)'
    BY <2>1 DEF Owed, PendingIsAsked, Busy, FirstRow
  <2> QED
    BY <2>3, <2>4 DEF Owed
<1>2. ASSUME NEW w \in Worker, Step(w) PROVE Owed'
  <2>1. CASE RejectRow(w) \/ Conflict(w) \/ CallerFails(w) \/ BreakDeadlock(w)
    <3>1. Busy(w) /\ Throw(w)
      BY <2>1 DEF RejectRow, Conflict, CallerFails, BreakDeadlock, Waits, Busy
    <3> QED
      BY <3>1, ThrowOwed
  <2> QED
    BY <1>2, <2>1, RowsOwed, ReadOwed, SkipOwed, WriteOwed, CommitOwed DEF Step
<1>3. ASSUME NEW w \in Worker, NEW r \in Request, Send(w, r) PROVE Owed'
  BY <1>3, SendOwed
<1> QED
  BY <1>1, <1>2, <1>3 DEF Next, Finished

\* Whatever orders, tills, retries and aborted transactions run at once, what
\* is reserved of a product is what was allocated less what was committed or
\* released, by whole requests: no line is reserved, shipped or released
\* without the others of its request.
THEOREM ReservedIsOutstanding == Spec => []AllocatedIsOutstanding
<1>1. Spec => [](Typing /\ Reserved /\ Owed)
  BY InitTyping, InitReserved, InitOwed, NextTyping, NextReserved, NextOwed, PTL DEF Spec
<1>2. Typing /\ Reserved /\ Owed => AllocatedIsOutstanding
  <2>1. ASSUME Typing, NEW i
        PROVE  MapThenSumSet(LAMBDA r : Reserves(r, i), served) = Outstanding(i)
    <3>1. served \subseteq Request
      BY <2>1 DEF Typing, TypeOK
    <3> QED
      BY <3>1, ZenonT(40) DEF Outstanding, SumOn, MapThenSumSet, MapThenFoldSet
  <2>2. ASSUME Typing, Reserved, Owed, NEW i \in Item, rows[i] # NoRow, created[i] = 1
        PROVE  rows[i].allocated = Outstanding(i)
    <3>1. /\ rows[i].allocated = Since[i].alloc
          /\ past[i] = Nothing /\ ledger[i].alloc = Outstanding(i)
      BY <2>2 DEF Reserved, AllocatedMatchesLedger, Owed, LedgerIsOutstanding, FirstRow
    <3>2. ledger[i].alloc \in Int
      BY <2>2 DEF Typing, TypeOK, Effect
    <3>3. Since[i].alloc = ledger[i].alloc
      BY <3>1, <3>2 DEF Since, Nothing
    <3> QED
      BY <3>1, <3>3
  <2> QED
    BY <2>1, <2>2 DEF AllocatedIsOutstanding
<1> QED
  BY <1>1, <1>2, PTL

-----------------------------------------------------------------------------
(***************************************************************************)
(* A request enters the ledger once, as a whole.  What a transaction has   *)
(* pending is what the lines it has passed change, in whichever attempt it *)
(* is: a throw drops the entries and goes back to the first line.          *)
(***************************************************************************)

\* The sum of the first n of L numbers, one by one.
LEMMA RunningSum ==
    ASSUME NEW L \in Nat, NEW v, \A k \in 1..L : v[k] \in Int
    PROVE  /\ SumOn(v, 1..0) = 0
           /\ \A n \in 1..L : SumOn(v, 1..n) = SumOn(v, 1..(n - 1)) + v[n]
<1>1. SumOn(v, 1..0) = 0
  <2>1. 1..0 = {}
    OBVIOUS
  <2> QED
    BY <2>1, SumOfNone
<1>2. \A n \in 0..L : IsFiniteSet(1..n) /\ 1..n \subseteq 1..L
  BY FS_Interval
<1>3. \A n \in 0..L : SumOn(v, 1..n) \in Int
  BY <1>2, SumIsInt
<1>4. ASSUME NEW n \in 1..L
      PROVE  SumOn(v, 1..n) = SumOn(v, 1..(n - 1)) + v[n]
  <2>1. n \in 0..L /\ n - 1 \in 0..L /\ n \in 1..n /\ (1..n) \ {n} = 1..(n - 1)
    OBVIOUS
  <2>2. SumOn(v, 1..n) = v[n] + SumOn(v, (1..n) \ {n})
    BY <1>2, <2>1, SumSplits
  <2>3. v[n] \in Int /\ SumOn(v, 1..(n - 1)) \in Int
    BY <1>3, <2>1
  <2>4. SumOn(v, (1..n) \ {n}) = SumOn(v, 1..(n - 1))
    BY <2>1
  <2> QED
    BY <2>2, <2>3, <2>4
<1> QED
  BY <1>1, <1>4

\* What each line of r changes in the quantity of i, and what the first n do.
Moves(r, i) == [k \in 1..Len(r.lines) |-> IF r.lines[k].item = i THEN Change(r, k).qty ELSE 0]
Moved(r, i, n) == SumOn(Moves(r, i), 1..n)

PassedIsPending(w) ==
    /\ pc[w] = "idle" => \A i \in Item : entry[w][i].qty = 0
    /\ pc[w] # "idle" /\ job[w].kind # "DEALLOCATE" =>
          /\ pc[w] = "commit" => line[w] = Len(job[w].lines) + 1
          /\ \A i \in Item : entry[w][i].qty = Moved(job[w], i, line[w] - 1)

Passed == \A w \in Worker : PassedIsPending(w)

LEMMA MovedSums ==
    ASSUME NEW r \in Request, NEW i
    PROVE  /\ Moved(r, i, 0) = 0
           /\ \A n \in 1..Len(r.lines) :
                 Moved(r, i, n) = Moved(r, i, n - 1) + (IF r.lines[n].item = i THEN Change(r, n).qty ELSE 0)
<1> DEFINE v == Moves(r, i)
<1>1. Len(r.lines) \in Nat /\ \A n \in 1..Len(r.lines) : v[n] = IF r.lines[n].item = i THEN Change(r, n).qty ELSE 0
  BY RequestFacts DEF Moves
<1>2. \A n \in 1..Len(r.lines) : Change(r, n).qty \in Int
  BY ChangeType DEF Effect
<1>3. \A n \in 1..Len(r.lines) : v[n] \in Int
  BY <1>1, <1>2
<1> HIDE DEF v
<1>4. /\ SumOn(v, 1..0) = 0
      /\ \A n \in 1..Len(r.lines) : SumOn(v, 1..n) = SumOn(v, 1..(n - 1)) + v[n]
  BY <1>1, <1>3, RunningSum
<1>5. \A n : Moved(r, i, n) = SumOn(v, 1..n)
  BY DEF Moved, v
<1> QED
  BY <1>1, <1>4, <1>5

\* What all lines of a request together move of an item, in the property's words.
AllOf(r, i) ==
    MapThenSumSet(LAMBDA k : IF r.lines[k].item = i THEN Change(r, k).qty ELSE 0, DOMAIN r.lines)

\* All lines together: the sum the property speaks of.
LEMMA AllMoved ==
    ASSUME NEW r \in Request, NEW i
    PROVE  Moved(r, i, Len(r.lines)) = AllOf(r, i)
<1> DEFINE v == [k \in 1..Len(r.lines) |-> IF r.lines[k].item = i THEN Change(r, k).qty ELSE 0]
<1>1. SumOn(v, 1..Len(r.lines))
         = MapThenSumSet(LAMBDA k : IF r.lines[k].item = i THEN Change(r, k).qty ELSE 0, 1..Len(r.lines))
  BY ZenonT(40) DEF SumOn, MapThenSumSet, MapThenFoldSet
<1>2. DOMAIN r.lines = 1..Len(r.lines)
  BY RequestFacts
<1>3. Moved(r, i, Len(r.lines)) = SumOn(v, 1..Len(r.lines))
  BY DEF Moved, Moves
<1> HIDE DEF v
<1>4. Moved(r, i, Len(r.lines))
         = MapThenSumSet(LAMBDA k : IF r.lines[k].item = i THEN Change(r, k).qty ELSE 0, DOMAIN r.lines)
  BY <1>1, <1>2, <1>3
<1> QED
  BY <1>4 DEF AllOf

LEMMA InitPassed == Init => Passed
<1> SUFFICES ASSUME Init PROVE Passed
  OBVIOUS
<1>1. \A w \in Worker : pc[w] = "idle" /\ \A i \in Item : entry[w][i].qty = 0
  BY DEF Init, Nothing
<1> QED
  BY <1>1 DEF Passed, PassedIsPending

\* Nothing is passed by a worker at its first line with nothing pending.
LEMMA NothingPassed ==
    ASSUME NEW w \in Worker, \A i \in Item : entry'[w][i].qty = 0, line'[w] = 1,
           pc'[w] # "idle" => pc'[w] # "commit" /\ job'[w] \in Request
    PROVE  PassedIsPending(w)'
<1>1. ASSUME pc'[w] # "idle", NEW i \in Item
      PROVE  Moved(job'[w], i, line'[w] - 1) = 0
  <2>1. line'[w] - 1 = 0
    OBVIOUS
  <2>2. Moved(job'[w], i, 0) = 0
    BY <1>1, MovedSums
  <2> QED
    BY <2>1, <2>2
<1> QED
  BY <1>1 DEF PassedIsPending

LEMMA ThrowPassed ==
    ASSUME Typing, NEW w \in Worker, pc[w] # "idle", Throw(w)
    PROVE  PassedIsPending(w)'
<1>1. job[w] \in Request /\ job[w].kind \in Kind
  BY JobFacts, RequestFacts DEF Typing
<1>2. line'[w] = 1 /\ \A i \in Item : entry'[w][i].qty = 0
  BY DEF Throw, Rollback, Typing, TypeOK, Nothing
<1>3. \/ pc'[w] = "idle"
      \/ job'[w] = job[w] /\ pc'[w] \in {"read", FirstStep(job[w].kind)}
  BY DEF Throw, Rollback, Typing, TypeOK
<1>4. FirstStep(job[w].kind) # "commit"
  BY <1>1, FirstStepType
<1> QED
  BY <1>1, <1>2, <1>3, <1>4, NothingPassed

LEMMA WritePassed ==
    ASSUME Typing, Passed, NEW w \in Worker, WriteRow(w)
    PROVE  PassedIsPending(w)'
<1> DEFINE i == At(w).item
           r == job[w]
           n == line[w]
<1>1. /\ r \in Request /\ n \in 1..Len(r.lines) /\ i \in Item /\ i = r.lines[n].item /\ Len(r.lines) \in Nat
      /\ pc[w] = "write" /\ Advance(w) /\ job' = job
      /\ entry' = [entry EXCEPT ![w][i] = Plus(@, Change(r, n))]
  BY LineFacts, RequestFacts DEF WriteRow, At, Typing
<1>2. /\ entry'[w][i] = Plus(entry[w][i], Change(r, n))
      /\ \A j \in Item \ {i} : entry'[w][j] = entry[w][j]
  BY <1>1 DEF Typing, TypeOK
<1>3. /\ line'[w] = n + 1 /\ line'[w] - 1 = n
      /\ pc'[w] = "commit" => line'[w] = Len(r.lines) + 1
      /\ pc'[w] # "idle"
  <2>1. n < Len(r.lines) \/ n = Len(r.lines)
    BY <1>1
  <2> QED
    BY <1>1, <2>1 DEF Advance, Typing, TypeOK
<1>4. ASSUME NEW j \in Item, r.kind # "DEALLOCATE"
      PROVE  entry'[w][j].qty = Moved(r, j, n)
  <2>1. entry[w][j].qty = Moved(r, j, n - 1)
    BY <1>1, <1>4 DEF Passed, PassedIsPending
  <2>2. Moved(r, j, n) = Moved(r, j, n - 1) + (IF i = j THEN Change(r, n).qty ELSE 0)
    <3> HIDE DEF r, n, i
    <3> QED
      BY <1>1, MovedSums
  <2>3. entry[w][j].qty \in Int
    BY DEF Typing, TypeOK, Effect
  <2>4. CASE i = j
    <3>1. entry'[w][j].qty = entry[w][j].qty + Change(r, n).qty
      BY <1>2, <2>4 DEF Plus
    <3> HIDE DEF r, n, i
    <3> QED
      BY <2>1, <2>2, <2>4, <3>1
  <2>5. CASE i # j
    <3> HIDE DEF r, n, i
    <3> QED
      BY <1>2, <2>1, <2>2, <2>3, <2>5
  <2> QED
    BY <2>4, <2>5
<1>5. job'[w] = r
  BY <1>1
<1> HIDE DEF r, n, i
<1> QED
  BY <1>3, <1>4, <1>5 DEF PassedIsPending

\* An upsert or a deletion is of the only line, so that nothing is passed.
LEMMA RowsPassed ==
    ASSUME Typing, Passed, NEW w \in Worker, Upsert(w) \/ DeleteRow(w)
    PROVE  PassedIsPending(w)'
<1>1. /\ pc[w] \in {"upsert", "write"} /\ UNCHANGED <<entry, line>>
      /\ job[w].kind \in {"CREATE", "REMOVE"}
      /\ pc'[w] = "idle" \/ (pc'[w] = "read" /\ job'[w] = job[w])
  BY DEF Upsert, DeleteRow, Typing, TypeOK, Starts
<1>2. job[w] \in Request /\ line[w] \in 1..Len(job[w].lines) /\ Len(job[w].lines) = 1
  BY <1>1, LineFacts, RequestFacts DEF Typing
<1>3. line[w] = 1 /\ line[w] - 1 = 0
  BY <1>2
<1>4. ASSUME NEW i \in Item
      PROVE  entry[w][i].qty = 0
  <2>1. entry[w][i].qty = Moved(job[w], i, 0)
    BY <1>1, <1>3 DEF Passed, PassedIsPending
  <2> QED
    BY <1>2, <2>1, MovedSums
<1> QED
  BY <1>1, <1>2, <1>3, <1>4, NothingPassed

LEMMA StepPassed ==
    ASSUME Typing, Passed, NEW w \in Worker, Step(w)
    PROVE  PassedIsPending(w)'
<1>1. CASE RejectRow(w) \/ Conflict(w) \/ CallerFails(w) \/ BreakDeadlock(w)
  <2>1. pc[w] # "idle" /\ Throw(w)
    BY <1>1 DEF RejectRow, Conflict, CallerFails, BreakDeadlock, Waits
  <2> QED
    BY <2>1, ThrowPassed
<1>2. CASE ReadRow(w)
  <2>1. pc[w] = "read" /\ pc'[w] = "write" /\ UNCHANGED <<job, line, entry>>
    BY <1>2 DEF ReadRow, Typing, TypeOK
  <2> QED
    BY <2>1 DEF Passed, PassedIsPending
<1>3. CASE SkipMissingRow(w)
  <2>1. pc[w] = "read" /\ job'[w].kind = "DEALLOCATE" /\ pc'[w] # "idle"
    BY <1>3 DEF SkipMissingRow, Advance, Typing, TypeOK
  <2> QED
    BY <2>1 DEF PassedIsPending
<1>4. CASE Commit(w)
  BY <1>4 DEF Commit, PassedIsPending, Nothing, Typing, TypeOK
<1> QED
  BY <1>1, <1>2, <1>3, <1>4, WritePassed, RowsPassed DEF Step

\* A step of w leaves what the others have passed.
LEMMA OthersPassed ==
    ASSUME Typing, NEW w \in Worker, Step(w), NEW v \in Worker \ {w}
    PROVE  pc'[v] = pc[v] /\ job'[v] = job[v] /\ line'[v] = line[v] /\ entry'[v] = entry[v]
<1>1. CASE RejectRow(w) \/ Conflict(w) \/ CallerFails(w) \/ BreakDeadlock(w)
  <2>1. Throw(w)
    BY <1>1 DEF RejectRow, Conflict, CallerFails, BreakDeadlock
  <2> QED
    BY <2>1 DEF Throw, Rollback, Typing, TypeOK
<1>2. CASE Upsert(w) \/ DeleteRow(w)
  BY <1>2 DEF Upsert, DeleteRow, Typing, TypeOK
<1>3. CASE ReadRow(w) \/ SkipMissingRow(w)
  BY <1>3 DEF ReadRow, SkipMissingRow, Advance, Typing, TypeOK
<1>4. CASE WriteRow(w)
  BY <1>4 DEF WriteRow, Advance, Typing, TypeOK
<1>5. CASE Commit(w)
  BY <1>5 DEF Commit, Typing, TypeOK
<1> QED
  BY <1>1, <1>2, <1>3, <1>4, <1>5 DEF Step

LEMMA NextPassed == Typing /\ Passed /\ [Next]_vars => Passed'
<1> SUFFICES ASSUME Typing, Passed, [Next]_vars PROVE Passed'
  OBVIOUS
<1>1. CASE UNCHANGED vars
  BY <1>1 DEF vars, Passed, PassedIsPending
<1>2. ASSUME NEW w \in Worker, Step(w) PROVE Passed'
  <2>1. ASSUME NEW v \in Worker \ {w} PROVE PassedIsPending(v)'
    BY <1>2, OthersPassed DEF Passed, PassedIsPending
  <2> QED
    BY <1>2, <2>1, StepPassed DEF Passed
<1>3. ASSUME NEW w \in Worker, NEW r \in Request, Send(w, r) PROVE Passed'
  <2>1. /\ pc[w] = "idle" /\ pc'[w] = FirstStep(r.kind) /\ job'[w] = r /\ line'[w] = 1
        /\ UNCHANGED <<line, entry>>
        /\ \A v \in Worker \ {w} : pc'[v] = pc[v] /\ job'[v] = job[v]
    BY <1>3 DEF Send, Typing, TypeOK, Starts
  <2>2. FirstStep(r.kind) # "commit" /\ r \in Request
    BY RequestFacts, FirstStepType
  <2>3. \A i \in Item : entry'[w][i].qty = 0
    BY <2>1 DEF Passed, PassedIsPending
  <2>4. PassedIsPending(w)'
    BY <2>1, <2>2, <2>3, NothingPassed
  <2>5. ASSUME NEW v \in Worker \ {w} PROVE PassedIsPending(v)'
    BY <2>1 DEF Passed, PassedIsPending
  <2> QED
    BY <2>4, <2>5 DEF Passed
<1> QED
  BY <1>1, <1>2, <1>3 DEF Next, Finished

\* Of the steps that end a request at its commit only Commit writes the
\* ledger.
LEMMA OnlyCommitEnters ==
    ASSUME Typing, [Next]_vars, NEW w \in Worker, pc[w] = "commit", pc'[w] = "idle", ledger' # ledger
    PROVE  Commit(w)
<1>1. PICK v \in Worker : Step(v)
  BY DEF Next, Finished, vars, Send, shared
<1>2. v = w
  BY <1>1, OthersPassed
<1>3. CASE Throw(w)
  BY <1>3 DEF Throw, Rollback, shared
<1> QED
  BY <1>1, <1>2, <1>3 DEF Step, Upsert, ReadRow, RejectRow, SkipMissingRow, WriteRow, Conflict, DeleteRow,
                         CallerFails, BreakDeadlock

\* A request enters the ledger all at once and once, however many attempts it
\* took and however many of its lines an attempt had already written.
THEOREM EntersOnce == Spec => EntersTheLedgerOnce
<1> DEFINE Once == \A w \in Worker :
              pc[w] = "commit" /\ pc'[w] = "idle" /\ ledger' # ledger /\ job[w].kind # "DEALLOCATE" =>
              \A i \in Item :
                 LET n == MapThenSumSet(
                            LAMBDA k : IF job[w].lines[k].item = i THEN Change(job[w], k).qty ELSE 0,
                            DOMAIN job[w].lines)
                 IN ledger'[i].qty = ledger[i].qty + n
<1>1. Spec => [](Typing /\ Passed)
  BY InitTyping, InitPassed, NextTyping, NextPassed, PTL DEF Spec
<1>2. ASSUME Typing, Passed, [Next]_vars
      PROVE  Once
  <2> SUFFICES ASSUME NEW w \in Worker, pc[w] = "commit", pc'[w] = "idle", ledger' # ledger,
                      job[w].kind # "DEALLOCATE", NEW i \in Item
               PROVE  ledger'[i].qty = ledger[i].qty
                         + MapThenSumSet(LAMBDA k : IF job[w].lines[k].item = i THEN Change(job[w], k).qty ELSE 0,
                                         DOMAIN job[w].lines)
    BY Zenon
  <2> DEFINE r == job[w]
             L == Len(job[w].lines)
  <2>1. r \in Request /\ L \in Nat
    <3>1. r \in Request
      BY <1>2, JobFacts DEF Typing
    <3> QED
      BY <3>1, RequestFacts
  <2>2. Commit(w)
    BY <1>2, OnlyCommitEnters
  <2>3. ledger'[i].qty = ledger[i].qty + entry[w][i].qty
    BY <2>2 DEF Commit, Plus
  <2>4. entry[w][i].qty = Moved(r, i, L)
    <3>1. line[w] = L + 1 /\ entry[w][i].qty = Moved(r, i, line[w] - 1)
      BY <1>2 DEF Passed, PassedIsPending
    <3>2. line[w] - 1 = L
      BY <2>1, <3>1
    <3> QED
      BY <3>1, <3>2
  <2>5. Moved(r, i, L) = AllOf(job[w], i)
    BY <2>1, AllMoved
  <2>6. ledger'[i].qty = ledger[i].qty + AllOf(job[w], i)
    BY <2>3, <2>4, <2>5
  <2> QED
    BY <2>6 DEF AllOf
<1>3. Typing /\ Passed /\ [Next]_vars => Once
  BY <1>2
<1> HIDE DEF Once
<1>4. Spec => [][Once]_vars
  BY <1>1, <1>3, PTL DEF Spec
<1> QED
  BY <1>4 DEF EntersTheLedgerOnce, Once
=============================================================================

----------------------- MODULE OrderFulfilmentProofs -----------------------
(***************************************************************************)
(* Safety of one order's life for any number of lines, workers and         *)
(* requests, whatever they send: type correctness, one effective           *)
(* version-checked confirmation, and no shipment of an unpacked order.     *)
(*                                                                         *)
(* The inductive invariant says of every worker what the requests that run *)
(* beside it cannot take from it (Fits): the transition it checked, the    *)
(* pick list and pack it relies on, and, for a confirmation, that no other *)
(* has been committed since its client read the order, unless the version  *)
(* check still lies ahead and is bound to fail.                            *)
(***************************************************************************)
EXTENDS OrderFulfilment, WellFoundedInduction, TLAPS

\* The request writes the order's status in a transaction of its own.
Writes(w) == job[w].op \in {"STATUS", "FULFIL"}

\* There is a pick list, and something of the order was entered in a pack.
SomePacked == \E p \in DOMAIN packs : packs[p].rows # <<>>
Packaged == list # "NONE" /\ SomePacked

\* Which requests reach the steps that do not name one.
Underway(w) ==
    /\ pc[w] \in {"begin", "list"} => Writes(w)
    /\ pc[w] = "list" => job[w].to = "CONFIRMED"

\* A status request has checked its transition, and what the target status
\* says of the warehouse stays true.
Transits(w) ==
    pc[w] \in {"begin", "list", "commit"} /\ Writes(w) =>
       /\ job[w].to \in ORDER_TRANSITIONS[saw[w].order.status]
       /\ job[w].to \in {"PARTIALLY_FULFILLED", "SHIPPED"} => Packaged
       /\ job[w].to = "PROCESSING" /\ pc[w] = "commit" => Packaged

\* Once a checked confirmation is in, every other one still has its version
\* check ahead of it, with an older version.
Overtaken(w) ==
    /\ expected[w] <= order.version
    /\ /\ pc[w] \in {"begin", "list", "commit"}
       /\ job[w].op = "STATUS" /\ job[w].to = "CONFIRMED" /\ job[w].checked
       /\ confirms > 0
       => pc[w] = "begin" /\ expected[w] < order.version

\* The pack and the row a packing request works on are there.
Handles(w) ==
    /\ pc[w] \in {"find", "write", "decide", "commit"} /\ job[w].op = "ADD" =>
          job[w].pack \in DOMAIN packs
    /\ pc[w] \in {"write", "decide", "commit"} /\ job[w].op = "ADD" =>
          saw[w].row = 0 \/ saw[w].row \in DOMAIN packs[job[w].pack].rows
    /\ pc[w] = "write" /\ job[w].op = "SEAL" => job[w].pack \in DOMAIN packs

Fits(w) == Underway(w) /\ Transits(w) /\ Overtaken(w) /\ Handles(w)

Inv ==
    /\ TypeOK
    /\ \A w \in Worker : Fits(w)
    /\ ConfirmedOnce
    /\ confirms > 0 => order.status # "PENDING"
    /\ list = "PACKED" => SomePacked
    /\ NothingShipsUnpacked

-----------------------------------------------------------------------------
(***************************************************************************)
(* What the steps are made of.                                             *)
(***************************************************************************)
LEMMA MinIsMember ==
    ASSUME NEW S, S \subseteq Nat, S # {}
    PROVE  Min(S) \in S
<1> DEFINE R == OpToRel(<, Nat)
<1>1. \A x, y \in Nat : <<x, y>> \in OpToRel(<, Nat) <=> x < y
  BY Z3 DEF OpToRel
<1>2. IsWellFoundedOn(R, Nat)
  BY NatLessThanWellFounded
<1>3. \A x, y \in Nat : <<x, y>> \in R <=> x < y
  BY <1>1
<1> HIDE DEF R
<1>4. PICK x \in S : \A y \in S : ~ (<<y, x>> \in R)
  BY <1>2, WFMin
<1>5. \A y \in S : ~ (y < x)
  BY <1>3, <1>4, Zenon
<1>6. \A y \in S : x <= y
  BY <1>5
<1> QED
  BY <1>6 DEF Min

LEMMA RequestFacts ==
    ASSUME NEW r \in Request
    PROVE  /\ r.op \in Op /\ r.to \in OrderStatus \cup ListStatus /\ r.checked \in BOOLEAN
           /\ r.line \in Line /\ r.qty \in Int /\ r.pack \in Nat
           /\ r.op = "STATUS" => r.to \in OrderStatus
           /\ r.op = "FULFIL" => r.to = "PARTIALLY_FULFILLED" /\ r.checked
           /\ r.op = "TRIP" => r.to \in {"OUT_FOR_DELIVERY", "DELIVERED"}
           /\ r.op = "LIST" => r.to \in {"PICKING", "CANCELLED"}
<1>1. r \in RequestRecord
  BY RequestAssumption
<1> QED
  BY <1>1, RequestAssumption DEF RequestRecord

LEMMA TransitionFacts ==
    ASSUME NEW s \in OrderStatus
    PROVE  /\ "PENDING" \notin ORDER_TRANSITIONS[s]
           /\ "CONFIRMED" \in ORDER_TRANSITIONS[s] => s = "PENDING"
           /\ "PARTIALLY_FULFILLED" \in ORDER_TRANSITIONS[s] => s = "PROCESSING"
           /\ "SHIPPED" \in ORDER_TRANSITIONS[s] => s \in {"PROCESSING", "PARTIALLY_FULFILLED"}
BY DEF ORDER_TRANSITIONS, OrderStatus

\* A worker at a step has a request.
LEMMA JobFacts ==
    ASSUME TypeOK, NEW w \in Worker, pc[w] # "idle"
    PROVE  job[w] \in Request
BY DEF TypeOK

\* What a step of w leaves alone of the other workers.
OnlyMoves(w) ==
    \A v \in Worker \ {w} :
        pc'[v] = pc[v] /\ job'[v] = job[v] /\ saw'[v] = saw[v] /\ expected'[v] = expected[v]

\* What other workers rely on: packs and their rows stay, the version grows,
\* and a confirmation is only counted by the holder of the row, with a newer
\* version.
Reliable(w) ==
    /\ \A p \in DOMAIN packs :
          p \in DOMAIN packs' /\ DOMAIN packs[p].rows \subseteq DOMAIN packs'[p].rows
    /\ Packaged => Packaged'
    /\ order.version <= order'.version
    /\ confirms' > 0 => confirms > 0 \/ (order.version < order'.version /\ lock = w)

LEMMA OthersFit ==
    ASSUME Inv, NEW w \in Worker, OnlyMoves(w), Reliable(w), NEW v \in Worker, v # w,
           order' \in OrderRow
    PROVE  Fits(v)'
<1>1. Fits(v) /\ TypeOK
  BY DEF Inv
<1>2. pc'[v] = pc[v] /\ job'[v] = job[v] /\ saw'[v] = saw[v] /\ expected'[v] = expected[v]
  BY DEF OnlyMoves
<1>3. Underway(v)'
  BY <1>1, <1>2 DEF Fits, Underway, Writes
<1>4. Transits(v)'
  BY <1>1, <1>2 DEF Fits, Transits, Writes, Reliable
<1>5. Handles(v)'
  BY <1>1, <1>2 DEF Fits, Handles, Reliable
<1>6. Overtaken(v)'
  <2>1. expected[v] \in Nat /\ order \in OrderRow /\ (lock = v <=> pc[v] \in {"list", "commit"} /\ job[v].op \in {"STATUS", "FULFIL"} /\ job[v].checked)
    BY <1>1 DEF TypeOK
  <2>2. order.version \in Nat /\ order'.version \in Nat
    BY <2>1 DEF OrderRow
  <2> QED
    BY <1>1, <1>2, <2>1, <2>2 DEF Fits, Overtaken, Reliable
<1> QED
  BY <1>3, <1>4, <1>5, <1>6 DEF Fits

\* A worker that answers has nothing left to fit.
LEMMA AnsweredFits ==
    ASSUME Inv, NEW w \in Worker, pc'[w] = "idle", UNCHANGED expected, Reliable(w), order' \in OrderRow
    PROVE  Fits(w)'
<1>1. expected[w] \in Nat /\ order.version \in Nat /\ order'.version \in Nat /\ expected[w] <= order.version
  BY DEF Inv, TypeOK, OrderRow, Fits, Overtaken
<1> QED
  BY <1>1 DEF Fits, Underway, Transits, Overtaken, Handles, Reliable

Steps == {"idle", "read", "begin", "list", "find", "write", "decide", "commit"}

\* What a step of w leaves of the workers' own state.
LEMMA GotoMoves ==
    ASSUME TypeOK, NEW w \in Worker, pc[w] # "idle", NEW step \in Steps \ {"idle"}, Goto(w, step),
           UNCHANGED expected, saw' = saw \/ \E s \in Sight : saw' = [saw EXCEPT ![w] = s]
    PROVE  /\ OnlyMoves(w)
           /\ pc'[w] = step /\ job'[w] = job[w]
           /\ pc' \in [Worker -> Steps] /\ job' \in [Worker -> Request \cup {NoRequest}]
           /\ saw' \in [Worker -> Sight]
           /\ \A v \in Worker : pc'[v] = "idle" <=> job'[v] = NoRequest
<1>1. pc \in [Worker -> Steps] /\ job \in [Worker -> Request \cup {NoRequest}] /\ saw \in [Worker -> Sight]
  BY DEF TypeOK, Steps
<1>2. pc' = [pc EXCEPT ![w] = step] /\ job' = job
  BY DEF Goto
<1>3. job[w] # NoRequest /\ \A v \in Worker : pc[v] = "idle" <=> job[v] = NoRequest
  BY DEF TypeOK
<1>4. saw' \in [Worker -> Sight] /\ \A v \in Worker \ {w} : saw'[v] = saw[v]
  BY <1>1
<1> QED
  BY <1>1, <1>2, <1>3, <1>4 DEF OnlyMoves

LEMMA IdleMoves ==
    ASSUME TypeOK, NEW w \in Worker, Idle(w), UNCHANGED <<expected, saw>>
    PROVE  /\ OnlyMoves(w)
           /\ pc'[w] = "idle"
           /\ pc' \in [Worker -> Steps] /\ job' \in [Worker -> Request \cup {NoRequest}]
           /\ saw' \in [Worker -> Sight]
           /\ \A v \in Worker : pc'[v] = "idle" <=> job'[v] = NoRequest
BY ValueAssumption DEF TypeOK, Steps, Idle, OnlyMoves

\* The row is locked by the same workers after a step of w as before it.
LEMMA LockKept ==
    ASSUME TypeOK, NEW w \in Worker, OnlyMoves(w), UNCHANGED lock,
           lock = w <=> pc'[w] \in {"list", "commit"} /\ job'[w].op \in {"STATUS", "FULFIL"} /\ job'[w].checked
    PROVE  \A v \in Worker :
              lock' = v <=> pc'[v] \in {"list", "commit"} /\ job'[v].op \in {"STATUS", "FULFIL"} /\ job'[v].checked
BY DEF TypeOK, OnlyMoves

LEMMA QuietReliable ==
    ASSUME Inv, UNCHANGED data, NEW w
    PROVE  Reliable(w) /\ order' \in OrderRow
<1>1. order \in OrderRow /\ order.version \in Nat
  BY DEF Inv, TypeOK, OrderRow
<1>2. order' = order /\ packs' = packs /\ list' = list /\ confirms' = confirms
  BY DEF data
<1>3. Packaged => Packaged'
  BY <1>2 DEF Packaged, SomePacked
<1>4. \A p \in DOMAIN packs : p \in DOMAIN packs' /\ DOMAIN packs[p].rows \subseteq DOMAIN packs'[p].rows
  BY <1>2
<1>5. order.version <= order'.version /\ (confirms' > 0 => confirms > 0)
  BY <1>1, <1>2
<1> QED
  BY <1>1, <1>2, <1>3, <1>4, <1>5 DEF Reliable

\* A step that leaves order, list and packs alone keeps the invariant when it
\* fits the worker that takes it.
LEMMA QuietKeeps ==
    ASSUME Inv, NEW w \in Worker, UNCHANGED <<data, todo, expected>>, OnlyMoves(w), Fits(w)',
           pc' \in [Worker -> Steps], job' \in [Worker -> Request \cup {NoRequest}],
           saw' \in [Worker -> Sight],
           \A v \in Worker : pc'[v] = "idle" <=> job'[v] = NoRequest,
           lock = w <=> pc'[w] \in {"list", "commit"} /\ job'[w].op \in {"STATUS", "FULFIL"} /\ job'[w].checked
    PROVE  Inv'
<1>1. TypeOK'
  BY LockKept DEF Inv, TypeOK, data, Steps
<1>2. \A v \in Worker : Fits(v)'
  BY OthersFit, QuietReliable
<1>3. /\ ConfirmedOnce'
      /\ confirms' > 0 => order'.status # "PENDING"
      /\ list' = "PACKED" => SomePacked'
      /\ NothingShipsUnpacked'
  BY DEF Inv, data, ConfirmedOnce, ChargedOnlyIfReserved, CheckedConfirmsOnce, SomePacked,
         NothingShipsUnpacked
<1> QED
  BY <1>1, <1>2, <1>3 DEF Inv

\* Answering without having written anything.
LEMMA QuietAnswer ==
    ASSUME Inv, NEW w \in Worker, pc[w] # "idle", lock # w, Idle(w), UNCHANGED <<data, todo, expected, saw>>
    PROVE  Inv'
<1>1. TypeOK
  BY DEF Inv
<1>2. Fits(w)'
  BY <1>1, IdleMoves, AnsweredFits, QuietReliable
<1> QED
  BY <1>1, <1>2, IdleMoves, QuietKeeps

-----------------------------------------------------------------------------
(***************************************************************************)
(* Steps that write nothing others see.                                    *)
(***************************************************************************)
LEMMA SightTypes ==
    ASSUME NEW s \in Sight
    PROVE  /\ \A o \in OrderRow : [s EXCEPT !.order = o] \in Sight
           /\ \A i \in ItemRow : [s EXCEPT !.mine = i] \in Sight
           /\ \A f \in [Line -> Int] : [s EXCEPT !.picked = f] \in Sight
           /\ \A n \in Nat : [s EXCEPT !.row = n] \in Sight
           /\ \A n \in Int : [s EXCEPT !.qty = n] \in Sight
           /\ \A n \in Nat, m \in Int : [s EXCEPT !.row = n, !.qty = m] \in Sight
           /\ \A b \in BOOLEAN : [s EXCEPT !.all = b] \in Sight
           /\ s.qty \in Int /\ s.row \in Nat /\ s.mine \in ItemRow /\ s.order \in OrderRow
<1>1. \A o \in OrderRow : [s EXCEPT !.order = o] \in Sight
  BY DEF Sight
<1>2. \A i \in ItemRow : [s EXCEPT !.mine = i] \in Sight
  BY DEF Sight
<1>3. \A f \in [Line -> Int] : [s EXCEPT !.picked = f] \in Sight
  BY DEF Sight
<1>4. /\ \A n \in Nat : [s EXCEPT !.row = n] \in Sight
      /\ \A n \in Int : [s EXCEPT !.qty = n] \in Sight
  BY DEF Sight
<1>5. \A n \in Nat, m \in Int : [s EXCEPT !.row = n, !.qty = m] \in Sight
  BY DEF Sight
<1>6. \A b \in BOOLEAN : [s EXCEPT !.all = b] \in Sight
  BY DEF Sight
<1>7. s.qty \in Int /\ s.row \in Nat /\ s.mine \in ItemRow /\ s.order \in OrderRow
  BY DEF Sight
<1> QED
  BY <1>1, <1>2, <1>3, <1>4, <1>5, <1>6, <1>7

LEMMA ReadOrderKeeps ==
    ASSUME Inv, NEW w \in Worker, ReadOrder(w)
    PROVE  Inv'
<1>0. /\ TypeOK /\ pc[w] = "read" /\ job[w] \in Request /\ job[w].op \in {"STATUS", "FULFIL"} /\ lock # w
      /\ UNCHANGED <<data, todo, expected>>
  BY JobFacts DEF ReadOrder, Inv, TypeOK
<1>1. CASE job[w].to \in ORDER_TRANSITIONS[order.status]
  <2>1. Goto(w, "begin") /\ saw' = [saw EXCEPT ![w].order = order]
    BY <1>1 DEF ReadOrder
  <2>2. saw' = [saw EXCEPT ![w] = [saw[w] EXCEPT !.order = order]] /\ [saw[w] EXCEPT !.order = order] \in Sight
    <3>1. order \in OrderRow /\ saw[w] \in Sight
      BY <1>0 DEF TypeOK
    <3> QED
      BY <2>1, <3>1, SightTypes
  <2>3. saw'[w] \in Sight /\ saw'[w].order = order
    BY <1>0, <2>2 DEF TypeOK, Sight
  <2>4. /\ OnlyMoves(w) /\ pc'[w] = "begin" /\ job'[w] = job[w]
        /\ pc' \in [Worker -> Steps] /\ job' \in [Worker -> Request \cup {NoRequest}]
        /\ saw' \in [Worker -> Sight]
        /\ \A v \in Worker : pc'[v] = "idle" <=> job'[v] = NoRequest
    BY <1>0, <2>1, <2>2, GotoMoves DEF Steps
  <2>5. Fits(w)'
    <3>1. order.status \in OrderStatus /\ order.version \in Nat /\ expected[w] \in Nat /\ expected[w] <= order.version
      BY <1>0 DEF Inv, TypeOK, OrderRow, Fits, Overtaken
    <3>2. Underway(w)' /\ Handles(w)'
      BY <1>0, <2>4 DEF Underway, Handles, Writes
    <3>3. Transits(w)'
      <4>1. job[w].to \in {"PARTIALLY_FULFILLED", "SHIPPED"} => Packaged
        BY <1>1, <3>1, TransitionFacts DEF Inv, NothingShipsUnpacked, Packaged, SomePacked
      <4>2. Packaged => Packaged'
        BY <1>0 DEF data, Packaged, SomePacked
      <4> QED
        BY <1>0, <1>1, <2>3, <2>4, <4>1, <4>2 DEF Transits
    <3>4. Overtaken(w)'
      <4>1. job[w].to = "CONFIRMED" => confirms = 0
        BY <1>1, <3>1, TransitionFacts DEF Inv, TypeOK
      <4> QED
        BY <1>0, <2>4, <3>1, <4>1 DEF Overtaken, data
    <3> QED
      BY <3>2, <3>3, <3>4 DEF Fits
  <2> QED
    BY <1>0, <2>4, <2>5, QuietKeeps
<1>2. CASE job[w].to \notin ORDER_TRANSITIONS[order.status]
  BY <1>0, <1>2, QuietAnswer DEF ReadOrder
<1> QED
  BY <1>1, <1>2

\* A step that reads for a request other than a status request and goes on.
LEMMA QuietStep ==
    ASSUME Inv, NEW w \in Worker, pc[w] # "idle", lock # w, ~Writes(w),
           NEW step \in {"find", "write", "decide", "commit"}, Goto(w, step),
           UNCHANGED <<data, todo, expected>>,
           saw' = saw \/ \E s \in Sight : saw' = [saw EXCEPT ![w] = s],
           Handles(w)'
    PROVE  Inv'
<1>0. TypeOK /\ step \in Steps \ {"idle"} /\ job[w] \in Request
  BY JobFacts DEF Inv, Steps
<1>1. /\ OnlyMoves(w) /\ pc'[w] = step /\ job'[w] = job[w]
      /\ pc' \in [Worker -> Steps] /\ job' \in [Worker -> Request \cup {NoRequest}]
      /\ saw' \in [Worker -> Sight]
      /\ \A v \in Worker : pc'[v] = "idle" <=> job'[v] = NoRequest
  BY <1>0, GotoMoves
<1>2. Fits(w)'
  <2>1. order.version \in Nat /\ expected[w] \in Nat /\ expected[w] <= order.version
    BY <1>0 DEF Inv, TypeOK, OrderRow, Fits, Overtaken
  <2>2. Overtaken(w)'
    BY <1>1, <2>1 DEF Overtaken, data, Writes
  <2>3. Underway(w)' /\ Transits(w)'
    BY <1>1 DEF Underway, Transits, Writes
  <2> QED
    BY <2>2, <2>3 DEF Fits
<1> QED
  BY <1>1, <1>2, QuietKeeps DEF Writes

LEMMA ReadTripKeeps ==
    ASSUME Inv, NEW w \in Worker, ReadTrip(w)
    PROVE  Inv'
<1>1. pc[w] = "read" /\ job[w].op = "TRIP" /\ lock # w
  BY DEF ReadTrip, Is, Inv, TypeOK
<1>2. Handles(w)'
  BY <1>1 DEF ReadTrip, Goto, Handles
<1> QED
  BY <1>1, <1>2, QuietStep DEF ReadTrip, Writes

LEMMA ReadListKeeps ==
    ASSUME Inv, NEW w \in Worker, ReadList(w)
    PROVE  Inv'
<1>1. pc[w] = "read" /\ job[w].op = "LIST" /\ lock # w
  BY DEF ReadList, Is, Inv, TypeOK
<1>2. CASE Goto(w, "write")
  <2>1. Handles(w)'
    BY <1>1, <1>2 DEF Goto, Handles
  <2> QED
    BY <1>1, <1>2, <2>1, QuietStep DEF ReadList, Writes
<1>3. CASE Idle(w)
  BY <1>1, <1>3, QuietAnswer DEF ReadList
<1> QED
  BY <1>2, <1>3 DEF ReadList

LEMMA ReadItemKeeps ==
    ASSUME Inv, NEW w \in Worker, ReadItem(w)
    PROVE  Inv'
<1>1. /\ TypeOK /\ pc[w] = "read" /\ job[w].op \in Picking /\ lock # w /\ ~Writes(w)
      /\ job[w] \in Request /\ job[w].line \in Line /\ job[w].op \notin {"ADD", "SEAL"}
  BY JobFacts, RequestFacts DEF ReadItem, Inv, TypeOK, Picking, Writes
<1>2. CASE Goto(w, "write") /\ saw' = [saw EXCEPT ![w].mine = item[job[w].line]]
  <2>1. saw[w] \in Sight /\ item[job[w].line] \in ItemRow
    BY <1>1 DEF TypeOK
  <2>2. [saw[w] EXCEPT !.mine = item[job[w].line]] \in Sight
    BY <2>1, SightTypes
  <2>3. Handles(w)'
    BY <1>1, <1>2 DEF Goto, Handles, Picking
  <2> QED
    BY <1>1, <1>2, <2>2, <2>3, QuietStep DEF ReadItem
<1>3. CASE Idle(w) /\ UNCHANGED saw
  BY <1>1, <1>3, QuietAnswer DEF ReadItem
<1> QED
  BY <1>2, <1>3 DEF ReadItem

LEMMA PickedType ==
    ASSUME TypeOK, NEW w \in Worker, job[w] \in Request
    PROVE  Picked(w) \in ItemRow
<1>1. /\ job[w].line \in Line /\ job[w].qty \in Int
      /\ item[job[w].line] \in ItemRow /\ saw[w].mine \in ItemRow
  BY RequestFacts, SightTypes DEF TypeOK
<1>2. /\ item[job[w].line].picked + job[w].qty \in Int
      /\ saw[w].mine.picked + job[w].qty \in Int
  BY <1>1 DEF ItemRow
<1>3. [item[job[w].line] EXCEPT !.picked = saw[w].mine.picked + job[w].qty] \in ItemRow
  BY <1>1, <1>2 DEF ItemRow
<1> QED
  BY <1>1, <1>2, <1>3 DEF Picked, ItemRow, ItemStatus

LEMMA WriteItemKeeps ==
    ASSUME Inv, NEW w \in Worker, WriteItem(w)
    PROVE  Inv'
<1>1. /\ TypeOK /\ pc[w] = "write" /\ job[w].op \in Picking /\ lock # w /\ ~Writes(w)
      /\ job[w] \in Request /\ job[w].op \notin {"ADD", "SEAL"}
  BY JobFacts DEF WriteItem, Inv, TypeOK, Picking, Writes
<1>2. Picked(w) \in ItemRow /\ saw[w] \in Sight
  BY <1>1, PickedType DEF TypeOK
<1>3. [saw[w] EXCEPT !.mine = Picked(w)] \in Sight
  BY <1>2, SightTypes
<1>4. Handles(w)'
  BY <1>1 DEF WriteItem, Goto, Handles, Picking
<1> QED
  BY <1>1, <1>3, <1>4, QuietStep DEF WriteItem

LEMMA DecidePickedKeeps ==
    ASSUME Inv, NEW w \in Worker, DecidePicked(w)
    PROVE  Inv'
<1>1. /\ TypeOK /\ pc[w] = "decide" /\ job[w].op \in Picking /\ lock # w /\ ~Writes(w)
      /\ job[w] \in Request /\ job[w].op \notin {"ADD", "SEAL"}
  BY JobFacts DEF DecidePicked, Inv, TypeOK, Picking, Writes
<1>2. AllPicked(w) \in BOOLEAN /\ saw[w] \in Sight
  BY <1>1 DEF TypeOK, AllPicked
<1>3. [saw[w] EXCEPT !.all = AllPicked(w)] \in Sight
  BY <1>2, SightTypes
<1>4. Handles(w)'
  BY <1>1 DEF DecidePicked, Goto, Handles, Picking
<1> QED
  BY <1>1, <1>3, <1>4, QuietStep DEF DecidePicked

LEMMA ReadForPackKeeps ==
    ASSUME Inv, NEW w \in Worker, ReadForPack(w)
    PROVE  Inv'
<1>1. /\ TypeOK /\ pc[w] = "read" /\ job[w].op = "NEWPACK" /\ lock # w /\ ~Writes(w)
  BY DEF ReadForPack, Is, Inv, TypeOK, Writes
<1>2. CASE Goto(w, "write") /\ saw' = [saw EXCEPT ![w].row = Len(packs) + 1]
  <2>1. saw[w] \in Sight /\ Len(packs) + 1 \in Nat
    BY <1>1 DEF TypeOK
  <2>2. [saw[w] EXCEPT !.row = Len(packs) + 1] \in Sight
    BY <2>1, SightTypes
  <2>3. Handles(w)'
    BY <1>1, <1>2 DEF Goto, Handles
  <2> QED
    BY <1>1, <1>2, <2>2, <2>3, QuietStep DEF ReadForPack
<1>3. CASE Idle(w) /\ UNCHANGED saw
  BY <1>1, <1>3, QuietAnswer DEF ReadForPack
<1> QED
  BY <1>2, <1>3 DEF ReadForPack

LEMMA ReadPackKeeps ==
    ASSUME Inv, NEW w \in Worker, ReadPack(w)
    PROVE  Inv'
<1> DEFINE seen == [l \in Line |-> item[l].picked]
<1>1. /\ TypeOK /\ pc[w] = "read" /\ job[w].op = "ADD" /\ lock # w /\ ~Writes(w)
  BY DEF ReadPack, Is, Inv, TypeOK, Writes
<1>2. CASE /\ job[w].pack \in DOMAIN packs
           /\ Goto(w, "find") /\ saw' = [saw EXCEPT ![w].picked = seen]
  <2>1. saw[w] \in Sight /\ seen \in [Line -> Int]
    BY <1>1 DEF TypeOK, ItemRow
  <2> HIDE DEF seen
  <2>2. [saw[w] EXCEPT !.picked = seen] \in Sight
    BY <2>1, SightTypes
  <2>3. Handles(w)'
    BY <1>1, <1>2 DEF Goto, Handles, ReadPack, data
  <2> QED
    BY <1>1, <1>2, <2>2, <2>3, QuietStep DEF ReadPack
<1>3. CASE Idle(w) /\ UNCHANGED saw
  BY <1>1, <1>3, QuietAnswer DEF ReadPack
<1> QED
  BY <1>2, <1>3 DEF ReadPack

\* A pack that exists, its rows, and the quantities in them.
LEMMA PackTypes ==
    ASSUME TypeOK, NEW p \in DOMAIN packs
    PROVE  /\ p \in Nat /\ packs[p] \in PackRow
           /\ packs[p].rows \in Seq([line: Line, qty: Int])
           /\ DOMAIN packs[p].rows \subseteq Nat \ {0}
           /\ \A k \in DOMAIN packs[p].rows : packs[p].rows[k].qty \in Int
<1>1. packs[p] \in PackRow /\ p \in Nat
  BY DEF TypeOK
<1>2. packs[p].rows \in Seq([line: Line, qty: Int])
  BY <1>1 DEF PackRow
<1>3. ASSUME NEW T, NEW q \in Seq(T)
      PROVE  \A k \in DOMAIN q : k \in Nat \ {0} /\ q[k] \in T
  BY <1>3
<1>4. \A k \in DOMAIN packs[p].rows : packs[p].rows[k].qty \in Int
  <2>1. \A k \in DOMAIN packs[p].rows : packs[p].rows[k] \in [line: Line, qty: Int]
    BY <1>2, <1>3, Zenon
  <2> QED
    BY <2>1
<1>5. DOMAIN packs[p].rows \subseteq Nat \ {0}
  BY <1>2, <1>3, Zenon
<1> QED
  BY <1>1, <1>2, <1>4, <1>5

LEMMA FindPackItemKeeps ==
    ASSUME Inv, NEW w \in Worker, FindPackItem(w)
    PROVE  Inv'
<1> DEFINE rows == packs[job[w].pack].rows
           has == {k \in DOMAIN rows : rows[k].line = job[w].line}
           row == IF has = {} THEN 0 ELSE Min(has)
           qty == IF has = {} THEN 0 ELSE rows[Min(has)].qty
<1>1. /\ TypeOK /\ pc[w] = "find" /\ job[w].op = "ADD" /\ lock # w /\ ~Writes(w)
      /\ saw[w] \in Sight
  BY DEF FindPackItem, Is, Inv, TypeOK, Writes
<1>2. job[w].pack \in DOMAIN packs
  BY <1>1 DEF Inv, Fits, Handles
<1>3. DOMAIN rows \subseteq Nat \ {0} /\ \A k \in DOMAIN rows : rows[k].qty \in Int
  BY <1>1, <1>2, PackTypes
<1>4. row \in Nat /\ qty \in Int /\ (row = 0 \/ row \in DOMAIN rows)
  <2>1. CASE has = {}
    BY <2>1
  <2>2. CASE has # {}
    <3>1. has \subseteq Nat
      BY <1>3
    <3>2. Min(has) \in has
      BY <2>2, <3>1, MinIsMember
    <3> QED
      BY <1>3, <2>2, <3>2
  <2> QED
    BY <2>1, <2>2
<1>5. Goto(w, "write") /\ saw' = [saw EXCEPT ![w].row = row, ![w].qty = qty] /\ UNCHANGED <<data, todo, expected>>
  BY DEF FindPackItem
<1> HIDE DEF row, qty
<1>6. saw' = [saw EXCEPT ![w] = [saw[w] EXCEPT !.row = row, !.qty = qty]]
  BY <1>1, <1>5 DEF TypeOK
<1>7. [saw[w] EXCEPT !.row = row, !.qty = qty] \in Sight
  BY <1>1, <1>4, SightTypes
<1>8. saw'[w].row = row
  BY <1>1, <1>6, <1>7 DEF TypeOK, Sight
<1>9. Handles(w)'
  BY <1>1, <1>2, <1>4, <1>5, <1>8 DEF Goto, Handles, data, TypeOK
<1> QED
  BY <1>1, <1>5, <1>6, <1>7, <1>9, QuietStep

LEMMA WritePackItemKeeps ==
    ASSUME Inv, NEW w \in Worker, WritePackItem(w)
    PROVE  Inv'
<1>1. /\ TypeOK /\ pc[w] = "write" /\ job[w].op = "ADD" /\ lock # w /\ ~Writes(w)
      /\ saw[w] \in Sight /\ job[w] \in Request
  BY JobFacts DEF WritePackItem, Is, Inv, TypeOK, Writes
<1> DEFINE sum == saw[w].qty + job[w].qty
<1>2. sum \in Int
  <2>1. saw[w].qty \in Int
    BY <1>1, SightTypes
  <2>2. job[w].qty \in Int
    BY <1>1, RequestFacts
  <2> QED
    BY <2>1, <2>2
<1>3. Goto(w, "decide") /\ UNCHANGED <<data, todo, expected>> /\ saw' = [saw EXCEPT ![w] = [saw[w] EXCEPT !.qty = sum]]
  BY DEF WritePackItem
<1> HIDE DEF sum
<1>4. [saw[w] EXCEPT !.qty = sum] \in Sight
  BY <1>1, <1>2, SightTypes
<1>5. saw'[w].qty = sum /\ saw'[w].row = saw[w].row
  BY <1>1, <1>3, <1>4 DEF TypeOK, Sight
<1>6. Handles(w)'
  BY <1>1, <1>2, <1>3, <1>5 DEF Goto, Handles, data, TypeOK, Inv, Fits
<1> QED
  BY <1>1, <1>3, <1>4, <1>6, QuietStep

LEMMA DecidePackedKeeps ==
    ASSUME Inv, NEW w \in Worker, DecidePacked(w)
    PROVE  Inv'
<1>1. /\ TypeOK /\ pc[w] = "decide" /\ job[w].op = "ADD" /\ lock # w /\ ~Writes(w)
      /\ saw[w] \in Sight
  BY DEF DecidePacked, Is, Inv, TypeOK, Writes
<1>2. PICK b \in BOOLEAN : saw' = [saw EXCEPT ![w] = [saw[w] EXCEPT !.all = b]]
  BY DEF DecidePacked
<1>3. Goto(w, "commit") /\ UNCHANGED <<data, todo, expected>>
  BY DEF DecidePacked
<1>4. [saw[w] EXCEPT !.all = b] \in Sight
  BY <1>1, SightTypes
<1>5. saw'[w].qty = saw[w].qty /\ saw'[w].row = saw[w].row
  BY <1>1, <1>2, <1>4 DEF TypeOK, Sight
<1>6. Handles(w)'
  BY <1>1, <1>3, <1>5 DEF Goto, Handles, data, TypeOK, Inv, Fits
<1> QED
  BY <1>1, <1>2, <1>3, <1>4, <1>6, QuietStep

LEMMA ReadSealKeeps ==
    ASSUME Inv, NEW w \in Worker, ReadSeal(w)
    PROVE  Inv'
<1>1. /\ TypeOK /\ pc[w] = "read" /\ job[w].op = "SEAL" /\ lock # w /\ ~Writes(w)
  BY DEF ReadSeal, Is, Inv, TypeOK, Writes
<1>2. CASE job[w].pack \in DOMAIN packs /\ Goto(w, "write")
  <2>1. Handles(w)'
    BY <1>1, <1>2 DEF Goto, Handles, ReadSeal, data
  <2> QED
    BY <1>1, <1>2, <2>1, QuietStep DEF ReadSeal
<1>3. CASE Idle(w)
  BY <1>1, <1>3, QuietAnswer DEF ReadSeal
<1> QED
  BY <1>2, <1>3 DEF ReadSeal

LEMMA SendKeeps ==
    ASSUME Inv, NEW w \in Worker, NEW r \in Request, Send(w, r)
    PROVE  Inv'
<1>1. TypeOK /\ pc[w] = "idle" /\ lock # w /\ order.version \in Nat
  BY DEF Send, Inv, TypeOK, OrderRow
<1>2. /\ job' = [job EXCEPT ![w] = r] /\ pc' = [pc EXCEPT ![w] = "read"]
      /\ expected' = [expected EXCEPT ![w] = order.version]
      /\ UNCHANGED <<data, saw>>
  BY DEF Send
<1>3. todo' \in [Request -> Nat]
  <2>1. todo[r] \in Nat /\ todo[r] > 0
    BY <1>1 DEF Send, TypeOK
  <2>2. todo[r] - 1 \in Nat
    BY <2>1
  <2> QED
    BY <1>1, <2>2 DEF Send, TypeOK
<1>4. /\ pc' \in [Worker -> Steps] /\ job' \in [Worker -> Request \cup {NoRequest}]
      /\ expected' \in [Worker -> Nat] /\ OnlyMoves(w)
      /\ pc'[w] = "read" /\ job'[w] = r /\ expected'[w] = order.version
  BY <1>1, <1>2 DEF TypeOK, Steps, OnlyMoves
<1>5. \A v \in Worker : pc'[v] = "idle" <=> job'[v] = NoRequest
  <2>1. r # NoRequest
    BY ValueAssumption
  <2>2. \A v \in Worker : pc[v] = "idle" <=> job[v] = NoRequest
    BY <1>1 DEF TypeOK
  <2> QED
    BY <1>4, <2>1, <2>2 DEF OnlyMoves
<1>6. lock' = lock
  BY <1>2 DEF data
<1>7. TypeOK'
  BY <1>1, <1>2, <1>3, <1>4, <1>5, <1>6, LockKept DEF TypeOK, data, Steps
<1>8. \A v \in Worker : Fits(v)'
  <2>1. ASSUME NEW v \in Worker, v # w PROVE Fits(v)'
    BY <1>2, <1>4, <2>1, OthersFit, QuietReliable
  <2>2. Fits(w)'
    BY <1>1, <1>2, <1>4 DEF Fits, Underway, Transits, Overtaken, Handles, data
  <2> QED
    BY <2>1, <2>2
<1>9. /\ ConfirmedOnce'
      /\ confirms' > 0 => order'.status # "PENDING"
      /\ list' = "PACKED" => SomePacked'
      /\ NothingShipsUnpacked'
  BY <1>2 DEF Inv, data, ConfirmedOnce, ChargedOnlyIfReserved, CheckedConfirmsOnce, SomePacked,
              NothingShipsUnpacked
<1> QED
  BY <1>7, <1>8, <1>9 DEF Inv

-----------------------------------------------------------------------------
(***************************************************************************)
(* Steps that write.                                                       *)
(***************************************************************************)
\* Whoever answers gives the row back, if it had it.
LEMMA AnswerUnlocks ==
    ASSUME TypeOK, NEW w \in Worker, Idle(w), UNCHANGED <<expected, saw>>,
           \/ lock' = lock /\ lock # w
           \/ lock' = NoWorker /\ lock \in {NoWorker, w}
    PROVE  /\ lock' \in Worker \cup {NoWorker}
           /\ \A v \in Worker :
                lock' = v <=> pc'[v] \in {"list", "commit"} /\ job'[v].op \in {"STATUS", "FULFIL"} /\ job'[v].checked
<1>1. OnlyMoves(w) /\ pc'[w] = "idle"
  BY IdleMoves
<1>2. /\ lock \in Worker \cup {NoWorker}
      /\ \A v \in Worker :
           lock = v <=> pc[v] \in {"list", "commit"} /\ job[v].op \in {"STATUS", "FULFIL"} /\ job[v].checked
  BY DEF TypeOK
<1>3. CASE lock' = lock /\ lock # w
  BY <1>1, <1>2, <1>3 DEF OnlyMoves
<1>4. CASE lock' = NoWorker /\ lock \in {NoWorker, w}
  <2>1. \A v \in Worker : lock' # v
    BY <1>4, ValueAssumption
  <2>2. \A v \in Worker \ {w} : lock # v
    BY <1>4, ValueAssumption
  <2> QED
    BY <1>1, <1>2, <1>4, <2>1, <2>2 DEF OnlyMoves
<1> QED
  BY <1>3, <1>4

\* A step that answers after a write others can rely on.
LEMMA AnswerKeeps ==
    ASSUME Inv, NEW w \in Worker, pc[w] # "idle", Idle(w), UNCHANGED <<todo, expected, saw>>,
           \/ lock' = lock /\ lock # w
           \/ lock' = NoWorker /\ lock \in {NoWorker, w},
           order' \in OrderRow, reserved' \in Int, charged' \in Int, list' \in ListStatus,
           item' \in [Line -> ItemRow], packs' \in Seq(PackRow), confirms' \in Nat,
           Reliable(w), ConfirmedOnce',
           confirms' > 0 => order'.status # "PENDING",
           list' = "PACKED" => SomePacked',
           NothingShipsUnpacked'
    PROVE  Inv'
<1>1. TypeOK
  BY DEF Inv
<1>2. UNCHANGED <<expected, saw>>
  OBVIOUS
<1>3. TypeOK'
  <2>1. /\ lock' \in Worker \cup {NoWorker}
        /\ \A v \in Worker :
             lock' = v <=> pc'[v] \in {"list", "commit"} /\ job'[v].op \in {"STATUS", "FULFIL"} /\ job'[v].checked
    BY <1>1, <1>2, AnswerUnlocks
  <2>2. /\ pc' \in [Worker -> Steps] /\ job' \in [Worker -> Request \cup {NoRequest}]
        /\ saw' \in [Worker -> Sight]
        /\ \A v \in Worker : pc'[v] = "idle" <=> job'[v] = NoRequest
    BY <1>1, <1>2, IdleMoves
  <2>3. todo' \in [Request -> Nat] /\ expected' \in [Worker -> Nat]
    BY <1>1 DEF TypeOK
  <2> QED
    BY <2>1, <2>2, <2>3 DEF TypeOK, Steps
<1>4. \A v \in Worker : Fits(v)'
  <2>1. OnlyMoves(w) /\ pc'[w] = "idle"
    BY <1>1, <1>2, IdleMoves
  <2> QED
    BY <1>2, <2>1, OthersFit, AnsweredFits
<1> QED
  BY <1>3, <1>4 DEF Inv

\* What is in a pack stays in one when the packs do not change.
LEMMA PacksStay ==
    ASSUME Inv, UNCHANGED packs, list # "NONE" => list' # "NONE"
    PROVE  /\ Packaged => Packaged'
           /\ SomePacked' <=> SomePacked
           /\ \A p \in DOMAIN packs :
                 p \in DOMAIN packs' /\ DOMAIN packs[p].rows \subseteq DOMAIN packs'[p].rows
BY DEF Packaged, SomePacked

LEMMA BeginKeeps ==
    ASSUME Inv, NEW w \in Worker, Begin(w)
    PROVE  Inv'
<1> DEFINE step == IF job[w].op = "STATUS" /\ job[w].to = "CONFIRMED" THEN "list" ELSE "commit"
<1>1. /\ TypeOK /\ pc[w] = "begin" /\ lock # w /\ Fits(w) /\ Writes(w) /\ job[w] \in Request
      /\ job[w].checked \in BOOLEAN
  BY JobFacts, RequestFacts DEF Begin, Inv, TypeOK, Fits, Underway
<1>2. /\ Goto(w, step) /\ step \in Steps \ {"idle"} /\ step \in {"list", "commit"}
      /\ UNCHANGED <<order, reserved, charged, list, item, packs, confirms, todo, expected, saw>>
  BY DEF Begin, Steps
<1>3. /\ OnlyMoves(w) /\ pc'[w] = step /\ job'[w] = job[w] /\ saw'[w] = saw[w] /\ expected'[w] = expected[w]
      /\ pc' \in [Worker -> Steps] /\ job' \in [Worker -> Request \cup {NoRequest}]
      /\ saw' \in [Worker -> Sight]
      /\ \A v \in Worker : pc'[v] = "idle" <=> job'[v] = NoRequest
  BY <1>1, <1>2, GotoMoves
<1>4. /\ lock' \in Worker \cup {NoWorker}
      /\ \A v \in Worker :
           lock' = v <=> pc'[v] \in {"list", "commit"} /\ job'[v].op \in {"STATUS", "FULFIL"} /\ job'[v].checked
  <2>1. \A v \in Worker : lock = v <=> pc[v] \in {"list", "commit"} /\ job[v].op \in {"STATUS", "FULFIL"} /\ job[v].checked
    BY <1>1 DEF TypeOK
  <2>2. CASE job[w].checked
    BY <1>1, <1>2, <1>3, <2>1, <2>2, ValueAssumption DEF Begin, OnlyMoves, Writes
  <2>3. CASE ~job[w].checked
    BY <1>1, <1>2, <1>3, <2>1, <2>3, ValueAssumption DEF Begin, OnlyMoves, TypeOK
  <2> QED
    BY <2>2, <2>3
<1>5. TypeOK'
  BY <1>1, <1>2, <1>3, <1>4 DEF TypeOK, Steps
<1>6. Reliable(w) /\ order' \in OrderRow
  BY <1>1, <1>2, PacksStay DEF Reliable, TypeOK, OrderRow
<1>7. Fits(w)'
  <2>1. Underway(w)'
    BY <1>1, <1>2, <1>3 DEF Underway, Writes
  <2>2. Transits(w)'
    <3>1. job[w].to = "PROCESSING" => Packaged
      BY <1>1, RequestFacts DEF Begin, Inv, Packaged, Writes
    <3>2. Packaged => Packaged'
      BY <1>6 DEF Reliable
    <3> QED
      BY <1>1, <1>3, <3>1, <3>2 DEF Transits, Writes, Fits
  <2>3. Overtaken(w)'
    BY <1>1, <1>2, <1>3 DEF Overtaken, Begin, Awaited, TypeOK, OrderRow, Fits
  <2>4. Handles(w)'
    BY <1>1, <1>2, <1>3 DEF Handles, Writes
  <2> QED
    BY <2>1, <2>2, <2>3, <2>4 DEF Fits
<1>8. \A v \in Worker : Fits(v)'
  BY <1>3, <1>6, <1>7, OthersFit
<1>9. /\ ConfirmedOnce'
      /\ confirms' > 0 => order'.status # "PENDING"
      /\ list' = "PACKED" => SomePacked'
      /\ NothingShipsUnpacked'
  BY <1>2 DEF Inv, ConfirmedOnce, ChargedOnlyIfReserved, CheckedConfirmsOnce, SomePacked,
              NothingShipsUnpacked
<1> QED
  BY <1>5, <1>8, <1>9 DEF Inv

LEMMA MakePickListKeeps ==
    ASSUME Inv, NEW w \in Worker, MakePickList(w)
    PROVE  Inv'
<1>1. TypeOK /\ pc[w] = "list" /\ Fits(w) /\ Writes(w) /\ job[w].to = "CONFIRMED"
  BY DEF MakePickList, Inv, Fits, Underway
<1>2. /\ Goto(w, "commit")
      /\ list' = IF list = "NONE" THEN "CREATED" ELSE list
      /\ UNCHANGED <<order, lock, reserved, charged, item, packs, confirms, todo, expected, saw>>
  BY DEF MakePickList
<1>3. /\ OnlyMoves(w) /\ pc'[w] = "commit" /\ job'[w] = job[w] /\ saw'[w] = saw[w] /\ expected'[w] = expected[w]
      /\ pc' \in [Worker -> Steps] /\ job' \in [Worker -> Request \cup {NoRequest}]
      /\ saw' \in [Worker -> Sight]
      /\ \A v \in Worker : pc'[v] = "idle" <=> job'[v] = NoRequest
  BY <1>1, <1>2, GotoMoves DEF Steps
<1>4. \A v \in Worker :
         lock' = v <=> pc'[v] \in {"list", "commit"} /\ job'[v].op \in {"STATUS", "FULFIL"} /\ job'[v].checked
  BY <1>1, <1>2, <1>3, LockKept DEF TypeOK
<1>5. TypeOK'
  BY <1>1, <1>2, <1>3, <1>4 DEF TypeOK, Steps, ListStatus
<1>6. Reliable(w) /\ order' \in OrderRow
  BY <1>1, <1>2, PacksStay DEF Reliable, TypeOK, OrderRow
<1>7. Fits(w)'
  BY <1>1, <1>2, <1>3 DEF Fits, Underway, Transits, Overtaken, Handles, Writes
<1>8. \A v \in Worker : Fits(v)'
  BY <1>3, <1>6, <1>7, OthersFit
<1>9. /\ ConfirmedOnce'
      /\ confirms' > 0 => order'.status # "PENDING"
      /\ list' = "PACKED" => SomePacked'
      /\ NothingShipsUnpacked'
  BY <1>2 DEF Inv, ConfirmedOnce, ChargedOnlyIfReserved, CheckedConfirmsOnce, SomePacked,
              NothingShipsUnpacked
<1> QED
  BY <1>5, <1>8, <1>9 DEF Inv

LEMMA CommitStatusKeeps ==
    ASSUME Inv, NEW w \in Worker, CommitStatus(w)
    PROVE  Inv'
<1>1. /\ TypeOK /\ pc[w] = "commit" /\ Fits(w) /\ Writes(w) /\ job[w].op = "STATUS" /\ job[w] \in Request
      /\ lock \in {NoWorker, w}
  BY JobFacts DEF CommitStatus, Is, Inv, TypeOK, Writes
<1>2. /\ job[w].to \in OrderStatus /\ job[w].checked \in BOOLEAN
      /\ saw[w].order.status \in OrderStatus
  <2>1. saw[w] \in Sight
    BY <1>1 DEF TypeOK
  <2>2. saw[w].order \in OrderRow
    BY <2>1, SightTypes
  <2> QED
    BY <1>1, <2>2, RequestFacts DEF OrderRow
<1>3. /\ job[w].to # "PENDING"
      /\ job[w].to \in {"PROCESSING", "PARTIALLY_FULFILLED", "SHIPPED"} => Packaged
  BY <1>1, <1>2, TransitionFacts DEF Fits, Transits
<1>4. /\ order' = [status |-> job[w].to, version |-> order.version + (IF job[w].checked THEN 1 ELSE 0)]
      /\ lock' = NoWorker
      /\ confirms' = confirms + (IF job[w].checked /\ job[w].to = "CONFIRMED" THEN 1 ELSE 0)
      /\ Idle(w) /\ UNCHANGED <<list, item, packs, todo, expected, saw>>
  BY DEF CommitStatus
<1>5. order.version \in Nat /\ confirms \in Nat /\ confirms <= 1
  BY <1>1 DEF TypeOK, OrderRow, Inv, ConfirmedOnce, CheckedConfirmsOnce
<1>6. /\ order' \in OrderRow /\ order'.status = job[w].to
      /\ order'.version = order.version + (IF job[w].checked THEN 1 ELSE 0)
      /\ order.version <= order'.version
  BY <1>2, <1>4, <1>5 DEF OrderRow
<1>7. /\ reserved' \in Int /\ charged' \in Int /\ charged' <= reserved'
  <2>1. Released(w) \in {0, 1}
    BY DEF Released
  <2>2. job[w].to # "CANCELLED" => Released(w) = 0
    BY DEF Released
  <2>3. reserved \in Int /\ charged \in Int /\ charged <= reserved
    BY <1>1 DEF TypeOK, Inv, ConfirmedOnce, ChargedOnlyIfReserved
  <2>4. CASE job[w].to = "CONFIRMED"
    BY <2>2, <2>3, <2>4 DEF CommitStatus
  <2>5. CASE job[w].to = "CANCELLED"
    BY <2>1, <2>3, <2>5 DEF CommitStatus
  <2>6. CASE job[w].to \notin {"CONFIRMED", "CANCELLED"}
    BY <2>2, <2>3, <2>6 DEF CommitStatus
  <2> QED
    BY <2>4, <2>5, <2>6
<1>8. /\ confirms' \in Nat /\ confirms' <= 1
      /\ confirms' > 0 => confirms > 0 \/ (order.version < order'.version /\ lock = w)
  <2>1. job[w].checked => lock = w
    BY <1>1 DEF TypeOK
  <2>2. job[w].checked /\ job[w].to = "CONFIRMED" => confirms = 0
    BY <1>1, <1>5 DEF Fits, Overtaken
  <2> QED
    BY <1>2, <1>4, <1>5, <1>6, <2>1, <2>2
<1>9. Reliable(w)
  <2>1. /\ Packaged => Packaged'
        /\ \A p \in DOMAIN packs : p \in DOMAIN packs' /\ DOMAIN packs[p].rows \subseteq DOMAIN packs'[p].rows
    BY <1>4, PacksStay
  <2> QED
    BY <1>6, <1>8, <2>1 DEF Reliable
<1>10. NothingShipsUnpacked'
  BY <1>3, <1>4, <1>6 DEF NothingShipsUnpacked, Packaged, SomePacked
<1>11. /\ list' = "PACKED" => SomePacked'
       /\ ConfirmedOnce'
       /\ confirms' > 0 => order'.status # "PENDING"
  BY <1>3, <1>4, <1>6, <1>7, <1>8 DEF Inv, SomePacked, ConfirmedOnce, ChargedOnlyIfReserved, CheckedConfirmsOnce
<1>12. list' \in ListStatus /\ item' \in [Line -> ItemRow] /\ packs' \in Seq(PackRow)
  BY <1>1, <1>4 DEF TypeOK
<1> QED
  BY <1>1, <1>4, <1>6, <1>7, <1>8, <1>9, <1>10, <1>11, <1>12, AnswerKeeps

LEMMA CommitFulfilKeeps ==
    ASSUME Inv, NEW w \in Worker, CommitFulfil(w)
    PROVE  Inv'
<1>1. /\ TypeOK /\ pc[w] = "commit" /\ Fits(w) /\ Writes(w) /\ job[w] \in Request /\ lock = w
      /\ job[w].to = "PARTIALLY_FULFILLED"
  BY JobFacts, RequestFacts DEF CommitFulfil, Is, Inv, TypeOK, Writes
<1>2. Packaged /\ order.version \in Nat
  BY <1>1 DEF Fits, Transits, TypeOK, OrderRow
<1>3. /\ order' = [status |-> "PARTIALLY_FULFILLED", version |-> order.version + 1]
      /\ lock' = NoWorker
      /\ Idle(w) /\ UNCHANGED <<reserved, charged, list, item, packs, confirms, todo, expected, saw>>
  BY DEF CommitFulfil
<1>4. /\ order' \in OrderRow /\ order'.status = "PARTIALLY_FULFILLED" /\ order.version < order'.version
      /\ order.version <= order'.version
  BY <1>2, <1>3 DEF OrderRow, OrderStatus
<1>5. Reliable(w)
  <2>1. /\ Packaged => Packaged'
        /\ \A p \in DOMAIN packs : p \in DOMAIN packs' /\ DOMAIN packs[p].rows \subseteq DOMAIN packs'[p].rows
    BY <1>3, PacksStay
  <2> QED
    BY <1>3, <1>4, <2>1 DEF Reliable
<1>6. /\ NothingShipsUnpacked'
      /\ list' = "PACKED" => SomePacked'
      /\ confirms' > 0 => order'.status # "PENDING"
      /\ ConfirmedOnce'
  BY <1>2, <1>3, <1>4
     DEF Inv, NothingShipsUnpacked, Packaged, SomePacked, ConfirmedOnce, ChargedOnlyIfReserved, CheckedConfirmsOnce
<1>7. /\ reserved' \in Int /\ charged' \in Int /\ confirms' \in Nat
      /\ list' \in ListStatus /\ item' \in [Line -> ItemRow] /\ packs' \in Seq(PackRow)
  BY <1>1, <1>3 DEF TypeOK
<1> QED
  BY <1>1, <1>3, <1>4, <1>5, <1>6, <1>7, AnswerKeeps

LEMMA CommitTripKeeps ==
    ASSUME Inv, NEW w \in Worker, CommitTrip(w)
    PROVE  Inv'
<1>1. /\ TypeOK /\ pc[w] = "commit" /\ job[w] \in Request /\ lock = NoWorker
      /\ job[w].to \in {"OUT_FOR_DELIVERY", "DELIVERED"}
  BY JobFacts, RequestFacts DEF CommitTrip, Is, Inv, TypeOK
<1>2. lock # w /\ order \in OrderRow /\ order.version \in Nat
  BY <1>1, ValueAssumption DEF TypeOK, OrderRow
<1>3. /\ order' = [order EXCEPT !.status = job[w].to]
      /\ Idle(w) /\ UNCHANGED <<lock, reserved, charged, list, item, packs, confirms, todo, expected, saw>>
  BY DEF CommitTrip
<1>4. order' \in OrderRow /\ order'.status = job[w].to /\ order.version <= order'.version
  BY <1>1, <1>2, <1>3 DEF OrderRow, OrderStatus
<1>5. Reliable(w)
  <2>1. /\ Packaged => Packaged'
        /\ \A p \in DOMAIN packs : p \in DOMAIN packs' /\ DOMAIN packs[p].rows \subseteq DOMAIN packs'[p].rows
    BY <1>3, PacksStay
  <2> QED
    BY <1>3, <1>4, <2>1 DEF Reliable
<1>6. /\ NothingShipsUnpacked'
      /\ list' = "PACKED" => SomePacked'
      /\ confirms' > 0 => order'.status # "PENDING"
      /\ ConfirmedOnce'
  BY <1>1, <1>3, <1>4
     DEF Inv, NothingShipsUnpacked, SomePacked, ConfirmedOnce, ChargedOnlyIfReserved, CheckedConfirmsOnce
<1>7. /\ reserved' \in Int /\ charged' \in Int /\ confirms' \in Nat
      /\ list' \in ListStatus /\ item' \in [Line -> ItemRow] /\ packs' \in Seq(PackRow)
  BY <1>1, <1>3 DEF TypeOK
<1> QED
  BY <1>1, <1>2, <1>3, <1>4, <1>5, <1>6, <1>7, AnswerKeeps

\* A step that writes the pick list's status or an item of it, and nothing of
\* the packs and the order.
LEMMA ListWriteKeeps ==
    ASSUME Inv, NEW w \in Worker, pc[w] # "idle", lock # w, Idle(w),
           UNCHANGED <<order, lock, reserved, charged, packs, confirms, todo, expected, saw>>,
           list' \in ListStatus \ {"NONE", "PACKED"} \/ list' = list,
           item' \in [Line -> ItemRow]
    PROVE  Inv'
<1>1. TypeOK /\ order \in OrderRow /\ order.version \in Nat
  BY DEF Inv, TypeOK, OrderRow
<1>2. list # "NONE" => list' # "NONE"
  OBVIOUS
<1>3. Reliable(w)
  <2>1. /\ Packaged => Packaged'
        /\ \A p \in DOMAIN packs : p \in DOMAIN packs' /\ DOMAIN packs[p].rows \subseteq DOMAIN packs'[p].rows
    BY <1>2, PacksStay
  <2> QED
    BY <1>1, <2>1 DEF Reliable
<1>4. /\ NothingShipsUnpacked'
      /\ list' = "PACKED" => SomePacked'
      /\ confirms' > 0 => order'.status # "PENDING"
      /\ ConfirmedOnce'
  BY <1>2 DEF Inv, NothingShipsUnpacked, SomePacked, ConfirmedOnce, ChargedOnlyIfReserved, CheckedConfirmsOnce
<1>5. /\ reserved' \in Int /\ charged' \in Int /\ confirms' \in Nat /\ order' \in OrderRow
      /\ list' \in ListStatus /\ packs' \in Seq(PackRow)
  BY <1>1 DEF TypeOK
<1> QED
  BY <1>3, <1>4, <1>5, AnswerKeeps

LEMMA WriteListKeeps ==
    ASSUME Inv, NEW w \in Worker, WriteList(w)
    PROVE  Inv'
<1>1. /\ TypeOK /\ pc[w] = "write" /\ lock # w /\ job[w].to \in {"PICKING", "CANCELLED"}
  BY JobFacts, RequestFacts DEF WriteList, Is, Inv, TypeOK
<1> QED
  BY <1>1, ListWriteKeeps DEF WriteList, TypeOK, ListStatus

LEMMA CommitItemKeeps ==
    ASSUME Inv, NEW w \in Worker, CommitItem(w)
    PROVE  Inv'
<1>1. /\ TypeOK /\ pc[w] = "commit" /\ lock # w /\ job[w] \in Request
  BY JobFacts DEF CommitItem, Inv, TypeOK, Picking
<1>2. saw[w] \in Sight /\ job[w].line \in Line
  BY <1>1, RequestFacts DEF TypeOK
<1>3. item' \in [Line -> ItemRow]
  BY <1>1, <1>2, SightTypes DEF CommitItem, TypeOK
<1> QED
  BY <1>1, <1>3, ListWriteKeeps DEF CommitItem, ListStatus

\* A step that writes the packs, adding to them.
LEMMA PackWriteKeeps ==
    ASSUME Inv, NEW w \in Worker, pc[w] # "idle", lock # w, Idle(w),
           UNCHANGED <<lock, reserved, charged, item, confirms, todo, expected, saw>>,
           packs' \in Seq(PackRow),
           \A p \in DOMAIN packs :
              p \in DOMAIN packs' /\ DOMAIN packs[p].rows \subseteq DOMAIN packs'[p].rows,
           SomePacked => SomePacked',
           \/ UNCHANGED <<order, list>>
           \/ order' = [order EXCEPT !.status = "PROCESSING"] /\ list' = "PACKED" /\ SomePacked'
    PROVE  Inv'
<1>1. TypeOK /\ order \in OrderRow /\ order.version \in Nat
  BY DEF Inv, TypeOK, OrderRow
<1>2. order' \in OrderRow /\ order'.version = order.version /\ list' \in ListStatus
  BY <1>1 DEF OrderRow, OrderStatus, ListStatus, TypeOK
<1>3. Packaged => Packaged'
  BY DEF Packaged
<1>4. Reliable(w)
  BY <1>1, <1>2, <1>3 DEF Reliable
<1>5. list' = "PACKED" => SomePacked'
  BY DEF Inv
<1>6. order'.status = "PROCESSING" \/ order'.status = order.status
  BY <1>1 DEF OrderRow
<1>7. NothingShipsUnpacked'
  <2>1. CASE UNCHANGED <<order, list>>
    BY <2>1 DEF Inv, NothingShipsUnpacked, SomePacked
  <2>2. CASE list' = "PACKED" /\ SomePacked'
    BY <2>2 DEF NothingShipsUnpacked, SomePacked
  <2> QED
    BY <2>1, <2>2
<1>8. ConfirmedOnce' /\ (confirms' > 0 => order'.status # "PENDING")
  BY <1>6 DEF Inv, ConfirmedOnce, ChargedOnlyIfReserved, CheckedConfirmsOnce
<1>9. /\ reserved' \in Int /\ charged' \in Int /\ confirms' \in Nat /\ item' \in [Line -> ItemRow]
  BY <1>1 DEF TypeOK
<1> QED
  BY <1>2, <1>4, <1>5, <1>7, <1>8, <1>9, AnswerKeeps

LEMMA CreatePackKeeps ==
    ASSUME Inv, NEW w \in Worker, CreatePack(w)
    PROVE  Inv'
<1> DEFINE new == [status |-> "OPEN", rows |-> <<>>]
<1>1. TypeOK /\ pc[w] = "write" /\ lock # w /\ packs \in Seq(PackRow)
  BY DEF CreatePack, Is, Inv, TypeOK
<1>2. /\ Idle(w) /\ UNCHANGED <<order, lock, reserved, charged, list, item, confirms, todo, expected, saw>>
      /\ packs' = packs \/ packs' = Append(packs, new)
  BY DEF CreatePack
<1>3. new \in PackRow
  BY DEF PackRow
<1> HIDE DEF new
<1>4. /\ packs' \in Seq(PackRow)
      /\ \A p \in DOMAIN packs : p \in DOMAIN packs' /\ packs'[p] = packs[p]
  BY <1>1, <1>2, <1>3
<1>5. SomePacked => SomePacked'
  BY <1>4 DEF SomePacked
<1> QED
  BY <1>1, <1>2, <1>4, <1>5, PackWriteKeeps

LEMMA SealPackKeeps ==
    ASSUME Inv, NEW w \in Worker, SealPack(w)
    PROVE  Inv'
<1> DEFINE p == job[w].pack
<1>1. /\ TypeOK /\ pc[w] = "write" /\ lock # w /\ packs \in Seq(PackRow) /\ p \in DOMAIN packs
      /\ packs[p] \in PackRow
  BY PackTypes DEF SealPack, Is, Inv, TypeOK, Fits, Handles
<1>2. /\ Idle(w) /\ UNCHANGED <<order, lock, reserved, charged, list, item, confirms, todo, expected, saw>>
      /\ packs' = [packs EXCEPT ![p] = [packs[p] EXCEPT !.status = "SEALED"]]
  BY DEF SealPack
<1> HIDE DEF p
<1>3. [packs[p] EXCEPT !.status = "SEALED"] \in PackRow /\ [packs[p] EXCEPT !.status = "SEALED"].rows = packs[p].rows
  BY <1>1 DEF PackRow
<1>4. /\ packs' \in Seq(PackRow)
      /\ \A q \in DOMAIN packs : q \in DOMAIN packs' /\ packs'[q].rows = packs[q].rows
  BY <1>1, <1>2, <1>3
<1>5. SomePacked => SomePacked'
  BY <1>4 DEF SomePacked
<1> QED
  BY <1>1, <1>2, <1>4, <1>5, PackWriteKeeps

\* The rows of a pack with the row a request writes.
LEMMA RowsWithFacts ==
    ASSUME TypeOK, NEW w \in Worker, job[w] \in Request, job[w].pack \in DOMAIN packs,
           saw[w].row = 0 \/ saw[w].row \in DOMAIN packs[job[w].pack].rows
    PROVE  /\ RowsWith(w) \in Seq([line: Line, qty: Int])
           /\ DOMAIN packs[job[w].pack].rows \subseteq DOMAIN RowsWith(w)
           /\ RowsWith(w) # <<>>
<1> DEFINE rows == packs[job[w].pack].rows
           mine == [line |-> job[w].line, qty |-> saw[w].qty]
<1>1. rows \in Seq([line: Line, qty: Int])
  BY PackTypes
<1>2. mine \in [line: Line, qty: Int]
  <2>1. saw[w] \in Sight
    BY DEF TypeOK
  <2> QED
    BY <2>1, SightTypes, RequestFacts
<1>3. RowsWith(w) = IF saw[w].row = 0 THEN Append(rows, mine) ELSE [rows EXCEPT ![saw[w].row] = mine]
  BY DEF RowsWith
<1> HIDE DEF rows, mine
<1> DEFINE T == [line: Line, qty: Int]
<1>4. rows \in Seq(T) /\ mine \in T
  BY <1>1, <1>2
<1> HIDE DEF T
<1>5. CASE saw[w].row = 0
  <2>1. /\ Append(rows, mine) \in Seq(T)
        /\ DOMAIN rows \subseteq DOMAIN Append(rows, mine)
        /\ Append(rows, mine) # <<>>
    BY <1>4
  <2> QED
    BY <1>2, <1>3, <1>5, <2>1 DEF T, rows
<1>6. CASE saw[w].row # 0
  <2>1. saw[w].row \in DOMAIN rows
    BY <1>6 DEF rows
  <2>2. /\ [rows EXCEPT ![saw[w].row] = mine] \in Seq(T)
        /\ DOMAIN rows = DOMAIN [rows EXCEPT ![saw[w].row] = mine]
        /\ [rows EXCEPT ![saw[w].row] = mine] # <<>>
    BY <1>4, <2>1
  <2> QED
    BY <1>2, <1>3, <1>6, <2>1, <2>2 DEF T, rows
<1> QED
  BY <1>5, <1>6

LEMMA CommitPackItemKeeps ==
    ASSUME Inv, NEW w \in Worker, CommitPackItem(w)
    PROVE  Inv'
<1> DEFINE p == job[w].pack
<1>1. /\ TypeOK /\ pc[w] = "commit" /\ job[w].op = "ADD" /\ lock # w /\ job[w] \in Request
      /\ packs \in Seq(PackRow)
  BY JobFacts DEF CommitPackItem, Is, Inv, TypeOK
<1>2. /\ p \in DOMAIN packs
      /\ saw[w].row = 0 \/ saw[w].row \in DOMAIN packs[p].rows
  BY <1>1 DEF Inv, Fits, Handles
<1>3. packs[p] \in PackRow
  BY <1>1, <1>2, PackTypes
<1>4. /\ RowsWith(w) \in Seq([line: Line, qty: Int])
      /\ DOMAIN packs[p].rows \subseteq DOMAIN RowsWith(w)
      /\ RowsWith(w) # <<>>
  BY <1>1, <1>2, RowsWithFacts
<1>5. /\ Idle(w) /\ UNCHANGED <<lock, reserved, charged, item, confirms, todo, expected, saw>>
      /\ packs' = [packs EXCEPT ![p] = [packs[p] EXCEPT !.rows = RowsWith(w)]]
  BY DEF CommitPackItem
<1> HIDE DEF p
<1>6. [packs[p] EXCEPT !.rows = RowsWith(w)] \in PackRow /\ [packs[p] EXCEPT !.rows = RowsWith(w)].rows = RowsWith(w)
  BY <1>3, <1>4 DEF PackRow
<1>7. /\ packs' \in Seq(PackRow) /\ DOMAIN packs' = DOMAIN packs /\ packs'[p].rows = RowsWith(w)
      /\ \A q \in DOMAIN packs : q # p => packs'[q] = packs[q]
  <2> DEFINE new == [packs[p] EXCEPT !.rows = RowsWith(w)]
  <2>1. new \in PackRow /\ new.rows = RowsWith(w) /\ packs' = [packs EXCEPT ![p] = new]
    BY <1>5, <1>6
  <2> HIDE DEF new
  <2> QED
    BY <1>1, <1>2, <2>1
<1>8. SomePacked'
  BY <1>2, <1>4, <1>7 DEF SomePacked
<1>9. \A q \in DOMAIN packs : q \in DOMAIN packs' /\ DOMAIN packs[q].rows \subseteq DOMAIN packs'[q].rows
  BY <1>4, <1>7
<1>10. \/ UNCHANGED <<order, list>>
       \/ order' = [order EXCEPT !.status = "PROCESSING"] /\ list' = "PACKED" /\ SomePacked'
  BY <1>8 DEF CommitPackItem
<1> QED
  BY <1>1, <1>5, <1>7, <1>8, <1>9, <1>10, PackWriteKeeps

LEMMA FailKeeps ==
    ASSUME Inv, NEW w \in Worker, Fail(w)
    PROVE  Inv'
<1>1. TypeOK /\ pc[w] # "idle" /\ order \in OrderRow /\ order.version \in Nat
  BY DEF Fail, Inv, TypeOK, OrderRow
<1>2. /\ Idle(w) /\ UNCHANGED <<order, reserved, charged, list, item, packs, confirms, todo, expected, saw>>
      /\ (lock' = lock /\ lock # w) \/ (lock' = NoWorker /\ lock \in {NoWorker, w})
  BY DEF Fail
<1>3. Reliable(w)
  <2>1. /\ Packaged => Packaged'
        /\ \A p \in DOMAIN packs : p \in DOMAIN packs' /\ DOMAIN packs[p].rows \subseteq DOMAIN packs'[p].rows
    BY <1>2, PacksStay
  <2> QED
    BY <1>1, <1>2, <2>1 DEF Reliable
<1>4. /\ NothingShipsUnpacked'
      /\ list' = "PACKED" => SomePacked'
      /\ confirms' > 0 => order'.status # "PENDING"
      /\ ConfirmedOnce'
  BY <1>2 DEF Inv, NothingShipsUnpacked, SomePacked, ConfirmedOnce, ChargedOnlyIfReserved, CheckedConfirmsOnce
<1>5. /\ reserved' \in Int /\ charged' \in Int /\ confirms' \in Nat /\ order' \in OrderRow
      /\ list' \in ListStatus /\ item' \in [Line -> ItemRow] /\ packs' \in Seq(PackRow)
  BY <1>1, <1>2 DEF TypeOK
<1> QED
  BY <1>1, <1>2, <1>3, <1>4, <1>5, AnswerKeeps

-----------------------------------------------------------------------------
LEMMA InitInv == Init => Inv
<1> SUFFICES ASSUME Init PROVE Inv
  OBVIOUS
<1>1. /\ order \in OrderRow /\ order.version = 0 /\ order.status = "PENDING"
      /\ item \in [Line -> ItemRow] /\ packs \in Seq(PackRow)
  BY DEF Init, OrderRow, OrderStatus, ItemRow, ItemStatus
<1>2. saw \in [Worker -> Sight]
  <2>1. [order |-> [status |-> "PENDING", version |-> 0],
         mine |-> [picked |-> 0, status |-> "PENDING"],
         picked |-> [l \in Line |-> 0], row |-> 0, qty |-> 0, all |-> FALSE] \in Sight
    BY DEF Sight, OrderRow, OrderStatus, ItemRow, ItemStatus
  <2> QED
    BY <2>1 DEF Init
<1>3. TypeOK
  <2>1. todo \in [Request -> Nat]
    BY RequestAssumption DEF Init
  <2>2. \A w \in Worker : lock # w /\ pc[w] = "idle" /\ job[w] = NoRequest
    BY ValueAssumption DEF Init
  <2>3. /\ pc \in [Worker -> Steps] /\ job \in [Worker -> Request \cup {NoRequest}]
        /\ expected \in [Worker -> Nat]
    BY DEF Init, Steps
  <2>4. /\ lock \in Worker \cup {NoWorker} /\ reserved \in Int /\ charged \in Int
        /\ list \in ListStatus /\ confirms \in Nat
    BY DEF Init, ListStatus
  <2> QED
    BY <1>1, <1>2, <2>1, <2>2, <2>3, <2>4 DEF TypeOK, Steps
<1>4. \A w \in Worker : Fits(w)
  BY <1>1 DEF Init, Fits, Underway, Transits, Overtaken, Handles
<1>5. ConfirmedOnce /\ NothingShipsUnpacked
  BY <1>1 DEF Init, ConfirmedOnce, ChargedOnlyIfReserved, CheckedConfirmsOnce, NothingShipsUnpacked
<1> QED
  BY <1>3, <1>4, <1>5 DEF Init, Inv

LEMMA NextInv == Inv /\ [Next]_vars => Inv'
<1> SUFFICES ASSUME Inv, [Next]_vars PROVE Inv'
  OBVIOUS
<1>1. ASSUME NEW w \in Worker, Step(w) PROVE Inv'
  <2>1. CASE ReadOrder(w) \/ Begin(w) \/ MakePickList(w) \/ CommitStatus(w) \/ CommitFulfil(w)
    BY <2>1, ReadOrderKeeps, BeginKeeps, MakePickListKeeps, CommitStatusKeeps, CommitFulfilKeeps
  <2>2. CASE ReadTrip(w) \/ CommitTrip(w) \/ ReadList(w) \/ WriteList(w)
    BY <2>2, ReadTripKeeps, CommitTripKeeps, ReadListKeeps, WriteListKeeps
  <2>3. CASE ReadItem(w) \/ WriteItem(w) \/ DecidePicked(w) \/ CommitItem(w)
    BY <2>3, ReadItemKeeps, WriteItemKeeps, DecidePickedKeeps, CommitItemKeeps
  <2>4. CASE ReadForPack(w) \/ CreatePack(w) \/ ReadSeal(w) \/ SealPack(w)
    BY <2>4, ReadForPackKeeps, CreatePackKeeps, ReadSealKeeps, SealPackKeeps
  <2>5. CASE ReadPack(w) \/ FindPackItem(w) \/ WritePackItem(w) \/ DecidePacked(w) \/ CommitPackItem(w)
    BY <2>5, ReadPackKeeps, FindPackItemKeeps, WritePackItemKeeps, DecidePackedKeeps, CommitPackItemKeeps
  <2>6. CASE Fail(w)
    BY <2>6, FailKeeps
  <2> QED
    BY <1>1, <2>1, <2>2, <2>3, <2>4, <2>5, <2>6 DEF Step
<1>2. ASSUME NEW w \in Worker, NEW r \in Request, Send(w, r) PROVE Inv'
  BY <1>2, SendKeeps
<1>3. CASE UNCHANGED vars
  <2>1. UNCHANGED <<order, lock, reserved, charged, list, item, packs, confirms, todo, pc, job, expected, saw>>
    BY <1>3 DEF vars
  <2>2. TypeOK' /\ ConfirmedOnce' /\ NothingShipsUnpacked' /\ (SomePacked' <=> SomePacked) /\ (Packaged' <=> Packaged)
    BY <2>1 DEF Inv, TypeOK, ConfirmedOnce, ChargedOnlyIfReserved, CheckedConfirmsOnce, NothingShipsUnpacked,
                SomePacked, Packaged
  <2>3. ASSUME NEW w \in Worker PROVE Fits(w)'
    <3>1. Fits(w)
      BY DEF Inv
    <3> QED
      BY <2>1, <2>2, <3>1 DEF Fits, Underway, Transits, Overtaken, Handles, Writes
  <2> QED
    BY <2>1, <2>2, <2>3 DEF Inv
<1> QED
  BY <1>1, <1>2, <1>3 DEF Next, Finished

LEMMA InvHolds == Spec => []Inv
BY InitInv, NextInv, PTL DEF Spec

\* Type correctness: among the rest, that the order's row is locked exactly
\* while a version-checked status request is between its check and its commit.
THEOREM TypeCorrect == Spec => []TypeOK
<1>1. Inv => TypeOK
  BY DEF Inv
<1> QED
  BY <1>1, InvHolds, PTL

\* However confirmations, cancellations and failures race, the client is never
\* charged more often than stock was reserved, and of the confirmations that
\* carry the version their client saw one takes effect (OrdersService.updateStatus).
THEOREM ConfirmsOnce == Spec => []ConfirmedOnce
<1>1. Inv => ConfirmedOnce
  BY DEF Inv
<1> QED
  BY <1>1, InvHolds, PTL

\* No status request overtakes the warehouse: an order being processed or
\* shipped has a pick list and something of it was entered in a pack.
THEOREM ShipsPacked == Spec => []NothingShipsUnpacked
<1>1. Inv => NothingShipsUnpacked
  BY DEF Inv
<1> QED
  BY <1>1, InvHolds, PTL
=============================================================================

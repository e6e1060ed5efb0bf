---------------------------- MODULE OutboxProofs ----------------------------
(***************************************************************************)
(* Safety of the outbox for any number of events, instances, crashes and   *)
(* database errors: type correctness, publication of committed events      *)
(* only, publication in order, and every step a step of EventDelivery.     *)
(*                                                                         *)
(* The inductive invariant ties the loops to the rows: what a processor    *)
(* holds was committed (HeldIsCommitted), and whatever was committed before*)
(* a held row was created is published or held with it (NothingSkipped).   *)
(***************************************************************************)
EXTENDS Outbox, FiniteSetTheorems, TLAPS

\* A row is committed exactly when its transaction has a commit time, and the
\* times of a row follow one another up to the clock.
CommittedHaveTimes ==
    \A e \in Event :
        /\ committed[e] > 0 <=> row[e] \in Status
        /\ createdAt[e] <= now
        /\ committed[e] > 0 => createdAt[e] <= committed[e] /\ committed[e] <= now

\* A processor holds committed rows, and the one it marks next is published.
HeldIsCommitted ==
    \A i \in Instance :
        /\ \A e \in batch[i] : row[e] \in Status
        /\ current[i] # NoEvent => copies[current[i]] > 0

PublishedIsCommitted == \A e \in Event : copies[e] > 0 => row[e] \in Status

\* What was committed before a held row was created is published or held too.
NothingSkipped ==
    \A i \in Instance, e \in Event :
        \A f \in batch[i] :
            committed[e] > 0 /\ committed[e] < createdAt[f] => copies[e] > 0 \/ e \in batch[i]

Inv ==
    /\ TypeOK
    /\ CommittedHaveTimes
    /\ HeldIsCommitted
    /\ PublishedIsCommitted
    /\ MarkedWasPublished
    /\ NothingSkipped
    /\ PublishedInOrder

-----------------------------------------------------------------------------
(* Typing.                                                                  *)

LEMMA InitTyping == Init => TypeOK
BY BoundAssumption DEF Init, TypeOK, Status

LEMMA NextRowTyping ==
    ASSUME TypeOK, NEW i \in Instance, NextRow(i), pc[i] \in {"processed", "failed"}
    PROVE  /\ pc' \in [Instance -> {"idle", "emit", "processed", "failed"}]
           /\ batch' \in [Instance -> SUBSET Event]
           /\ current' \in [Instance -> Event \cup {NoEvent}]
           /\ \A j \in Instance :
                 /\ pc'[j] = "idle" <=> batch'[j] = {}
                 /\ pc'[j] \in {"processed", "failed"} <=> current'[j] # NoEvent
                 /\ current'[j] # NoEvent => current'[j] \in batch'[j]
<1>1. current[i] \in batch[i]
  BY DEF TypeOK
<1>2. batch[i] \ {current[i]} = {} <=> batch[i] = {current[i]}
  BY <1>1
<1>3. /\ pc' \in [Instance -> {"idle", "emit", "processed", "failed"}]
      /\ batch' \in [Instance -> SUBSET Event]
      /\ current' \in [Instance -> Event \cup {NoEvent}]
  BY DEF TypeOK, NextRow
<1>4. ASSUME NEW j \in Instance
      PROVE  /\ pc'[j] = "idle" <=> batch'[j] = {}
             /\ pc'[j] \in {"processed", "failed"} <=> current'[j] # NoEvent
             /\ current'[j] # NoEvent => current'[j] \in batch'[j]
  <2>1. CASE j = i
    BY <1>2, <2>1 DEF TypeOK, NextRow
  <2>2. CASE j # i
    BY <2>2 DEF TypeOK, NextRow
  <2> QED
    BY <2>1, <2>2
<1> QED
  BY <1>3, <1>4

LEMMA LeaveTyping ==
    ASSUME TypeOK, NEW i \in Instance, Leave(i)
    PROVE  /\ pc' \in [Instance -> {"idle", "emit", "processed", "failed"}]
           /\ batch' \in [Instance -> SUBSET Event]
           /\ current' \in [Instance -> Event \cup {NoEvent}]
           /\ \A j \in Instance :
                 /\ pc'[j] = "idle" <=> batch'[j] = {}
                 /\ pc'[j] \in {"processed", "failed"} <=> current'[j] # NoEvent
                 /\ current'[j] # NoEvent => current'[j] \in batch'[j]
BY DEF TypeOK, Leave

LEMMA NextTyping == TypeOK /\ [Next]_vars => TypeOK'
<1> SUFFICES ASSUME TypeOK, [Next]_vars
             PROVE  TypeOK'
  OBVIOUS
<1> USE BoundAssumption
<1>1. ASSUME NEW e \in Event, Schedule(e) \/ Commit(e) \/ Undo(e)
      PROVE  TypeOK'
  BY <1>1 DEF TypeOK, Schedule, Commit, Undo, Status, loops
<1>2. CASE Tick
  BY <1>2 DEF TypeOK, Tick, rows, loops
<1>3. ASSUME NEW i \in Instance, Poll(i)
      PROVE  TypeOK'
  BY <1>3 DEF TypeOK, Poll, Fetches, Pending, rows
<1>4. ASSUME NEW i \in Instance, Emit(i)
      PROVE  TypeOK'
  BY <1>4 DEF TypeOK, Emit, rows
<1>5. ASSUME NEW i \in Instance, MarkProcessed(i)
      PROVE  TypeOK'
  <2>1. row' \in [Event -> {"absent", "open", "undone"} \cup Status]
    BY <1>5 DEF TypeOK, MarkProcessed, Mark, Status
  <2> QED
    BY <1>5, <2>1, NextRowTyping DEF TypeOK, MarkProcessed
<1>6. ASSUME NEW i \in Instance, ProcessedFails(i)
      PROVE  TypeOK'
  <2>1. row' \in [Event -> {"absent", "open", "undone"} \cup Status]
    BY <1>6 DEF TypeOK, ProcessedFails, Mark, Status
  <2> QED
    BY <1>6, <2>1 DEF TypeOK, ProcessedFails
<1>7. ASSUME NEW i \in Instance, MarkFailed(i)
      PROVE  TypeOK'
  <2>1. row' \in [Event -> {"absent", "open", "undone"} \cup Status]
    BY <1>7 DEF TypeOK, MarkFailed, Mark, Status
  <2> QED
    BY <1>7, <2>1, NextRowTyping DEF TypeOK, MarkFailed
<1>8. ASSUME NEW i \in Instance, FailedFails(i)
      PROVE  TypeOK'
  <2>1. row' \in [Event -> {"absent", "open", "undone"} \cup Status]
    BY <1>8 DEF TypeOK, FailedFails, Mark, Status
  <2> QED
    BY <1>8, <2>1, LeaveTyping DEF TypeOK, FailedFails
<1>9. ASSUME NEW i \in Instance, Crash(i)
      PROVE  TypeOK'
  BY <1>9, LeaveTyping DEF TypeOK, Crash, rows
<1>10. CASE UNCHANGED vars
  BY <1>10 DEF TypeOK, vars
<1> QED
  BY <1>1, <1>2, <1>3, <1>4, <1>5, <1>6, <1>7, <1>8, <1>9, <1>10 DEF Next, Process

\* The columns, loops and counters keep their types in every behaviour; a loop
\* is idle exactly when it holds no row, and marks only a row it holds.
THEOREM TypeCorrect == Spec => []TypeOK
BY InitTyping, NextTyping, PTL DEF Spec

-----------------------------------------------------------------------------
(* The inductive invariant.                                                 *)

LEMMA InitInv == Init => Inv
<1> SUFFICES ASSUME Init
             PROVE  Inv
  OBVIOUS
<1> QED
  BY InitTyping, BoundAssumption
     DEF Init, Inv, CommittedHaveTimes, HeldIsCommitted, PublishedIsCommitted,
         MarkedWasPublished, NothingSkipped, PublishedInOrder, Status

\* Marking a published row, or the answer to marking it, and dropping rows from
\* the batches of a loop, leave the invariant alone.
LEMMA MarkInv ==
    ASSUME Inv, TypeOK', NEW i \in Instance, current[i] # NoEvent,
           UNCHANGED <<createdAt, committed, now, copies>>,
           NEW s \in {"PROCESSED", "FAILED"},
           row' = row \/ row' = [row EXCEPT ![current[i]] = s],
           \/ NextRow(i)
           \/ Leave(i)
           \/ UNCHANGED <<batch, current>>
    PROVE  Inv'
<1> DEFINE c == current[i]
<1>1. c \in Event /\ copies[c] > 0 /\ row[c] \in Status
  BY DEF Inv, TypeOK, HeldIsCommitted, PublishedIsCommitted
<1>2. \A e \in Event : row'[e] \in Status <=> row[e] \in Status
  BY <1>1 DEF Inv, TypeOK, Status
<1>3. \A e \in Event : row'[e] \in {"PROCESSED", "FAILED"} => copies[e] > 0
  BY <1>1 DEF Inv, TypeOK, MarkedWasPublished
<1>4. \A j \in Instance : /\ batch'[j] \subseteq batch[j]
                          /\ current'[j] # NoEvent => current'[j] = current[j]
  BY DEF Inv, TypeOK, NextRow, Leave
<1>5. CommittedHaveTimes' /\ PublishedIsCommitted' /\ MarkedWasPublished' /\ PublishedInOrder'
  BY <1>2, <1>3 DEF Inv, CommittedHaveTimes, PublishedIsCommitted, MarkedWasPublished, PublishedInOrder
<1>6. HeldIsCommitted'
  <2>1. ASSUME NEW j \in Instance, NEW e \in batch'[j]
        PROVE  row'[e] \in Status
    <3>1. e \in batch[j] /\ e \in Event
      BY <1>4, <2>1 DEF Inv, TypeOK
    <3> QED
      BY <1>2, <3>1 DEF Inv, HeldIsCommitted
  <2>2. ASSUME NEW j \in Instance, current'[j] # NoEvent
        PROVE  copies'[current'[j]] > 0
    BY <1>4, <2>2 DEF Inv, HeldIsCommitted
  <2> QED
    BY <2>1, <2>2 DEF HeldIsCommitted
<1>7. NothingSkipped'
  <2> SUFFICES ASSUME NEW j \in Instance, NEW e \in Event, NEW f \in batch'[j],
                      committed[e] > 0, committed[e] < createdAt[f],
                      ~(copies[e] > 0)
               PROVE  e \in batch'[j]
    BY DEF NothingSkipped
  <2>1. e \in batch[j]
    BY <1>4 DEF Inv, NothingSkipped
  <2>2. e # c
    BY <1>1
  <2>3. batch'[j] = batch[j] \/ batch'[j] = batch[j] \ {c} \/ batch'[j] = {}
    BY DEF Inv, TypeOK, NextRow, Leave
  <2> QED
    BY <2>1, <2>2, <2>3
<1> QED
  BY <1>5, <1>6, <1>7 DEF Inv

LEMMA NextInv == Inv /\ [Next]_vars => Inv'
<1> SUFFICES ASSUME Inv, [Next]_vars
             PROVE  Inv'
  OBVIOUS
<1>1. TypeOK /\ TypeOK'
  BY NextTyping DEF Inv
<1>2. ASSUME NEW e \in Event, Schedule(e)
      PROVE  Inv'
  <2>1. /\ row[e] = "absent" /\ ~(committed[e] > 0) /\ ~(copies[e] > 0)
        /\ row' = [row EXCEPT ![e] = "open"]
        /\ createdAt' = [createdAt EXCEPT ![e] = now]
        /\ UNCHANGED <<committed, now, batch, current, copies>>
    BY <1>1, <1>2 DEF Schedule, Inv, CommittedHaveTimes, PublishedIsCommitted, Status, loops
  <2>2. CommittedHaveTimes' /\ PublishedIsCommitted' /\ MarkedWasPublished'
    BY <1>1, <2>1 DEF Inv, TypeOK, CommittedHaveTimes, PublishedIsCommitted, MarkedWasPublished, Status
  <2>3. \A j \in Instance : e \notin batch[j]
    BY <2>1 DEF Inv, HeldIsCommitted, Status
  <2>4. HeldIsCommitted' /\ NothingSkipped'
    BY <1>1, <2>1, <2>3 DEF Inv, TypeOK, HeldIsCommitted, NothingSkipped
  <2>5. PublishedInOrder'
    BY <1>1, <2>1 DEF Inv, TypeOK, PublishedInOrder
  <2> QED
    BY <1>1, <2>2, <2>4, <2>5 DEF Inv
<1>3. ASSUME NEW e \in Event, Commit(e)
      PROVE  Inv'
  <2>1. /\ row[e] = "open" /\ ~(copies[e] > 0)
        /\ row' = [row EXCEPT ![e] = "PENDING"]
        /\ committed' = [committed EXCEPT ![e] = now]
        /\ UNCHANGED <<createdAt, now, batch, current, copies>>
    BY <1>1, <1>3 DEF Commit, Inv, PublishedIsCommitted, Status, loops
  <2>2. \A f \in Event : ~(now < createdAt[f])
    BY <1>1 DEF Inv, TypeOK, CommittedHaveTimes
  <2>3. CommittedHaveTimes' /\ PublishedIsCommitted' /\ MarkedWasPublished'
    BY <1>1, <2>1 DEF Inv, TypeOK, CommittedHaveTimes, PublishedIsCommitted, MarkedWasPublished, Status
  <2>4. HeldIsCommitted'
    BY <1>1, <2>1 DEF Inv, TypeOK, HeldIsCommitted, Status
  <2>5. NothingSkipped' /\ PublishedInOrder'
    BY <1>1, <2>1, <2>2 DEF Inv, TypeOK, NothingSkipped, PublishedInOrder
  <2> QED
    BY <1>1, <2>3, <2>4, <2>5 DEF Inv
<1>4. ASSUME NEW e \in Event, Undo(e)
      PROVE  Inv'
  <2>1. /\ row[e] = "open"
        /\ row' = [row EXCEPT ![e] = "undone"]
        /\ UNCHANGED <<createdAt, committed, now, batch, current, copies>>
    BY <1>4 DEF Undo, loops
  <2>2. \A f \in Event : row'[f] \in Status <=> row[f] \in Status
    BY <1>1, <2>1 DEF TypeOK, Status
  <2> QED
    BY <1>1, <2>1, <2>2
       DEF Inv, TypeOK, CommittedHaveTimes, HeldIsCommitted, PublishedIsCommitted,
           MarkedWasPublished, NothingSkipped, PublishedInOrder
<1>5. CASE Tick
  <2>1. now' = now + 1 /\ UNCHANGED <<row, createdAt, committed, batch, current, copies>>
    BY <1>5 DEF Tick, rows, loops
  <2>2. CommittedHaveTimes'
    BY <1>1, <2>1 DEF Inv, TypeOK, CommittedHaveTimes
  <2> QED
    BY <1>1, <2>1, <2>2
       DEF Inv, HeldIsCommitted, PublishedIsCommitted, MarkedWasPublished, NothingSkipped, PublishedInOrder
<1>6. ASSUME NEW i \in Instance, Poll(i)
      PROVE  Inv'
  <2>1. PICK S \in SUBSET Pending : Fetches(S) /\ batch' = [batch EXCEPT ![i] = S]
    BY <1>6 DEF Poll
  <2>2. UNCHANGED <<row, createdAt, committed, now, current, copies>>
    BY <1>6 DEF Poll, rows
  <2>3. HeldIsCommitted'
    BY <1>1, <2>1, <2>2 DEF Inv, TypeOK, HeldIsCommitted, Pending, Status
  <2>4. NothingSkipped'
    <3> SUFFICES ASSUME NEW j \in Instance, NEW e \in Event, NEW f \in batch'[j],
                        committed[e] > 0, committed[e] < createdAt[f], ~(copies[e] > 0)
                 PROVE  e \in batch'[j]
      BY <2>2 DEF NothingSkipped
    <3>1. CASE j # i
      BY <1>1, <2>1, <3>1 DEF Inv, TypeOK, NothingSkipped
    <3>2. CASE j = i
      <4>1. f \in S /\ f \in Event /\ batch'[j] = S
        BY <1>1, <2>1, <3>2 DEF TypeOK, Pending
      <4>2. e \in Pending
        BY DEF Inv, CommittedHaveTimes, MarkedWasPublished, Pending, Status
      <4>3. createdAt[e] <= committed[e] /\ committed[e] \in Nat /\ createdAt[e] \in Nat /\ createdAt[f] \in Nat
        BY <1>1, <4>1 DEF Inv, TypeOK, CommittedHaveTimes
      <4>4. ~(createdAt[f] <= createdAt[e])
        BY <4>3
      <4> QED
        BY <2>1, <4>1, <4>2, <4>4 DEF Fetches
    <3> QED
      BY <3>1, <3>2
  <2> QED
    BY <1>1, <2>2, <2>3, <2>4
       DEF Inv, CommittedHaveTimes, PublishedIsCommitted, MarkedWasPublished, PublishedInOrder
<1>7. ASSUME NEW i \in Instance, Emit(i)
      PROVE  Inv'
  <2>1. PICK e \in batch[i] : /\ \A f \in batch[i] : createdAt[e] <= createdAt[f]
                             /\ current' = [current EXCEPT ![i] = e]
                             /\ copies' = [copies EXCEPT ![e] = @ + 1]
    BY <1>7 DEF Emit
  <2>2. UNCHANGED <<row, createdAt, committed, now, batch>>
    BY <1>7 DEF Emit, rows
  <2>3. e \in Event /\ row[e] \in Status
    BY <1>1 DEF Inv, TypeOK, HeldIsCommitted
  <2>4. /\ copies'[e] > 0
        /\ \A f \in Event : copies[f] > 0 => copies'[f] > 0
        /\ \A f \in Event : f # e /\ copies'[f] > 0 => copies[f] > 0
    BY <1>1, <2>1, <2>3 DEF TypeOK
  <2>5. CommittedHaveTimes' /\ PublishedIsCommitted' /\ MarkedWasPublished'
    BY <2>2, <2>3, <2>4 DEF Inv, CommittedHaveTimes, PublishedIsCommitted, MarkedWasPublished
  <2>6. HeldIsCommitted'
    <3>1. ASSUME NEW j \in Instance, current'[j] # NoEvent
          PROVE  copies'[current'[j]] > 0
      <4>1. CASE j = i
        BY <1>1, <2>1, <2>4, <4>1 DEF TypeOK
      <4>2. CASE j # i
        BY <1>1, <2>1, <2>4, <3>1, <4>2 DEF Inv, TypeOK, HeldIsCommitted
      <4> QED
        BY <4>1, <4>2
    <3> QED
      BY <2>2, <3>1 DEF Inv, HeldIsCommitted
  <2>7. NothingSkipped'
    BY <2>2, <2>4 DEF Inv, NothingSkipped
  <2>8. PublishedInOrder'
    <3> SUFFICES ASSUME NEW d \in Event, NEW f \in Event,
                        copies'[f] > 0, committed[d] > 0, committed[d] < createdAt[f]
                 PROVE  copies'[d] > 0
      BY <2>2 DEF PublishedInOrder
    <3>1. CASE f # e
      BY <2>4, <3>1 DEF Inv, PublishedInOrder
    <3>2. CASE f = e
      <4>1. createdAt[d] <= committed[d] /\ createdAt[d] \in Nat /\ committed[d] \in Nat /\ createdAt[e] \in Nat
        BY <1>1, <2>3 DEF Inv, TypeOK, CommittedHaveTimes
      <4>2. ~(createdAt[e] <= createdAt[d])
        BY <3>2, <4>1
      <4>3. d \notin batch[i]
        BY <2>1, <4>2
      <4>4. copies[d] > 0
        BY <3>2, <4>3 DEF Inv, NothingSkipped
      <4> QED
        BY <2>4, <4>4
    <3> QED
      BY <3>1, <3>2
  <2> QED
    BY <1>1, <2>5, <2>6, <2>7, <2>8 DEF Inv
<1>8. ASSUME NEW i \in Instance,
             MarkProcessed(i) \/ ProcessedFails(i) \/ MarkFailed(i) \/ FailedFails(i)
      PROVE  Inv'
  <2>1. current[i] # NoEvent
    BY <1>1, <1>8 DEF TypeOK, MarkProcessed, ProcessedFails, MarkFailed, FailedFails
  <2>2. UNCHANGED <<createdAt, committed, now, copies>>
    BY <1>8 DEF MarkProcessed, ProcessedFails, MarkFailed, FailedFails
  <2>3. NextRow(i) \/ Leave(i) \/ UNCHANGED <<batch, current>>
    BY <1>8 DEF MarkProcessed, ProcessedFails, MarkFailed, FailedFails
  <2>4. \E s \in {"PROCESSED", "FAILED"} : row' = row \/ row' = [row EXCEPT ![current[i]] = s]
    BY <1>8 DEF MarkProcessed, ProcessedFails, MarkFailed, FailedFails, Mark
  <2> QED
    BY <1>1, <2>1, <2>2, <2>3, <2>4, MarkInv
<1>9. ASSUME NEW i \in Instance, Crash(i)
      PROVE  Inv'
  <2>1. Leave(i) /\ UNCHANGED <<row, createdAt, committed, now, copies>>
    BY <1>9 DEF Crash, rows
  <2>2. /\ \A j \in Instance : batch'[j] = batch[j] \/ batch'[j] = {}
        /\ \A j \in Instance : current'[j] = current[j] \/ current'[j] = NoEvent
    BY <1>1, <2>1 DEF Leave, TypeOK
  <2>3. HeldIsCommitted' /\ NothingSkipped'
    BY <2>1, <2>2 DEF Inv, HeldIsCommitted, NothingSkipped
  <2> QED
    BY <1>1, <2>1, <2>3
       DEF Inv, CommittedHaveTimes, PublishedIsCommitted, MarkedWasPublished, PublishedInOrder
<1>10. CASE UNCHANGED vars
  BY <1>1, <1>10
     DEF vars, Inv, CommittedHaveTimes, HeldIsCommitted, PublishedIsCommitted,
         MarkedWasPublished, NothingSkipped, PublishedInOrder
<1> QED
  BY <1>2, <1>3, <1>4, <1>5, <1>6, <1>7, <1>8, <1>9, <1>10 DEF Next, Process

LEMMA InvHolds == Spec => []Inv
BY InitInv, NextInv, PTL DEF Spec

\* No event of an open or undone transaction is published or marked, whatever
\* the number of instances, crashes and database errors.
THEOREM CommittedOnly == Spec => []OnlyCommittedPublished
<1>1. Inv => OnlyCommittedPublished
  BY DEF Inv, CommittedHaveTimes, PublishedIsCommitted, OnlyCommittedPublished
<1> QED
  BY <1>1, InvHolds, PTL

\* No row leaves PENDING without having been emitted.
THEOREM MarkedPublished == Spec => []MarkedWasPublished
<1>1. Inv => MarkedWasPublished
  BY DEF Inv
<1> QED
  BY <1>1, InvHolds, PTL

\* First copies go out in the order of commits and later creations.
THEOREM InOrder == Spec => []PublishedInOrder
<1>1. Inv => PublishedInOrder
  BY DEF Inv
<1> QED
  BY <1>1, InvHolds, PTL

-----------------------------------------------------------------------------
(* The outbox implements the safety part of EventDelivery.                  *)

Stage == [e \in Event |->
            IF copies[e] > 0 THEN "published"
            ELSE IF row[e] \in Status THEN "due" ELSE "none"]

LEMMA InitRefines == Init => Delivery!Init
BY DEF Init, Delivery!Init, Status

\* A step that changes neither what is published nor what is committed stutters.
LEMMA StutterRefines ==
    ASSUME UNCHANGED copies, \A e \in Event : row'[e] \in Status <=> row[e] \in Status
    PROVE  Stage' = Stage
BY DEF Stage

LEMMA NextRefines == Inv /\ Inv' /\ [Next]_vars => [Delivery!Next]_Stage
<1> SUFFICES ASSUME Inv, Inv', [Next]_vars
             PROVE  [Delivery!Next]_Stage
  OBVIOUS
<1>1. TypeOK
  BY DEF Inv
<1>2. ASSUME NEW e \in Event, Schedule(e) \/ Undo(e)
      PROVE  Stage' = Stage
  <2>1. UNCHANGED copies /\ \A f \in Event : row'[f] \in Status <=> row[f] \in Status
    BY <1>1, <1>2 DEF Schedule, Undo, TypeOK, Status
  <2> QED
    BY <2>1, StutterRefines
<1>3. ASSUME NEW e \in Event, Commit(e)
      PROVE  Delivery!Next
  <2>1. /\ row[e] = "open" /\ ~(copies[e] > 0)
        /\ UNCHANGED copies
        /\ row' = [row EXCEPT ![e] = "PENDING"]
    BY <1>3 DEF Commit, Inv, PublishedIsCommitted, Status
  <2>2. Stage[e] = "none"
    BY <2>1 DEF Stage, Status
  <2>3. Stage' = [Stage EXCEPT ![e] = "due"]
    BY <1>1, <2>1 DEF Stage, Status, TypeOK
  <2> QED
    BY <2>2, <2>3 DEF Delivery!Next, Delivery!Accept, Stage
<1>4. CASE Tick
  <2>1. UNCHANGED copies /\ \A f \in Event : row'[f] \in Status <=> row[f] \in Status
    BY <1>4 DEF Tick, rows
  <2> QED
    BY <2>1, StutterRefines DEF Stage
<1>5. ASSUME NEW i \in Instance, Emit(i)
      PROVE  Delivery!Next \/ Stage' = Stage
  <2>1. PICK e \in batch[i] : copies' = [copies EXCEPT ![e] = @ + 1]
    BY <1>5 DEF Emit
  <2>2. e \in Event /\ row[e] \in Status /\ UNCHANGED row
    BY <1>1, <1>5 DEF Emit, Inv, TypeOK, HeldIsCommitted, rows
  <2>3. \A f \in Event : copies'[f] > 0 <=> copies[f] > 0 \/ f = e
    BY <1>1, <2>1, <2>2 DEF TypeOK
  <2>4. CASE copies[e] > 0
    <3>1. \A f \in Event : copies'[f] > 0 <=> copies[f] > 0
      BY <2>3, <2>4
    <3> QED
      BY <2>2, <3>1 DEF Stage
  <2>5. CASE ~(copies[e] > 0)
    <3>1. Stage[e] = "due"
      BY <2>2, <2>5 DEF Stage
    <3>2. Stage' = [Stage EXCEPT ![e] = "published"]
      BY <2>2, <2>3 DEF Stage
    <3> QED
      BY <2>2, <3>1, <3>2 DEF Delivery!Next, Delivery!Publish, Stage
  <2> QED
    BY <2>4, <2>5
<1>6. ASSUME NEW i \in Instance, Poll(i) \/ Crash(i)
      PROVE  Stage' = Stage
  <2>1. UNCHANGED copies /\ \A f \in Event : row'[f] \in Status <=> row[f] \in Status
    BY <1>6 DEF Poll, Crash, rows
  <2> QED
    BY <2>1, StutterRefines
<1>7. ASSUME NEW i \in Instance,
             MarkProcessed(i) \/ ProcessedFails(i) \/ MarkFailed(i) \/ FailedFails(i)
      PROVE  Stage' = Stage
  <2>1. current[i] \in Event /\ row[current[i]] \in Status
    BY <1>1, <1>7 DEF TypeOK, Inv, HeldIsCommitted, PublishedIsCommitted,
                      MarkProcessed, ProcessedFails, MarkFailed, FailedFails
  <2>2. PICK s \in {"PROCESSED", "FAILED"} : row' = row \/ row' = [row EXCEPT ![current[i]] = s]
    BY <1>7 DEF MarkProcessed, ProcessedFails, MarkFailed, FailedFails, Mark
  <2>3. UNCHANGED copies
    BY <1>7 DEF MarkProcessed, ProcessedFails, MarkFailed, FailedFails
  <2>4. \A f \in Event : row'[f] \in Status <=> row[f] \in Status
    BY <1>1, <2>1, <2>2 DEF TypeOK, Status
  <2> QED
    BY <2>3, <2>4, StutterRefines
<1>8. CASE UNCHANGED vars
  <2>1. UNCHANGED copies /\ \A f \in Event : row'[f] \in Status <=> row[f] \in Status
    BY <1>8 DEF vars
  <2> QED
    BY <2>1, StutterRefines
<1> QED
  BY <1>2, <1>3, <1>4, <1>5, <1>6, <1>7, <1>8 DEF Next, Process

\* Every behaviour of the outbox is one EventDelivery allows: an event becomes
\* due by its commit alone, and what is published was due.
THEOREM ImplementsDelivery == Spec => Delivery!SafeSpec
BY InitRefines, NextRefines, InvHolds, PTL DEF Spec, Delivery!SafeSpec, Stage

-----------------------------------------------------------------------------
(***************************************************************************)
(* How often an event goes out.  While its row is PENDING, each copy is one*)
(* an instance has just emitted and not marked yet (Emitters), or one whose*)
(* mark a crash or an error has prevented.  From the first mark on, nobody *)
(* fetches the row, and only those who had fetched it before (Waiters) may *)
(* still emit it; Emitters and Waiters are different instances.            *)
(***************************************************************************)
Emitters(e) == {i \in Instance : pc[i] = "processed" /\ current[i] = e}
Waiters(e) == {i \in Instance : e \in batch[i] /\ current[i] # e}
Mishaps == crashes + faults

Accounted(e) ==
    /\ row[e] = "PENDING" => copies[e] <= Cardinality(Emitters(e)) + Mishaps
    /\ row[e] \in {"PROCESSED", "FAILED"} =>
          copies[e] + Cardinality(Waiters(e)) <= Cardinality(Instance) + Mishaps

\* Emitters and waiters of an event are different instances.
LEMMA InstancesCount ==
    ASSUME NEW e
    PROVE  /\ IsFiniteSet(Emitters(e)) /\ IsFiniteSet(Waiters(e))
           /\ Cardinality(Emitters(e)) \in Nat /\ Cardinality(Waiters(e)) \in Nat
           /\ Cardinality(Instance) \in Nat
           /\ Cardinality(Emitters(e)) + Cardinality(Waiters(e)) <= Cardinality(Instance)
<1> DEFINE E == Emitters(e)
           W == Waiters(e)
<1>1. E \subseteq Instance /\ W \subseteq Instance /\ E \cap W = {} /\ IsFiniteSet(Instance)
  BY BoundAssumption DEF Emitters, Waiters
<1> HIDE DEF E, W
<1>2. IsFiniteSet(E) /\ IsFiniteSet(W)
  BY <1>1, FS_Subset
<1>3. Cardinality(E) \in Nat /\ Cardinality(W) \in Nat /\ Cardinality(Instance) \in Nat
  BY <1>1, <1>2, FS_CardinalityType
<1>4. Cardinality(E \cup W) = Cardinality(E) + Cardinality(W) - Cardinality(E \cap W)
  BY <1>2, FS_Union
<1>5. Cardinality(E \cap W) = 0
  BY <1>1, FS_EmptySet
<1>6. Cardinality(E \cup W) <= Cardinality(Instance)
  <2>1. E \cup W \subseteq Instance
    BY <1>1
  <2> QED
    BY <1>1, <2>1, FS_Subset
<1> QED
  BY <1>2, <1>3, <1>4, <1>5, <1>6 DEF E, W

\* A step that emits no copy of e.  Where an emitter is lost without a mark, a
\* mishap is counted; a mark of a PENDING row leaves the waiters alone.
LEMMA NoCopyAccounted ==
    ASSUME TypeOK, NEW e \in Event, Accounted(e), copies'[e] = copies[e],
           \/ row'[e] = row[e]
           \/ row[e] \in Status /\ row'[e] \in {"PROCESSED", "FAILED"}
           \/ row'[e] \notin Status,
           Mishaps' \in Nat, Mishaps' >= Mishaps,
           row'[e] = "PENDING" =>
              \/ Emitters(e)' = Emitters(e)
              \/ \E i \in Instance : Emitters(e)' = Emitters(e) \ {i} /\ Mishaps' = Mishaps + 1,
           row'[e] \in {"PROCESSED", "FAILED"} => Waiters(e)' \subseteq Waiters(e)
    PROVE  Accounted(e)'
<1> DEFINE E == Emitters(e)
           F == Emitters(e)'
           W == Waiters(e)
           V == Waiters(e)'
<1>1. /\ IsFiniteSet(E) /\ IsFiniteSet(W) /\ Cardinality(E) \in Nat /\ Cardinality(W) \in Nat
      /\ Cardinality(Instance) \in Nat /\ Cardinality(E) + Cardinality(W) <= Cardinality(Instance)
  BY InstancesCount
<1>2. copies[e] \in Nat /\ Mishaps \in Nat
  BY DEF TypeOK, Mishaps
<1>3. /\ row[e] = "PENDING" => copies[e] <= Cardinality(E) + Mishaps
      /\ row[e] \in {"PROCESSED", "FAILED"} => copies[e] + Cardinality(W) <= Cardinality(Instance) + Mishaps
  BY DEF Accounted
<1>4. row'[e] = "PENDING" => F = E \/ \E i \in Instance : F = E \ {i} /\ Mishaps' = Mishaps + 1
  OBVIOUS
<1>5. row'[e] \in {"PROCESSED", "FAILED"} => V \subseteq W
  OBVIOUS
<1> HIDE DEF E, F, W, V
<1>6. ASSUME row'[e] = "PENDING"
      PROVE  copies'[e] <= Cardinality(F) + Mishaps'
  <2>1. row[e] = "PENDING"
    BY <1>6 DEF Status
  <2>2. CASE F = E
    BY <1>1, <1>2, <1>3, <2>1, <2>2
  <2>3. ASSUME NEW i \in Instance, F = E \ {i}, Mishaps' = Mishaps + 1
        PROVE  copies'[e] <= Cardinality(F) + Mishaps'
    <3>1. Cardinality(E \ {i}) = IF i \in E THEN Cardinality(E) - 1 ELSE Cardinality(E)
      BY <1>1, FS_RemoveElement
    <3> QED
      BY <1>1, <1>2, <1>3, <2>1, <2>3, <3>1
  <2> QED
    BY <1>4, <1>6, <2>2, <2>3
<1>7. ASSUME row'[e] \in {"PROCESSED", "FAILED"}
      PROVE  copies'[e] + Cardinality(V) <= Cardinality(Instance) + Mishaps'
  <2>1. Cardinality(V) \in Nat /\ Cardinality(V) <= Cardinality(W)
    BY <1>1, <1>5, <1>7, FS_Subset, FS_CardinalityType
  <2>2. row[e] \in Status
    BY <1>7 DEF Status
  <2>3. copies[e] + Cardinality(W) <= Cardinality(Instance) + Mishaps
    <3>1. CASE row[e] = "PENDING"
      BY <1>1, <1>2, <1>3, <3>1
    <3>2. CASE row[e] \in {"PROCESSED", "FAILED"}
      BY <1>3, <3>2
    <3> QED
      BY <2>2, <3>1, <3>2 DEF Status
  <2> QED
    BY <1>1, <1>2, <2>1, <2>3
<1> QED
  BY <1>6, <1>7 DEF Accounted, F, V

LEMMA InitAccounted == Init => \A e \in Event : Accounted(e)
BY DEF Init, Accounted

LEMMA EmitAccounted ==
    ASSUME Inv, NEW e \in Event, Accounted(e), NEW i \in Instance, Emit(i)
    PROVE  Accounted(e)'
<1>0. TypeOK
  BY DEF Inv
<1>1. PICK f \in batch[i] : /\ current' = [current EXCEPT ![i] = f]
                            /\ copies' = [copies EXCEPT ![f] = @ + 1]
  BY DEF Emit
<1>2. /\ pc[i] = "emit" /\ pc' = [pc EXCEPT ![i] = "processed"] /\ current[i] = NoEvent
      /\ UNCHANGED <<row, batch, crashes, faults>>
  BY <1>0 DEF Emit, rows, TypeOK
<1>3. f \in Event /\ f # NoEvent
  BY <1>0, BoundAssumption DEF TypeOK
<1>4. /\ pc'[i] = "processed" /\ current'[i] = f
      /\ \A j \in Instance \ {i} : pc'[j] = pc[j] /\ current'[j] = current[j]
  BY <1>0, <1>1, <1>2 DEF TypeOK
<1>5. Mishaps' = Mishaps /\ Mishaps \in Nat
  BY <1>0, <1>2 DEF Mishaps, TypeOK
<1>6. CASE e # f
  <2>1. Emitters(e)' = Emitters(e)
    <3>1. \A j \in Instance : pc'[j] = "processed" /\ current'[j] = e <=> pc[j] = "processed" /\ current[j] = e
      BY <1>2, <1>4, <1>6
    <3> QED
      BY <3>1 DEF Emitters
  <2>2. Waiters(e)' = Waiters(e)
    <3>1. \A j \in Instance : e \in batch'[j] /\ current'[j] # e <=> e \in batch[j] /\ current[j] # e
      BY <1>2, <1>3, <1>4, <1>6, BoundAssumption
    <3> QED
      BY <3>1 DEF Waiters
  <2>3. copies'[e] = copies[e] /\ row'[e] = row[e]
    BY <1>0, <1>1, <1>2, <1>6 DEF TypeOK
  <2> QED
    BY <1>0, <1>5, <2>1, <2>2, <2>3, NoCopyAccounted
<1>7. CASE e = f
  <2> DEFINE E == Emitters(e)
             W == Waiters(e)
  <2>1. i \notin E /\ Emitters(e)' = E \cup {i}
    BY <1>2, <1>4, <1>7 DEF Emitters
  <2>2. i \in W /\ Waiters(e)' = W \ {i}
    BY <1>2, <1>3, <1>4, <1>7, BoundAssumption DEF Waiters
  <2>3. /\ IsFiniteSet(E) /\ IsFiniteSet(W) /\ Cardinality(E) \in Nat /\ Cardinality(W) \in Nat
        /\ Cardinality(Instance) \in Nat
    BY InstancesCount
  <2>4. /\ row[e] = "PENDING" => copies[e] <= Cardinality(E) + Mishaps
        /\ row[e] \in {"PROCESSED", "FAILED"} => copies[e] + Cardinality(W) <= Cardinality(Instance) + Mishaps
    BY DEF Accounted
  <2>5. copies'[e] = copies[e] + 1 /\ copies[e] \in Nat /\ row'[e] = row[e]
    BY <1>0, <1>1, <1>2, <1>7 DEF TypeOK
  <2> HIDE DEF E, W
  <2>6. Cardinality(E \cup {i}) = Cardinality(E) + 1
    BY <2>1, <2>3, FS_AddElement
  <2>7. Cardinality(W \ {i}) = Cardinality(W) - 1
    BY <2>2, <2>3, FS_RemoveElement
  <2>8. row'[e] = "PENDING" => copies'[e] <= Cardinality(E \cup {i}) + Mishaps'
    BY <1>5, <2>3, <2>4, <2>5, <2>6
  <2>9. row'[e] \in {"PROCESSED", "FAILED"} => copies'[e] + Cardinality(W \ {i}) <= Cardinality(Instance) + Mishaps'
    BY <1>5, <2>3, <2>4, <2>5, <2>7
  <2> QED
    BY <2>1, <2>2, <2>8, <2>9 DEF Accounted
<1> QED
  BY <1>6, <1>7

\* The steps of the services, and a poll: a row that is not PENDING is not
\* fetched, and one that was never committed has no copy.
LEMMA RowsAccounted ==
    ASSUME Inv, NEW e \in Event, Accounted(e),
           \/ \E f \in Event : Schedule(f) \/ Commit(f) \/ Undo(f)
           \/ Tick
           \/ \E i \in Instance : Poll(i)
    PROVE  Accounted(e)'
<1>0. TypeOK
  BY DEF Inv
<1>1. UNCHANGED <<current, copies, crashes, faults>>
  BY DEF Schedule, Commit, Undo, Tick, Poll, rows, loops
<1>2. Mishaps' = Mishaps /\ Mishaps \in Nat
  BY <1>0, <1>1 DEF Mishaps, TypeOK
<1>3. Emitters(e)' = Emitters(e)
  <2>1. \A i \in Instance : pc'[i] = "processed" <=> pc[i] = "processed"
    <3>1. CASE UNCHANGED pc
      BY <3>1
    <3>2. ASSUME NEW i \in Instance, Poll(i)
          PROVE  \A j \in Instance : pc'[j] = "processed" <=> pc[j] = "processed"
      BY <1>0, <3>2 DEF Poll, TypeOK
    <3> QED
      BY <3>1, <3>2 DEF Schedule, Commit, Undo, Tick, loops
  <2> QED
    BY <1>1, <2>1 DEF Emitters
<1>4. row'[e] = "PENDING" /\ row[e] # "PENDING" => row[e] \notin Status /\ copies[e] = 0
  <2>1. row'[e] = "PENDING" /\ row[e] # "PENDING" => row[e] = "open"
    BY <1>0 DEF Schedule, Commit, Undo, Tick, Poll, rows, TypeOK
  <2>2. copies[e] \in Nat /\ (copies[e] > 0 => row[e] \in Status)
    BY <1>0 DEF Inv, PublishedIsCommitted, TypeOK
  <2> QED
    BY <2>1, <2>2 DEF Status
<1>5. row'[e] \in {"PROCESSED", "FAILED"} => row[e] = row'[e] /\ Waiters(e)' = Waiters(e)
  <2>1. CASE UNCHANGED batch
    <3>1. row'[e] \in {"PROCESSED", "FAILED"} => row[e] = row'[e]
      BY <1>0 DEF Schedule, Commit, Undo, Tick, Poll, rows, TypeOK
    <3> QED
      BY <1>1, <2>1, <3>1 DEF Waiters
  <2>2. ASSUME NEW i \in Instance, Poll(i), row'[e] \in {"PROCESSED", "FAILED"}
        PROVE  row[e] = row'[e] /\ Waiters(e)' = Waiters(e)
    <3>1. PICK S \in SUBSET Pending : batch' = [batch EXCEPT ![i] = S]
      BY <2>2 DEF Poll
    <3>2. row' = row /\ pc[i] = "idle" /\ batch[i] = {}
      BY <1>0, <2>2 DEF Poll, rows, TypeOK
    <3>3. e \notin S
      BY <2>2, <3>2 DEF Pending
    <3>4. \A j \in Instance : e \in batch'[j] <=> e \in batch[j]
      BY <1>0, <3>1, <3>2, <3>3 DEF TypeOK
    <3> QED
      BY <1>1, <3>2, <3>4 DEF Waiters
  <2> QED
    BY <2>1, <2>2 DEF Schedule, Commit, Undo, Tick, loops
<1>6. CASE row'[e] = "PENDING" /\ row[e] # "PENDING"
  <2>1. Cardinality(Emitters(e)) \in Nat
    BY InstancesCount
  <2>2. copies'[e] = 0 /\ copies'[e] <= Cardinality(Emitters(e)) + Mishaps
    BY <1>1, <1>2, <1>4, <1>6, <2>1
  <2> QED
    BY <1>2, <1>3, <1>6, <2>2 DEF Accounted
<1>7. CASE ~(row'[e] = "PENDING" /\ row[e] # "PENDING")
  <2>1. row'[e] = row[e] \/ row'[e] \notin Status
    BY <1>5, <1>7 DEF Status
  <2>2. copies'[e] = copies[e] /\ Mishaps' \in Nat /\ Mishaps' >= Mishaps
    BY <1>1, <1>2
  <2> QED
    BY <1>0, <1>3, <1>5, <2>1, <2>2, NoCopyAccounted
<1> QED
  BY <1>6, <1>7

\* The marks, the errors and the crashes.
LEMMA MarksAccounted ==
    ASSUME Inv, NEW e \in Event, Accounted(e), NEW i \in Instance,
           MarkProcessed(i) \/ ProcessedFails(i) \/ MarkFailed(i) \/ FailedFails(i) \/ Crash(i)
    PROVE  Accounted(e)'
<1>0. TypeOK
  BY DEF Inv
<1> DEFINE c == current[i]
<1>1. copies' = copies /\ Mishaps \in Nat
  BY <1>0 DEF MarkProcessed, ProcessedFails, MarkFailed, FailedFails, Crash, TypeOK, Mishaps
<1>2. /\ Mishaps' \in Nat /\ Mishaps' >= Mishaps
      /\ ProcessedFails(i) \/ Crash(i) => Mishaps' = Mishaps + 1
  BY <1>0 DEF MarkProcessed, ProcessedFails, MarkFailed, FailedFails, Crash, TypeOK, Mishaps
<1>3. c # NoEvent => c \in Event /\ row[c] \in Status
  BY <1>0 DEF Inv, HeldIsCommitted, TypeOK
<1>4. /\ row' = row \/ (c # NoEvent /\ \E s \in {"PROCESSED", "FAILED"} : row' = [row EXCEPT ![c] = s])
      /\ MarkProcessed(i) => row'[c] = "PROCESSED"
      /\ MarkFailed(i) => row'[c] = "FAILED"
  <2>1. CASE MarkProcessed(i)
    BY <1>0, <1>3, <2>1 DEF MarkProcessed, MarkFailed, Mark, TypeOK
  <2>2. CASE ProcessedFails(i)
    BY <1>0, <1>3, <2>2 DEF MarkProcessed, ProcessedFails, MarkFailed, Mark, TypeOK
  <2>3. CASE MarkFailed(i)
    BY <1>0, <1>3, <2>3 DEF MarkProcessed, MarkFailed, Mark, TypeOK
  <2>4. CASE FailedFails(i)
    BY <1>0, <1>3, <2>4 DEF MarkProcessed, MarkFailed, FailedFails, Mark, TypeOK
  <2>5. CASE Crash(i) /\ ~MarkProcessed(i) /\ ~MarkFailed(i)
    BY <2>5 DEF Crash, rows
  <2> QED
    BY <2>1, <2>2, <2>3, <2>4, <2>5
<1>5. row'[e] = row[e] \/ (row[e] \in Status /\ row'[e] \in {"PROCESSED", "FAILED"})
  BY <1>0, <1>3, <1>4 DEF TypeOK
<1>6. \A j \in Instance \ {i} : pc'[j] = pc[j] /\ current'[j] = current[j] /\ batch'[j] = batch[j]
  BY <1>0 DEF MarkProcessed, ProcessedFails, MarkFailed, FailedFails, Crash, NextRow, Leave, TypeOK
<1>7. pc'[i] # "processed"
  BY <1>0 DEF MarkProcessed, ProcessedFails, MarkFailed, FailedFails, Crash, NextRow, Leave, TypeOK
<1>8. Emitters(e)' = Emitters(e) \ {i}
  BY <1>6, <1>7 DEF Emitters
<1>9. ASSUME row'[e] = "PENDING"
      PROVE  \/ Emitters(e)' = Emitters(e)
             \/ \E j \in Instance : Emitters(e)' = Emitters(e) \ {j} /\ Mishaps' = Mishaps + 1
  <2>1. CASE ProcessedFails(i) \/ Crash(i)
    BY <1>2, <1>8, <2>1
  <2>2. CASE MarkProcessed(i) \/ MarkFailed(i)
    <3>1. e # c
      BY <1>4, <1>9, <2>2
    <3> QED
      BY <1>8, <3>1 DEF Emitters
  <2>3. CASE FailedFails(i)
    <3>1. pc[i] = "failed"
      BY <2>3 DEF FailedFails
    <3> QED
      BY <1>8, <3>1 DEF Emitters
  <2> QED
    BY <2>1, <2>2, <2>3
<1>10. Waiters(e)' \subseteq Waiters(e)
  <2>1. \/ batch'[i] = batch[i] /\ current'[i] = current[i]
        \/ batch'[i] = batch[i] \ {c} \/ batch'[i] = {}
    <3>1. CASE MarkProcessed(i) \/ MarkFailed(i)
      BY <1>0, <3>1 DEF MarkProcessed, MarkFailed, NextRow, TypeOK
    <3>2. CASE ProcessedFails(i)
      BY <3>2 DEF ProcessedFails
    <3>3. CASE FailedFails(i) \/ Crash(i)
      BY <1>0, <3>3 DEF FailedFails, Crash, Leave, TypeOK
    <3> QED
      BY <3>1, <3>2, <3>3
  <2> QED
    BY <1>6, <2>1 DEF Waiters
<1> QED
  BY <1>0, <1>1, <1>2, <1>5, <1>9, <1>10, NoCopyAccounted

LEMMA NextAccounted ==
    Inv /\ (\A e \in Event : Accounted(e)) /\ [Next]_vars => (\A e \in Event : Accounted(e))'
<1> SUFFICES ASSUME Inv, [Next]_vars, NEW e \in Event, Accounted(e)
             PROVE  Accounted(e)'
  OBVIOUS
<1>1. CASE UNCHANGED vars
  BY <1>1 DEF vars, Accounted, Emitters, Waiters, Mishaps
<1>2. CASE Next
  BY <1>2, EmitAccounted, RowsAccounted, MarksAccounted DEF Next, Process
<1> QED
  BY <1>1, <1>2

\* An event goes out at most once per instance, and once more per crash and per
\* database error, however many instances poll one table without a lock.
THEOREM FewDuplicates == Spec => []DuplicatesNeedAFault
<1>1. Inv /\ (\A e \in Event : Accounted(e)) => DuplicatesNeedAFault
  <2> SUFFICES ASSUME Inv, NEW e \in Event, Accounted(e)
               PROVE  copies[e] <= Cardinality(Instance) + crashes + faults
    BY DEF DuplicatesNeedAFault
  <2>1. /\ Cardinality(Emitters(e)) \in Nat /\ Cardinality(Waiters(e)) \in Nat /\ Cardinality(Instance) \in Nat
        /\ Cardinality(Emitters(e)) + Cardinality(Waiters(e)) <= Cardinality(Instance)
    BY InstancesCount
  <2>2. crashes \in Nat /\ faults \in Nat /\ copies[e] \in Nat /\ (copies[e] > 0 => row[e] \in Status)
    BY DEF Inv, TypeOK, PublishedIsCommitted
  <2>3. /\ row[e] = "PENDING" => copies[e] <= Cardinality(Emitters(e)) + (crashes + faults)
        /\ row[e] \in {"PROCESSED", "FAILED"} =>
              copies[e] + Cardinality(Waiters(e)) <= Cardinality(Instance) + (crashes + faults)
    BY DEF Accounted, Mishaps
  <2>4. CASE row[e] = "PENDING"
    BY <2>1, <2>2, <2>3, <2>4
  <2>5. CASE row[e] \in {"PROCESSED", "FAILED"}
    BY <2>1, <2>2, <2>3, <2>5
  <2>6. CASE row[e] \notin Status
    BY <2>1, <2>2, <2>6
  <2> QED
    BY <2>4, <2>5, <2>6 DEF Status
<1> QED
  BY <1>1, InitAccounted, InvHolds, NextAccounted, PTL DEF Spec
=============================================================================

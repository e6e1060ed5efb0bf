------------------------------- MODULE Outbox -------------------------------
(***************************************************************************)
(* The transactional outbox: OutboxService.schedule writes an OutboxEvent   *)
(* row in the caller's transaction, and the OutboxProcessor of every        *)
(* application instance polls the PENDING rows, emits them on its           *)
(* in-process EventBus and marks them.                                      *)
(*                                                                          *)
(* A poll sees committed rows only (READ COMMITTED).  createdAt is the      *)
(* millisecond of the INSERT, not of the commit, so a row may become        *)
(* visible after a younger one.  Emitting a row and marking it are two      *)
(* steps, between which an instance may crash and restart, other instances  *)
(* run, and a database call may fail: without effect, or with its effect    *)
(* and only the answer lost.  No listener is registered in this repository, *)
(* so emit itself does not throw and every FAILED row is one whose          *)
(* PROCESSED update reported an error.                                      *)
(***************************************************************************)
EXTENDS Integers, FiniteSets

CONSTANTS
    Event,        \* the events of one run, each scheduled by its own transaction
    Instance,     \* application instances, each with its processor
    Take,         \* rows a poll fetches at most (50 in the code)
    MaxTime,      \* bound: milliseconds the clock advances
    MaxCrashes,   \* bound: instance crashes
    MaxFaults,    \* bound: database calls that report an error
    NoEvent

ASSUME BoundAssumption ==
    /\ Take \in Nat \ {0}
    /\ MaxTime \in Nat /\ MaxCrashes \in Nat /\ MaxFaults \in Nat
    /\ IsFiniteSet(Instance)
    /\ NoEvent \notin Event

VARIABLES
    row,        \* the row of each event; open: written, not committed
    createdAt,  \* its createdAt column
    committed,  \* when its transaction committed (0: it has not)
    now,        \* the clock
    pc,         \* where the processor of each instance is; idle: ~isProcessing
    batch,      \* rows its poll fetched and its loop has not finished
    current,    \* the row it has emitted and not yet marked
    copies,     \* how often each event was emitted
    crashes,    \* crashes so far
    faults      \* database errors so far

vars == <<row, createdAt, committed, now, pc, batch, current, copies, crashes, faults>>
rows == <<row, createdAt, committed>>
loops == <<pc, batch, current>>

Status == {"PENDING", "PROCESSED", "FAILED"}

TypeOK ==
    /\ row \in [Event -> {"absent", "open", "undone"} \cup Status]
    /\ createdAt \in [Event -> Nat]
    /\ committed \in [Event -> Nat]
    /\ now \in Nat \ {0}
    /\ pc \in [Instance -> {"idle", "emit", "processed", "failed"}]
    /\ batch \in [Instance -> SUBSET Event]
    /\ current \in [Instance -> Event \cup {NoEvent}]
    /\ copies \in [Event -> Nat]
    /\ crashes \in Nat
    /\ faults \in Nat
    /\ \A i \in Instance :
          /\ pc[i] = "idle" <=> batch[i] = {}
          /\ pc[i] \in {"processed", "failed"} <=> current[i] # NoEvent
          /\ current[i] # NoEvent => current[i] \in batch[i]

Init ==
    /\ row = [e \in Event |-> "absent"]
    /\ createdAt = [e \in Event |-> 0]
    /\ committed = [e \in Event |-> 0]
    /\ now = 1
    /\ pc = [i \in Instance |-> "idle"]
    /\ batch = [i \in Instance |-> {}]
    /\ current = [i \in Instance |-> NoEvent]
    /\ copies = [e \in Event |-> 0]
    /\ crashes = 0
    /\ faults = 0

-----------------------------------------------------------------------------
(* The services that schedule events.                                       *)

\* The mutant: schedule through the service's own connection, not the caller's tx.
ScheduleOutsideTransaction(e) ==
    /\ row[e] = "absent"
    /\ row' = [row EXCEPT ![e] = "PENDING"]
    /\ createdAt' = [createdAt EXCEPT ![e] = now]
    /\ UNCHANGED <<committed, now, loops, copies, crashes, faults>>

\* OutboxService.schedule inside a business transaction.
Schedule(e) ==
    /\ row[e] = "absent"
    /\ row' = [row EXCEPT ![e] = "open"]
    /\ createdAt' = [createdAt EXCEPT ![e] = now]
    /\ UNCHANGED <<committed, now, loops, copies, crashes, faults>>

\* That transaction commits...
Commit(e) ==
    /\ row[e] = "open"
    /\ row' = [row EXCEPT ![e] = "PENDING"]
    /\ committed' = [committed EXCEPT ![e] = now]
    /\ UNCHANGED <<createdAt, now, loops, copies, crashes, faults>>

\* ... or rolls back, and the row with it.
Undo(e) ==
    /\ row[e] = "open"
    /\ row' = [row EXCEPT ![e] = "undone"]
    /\ UNCHANGED <<createdAt, committed, now, loops, copies, crashes, faults>>

Tick ==
    /\ now <= MaxTime
    /\ now' = now + 1
    /\ UNCHANGED <<rows, loops, copies, crashes, faults>>

-----------------------------------------------------------------------------
(* OutboxProcessor.process.                                                 *)

Pending == {e \in Event : row[e] = "PENDING"}

\* The mutant: findMany without orderBy.
FetchesUnordered(S) ==
    /\ S \subseteq Pending
    /\ Cardinality(S) <= Take
    /\ S # Pending => Cardinality(S) = Take

\* What findMany may return: the Take oldest PENDING rows; rows created in the
\* same millisecond come in any order.
Fetches(S) ==
    /\ S \subseteq Pending
    /\ Cardinality(S) <= Take
    /\ \A e \in S, f \in Pending \ S : createdAt[e] <= createdAt[f]
    /\ S # Pending => Cardinality(S) = Take

\* The mutant: the poll marks what it fetches, so that no other instance takes it.
PollClaiming(i) ==
    /\ pc[i] = "idle"
    /\ \E S \in SUBSET Pending :
          /\ S # {}
          /\ Fetches(S)
          /\ batch' = [batch EXCEPT ![i] = S]
          /\ row' = [e \in Event |-> IF e \in S THEN "PROCESSED" ELSE row[e]]
    /\ pc' = [pc EXCEPT ![i] = "emit"]
    /\ UNCHANGED <<createdAt, committed, now, current, copies, crashes, faults>>

\* The cron job fires: a run still in progress (isProcessing) makes it return.
Poll(i) ==
    /\ pc[i] = "idle"
    /\ \E S \in SUBSET Pending :
          /\ S # {}
          /\ Fetches(S)
          /\ batch' = [batch EXCEPT ![i] = S]
    /\ pc' = [pc EXCEPT ![i] = "emit"]
    /\ UNCHANGED <<rows, now, current, copies, crashes, faults>>

\* eventBus.emit of the next row in the order of the fetch.
Emit(i) ==
    /\ pc[i] = "emit"
    /\ \E e \in batch[i] :
          /\ \A f \in batch[i] : createdAt[e] <= createdAt[f]
          /\ current' = [current EXCEPT ![i] = e]
          /\ copies' = [copies EXCEPT ![e] = @ + 1]
    /\ pc' = [pc EXCEPT ![i] = "processed"]
    /\ UNCHANGED <<rows, now, batch, crashes, faults>>

\* The loop goes on to the next row, or ends and isProcessing is reset.
NextRow(i) ==
    /\ batch' = [batch EXCEPT ![i] = @ \ {current[i]}]
    /\ current' = [current EXCEPT ![i] = NoEvent]
    /\ pc' = [pc EXCEPT ![i] = IF batch[i] = {current[i]} THEN "idle" ELSE "emit"]

\* The mutant: isProcessing is reset, the fetched rows stay behind.
LeaveKeepingBatch(i) ==
    /\ UNCHANGED batch
    /\ current' = [current EXCEPT ![i] = NoEvent]
    /\ pc' = [pc EXCEPT ![i] = "idle"]

\* The loop is left: isProcessing is reset, the fetched rows are forgotten.
Leave(i) ==
    /\ batch' = [batch EXCEPT ![i] = {}]
    /\ current' = [current EXCEPT ![i] = NoEvent]
    /\ pc' = [pc EXCEPT ![i] = "idle"]

\* The mutant: the failure path puts the row back for another try, whatever
\* another instance made of it.
MarkForRetry(e, status) ==
    row' = [row EXCEPT ![e] = IF status = "FAILED" THEN "PENDING" ELSE status]

Mark(e, status) == row' = [row EXCEPT ![e] = status]

\* The update to PROCESSED succeeds.
MarkProcessed(i) ==
    /\ pc[i] = "processed"
    /\ Mark(current[i], "PROCESSED")
    /\ NextRow(i)
    /\ UNCHANGED <<createdAt, committed, now, copies, crashes, faults>>

\* It reports an error, with or without effect: the catch branch follows.
ProcessedFails(i) ==
    /\ pc[i] = "processed"
    /\ faults < MaxFaults
    /\ faults' = faults + 1
    /\ \/ UNCHANGED row
       \/ Mark(current[i], "PROCESSED")
    /\ pc' = [pc EXCEPT ![i] = "failed"]
    /\ UNCHANGED <<createdAt, committed, now, batch, current, copies, crashes>>

\* The catch branch marks the row FAILED.
MarkFailed(i) ==
    /\ pc[i] = "failed"
    /\ Mark(current[i], "FAILED")
    /\ NextRow(i)
    /\ UNCHANGED <<createdAt, committed, now, copies, crashes, faults>>

\* That update reports an error too: the outer catch leaves the loop.
FailedFails(i) ==
    /\ pc[i] = "failed"
    /\ faults < MaxFaults
    /\ faults' = faults + 1
    /\ \/ UNCHANGED row
       \/ Mark(current[i], "FAILED")
    /\ Leave(i)
    /\ UNCHANGED <<createdAt, committed, now, copies, crashes>>

\* The instance crashes and restarts: what it held in memory is gone.
Crash(i) ==
    /\ pc[i] # "idle"
    /\ crashes < MaxCrashes
    /\ crashes' = crashes + 1
    /\ Leave(i)
    /\ UNCHANGED <<rows, now, copies, faults>>

Process(i) ==
    Poll(i) \/ Emit(i) \/ MarkProcessed(i) \/ ProcessedFails(i) \/ MarkFailed(i) \/ FailedFails(i)

Next ==
    \/ \E e \in Event : Schedule(e) \/ Commit(e) \/ Undo(e)
    \/ Tick
    \/ \E i \in Instance : Process(i) \/ Crash(i)

Spec == Init /\ [][Next]_vars

\* The cron job keeps firing on every instance and a database call returns:
\* nothing is assumed of transactions, which may stay open, nor of the clock.
FairSpec == Spec /\ \A i \in Instance : WF_vars(Process(i))

-----------------------------------------------------------------------------
(* Properties.                                                              *)

\* No event of a transaction that is still open or was rolled back is ever
\* published or marked: a processor only sees committed rows
\* (outbox.service.ts:7-8, "events are only emitted if the database
\* transaction succeeds").
OnlyCommittedPublished ==
    \A e \in Event : copies[e] > 0 \/ row[e] \in Status => committed[e] > 0

\* A row that left PENDING was published: neither a crash, nor a failing or
\* half-acknowledged update, nor another instance marks a row nobody emitted.
MarkedWasPublished ==
    \A e \in Event : row[e] \in {"PROCESSED", "FAILED"} => copies[e] > 0

\* Events are published in order: when the first copy of an event goes out, so
\* have all events committed in an earlier millisecond than it was created,
\* however polls of several instances, crashes and errors interleave and
\* however few rows a poll takes.
PublishedInOrder ==
    \A e, f \in Event :
        copies[f] > 0 /\ committed[e] > 0 /\ committed[e] < createdAt[f] => copies[e] > 0

\* An event goes out once per instance at most, and once more per crash or
\* database error: a marked row is never fetched again.
DuplicatesNeedAFault ==
    \A e \in Event : copies[e] <= Cardinality(Instance) + crashes + faults

\* The outbox keeps the promise of EventDelivery, at-least-once delivery
\* (TechnicalDocumentation.md:560) included, across crashes, database errors
\* and competing instances.
Delivery == INSTANCE EventDelivery WITH
    stage <- [e \in Event |->
                IF copies[e] > 0 THEN "published"
                ELSE IF row[e] \in Status THEN "due" ELSE "none"]
KeepsPromise == Delivery!Spec
=============================================================================

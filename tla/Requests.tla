------------------------------ MODULE Requests ------------------------------
(***************************************************************************)
(* HTTP requests as the back-office components see them.  A client sends a *)
(* request to an idle worker (one promise chain of the Node process); the  *)
(* worker reads what the handler reads before it decides, one statement or *)
(* transaction a step, and answers.  Between two steps of a worker the     *)
(* other workers run, so what a handler has seen may be out of date when   *)
(* it writes.  A transaction (READ COMMITTED, PostgreSQL's default) is one *)
(* step at its commit: its writes become visible there together, and the   *)
(* row a version check has matched stays locked until then.                *)
(***************************************************************************)
EXTENDS Integers, FiniteSetsExt, Sequences

CONSTANTS
    Worker,      \* requests that may be in progress at once
    Request,     \* the calls clients may make; two of one kind differ in `by`
    Batches,     \* sets of calls that may be made together
    NoRequest,   \* the worker is idle
    Unread       \* the worker has read nothing yet

ASSUME RequestsAssumption ==
    /\ NoRequest \notin Request
    /\ Batches \subseteq SUBSET Request

VARIABLES
    todo,   \* calls not made yet
    pc,     \* where each worker is
    job,    \* the call it executes
    saw     \* what the handler has read so far

requests == <<todo, pc, job, saw>>

Job == Request \cup {NoRequest}
Step == {"idle", "read", "check", "ask", "write", "next", "then", "finish", "commit"}

RequestsTypeOK ==
    /\ todo \subseteq Request
    /\ pc \in [Worker -> Step]
    /\ job \in [Worker -> Job]
    /\ \A w \in Worker : pc[w] = "idle" <=> job[w] = NoRequest
    /\ \A w \in Worker : pc[w] \in {"idle", "read"} => saw[w] = Unread

RequestsInit ==
    /\ todo \in Batches
    /\ pc = [w \in Worker |-> "idle"]
    /\ job = [w \in Worker |-> NoRequest]
    /\ saw = [w \in Worker |-> Unread]

\* A client makes a call.
Send(w, r) ==
    /\ pc[w] = "idle"
    /\ r \in todo
    /\ todo' = todo \ {r}
    /\ job' = [job EXCEPT ![w] = r]
    /\ pc' = [pc EXCEPT ![w] = "read"]
    /\ UNCHANGED saw

\* The handler of w is at step `step` of operation `op`.
At(w, op, step) == pc[w] = step /\ job[w].op = op

\* The handler has read `what` and goes on ...
See(w, what, step) ==
    /\ saw' = [saw EXCEPT ![w] = what]
    /\ pc' = [pc EXCEPT ![w] = step]
    /\ UNCHANGED <<todo, job>>

\* ... goes on with what it knows ...
Goto(w, step) ==
    /\ pc' = [pc EXCEPT ![w] = step]
    /\ UNCHANGED <<todo, job, saw>>

\* ... or returns or throws: the request is over.
Answer(w) ==
    /\ pc' = [pc EXCEPT ![w] = "idle"]
    /\ job' = [job EXCEPT ![w] = NoRequest]
    /\ saw' = [saw EXCEPT ![w] = Unread]
    /\ UNCHANGED todo

\* A check on what was read: go on, or throw.
SeeIf(w, ok, what, step) == IF ok THEN See(w, what, step) ELSE Answer(w)

\* Nothing is in progress and nothing is left to send.
Quiet == todo = {} /\ \A w \in Worker : pc[w] = "idle"
=============================================================================

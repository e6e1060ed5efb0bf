----------------------------- MODULE Idempotency -----------------------------
(***************************************************************************)
(* IdempotencyMiddleware around the handler of a write.  A record claims   *)
(* the key before the handler runs and keeps its answer for the retries.   *)
(* The answer is stored, and the claim of a failed request dropped, by     *)
(* statements nobody waits for: they run some time after the client has    *)
(* its answer, in any order, and not at all when the process dies.         *)
(***************************************************************************)
EXTENDS Requests

CONSTANTS
    Key,        \* idempotency keys of one tenant
    NoRecord

\* 0 while in flight; the handler answers 2xx, 4xx or 5xx.
HttpStatus == {0, 200, 400, 500}
RecordRow == [id: Nat, status: HttpStatus, expired: BOOLEAN]

\* A call tells its key, whether the middleware could tell its tenant, and
\* whether its answer is an object (sent with res.json) or not.
ASSUME IdempotencyAssumption ==
    /\ NoRecord \notin RecordRow
    /\ \A r \in Request : r.op = "WRITE" =>
          r \in [op: {"WRITE"}, key: Key, tenantKnown: BOOLEAN, json: BOOLEAN, by: Nat]

VARIABLES
    record,     \* the IdempotencyRecord of each key
    lastId,     \* the last record id given out
    loose,      \* statements issued and not yet executed
    effects,    \* per key, how often the handler's effect was committed
    failures,   \* and how often it answered 5xx
    answered,   \* and the statuses it has answered
    replayed,   \* and the statuses that were replayed
    unguarded   \* keys whose claim expired, or that ran without a claim

idempotency == <<record, lastId, loose, effects, failures, answered, replayed, unguarded>>

Statement == [do: {"store"}, key: Key, status: HttpStatus] \cup [do: {"drop"}, key: Key]

IdempotencyTypeOK ==
    /\ record \in [Key -> RecordRow \cup {NoRecord}] /\ lastId \in Nat
    /\ \A s \in loose : s \in Statement
    /\ effects \in [Key -> Nat] /\ failures \in [Key -> Nat]
    /\ answered \in [Key -> SUBSET HttpStatus] /\ replayed \in [Key -> SUBSET HttpStatus]
    /\ unguarded \subseteq Key

IdempotencyInit ==
    /\ record = [k \in Key |-> NoRecord] /\ lastId = 0 /\ loose = {}
    /\ effects = [k \in Key |-> 0] /\ failures = [k \in Key |-> 0]
    /\ answered = [k \in Key |-> {}] /\ replayed = [k \in Key |-> {}]
    /\ unguarded = {}

KeyOf(w) == job[w].key
keyHistory == <<effects, failures, answered, replayed>>

\* A create that would replace the record.
Claimable(k) == TRUE

\* The unique index on tenant and key lets a create through.
Unclaimed(k) == record[k] = NoRecord

InFlight(row) == row.status = 0

\* The look-up: no key of a tenant, no protection; an expired record is to be
\* deleted, one in flight refuses, any other is replayed.
LookUp(w) ==
    LET k == KeyOf(w)
        row == record[k] IN
    /\ At(w, "WRITE", "read")
    /\ \/ /\ ~ job[w].tenantKnown
          /\ unguarded' = unguarded \cup {k}
          /\ See(w, FALSE, "write") /\ UNCHANGED replayed
       \/ /\ job[w].tenantKnown /\ row = NoRecord
          /\ Goto(w, "ask") /\ UNCHANGED <<replayed, unguarded>>
       \/ /\ job[w].tenantKnown /\ row # NoRecord /\ row.expired
          /\ See(w, row.id, "check") /\ UNCHANGED <<replayed, unguarded>>
       \/ /\ job[w].tenantKnown /\ row # NoRecord /\ ~ row.expired /\ InFlight(row)
          /\ Answer(w) /\ UNCHANGED <<replayed, unguarded>>
       \/ /\ job[w].tenantKnown /\ row # NoRecord /\ ~ row.expired /\ ~ InFlight(row)
          /\ replayed' = [replayed EXCEPT ![k] = @ \cup {row.status}]
          /\ Answer(w) /\ UNCHANGED unguarded
    /\ UNCHANGED <<record, lastId, loose, effects, failures, answered>>

\* delete where id; when the row is gone already it throws, and the catch
\* lets the request through.
DeleteExpired(w) ==
    LET k == KeyOf(w) IN
    /\ At(w, "WRITE", "check")
    /\ IF record[k] # NoRecord /\ record[k].id = saw[w]
       THEN /\ record' = [record EXCEPT ![k] = NoRecord]
            /\ Goto(w, "ask") /\ UNCHANGED unguarded
       ELSE /\ unguarded' = unguarded \cup {k}
            /\ See(w, FALSE, "write") /\ UNCHANGED record
    /\ UNCHANGED <<lastId, loose, keyHistory>>

\* The claim; the unique index on tenant and key refuses a second one (409).
Claim(w) ==
    LET k == KeyOf(w) IN
    /\ At(w, "WRITE", "ask")
    /\ IF Unclaimed(k)
       THEN /\ record' = [record EXCEPT ![k] = [id |-> lastId + 1, status |-> 0, expired |-> FALSE]]
            /\ lastId' = lastId + 1
            /\ See(w, TRUE, "write")
       ELSE Answer(w) /\ UNCHANGED <<record, lastId>>
    /\ UNCHANGED <<loose, keyHistory, unguarded>>

\* The middleware's own statement fails other than by a conflict, and the
\* request goes on without a claim.
LetThrough(w) ==
    /\ At(w, "WRITE", "ask")
    /\ unguarded' = unguarded \cup {KeyOf(w)}
    /\ See(w, FALSE, "write")
    /\ UNCHANGED <<record, lastId, loose, keyHistory>>

\* What the middleware's hooks issue when a claimed request is answered.
Hooks(w, status) ==
    (IF job[w].json THEN {[do |-> "store", key |-> KeyOf(w), status |-> status]} ELSE {})
    \cup (IF status = 500 THEN {[do |-> "drop", key |-> KeyOf(w)]} ELSE {})

\* The handler commits its effect ...
Effect(w) ==
    /\ At(w, "WRITE", "write")
    /\ effects' = [effects EXCEPT ![KeyOf(w)] = @ + 1]
    /\ Goto(w, "finish")
    /\ UNCHANGED <<record, lastId, loose, failures, answered, replayed, unguarded>>

\* ... and answers: 4xx before the effect, 2xx after it, 5xx any time.
Respond(w) ==
    LET k == KeyOf(w) IN
    /\ \E status \in HttpStatus \ {0} :
          /\ \/ At(w, "WRITE", "write") /\ status # 200
             \/ At(w, "WRITE", "finish") /\ status # 400
          /\ failures' = [failures EXCEPT ![k] = @ + (IF status = 500 THEN 1 ELSE 0)]
          /\ answered' = [answered EXCEPT ![k] = @ \cup {status}]
          /\ loose' = loose \cup (IF saw[w] THEN Hooks(w, status) ELSE {})
    /\ Answer(w)
    /\ UNCHANGED <<record, lastId, effects, replayed, unguarded>>

\* A statement nobody waited for reaches the database; an update of a row
\* that is gone throws, and the error is logged.
Execute(s) ==
    /\ loose' = loose \ {s}
    /\ record' = IF record[s.key] = NoRecord THEN record
                 ELSE [record EXCEPT ![s.key] =
                          IF s.do = "drop" THEN NoRecord ELSE [@ EXCEPT !.status = s.status]]
    /\ UNCHANGED <<requests, lastId, keyHistory, unguarded>>

\* The process dies, with every request in it.
ProcessDies ==
    /\ \E w \in Worker : pc[w] # "idle" /\ job[w].op = "WRITE"
    /\ pc' = [w \in Worker |-> "idle"]
    /\ job' = [w \in Worker |-> NoRequest]
    /\ saw' = [w \in Worker |-> Unread]
    /\ loose' = {}
    /\ UNCHANGED <<todo, record, lastId, keyHistory, unguarded>>

\* 24 hours pass: nothing of the claim is still under way.
Expires(k) ==
    /\ record[k] # NoRecord /\ ~ record[k].expired
    /\ \A s \in loose : s.key # k
    /\ \A w \in Worker : pc[w] = "idle"
    /\ record' = [record EXCEPT ![k].expired = TRUE]
    /\ unguarded' = unguarded \cup {k}
    /\ UNCHANGED <<requests, lastId, loose, keyHistory>>

IdempotencyStep(w) ==
    LookUp(w) \/ DeleteExpired(w) \/ Claim(w) \/ LetThrough(w)
    \/ Effect(w) \/ Respond(w)

IdempotencyWorld ==
    \/ \E s \in loose : Execute(s)
    \/ \E k \in Key : Expires(k)
    \/ ProcessDies

-----------------------------------------------------------------------------
Running(w, k) == pc[w] \in {"write", "finish"} /\ job[w].op = "WRITE" /\ KeyOf(w) = k

\* LAW-05 as far as the middleware keeps it: while a key's requests are all
\* claimed and no claim expires, two of them never run at once, and the effect
\* happens again only after an answer of 5xx, which gives the key free.
OneExecutionPerClaim ==
    \A k \in Key \ unguarded :
        /\ \A v, w \in Worker : Running(v, k) /\ Running(w, k) => v = w
        /\ effects[k] <= 1 + failures[k]

\* A retry is only ever answered with an answer the handler has given under
\* that key, and with a success only after the effect, expiry and lost claims
\* notwithstanding.
ReplaysWereAnswered ==
    \A k \in Key : /\ replayed[k] \subseteq answered[k]
                   /\ 200 \in replayed[k] => effects[k] > 0

\* What a client may rely on when it repeats a request under its key.
KeyIsKept == OneExecutionPerClaim /\ ReplaysWereAnswered
=============================================================================

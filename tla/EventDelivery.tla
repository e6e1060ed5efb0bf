--------------------------- MODULE EventDelivery ---------------------------
(***************************************************************************)
(* What the transactional outbox promises the services that schedule events *)
(* (docs/TechnicalDocumentation.md, 7.5 Guarantees): an event becomes due   *)
(* when the business transaction that scheduled it commits, is never        *)
(* published otherwise, and is published at least once.  Publishing again   *)
(* what was published is a stutter here: consumers must be idempotent.      *)
(***************************************************************************)
CONSTANT Event

VARIABLE stage    \* where each event is: not promised, due or published

Init == stage = [e \in Event |-> "none"]

Accept(e) ==
    /\ stage[e] = "none"
    /\ stage' = [stage EXCEPT ![e] = "due"]

Publish(e) ==
    /\ stage[e] = "due"
    /\ stage' = [stage EXCEPT ![e] = "published"]

Next == \E e \in Event : Accept(e) \/ Publish(e)

SafeSpec == Init /\ [][Next]_stage

Spec == SafeSpec /\ \A e \in Event : WF_stage(Publish(e))
=============================================================================

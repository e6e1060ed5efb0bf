---------------------------- MODULE Substitutions ----------------------------
(***************************************************************************)
(* Another part for one that is short (SubstitutionService), beside the    *)
(* picker who goes on recording what he finds (PicklistsService.pickItem). *)
(* The customer's portal decides on rows of another table, which nothing   *)
(* creates; its handlers never run.  One order line per item of the list.  *)
(***************************************************************************)
EXTENDS Requests

CONSTANTS
    PickItem,      \* items of pick lists
    SparePart,
    PartOf,        \* per item, the part that was ordered
    Needed,        \* and how many of it
    AgreedPrice,   \* at which price
    Price,         \* selling price of each part at the branch
    Available      \* per part, quantity less allocated

SubstitutionOp == {"SUGGEST", "APPROVE_SUB", "REJECT_SUB"}
PickOp == {"PICK"}

Pickable == [part: SparePart, picked: Nat, status: {"PENDING", "PICKED", "SHORTAGE"}]
Proposal == [part: SparePart, delta: Int, status: {"PENDING", "APPROVED", "REJECTED"}, version: Nat]
OrderLine == [part: SparePart, price: Nat]

ASSUME SubstitutionAssumption ==
    /\ Unread \notin Proposal
    /\ PartOf \in [PickItem -> SparePart] /\ Needed \in [PickItem -> Nat \ {0}]
    /\ AgreedPrice \in [PickItem -> Nat]
    /\ Price \in [SparePart -> Nat \ {0}] /\ Available \in [SparePart -> Nat]
    /\ \A r \in Request :
        /\ r.op \in SubstitutionOp => r \in [op: SubstitutionOp, item: PickItem, part: SparePart, by: Nat]
        /\ r.op \in PickOp => r \in [op: PickOp, item: PickItem, picked: Nat, by: Nat]

VARIABLES
    picking,     \* items of the pick lists
    proposal,    \* per item, its shortage_substitutions row
    line,        \* per item, the order line it was made for
    agreed       \* warehouse.substitution.approved events, per item

substitutions == <<picking, proposal, line, agreed>>

SubstitutionTypeOK ==
    /\ picking \in [PickItem -> Pickable]
    /\ proposal \in [PickItem -> Proposal \cup {Unread}]
    /\ line \in [PickItem -> OrderLine] /\ agreed \in [PickItem -> Nat]

AsOrdered(i) == [part |-> PartOf[i], price |-> AgreedPrice[i]]

SubstitutionInit ==
    /\ picking = [i \in PickItem |-> [part |-> PartOf[i], picked |-> 0, status |-> "PENDING"]]
    /\ proposal = [i \in PickItem |-> Unread]
    /\ line = [i \in PickItem |-> AsOrdered(i)] /\ agreed = [i \in PickItem |-> 0]

SUBSTITUTION_TRANSITIONS ==
    [s \in {"PENDING", "APPROVED", "REJECTED"} |-> IF s = "PENDING" THEN {"APPROVED", "REJECTED"} ELSE {}]

\* pickItem, a transaction: the status follows from the quantity alone.
PickOne(w) ==
    LET n == job[w].picked
        i == job[w].item IN
    /\ At(w, "PICK", "read")
    /\ picking' = [picking EXCEPT ![i] = [@ EXCEPT
           !.picked = n,
           !.status = CASE n >= Needed[i] -> "PICKED" [] n \in 1..(Needed[i] - 1) -> "SHORTAGE"
                        [] OTHER -> "PENDING"]]
    /\ Answer(w)
    /\ UNCHANGED <<proposal, line, agreed>>

\* suggestSubstitution looks at the item and at the shelf (SUB-01 to SUB-03),
\* at an earlier proposal only if it is PENDING; the unique index refuses the
\* second row of an item.
Suggest(w) ==
    LET i == job[w].item
        p == job[w].part IN
    \/ /\ At(w, "SUGGEST", "read")
       /\ SeeIf(w, /\ picking[i].status = "SHORTAGE" /\ picking[i].part # p
                   /\ Available[p] >= Needed[i],
                picking[i].part, "check")
       /\ UNCHANGED substitutions
    \/ /\ At(w, "SUGGEST", "check")
       /\ SeeIf(w, proposal[i] = Unread \/ proposal[i].status # "PENDING", saw[w], "commit")
       /\ UNCHANGED substitutions
    \/ /\ At(w, "SUGGEST", "commit")
       /\ proposal[i] = Unread
       /\ proposal' = [proposal EXCEPT ![i] =
              [part |-> p, delta |-> Price[p] - Price[saw[w]], status |-> "PENDING", version |-> 0]]
       /\ Answer(w)
       /\ UNCHANGED <<picking, line, agreed>>

\* The proposal as the handler reads it.
ReadProposal(w, to) ==
    LET s == proposal[job[w].item] IN
    SeeIf(w, s # Unread /\ to \in SUBSTITUTION_TRANSITIONS[s.status], s, "commit")
    /\ UNCHANGED substitutions

\* A write by the proposal's id alone.
DecideById(w, status) ==
    proposal' = [proposal EXCEPT ![job[w].item].status = status, ![job[w].item].version = @ + 1]

\* updateMany where the version is the one read; count 0 rolls back.
Decide(w, status) ==
    /\ proposal[job[w].item].version = saw[w].version
    /\ proposal' = [proposal EXCEPT ![job[w].item].status = status, ![job[w].item].version = @ + 1]

\* The order line of the part that was replaced, if the price differs; a price
\* that would not be positive stays.
Reprice(i, s) ==
    IF s.delta = 0 THEN line[i]
    ELSE [part |-> s.part,
          price |-> IF line[i].price + s.delta > 0 THEN line[i].price + s.delta ELSE line[i].price]

\* approveSubstitution, one transaction: the item is the substitute, PICKED in
\* full, and the line is repriced.  No stock is allocated or released.
ApproveSubstitution(w) ==
    LET i == job[w].item
        s == saw[w] IN
    \/ At(w, "APPROVE_SUB", "read") /\ ReadProposal(w, "APPROVED")
    \/ /\ At(w, "APPROVE_SUB", "commit")
       /\ Decide(w, "APPROVED")
       /\ picking' = [picking EXCEPT ![i] = [part |-> s.part, picked |-> Needed[i], status |-> "PICKED"]]
       /\ line' = [line EXCEPT ![i] = Reprice(i, s)]
       /\ agreed' = [agreed EXCEPT ![i] = @ + 1]
       /\ Answer(w)

RejectSubstitution(w) ==
    \/ At(w, "REJECT_SUB", "read") /\ ReadProposal(w, "REJECTED")
    \/ /\ At(w, "REJECT_SUB", "commit")
       /\ Decide(w, "REJECTED")
       /\ Answer(w)
       /\ UNCHANGED <<picking, line, agreed>>

SubstitutionFails(w) ==
    /\ pc[w] # "idle" /\ job[w].op \in SubstitutionOp \cup PickOp
    /\ Answer(w)
    /\ UNCHANGED substitutions

SubstitutionStep(w) ==
    \/ PickOne(w) \/ Suggest(w) \/ ApproveSubstitution(w) \/ RejectSubstitution(w)
    \/ SubstitutionFails(w)

-----------------------------------------------------------------------------
\* Whatever is suggested, decided and picked at once, the pick list carries the
\* substitute if and only if its proposal stands approved, and that is announced
\* once.  The order line carries it if and only if it stands approved at another
\* price, and the difference is charged once, or not at all where nothing would
\* be left to pay.  Approved at an equal price, the line keeps the original part.
PickedAsAgreed ==
    \A i \in PickItem :
        LET s == proposal[i] IN
        IF s # Unread /\ s.status = "APPROVED"
        THEN /\ picking[i].part = s.part /\ agreed[i] = 1
             /\ line[i].part = IF s.delta = 0 THEN PartOf[i] ELSE s.part
             /\ line[i].price - AgreedPrice[i] \in {0, s.delta}
        ELSE picking[i].part = PartOf[i] /\ line[i] = AsOrdered(i) /\ agreed[i] = 0
=============================================================================

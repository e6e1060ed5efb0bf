--------------------------- MODULE GoodsInTransit ---------------------------
(***************************************************************************)
(* What a branch transfer promises: its goods leave the source branch all  *)
(* together and once, and later one receipt is credited to the destination *)
(* for them, once.  What does not arrive is gone.                          *)
(***************************************************************************)
EXTENDS Integers

CONSTANTS
    Transfer,
    Product,
    Leaves,  \* per transfer, how much of each product leaves with it
    Brings   \* per transfer, the quantities a receipt of it may bring

VARIABLES
    where,  \* per transfer: "source", "road" or "dest"
    left,   \* per product, what has left the source branch
    came    \* per product, what has arrived at the destination

Init ==
    /\ where = [t \in Transfer |-> "source"]
    /\ left = [p \in Product |-> 0]
    /\ came = [p \in Product |-> 0]

Depart(t) ==
    /\ where[t] = "source"
    /\ where' = [where EXCEPT ![t] = "road"]
    /\ left' = [p \in Product |-> left[p] + Leaves[t][p]]
    /\ UNCHANGED came

Arrive(t) ==
    /\ where[t] = "road"
    /\ where' = [where EXCEPT ![t] = "dest"]
    /\ \E goods \in Brings[t] : came' = [p \in Product |-> came[p] + goods[p]]
    /\ UNCHANGED left

Next == \E t \in Transfer : Depart(t) \/ Arrive(t)

Spec == Init /\ [][Next]_<<where, left, came>>
=============================================================================

------------------------- MODULE MC_InventoryStock -------------------------
(***************************************************************************)
(* Small instances of InventoryStock.  "pos" is a product only the tills,  *)
(* receipts and adjustments move; "both" is one orders reserve as well.    *)
(***************************************************************************)
EXTENDS InventoryStock

CONSTANTS pos, both, once, again, w1, w2

MCItem == {pos, both}
MCWorker == {w1, w2}
MCRef == {once, again}

Req(kind, ref, lines) == [kind |-> kind, ref |-> ref, lines |-> lines]
Of(item, qty) == [item |-> item, qty |-> qty]

Sale1 == Req("SALE", once, <<Of(pos, 2)>>)
Sale2 == Req("SALE", once, <<Of(both, 1), Of(pos, 1)>>)
Sale3 == Req("SALE", once, <<Of(pos, 1), Of(both, 1)>>)
Receipt == Req("MOVE", once, <<Of(pos, 1)>>)
Adjust == Req("ADJUST", once, <<Of(pos, 2)>>)
Create == Req("CREATE", once, <<Of(pos, 1)>>)
Delete == Req("REMOVE", once, <<Of(pos, 0)>>)
DeleteReserved == Req("REMOVE", once, <<Of(both, 0)>>)
Allocate1 == Req("ALLOCATE", once, <<Of(both, 1)>>)
Allocate2 == Req("ALLOCATE", once, <<Of(both, 1), Of(both, 1)>>)
Commit1 == Req("COMMIT", once, <<Of(both, 1)>>)
Cancel2 == Req("DEALLOCATE", once, <<Of(both, 1), Of(both, 1)>>)
Cancel2Again == Req("DEALLOCATE", again, <<Of(both, 1), Of(both, 1)>>)
Restock == Req("RESTOCK", once, <<Of(both, 1)>>)

MCRequest ==
    {Sale1, Sale2, Sale3, Receipt, Adjust, Create, Delete, DeleteReserved,
     Allocate1, Allocate2, Commit1, Cancel2, Cancel2Again, Restock}

\* Requests that meet on the same rows.
MCBatches ==
    { {Sale1, Sale2, Adjust, Receipt},
      {Sale2, Sale3, Restock},
      {Sale1, Create, Delete, Adjust},
      {Allocate1, Commit1, Allocate2, Cancel2, Sale2},
      {Allocate2, Cancel2, Cancel2Again, Sale2},
      {Allocate1, Allocate2, Cancel2, DeleteReserved, Restock} }

\* A sale against the delivery of a reserved order.
SaleMeetsDelivery == { {Allocate1, Commit1, Sale2} }

\* Three attempts for SALE (the code: 5) and two for recordTransaction's own
\* transaction (the code: 3); the rest run once.
MCAttempts ==
    [k \in Kind |-> CASE k = "SALE" -> 3 [] k \in Serializable -> 2 [] OTHER -> 1]
=============================================================================

------------------------------ MODULE MC_Till ------------------------------
(***************************************************************************)
(* Small instances of Till: two sales of 2 on the account of one customer, *)
(* a sale of 3 at the counter, two workers, and batches of requests that   *)
(* meet on a sale, the session or the customer; some payments are of       *)
(* nothing or less.                                                        *)
(***************************************************************************)
EXTENDS Till, TLC

CONSTANTS a1, a2, counter, w1, w2

MCSale == {a1, a2, counter}
MCWorker == {w1, w2}
MCTotal == a1 :> 2 @@ a2 :> 2 @@ counter :> 3
MCOnAccount == {a1, a2}

Req(op, sale, amount, cash) == [op |-> op, sale |-> sale, amount |-> amount, cash |-> cash]

Sell(s) == Req("SALE", s, 0, FALSE)
Cash(s, n) == Req("PAY", s, n, TRUE)
Card(s, n) == Req("PAY", s, n, FALSE)
Refund(s, n) == Req("REFUND", s, n, FALSE)
Void(s) == Req("VOID", s, 0, FALSE)
ManagerVoid(s) == Req("XVOID", s, 0, FALSE)
Open == Req("OPEN", counter, 1, FALSE)
Close == Req("CLOSE", counter, 0, FALSE)
CloseDay == Req("ZREPORT", counter, 0, FALSE)

MCRequest ==
    {Open, Close, CloseDay, Refund(counter, 0), Cash(counter, 0), Cash(counter, -1), Card(a1, -1)}
    \cup {Sell(s) : s \in Sale}
    \cup UNION { {Cash(s, 1), Cash(s, 2), Card(s, 1), Refund(s, 1), Refund(s, Total[s]),
                  Void(s), ManagerVoid(s)} : s \in Sale }

\* The batch that sends each request of S once, and those of T once more.
Batch(S, T) == [r \in Request |-> (IF r \in S THEN 1 ELSE 0) + (IF r \in T THEN 1 ELSE 0)]

MCBatches ==
    { Batch({Open, Sell(a1), Sell(a2), Cash(a1, 1), Card(a2, 2)}, {Cash(a1, 1)}),
      Batch({Open, Sell(a1), Void(a1), Refund(a1, 2), ManagerVoid(a1)}, {Void(a1)}),
      Batch({Open, Sell(a1), Refund(a1, 1), Refund(a1, 2), Void(a1)}, {Refund(a1, 1)}),
      Batch({Open, Sell(counter), Cash(counter, 2), Card(counter, 1), Refund(counter, 1), Void(counter)}, {}),
      Batch({Open, Close, CloseDay, Sell(counter), Cash(counter, 1), Refund(counter, 3)}, {Open}),
      Batch({Open, Sell(a1), Cash(a1, 2), Card(a1, 1), Card(a1, -1), Refund(a1, 2)}, {}),
      Batch({Open, Sell(counter), Cash(counter, 0), Cash(counter, -1), Refund(counter, 0), Void(counter)}, {}),
      Batch({Open, Close, CloseDay}, {Open, Close, CloseDay}) }

\* A payment meets the end of the session.
PaymentMeetsClose == { Batch({Open, Sell(counter), Cash(counter, 1), Close}, {}) }
=============================================================================

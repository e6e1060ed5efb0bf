---------------------------- MODULE CardPayments ----------------------------
(***************************************************************************)
(* Card payments of sales (StripePaymentsService).  The payment intent     *)
(* lives at Stripe; the row that mirrors it, the payment and the invoice   *)
(* live here, and `confirm` carries the one over to the other.             *)
(***************************************************************************)
EXTENDS Requests

CONSTANTS
    Intent,       \* payment intents, each with its row
    Sale,
    SaleOf,       \* per intent, the sale it is for
    Amount,       \* and its amount
    SaleTotal     \* per sale, the total its invoice asks for

CardOp == {"CREATE_INTENT", "CONFIRM"}

\* Stripe gives every intent an id of its own.
ASSUME CardAssumption ==
    /\ IsFiniteSet(Intent)
    /\ SaleOf \in [Intent -> Sale] /\ Amount \in [Intent -> Nat] /\ SaleTotal \in [Sale -> Nat]
    /\ \A r \in Request : r.op \in CardOp => r \in [op: CardOp, intent: Intent, by: Nat]
    /\ \A q, r \in Request :
          q.op = "CREATE_INTENT" /\ r.op = "CREATE_INTENT" /\ q.intent = r.intent => q = r

VARIABLES
    intent,       \* the intents at Stripe
    stripeRow,    \* the stripePayment rows
    cardRows,     \* per intent, the payment rows that confirm wrote
    paidByCard    \* invoices that confirm set to PAID

cards == <<intent, stripeRow, cardRows, paidByCard>>

CardTypeOK ==
    /\ intent \in [Intent -> {"none", "open", "succeeded"}]
    /\ stripeRow \in [Intent -> {"none", "PENDING", "SUCCEEDED"}]
    /\ cardRows \in [Intent -> Nat]
    /\ paidByCard \in [Sale -> BOOLEAN]

CardInit ==
    /\ intent = [i \in Intent |-> "none"] /\ stripeRow = [i \in Intent |-> "none"]
    /\ cardRows = [i \in Intent |-> 0] /\ paidByCard = [s \in Sale |-> FALSE]

\* The sum of a sale's payment rows.
CardPaid(sale) == MapThenSumSet(LAMBDA i : IF SaleOf[i] = sale THEN cardRows[i] * Amount[i] ELSE 0, Intent)

\* Stripe, external: the customer pays an intent.
CustomerPays(i) ==
    /\ intent[i] = "open"
    /\ intent' = [intent EXCEPT ![i] = "succeeded"]
    /\ UNCHANGED <<requests, stripeRow, cardRows, paidByCard>>

\* createIntent asks Stripe first; if the row cannot be written the intent
\* stays there alone.
CreateIntent(w) ==
    \/ /\ At(w, "CREATE_INTENT", "read")
       /\ Goto(w, "write")
       /\ intent' = [intent EXCEPT ![job[w].intent] = "open"]
       /\ UNCHANGED <<stripeRow, cardRows, paidByCard>>
    \/ /\ At(w, "CREATE_INTENT", "write")
       /\ stripeRow' = [stripeRow EXCEPT ![job[w].intent] = "PENDING"]
       /\ Answer(w)
       /\ UNCHANGED <<intent, cardRows, paidByCard>>

\* An intent that Stripe knows, paid or not.
Known(i) == intent[i] # "none"

\* paymentIntents.retrieve says 'succeeded'.
Succeeded(i) == intent[i] = "succeeded"

\* confirm reads the row, asks Stripe, and in a transaction reads what is
\* paid and writes the payment, the row by its id, the receipt and, when the
\* total is reached, the invoice.
Confirm(w) ==
    LET i == job[w].intent IN
    \/ /\ At(w, "CONFIRM", "read")
       /\ IF stripeRow[i] = "PENDING" THEN Goto(w, "ask") ELSE Answer(w)
       /\ UNCHANGED cards
    \/ /\ At(w, "CONFIRM", "ask")
       /\ IF Succeeded(i) THEN Goto(w, "check") ELSE Answer(w)
       /\ UNCHANGED cards
    \/ /\ At(w, "CONFIRM", "check")
       /\ See(w, CardPaid(SaleOf[i]), "commit")
       /\ UNCHANGED cards
    \/ /\ At(w, "CONFIRM", "commit")
       /\ cardRows' = [cardRows EXCEPT ![i] = @ + 1]
       /\ stripeRow' = [stripeRow EXCEPT ![i] = "SUCCEEDED"]
       /\ paidByCard' = [paidByCard EXCEPT ![SaleOf[i]] = @ \/ saw[w] + Amount[i] >= SaleTotal[SaleOf[i]]]
       /\ Answer(w)
       /\ UNCHANGED intent

\* Stripe or the database does not answer, or a statement throws.
CardFails(w) ==
    /\ pc[w] # "idle" /\ job[w].op \in CardOp
    /\ Answer(w)
    /\ UNCHANGED cards

CardStep(w) == CreateIntent(w) \/ Confirm(w) \/ CardFails(w)

-----------------------------------------------------------------------------
\* Whatever confirms run at the same time: a payment row stands for an intent
\* the customer has paid, the mirror says SUCCEEDED exactly when there is one,
\* and an invoice is PAID only when the sale's payment rows cover its total.
CardPaymentsAddUp ==
    /\ \A i \in Intent : /\ cardRows[i] > 0 => intent[i] = "succeeded"
                         /\ cardRows[i] > 0 <=> stripeRow[i] = "SUCCEEDED"
    /\ \A s \in Sale : paidByCard[s] => CardPaid(s) >= SaleTotal[s]
=============================================================================

----------------------------- MODULE BackOffice -----------------------------
(***************************************************************************)
(* The back office: the components around stock, orders and tills, in one  *)
(* process that serves the requests of all of them.  No two of them write  *)
(* the same row, except DeliveryTrips and Dispatching, whose trips are     *)
(* different ones here; what they share is the process, and that a request *)
(* of any of them may run between two steps of another.                    *)
(***************************************************************************)
EXTENDS BranchTransfer, Purchasing, CustomerReturns, Quotes, CardPayments, GeneralLedger,
        Disputes, DeliveryTrips, Dispatching, Substitutions, Subscriptions, Idempotency

trade == <<transfers, purchasing, returns, quotes>>
finance == <<cards, ledger, disputes>>
fleet == <<trips, dispatching, substitutions>>
platform == <<accounts, idempotency>>
business == <<trade, finance, fleet, platform>>

BackOfficeTypeOK ==
    /\ RequestsTypeOK
    /\ TransferTypeOK /\ PurchasingTypeOK /\ ReturnTypeOK /\ QuoteTypeOK
    /\ CardTypeOK /\ LedgerTypeOK /\ DisputeTypeOK
    /\ TripTypeOK /\ DispatchTypeOK /\ SubstitutionTypeOK
    /\ AccountTypeOK /\ IdempotencyTypeOK

BackOfficeInit ==
    /\ RequestsInit
    /\ TransferInit /\ PurchasingInit /\ ReturnInit /\ QuoteInit
    /\ CardInit /\ LedgerInit /\ DisputeInit
    /\ TripInit /\ DispatchInit /\ SubstitutionInit
    /\ AccountInit /\ IdempotencyInit

TradeStep(w) ==
    /\ \/ TransferStep(w) /\ UNCHANGED <<purchasing, returns, quotes>>
       \/ PurchasingStep(w) /\ UNCHANGED <<transfers, returns, quotes>>
       \/ ReturnStep(w) /\ UNCHANGED <<transfers, purchasing, quotes>>
       \/ QuoteStep(w) /\ UNCHANGED <<transfers, purchasing, returns>>
    /\ UNCHANGED <<finance, fleet, platform>>

FinanceStep(w) ==
    /\ \/ CardStep(w) /\ UNCHANGED <<ledger, disputes>>
       \/ LedgerStep(w) /\ UNCHANGED <<cards, disputes>>
       \/ DisputeStep(w) /\ UNCHANGED <<cards, ledger>>
    /\ UNCHANGED <<trade, fleet, platform>>

FleetStep(w) ==
    /\ \/ TripStep(w) /\ UNCHANGED <<dispatching, substitutions>>
       \/ DispatchStep(w) /\ UNCHANGED <<trips, substitutions>>
       \/ SubstitutionStep(w) /\ UNCHANGED <<trips, dispatching>>
    /\ UNCHANGED <<trade, finance, platform>>

PlatformStep(w) ==
    /\ \/ AccountStep(w) /\ UNCHANGED idempotency
       \/ IdempotencyStep(w) /\ UNCHANGED accounts
    /\ UNCHANGED <<trade, finance, fleet>>

\* What happens outside any request: a customer pays at Stripe, a quote
\* lapses or expires, a statement nobody waited for is executed, a key
\* expires, the process dies.
World ==
    \/ (\E i \in Intent : CustomerPays(i)) /\ UNCHANGED <<ledger, disputes, trade, fleet, platform>>
    \/ QuoteWorld /\ UNCHANGED <<transfers, purchasing, returns, finance, fleet, platform>>
    \/ IdempotencyWorld /\ UNCHANGED <<accounts, trade, finance, fleet>>

BackOfficeNext ==
    \/ \E w \in Worker : TradeStep(w) \/ FinanceStep(w) \/ FleetStep(w) \/ PlatformStep(w)
    \/ World
    \/ \E w \in Worker, r \in todo : Send(w, r) /\ UNCHANGED business
    \/ Quiet /\ UNCHANGED <<requests, business>>

BackOfficeSpec == BackOfficeInit /\ [][BackOfficeNext]_<<requests, business>>
=============================================================================

-------------------------- MODULE BackOfficeProofs --------------------------
(***************************************************************************)
(* Proofs about the back office, for any number of workers and any         *)
(* requests.  First requests and the frame: a step of BackOffice is one of *)
(* component and the others rest meanwhile, so that a component is proved  *)
(* about by looking at its own handlers.  Then the components, one after   *)
(* another: what a worker that stands between its read and its write may   *)
(* rely on (its copy is the row as long as the version has not moved on),  *)
(* that every handler keeps it, and the theorem.  First those of the trade *)
(* and of the platform, then those of finance and the fleet.               *)
(***************************************************************************)
EXTENDS BackOffice, SumTheorems, TLAPS

-----------------------------------------------------------------------------
(***************************************************************************)
(* Requests, whatever component they belong to: a request is served by one *)
(* worker at a time and never again once it is answered, and a worker that *)
(* has read nothing knows nothing.  The components' proofs rest on the     *)
(* lemmas here: each looks at its own steps only, and takes the others as  *)
(* steps Elsewhere.                                                        *)
(***************************************************************************)
\* The requests that are not answered yet.
Live == {r \in Request : r \in todo \/ \E w \in Worker : job[w] = r}

RequestsInv ==
    /\ RequestsTypeOK
    /\ saw = [w \in Worker |-> saw[w]]
    /\ \A w \in Worker : job[w] \notin todo
    /\ \A v, w \in Worker : pc[v] # "idle" /\ job[v] = job[w] => v = w

\* A step of the handler that w runs: it goes on, or answers.
Proceeds(w) ==
    /\ UNCHANGED <<todo, job>>
    /\ \E p \in Step \ {"idle", "read"} : pc' = [pc EXCEPT ![w] = p]
    /\ saw' = saw \/ \E x : saw' = [saw EXCEPT ![w] = x]
Handled(w) == pc[w] # "idle" /\ (Answer(w) \/ Proceeds(w))

\* The process dies with its requests.
AllDie ==
    /\ pc' = [w \in Worker |-> "idle"]
    /\ job' = [w \in Worker |-> NoRequest]
    /\ saw' = [w \in Worker |-> Unread]
    /\ UNCHANGED todo

RequestsMove ==
    \/ \E w \in Worker : Handled(w)
    \/ \E w \in Worker, r \in todo : Send(w, r)
    \/ AllDie
    \/ UNCHANGED requests

\* No worker takes a step of an operation in `ops`: a worker of these rests,
\* dies, or takes up a new request; what it gives up is never live again.
Rests(v) == pc'[v] = pc[v] /\ job'[v] = job[v] /\ saw'[v] = saw[v]
Elsewhere(ops) ==
    /\ Live' \subseteq Live
    /\ \A v \in Worker : pc[v] # "idle" /\ job'[v] # job[v] => job[v] \notin Live'
    /\ \A v \in Worker :
          \/ Rests(v)
          \/ pc'[v] = "idle" /\ job'[v] = NoRequest /\ saw'[v] = Unread
          \/ pc[v] = "idle" /\ pc'[v] = "read" /\ job'[v] \in Request /\ saw'[v] = Unread
          \/ pc[v] # "idle" /\ pc'[v] # "idle" /\ job'[v] = job[v] /\ job[v].op \notin ops

-----------------------------------------------------------------------------
LEMMA StepNames ==
    /\ {"idle", "read", "check", "ask", "write", "next", "then", "finish", "commit"} = Step
    /\ \A p \in {"check", "ask", "write", "next", "then", "finish", "commit"} : p \in Step \ {"idle", "read"}
BY DEF Step

\* The operators that handlers are written with make steps of one handler.
LEMMA SeeHandles ==
    ASSUME NEW w \in Worker, pc[w] # "idle", NEW x, NEW p \in Step \ {"idle", "read"}, See(w, x, p)
    PROVE  Handled(w)
BY DEF See, Handled, Proceeds

LEMMA GotoHandles ==
    ASSUME NEW w \in Worker, pc[w] # "idle", NEW p \in Step \ {"idle", "read"}, Goto(w, p)
    PROVE  Handled(w)
BY DEF Goto, Handled, Proceeds

LEMMA SeeIfHandles ==
    ASSUME NEW w \in Worker, pc[w] # "idle", NEW ok, NEW x, NEW p \in Step \ {"idle", "read"},
           SeeIf(w, ok, x, p)
    PROVE  Handled(w)
BY SeeHandles DEF SeeIf, Handled

LEMMA AnswerHandles ==
    ASSUME NEW w \in Worker, pc[w] # "idle", Answer(w)
    PROVE  Handled(w)
BY DEF Handled

\* What w knows after a step.
LEMMA WhatIsSeen ==
    ASSUME RequestsInv, NEW w \in Worker, NEW x, NEW p \in Step, See(w, x, p)
    PROVE  pc'[w] = p /\ job'[w] = job[w] /\ saw'[w] = x
BY DEF RequestsInv, RequestsTypeOK, See

LEMMA WhatGoesOn ==
    ASSUME RequestsInv, NEW w \in Worker, NEW p \in Step, Goto(w, p)
    PROVE  pc'[w] = p /\ job'[w] = job[w] /\ saw'[w] = saw[w]
BY DEF RequestsInv, RequestsTypeOK, Goto

LEMMA WhatIsAnswered ==
    ASSUME RequestsInv, NEW w \in Worker, Answer(w)
    PROVE  pc'[w] = "idle" /\ job'[w] = NoRequest /\ saw'[w] = Unread
BY DEF RequestsInv, RequestsTypeOK, Answer

\* The other workers stay as they are.
LEMMA OthersRest ==
    ASSUME RequestsInv, NEW w \in Worker, Handled(w), NEW v \in Worker, v # w
    PROVE  Rests(v)
<1>1. CASE Answer(w)
  BY <1>1 DEF RequestsInv, RequestsTypeOK, Answer, Rests
<1>2. CASE Proceeds(w)
  <2>1. pc'[v] = pc[v] /\ job'[v] = job[v]
    BY <1>2 DEF RequestsInv, RequestsTypeOK, Proceeds
  <2>2. saw'[v] = saw[v]
    <3>1. CASE saw' = saw
      BY <3>1
    <3>2. CASE \E x : saw' = [saw EXCEPT ![w] = x]
      <4>1. PICK x : saw' = [saw EXCEPT ![w] = x]
        BY <3>2
      <4> QED
        BY <4>1 DEF RequestsInv
    <3> QED
      BY <1>2, <3>1, <3>2 DEF Proceeds
  <2> QED
    BY <2>1, <2>2 DEF Rests
<1> QED
  BY <1>1, <1>2 DEF Handled

LEMMA JobIsRequest ==
    ASSUME RequestsInv, NEW w \in Worker, pc[w] # "idle"
    PROVE  job[w] \in Request /\ job[w] \in Live
<1>1. job[w] \in Request
  BY DEF RequestsInv, RequestsTypeOK, Job
<1> QED
  BY <1>1 DEF Live

\* A request is live until it is answered, and never again.
LEMMA LiveShrinks ==
    ASSUME RequestsInv, RequestsMove
    PROVE  Live' \subseteq Live
<1>1. ASSUME NEW w \in Worker, Handled(w)
      PROVE  Live' \subseteq Live
  <2>1. CASE Answer(w)
    <3>1. todo' = todo /\ \A v \in Worker : job'[v] \in {job[v], NoRequest}
      BY <2>1 DEF Answer, RequestsInv, RequestsTypeOK
    <3> QED
      BY <3>1, RequestsAssumption DEF Live
  <2>2. CASE Proceeds(w)
    BY <2>2 DEF Proceeds, Live
  <2> QED
    BY <1>1, <2>1, <2>2 DEF Handled
<1>2. ASSUME NEW w \in Worker, NEW r \in todo, Send(w, r)
      PROVE  Live' \subseteq Live
  <2>1. todo' \subseteq todo /\ \A v \in Worker : job'[v] = job[v] \/ job'[v] = r
    BY <1>2 DEF Send, RequestsInv, RequestsTypeOK
  <2> QED
    BY <1>2, <2>1 DEF Live
<1>3. CASE AllDie
  BY <1>3, RequestsAssumption DEF AllDie, Live
<1>4. CASE UNCHANGED requests
  BY <1>4 DEF requests, Live
<1> QED
  BY <1>1, <1>2, <1>3, <1>4 DEF RequestsMove

LEMMA AnsweredIsGone ==
    ASSUME RequestsInv, NEW w \in Worker, pc[w] # "idle", Answer(w)
    PROVE  Live' \subseteq Live \ {job[w]}
<1>1. todo' = todo /\ job'[w] = NoRequest /\ \A v \in Worker \ {w} : job'[v] = job[v]
  BY DEF Answer, RequestsInv, RequestsTypeOK
<1>2. job[w] \notin todo /\ \A v \in Worker \ {w} : job[v] # job[w]
  BY DEF RequestsInv
<1>3. ASSUME NEW r \in Live'
      PROVE  r \in Live \ {job[w]}
  BY <1>1, <1>2, RequestsAssumption DEF Live
<1> QED
  BY <1>3

LEMMA RequestsStart == RequestsInit => RequestsInv
<1> SUFFICES ASSUME RequestsInit PROVE RequestsInv
  OBVIOUS
<1>1. RequestsTypeOK
  BY RequestsAssumption DEF RequestsInit, RequestsTypeOK, Job, Step
<1> QED
  BY <1>1, RequestsAssumption DEF RequestsInit, RequestsInv

LEMMA RequestsKept ==
    ASSUME RequestsInv, RequestsMove
    PROVE  RequestsInv'
<1> USE RequestsAssumption
<1>1. ASSUME NEW w \in Worker, pc[w] # "idle", Answer(w)
      PROVE  RequestsInv'
  <2>1. RequestsTypeOK'
    BY <1>1 DEF Answer, RequestsInv, RequestsTypeOK, Job, Step
  <2>2. (saw = [v \in Worker |-> saw[v]])'
    BY <1>1 DEF Answer, RequestsInv
  <2>3. \A v \in Worker \ {w} : job'[v] = job[v] /\ pc'[v] = pc[v]
    BY <1>1 DEF Answer, RequestsInv, RequestsTypeOK
  <2>4. todo' = todo /\ job'[w] = NoRequest /\ pc'[w] = "idle"
    BY <1>1 DEF Answer, RequestsInv, RequestsTypeOK
  <2>5. \A v \in Worker : job'[v] \notin todo'
    BY <2>3, <2>4 DEF RequestsInv, RequestsTypeOK
  <2>6. ASSUME NEW u \in Worker, NEW v \in Worker, pc'[u] # "idle", job'[u] = job'[v]
        PROVE  u = v
    BY <2>3, <2>4, <2>6 DEF RequestsInv, RequestsTypeOK, Job
  <2> QED
    BY <2>1, <2>2, <2>5, <2>6 DEF RequestsInv
<1>2. ASSUME NEW w \in Worker, pc[w] # "idle", Proceeds(w)
      PROVE  RequestsInv'
  <2>1. PICK p \in Step \ {"idle", "read"} : pc' = [pc EXCEPT ![w] = p]
    BY <1>2 DEF Proceeds
  <2>2. todo' = todo /\ job' = job
    BY <1>2 DEF Proceeds
  <2>3. (saw = [v \in Worker |-> saw[v]])' /\ \A v \in Worker \ {w} : saw'[v] = saw[v]
    <3>1. CASE saw' = saw
      BY <3>1 DEF RequestsInv
    <3>2. CASE \E x : saw' = [saw EXCEPT ![w] = x]
      <4>1. PICK x : saw' = [saw EXCEPT ![w] = x]
        BY <3>2
      <4> QED
        BY <4>1 DEF RequestsInv
    <3> QED
      BY <1>2, <3>1, <3>2 DEF Proceeds
  <2>4. RequestsTypeOK'
    BY <1>2, <2>1, <2>2, <2>3 DEF RequestsInv, RequestsTypeOK
  <2>5. \A v \in Worker : pc'[v] # "idle" => pc[v] # "idle"
    BY <1>2, <2>1 DEF RequestsInv, RequestsTypeOK
  <2> QED
    BY <2>2, <2>3, <2>4, <2>5 DEF RequestsInv
<1>3. ASSUME NEW w \in Worker, NEW r \in todo, Send(w, r)
      PROVE  RequestsInv'
  <2>1. /\ todo' = todo \ {r} /\ saw' = saw
        /\ pc[w] = "idle" /\ pc'[w] = "read" /\ job'[w] = r
        /\ \A v \in Worker \ {w} : job'[v] = job[v] /\ pc'[v] = pc[v]
    BY <1>3 DEF Send, RequestsInv, RequestsTypeOK
  <2>2. RequestsTypeOK'
    BY <1>3 DEF Send, RequestsInv, RequestsTypeOK, Job, Step
  <2>3. \A v \in Worker : job'[v] \notin todo'
    BY <1>3, <2>1 DEF RequestsInv
  <2>4. ASSUME NEW u \in Worker, NEW v \in Worker, pc'[u] # "idle", job'[u] = job'[v]
        PROVE  u = v
    BY <1>3, <2>1, <2>4 DEF RequestsInv
  <2> QED
    BY <2>1, <2>2, <2>3, <2>4 DEF RequestsInv
<1>4. CASE AllDie
  BY <1>4 DEF AllDie, RequestsInv, RequestsTypeOK, Job, Step
<1>5. CASE UNCHANGED requests
  BY <1>5 DEF requests, RequestsInv, RequestsTypeOK
<1> QED
  BY <1>1, <1>2, <1>3, <1>4, <1>5 DEF RequestsMove, Handled

-----------------------------------------------------------------------------
(***************************************************************************)
(* Steps elsewhere.                                                        *)
(***************************************************************************)
LEMMA HandledElsewhere ==
    ASSUME RequestsInv, NEW ops, NEW w \in Worker, Handled(w), job[w].op \notin ops
    PROVE  Elsewhere(ops)
<1>1. Live' \subseteq Live
  BY LiveShrinks DEF RequestsMove
<1>2. \A v \in Worker \ {w} : Rests(v) /\ job'[v] = job[v]
  BY OthersRest DEF Rests
<1>3. CASE Answer(w)
  <2>1. pc'[w] = "idle" /\ job'[w] = NoRequest /\ saw'[w] = Unread /\ job[w] \notin Live'
    BY <1>3, WhatIsAnswered, AnsweredIsGone DEF Handled
  <2> QED
    BY <1>1, <1>2, <2>1 DEF Elsewhere
<1>4. CASE Proceeds(w)
  <2>1. pc[w] # "idle" /\ pc'[w] # "idle" /\ job'[w] = job[w]
    BY <1>4 DEF Handled, Proceeds, RequestsInv, RequestsTypeOK
  <2> QED
    BY <1>1, <1>2, <2>1 DEF Elsewhere
<1> QED
  BY <1>3, <1>4 DEF Handled

LEMMA SendElsewhere ==
    ASSUME RequestsInv, NEW ops, NEW w \in Worker, NEW r \in todo, Send(w, r)
    PROVE  Elsewhere(ops)
<1>1. Live' \subseteq Live
  BY LiveShrinks DEF RequestsMove
<1>2. /\ pc[w] = "idle" /\ pc'[w] = "read" /\ job'[w] = r
      /\ saw'[w] = saw[w] /\ saw[w] = Unread /\ r \in Request
      /\ \A v \in Worker \ {w} : Rests(v) /\ job'[v] = job[v]
  BY DEF Send, RequestsInv, RequestsTypeOK, Rests
<1> QED
  BY <1>1, <1>2 DEF Elsewhere

LEMMA DeathElsewhere ==
    ASSUME RequestsInv, NEW ops, AllDie
    PROVE  Elsewhere(ops)
<1>1. Live' \subseteq Live
  BY LiveShrinks DEF RequestsMove
<1>2. \A v \in Worker : job[v] \notin Live'
  BY RequestsAssumption DEF AllDie, Live, RequestsInv
<1>3. \A v \in Worker : pc'[v] = "idle" /\ job'[v] = NoRequest /\ saw'[v] = Unread
  BY DEF AllDie
<1> QED
  BY <1>1, <1>2, <1>3 DEF Elsewhere

LEMMA RestElsewhere ==
    ASSUME RequestsInv, NEW ops, UNCHANGED requests
    PROVE  Elsewhere(ops)
BY LiveShrinks DEF RequestsMove, requests, Elsewhere, Rests

-----------------------------------------------------------------------------
(***************************************************************************)
(* A step of the back office is a step of one component; the others rest   *)
(* meanwhile.                                                              *)
(***************************************************************************)
LEMMA TransferHandles ==
    ASSUME NEW w \in Worker, TransferStep(w)
    PROVE  Handled(w) /\ job[w].op \in TransferOp
BY SeeHandles, AnswerHandles, StepNames
   DEF TransferStep, TransferOp, CreateTransfer, ApproveTransfer, ShipTransfer, ReceiveTransfer,
       SellFromSource, TransferFails, ReadTransfer, SeeIf, At

LEMMA PurchasingHandles ==
    ASSUME NEW w \in Worker, PurchasingStep(w)
    PROVE  Handled(w) /\ job[w].op \in PurchasingOp
BY SeeHandles, AnswerHandles, StepNames
   DEF PurchasingStep, PurchasingOp, InvoiceOp, ReturnToSupplierOp, CreatePurchaseOrder,
       ReceivePurchaseOrder, CreateSupplierInvoice, MatchSupplierInvoice, PostSupplierInvoice,
       CreatePurchaseReturn, ApprovePurchaseReturn, RejectPurchaseReturn, ShipPurchaseReturn,
       CompletePurchaseReturn, PurchasingFails, ReadBill, ReadPurchaseReturn, UpdatePurchaseReturn,
       SeeIf, At

LEMMA ReturnHandles ==
    ASSUME NEW w \in Worker, ReturnStep(w)
    PROVE  Handled(w) /\ job[w].op \in ReturnOp
BY SeeHandles, AnswerHandles, StepNames
   DEF ReturnStep, ReturnOp, InitiateReturn, ApproveReturn, RejectReturn, ReceiveReturn,
       CompleteReturn, ReturnFails, ReadReturn, SeeIf, At

LEMMA QuoteHandles ==
    ASSUME NEW w \in Worker, QuoteStep(w)
    PROVE  Handled(w) /\ job[w].op \in QuoteOp
BY SeeHandles, AnswerHandles, StepNames
   DEF QuoteStep, QuoteOp, CreateQuote, DrawUpQuote, SendQuote, AcceptQuote, RejectQuote,
       ConvertToOrder, QuoteFails, ReadQuote, WriteQuote, SeeIf, At

LEMMA CardHandles ==
    ASSUME NEW w \in Worker, CardStep(w)
    PROVE  Handled(w) /\ job[w].op \in CardOp
BY SeeHandles, GotoHandles, AnswerHandles, StepNames
   DEF CardStep, CardOp, CreateIntent, Confirm, CardFails, At

LEMMA LedgerHandles ==
    ASSUME NEW w \in Worker, LedgerStep(w)
    PROVE  Handled(w) /\ job[w].op \in LedgerOp
BY SeeHandles, GotoHandles, AnswerHandles, StepNames
   DEF LedgerStep, LedgerOp, CreateJournalEntry, CreateSystemJournalEntryByCode, PostJournalEntry,
       ReverseJournalEntry, CloseAccountingPeriod, LedgerFails, SeeIf, At

LEMMA DisputeHandles ==
    ASSUME NEW w \in Worker, DisputeStep(w)
    PROVE  Handled(w) /\ job[w].op \in DisputeOp \cup TaxOp
BY SeeHandles, AnswerHandles, StepNames
   DEF DisputeStep, DisputeOp, TaxOp, ResolveChargeback, RejectChargeback, GenerateReport,
       FileTaxReport, DisputeFails, ReadChargeback, SeeIf, At

LEMMA TripHandles ==
    ASSUME NEW w \in Worker, TripStep(w)
    PROVE  Handled(w) /\ job[w].op \in TripOp
BY SeeHandles, GotoHandles, AnswerHandles, StepNames
   DEF TripStep, TripOp, PlanOp, RoadOp, CreateTrip, AssignProvider, AddStop, AddPack, StartLoading,
       StartTrip, ArriveAtStop, CompleteStop, CompleteTrip, FailTrip, ReturnToWarehouse, TripFails,
       ReadTrip, ReadForCompletion, CommitTrip, SeeIf, At

LEMMA DispatchHandles ==
    ASSUME NEW w \in Worker, DispatchStep(w)
    PROVE  Handled(w) /\ job[w].op \in DispatchOp
BY SeeHandles, AnswerHandles, StepNames
   DEF DispatchStep, DispatchOp, JourneyOp, ManifestOp, PlanJourney, DispatchJourney,
   CreateManifest,
       AddOrders, SealManifest, DispatchManifest, CompleteManifest, DispatchFails, ReadManifest,
       SeeIf, At

LEMMA SubstitutionHandles ==
    ASSUME NEW w \in Worker, SubstitutionStep(w)
    PROVE  Handled(w) /\ job[w].op \in SubstitutionOp \cup PickOp
BY SeeHandles, AnswerHandles, StepNames
   DEF SubstitutionStep, SubstitutionOp, PickOp, PickOne, Suggest, ApproveSubstitution,
       RejectSubstitution, SubstitutionFails, ReadProposal, SeeIf, At

LEMMA AccountHandles ==
    ASSUME NEW w \in Worker, AccountStep(w)
    PROVE  Handled(w) /\ job[w].op \in AccountOp
BY SeeHandles, GotoHandles, AnswerHandles, StepNames
   DEF AccountStep, AccountOp, AdminOp, TenantOp, HookOp, SignUp, SuspendTenant, ReactivateTenant,
       DeleteTenant, ChangeTenantPlan, CancelSubscription, ForceRenewal, GrantSeat, ApplyPayment,
       HandlePlanChange, CreateSeat, ProcessStripePaymentSuccess, ProcessStripePaymentFailure,
       ProcessStripeSubscriptionUpdate, ProcessStripeSubscriptionDeleted, AccountFails,
       ReadAccount, FindLinked, SeeIf, At

LEMMA IdempotencyHandles ==
    ASSUME NEW w \in Worker, IdempotencyStep(w)
    PROVE  Handled(w) /\ job[w].op \in {"WRITE"}
BY SeeHandles, GotoHandles, AnswerHandles, StepNames
   DEF IdempotencyStep, LookUp, DeleteExpired, Claim, LetThrough, Effect, Respond, SeeIf, At
-----------------------------------------------------------------------------
(***************************************************************************)
(* A step of the back office is a step of one component, or of its world;  *)
(* the others rest meanwhile.                                              *)
(***************************************************************************)
TransferRests == UNCHANGED transfers /\ Elsewhere(TransferOp)
PurchasingRests == UNCHANGED purchasing /\ Elsewhere(PurchasingOp)
ReturnRests == UNCHANGED returns /\ Elsewhere(ReturnOp)
QuoteRests == UNCHANGED quotes /\ Elsewhere(QuoteOp)
CardRests == UNCHANGED cards /\ Elsewhere(CardOp)
LedgerRests == UNCHANGED ledger /\ Elsewhere(LedgerOp)
DisputeRests == UNCHANGED disputes /\ Elsewhere(DisputeOp \cup TaxOp)
TripRests == UNCHANGED trips /\ Elsewhere(TripOp)
DispatchRests == UNCHANGED dispatching /\ Elsewhere(DispatchOp)
SubstitutionRests == UNCHANGED substitutions /\ Elsewhere(SubstitutionOp \cup PickOp)
AccountRests == UNCHANGED accounts /\ Elsewhere(AccountOp)
IdempotencyRests == UNCHANGED idempotency /\ Elsewhere({"WRITE"})

\* No operation belongs to two components.
LEMMA OpsApart ==
    /\ \A o \in TransferOp : o \notin
          PurchasingOp \cup ReturnOp \cup QuoteOp \cup CardOp \cup
          LedgerOp \cup DisputeOp \cup TaxOp \cup TripOp \cup
          DispatchOp \cup SubstitutionOp \cup PickOp \cup AccountOp \cup
          {"WRITE"}
    /\ \A o \in PurchasingOp : o \notin
          ReturnOp \cup QuoteOp \cup CardOp \cup LedgerOp \cup
          DisputeOp \cup TaxOp \cup TripOp \cup DispatchOp \cup
          SubstitutionOp \cup PickOp \cup AccountOp \cup {"WRITE"}
    /\ \A o \in ReturnOp : o \notin
          QuoteOp \cup CardOp \cup LedgerOp \cup DisputeOp \cup TaxOp \cup
          TripOp \cup DispatchOp \cup SubstitutionOp \cup PickOp \cup
          AccountOp \cup {"WRITE"}
    /\ \A o \in QuoteOp : o \notin
          CardOp \cup LedgerOp \cup DisputeOp \cup TaxOp \cup TripOp \cup
          DispatchOp \cup SubstitutionOp \cup PickOp \cup AccountOp \cup
          {"WRITE"}
    /\ \A o \in CardOp : o \notin
          LedgerOp \cup DisputeOp \cup TaxOp \cup TripOp \cup
          DispatchOp \cup SubstitutionOp \cup PickOp \cup AccountOp \cup
          {"WRITE"}
    /\ \A o \in LedgerOp : o \notin
          DisputeOp \cup TaxOp \cup TripOp \cup DispatchOp \cup
          SubstitutionOp \cup PickOp \cup AccountOp \cup {"WRITE"}
    /\ \A o \in DisputeOp \cup TaxOp : o \notin
          TripOp \cup DispatchOp \cup SubstitutionOp \cup PickOp \cup
          AccountOp \cup {"WRITE"}
    /\ \A o \in TripOp : o \notin
          DispatchOp \cup SubstitutionOp \cup PickOp \cup AccountOp \cup
          {"WRITE"}
    /\ \A o \in DispatchOp : o \notin
          SubstitutionOp \cup PickOp \cup AccountOp \cup {"WRITE"}
    /\ \A o \in SubstitutionOp \cup PickOp : o \notin
          AccountOp \cup {"WRITE"}
    /\ \A o \in AccountOp : o \notin
          {"WRITE"}
BY DEF TransferOp, PurchasingOp, InvoiceOp, ReturnToSupplierOp, ReturnOp, QuoteOp, CardOp, LedgerOp,
       DisputeOp, TaxOp, TripOp, PlanOp, RoadOp, DispatchOp, JourneyOp, ManifestOp, SubstitutionOp,
       PickOp, AccountOp, AdminOp, TenantOp, HookOp

TradeRests == TransferRests /\ PurchasingRests /\ ReturnRests /\ QuoteRests
FinanceRests == CardRests /\ LedgerRests /\ DisputeRests
FleetRests == TripRests /\ DispatchRests /\ SubstitutionRests
PlatformRests == AccountRests /\ IdempotencyRests

LEMMA WhileHandled ==
    ASSUME RequestsInv, NEW w \in Worker, Handled(w)
    PROVE  \A ops : job[w].op \notin ops => Elsewhere(ops)
BY HandledElsewhere

LEMMA TradeMoves ==
    ASSUME RequestsInv, NEW w \in Worker, TradeStep(w)
    PROVE  /\ TransferStep(w) \/ TransferRests
           /\ PurchasingStep(w) \/ PurchasingRests
           /\ ReturnStep(w) \/ ReturnRests
           /\ QuoteStep(w) \/ QuoteRests
           /\ FinanceRests /\ FleetRests /\ PlatformRests
<1>1. CASE TransferStep(w) /\ UNCHANGED <<purchasing, returns, quotes>>
  <2>1. Handled(w) /\ job[w].op \in TransferOp
    BY <1>1, TransferHandles
  <2>2. /\ job[w].op \notin PurchasingOp
        /\ job[w].op \notin ReturnOp
        /\ job[w].op \notin QuoteOp
        /\ job[w].op \notin CardOp
        /\ job[w].op \notin LedgerOp
        /\ job[w].op \notin DisputeOp \cup TaxOp
        /\ job[w].op \notin TripOp
        /\ job[w].op \notin DispatchOp
        /\ job[w].op \notin SubstitutionOp \cup PickOp
        /\ job[w].op \notin AccountOp
        /\ job[w].op \notin {"WRITE"}
    BY <2>1, OpsApart
  <2>3. /\ Elsewhere(PurchasingOp)
        /\ Elsewhere(ReturnOp)
        /\ Elsewhere(QuoteOp)
        /\ Elsewhere(CardOp)
        /\ Elsewhere(LedgerOp)
        /\ Elsewhere(DisputeOp \cup TaxOp)
        /\ Elsewhere(TripOp)
        /\ Elsewhere(DispatchOp)
        /\ Elsewhere(SubstitutionOp \cup PickOp)
        /\ Elsewhere(AccountOp)
        /\ Elsewhere({"WRITE"})
    BY <2>1, <2>2, WhileHandled
  <2> QED
    BY <1>1, <2>3 DEF TradeStep, finance, fleet, platform,
       FinanceRests, FleetRests, PlatformRests, PurchasingRests, ReturnRests, QuoteRests,
       CardRests, LedgerRests, DisputeRests, TripRests, DispatchRests, SubstitutionRests,
       AccountRests, IdempotencyRests
<1>2. CASE PurchasingStep(w) /\ UNCHANGED <<transfers, returns, quotes>>
  <2>1. Handled(w) /\ job[w].op \in PurchasingOp
    BY <1>2, PurchasingHandles
  <2>2. /\ job[w].op \notin TransferOp
        /\ job[w].op \notin ReturnOp
        /\ job[w].op \notin QuoteOp
        /\ job[w].op \notin CardOp
        /\ job[w].op \notin LedgerOp
        /\ job[w].op \notin DisputeOp \cup TaxOp
        /\ job[w].op \notin TripOp
        /\ job[w].op \notin DispatchOp
        /\ job[w].op \notin SubstitutionOp \cup PickOp
        /\ job[w].op \notin AccountOp
        /\ job[w].op \notin {"WRITE"}
    BY <2>1, OpsApart
  <2>3. /\ Elsewhere(TransferOp)
        /\ Elsewhere(ReturnOp)
        /\ Elsewhere(QuoteOp)
        /\ Elsewhere(CardOp)
        /\ Elsewhere(LedgerOp)
        /\ Elsewhere(DisputeOp \cup TaxOp)
        /\ Elsewhere(TripOp)
        /\ Elsewhere(DispatchOp)
        /\ Elsewhere(SubstitutionOp \cup PickOp)
        /\ Elsewhere(AccountOp)
        /\ Elsewhere({"WRITE"})
    BY <2>1, <2>2, WhileHandled
  <2> QED
    BY <1>2, <2>3 DEF TradeStep, finance, fleet, platform,
       FinanceRests, FleetRests, PlatformRests, TransferRests, ReturnRests, QuoteRests,
       CardRests, LedgerRests, DisputeRests, TripRests, DispatchRests, SubstitutionRests,
       AccountRests, IdempotencyRests
<1>3. CASE ReturnStep(w) /\ UNCHANGED <<transfers, purchasing, quotes>>
  <2>1. Handled(w) /\ job[w].op \in ReturnOp
    BY <1>3, ReturnHandles
  <2>2. /\ job[w].op \notin TransferOp
        /\ job[w].op \notin PurchasingOp
        /\ job[w].op \notin QuoteOp
        /\ job[w].op \notin CardOp
        /\ job[w].op \notin LedgerOp
        /\ job[w].op \notin DisputeOp \cup TaxOp
        /\ job[w].op \notin TripOp
        /\ job[w].op \notin DispatchOp
        /\ job[w].op \notin SubstitutionOp \cup PickOp
        /\ job[w].op \notin AccountOp
        /\ job[w].op \notin {"WRITE"}
    BY <2>1, OpsApart
  <2>3. /\ Elsewhere(TransferOp)
        /\ Elsewhere(PurchasingOp)
        /\ Elsewhere(QuoteOp)
        /\ Elsewhere(CardOp)
        /\ Elsewhere(LedgerOp)
        /\ Elsewhere(DisputeOp \cup TaxOp)
        /\ Elsewhere(TripOp)
        /\ Elsewhere(DispatchOp)
        /\ Elsewhere(SubstitutionOp \cup PickOp)
        /\ Elsewhere(AccountOp)
        /\ Elsewhere({"WRITE"})
    BY <2>1, <2>2, WhileHandled
  <2> QED
    BY <1>3, <2>3 DEF TradeStep, finance, fleet, platform,
       FinanceRests, FleetRests, PlatformRests, TransferRests, PurchasingRests, QuoteRests,
       CardRests, LedgerRests, DisputeRests, TripRests, DispatchRests, SubstitutionRests,
       AccountRests, IdempotencyRests
<1>4. CASE QuoteStep(w) /\ UNCHANGED <<transfers, purchasing, returns>>
  <2>1. Handled(w) /\ job[w].op \in QuoteOp
    BY <1>4, QuoteHandles
  <2>2. /\ job[w].op \notin TransferOp
        /\ job[w].op \notin PurchasingOp
        /\ job[w].op \notin ReturnOp
        /\ job[w].op \notin CardOp
        /\ job[w].op \notin LedgerOp
        /\ job[w].op \notin DisputeOp \cup TaxOp
        /\ job[w].op \notin TripOp
        /\ job[w].op \notin DispatchOp
        /\ job[w].op \notin SubstitutionOp \cup PickOp
        /\ job[w].op \notin AccountOp
        /\ job[w].op \notin {"WRITE"}
    BY <2>1, OpsApart
  <2>3. /\ Elsewhere(TransferOp)
        /\ Elsewhere(PurchasingOp)
        /\ Elsewhere(ReturnOp)
        /\ Elsewhere(CardOp)
        /\ Elsewhere(LedgerOp)
        /\ Elsewhere(DisputeOp \cup TaxOp)
        /\ Elsewhere(TripOp)
        /\ Elsewhere(DispatchOp)
        /\ Elsewhere(SubstitutionOp \cup PickOp)
        /\ Elsewhere(AccountOp)
        /\ Elsewhere({"WRITE"})
    BY <2>1, <2>2, WhileHandled
  <2> QED
    BY <1>4, <2>3 DEF TradeStep, finance, fleet, platform,
       FinanceRests, FleetRests, PlatformRests, TransferRests, PurchasingRests, ReturnRests,
       CardRests, LedgerRests, DisputeRests, TripRests, DispatchRests, SubstitutionRests,
       AccountRests, IdempotencyRests
<1> QED
  BY <1>1, <1>2, <1>3, <1>4 DEF TradeStep

LEMMA FinanceMoves ==
    ASSUME RequestsInv, NEW w \in Worker, FinanceStep(w)
    PROVE  /\ CardStep(w) \/ CardRests
           /\ LedgerStep(w) \/ LedgerRests
           /\ DisputeStep(w) \/ DisputeRests
           /\ TradeRests /\ FleetRests /\ PlatformRests
<1>1. CASE CardStep(w) /\ UNCHANGED <<ledger, disputes>>
  <2>1. Handled(w) /\ job[w].op \in CardOp
    BY <1>1, CardHandles
  <2>2. /\ job[w].op \notin TransferOp
        /\ job[w].op \notin PurchasingOp
        /\ job[w].op \notin ReturnOp
        /\ job[w].op \notin QuoteOp
        /\ job[w].op \notin LedgerOp
        /\ job[w].op \notin DisputeOp \cup TaxOp
        /\ job[w].op \notin TripOp
        /\ job[w].op \notin DispatchOp
        /\ job[w].op \notin SubstitutionOp \cup PickOp
        /\ job[w].op \notin AccountOp
        /\ job[w].op \notin {"WRITE"}
    BY <2>1, OpsApart
  <2>3. /\ Elsewhere(TransferOp)
        /\ Elsewhere(PurchasingOp)
        /\ Elsewhere(ReturnOp)
        /\ Elsewhere(QuoteOp)
        /\ Elsewhere(LedgerOp)
        /\ Elsewhere(DisputeOp \cup TaxOp)
        /\ Elsewhere(TripOp)
        /\ Elsewhere(DispatchOp)
        /\ Elsewhere(SubstitutionOp \cup PickOp)
        /\ Elsewhere(AccountOp)
        /\ Elsewhere({"WRITE"})
    BY <2>1, <2>2, WhileHandled
  <2> QED
    BY <1>1, <2>3 DEF FinanceStep, trade, fleet, platform,
       TradeRests, FleetRests, PlatformRests, TransferRests, PurchasingRests, ReturnRests,
       QuoteRests, LedgerRests, DisputeRests, TripRests, DispatchRests, SubstitutionRests,
       AccountRests, IdempotencyRests
<1>2. CASE LedgerStep(w) /\ UNCHANGED <<cards, disputes>>
  <2>1. Handled(w) /\ job[w].op \in LedgerOp
    BY <1>2, LedgerHandles
  <2>2. /\ job[w].op \notin TransferOp
        /\ job[w].op \notin PurchasingOp
        /\ job[w].op \notin ReturnOp
        /\ job[w].op \notin QuoteOp
        /\ job[w].op \notin CardOp
        /\ job[w].op \notin DisputeOp \cup TaxOp
        /\ job[w].op \notin TripOp
        /\ job[w].op \notin DispatchOp
        /\ job[w].op \notin SubstitutionOp \cup PickOp
        /\ job[w].op \notin AccountOp
        /\ job[w].op \notin {"WRITE"}
    BY <2>1, OpsApart
  <2>3. /\ Elsewhere(TransferOp)
        /\ Elsewhere(PurchasingOp)
        /\ Elsewhere(ReturnOp)
        /\ Elsewhere(QuoteOp)
        /\ Elsewhere(CardOp)
        /\ Elsewhere(DisputeOp \cup TaxOp)
        /\ Elsewhere(TripOp)
        /\ Elsewhere(DispatchOp)
        /\ Elsewhere(SubstitutionOp \cup PickOp)
        /\ Elsewhere(AccountOp)
        /\ Elsewhere({"WRITE"})
    BY <2>1, <2>2, WhileHandled
  <2> QED
    BY <1>2, <2>3 DEF FinanceStep, trade, fleet, platform,
       TradeRests, FleetRests, PlatformRests, TransferRests, PurchasingRests, ReturnRests,
       QuoteRests, CardRests, DisputeRests, TripRests, DispatchRests, SubstitutionRests,
       AccountRests, IdempotencyRests
<1>3. CASE DisputeStep(w) /\ UNCHANGED <<cards, ledger>>
  <2>1. Handled(w) /\ job[w].op \in DisputeOp \cup TaxOp
    BY <1>3, DisputeHandles
  <2>2. /\ job[w].op \notin TransferOp
        /\ job[w].op \notin PurchasingOp
        /\ job[w].op \notin ReturnOp
        /\ job[w].op \notin QuoteOp
        /\ job[w].op \notin CardOp
        /\ job[w].op \notin LedgerOp
        /\ job[w].op \notin TripOp
        /\ job[w].op \notin DispatchOp
        /\ job[w].op \notin SubstitutionOp \cup PickOp
        /\ job[w].op \notin AccountOp
        /\ job[w].op \notin {"WRITE"}
    BY <2>1, OpsApart
  <2>3. /\ Elsewhere(TransferOp)
        /\ Elsewhere(PurchasingOp)
        /\ Elsewhere(ReturnOp)
        /\ Elsewhere(QuoteOp)
        /\ Elsewhere(CardOp)
        /\ Elsewhere(LedgerOp)
        /\ Elsewhere(TripOp)
        /\ Elsewhere(DispatchOp)
        /\ Elsewhere(SubstitutionOp \cup PickOp)
        /\ Elsewhere(AccountOp)
        /\ Elsewhere({"WRITE"})
    BY <2>1, <2>2, WhileHandled
  <2> QED
    BY <1>3, <2>3 DEF FinanceStep, trade, fleet, platform,
       TradeRests, FleetRests, PlatformRests, TransferRests, PurchasingRests, ReturnRests,
       QuoteRests, CardRests, LedgerRests, TripRests, DispatchRests, SubstitutionRests,
       AccountRests, IdempotencyRests
<1> QED
  BY <1>1, <1>2, <1>3 DEF FinanceStep

LEMMA FleetMoves ==
    ASSUME RequestsInv, NEW w \in Worker, FleetStep(w)
    PROVE  /\ TripStep(w) \/ TripRests
           /\ DispatchStep(w) \/ DispatchRests
           /\ SubstitutionStep(w) \/ SubstitutionRests
           /\ TradeRests /\ FinanceRests /\ PlatformRests
<1>1. CASE TripStep(w) /\ UNCHANGED <<dispatching, substitutions>>
  <2>1. Handled(w) /\ job[w].op \in TripOp
    BY <1>1, TripHandles
  <2>2. /\ job[w].op \notin TransferOp
        /\ job[w].op \notin PurchasingOp
        /\ job[w].op \notin ReturnOp
        /\ job[w].op \notin QuoteOp
        /\ job[w].op \notin CardOp
        /\ job[w].op \notin LedgerOp
        /\ job[w].op \notin DisputeOp \cup TaxOp
        /\ job[w].op \notin DispatchOp
        /\ job[w].op \notin SubstitutionOp \cup PickOp
        /\ job[w].op \notin AccountOp
        /\ job[w].op \notin {"WRITE"}
    BY <2>1, OpsApart
  <2>3. /\ Elsewhere(TransferOp)
        /\ Elsewhere(PurchasingOp)
        /\ Elsewhere(ReturnOp)
        /\ Elsewhere(QuoteOp)
        /\ Elsewhere(CardOp)
        /\ Elsewhere(LedgerOp)
        /\ Elsewhere(DisputeOp \cup TaxOp)
        /\ Elsewhere(DispatchOp)
        /\ Elsewhere(SubstitutionOp \cup PickOp)
        /\ Elsewhere(AccountOp)
        /\ Elsewhere({"WRITE"})
    BY <2>1, <2>2, WhileHandled
  <2> QED
    BY <1>1, <2>3 DEF FleetStep, trade, finance, platform,
       TradeRests, FinanceRests, PlatformRests, TransferRests, PurchasingRests, ReturnRests,
       QuoteRests, CardRests, LedgerRests, DisputeRests, DispatchRests, SubstitutionRests,
       AccountRests, IdempotencyRests
<1>2. CASE DispatchStep(w) /\ UNCHANGED <<trips, substitutions>>
  <2>1. Handled(w) /\ job[w].op \in DispatchOp
    BY <1>2, DispatchHandles
  <2>2. /\ job[w].op \notin TransferOp
        /\ job[w].op \notin PurchasingOp
        /\ job[w].op \notin ReturnOp
        /\ job[w].op \notin QuoteOp
        /\ job[w].op \notin CardOp
        /\ job[w].op \notin LedgerOp
        /\ job[w].op \notin DisputeOp \cup TaxOp
        /\ job[w].op \notin TripOp
        /\ job[w].op \notin SubstitutionOp \cup PickOp
        /\ job[w].op \notin AccountOp
        /\ job[w].op \notin {"WRITE"}
    BY <2>1, OpsApart
  <2>3. /\ Elsewhere(TransferOp)
        /\ Elsewhere(PurchasingOp)
        /\ Elsewhere(ReturnOp)
        /\ Elsewhere(QuoteOp)
        /\ Elsewhere(CardOp)
        /\ Elsewhere(LedgerOp)
        /\ Elsewhere(DisputeOp \cup TaxOp)
        /\ Elsewhere(TripOp)
        /\ Elsewhere(SubstitutionOp \cup PickOp)
        /\ Elsewhere(AccountOp)
        /\ Elsewhere({"WRITE"})
    BY <2>1, <2>2, WhileHandled
  <2> QED
    BY <1>2, <2>3 DEF FleetStep, trade, finance, platform,
       TradeRests, FinanceRests, PlatformRests, TransferRests, PurchasingRests, ReturnRests,
       QuoteRests, CardRests, LedgerRests, DisputeRests, TripRests, SubstitutionRests,
       AccountRests, IdempotencyRests
<1>3. CASE SubstitutionStep(w) /\ UNCHANGED <<trips, dispatching>>
  <2>1. Handled(w) /\ job[w].op \in SubstitutionOp \cup PickOp
    BY <1>3, SubstitutionHandles
  <2>2. /\ job[w].op \notin TransferOp
        /\ job[w].op \notin PurchasingOp
        /\ job[w].op \notin ReturnOp
        /\ job[w].op \notin QuoteOp
        /\ job[w].op \notin CardOp
        /\ job[w].op \notin LedgerOp
        /\ job[w].op \notin DisputeOp \cup TaxOp
        /\ job[w].op \notin TripOp
        /\ job[w].op \notin DispatchOp
        /\ job[w].op \notin AccountOp
        /\ job[w].op \notin {"WRITE"}
    BY <2>1, OpsApart
  <2>3. /\ Elsewhere(TransferOp)
        /\ Elsewhere(PurchasingOp)
        /\ Elsewhere(ReturnOp)
        /\ Elsewhere(QuoteOp)
        /\ Elsewhere(CardOp)
        /\ Elsewhere(LedgerOp)
        /\ Elsewhere(DisputeOp \cup TaxOp)
        /\ Elsewhere(TripOp)
        /\ Elsewhere(DispatchOp)
        /\ Elsewhere(AccountOp)
        /\ Elsewhere({"WRITE"})
    BY <2>1, <2>2, WhileHandled
  <2> QED
    BY <1>3, <2>3 DEF FleetStep, trade, finance, platform,
       TradeRests, FinanceRests, PlatformRests, TransferRests, PurchasingRests, ReturnRests,
       QuoteRests, CardRests, LedgerRests, DisputeRests, TripRests, DispatchRests,
       AccountRests, IdempotencyRests
<1> QED
  BY <1>1, <1>2, <1>3 DEF FleetStep

LEMMA PlatformMoves ==
    ASSUME RequestsInv, NEW w \in Worker, PlatformStep(w)
    PROVE  /\ AccountStep(w) \/ AccountRests
           /\ IdempotencyStep(w) \/ IdempotencyRests
           /\ TradeRests /\ FinanceRests /\ FleetRests
<1>1. CASE AccountStep(w) /\ UNCHANGED <<idempotency>>
  <2>1. Handled(w) /\ job[w].op \in AccountOp
    BY <1>1, AccountHandles
  <2>2. /\ job[w].op \notin TransferOp
        /\ job[w].op \notin PurchasingOp
        /\ job[w].op \notin ReturnOp
        /\ job[w].op \notin QuoteOp
        /\ job[w].op \notin CardOp
        /\ job[w].op \notin LedgerOp
        /\ job[w].op \notin DisputeOp \cup TaxOp
        /\ job[w].op \notin TripOp
        /\ job[w].op \notin DispatchOp
        /\ job[w].op \notin SubstitutionOp \cup PickOp
        /\ job[w].op \notin {"WRITE"}
    BY <2>1, OpsApart
  <2>3. /\ Elsewhere(TransferOp)
        /\ Elsewhere(PurchasingOp)
        /\ Elsewhere(ReturnOp)
        /\ Elsewhere(QuoteOp)
        /\ Elsewhere(CardOp)
        /\ Elsewhere(LedgerOp)
        /\ Elsewhere(DisputeOp \cup TaxOp)
        /\ Elsewhere(TripOp)
        /\ Elsewhere(DispatchOp)
        /\ Elsewhere(SubstitutionOp \cup PickOp)
        /\ Elsewhere({"WRITE"})
    BY <2>1, <2>2, WhileHandled
  <2> QED
    BY <1>1, <2>3 DEF PlatformStep, trade, finance, fleet,
       TradeRests, FinanceRests, FleetRests, TransferRests, PurchasingRests, ReturnRests,
       QuoteRests, CardRests, LedgerRests, DisputeRests, TripRests, DispatchRests,
       SubstitutionRests, IdempotencyRests
<1>2. CASE IdempotencyStep(w) /\ UNCHANGED <<accounts>>
  <2>1. Handled(w) /\ job[w].op \in {"WRITE"}
    BY <1>2, IdempotencyHandles
  <2>2. /\ job[w].op \notin TransferOp
        /\ job[w].op \notin PurchasingOp
        /\ job[w].op \notin ReturnOp
        /\ job[w].op \notin QuoteOp
        /\ job[w].op \notin CardOp
        /\ job[w].op \notin LedgerOp
        /\ job[w].op \notin DisputeOp \cup TaxOp
        /\ job[w].op \notin TripOp
        /\ job[w].op \notin DispatchOp
        /\ job[w].op \notin SubstitutionOp \cup PickOp
        /\ job[w].op \notin AccountOp
    BY <2>1, OpsApart
  <2>3. /\ Elsewhere(TransferOp)
        /\ Elsewhere(PurchasingOp)
        /\ Elsewhere(ReturnOp)
        /\ Elsewhere(QuoteOp)
        /\ Elsewhere(CardOp)
        /\ Elsewhere(LedgerOp)
        /\ Elsewhere(DisputeOp \cup TaxOp)
        /\ Elsewhere(TripOp)
        /\ Elsewhere(DispatchOp)
        /\ Elsewhere(SubstitutionOp \cup PickOp)
        /\ Elsewhere(AccountOp)
    BY <2>1, <2>2, WhileHandled
  <2> QED
    BY <1>2, <2>3 DEF PlatformStep, trade, finance, fleet,
       TradeRests, FinanceRests, FleetRests, TransferRests, PurchasingRests, ReturnRests,
       QuoteRests, CardRests, LedgerRests, DisputeRests, TripRests, DispatchRests,
       SubstitutionRests, AccountRests
<1> QED
  BY <1>1, <1>2 DEF PlatformStep

AllRest == TradeRests /\ FinanceRests /\ FleetRests /\ PlatformRests

LEMMA NothingMoves ==
    ASSUME RequestsInv, UNCHANGED business,
           (\E w \in Worker, r \in todo : Send(w, r)) \/ UNCHANGED requests
    PROVE  AllRest
<1>1. \A ops : Elsewhere(ops)
  BY SendElsewhere, RestElsewhere
<1> QED
  BY <1>1 DEF business, trade, finance, fleet, platform, AllRest, TradeRests, FinanceRests,
     FleetRests, PlatformRests, TransferRests, PurchasingRests, ReturnRests, QuoteRests, CardRests,
     LedgerRests, DisputeRests, TripRests, DispatchRests, SubstitutionRests, AccountRests,
     IdempotencyRests

\* What happens outside a request concerns one component each.
LEMMA WorldMoves ==
    ASSUME RequestsInv, World
    PROVE  /\ TransferRests /\ PurchasingRests /\ ReturnRests /\ LedgerRests /\ DisputeRests
           /\ FleetRests /\ AccountRests
           /\ CardRests \/ \E i \in Intent : CustomerPays(i)
           /\ QuoteRests \/ QuoteWorld
           /\ IdempotencyRests \/ IdempotencyWorld
<1>1. ASSUME IdempotencyWorld
      PROVE  UNCHANGED requests \/ AllDie
  BY <1>1 DEF IdempotencyWorld, Execute, Expires, ProcessDies, AllDie
<1>2. UNCHANGED requests \/ AllDie
  BY <1>1 DEF World, CustomerPays, QuoteWorld, Lapses, ExpireStaleQuotes
<1>3. \A ops : Elsewhere(ops)
  BY <1>2, RestElsewhere, DeathElsewhere
<1> QED
  BY <1>3 DEF World, trade, finance, fleet, platform, FleetRests, TransferRests, PurchasingRests,
     ReturnRests, QuoteRests, CardRests, LedgerRests, DisputeRests, TripRests, DispatchRests,
     SubstitutionRests, AccountRests, IdempotencyRests

LEMMA BackOfficeMoves ==
    ASSUME RequestsInv, BackOfficeNext
    PROVE  /\ RequestsMove
           /\ TransferRests \/ (\E w \in Worker : TransferStep(w))
           /\ PurchasingRests \/ (\E w \in Worker : PurchasingStep(w))
           /\ ReturnRests \/ (\E w \in Worker : ReturnStep(w))
           /\ QuoteRests \/ (\E w \in Worker : QuoteStep(w)) \/ QuoteWorld
           /\ CardRests \/ (\E w \in Worker : CardStep(w)) \/ (\E i \in Intent : CustomerPays(i))
           /\ LedgerRests \/ (\E w \in Worker : LedgerStep(w))
           /\ DisputeRests \/ (\E w \in Worker : DisputeStep(w))
           /\ TripRests \/ (\E w \in Worker : TripStep(w))
           /\ DispatchRests \/ (\E w \in Worker : DispatchStep(w))
           /\ SubstitutionRests \/ (\E w \in Worker : SubstitutionStep(w))
           /\ AccountRests \/ (\E w \in Worker : AccountStep(w))
           /\ IdempotencyRests \/ (\E w \in Worker : IdempotencyStep(w)) \/ IdempotencyWorld
<1>1. ASSUME NEW w \in Worker, TradeStep(w) \/ FinanceStep(w) \/ FleetStep(w) \/ PlatformStep(w)
      PROVE  /\ Handled(w)
             /\ TransferRests \/ TransferStep(w)
             /\ PurchasingRests \/ PurchasingStep(w)
             /\ ReturnRests \/ ReturnStep(w)
             /\ QuoteRests \/ QuoteStep(w)
             /\ CardRests \/ CardStep(w)
             /\ LedgerRests \/ LedgerStep(w)
             /\ DisputeRests \/ DisputeStep(w)
             /\ TripRests \/ TripStep(w)
             /\ DispatchRests \/ DispatchStep(w)
             /\ SubstitutionRests \/ SubstitutionStep(w)
             /\ AccountRests \/ AccountStep(w)
             /\ IdempotencyRests \/ IdempotencyStep(w)
  <2>1. Handled(w)
    BY <1>1, TransferHandles, PurchasingHandles, ReturnHandles, QuoteHandles, CardHandles,
    LedgerHandles, DisputeHandles, TripHandles, DispatchHandles, SubstitutionHandles,
    AccountHandles, IdempotencyHandles
       DEF TradeStep, FinanceStep, FleetStep, PlatformStep
  <2>2. CASE TradeStep(w)
    BY <2>1, <2>2, TradeMoves DEF FinanceRests, FleetRests, PlatformRests
  <2>3. CASE FinanceStep(w)
    BY <2>1, <2>3, FinanceMoves DEF TradeRests, FleetRests, PlatformRests
  <2>4. CASE FleetStep(w)
    BY <2>1, <2>4, FleetMoves DEF TradeRests, FinanceRests, PlatformRests
  <2>5. CASE PlatformStep(w)
    BY <2>1, <2>5, PlatformMoves DEF TradeRests, FinanceRests, FleetRests
  <2> QED
    BY <1>1, <2>2, <2>3, <2>4, <2>5
<1>2. CASE World
  <2>1. UNCHANGED requests \/ AllDie
    BY <1>2 DEF World, CustomerPays, QuoteWorld, Lapses, ExpireStaleQuotes, IdempotencyWorld,
    Execute,
       Expires, ProcessDies, AllDie
  <2> QED
    BY <1>2, <2>1, WorldMoves DEF RequestsMove, FleetRests
<1>3. CASE \E w \in Worker, r \in todo : Send(w, r) /\ UNCHANGED business
  BY <1>3, NothingMoves DEF RequestsMove, AllRest, TradeRests, FinanceRests, FleetRests,
  PlatformRests
<1>4. CASE Quiet /\ UNCHANGED <<requests, business>>
  BY <1>4, NothingMoves DEF RequestsMove, AllRest, TradeRests, FinanceRests, FleetRests,
  PlatformRests
<1>5. CASE \E w \in Worker : TradeStep(w) \/ FinanceStep(w) \/ FleetStep(w) \/ PlatformStep(w)
  BY <1>1, <1>5 DEF RequestsMove
<1> QED
  BY <1>2, <1>3, <1>4, <1>5 DEF BackOfficeNext

\* A stuttering step.
LEMMA BackOfficeStutters ==
    ASSUME RequestsInv, UNCHANGED <<requests, business>>
    PROVE  RequestsMove /\ AllRest
BY NothingMoves DEF RequestsMove

LEMMA RequestsHold == BackOfficeSpec => []RequestsInv
<1>1. BackOfficeInit => RequestsInv
  BY RequestsStart DEF BackOfficeInit
<1>2. RequestsInv /\ [BackOfficeNext]_<<requests, business>> => RequestsInv'
  <2>1. ASSUME RequestsInv, BackOfficeNext PROVE RequestsInv'
    BY <2>1, BackOfficeMoves, RequestsKept
  <2>2. ASSUME RequestsInv, UNCHANGED <<requests, business>> PROVE RequestsInv'
    BY <2>2, BackOfficeStutters, RequestsKept
  <2> QED
    BY <2>1, <2>2
<1> QED
  BY <1>1, <1>2, PTL DEF BackOfficeSpec
-----------------------------------------------------------------------------
(***************************************************************************)
(* Branch transfers: the goods leave once and arrive once.  A handler that *)
(* is about to write holds a copy of the row, which is the row itself as   *)
(* long as the version has not moved on.                                   *)
(***************************************************************************)
TransferTarget(w) ==
    CASE job[w].op = "APPROVE_TRANSFER" -> "APPROVED"
      [] job[w].op = "SHIP_TRANSFER" -> "SHIPPED"
      [] OTHER -> "RECEIVED"

TransferFits(w) ==
    pc[w] = "commit" /\ job[w].op \in {"APPROVE_TRANSFER", "SHIP_TRANSFER", "RECEIVE_TRANSFER"} =>
       LET row == transfer[job[w].transfer] IN
       /\ row.status # "NONE"
       /\ saw[w].version <= row.version
       /\ saw[w].version = row.version => saw[w] = row
       /\ TransferTarget(w) \in BRANCH_TRANSFER_TRANSITIONS[saw[w].status]
       /\ job[w].op = "RECEIVE_TRANSFER" => WithinShipped(job[w].receipt, job[w].transfer, saw[w].shipped)

\* A transfer is not created twice, and ships what was asked for.
TransferInv ==
    /\ TransferTypeOK
    /\ \A w \in Worker : TransferFits(w)
    /\ \A r \in Live : r.op = "CREATE_TRANSFER" => transfer[r.transfer].status = "NONE"
    /\ \A t \in Transfer : transfer[t].status \in {"SHIPPED", "RECEIVED"} => transfer[t].shipped = Wanted

\* Other handlers see a row replaced only together with its version.
TransferGrows ==
    \A t \in Transfer : transfer[t].status # "NONE" =>
        transfer'[t] = transfer[t]
        \/ (transfer'[t].status # "NONE" /\ transfer'[t].version > transfer[t].version)

LEMMA TransferRequest ==
    ASSUME RequestsInv, NEW w \in Worker, pc[w] # "idle", job[w].op \in TransferOp
    PROVE  job[w].transfer \in Transfer /\ job[w].items \in Quantity /\ job[w].receipt \in Receipt /\ job[w] \in Live
<1>1. job[w] \in Request /\ job[w] \in Live
  BY JobIsRequest
<1>2. job[w] \in [op: TransferOp, transfer: Transfer, items: Quantity, receipt: Receipt, by: Nat]
  BY <1>1, TransferAssumption
<1> QED
  BY <1>1, <1>2

\* What the items of a transfer come to is a number, of whatever sign.
LEMMA PerProductType ==
    ASSUME NEW q \in ItemQuantity, NEW t
    PROVE  PerProduct(q, t) \in Quantity
<1>1. ASSUME NEW p \in Product
      PROVE  Together(q, ItemsOf(t, p)) \in Int
  <2> DEFINE S == ItemsOf(t, p)
  <2>1. S \subseteq Item
    BY DEF ItemsOf
  <2>2. IsFiniteSet(S)
    BY <2>1, TransferAssumption, FS_Subset
  <2>3. \A x \in S : q[x] \in Int
    BY <2>1 DEF ItemQuantity
  <2>4. Together(q, S) = SumOn(q, S)
    BY Zenon DEF Together, SumOn
  <2> HIDE DEF S
  <2>5. Together(q, S) \in Int
    BY <2>2, <2>3, <2>4, SumIsInt
  <2> QED
    BY <2>5 DEF S
<1> QED
  BY <1>1 DEF PerProduct, Quantity

\* Of a receipt that lists no item twice and nothing below zero, no more
\* arrives than left.
LEMMA NoMoreThanLeft ==
    ASSUME NEW r \in Receipt, NEW t, WithinShipped(r, t, Wanted),
           \A i \in Item : Len(r[i]) <= 1 /\ \A k \in DOMAIN r[i] : r[i][k] >= 0,
           \A i \in Item : Wanted[i] >= 0, NEW p \in Product
    PROVE  PerProduct(Listed(r), t)[p] \in 0..PerProduct(Wanted, t)[p]
<1> DEFINE S == ItemsOf(t, p)
           f == Listed(r)
           zeros == [i \in Item |-> 0]
<1>1. S \subseteq Item /\ IsFiniteSet(S)
  <2>1. S \subseteq Item
    BY DEF ItemsOf
  <2> QED
    BY <2>1, TransferAssumption, FS_Subset
<1>2. ASSUME NEW i \in Item
      PROVE  f[i] \in Int /\ Wanted[i] \in Int /\ 0 <= f[i] /\ f[i] <= Wanted[i]
  <2> DEFINE q == r[i]
  <2>1. q \in Seq(Int) /\ Len(q) \in Nat /\ DOMAIN q = 1..Len(q) /\ Wanted[i] \in Int
    BY TransferAssumption DEF Receipt, ItemQuantity
  <2>2. f[i] = SumOn(q, DOMAIN q)
    <3>1. f[i] = Together(q, DOMAIN q)
      BY DEF Listed
    <3>2. Together(q, DOMAIN q) = SumOn(q, DOMAIN q)
      BY Zenon DEF Together, SumOn
    <3> QED
      BY <3>1, <3>2
  <2>3. Len(q) \in {0, 1}
    <3>1. Len(q) <= 1
      OBVIOUS
    <3> HIDE DEF q
    <3> QED
      BY <2>1, <3>1
  <2>4. CASE Len(q) = 0
    <3>1. DOMAIN q = {}
      BY <2>1, <2>4
    <3> QED
      BY <2>1, <2>2, <3>1, SumOfNone
  <2>5. CASE Len(q) = 1
    <3>1. DOMAIN q = {1} /\ q[1] \in Int /\ q[1] >= 0 /\ q[1] <= Wanted[i]
      BY <2>1, <2>5 DEF WithinShipped
    <3>2. IsFiniteSet({1}) /\ {1} \ {1} = {}
      BY FS_Singleton
    <3>3. \A y \in {1} : q[y] \in Int
      BY <3>1
    <3> HIDE DEF q
    <3>4. SumOn(q, {1}) = q[1] + SumOn(q, {1} \ {1})
      <4> DEFINE U == {1}
      <4>1. 1 \in U /\ IsFiniteSet(U) /\ \A y \in U : q[y] \in Int
        BY <3>2, <3>3
      <4> HIDE DEF U
      <4>2. SumOn(q, U) = q[1] + SumOn(q, U \ {1})
        BY <4>1, SumSplits
      <4> QED
        BY <4>2 DEF U
    <3>5. SumOn(q, {1} \ {1}) = 0
      BY <3>2, SumOfNone
    <3>6. SumOn(q, {1}) = q[1]
      BY <3>1, <3>4, <3>5
    <3> QED
      BY <2>1, <2>2, <3>1, <3>6
  <2> QED
    BY <2>3, <2>4, <2>5
<1>3. PerProduct(f, t)[p] = SumOn(f, S) /\ PerProduct(Wanted, t)[p] = SumOn(Wanted, S)
  <2>1. PerProduct(f, t)[p] = Together(f, S) /\ PerProduct(Wanted, t)[p] = Together(Wanted, S)
    BY DEF PerProduct
  <2>2. Together(f, S) = SumOn(f, S)
    BY Zenon DEF Together, SumOn
  <2>3. Together(Wanted, S) = SumOn(Wanted, S)
    BY Zenon DEF Together, SumOn
  <2> QED
    BY <2>1, <2>2, <2>3
<1> HIDE DEF f
<1>4. /\ SumOn(f, S) <= SumOn(Wanted, S) /\ SumOn(zeros, S) <= SumOn(f, S)
      /\ SumOn(f, S) \in Int /\ SumOn(Wanted, S) \in Int
  <2> HIDE DEF S
  <2>1. \A i \in S : zeros[i] \in Int /\ f[i] \in Int /\ zeros[i] <= f[i]
    BY <1>1, <1>2
  <2>2. \A i \in S : f[i] \in Int /\ Wanted[i] \in Int /\ f[i] <= Wanted[i]
    BY <1>1, <1>2
  <2> HIDE DEF zeros
  <2>3. SumOn(zeros, S) <= SumOn(f, S)
    BY <1>1, <2>1, SumGrows
  <2>4. SumOn(f, S) <= SumOn(Wanted, S)
    BY <1>1, <2>2, SumGrows
  <2> QED
    BY <1>1, <2>2, <2>3, <2>4, SumIsInt
<1>5. SumOn(zeros, S) = 0
  <2> HIDE DEF S
  <2>1. {} \in SUBSET S /\ \A x \in S : zeros[x] \in Int /\ zeros[x] = 0
    BY <1>1
  <2> HIDE DEF zeros
  <2> QED
    BY <1>1, <2>1, SumOfZeros, SumOfNone
<1> HIDE DEF S
<1> QED
  BY <1>3, <1>4, <1>5 DEF f, S

LEMMA ReceiptType ==
    ASSUME NEW r \in Receipt, NEW q \in ItemQuantity
    PROVE  Listed(r) \in ItemQuantity /\ LastListed(r, q) \in ItemQuantity
<1>1. ASSUME NEW i \in Item
      PROVE  /\ Together(r[i], DOMAIN r[i]) \in Int
             /\ r[i] # <<>> => r[i][Len(r[i])] \in Int
             /\ q[i] \in Int
  <2> DEFINE f == r[i]
             S == DOMAIN f
  <2>1. f \in Seq(Int) /\ q[i] \in Int
    BY DEF Receipt, ItemQuantity
  <2>2. Len(f) \in Nat /\ S = 1..Len(f) /\ \A k \in S : f[k] \in Int
    BY <2>1
  <2>3. IsFiniteSet(S)
    BY <2>2, FS_Interval
  <2>4. Together(f, S) = SumOn(f, S)
    BY Zenon DEF Together, SumOn
  <2>5. f # <<>> => f[Len(f)] \in Int
    BY <2>1, <2>2
  <2> HIDE DEF S, f
  <2>6. Together(f, S) \in Int
    BY <2>2, <2>3, <2>4, SumIsInt
  <2> QED
    BY <2>1, <2>5, <2>6 DEF S, f
<1> QED
  BY <1>1 DEF Listed, LastListed, ItemQuantity

LEMMA TransferMoves ==
    ASSUME NEW s \in TransferStatus
    PROVE  /\ "APPROVED" \in BRANCH_TRANSFER_TRANSITIONS[s] => s = "REQUESTED"
           /\ "SHIPPED" \in BRANCH_TRANSFER_TRANSITIONS[s] => s = "APPROVED"
           /\ "RECEIVED" \in BRANCH_TRANSFER_TRANSITIONS[s] => s = "SHIPPED"
BY DEF BRANCH_TRANSFER_TRANSITIONS, TransferStatus

LEMMA TransferRestsKeeps ==
    ASSUME RequestsInv, TransferInv, TransferRests
    PROVE  TransferInv'
<1>1. UNCHANGED transfers /\ Elsewhere(TransferOp)
  BY DEF TransferRests
<1>2. TransferTypeOK'
  BY <1>1 DEF TransferInv, TransferTypeOK, transfers, Elsewhere, Rests
<1>3. ASSUME NEW v \in Worker
      PROVE  TransferFits(v)'
  <2>1. TransferFits(v)
    BY DEF TransferInv
  <2>2. transfer' = transfer
    BY <1>1 DEF transfers
  <2>3. CASE Rests(v)
    BY <2>1, <2>2, <2>3 DEF Rests, TransferFits, TransferTarget
  <2>4. CASE ~ Rests(v)
    BY <1>1, <2>4 DEF Elsewhere, TransferFits, TransferOp
  <2> QED
    BY <2>3, <2>4
<1> QED
  BY <1>1, <1>2, <1>3 DEF TransferInv, transfers, Elsewhere

\* What a step of w must show: the rows, and that w fits.
LEMMA TransferStepKeeps ==
    ASSUME RequestsInv, TransferInv, NEW w \in Worker, Handled(w), TransferGrows,
           transfer' \in [Transfer -> TransferRow],
           source' \in Quantity, dest' \in Quantity, sold' \in Quantity,
           pc'[w] = "commit" /\ job'[w].op \in TransferOp => saw'[w] \in TransferRow,
           TransferFits(w)',
           \A r \in Live' : r.op = "CREATE_TRANSFER" => transfer'[r.transfer].status = "NONE",
           \A t \in Transfer : transfer'[t].status \in {"SHIPPED", "RECEIVED"} => transfer'[t].shipped = Wanted
    PROVE  TransferInv'
<1>1. \A v \in Worker \ {w} : Rests(v)
  BY OthersRest
<1>2. TransferTypeOK'
  BY <1>1 DEF TransferInv, TransferTypeOK, Rests
<1>3. ASSUME NEW v \in Worker, v # w
      PROVE  TransferFits(v)'
  <2>1. TransferFits(v) /\ Rests(v)
    BY <1>1, <1>3 DEF TransferInv
  <2>2. CASE pc[v] = "commit" /\ job[v].op \in {"APPROVE_TRANSFER", "SHIP_TRANSFER", "RECEIVE_TRANSFER"}
    <3> DEFINE t == job[v].transfer
    <3>1. t \in Transfer /\ saw[v] \in TransferRow
      BY <2>2, TransferRequest DEF TransferOp, TransferInv, TransferTypeOK
    <3>2. transfer[t] \in TransferRow /\ transfer'[t] \in TransferRow
      BY <3>1 DEF TransferInv, TransferTypeOK
    <3>3. transfer'[t] = transfer[t] \/ (transfer'[t].status # "NONE" /\ transfer'[t].version > transfer[t].version)
      BY <2>1, <2>2, <3>1 DEF TransferGrows, TransferFits
    <3>4. saw[v].version \in Nat /\ transfer[t].version \in Nat /\ transfer'[t].version \in Nat
      BY <3>1, <3>2 DEF TransferRow
    <3> QED
      BY <2>1, <2>2, <3>3, <3>4 DEF Rests, TransferFits, TransferTarget
  <2>3. CASE ~ (pc[v] = "commit" /\ job[v].op \in {"APPROVE_TRANSFER", "SHIP_TRANSFER", "RECEIVE_TRANSFER"})
    BY <2>1, <2>3 DEF Rests, TransferFits
  <2> QED
    BY <2>2, <2>3
<1> QED
  BY <1>2, <1>3 DEF TransferInv

\* A handler answers without a write, or only moves stock.
LEMMA TransferAnswers ==
    ASSUME RequestsInv, TransferInv, NEW w \in Worker, pc[w] # "idle", Answer(w), transfer' = transfer,
           source' \in Quantity, dest' \in Quantity, sold' \in Quantity
    PROVE  TransferInv'
<1>1. Handled(w) /\ pc'[w] = "idle"
  BY AnswerHandles, WhatIsAnswered
<1>2. Live' \subseteq Live
  BY <1>1, LiveShrinks DEF RequestsMove
<1>3. TransferGrows /\ transfer' \in [Transfer -> TransferRow]
  BY DEF TransferGrows, TransferInv, TransferTypeOK
<1>4. TransferFits(w)'
  BY <1>1 DEF TransferFits
<1>5. \A r \in Live' : r.op = "CREATE_TRANSFER" => transfer'[r.transfer].status = "NONE"
  BY <1>2 DEF TransferInv
<1>6. \A t \in Transfer : transfer'[t].status \in {"SHIPPED", "RECEIVED"} => transfer'[t].shipped = Wanted
  BY DEF TransferInv
<1> QED
  BY <1>1, <1>3, <1>4, <1>5, <1>6, TransferStepKeeps

LEMMA TransferReads ==
    ASSUME RequestsInv, TransferInv, NEW w \in Worker, pc[w] # "idle",
           job[w].op \in {"APPROVE_TRANSFER", "SHIP_TRANSFER", "RECEIVE_TRANSFER"},
           NEW ok \in BOOLEAN,
           ok => (job[w].op = "RECEIVE_TRANSFER" =>
                     WithinShipped(job[w].receipt, job[w].transfer, transfer[job[w].transfer].shipped)),
           ReadTransfer(w, TransferTarget(w), ok)
    PROVE  TransferInv'
<1> DEFINE row == transfer[job[w].transfer]
<1>1. UNCHANGED <<transfer, source, dest, sold>>
  BY DEF ReadTransfer, transfers
<1>2. CASE Answer(w)
  BY <1>1, <1>2, TransferAnswers DEF TransferInv, TransferTypeOK
<1>3. CASE ~ Answer(w)
  <2>1. /\ See(w, row, "commit") /\ ok
        /\ TransferTarget(w) \in BRANCH_TRANSFER_TRANSITIONS[row.status]
    BY <1>3 DEF ReadTransfer, SeeIf
  <2>2. pc'[w] = "commit" /\ job'[w] = job[w] /\ saw'[w] = row
    BY <2>1, WhatIsSeen, StepNames
  <2>3. Handled(w)
    BY <2>1, SeeHandles, StepNames
  <2>4. row \in TransferRow /\ row.version \in Nat
    BY TransferRequest DEF TransferOp, TransferInv, TransferTypeOK, TransferRow
  <2>5. row.status # "NONE"
    BY <2>1, <2>4 DEF BRANCH_TRANSFER_TRANSITIONS, TransferRow, TransferStatus, TransferTarget
  <2>6. TransferFits(w)'
    <3> HIDE DEF row
    <3>1. transfer'[job'[w].transfer] = row
      BY <1>1, <2>2 DEF row
    <3>2. TransferTarget(w)' = TransferTarget(w)
      BY <2>2 DEF TransferTarget
    <3>3. ok => (job[w].op = "RECEIVE_TRANSFER" => WithinShipped(job[w].receipt, job[w].transfer, row.shipped))
      BY DEF row
    <3> QED
      BY <2>1, <2>2, <2>4, <2>5, <3>1, <3>2, <3>3 DEF TransferFits
  <2>7. TransferGrows /\ transfer' \in [Transfer -> TransferRow]
    BY <1>1 DEF TransferGrows, TransferInv, TransferTypeOK
  <2>8. \A r \in Live' : r.op = "CREATE_TRANSFER" => transfer'[r.transfer].status = "NONE"
    BY <1>1, <2>3, LiveShrinks DEF RequestsMove, TransferInv
  <2>9. \A t \in Transfer : transfer'[t].status \in {"SHIPPED", "RECEIVED"} => transfer'[t].shipped = Wanted
    BY <1>1 DEF TransferInv
  <2> QED
    BY <1>1, <2>2, <2>3, <2>4, <2>6, <2>7, <2>8, <2>9, TransferStepKeeps DEF TransferInv, TransferTypeOK
<1> QED
  BY <1>2, <1>3

\* A write at the version read: then the copy is the row.
LEMMA TransferWrites ==
    ASSUME RequestsInv, TransferInv, NEW w \in Worker, pc[w] = "commit", Answer(w),
           job[w].op \in {"APPROVE_TRANSFER", "SHIP_TRANSFER", "RECEIVE_TRANSFER"},
           NEW shipped \in ItemQuantity, NEW received \in ItemQuantity,
           UpdateTransfer(w, TransferTarget(w), shipped, received),
           job[w].op = "SHIP_TRANSFER" => shipped = Wanted,
           job[w].op = "RECEIVE_TRANSFER" => shipped = saw[w].shipped,
           source' \in Quantity, dest' \in Quantity, sold' \in Quantity
    PROVE  /\ TransferInv'
           /\ saw[w] = transfer[job[w].transfer]
           /\ saw[w].status = CASE job[w].op = "APPROVE_TRANSFER" -> "REQUESTED"
                                [] job[w].op = "SHIP_TRANSFER" -> "APPROVED"
                                [] OTHER -> "SHIPPED"
<1> DEFINE t == job[w].transfer
           new == [status |-> TransferTarget(w), version |-> transfer[t].version + 1,
                   shipped |-> shipped, received |-> received]
<1>1. Handled(w) /\ pc'[w] = "idle" /\ Live' \subseteq Live
  BY AnswerHandles, WhatIsAnswered, LiveShrinks DEF RequestsMove
<1>2. t \in Transfer /\ transfer[t] \in TransferRow /\ saw[w] \in TransferRow
  BY TransferRequest DEF TransferOp, TransferInv, TransferTypeOK
<1>3. saw[w] = transfer[t] /\ transfer[t].status # "NONE"
      /\ TransferTarget(w) \in BRANCH_TRANSFER_TRANSITIONS[saw[w].status]
  BY DEF UpdateTransfer, TransferInv, TransferFits
<1>4. saw[w].status = CASE job[w].op = "APPROVE_TRANSFER" -> "REQUESTED"
                        [] job[w].op = "SHIP_TRANSFER" -> "APPROVED"
                        [] OTHER -> "SHIPPED"
  BY <1>2, <1>3, TransferMoves DEF TransferTarget, TransferRow
<1>5. transfer' = [transfer EXCEPT ![t] = new]
  BY DEF UpdateTransfer
<1>6. /\ new \in TransferRow /\ new.version = transfer[t].version + 1 /\ transfer[t].version \in Nat
      /\ new.status = TransferTarget(w) /\ new.shipped = shipped
  BY <1>2 DEF TransferRow, TransferTarget, TransferStatus
<1> HIDE DEF new
<1>7. transfer' \in [Transfer -> TransferRow] /\ \A u \in Transfer : transfer'[u] = IF u = t THEN new ELSE transfer[u]
  BY <1>2, <1>5, <1>6 DEF TransferInv, TransferTypeOK
<1>8. TransferGrows
  BY <1>6, <1>7 DEF TransferGrows, TransferTarget
<1>9. TransferFits(w)'
  BY <1>1 DEF TransferFits
<1>10. ASSUME NEW r \in Live', r.op = "CREATE_TRANSFER"
       PROVE  transfer'[r.transfer].status = "NONE"
  <2>1. r \in Live /\ r \in Request
    BY <1>1, <1>10 DEF Live
  <2>2. r.transfer \in Transfer
    BY <1>10, <2>1, TransferAssumption DEF TransferOp
  <2> QED
    BY <1>3, <1>7, <1>10, <2>1, <2>2 DEF TransferInv
<1>11. ASSUME NEW u \in Transfer, transfer'[u].status \in {"SHIPPED", "RECEIVED"}
       PROVE  transfer'[u].shipped = Wanted
  <2>1. CASE u # t
    BY <1>7, <1>11, <2>1 DEF TransferInv
  <2>2. CASE u = t
    BY <1>2, <1>3, <1>4, <1>6, <1>7, <1>11, <2>2 DEF TransferInv, TransferTarget
  <2> QED
    BY <2>1, <2>2
<1> QED
  BY <1>1, <1>3, <1>4, <1>7, <1>8, <1>9, <1>10, <1>11, TransferStepKeeps

-----------------------------------------------------------------------------
(* What GoodsInTransit is told.                                            *)
Place(t) ==
    CASE transfer[t].status = "SHIPPED" -> "road"
      [] transfer[t].status = "RECEIVED" -> "dest"
      [] OTHER -> "source"
Where == [t \in Transfer |-> Place(t)]
HasLeft == [p \in Product |-> OnShelf[p] - sold[p] - source[p]]
PromiseStep == [Promise!Next]_<<Where, HasLeft, dest>>

LEMMA PromiseStutters ==
    ASSUME TransferInv, TransferInv', \A t \in Transfer : Place(t)' = Place(t),
           \A p \in Product : sold'[p] + source'[p] = sold[p] + source[p], dest' = dest
    PROVE  PromiseStep
<1>1. Where' = Where
  BY DEF Where
<1>2. ASSUME NEW p \in Product
      PROVE  OnShelf[p] - sold'[p] - source'[p] = OnShelf[p] - sold[p] - source[p]
  <2>1. /\ OnShelf[p] \in Int /\ sold[p] \in Int /\ source[p] \in Int
        /\ sold'[p] \in Int /\ source'[p] \in Int
    BY TransferAssumption DEF TransferInv, TransferTypeOK, Quantity
  <2> QED
    BY <2>1
<1>3. HasLeft' = HasLeft
  BY <1>2 DEF HasLeft
<1> QED
  BY <1>1, <1>3 DEF PromiseStep

LEMMA CreateTransferKeeps ==
    ASSUME RequestsInv, TransferInv, NEW w \in Worker, CreateTransfer(w)
    PROVE  TransferInv' /\ PromiseStep
<1> DEFINE t == job[w].transfer
<1>1. CASE At(w, "CREATE_TRANSFER", "read")
  <2>1. pc[w] # "idle" /\ job[w].op = "CREATE_TRANSFER"
    BY <1>1 DEF At
  <2>2. /\ SeeIf(w, IsAvailable(t), transfer[t], "commit")
        /\ UNCHANGED <<transfer, source, dest, sold>>
    BY <1>1 DEF CreateTransfer, At, transfers
  <2>3. TransferInv'
    <3>1. CASE Answer(w)
      BY <2>1, <2>2, <3>1, TransferAnswers DEF TransferInv, TransferTypeOK
    <3>2. CASE ~ Answer(w)
      <4>1. See(w, transfer[t], "commit")
        BY <2>2, <3>2 DEF SeeIf
      <4>2. Handled(w) /\ job'[w] = job[w] /\ saw'[w] = transfer[t]
        BY <2>1, <4>1, SeeHandles, WhatIsSeen, StepNames
      <4>3. Live' \subseteq Live
        BY <4>2, LiveShrinks DEF RequestsMove
      <4>4. transfer[t] \in TransferRow
        BY <2>1, TransferRequest DEF TransferOp, TransferInv, TransferTypeOK
      <4>5. TransferGrows
        BY <2>2 DEF TransferGrows
      <4>6. TransferFits(w)'
        BY <2>1, <4>2 DEF TransferFits
      <4> QED
        BY <2>2, <4>2, <4>3, <4>4, <4>5, <4>6, TransferStepKeeps DEF TransferInv, TransferTypeOK
    <3> QED
      BY <3>1, <3>2
  <2>4. \A u \in Transfer : Place(u)' = Place(u)
    BY <2>2 DEF Place
  <2>5. \A p \in Product : sold'[p] + source'[p] = sold[p] + source[p]
    BY <2>2
  <2> QED
    BY <2>2, <2>3, <2>4, <2>5, PromiseStutters
<1>2. CASE At(w, "CREATE_TRANSFER", "commit")
  <2>1. pc[w] = "commit" /\ job[w].op = "CREATE_TRANSFER"
    BY <1>2 DEF At
  <2>2. /\ transfer' = [transfer EXCEPT ![t].status = "REQUESTED"]
        /\ Answer(w)
        /\ UNCHANGED <<source, dest, sold>>
    BY <1>2 DEF CreateTransfer, At
  <2>3. Handled(w) /\ pc'[w] = "idle" /\ Live' \subseteq Live \ {job[w]}
    BY <2>1, <2>2, AnswerHandles, WhatIsAnswered, AnsweredIsGone
  <2>4. t \in Transfer /\ job[w] \in Live /\ job[w] \in Request
    BY <2>1, TransferRequest, JobIsRequest DEF TransferOp
  <2>5. transfer[t].status = "NONE"
    BY <2>1, <2>4 DEF TransferInv
  <2> DEFINE new == [transfer[t] EXCEPT !.status = "REQUESTED"]
  <2>6. transfer[t] \in TransferRow /\ transfer' = [transfer EXCEPT ![t] = new]
    BY <2>2, <2>4 DEF TransferInv, TransferTypeOK
  <2>7. new \in TransferRow /\ new.status = "REQUESTED"
    BY <2>6 DEF TransferRow, TransferStatus
  <2> HIDE DEF new
  <2>8. transfer' \in [Transfer -> TransferRow] /\ \A u \in Transfer : transfer'[u] = IF u = t THEN new ELSE transfer[u]
    BY <2>4, <2>6, <2>7 DEF TransferInv, TransferTypeOK
  <2>9. TransferGrows
    BY <2>5, <2>8 DEF TransferGrows
  <2>10. TransferFits(w)'
    BY <2>3 DEF TransferFits
  <2>11. ASSUME NEW r \in Live', r.op = "CREATE_TRANSFER"
         PROVE  transfer'[r.transfer].status = "NONE"
    <3>1. r \in Live /\ r # job[w] /\ r \in Request
      BY <2>3, <2>11 DEF Live
    <3>2. r.transfer # t /\ r.transfer \in Transfer
      BY <2>1, <2>4, <2>11, <3>1, TransferAssumption DEF TransferOp
    <3> QED
      BY <2>8, <2>11, <3>1, <3>2 DEF TransferInv
  <2>12. \A u \in Transfer : transfer'[u].status \in {"SHIPPED", "RECEIVED"} => transfer'[u].shipped = Wanted
    BY <2>7, <2>8 DEF TransferInv
  <2>13. TransferInv'
    BY <2>2, <2>3, <2>8, <2>9, <2>10, <2>11, <2>12, TransferStepKeeps DEF TransferInv, TransferTypeOK
  <2>14. \A u \in Transfer : Place(u)' = Place(u)
    BY <2>5, <2>7, <2>8 DEF Place
  <2> QED
    BY <2>2, <2>13, <2>14, PromiseStutters
<1> QED
  BY <1>1, <1>2 DEF CreateTransfer

\* Reading what is to be written.
LEMMA TransferLooks ==
    ASSUME RequestsInv, TransferInv, NEW w \in Worker, pc[w] # "idle",
           job[w].op \in {"APPROVE_TRANSFER", "SHIP_TRANSFER", "RECEIVE_TRANSFER"},
           NEW ok \in BOOLEAN,
           ok => (job[w].op = "RECEIVE_TRANSFER" =>
                     WithinShipped(job[w].receipt, job[w].transfer, transfer[job[w].transfer].shipped)),
           ReadTransfer(w, TransferTarget(w), ok)
    PROVE  TransferInv' /\ PromiseStep
<1>1. TransferInv'
  BY TransferReads
<1>2. UNCHANGED <<transfer, source, dest, sold>>
  BY DEF ReadTransfer, transfers
<1> QED
  BY <1>1, <1>2, PromiseStutters DEF Place

LEMMA ApproveTransferKeeps ==
    ASSUME RequestsInv, TransferInv, NEW w \in Worker, ApproveTransfer(w)
    PROVE  TransferInv' /\ PromiseStep
<1>1. CASE At(w, "APPROVE_TRANSFER", "read")
  <2>1. pc[w] # "idle" /\ job[w].op = "APPROVE_TRANSFER" /\ TransferTarget(w) = "APPROVED"
    BY <1>1 DEF At, TransferTarget
  <2> QED
    BY <1>1, <2>1, TransferLooks DEF ApproveTransfer, At
<1>2. CASE At(w, "APPROVE_TRANSFER", "commit")
  <2>1. pc[w] = "commit" /\ job[w].op = "APPROVE_TRANSFER" /\ TransferTarget(w) = "APPROVED"
    BY <1>2 DEF At, TransferTarget
  <2>2. /\ UpdateTransfer(w, "APPROVED", saw[w].shipped, saw[w].received)
        /\ Answer(w) /\ UNCHANGED <<source, dest, sold>>
    BY <1>2 DEF ApproveTransfer, At
  <2>3. job[w].transfer \in Transfer /\ saw[w].shipped \in ItemQuantity /\ saw[w].received \in ItemQuantity
    BY <2>1, TransferRequest DEF TransferOp, TransferInv, TransferTypeOK, TransferRow
  <2>4. TransferInv' /\ saw[w] = transfer[job[w].transfer] /\ saw[w].status = "REQUESTED"
    BY <2>1, <2>2, <2>3, TransferWrites DEF TransferInv, TransferTypeOK
  <2>5. \A u \in Transfer : Place(u)' = Place(u)
    BY <2>2, <2>3, <2>4 DEF UpdateTransfer, Place, TransferInv, TransferTypeOK
  <2> QED
    BY <2>2, <2>4, <2>5, PromiseStutters
<1> QED
  BY <1>1, <1>2 DEF ApproveTransfer

LEMMA ShipTransferKeeps ==
    ASSUME RequestsInv, TransferInv, NEW w \in Worker, ShipTransfer(w)
    PROVE  TransferInv' /\ PromiseStep
<1> DEFINE t == job[w].transfer
<1>1. CASE At(w, "SHIP_TRANSFER", "read")
  <2>1. pc[w] # "idle" /\ job[w].op = "SHIP_TRANSFER" /\ TransferTarget(w) = "SHIPPED"
    BY <1>1 DEF At, TransferTarget
  <2> QED
    BY <1>1, <2>1, TransferLooks DEF ShipTransfer, At
<1>2. CASE At(w, "SHIP_TRANSFER", "commit")
  <2>1. pc[w] = "commit" /\ job[w].op = "SHIP_TRANSFER" /\ TransferTarget(w) = "SHIPPED"
    BY <1>2 DEF At, TransferTarget
  <2>2. /\ UpdateTransfer(w, "SHIPPED", Wanted, saw[w].received)
        /\ source' = Minus(source, PerProduct(Wanted, t))
        /\ Answer(w) /\ UNCHANGED <<dest, sold>>
    BY <1>2 DEF ShipTransfer, At
  <2>3. t \in Transfer /\ Wanted \in ItemQuantity /\ saw[w].received \in ItemQuantity
    BY <2>1, TransferRequest, TransferAssumption DEF TransferOp, TransferInv, TransferTypeOK, TransferRow
  <2> DEFINE load == PerProduct(Wanted, t)
  <2>12. load \in Quantity
    BY <2>3, PerProductType
  <2>4. source \in Quantity /\ dest \in Quantity /\ sold \in Quantity
    BY DEF TransferInv, TransferTypeOK
  <2>5. source' \in Quantity
    <3> HIDE DEF load
    <3>1. source' = Minus(source, load)
      BY <2>2 DEF load
    <3> QED
      BY <2>4, <2>12, <3>1 DEF Minus, Quantity
  <2>6. TransferInv' /\ saw[w] = transfer[t] /\ saw[w].status = "APPROVED"
    BY <2>1, <2>2, <2>3, <2>4, <2>5, TransferWrites
  <2>7. Where[t] = "source"
    BY <2>3, <2>6 DEF Where, Place
  <2>8. Where' = [Where EXCEPT ![t] = "road"]
    BY <2>2, <2>3 DEF UpdateTransfer, Where, Place, TransferInv, TransferTypeOK
  <2>9. \A p \in Product : OnShelf[p] - sold'[p] - source'[p] = OnShelf[p] - sold[p] - source[p] + load[p]
    <3> HIDE DEF load
    <3>1. source' = Minus(source, load) /\ sold' = sold
      BY <2>2 DEF load
    <3> SUFFICES ASSUME NEW p \in Product
                 PROVE  OnShelf[p] - sold'[p] - source'[p] = OnShelf[p] - sold[p] - source[p] + load[p]
      OBVIOUS
    <3>2. /\ OnShelf[p] \in Int /\ sold[p] \in Int /\ source[p] \in Int /\ load[p] \in Int
          /\ source'[p] = source[p] - load[p]
      BY <2>4, <2>12, <3>1, TransferAssumption DEF Minus, Quantity
    <3> QED
      BY <3>1, <3>2
  <2>13. [v \in Transfer |-> PerProduct(Wanted, v)][t] = load
    BY <2>3
  <2>10. HasLeft' = [p \in Product |-> HasLeft[p] + load[p]]
    BY <2>9 DEF HasLeft
  <2>11. ASSUME NEW u \in Transfer, u = t
         PROVE  Promise!Depart(u)
    <3> HIDE DEF load
    <3>1. dest' = dest
      BY <2>2
    <3> QED
      BY <2>7, <2>8, <2>10, <2>11, <2>13, <3>1 DEF Promise!Depart, Where, Place, HasLeft
  <2> QED
    BY <2>3, <2>6, <2>11 DEF Promise!Next, PromiseStep
<1> QED
  BY <1>1, <1>2 DEF ShipTransfer

LEMMA ReceiveTransferKeeps ==
    ASSUME RequestsInv, TransferInv, NEW w \in Worker, ReceiveTransfer(w)
    PROVE  TransferInv' /\ PromiseStep
<1> DEFINE t == job[w].transfer
<1>1. CASE At(w, "RECEIVE_TRANSFER", "read")
  <2>1. pc[w] # "idle" /\ job[w].op = "RECEIVE_TRANSFER" /\ TransferTarget(w) = "RECEIVED"
    BY <1>1 DEF At, TransferTarget
  <2>2. WithinShipped(job[w].receipt, t, transfer[t].shipped) \in BOOLEAN
    BY DEF WithinShipped
  <2>3. ReadTransfer(w, "RECEIVED", WithinShipped(job[w].receipt, t, transfer[t].shipped))
    BY <1>1 DEF ReceiveTransfer, At
  <2> QED
    BY <2>1, <2>2, <2>3, TransferLooks
<1>2. CASE At(w, "RECEIVE_TRANSFER", "commit")
  <2>1. pc[w] = "commit" /\ job[w].op = "RECEIVE_TRANSFER" /\ TransferTarget(w) = "RECEIVED"
    BY <1>2 DEF At, TransferTarget
  <2>2. /\ UpdateTransfer(w, "RECEIVED", saw[w].shipped, LastListed(job[w].receipt, saw[w].received))
        /\ dest' = Sum2(dest, PerProduct(Listed(job[w].receipt), t))
        /\ Answer(w) /\ UNCHANGED <<source, sold>>
    BY <1>2 DEF ReceiveTransfer, At
  <2>3. /\ t \in Transfer /\ job[w].receipt \in Receipt
        /\ saw[w].shipped \in ItemQuantity /\ saw[w].received \in ItemQuantity
    BY <2>1, TransferRequest DEF TransferOp, TransferInv, TransferTypeOK, TransferRow
  <2> DEFINE load == PerProduct(Listed(job[w].receipt), t)
             received == LastListed(job[w].receipt, saw[w].received)
  <2>13. load \in Quantity /\ received \in ItemQuantity
    BY <2>3, ReceiptType, PerProductType
  <2>4. source \in Quantity /\ dest \in Quantity /\ sold \in Quantity
    BY DEF TransferInv, TransferTypeOK
  <2>5. dest' \in Quantity /\ dest' = [p \in Product |-> dest[p] + load[p]]
    <3> HIDE DEF load
    <3>1. dest' = Sum2(dest, load)
      BY <2>2 DEF load
    <3> QED
      BY <2>4, <2>13, <3>1 DEF Sum2, Quantity
  <2>6. TransferInv' /\ saw[w] = transfer[t] /\ saw[w].status = "SHIPPED"
    <3>1. UpdateTransfer(w, TransferTarget(w), saw[w].shipped, received)
      BY <2>1, <2>2
    <3>2. source' \in Quantity /\ sold' \in Quantity
      BY <2>2, <2>4
    <3>3. job[w].op \in {"APPROVE_TRANSFER", "SHIP_TRANSFER", "RECEIVE_TRANSFER"}
      BY <2>1
    <3> HIDE DEF received, load
    <3> QED
      BY <2>1, <2>2, <2>3, <2>5, <2>13, <3>1, <3>2, <3>3, TransferWrites
  <2>7. Where[t] = "road"
    BY <2>3, <2>6 DEF Where, Place
  <2>8. Where' = [Where EXCEPT ![t] = "dest"]
    BY <2>2, <2>3 DEF UpdateTransfer, Where, Place, TransferInv, TransferTypeOK
  <2>9. HasLeft' = HasLeft
    BY <2>2 DEF HasLeft
  <2>10. WithinShipped(job[w].receipt, t, Wanted)
    BY <2>1, <2>3, <2>6 DEF TransferInv, TransferFits
  <2>11. load \in MayArrive(t)
    <3>1. job[w] \in Request
      BY <2>1, JobIsRequest
    <3> QED
      BY <2>1, <2>10, <3>1 DEF MayArrive
  <2>14. load \in [v \in Transfer |-> MayArrive(v)][t]
    BY <2>3, <2>11
  <2>12. ASSUME NEW u \in Transfer, u = t
         PROVE  Promise!Arrive(u)
    <3> HIDE DEF load
    <3> QED
      BY <2>5, <2>7, <2>8, <2>9, <2>12, <2>14 DEF Promise!Arrive, Where, Place, HasLeft
  <2> QED
    BY <2>3, <2>6, <2>12 DEF Promise!Next, PromiseStep
<1> QED
  BY <1>1, <1>2 DEF ReceiveTransfer

LEMMA SellFromSourceKeeps ==
    ASSUME RequestsInv, TransferInv, NEW w \in Worker, SellFromSource(w)
    PROVE  TransferInv' /\ PromiseStep
<1>1. /\ pc[w] # "idle" /\ job[w].op \in TransferOp
      /\ source' = Minus(source, job[w].items) /\ sold' = Sum2(sold, job[w].items)
      /\ Answer(w) /\ UNCHANGED <<transfer, dest>>
  BY DEF SellFromSource, At, TransferOp
<1>2. job[w].items \in Quantity
  BY <1>1, TransferRequest
<1>3. source \in Quantity /\ dest \in Quantity /\ sold \in Quantity
  BY DEF TransferInv, TransferTypeOK
<1>4. source' \in Quantity /\ sold' \in Quantity
  BY <1>1, <1>2, <1>3 DEF Minus, Sum2, Quantity
<1>5. TransferInv'
  BY <1>1, <1>3, <1>4, TransferAnswers
<1>6. \A p \in Product : sold'[p] + source'[p] = sold[p] + source[p]
  BY <1>1, <1>2, <1>3 DEF Minus, Sum2, Quantity
<1>7. \A u \in Transfer : Place(u)' = Place(u)
  BY <1>1 DEF Place
<1> QED
  BY <1>1, <1>5, <1>6, <1>7, PromiseStutters

LEMMA TransferFailsKeeps ==
    ASSUME RequestsInv, TransferInv, NEW w \in Worker, TransferFails(w)
    PROVE  TransferInv' /\ PromiseStep
<1>1. pc[w] # "idle" /\ Answer(w) /\ UNCHANGED <<transfer, source, dest, sold>>
  BY DEF TransferFails, transfers
<1>2. TransferInv'
  BY <1>1, TransferAnswers DEF TransferInv, TransferTypeOK
<1>3. /\ \A u \in Transfer : Place(u)' = Place(u)
      /\ \A p \in Product : sold'[p] + source'[p] = sold[p] + source[p]
  BY <1>1 DEF Place
<1> QED
  BY <1>1, <1>2, <1>3, PromiseStutters

LEMMA TransferKeeps ==
    ASSUME RequestsInv, TransferInv, TransferRests \/ \E w \in Worker : TransferStep(w)
    PROVE  TransferInv' /\ PromiseStep
<1>1. CASE TransferRests
  <2>1. TransferInv'
    BY <1>1, TransferRestsKeeps
  <2>2. UNCHANGED <<transfer, source, dest, sold>>
    BY <1>1 DEF TransferRests, transfers
  <2>3. /\ \A u \in Transfer : Place(u)' = Place(u)
        /\ \A p \in Product : sold'[p] + source'[p] = sold[p] + source[p]
    BY <2>2 DEF Place
  <2> QED
    BY <2>1, <2>2, <2>3, PromiseStutters
<1>2. ASSUME NEW w \in Worker, TransferStep(w)
      PROVE  TransferInv' /\ PromiseStep
  BY <1>2, CreateTransferKeeps, ApproveTransferKeeps, ShipTransferKeeps, ReceiveTransferKeeps,
     SellFromSourceKeeps, TransferFailsKeeps DEF TransferStep
<1> QED
  BY <1>1, <1>2

LEMMA TransferStart ==
    ASSUME RequestsInit, TransferInit
    PROVE  TransferInv /\ Promise!Init
<1> DEFINE none == [i \in Item |-> 0]
           row == [status |-> "NONE", version |-> 0, shipped |-> none, received |-> none]
<1>0. none \in ItemQuantity /\ None \in Quantity
  BY DEF None, Quantity, ItemQuantity
<1>1. row \in TransferRow /\ row.status = "NONE"
  <2> HIDE DEF none
  <2> QED
    BY <1>0 DEF TransferRow, TransferStatus
<1>9. transfer = [t \in Transfer |-> row]
  BY DEF TransferInit
<1> HIDE DEF row
<1>2. TransferTypeOK
  BY <1>0, <1>1, <1>9, TransferAssumption DEF TransferInit, TransferTypeOK, RequestsInit, Quantity
<1>3. \A t \in Transfer : transfer[t].status = "NONE"
  BY <1>1, <1>9
<1>4. \A w \in Worker : TransferFits(w)
  BY DEF RequestsInit, TransferFits
<1>5. \A r \in Live : r.op = "CREATE_TRANSFER" => r.transfer \in Transfer
  BY TransferAssumption DEF Live, TransferOp
<1>6. TransferInv
  BY <1>2, <1>3, <1>4, <1>5 DEF TransferInv
<1>7. \A p \in Product : OnShelf[p] - None[p] - OnShelf[p] = 0
  BY TransferAssumption DEF None, Quantity
<1>8. Promise!Init
  BY <1>3, <1>7 DEF Promise!Init, TransferInit, None
<1> QED
  BY <1>6, <1>8

LEMMA TransferHolds == BackOfficeSpec => [](RequestsInv /\ TransferInv)
<1>1. BackOfficeInit => RequestsInv /\ TransferInv
  BY RequestsStart, TransferStart DEF BackOfficeInit
<1>2. RequestsInv /\ TransferInv /\ [BackOfficeNext]_<<requests, business>> => (RequestsInv /\ TransferInv)'
  <2>1. ASSUME RequestsInv, TransferInv, BackOfficeNext PROVE (RequestsInv /\ TransferInv)'
    BY <2>1, BackOfficeMoves, RequestsKept, TransferKeeps
  <2>2. ASSUME RequestsInv, TransferInv, UNCHANGED <<requests, business>> PROVE (RequestsInv /\ TransferInv)'
    BY <2>2, BackOfficeStutters, RequestsKept, TransferKeeps DEF AllRest, TradeRests
  <2> QED
    BY <2>1, <2>2
<1> QED
  BY <1>1, <1>2, PTL DEF BackOfficeSpec

\* The back office implements GoodsInTransit: however often and by how many
\* at once a transfer is shipped and received, its goods leave the source
\* branch once, and one receipt is credited for it, once, none of whose
\* listings exceeds what left of its item.
THEOREM GoodsMove == BackOfficeSpec => GoodsMoveOnce
<1>1. BackOfficeInit => Promise!Init
  BY TransferStart DEF BackOfficeInit
<1>2. RequestsInv /\ TransferInv /\ [BackOfficeNext]_<<requests, business>> => PromiseStep
  <2>1. ASSUME RequestsInv, TransferInv, BackOfficeNext PROVE PromiseStep
    BY <2>1, BackOfficeMoves, TransferKeeps
  <2>2. ASSUME RequestsInv, TransferInv, UNCHANGED <<requests, business>> PROVE PromiseStep
    BY <2>2, BackOfficeStutters, TransferKeeps DEF AllRest, TradeRests
  <2> QED
    BY <2>1, <2>2
<1> QED
  BY <1>1, <1>2, TransferHolds, PTL
     DEF BackOfficeSpec, GoodsMoveOnce, Promise!Spec, PromiseStep, Where, HasLeft, Place

-----------------------------------------------------------------------------
(***************************************************************************)
(* Supplier invoices: a match and a posting hold a copy of the invoice,    *)
(* which is the invoice itself as long as the version has not moved on;    *)
(* what an invoice lists never changes.                                    *)
(***************************************************************************)
PurchasingFits(w) ==
    /\ pc[w] = "commit" /\ job[w].op \in {"MATCH_BILL", "POST_BILL"} =>
          LET b == bill[job[w].bill] IN
          /\ b # Unread /\ saw[w] \in BillRow
          /\ saw[w].version <= b.version
          /\ saw[w].version = b.version => saw[w] = b
          /\ saw[w].status = IF job[w].op = "MATCH_BILL" THEN "PENDING" ELSE "MATCHED"
    /\ pc[w] = "commit" /\ job[w].op \in ReturnToSupplierOp \ {"CREATE_RTV"} =>
          rtv[job[w].rtv] # Unread /\ saw[w] \in SupplierReturnRow

InvoiceIsSound(i) ==
    /\ posted[i] = (IF bill[i] # Unread /\ bill[i].status = "POSTED" THEN 1 ELSE 0)
    /\ bill[i] # Unread /\ bill[i].status \in {"MATCHED", "POSTED"} => Matches(bill[i])

PurchasingInv ==
    /\ PurchasingTypeOK
    /\ \A w \in Worker : PurchasingFits(w)
    /\ \A i \in SupplierInvoice : InvoiceIsSound(i)

\* Rows stay, and an invoice is replaced only together with its version.
PurchasingGrows ==
    /\ \A i \in SupplierInvoice : bill[i] # Unread =>
          bill'[i] = bill[i] \/ (bill'[i] # Unread /\ bill'[i].version > bill[i].version)
    /\ \A r \in PurchaseReturn : rtv[r] # Unread => rtv'[r] # Unread

LEMMA InvoiceRequest ==
    ASSUME RequestsInv, NEW w \in Worker, pc[w] # "idle", job[w].op \in InvoiceOp
    PROVE  /\ job[w].bill \in SupplierInvoice /\ job[w].po \in PurchaseOrder
           /\ job[w].items \in Parts /\ job[w].priced \in BOOLEAN
BY JobIsRequest, PurchasingAssumption

LEMMA ReturnToSupplierRequest ==
    ASSUME RequestsInv, NEW w \in Worker, pc[w] # "idle", job[w].op \in ReturnToSupplierOp
    PROVE  job[w].rtv \in PurchaseReturn /\ job[w].po \in PurchaseOrder /\ job[w].items \in Parts
BY JobIsRequest, PurchasingAssumption

LEMMA PurchasingRestsKeeps ==
    ASSUME RequestsInv, PurchasingInv, PurchasingRests
    PROVE  PurchasingInv'
<1>1. UNCHANGED <<po, bill, posted, rtv, stocked>> /\ Elsewhere(PurchasingOp)
  BY DEF PurchasingRests, purchasing
<1>2. PurchasingTypeOK'
  BY <1>1 DEF PurchasingInv, PurchasingTypeOK
<1>3. ASSUME NEW v \in Worker
      PROVE  PurchasingFits(v)'
  <2>1. PurchasingFits(v)
    BY DEF PurchasingInv
  <2>2. CASE Rests(v)
    BY <1>1, <2>1, <2>2 DEF Rests, PurchasingFits
  <2>3. CASE ~ Rests(v)
    BY <1>1, <2>3 DEF Elsewhere, PurchasingFits, PurchasingOp, InvoiceOp, ReturnToSupplierOp
  <2> QED
    BY <2>2, <2>3
<1>4. \A i \in SupplierInvoice : InvoiceIsSound(i)'
  BY <1>1 DEF PurchasingInv, InvoiceIsSound, Matches
<1> QED
  BY <1>2, <1>3, <1>4 DEF PurchasingInv

LEMMA PurchasingStepKeeps ==
    ASSUME RequestsInv, PurchasingInv, NEW w \in Worker, Handled(w), PurchasingGrows,
           PurchasingTypeOK', PurchasingFits(w)', \A i \in SupplierInvoice : InvoiceIsSound(i)'
    PROVE  PurchasingInv'
<1>1. \A v \in Worker \ {w} : Rests(v)
  BY OthersRest
<1>2. ASSUME NEW v \in Worker, v # w
      PROVE  PurchasingFits(v)'
  <2>1. PurchasingFits(v) /\ Rests(v)
    BY <1>1, <1>2 DEF PurchasingInv
  <2>2. ASSUME pc[v] = "commit", job[v].op \in {"MATCH_BILL", "POST_BILL"}
        PROVE  PurchasingFits(v)'
    <3> DEFINE i == job[v].bill
    <3>1. i \in SupplierInvoice
      BY <2>2, InvoiceRequest DEF InvoiceOp
    <3>2. bill[i] \in BillRow /\ saw[v] \in BillRow /\ bill'[i] \in BillRow
          /\ (bill'[i] = bill[i] \/ bill'[i].version > bill[i].version)
      BY <2>1, <2>2, <3>1 DEF PurchasingFits, PurchasingInv, PurchasingTypeOK, PurchasingGrows
    <3>3. saw[v].version \in Nat /\ bill[i].version \in Nat /\ bill'[i].version \in Nat
      BY <3>2 DEF BillRow
    <3>4. bill'[i] # Unread
      BY <3>2, PurchasingAssumption
    <3> QED
      BY <2>1, <2>2, <3>2, <3>3, <3>4 DEF Rests, PurchasingFits, ReturnToSupplierOp
  <2>3. ASSUME pc[v] = "commit", job[v].op \in ReturnToSupplierOp \ {"CREATE_RTV"}
        PROVE  PurchasingFits(v)'
    <3>1. job[v].rtv \in PurchaseReturn
      BY <2>3, ReturnToSupplierRequest
    <3> QED
      BY <2>1, <2>3, <3>1 DEF Rests, PurchasingFits, PurchasingGrows, ReturnToSupplierOp
  <2> QED
    BY <2>1, <2>2, <2>3 DEF Rests, PurchasingFits
<1> QED
  BY <1>2 DEF PurchasingInv

LEMMA PurchasingAnswers ==
    ASSUME RequestsInv, PurchasingInv, NEW w \in Worker, pc[w] # "idle", Answer(w),
           UNCHANGED <<bill, posted>>, PurchasingTypeOK',
           \A r \in PurchaseReturn : rtv[r] # Unread => rtv'[r] # Unread
    PROVE  PurchasingInv'
<1>1. Handled(w) /\ pc'[w] = "idle"
  BY AnswerHandles, WhatIsAnswered
<1>2. PurchasingGrows /\ PurchasingFits(w)'
  BY <1>1 DEF PurchasingGrows, PurchasingFits
<1>3. \A i \in SupplierInvoice : InvoiceIsSound(i)'
  BY DEF PurchasingInv, InvoiceIsSound, Matches
<1> QED
  BY <1>1, <1>2, <1>3, PurchasingStepKeeps

\* A handler looks at a row and goes on to its write, or gives up.
LEMMA PurchasingLooks ==
    ASSUME RequestsInv, PurchasingInv, NEW w \in Worker, pc[w] # "idle", UNCHANGED purchasing,
           NEW x, See(w, x, "commit"),
           job[w].op \in {"MATCH_BILL", "POST_BILL"} =>
              /\ x = bill[job[w].bill] /\ x # Unread
              /\ x.status = IF job[w].op = "MATCH_BILL" THEN "PENDING" ELSE "MATCHED",
           job[w].op \in ReturnToSupplierOp \ {"CREATE_RTV"} => x = rtv[job[w].rtv] /\ x # Unread
    PROVE  PurchasingInv'
<1>1. Handled(w) /\ pc'[w] = "commit" /\ job'[w] = job[w] /\ saw'[w] = x
  BY SeeHandles, WhatIsSeen, StepNames
<1>2. UNCHANGED <<po, bill, posted, rtv, stocked>>
  BY DEF purchasing
<1>3. PurchasingGrows /\ PurchasingTypeOK'
  BY <1>2 DEF PurchasingGrows, PurchasingInv, PurchasingTypeOK
<1>4. \A i \in SupplierInvoice : InvoiceIsSound(i)'
  BY <1>2 DEF PurchasingInv, InvoiceIsSound, Matches
<1>5. job[w].op \in {"MATCH_BILL", "POST_BILL"} => x \in BillRow /\ x.version \in Nat
  BY InvoiceRequest DEF InvoiceOp, PurchasingInv, PurchasingTypeOK, BillRow
<1>6. job[w].op \in ReturnToSupplierOp \ {"CREATE_RTV"} => x \in SupplierReturnRow
  BY ReturnToSupplierRequest DEF PurchasingInv, PurchasingTypeOK
<1>7. PurchasingFits(w)'
  BY <1>1, <1>2, <1>5, <1>6 DEF PurchasingFits
<1> QED
  BY <1>1, <1>3, <1>4, <1>7, PurchasingStepKeeps

LEMMA PurchaseOrdersKeep ==
    ASSUME RequestsInv, PurchasingInv, NEW w \in Worker,
           CreatePurchaseOrder(w) \/ ReceivePurchaseOrder(w) \/ PurchasingFails(w)
    PROVE  PurchasingInv'
<1>1. /\ pc[w] # "idle" /\ Answer(w) /\ UNCHANGED <<bill, posted, rtv, stocked>>
      /\ po' \in [PurchaseOrder -> PurchaseOrderStatus \cup {"NONE"}]
  BY DEF CreatePurchaseOrder, ReceivePurchaseOrder, PurchasingFails, At, purchasing, PurchasingInv,
     PurchasingTypeOK, PurchaseOrderStatus
<1>2. PurchasingTypeOK'
  BY <1>1 DEF PurchasingInv, PurchasingTypeOK
<1> QED
  BY <1>1, <1>2, PurchasingAnswers

LEMMA CreateSupplierInvoiceKeeps ==
    ASSUME RequestsInv, PurchasingInv, NEW w \in Worker, CreateSupplierInvoice(w)
    PROVE  PurchasingInv'
<1> DEFINE j == job[w]
<1>1. pc[w] # "idle" /\ j.op = "CREATE_BILL"
  BY DEF CreateSupplierInvoice, At
<1>2. CASE At(w, "CREATE_BILL", "read")
  <2>1. (Answer(w) \/ See(w, Unread, "commit")) /\ UNCHANGED purchasing
    BY <1>2 DEF CreateSupplierInvoice, At, SeeIf
  <2>2. PurchasingTypeOK' /\ UNCHANGED <<bill, posted, rtv>>
    BY <2>1 DEF purchasing, PurchasingInv, PurchasingTypeOK
  <2>3. CASE Answer(w)
    BY <1>1, <2>2, <2>3, PurchasingAnswers
  <2>4. CASE See(w, Unread, "commit")
    BY <1>1, <2>1, <2>4, PurchasingLooks DEF ReturnToSupplierOp
  <2> QED
    BY <2>1, <2>3, <2>4
<1>3. CASE At(w, "CREATE_BILL", "commit")
  <2> DEFINE i == j.bill
             new == [status |-> "PENDING", version |-> 0, po |-> j.po, items |-> j.items, priced |-> j.priced]
  <2>1. /\ bill[i] = Unread /\ bill' = [bill EXCEPT ![i] = new]
        /\ Answer(w) /\ UNCHANGED <<po, posted, rtv, stocked>>
    BY <1>3 DEF CreateSupplierInvoice, At
  <2>2. i \in SupplierInvoice /\ new \in BillRow /\ new.status = "PENDING"
    BY <1>1, InvoiceRequest DEF InvoiceOp, BillRow, SupplierInvoiceStatus
  <2> HIDE DEF new
  <2>3. /\ bill' \in [SupplierInvoice -> BillRow \cup {Unread}]
        /\ \A k \in SupplierInvoice : bill'[k] = IF k = i THEN new ELSE bill[k]
    BY <2>1, <2>2 DEF PurchasingInv, PurchasingTypeOK
  <2>4. PurchasingTypeOK'
    BY <2>1, <2>3 DEF PurchasingInv, PurchasingTypeOK
  <2>5. Handled(w) /\ pc'[w] = "idle"
    BY <1>1, <2>1, AnswerHandles, WhatIsAnswered
  <2>6. PurchasingGrows /\ PurchasingFits(w)'
    BY <2>1, <2>3, <2>5 DEF PurchasingGrows, PurchasingFits
  <2>7. ASSUME NEW k \in SupplierInvoice
        PROVE  InvoiceIsSound(k)'
    BY <2>1, <2>2, <2>3 DEF PurchasingInv, InvoiceIsSound, Matches
  <2> QED
    BY <2>4, <2>5, <2>6, <2>7, PurchasingStepKeeps
<1> QED
  BY <1>2, <1>3 DEF CreateSupplierInvoice

LEMMA BillLooks ==
    ASSUME RequestsInv, PurchasingInv, NEW w \in Worker, pc[w] # "idle",
           job[w].op \in {"MATCH_BILL", "POST_BILL"},
           ReadBill(w, IF job[w].op = "MATCH_BILL" THEN "PENDING" ELSE "MATCHED")
    PROVE  PurchasingInv'
<1> DEFINE b == bill[job[w].bill]
<1>1. UNCHANGED purchasing /\ (Answer(w) \/ See(w, b, "commit"))
  BY DEF ReadBill, SeeIf
<1>2. PurchasingTypeOK' /\ UNCHANGED <<bill, posted, rtv>>
  BY <1>1 DEF purchasing, PurchasingInv, PurchasingTypeOK
<1>3. CASE Answer(w)
  BY <1>2, <1>3, PurchasingAnswers
<1>4. CASE ~ Answer(w)
  <2>1. /\ See(w, b, "commit") /\ b # Unread
        /\ b.status = IF job[w].op = "MATCH_BILL" THEN "PENDING" ELSE "MATCHED"
    BY <1>4 DEF ReadBill, SeeIf
  <2>2. job[w].op \notin ReturnToSupplierOp
    BY DEF ReturnToSupplierOp
  <2> HIDE DEF b
  <2>3. b = bill[job[w].bill]
    BY DEF b
  <2> QED
    BY <1>1, <2>1, <2>2, <2>3, PurchasingLooks
<1> QED
  BY <1>3, <1>4

\* A write of the invoice at the version read: the copy is the row.
LEMMA BillWrites ==
    ASSUME RequestsInv, PurchasingInv, NEW w \in Worker, pc[w] = "commit", Answer(w),
           job[w].op \in {"MATCH_BILL", "POST_BILL"},
           NEW status \in SupplierInvoiceStatus \ {"NONE"}, UpdateBill(w, status),
           job[w].op = "MATCH_BILL" => status = IF Matches(saw[w]) THEN "MATCHED" ELSE "MISMATCHED",
           job[w].op = "POST_BILL" => status = "POSTED",
           posted' = IF job[w].op = "POST_BILL" THEN [posted EXCEPT ![job[w].bill] = @ + 1] ELSE posted,
           UNCHANGED <<po, rtv, stocked>>
    PROVE  PurchasingInv'
<1>1. PICK i \in SupplierInvoice : i = job[w].bill
  BY InvoiceRequest DEF InvoiceOp
<1>2. bill[i] \in BillRow /\ bill[i] # Unread /\ saw[w] = bill[i]
      /\ bill[i].status = IF job[w].op = "MATCH_BILL" THEN "PENDING" ELSE "MATCHED"
  BY <1>1 DEF PurchasingInv, PurchasingTypeOK, PurchasingFits, UpdateBill
<1>3. bill[i].version + 1 \in Nat /\ bill[i].version \in Nat
  BY <1>2 DEF BillRow
<1>4. /\ \A k \in SupplierInvoice : k # i => bill'[k] = bill[k]
      /\ bill'[i].status = status /\ bill'[i].version = bill[i].version + 1
      /\ bill'[i].items = bill[i].items /\ bill'[i].po = bill[i].po /\ bill'[i].priced = bill[i].priced
      /\ bill'[i] \in BillRow
  BY <1>1, <1>2, <1>3 DEF UpdateBill, BillRow, PurchasingInv, PurchasingTypeOK
<1>5. bill' \in [SupplierInvoice -> BillRow \cup {Unread}]
  BY <1>4 DEF UpdateBill, PurchasingInv, PurchasingTypeOK
<1>6. posted' \in [SupplierInvoice -> Nat]
  BY <1>1 DEF PurchasingInv, PurchasingTypeOK
<1>7. PurchasingTypeOK'
  BY <1>5, <1>6 DEF PurchasingInv, PurchasingTypeOK
<1>8. Handled(w) /\ pc'[w] = "idle"
  BY AnswerHandles, WhatIsAnswered
<1>9. bill'[i] # Unread
  BY <1>4, PurchasingAssumption
<1>10. PurchasingGrows /\ PurchasingFits(w)'
  BY <1>3, <1>4, <1>8, <1>9 DEF PurchasingGrows, PurchasingFits
<1>11. ASSUME NEW k \in SupplierInvoice
       PROVE  InvoiceIsSound(k)'
  <2>1. CASE k # i
    <3>1. bill'[k] = bill[k] /\ posted'[k] = posted[k]
      BY <1>1, <1>4, <2>1 DEF PurchasingInv, PurchasingTypeOK
    <3> QED
      BY <3>1 DEF PurchasingInv, InvoiceIsSound, Matches
  <2>2. CASE k = i
    <3>1. posted'[i] = IF job[w].op = "POST_BILL" THEN 1 ELSE 0
      BY <1>1, <1>2 DEF PurchasingInv, PurchasingTypeOK, InvoiceIsSound
    <3>2. job[w].op = "POST_BILL" => Matches(bill[i])
      BY <1>2 DEF PurchasingInv, InvoiceIsSound
    <3>3. status \in {"MATCHED", "POSTED"} => Matches(bill[i])
      BY <1>2, <3>2
    <3>4. status \in {"MATCHED", "POSTED"} => Matches(bill[i])'
      BY <1>4, <3>3 DEF Matches
    <3> QED
      BY <1>4, <1>9, <2>2, <3>1, <3>4 DEF InvoiceIsSound
  <2> QED
    BY <2>1, <2>2
<1> QED
  BY <1>7, <1>8, <1>10, <1>11, PurchasingStepKeeps

LEMMA InvoicesKeep ==
    ASSUME RequestsInv, PurchasingInv, NEW w \in Worker,
           MatchSupplierInvoice(w) \/ PostSupplierInvoice(w)
    PROVE  PurchasingInv'
<1>1. CASE At(w, "MATCH_BILL", "read") /\ ReadBill(w, "PENDING")
  BY <1>1, BillLooks DEF At
<1>2. CASE At(w, "POST_BILL", "read") /\ ReadBill(w, "MATCHED")
  BY <1>2, BillLooks DEF At
<1>3. CASE At(w, "MATCH_BILL", "commit")
  <2> DEFINE status == IF Matches(saw[w]) THEN "MATCHED" ELSE "MISMATCHED"
  <2>1. /\ pc[w] = "commit" /\ job[w].op = "MATCH_BILL" /\ UpdateBill(w, status)
        /\ Answer(w) /\ UNCHANGED <<po, posted, rtv, stocked>>
    BY <1>3 DEF MatchSupplierInvoice, PostSupplierInvoice, At
  <2>2. status \in SupplierInvoiceStatus \ {"NONE"}
    BY DEF SupplierInvoiceStatus
  <2> QED
    BY <2>1, <2>2, BillWrites
<1>4. CASE At(w, "POST_BILL", "commit")
  <2>1. /\ pc[w] = "commit" /\ job[w].op = "POST_BILL" /\ UpdateBill(w, "POSTED")
        /\ posted' = [posted EXCEPT ![job[w].bill] = @ + 1]
        /\ Answer(w) /\ UNCHANGED <<po, rtv, stocked>>
    BY <1>4 DEF MatchSupplierInvoice, PostSupplierInvoice, At
  <2>2. "POSTED" \in SupplierInvoiceStatus \ {"NONE"}
    BY DEF SupplierInvoiceStatus
  <2> QED
    BY <2>1, <2>2, BillWrites
<1> QED
  BY <1>1, <1>2, <1>3, <1>4 DEF MatchSupplierInvoice, PostSupplierInvoice

LEMMA CreatePurchaseReturnKeeps ==
    ASSUME RequestsInv, PurchasingInv, NEW w \in Worker, CreatePurchaseReturn(w)
    PROVE  PurchasingInv'
<1> DEFINE j == job[w]
<1>1. pc[w] # "idle" /\ j.op = "CREATE_RTV" /\ j.op \in ReturnToSupplierOp
  BY DEF CreatePurchaseReturn, At, ReturnToSupplierOp
<1>2. CASE At(w, "CREATE_RTV", "read")
  <2>1. (Answer(w) \/ See(w, Unread, "commit")) /\ UNCHANGED purchasing
    BY <1>2 DEF CreatePurchaseReturn, At, SeeIf
  <2>2. PurchasingTypeOK' /\ UNCHANGED <<bill, posted, rtv>>
    BY <2>1 DEF purchasing, PurchasingInv, PurchasingTypeOK
  <2>3. CASE Answer(w)
    BY <1>1, <2>2, <2>3, PurchasingAnswers
  <2>4. CASE See(w, Unread, "commit")
    BY <1>1, <2>1, <2>4, PurchasingLooks
  <2> QED
    BY <2>1, <2>3, <2>4
<1>3. CASE At(w, "CREATE_RTV", "commit")
  <2> DEFINE new == [status |-> "REQUESTED", po |-> j.po, items |-> j.items]
  <2>1. /\ rtv' = [rtv EXCEPT ![j.rtv] = new]
        /\ stocked' = [p \in Part |-> stocked[p] - j.items[p]]
        /\ Answer(w) /\ UNCHANGED <<po, bill, posted>>
    BY <1>3 DEF CreatePurchaseReturn, At
  <2>2. j.rtv \in PurchaseReturn /\ j.items \in Parts /\ new \in SupplierReturnRow
    BY <1>1, ReturnToSupplierRequest DEF SupplierReturnRow, PurchaseReturnStatus
  <2> HIDE DEF new
  <2>3. stocked' \in [Part -> Int]
    BY <2>1, <2>2 DEF PurchasingInv, PurchasingTypeOK, Parts
  <2>4. PurchasingTypeOK'
    BY <2>1, <2>2, <2>3 DEF PurchasingInv, PurchasingTypeOK
  <2>5. \A r \in PurchaseReturn : rtv[r] # Unread => rtv'[r] # Unread
    BY <2>1, <2>2, PurchasingAssumption DEF PurchasingInv, PurchasingTypeOK
  <2> QED
    BY <1>1, <2>1, <2>4, <2>5, PurchasingAnswers
<1> QED
  BY <1>2, <1>3 DEF CreatePurchaseReturn

LEMMA PurchaseReturnLooks ==
    ASSUME RequestsInv, PurchasingInv, NEW w \in Worker, pc[w] # "idle",
           job[w].op \in ReturnToSupplierOp \ {"CREATE_RTV"}, UNCHANGED purchasing,
           \/ Answer(w)
           \/ rtv[job[w].rtv] # Unread /\ See(w, rtv[job[w].rtv], "commit")
    PROVE  PurchasingInv'
<1>1. PurchasingTypeOK' /\ UNCHANGED <<bill, posted, rtv>>
  BY DEF purchasing, PurchasingInv, PurchasingTypeOK
<1>2. CASE Answer(w)
  BY <1>1, <1>2, PurchasingAnswers
<1>3. CASE ~ Answer(w)
  <2> DEFINE r == rtv[job[w].rtv]
  <2>1. See(w, r, "commit") /\ r # Unread
    BY <1>3
  <2>2. job[w].op \notin {"MATCH_BILL", "POST_BILL"}
    BY DEF ReturnToSupplierOp
  <2>3. r = rtv[job[w].rtv]
    OBVIOUS
  <2> HIDE DEF r
  <2> QED
    BY <2>1, <2>2, <2>3, PurchasingLooks
<1> QED
  BY <1>2, <1>3

LEMMA PurchaseReturnWrites ==
    ASSUME RequestsInv, PurchasingInv, NEW w \in Worker, pc[w] = "commit",
           job[w].op \in ReturnToSupplierOp \ {"CREATE_RTV"},
           NEW status \in PurchaseReturnStatus, UpdatePurchaseReturn(w, status),
           stocked' = stocked \/ stocked' = [p \in Part |-> stocked[p] + saw[w].items[p]]
    PROVE  PurchasingInv'
<1>1. PICK r \in PurchaseReturn : r = job[w].rtv
  BY ReturnToSupplierRequest
<1>2. rtv[r] \in SupplierReturnRow /\ rtv[r] # Unread /\ saw[w] \in SupplierReturnRow
  BY <1>1 DEF PurchasingInv, PurchasingTypeOK, PurchasingFits
<1>3. /\ rtv' = [rtv EXCEPT ![r] = [rtv[r] EXCEPT !.status = status]]
      /\ Answer(w) /\ UNCHANGED <<po, bill, posted>>
  BY <1>1 DEF UpdatePurchaseReturn
<1>4. [rtv[r] EXCEPT !.status = status] \in SupplierReturnRow
  BY <1>2 DEF SupplierReturnRow
<1>5. saw[w].items \in Parts
  BY <1>2 DEF SupplierReturnRow
<1>6. stocked' \in [Part -> Int]
  BY <1>5 DEF PurchasingInv, PurchasingTypeOK, Parts
<1>7. PurchasingTypeOK'
  BY <1>3, <1>4, <1>6 DEF PurchasingInv, PurchasingTypeOK
<1>8. \A k \in PurchaseReturn : rtv[k] # Unread => rtv'[k] # Unread
  BY <1>3, <1>4, PurchasingAssumption DEF PurchasingInv, PurchasingTypeOK
<1> QED
  BY <1>3, <1>7, <1>8, PurchasingAnswers

LEMMA PurchaseReturnsKeep ==
    ASSUME RequestsInv, PurchasingInv, NEW w \in Worker,
           \/ ApprovePurchaseReturn(w) \/ RejectPurchaseReturn(w)
           \/ ShipPurchaseReturn(w) \/ CompletePurchaseReturn(w)
    PROVE  PurchasingInv'
<1>1. /\ pc[w] \in {"read", "commit"}
      /\ job[w].op \in {"APPROVE_RTV", "REJECT_RTV", "SHIP_RTV", "COMPLETE_RTV"}
  BY DEF ApprovePurchaseReturn, RejectPurchaseReturn, ShipPurchaseReturn, CompletePurchaseReturn, At
<1>2. pc[w] # "idle" /\ job[w].op \in ReturnToSupplierOp \ {"CREATE_RTV"}
  BY <1>1 DEF ReturnToSupplierOp
<1>3. CASE pc[w] = "read"
  <2>1. UNCHANGED purchasing /\ (Answer(w) \/ (rtv[job[w].rtv] # Unread /\ See(w, rtv[job[w].rtv], "commit")))
    BY <1>3 DEF ApprovePurchaseReturn, RejectPurchaseReturn, ShipPurchaseReturn, CompletePurchaseReturn,
       At, ReadPurchaseReturn, SeeIf
  <2> QED
    BY <1>2, <2>1, PurchaseReturnLooks
<1>4. CASE pc[w] = "commit"
  <2>1. /\ stocked' = stocked \/ stocked' = [p \in Part |-> stocked[p] + saw[w].items[p]]
        /\ \/ UpdatePurchaseReturn(w, "APPROVED") \/ UpdatePurchaseReturn(w, "REJECTED")
           \/ UpdatePurchaseReturn(w, "SHIPPED") \/ UpdatePurchaseReturn(w, "COMPLETED")
    BY <1>4 DEF ApprovePurchaseReturn, RejectPurchaseReturn, ShipPurchaseReturn, CompletePurchaseReturn, At
  <2>2. {"APPROVED", "REJECTED", "SHIPPED", "COMPLETED"} \subseteq PurchaseReturnStatus
    BY DEF PurchaseReturnStatus
  <2> QED
    BY <1>2, <1>4, <2>1, <2>2, PurchaseReturnWrites
<1> QED
  BY <1>1, <1>3, <1>4

LEMMA PurchasingKeeps ==
    ASSUME RequestsInv, PurchasingInv, PurchasingRests \/ \E w \in Worker : PurchasingStep(w)
    PROVE  PurchasingInv'
<1>1. CASE PurchasingRests
  BY <1>1, PurchasingRestsKeeps
<1>2. ASSUME NEW w \in Worker, PurchasingStep(w)
      PROVE  PurchasingInv'
  BY <1>2, PurchaseOrdersKeep, CreateSupplierInvoiceKeeps, InvoicesKeep, CreatePurchaseReturnKeeps,
     PurchaseReturnsKeep DEF PurchasingStep
<1> QED
  BY <1>1, <1>2

LEMMA PurchasingStart ==
    ASSUME RequestsInit, PurchasingInit
    PROVE  PurchasingInv
<1>1. PurchasingTypeOK
  BY PurchasingAssumption DEF PurchasingInit, PurchasingTypeOK, Parts
<1>2. \A w \in Worker : PurchasingFits(w)
  BY DEF RequestsInit, PurchasingFits
<1>3. \A i \in SupplierInvoice : InvoiceIsSound(i)
  BY DEF PurchasingInit, InvoiceIsSound
<1> QED
  BY <1>1, <1>2, <1>3 DEF PurchasingInv

LEMMA PurchasingHolds == BackOfficeSpec => [](RequestsInv /\ PurchasingInv)
<1>1. BackOfficeInit => RequestsInv /\ PurchasingInv
  BY RequestsStart, PurchasingStart DEF BackOfficeInit
<1>2. RequestsInv /\ PurchasingInv /\ [BackOfficeNext]_<<requests, business>> => (RequestsInv /\ PurchasingInv)'
  <2>1. ASSUME RequestsInv, PurchasingInv, BackOfficeNext PROVE (RequestsInv /\ PurchasingInv)'
    BY <2>1, BackOfficeMoves, RequestsKept, PurchasingKeeps
  <2>2. ASSUME RequestsInv, PurchasingInv, UNCHANGED <<requests, business>> PROVE (RequestsInv /\ PurchasingInv)'
    BY <2>2, BackOfficeStutters, RequestsKept, PurchasingKeeps DEF AllRest, TradeRests
  <2> QED
    BY <2>1, <2>2
<1> QED
  BY <1>1, <1>2, PTL DEF BackOfficeSpec

\* However many matches and postings of an invoice run together, the accounts
\* are told of it once, and only of what was ordered and received.
THEOREM InvoicesPostOnce == BackOfficeSpec => []PostedOnceAsReceived
<1>1. PurchasingInv => PostedOnceAsReceived
  BY DEF PurchasingInv, InvoiceIsSound, PostedOnceAsReceived, Matches
<1> QED
  BY <1>1, PurchasingHolds, PTL

-----------------------------------------------------------------------------
(***************************************************************************)
(* Returns of customers: a handler that is about to write holds a copy of  *)
(* the return, and while the version is the one it read, its refund is     *)
(* what it was then, too.  A return that is still to be asked for does not *)
(* exist yet.                                                              *)
(***************************************************************************)
DecisionOp == ReturnOp \ {"INITIATE_RETURN"}

CopyAllows(op, row) ==
    CASE op = "APPROVE_RETURN" -> row.status = "REQUESTED"
      [] op = "REJECT_RETURN" -> row.status = "REQUESTED"
      [] op = "RECEIVE_RETURN" -> row.status = "APPROVED"
      [] OTHER -> row.status = "RECEIVED"

ReturnFits(w) ==
    /\ pc[w] \in {"check", "commit"} /\ job[w].op \in DecisionOp =>
          LET r == job[w].ret IN
          /\ ret[r] # Unread /\ saw[w].row \in ReturnRow
          /\ saw[w].row.version <= ret[r].version
          /\ saw[w].row.version = ret[r].version => saw[w].row = ret[r]
          /\ CopyAllows(job[w].op, saw[w].row)
    /\ pc[w] = "commit" /\ job[w].op = "COMPLETE_RETURN" =>
          saw[w].refund \in RefundRow /\ saw[w].refund.status = "PENDING"
    /\ pc[w] = "commit" /\ job[w].op = "APPROVE_RETURN" => saw[w].number \in Nat
    /\ pc[w] = "commit" /\ job[w].op = "INITIATE_RETURN" => saw[w] \in Nat

RefundAgrees(r) ==
    LET status == IF ret[r] = Unread THEN "REQUESTED" ELSE ret[r].status IN
    /\ refund[r] # Unread <=> status \in {"APPROVED", "RECEIVED", "COMPLETED"}
    /\ refund[r] # Unread => (refund[r].status = "COMPLETED" <=> status = "COMPLETED")
    /\ receipts[r] = (IF status \in {"RECEIVED", "COMPLETED"} THEN 1 ELSE 0)

ReturnsToCome == \A q \in Live : q.op = "INITIATE_RETURN" => ret[q.ret] = Unread

ReturnInv ==
    /\ ReturnTypeOK
    /\ ReturnsToCome
    /\ \A w \in Worker : ReturnFits(w)
    /\ \A r \in CustomerReturn : RefundAgrees(r)

ReturnGrows ==
    \A r \in CustomerReturn : ret[r] # Unread =>
        ret'[r] = ret[r] \/ (ret'[r] # Unread /\ ret'[r].version > ret[r].version)

LEMMA ReturnRequest ==
    ASSUME NEW r \in Request, r.op \in ReturnOp
    PROVE  r.ret \in CustomerReturn /\ r.listed \in Nat
BY ReturnAssumption

LEMMA NumbersAreNatural ==
    ASSUME NEW w, NEW table
    PROVE  NextNumber(w, table) \in Nat
<1>1. IsFiniteSet(RowsOf(table, TenantOf[job[w].ret]))
  BY ReturnAssumption, FS_Subset DEF RowsOf
<1>2. Cardinality(RowsOf(table, TenantOf[job[w].ret])) \in Nat
  BY <1>1, FS_CardinalityType
<1> QED
  BY <1>2 DEF NextNumber

LEMMA ReturnRestsKeeps ==
    ASSUME RequestsInv, ReturnInv, ReturnRests
    PROVE  ReturnInv'
<1>1. UNCHANGED <<ret, refund, receipts, restocked>> /\ Elsewhere(ReturnOp)
  BY DEF ReturnRests, returns
<1>2. ReturnTypeOK' /\ ReturnsToCome'
  BY <1>1 DEF ReturnInv, ReturnTypeOK, ReturnsToCome, Elsewhere
<1>3. ASSUME NEW v \in Worker
      PROVE  ReturnFits(v)'
  <2>1. ReturnFits(v)
    BY DEF ReturnInv
  <2>2. CASE Rests(v)
    BY <1>1, <2>1, <2>2 DEF Rests, ReturnFits, CopyAllows
  <2>3. CASE ~ Rests(v)
    <3>1. pc'[v] \in {"idle", "read"} \/ job'[v].op \notin ReturnOp
      BY <1>1, <2>3 DEF Elsewhere
    <3> QED
      BY <3>1 DEF ReturnFits, DecisionOp, ReturnOp
  <2> QED
    BY <2>2, <2>3
<1>4. \A r \in CustomerReturn : RefundAgrees(r)'
  BY <1>1 DEF ReturnInv, RefundAgrees
<1> QED
  BY <1>2, <1>3, <1>4 DEF ReturnInv

LEMMA ReturnStepKeeps ==
    ASSUME RequestsInv, ReturnInv, NEW w \in Worker, Handled(w), ReturnGrows,
           ReturnTypeOK', ReturnsToCome', ReturnFits(w)', \A r \in CustomerReturn : RefundAgrees(r)'
    PROVE  ReturnInv'
<1>1. \A v \in Worker \ {w} : Rests(v)
  BY OthersRest
<1>2. ASSUME NEW v \in Worker, v # w
      PROVE  ReturnFits(v)'
  <2>1. ReturnFits(v) /\ Rests(v)
    BY <1>1, <1>2 DEF ReturnInv
  <2>2. ASSUME pc[v] \in {"check", "commit"}, job[v].op \in DecisionOp
        PROVE  LET r == job[v].ret IN
               /\ ret'[r] # Unread /\ saw[v].row \in ReturnRow
               /\ saw[v].row.version <= ret'[r].version
               /\ saw[v].row.version = ret'[r].version => saw[v].row = ret'[r]
               /\ CopyAllows(job[v].op, saw[v].row)
    <3> DEFINE r == job[v].ret
    <3>1. r \in CustomerReturn
      BY <2>2, JobIsRequest, ReturnRequest DEF DecisionOp
    <3>2. /\ saw[v].row \in ReturnRow /\ ret[r] # Unread /\ ret'[r] # Unread
          /\ ret[r] \in ReturnRow /\ ret'[r] \in ReturnRow
          /\ ret'[r] = ret[r] \/ ret'[r].version > ret[r].version
          /\ saw[v].row.version <= ret[r].version
          /\ saw[v].row.version = ret[r].version => saw[v].row = ret[r]
          /\ CopyAllows(job[v].op, saw[v].row)
      BY <2>1, <2>2, <3>1 DEF ReturnFits, ReturnGrows, ReturnTypeOK, ReturnInv
    <3>3. saw[v].row.version \in Nat /\ ret[r].version \in Nat /\ ret'[r].version \in Nat
      BY <3>2 DEF ReturnRow
    <3> QED
      BY <3>2, <3>3
  <2>3. pc'[v] = pc[v] /\ job'[v] = job[v] /\ saw'[v] = saw[v]
    BY <2>1 DEF Rests
  <2> QED
    BY <2>1, <2>2, <2>3 DEF ReturnFits, CopyAllows
<1> QED
  BY <1>2 DEF ReturnInv

\* A step that leaves the returns alone: only what the handler knows counts.
LEMMA ReturnLooks ==
    ASSUME RequestsInv, ReturnInv, NEW w \in Worker, Handled(w), UNCHANGED returns, ReturnFits(w)'
    PROVE  ReturnInv'
<1>1. UNCHANGED <<ret, refund, receipts, restocked>>
  BY DEF returns
<1>2. ReturnGrows /\ ReturnTypeOK' /\ \A r \in CustomerReturn : RefundAgrees(r)'
  BY <1>1 DEF ReturnInv, ReturnGrows, ReturnTypeOK, RefundAgrees
<1>3. ReturnsToCome'
  BY <1>1, LiveShrinks DEF ReturnInv, ReturnsToCome, RequestsMove
<1> QED
  BY <1>2, <1>3, ReturnStepKeeps

LEMMA ReturnAnswers ==
    ASSUME RequestsInv, ReturnInv, NEW w \in Worker, pc[w] # "idle", Answer(w), UNCHANGED returns
    PROVE  ReturnInv'
<1>1. Handled(w) /\ pc'[w] = "idle"
  BY AnswerHandles, WhatIsAnswered
<1>2. ReturnFits(w)'
  BY <1>1 DEF ReturnFits
<1> QED
  BY <1>1, <1>2, ReturnLooks

\* The copy of the return at the time it is read.
LEMMA ReturnIsRead ==
    ASSUME RequestsInv, ReturnInv, NEW w \in Worker, pc[w] # "idle", job[w].op \in DecisionOp,
           UNCHANGED returns, NEW p \in {"check", "commit"}, NEW x, See(w, x, p),
           ret[job[w].ret] # Unread, x.row = ret[job[w].ret], CopyAllows(job[w].op, x.row),
           job[w].op = "COMPLETE_RETURN" => x.refund = refund[job[w].ret],
           job[w].op = "APPROVE_RETURN" => p = "check"
    PROVE  ReturnInv'
<1>1. p \in Step \ {"idle", "read"}
  BY StepNames
<1>2. Handled(w) /\ pc'[w] = p /\ job'[w] = job[w] /\ saw'[w] = x
  BY <1>1, SeeHandles, WhatIsSeen
<1>3. PICK r \in CustomerReturn : r = job[w].ret
  BY JobIsRequest, ReturnRequest DEF DecisionOp
<1>4. x.row \in ReturnRow /\ x.row.version \in Nat
  BY <1>3 DEF ReturnInv, ReturnTypeOK, ReturnRow
<1>5. job[w].op = "COMPLETE_RETURN" => x.refund \in RefundRow /\ x.refund.status = "PENDING"
  <2> SUFFICES ASSUME job[w].op = "COMPLETE_RETURN"
               PROVE  x.refund \in RefundRow /\ x.refund.status = "PENDING"
    OBVIOUS
  <2>1. RefundAgrees(r) /\ ret[r] # Unread /\ ret[r].status = "RECEIVED" /\ x.refund = refund[r]
    BY <1>3 DEF ReturnInv, CopyAllows
  <2>2. refund[r] # Unread /\ refund[r].status # "COMPLETED" /\ refund[r] \in RefundRow
    BY <2>1 DEF RefundAgrees, ReturnInv, ReturnTypeOK
  <2> QED
    BY <2>1, <2>2 DEF RefundRow
<1>6. UNCHANGED <<ret, refund>>
  BY DEF returns
<1>7. ReturnFits(w)'
  BY <1>2, <1>3, <1>4, <1>5, <1>6 DEF ReturnFits, CopyAllows, DecisionOp
<1> QED
  BY <1>2, <1>7, ReturnLooks

LEMMA ReadReturnKeeps ==
    ASSUME RequestsInv, ReturnInv, NEW w \in Worker, pc[w] # "idle", UNCHANGED returns,
           NEW to, NEW p \in {"check", "commit"}, ReadReturn(w, to, p),
           \/ job[w].op = "APPROVE_RETURN" /\ to = "APPROVED" /\ p = "check"
           \/ job[w].op = "RECEIVE_RETURN" /\ to = "RECEIVED"
           \/ job[w].op = "COMPLETE_RETURN" /\ to = "COMPLETED"
    PROVE  ReturnInv'
<1>1. CASE Answer(w)
  BY <1>1, ReturnAnswers
<1>2. CASE ~ Answer(w)
  <2>1. PICK r \in CustomerReturn : r = job[w].ret
    BY JobIsRequest, ReturnRequest DEF ReturnOp
  <2> DEFINE x == [row |-> ret[r], refund |-> refund[r]]
  <2>2. ret[r] # Unread /\ to \in RETURN_TRANSITIONS[ret[r].status] /\ See(w, x, p)
    BY <1>2, <2>1 DEF ReadReturn, SeeIf
  <2>3. ret[r].status \in ReturnStatus
    BY <2>1, <2>2 DEF ReturnInv, ReturnTypeOK, ReturnRow
  <2>4. /\ to = "APPROVED" => ret[r].status = "REQUESTED"
        /\ to = "RECEIVED" => ret[r].status = "APPROVED"
        /\ to = "COMPLETED" => ret[r].status = "RECEIVED"
    BY <2>2, <2>3 DEF RETURN_TRANSITIONS, ReturnStatus
  <2>5. x.row = ret[r] /\ x.refund = refund[r]
    OBVIOUS
  <2> HIDE DEF x
  <2>6. CopyAllows(job[w].op, x.row) /\ job[w].op \in DecisionOp
    BY <2>4, <2>5 DEF CopyAllows, DecisionOp, ReturnOp
  <2> QED
    BY <2>1, <2>2, <2>5, <2>6, ReturnIsRead
<1> QED
  BY <1>1, <1>2

LEMMA InitiateReturnKeeps ==
    ASSUME RequestsInv, ReturnInv, NEW w \in Worker, InitiateReturn(w)
    PROVE  ReturnInv'
<1>1. pc[w] # "idle" /\ job[w].op = "INITIATE_RETURN"
  BY DEF InitiateReturn, At
<1>2. CASE At(w, "INITIATE_RETURN", "read")
  <2>1. UNCHANGED returns /\ (Answer(w) \/ See(w, NextNumber(w, ret), "commit"))
    BY <1>2 DEF InitiateReturn, At, SeeIf
  <2>2. ASSUME See(w, NextNumber(w, ret), "commit")
        PROVE  Handled(w) /\ ReturnFits(w)'
    <3>1. Handled(w) /\ pc'[w] = "commit" /\ job'[w] = job[w] /\ saw'[w] = NextNumber(w, ret)
      BY <1>1, <2>2, SeeHandles, WhatIsSeen, StepNames
    <3> QED
      BY <1>1, <3>1, NumbersAreNatural DEF ReturnFits, DecisionOp
  <2> QED
    BY <1>1, <2>1, <2>2, ReturnAnswers, ReturnLooks
<1>3. CASE At(w, "INITIATE_RETURN", "commit")
  <2>1. PICK r \in CustomerReturn : r = job[w].ret
    BY <1>1, JobIsRequest, ReturnRequest DEF ReturnOp
  <2> DEFINE new == [status |-> "REQUESTED", version |-> 0, number |-> saw[w]]
  <2>2. /\ ret' = [ret EXCEPT ![r] = new] /\ Answer(w)
        /\ UNCHANGED <<refund, receipts, restocked>>
    BY <1>3, <2>1 DEF InitiateReturn, At
  <2>3. saw[w] \in Nat /\ ret[r] = Unread
    BY <1>1, <1>3, <2>1, JobIsRequest DEF ReturnInv, ReturnFits, ReturnsToCome, At
  <2>4. new \in ReturnRow /\ new.status = "REQUESTED"
    BY <2>3 DEF ReturnRow, ReturnStatus
  <2>5. new # Unread
    BY <2>4, ReturnAssumption
  <2> HIDE DEF new
  <2>6. \A k \in CustomerReturn : ret'[k] = IF k = r THEN new ELSE ret[k]
    BY <2>2 DEF ReturnInv, ReturnTypeOK
  <2>7. ReturnTypeOK'
    BY <2>2, <2>4 DEF ReturnInv, ReturnTypeOK
  <2>8. ReturnsToCome'
    <3>1. ASSUME NEW q \in Live', q.op = "INITIATE_RETURN"
          PROVE  ret'[q.ret] = Unread
      <4>1. q \in Live /\ q # job[w] /\ q \in Request /\ job[w] \in Request
        BY <1>1, <2>2, AnsweredIsGone, JobIsRequest DEF Live
      <4>2. q.ret # r
        BY <1>1, <2>1, <3>1, <4>1, ReturnAssumption
      <4>3. q.ret \in CustomerReturn /\ ret[q.ret] = Unread
        BY <3>1, <4>1, ReturnRequest DEF ReturnInv, ReturnsToCome, ReturnOp
      <4> QED
        BY <2>6, <4>2, <4>3
    <3> QED
      BY <3>1 DEF ReturnsToCome
  <2>9. Handled(w) /\ pc'[w] = "idle"
    BY <1>1, <2>2, AnswerHandles, WhatIsAnswered
  <2>10. ReturnGrows /\ ReturnFits(w)'
    BY <2>3, <2>6, <2>9 DEF ReturnGrows, ReturnFits
  <2>11. \A k \in CustomerReturn : RefundAgrees(k)'
    BY <2>2, <2>3, <2>4, <2>5, <2>6 DEF ReturnInv, RefundAgrees
  <2> QED
    BY <2>7, <2>8, <2>9, <2>10, <2>11, ReturnStepKeeps
<1> QED
  BY <1>2, <1>3 DEF InitiateReturn

\* A write of the return at the version read: the copy is the row, so that
\* what the copy allowed is still allowed.
LEMMA ReturnIsWritten ==
    ASSUME RequestsInv, ReturnInv, NEW w \in Worker, pc[w] = "commit", job[w].op \in DecisionOp, Answer(w),
           NEW r \in CustomerReturn, r = job[w].ret,
           NEW status \in ReturnStatus, UpdateReturn(w, status),
           refund' \in [CustomerReturn -> RefundRow \cup {Unread}],
           receipts' \in [CustomerReturn -> Nat], restocked' \in [CustomerReturn -> Nat],
           \A k \in CustomerReturn \ {r} : refund'[k] = refund[k] /\ receipts'[k] = receipts[k],
           refund'[r] # Unread <=> status \in {"APPROVED", "RECEIVED", "COMPLETED"},
           refund'[r] # Unread => (refund'[r].status = "COMPLETED" <=> status = "COMPLETED"),
           receipts'[r] = (IF status \in {"RECEIVED", "COMPLETED"} THEN 1 ELSE 0)
    PROVE  ReturnInv'
<1>1. ret[r] \in ReturnRow /\ ret[r] # Unread
  BY DEF ReturnInv, ReturnTypeOK, ReturnFits
<1>2. ret[r].version + 1 \in Nat /\ ret[r].version \in Nat
  BY <1>1 DEF ReturnRow
<1>3. /\ \A k \in CustomerReturn : k # r => ret'[k] = ret[k]
      /\ ret'[r].status = status /\ ret'[r].version = ret[r].version + 1
      /\ ret'[r] \in ReturnRow
  BY <1>1, <1>2 DEF UpdateReturn, ReturnRow, ReturnInv, ReturnTypeOK
<1>4. ret' \in [CustomerReturn -> ReturnRow \cup {Unread}]
  BY <1>3 DEF UpdateReturn, ReturnInv, ReturnTypeOK
<1>5. ReturnTypeOK' /\ ret'[r] # Unread
  BY <1>3, <1>4, ReturnAssumption DEF ReturnTypeOK
<1>6. Handled(w) /\ pc'[w] = "idle"
  BY AnswerHandles, WhatIsAnswered
<1>7. ReturnsToCome'
  <2>1. ASSUME NEW q \in Live', q.op = "INITIATE_RETURN"
        PROVE  ret'[q.ret] = Unread
    <3>1. q \in Live /\ q \in Request
      BY <1>6, LiveShrinks DEF RequestsMove, Live
    <3>2. q.ret \in CustomerReturn /\ ret[q.ret] = Unread
      BY <2>1, <3>1, ReturnRequest DEF ReturnInv, ReturnsToCome, ReturnOp
    <3> QED
      BY <1>1, <1>3, <3>2
  <2> QED
    BY <2>1 DEF ReturnsToCome
<1>8. ReturnGrows /\ ReturnFits(w)'
  BY <1>2, <1>3, <1>5, <1>6 DEF ReturnGrows, ReturnFits
<1>9. \A k \in CustomerReturn : RefundAgrees(k)'
  BY <1>3, <1>5 DEF ReturnInv, RefundAgrees
<1> QED
  BY <1>5, <1>6, <1>7, <1>8, <1>9, ReturnStepKeeps

\* What holds of the return that is about to be written.
LEMMA ReturnAsRead ==
    ASSUME RequestsInv, ReturnInv, NEW w \in Worker, pc[w] = "commit", job[w].op \in DecisionOp,
           NEW status, UpdateReturn(w, status)
    PROVE  \E r \in CustomerReturn :
              /\ r = job[w].ret /\ ret[r] # Unread /\ CopyAllows(job[w].op, ret[r])
              /\ RefundAgrees(r)
<1>1. PICK r \in CustomerReturn : r = job[w].ret
  BY JobIsRequest, ReturnRequest DEF DecisionOp
<1>2. ret[r] # Unread /\ saw[w].row = ret[r] /\ CopyAllows(job[w].op, saw[w].row)
  BY <1>1 DEF ReturnInv, ReturnFits, UpdateReturn
<1> QED
  BY <1>1, <1>2 DEF ReturnInv

LEMMA ApproveReturnKeeps ==
    ASSUME RequestsInv, ReturnInv, NEW w \in Worker, ApproveReturn(w)
    PROVE  ReturnInv'
<1>1. pc[w] # "idle" /\ job[w].op = "APPROVE_RETURN" /\ job[w].op \in DecisionOp
  BY DEF ApproveReturn, At, DecisionOp, ReturnOp
<1>2. CASE pc[w] = "read"
  <2>1. UNCHANGED returns /\ ReadReturn(w, "APPROVED", "check")
    BY <1>2 DEF ApproveReturn, At
  <2> QED
    BY <1>1, <2>1, ReadReturnKeeps
<1>3. CASE pc[w] = "check"
  <2> DEFINE x == [row |-> saw[w].row, number |-> NextNumber(w, refund)]
  <2>1. UNCHANGED returns /\ See(w, x, "commit")
    BY <1>3 DEF ApproveReturn, At
  <2>2. x.row = saw[w].row /\ x.number \in Nat
    BY NumbersAreNatural
  <2> HIDE DEF x
  <2>3. Handled(w) /\ pc'[w] = "commit" /\ job'[w] = job[w] /\ saw'[w] = x
    BY <1>1, <2>1, SeeHandles, WhatIsSeen, StepNames
  <2>4. ReturnFits(w) /\ UNCHANGED ret
    BY <2>1 DEF ReturnInv, returns
  <2>5. ReturnFits(w)'
    BY <1>1, <1>3, <2>2, <2>3, <2>4 DEF ReturnFits, CopyAllows
  <2> QED
    BY <2>1, <2>3, <2>5, ReturnLooks
<1>4. CASE pc[w] = "commit"
  <2>1. UpdateReturn(w, "APPROVED") /\ Answer(w) /\ UNCHANGED <<receipts, restocked>>
    BY <1>4 DEF ApproveReturn, At
  <2>2. PICK r \in CustomerReturn : r = job[w].ret /\ ret[r].status = "REQUESTED" /\ RefundAgrees(r)
                                    /\ ret[r] # Unread
    BY <1>1, <1>4, <2>1, ReturnAsRead DEF CopyAllows
  <2> DEFINE new == [status |-> "PENDING", version |-> 0, number |-> saw[w].number]
  <2>3. refund' = [refund EXCEPT ![r] = new]
    BY <1>4, <2>2 DEF ApproveReturn, At
  <2>4. saw[w].number \in Nat
    BY <1>1, <1>4 DEF ReturnInv, ReturnFits
  <2>5. new \in RefundRow /\ new.status = "PENDING"
    BY <2>4 DEF RefundRow
  <2> HIDE DEF new
  <2>6. refund'[r] = new /\ new # Unread /\ \A k \in CustomerReturn \ {r} : refund'[k] = refund[k]
    BY <2>3, <2>5, ReturnAssumption DEF ReturnInv, ReturnTypeOK
  <2>7. /\ refund' \in [CustomerReturn -> RefundRow \cup {Unread}]
        /\ receipts' \in [CustomerReturn -> Nat] /\ restocked' \in [CustomerReturn -> Nat]
    BY <2>1, <2>3, <2>5 DEF ReturnInv, ReturnTypeOK
  <2>8. receipts'[r] = 0
    BY <2>1, <2>2 DEF RefundAgrees
  <2>9. "APPROVED" \in ReturnStatus
    BY DEF ReturnStatus
  <2> QED
    BY <1>1, <1>4, <2>1, <2>2, <2>5, <2>6, <2>7, <2>8, <2>9, ReturnIsWritten
<1> QED
  BY <1>2, <1>3, <1>4 DEF ApproveReturn, At

LEMMA RejectReturnKeeps ==
    ASSUME RequestsInv, ReturnInv, NEW w \in Worker, RejectReturn(w)
    PROVE  ReturnInv'
<1>1. pc[w] # "idle" /\ job[w].op = "REJECT_RETURN" /\ job[w].op \in DecisionOp
  BY DEF RejectReturn, At, DecisionOp, ReturnOp
<1>2. CASE pc[w] = "read"
  <2> DEFINE x == [row |-> ret[job[w].ret]]
  <2>1. UNCHANGED returns
    BY <1>2 DEF RejectReturn, At
  <2>2. \/ Answer(w)
        \/ /\ ret[job[w].ret] # Unread /\ ret[job[w].ret].status = "REQUESTED" /\ See(w, x, "commit")
    BY <1>2 DEF RejectReturn, At, SeeIf
  <2>3. x.row = ret[job[w].ret]
    OBVIOUS
  <2> HIDE DEF x
  <2>4. ret[job[w].ret].status = "REQUESTED" => CopyAllows(job[w].op, x.row)
    BY <1>1, <2>3 DEF CopyAllows
  <2> QED
    BY <1>1, <2>1, <2>2, <2>3, <2>4, ReturnAnswers, ReturnIsRead
<1>3. CASE pc[w] = "commit"
  <2>1. UpdateReturn(w, "REJECTED") /\ Answer(w) /\ UNCHANGED <<refund, receipts, restocked>>
    BY <1>3 DEF RejectReturn, At
  <2>2. PICK r \in CustomerReturn : r = job[w].ret /\ ret[r].status = "REQUESTED" /\ RefundAgrees(r)
                                    /\ ret[r] # Unread
    BY <1>1, <1>3, <2>1, ReturnAsRead DEF CopyAllows
  <2>3. "REJECTED" \in ReturnStatus
    BY DEF ReturnStatus
  <2>4. receipts[r] = 0 /\ refund[r] = Unread
    BY <2>2 DEF RefundAgrees
  <2>5. /\ refund \in [CustomerReturn -> RefundRow \cup {Unread}]
        /\ receipts \in [CustomerReturn -> Nat] /\ restocked \in [CustomerReturn -> Nat]
    BY DEF ReturnInv, ReturnTypeOK
  <2> QED
    BY <1>1, <1>3, <2>1, <2>2, <2>3, <2>4, <2>5, ReturnIsWritten
<1> QED
  BY <1>2, <1>3 DEF RejectReturn, At

LEMMA ReceiveReturnKeeps ==
    ASSUME RequestsInv, ReturnInv, NEW w \in Worker, ReceiveReturn(w)
    PROVE  ReturnInv'
<1>1. pc[w] # "idle" /\ job[w].op = "RECEIVE_RETURN" /\ job[w].op \in DecisionOp
  BY DEF ReceiveReturn, At, DecisionOp, ReturnOp
<1>2. CASE pc[w] = "read"
  <2>1. UNCHANGED returns /\ ReadReturn(w, "RECEIVED", "commit")
    BY <1>2 DEF ReceiveReturn, At
  <2> QED
    BY <1>1, <2>1, ReadReturnKeeps
<1>3. CASE pc[w] = "commit"
  <2>1. UpdateReturn(w, "RECEIVED") /\ Answer(w) /\ UNCHANGED refund
    BY <1>3 DEF ReceiveReturn, At
  <2>2. PICK r \in CustomerReturn : r = job[w].ret /\ ret[r].status = "APPROVED" /\ RefundAgrees(r)
                                    /\ ret[r] # Unread
    BY <1>1, <1>3, <2>1, ReturnAsRead DEF CopyAllows
  <2>3. "RECEIVED" \in ReturnStatus
    BY DEF ReturnStatus
  <2>4. receipts[r] = 0 /\ refund[r] # Unread /\ refund[r].status # "COMPLETED"
    BY <2>2 DEF RefundAgrees
  <2>5. job[w].listed \in Nat
    BY <1>1, JobIsRequest, ReturnRequest DEF ReturnOp
  <2>6. /\ refund \in [CustomerReturn -> RefundRow \cup {Unread}]
        /\ receipts \in [CustomerReturn -> Nat] /\ restocked \in [CustomerReturn -> Nat]
    BY DEF ReturnInv, ReturnTypeOK
  <2>7. /\ receipts' = [receipts EXCEPT ![r] = receipts[r] + 1]
        /\ restocked' = [restocked EXCEPT ![r] = restocked[r] + job[w].listed]
    BY <1>3, <2>2 DEF ReceiveReturn, At
  <2>8. /\ receipts' \in [CustomerReturn -> Nat] /\ restocked' \in [CustomerReturn -> Nat]
        /\ receipts'[r] = 1 /\ \A k \in CustomerReturn \ {r} : receipts'[k] = receipts[k]
    BY <2>4, <2>5, <2>6, <2>7
  <2> QED
    BY <1>1, <1>3, <2>1, <2>2, <2>3, <2>4, <2>6, <2>8, ReturnIsWritten
<1> QED
  BY <1>2, <1>3 DEF ReceiveReturn, At

LEMMA CompleteReturnKeeps ==
    ASSUME RequestsInv, ReturnInv, NEW w \in Worker, CompleteReturn(w)
    PROVE  ReturnInv'
<1>1. pc[w] # "idle" /\ job[w].op = "COMPLETE_RETURN" /\ job[w].op \in DecisionOp
  BY DEF CompleteReturn, At, DecisionOp, ReturnOp
<1>2. CASE pc[w] = "read"
  <2>1. UNCHANGED returns /\ ReadReturn(w, "COMPLETED", "commit")
    BY <1>2 DEF CompleteReturn, At
  <2> QED
    BY <1>1, <2>1, ReadReturnKeeps
<1>3. CASE pc[w] = "commit"
  <2>1. UpdateReturn(w, "COMPLETED") /\ Answer(w) /\ UNCHANGED <<receipts, restocked>>
    BY <1>3 DEF CompleteReturn, At
  <2>2. PICK r \in CustomerReturn : r = job[w].ret /\ ret[r].status = "RECEIVED" /\ RefundAgrees(r)
                                    /\ ret[r] # Unread
    BY <1>1, <1>3, <2>1, ReturnAsRead DEF CopyAllows, DecisionOp, ReturnOp
  <2>3. "COMPLETED" \in ReturnStatus
    BY DEF ReturnStatus
  <2>4. receipts[r] = 1 /\ refund[r] # Unread
    BY <2>2 DEF RefundAgrees
  <2>5. /\ refund \in [CustomerReturn -> RefundRow \cup {Unread}] /\ refund[r] \in RefundRow
        /\ receipts \in [CustomerReturn -> Nat] /\ restocked \in [CustomerReturn -> Nat]
    BY <2>4 DEF ReturnInv, ReturnTypeOK
  <2>6. saw[w].refund \in RefundRow /\ saw[w].refund.status = "PENDING" /\ saw[w].refund # Unread
    BY <1>1, <1>3, ReturnAssumption DEF ReturnInv, ReturnFits
  <2>7. refund' = [refund EXCEPT ![r].status = "COMPLETED", ![r].version = @ + 1]
    BY <1>3, <2>2, <2>6 DEF CompleteReturn, At
  <2>8. refund[r].version + 1 \in Nat
    BY <2>5 DEF RefundRow
  <2>9. /\ refund'[r].status = "COMPLETED" /\ refund'[r] \in RefundRow
        /\ \A k \in CustomerReturn \ {r} : refund'[k] = refund[k]
    BY <2>5, <2>7, <2>8 DEF RefundRow
  <2>10. refund' \in [CustomerReturn -> RefundRow \cup {Unread}]
    BY <2>5, <2>7, <2>9
  <2>11. refund'[r] # Unread
    BY <2>9, ReturnAssumption
  <2> QED
    BY <1>1, <1>3, <2>1, <2>2, <2>3, <2>4, <2>5, <2>9, <2>10, <2>11, ReturnIsWritten
<1> QED
  BY <1>2, <1>3 DEF CompleteReturn, At

LEMMA ReturnKeeps ==
    ASSUME RequestsInv, ReturnInv, ReturnRests \/ \E w \in Worker : ReturnStep(w)
    PROVE  ReturnInv'
<1>1. CASE ReturnRests
  BY <1>1, ReturnRestsKeeps
<1>2. ASSUME NEW w \in Worker, ReturnFails(w)
      PROVE  ReturnInv'
  BY <1>2, ReturnAnswers DEF ReturnFails
<1>3. ASSUME NEW w \in Worker, ReturnStep(w)
      PROVE  ReturnInv'
  BY <1>2, <1>3, InitiateReturnKeeps, ApproveReturnKeeps, RejectReturnKeeps, ReceiveReturnKeeps,
     CompleteReturnKeeps DEF ReturnStep
<1> QED
  BY <1>1, <1>3

LEMMA ReturnStart ==
    ASSUME RequestsInit, ReturnInit
    PROVE  ReturnInv
<1>1. ReturnTypeOK
  BY DEF ReturnInit, ReturnTypeOK
<1>2. ReturnsToCome
  <2>1. \A q \in Request : q.op = "INITIATE_RETURN" => q.ret \in CustomerReturn
    BY ReturnRequest DEF ReturnOp
  <2> QED
    BY <2>1 DEF ReturnInit, ReturnsToCome, Live
<1>3. \A w \in Worker : ReturnFits(w)
  BY DEF RequestsInit, ReturnFits
<1>4. \A r \in CustomerReturn : RefundAgrees(r)
  BY DEF ReturnInit, RefundAgrees
<1> QED
  BY <1>1, <1>2, <1>3, <1>4 DEF ReturnInv

LEMMA ReturnHolds == BackOfficeSpec => [](RequestsInv /\ ReturnInv)
<1>1. BackOfficeInit => RequestsInv /\ ReturnInv
  BY RequestsStart, ReturnStart DEF BackOfficeInit
<1>2. RequestsInv /\ ReturnInv /\ [BackOfficeNext]_<<requests, business>> => (RequestsInv /\ ReturnInv)'
  <2>1. ASSUME RequestsInv, ReturnInv, BackOfficeNext PROVE (RequestsInv /\ ReturnInv)'
    BY <2>1, BackOfficeMoves, RequestsKept, ReturnKeeps
  <2>2. ASSUME RequestsInv, ReturnInv, UNCHANGED <<requests, business>> PROVE (RequestsInv /\ ReturnInv)'
    BY <2>2, BackOfficeStutters, RequestsKept, ReturnKeeps DEF AllRest, TradeRests
  <2> QED
    BY <2>1, <2>2
<1> QED
  BY <1>1, <1>2, PTL DEF BackOfficeSpec

\* Whoever approves, rejects, receives and completes at the same time: money
\* is owed exactly for an approved return, paid back exactly for a completed
\* one, and the goods come in by one receipt.
THEOREM RefundsFollowReturns == BackOfficeSpec => []ReturnAndRefundAgree
<1>1. ReturnInv => ReturnAndRefundAgree
  BY DEF ReturnInv, RefundAgrees, ReturnAndRefundAgree
<1> QED
  BY <1>1, ReturnHolds, PTL

-----------------------------------------------------------------------------
(***************************************************************************)
(* Quotes.  The price of a quote is found in its call's rules before the   *)
(* row is written; what was found does not change meanwhile.               *)
(***************************************************************************)
Found(j, rule) ==
    LET rules == Applicable(j.rules, j.client, j.good, j.quantity) IN
    (rule = Unread /\ rules = {}) \/ rule \in Winners(rules, j.client, j.good)

QuoteFits(w) ==
    pc[w] = "commit" /\ job[w].op \in QuoteOp =>
       IF job[w].op = "DRAW_UP_QUOTE" THEN Found(job[w], saw[w]) ELSE quote[job[w].quote] # Unread

QuoteInv == QuoteTypeOK /\ \A w \in Worker : QuoteFits(w)

LEMMA QuoteRequest ==
    ASSUME NEW r \in Request, r.op \in QuoteOp
    PROVE  /\ r.quote \in Quote /\ r.client \in Null(Client) /\ r.good \in Good
           /\ r.quantity \in Nat \ {0} /\ r.off \in 0..100
           /\ \A rule \in r.rules : rule \in PriceRule
BY QuoteAssumption

\* A client with a contract for the product is given one of its own, and no
\* client of a tier the rule of another.
LEMMA FoundSuits ==
    ASSUME NEW j, j.client \in Null(Client), TierFor(j.client) # NoOne, j.good \in Good,
           \A rule \in j.rules : rule \in PriceRule, NEW rule, Found(j, rule)
    PROVE  /\ rule # Unread =>
                 \/ rule.client = j.client \/ rule.tier = TierOf[j.client]
                 \/ rule.client = NoOne /\ rule.tier = NoOne
           /\ (\E c \in j.rules : Contract(c, j)) => rule # Unread /\ rule.client = j.client
<1> DEFINE rules == Applicable(j.rules, j.client, j.good, j.quantity)
<1>1. j.client # NoOne /\ TierFor(j.client) = TierOf[j.client]
  BY DEF TierFor
<1>2. \A r \in rules : r \in j.rules /\ InScope(r, j.client)
  BY DEF Applicable
<1>3. (rule = Unread /\ rules = {}) \/ rule \in Winners(rules, j.client, j.good)
  BY DEF Found
<1>4. rule \in Winners(rules, j.client, j.good) => rule \in rules /\ rule # Unread
  BY <1>2, QuoteAssumption DEF Winners
<1>5. rule # Unread =>
         \/ rule.client = j.client \/ rule.tier = TierOf[j.client]
         \/ rule.client = NoOne /\ rule.tier = NoOne
  BY <1>1, <1>2, <1>3, <1>4 DEF InScope
<1>6. ASSUME NEW c \in j.rules, Contract(c, j)
      PROVE  rule # Unread /\ rule.client = j.client
  <2>1. c \in rules
    BY <1>6 DEF Applicable, Contract, InScope, Covers
  <2>2. rule \in rules /\ rule # Unread /\ Score(c, j.client, j.good) <= Score(rule, j.client, j.good)
    BY <1>3, <1>4, <2>1 DEF Winners
  <2>3. Score(c, j.client, j.good) >= 120
    BY <1>1, <1>6 DEF Score, Contract
  <2>4. rule.client # j.client => Score(rule, j.client, j.good) <= 71
    BY DEF Score
  <2>5. Score(c, j.client, j.good) \in Int /\ Score(rule, j.client, j.good) \in Int
    BY DEF Score
  <2> QED
    BY <2>2, <2>3, <2>4, <2>5
<1> QED
  BY <1>5, <1>6

LEMMA QuoteRestsKeeps ==
    ASSUME RequestsInv, QuoteInv, QuoteRests
    PROVE  QuoteInv'
<1>1. UNCHANGED <<quote, past>> /\ Elsewhere(QuoteOp)
  BY DEF QuoteRests, quotes
<1>2. ASSUME NEW v \in Worker
      PROVE  QuoteFits(v)'
  <2>1. QuoteFits(v)
    BY DEF QuoteInv
  <2>2. CASE Rests(v)
    BY <1>1, <2>1, <2>2 DEF Rests, QuoteFits
  <2>3. CASE ~ Rests(v)
    <3>1. pc'[v] \in {"idle", "read"} \/ job'[v].op \notin QuoteOp
      BY <1>1, <2>3 DEF Elsewhere
    <3> QED
      BY <3>1 DEF QuoteFits
  <2> QED
    BY <2>2, <2>3
<1> QED
  BY <1>1, <1>2 DEF QuoteInv, QuoteTypeOK

\* Quotes stay.
LEMMA QuotesStay ==
    ASSUME RequestsInv, QuoteInv, NEW w \in Worker, Handled(w), QuoteTypeOK', QuoteFits(w)',
           \A q \in Quote : quote[q] # Unread => quote'[q] # Unread
    PROVE  QuoteInv'
<1>1. ASSUME NEW v \in Worker, v # w
      PROVE  QuoteFits(v)'
  <2>1. QuoteFits(v) /\ pc'[v] = pc[v] /\ job'[v] = job[v] /\ saw'[v] = saw[v]
    BY <1>1, OthersRest DEF QuoteInv, Rests
  <2>2. CASE pc[v] # "idle" /\ job[v].op \in QuoteOp
    <3>1. PICK q \in Quote : q = job[v].quote
      BY <2>2, JobIsRequest, QuoteRequest
    <3> QED
      BY <2>1, <3>1 DEF QuoteFits
  <2>3. CASE ~ (pc[v] # "idle" /\ job[v].op \in QuoteOp)
    BY <2>1, <2>3 DEF QuoteFits
  <2> QED
    BY <2>2, <2>3
<1> QED
  BY <1>1 DEF QuoteInv

LEMMA QuoteAnswers ==
    ASSUME RequestsInv, QuoteInv, NEW w \in Worker, pc[w] # "idle", Answer(w), QuoteTypeOK',
           \A q \in Quote : quote[q] # Unread => quote'[q] # Unread
    PROVE  QuoteInv'
<1>1. Handled(w) /\ pc'[w] = "idle"
  BY AnswerHandles, WhatIsAnswered
<1> QED
  BY <1>1, QuotesStay DEF QuoteFits

LEMMA QuoteReads ==
    ASSUME RequestsInv, QuoteInv, NEW w \in Worker, pc[w] = "read", job[w].op \in QuoteOp \ {"DRAW_UP_QUOTE"},
           NEW from, NEW valid, ReadQuote(w, from, valid)
    PROVE  QuoteInv'
<1>1. UNCHANGED <<quote, past>> /\ QuoteTypeOK'
  BY DEF ReadQuote, quotes, QuoteInv, QuoteTypeOK
<1>2. CASE Answer(w)
  BY <1>1, <1>2, QuoteAnswers
<1>3. CASE quote[job[w].quote] # Unread /\ See(w, quote[job[w].quote], "commit")
  <2>1. Handled(w) /\ pc'[w] = "commit" /\ job'[w] = job[w]
    BY <1>3, SeeHandles, WhatIsSeen, StepNames
  <2>2. QuoteFits(w)'
    BY <1>1, <1>3, <2>1 DEF QuoteFits
  <2> QED
    BY <1>1, <2>1, <2>2, QuotesStay
<1> QED
  BY <1>2, <1>3 DEF ReadQuote, SeeIf

LEMMA QuoteWrites ==
    ASSUME RequestsInv, QuoteInv, NEW w \in Worker, pc[w] = "commit",
           job[w].op \in QuoteOp \ {"DRAW_UP_QUOTE"},
           NEW status \in {"DRAFT", "SENT", "ACCEPTED", "REJECTED", "EXPIRED", "CONVERTED"},
           WriteQuote(w, status)
    PROVE  QuoteInv'
<1>1. PICK q \in Quote : q = job[w].quote
  BY JobIsRequest, QuoteRequest
<1>2. quote[q] # Unread /\ quote[q] \in QuoteRow /\ quote \in [Quote -> QuoteRow \cup {Unread}]
  BY <1>1 DEF QuoteInv, QuoteFits, QuoteTypeOK
<1> DEFINE row == [quote[q] EXCEPT !.status = status]
<1>3. row \in QuoteRow
  BY <1>2 DEF QuoteRow
<1>4. quote' = [quote EXCEPT ![q] = row] /\ past' = past /\ Answer(w)
  BY <1>1, <1>2 DEF WriteQuote
<1> HIDE DEF row
<1>5. row # Unread
  BY <1>3, QuoteAssumption
<1>6. \A i \in Quote : quote[i] # Unread => quote'[i] # Unread
  BY <1>2, <1>4, <1>5
<1>7. quote' \in [Quote -> QuoteRow \cup {Unread}]
  BY <1>2, <1>3, <1>4
<1>8. QuoteTypeOK'
  BY <1>4, <1>6, <1>7 DEF QuoteInv, QuoteTypeOK
<1> QED
  BY <1>4, <1>6, <1>8, QuoteAnswers

LEMMA PriceIsInt ==
    ASSUME NEW rule \in PriceRule, NEW good \in Good
    PROVE  PriceBy(rule, good) \in Int
<1>1. rule.value \in Nat /\ Shelf[good] \in Nat /\ Cost[good] \in Nat
  BY QuoteAssumption DEF PriceRule
<1> QED
  BY <1>1 DEF PriceBy

LEMMA NewQuoteKeeps ==
    ASSUME RequestsInv, QuoteInv, NEW w \in Worker, pc[w] # "idle", job[w].op \in QuoteOp,
           NEW price \in Int, NEW off \in 0..100, NewQuote(w, price, off), Answer(w), past' = past
    PROVE  QuoteInv'
<1>1. PICK q \in Quote : q = job[w].quote
  BY JobIsRequest, QuoteRequest
<1> DEFINE row == [status |-> "DRAFT", client |-> job[w].client, good |-> job[w].good,
                   quantity |-> job[w].quantity, price |-> price,
                   total |-> (price * job[w].quantity * (100 - off)) \div 100]
<1>2. quote' = [quote EXCEPT ![q] = row]
  BY <1>1 DEF NewQuote
<1>3. row \in QuoteRow
  <2>1. job[w].client \in Null(Client) /\ job[w].good \in Good /\ job[w].quantity \in Nat
    BY JobIsRequest, QuoteRequest
  <2>2. PICK n \in Nat : n = job[w].quantity
    BY <2>1
  <2>3. price * n \in Int /\ 100 - off \in Int
    OBVIOUS
  <2>4. price * n * (100 - off) \in Int
    BY <2>3
  <2>5. (price * n * (100 - off)) \div 100 \in Int
    BY <2>4
  <2> QED
    BY <2>1, <2>2, <2>5 DEF QuoteRow
<1> HIDE DEF row
<1>4. row # Unread
  BY <1>3, QuoteAssumption
<1>5. quote \in [Quote -> QuoteRow \cup {Unread}]
  BY DEF QuoteInv, QuoteTypeOK
<1>6. \A i \in Quote : quote[i] # Unread => quote'[i] # Unread
  BY <1>2, <1>4, <1>5
<1>7. quote' \in [Quote -> QuoteRow \cup {Unread}]
  BY <1>2, <1>3, <1>5
<1>8. QuoteTypeOK'
  BY <1>6, <1>7 DEF QuoteInv, QuoteTypeOK
<1> QED
  BY <1>6, <1>8, QuoteAnswers

LEMMA DrawUpQuoteKeeps ==
    ASSUME RequestsInv, QuoteInv, NEW w \in Worker, DrawUpQuote(w)
    PROVE  QuoteInv'
<1>1. pc[w] \in {"read", "commit"} /\ job[w].op = "DRAW_UP_QUOTE" /\ job[w].op \in QuoteOp
  BY DEF DrawUpQuote, At, QuoteOp
<1>2. CASE pc[w] = "read"
  <2>1. UNCHANGED <<quote, past>> /\ \E rule : Found(job[w], rule) /\ See(w, rule, "commit")
    BY <1>2 DEF DrawUpQuote, At, Found, quotes
  <2>2. PICK rule : Found(job[w], rule) /\ See(w, rule, "commit")
    BY <2>1
  <2>3. Handled(w) /\ pc'[w] = "commit" /\ job'[w] = job[w] /\ saw'[w] = rule
    BY <1>2, <2>2, SeeHandles, WhatIsSeen, StepNames
  <2>4. QuoteFits(w)'
    BY <1>1, <2>2, <2>3 DEF QuoteFits, Found
  <2>5. QuoteTypeOK'
    BY <2>1 DEF QuoteInv, QuoteTypeOK
  <2> QED
    BY <2>1, <2>3, <2>4, <2>5, QuotesStay
<1>3. CASE pc[w] = "commit"
  <2> DEFINE price == IF saw[w] = Unread THEN 100 * Shelf[job[w].good] ELSE PriceBy(saw[w], job[w].good)
  <2>1. NewQuote(w, price, 0) /\ Answer(w) /\ past' = past
    BY <1>3 DEF DrawUpQuote, At
  <2>2. job[w].good \in Good /\ \A rule \in job[w].rules : rule \in PriceRule
    BY <1>1, <1>3, JobIsRequest, QuoteRequest
  <2>3. saw[w] = Unread \/ saw[w] \in PriceRule
    BY <1>1, <1>3, <2>2 DEF QuoteInv, QuoteFits, Found, Winners, Applicable
  <2>4. price \in Int
    BY <2>2, <2>3, PriceIsInt, QuoteAssumption
  <2> HIDE DEF price
  <2> QED
    BY <1>1, <1>3, <2>1, <2>4, NewQuoteKeeps
<1> QED
  BY <1>1, <1>2, <1>3

LEMMA QuoteStepKeeps ==
    ASSUME RequestsInv, QuoteInv, NEW w \in Worker, QuoteStep(w)
    PROVE  QuoteInv'
<1>1. CASE CreateQuote(w)
  <2>1. /\ pc[w] = "read" /\ job[w].op \in QuoteOp
        /\ NewQuote(w, 100 * Shelf[job[w].good], job[w].off) /\ Answer(w) /\ past' = past
    BY <1>1 DEF CreateQuote, At, QuoteOp
  <2>2. job[w].off \in 0..100 /\ 100 * Shelf[job[w].good] \in Int
    BY <2>1, JobIsRequest, QuoteRequest, QuoteAssumption
  <2> QED
    BY <2>1, <2>2, NewQuoteKeeps
<1>2. CASE DrawUpQuote(w)
  BY <1>2, DrawUpQuoteKeeps
<1>3. CASE SendQuote(w)
  BY <1>3, QuoteReads, QuoteWrites DEF SendQuote, At, QuoteOp
<1>4. CASE AcceptQuote(w)
  BY <1>4, QuoteReads, QuoteWrites DEF AcceptQuote, At, QuoteOp
<1>5. CASE RejectQuote(w)
  BY <1>5, QuoteReads, QuoteWrites DEF RejectQuote, At, QuoteOp
<1>6. ASSUME pc[w] # "idle", Answer(w), UNCHANGED quotes
      PROVE  QuoteInv'
  <2>1. UNCHANGED <<quote, past>> /\ QuoteTypeOK'
    BY <1>6 DEF quotes, QuoteInv, QuoteTypeOK
  <2> QED
    BY <1>6, <2>1, QuoteAnswers
<1>7. CASE ConvertToOrder(w)
  BY <1>6, <1>7, QuoteReads DEF ConvertToOrder, At, QuoteOp
<1>8. CASE QuoteFails(w)
  BY <1>6, <1>8 DEF QuoteFails
<1> QED
  BY <1>1, <1>2, <1>3, <1>4, <1>5, <1>7, <1>8 DEF QuoteStep

\* Time passes for quotes.
LEMMA QuoteWorldKeeps ==
    ASSUME RequestsInv, QuoteInv, QuoteWorld
    PROVE  QuoteInv'
<1>1. UNCHANGED <<pc, job, saw>>
  BY DEF QuoteWorld, Lapses, ExpireStaleQuotes, requests
<1>2. ASSUME QuoteTypeOK', \A q \in Quote : quote[q] # Unread => quote'[q] # Unread
      PROVE  QuoteInv'
  <2>1. ASSUME NEW v \in Worker
        PROVE  QuoteFits(v)'
    <3>1. QuoteFits(v)
      BY DEF QuoteInv
    <3>2. CASE pc[v] # "idle" /\ job[v].op \in QuoteOp
      <4>1. PICK q \in Quote : q = job[v].quote
        BY <3>2, JobIsRequest, QuoteRequest
      <4> QED
        BY <1>1, <1>2, <3>1, <4>1 DEF QuoteFits
    <3>3. CASE ~ (pc[v] # "idle" /\ job[v].op \in QuoteOp)
      BY <1>1, <3>3 DEF QuoteFits
    <3> QED
      BY <3>2, <3>3
  <2> QED
    BY <1>2, <2>1 DEF QuoteInv
<1>3. CASE \E q \in Quote : Lapses(q)
  <2>1. quote' = quote /\ QuoteTypeOK'
    BY <1>3 DEF Lapses, QuoteInv, QuoteTypeOK
  <2> QED
    BY <1>2, <2>1
<1>4. CASE ExpireStaleQuotes
  <2>1. ASSUME NEW q \in Quote
        PROVE  /\ quote'[q] \in QuoteRow \cup {Unread}
               /\ quote[q] # Unread => quote'[q] # Unread
    <3>1. CASE q \in Stale
      <4>1. quote[q] # Unread /\ quote[q] \in QuoteRow
        BY <3>1 DEF Stale, QuoteInv, QuoteTypeOK
      <4>2. [quote[q] EXCEPT !.status = "EXPIRED"] \in QuoteRow
        BY <4>1 DEF QuoteRow
      <4>3. quote'[q] \in QuoteRow
        BY <1>4, <3>1, <4>2 DEF ExpireStaleQuotes
      <4> QED
        BY <4>3, QuoteAssumption
    <3>2. CASE q \notin Stale
      BY <1>4, <3>2 DEF ExpireStaleQuotes, QuoteInv, QuoteTypeOK
    <3> QED
      BY <3>1, <3>2
  <2>2. quote' = [q \in Quote |-> quote'[q]] /\ past' = past
    BY <1>4 DEF ExpireStaleQuotes
  <2>3. QuoteTypeOK'
    BY <2>1, <2>2 DEF QuoteInv, QuoteTypeOK
  <2> QED
    BY <1>2, <2>1, <2>3
<1> QED
  BY <1>3, <1>4 DEF QuoteWorld

LEMMA QuoteHolds == BackOfficeSpec => [](RequestsInv /\ QuoteInv)
<1>1. BackOfficeInit => RequestsInv /\ QuoteInv
  BY RequestsStart
     DEF BackOfficeInit, RequestsInit, QuoteInit, QuoteInv, QuoteTypeOK, QuoteFits
<1>2. RequestsInv /\ QuoteInv /\ [BackOfficeNext]_<<requests, business>> => (RequestsInv /\ QuoteInv)'
  <2>1. ASSUME RequestsInv, QuoteInv, BackOfficeNext
        PROVE  RequestsInv' /\ QuoteInv'
    BY <2>1, BackOfficeMoves, RequestsKept, QuoteRestsKeeps, QuoteStepKeeps, QuoteWorldKeeps
  <2>2. ASSUME RequestsInv, QuoteInv, UNCHANGED <<requests, business>>
        PROVE  RequestsInv' /\ QuoteInv'
    BY <2>2, BackOfficeStutters, RequestsKept, QuoteRestsKeeps DEF AllRest, TradeRests
  <2> QED
    BY <2>1, <2>2
<1> QED
  BY <1>1, <1>2, PTL DEF BackOfficeSpec

\* Whatever rules a tenant has, a client of a tier is quoted by no rule that
\* was made for others only, and by its own contract whenever it has one
\* (PricedForTheClient of Quotes).
THEOREM ClientsPayTheirPrice == BackOfficeSpec => []PricedForTheClient
<1>1. RequestsInv /\ QuoteInv => PricedForTheClient
  <2> SUFFICES ASSUME RequestsInv, QuoteInv, NEW w \in Worker, At(w, "DRAW_UP_QUOTE", "commit"),
                      TierFor(job[w].client) # NoOne
               PROVE  LET client == job[w].client
                          rule == saw[w] IN
                      /\ rule # Unread =>
                            \/ rule.client = client \/ rule.tier = TierOf[client]
                            \/ rule.client = NoOne /\ rule.tier = NoOne
                      /\ (\E c \in job[w].rules : Contract(c, job[w])) => rule # Unread /\ rule.client = client
    BY DEF PricedForTheClient
  <2>1. pc[w] = "commit" /\ job[w].op = "DRAW_UP_QUOTE" /\ job[w].op \in QuoteOp
    BY DEF At, QuoteOp
  <2>2. Found(job[w], saw[w])
    BY <2>1 DEF QuoteInv, QuoteFits
  <2>3. job[w].client \in Null(Client) /\ job[w].good \in Good /\ \A rule \in job[w].rules : rule \in PriceRule
    BY <2>1, JobIsRequest, QuoteRequest
  <2> QED
    BY <2>2, <2>3, FoundSuits
<1> QED
  BY <1>1, QuoteHolds, PTL

-----------------------------------------------------------------------------
(***************************************************************************)
(* The idempotency middleware.  Of a key that is guarded, the record is    *)
(* there from the claim until a `drop` is executed, and a `drop` is issued *)
(* only by a request that has answered 5xx: nothing runs meanwhile.        *)
(***************************************************************************)
KeyFits(w) ==
    LET k == KeyOf(w) IN
    /\ pc[w] = "finish" /\ job[w].op = "WRITE" => effects[k] > 0
    /\ Running(w, k) => saw[w] \in BOOLEAN /\ (saw[w] # TRUE => k \in unguarded)
    /\ pc[w] = "check" /\ job[w].op = "WRITE" => k \in unguarded

Dropping(k) == [do |-> "drop", key |-> k] \in loose

Guarded(k) ==
    /\ record[k] # NoRecord => ~ record[k].expired
    /\ \A v, w \in Worker : Running(v, k) /\ Running(w, k) => v = w
    /\ record[k] = NoRecord \/ Dropping(k) => effects[k] <= failures[k] /\ \A w \in Worker : ~ Running(w, k)
    /\ Dropping(k) => record[k] # NoRecord
    /\ \A w \in Worker : Running(w, k) /\ pc[w] = "write" => effects[k] <= failures[k]
    /\ effects[k] <= 1 + failures[k]

AnswersAgree ==
    /\ \A k \in Key : /\ record[k] # NoRecord /\ record[k].status # 0 => record[k].status \in answered[k]
                      /\ replayed[k] \subseteq answered[k]
                      /\ 200 \in answered[k] => effects[k] > 0
    /\ \A s \in loose : s.do = "store" => s.status \in answered[s.key]

KeyInv ==
    /\ IdempotencyTypeOK
    /\ AnswersAgree
    /\ \A k \in Key \ unguarded : Guarded(k)
    /\ \A w \in Worker : KeyFits(w)

LEMMA KeyRequest ==
    ASSUME NEW r \in Request, r.op = "WRITE"
    PROVE  r.key \in Key /\ r.tenantKnown \in BOOLEAN /\ r.json \in BOOLEAN
BY IdempotencyAssumption

\* What does not change when the middleware rests or looks.
kept == <<record, lastId, loose, effects, failures, answered>>

LEMMA IdempotencyRestsKeeps ==
    ASSUME RequestsInv, KeyInv, IdempotencyRests
    PROVE  KeyInv'
<1>1. /\ UNCHANGED <<record, lastId, loose, effects, failures, answered, replayed, unguarded>>
      /\ Elsewhere({"WRITE"})
  BY DEF IdempotencyRests, idempotency
<1>2. ASSUME NEW v \in Worker
      PROVE  /\ KeyFits(v)'
             /\ \A k : Running(v, k)' => Running(v, k) /\ pc'[v] = pc[v]
  <2>1. KeyFits(v)
    BY DEF KeyInv
  <2>2. CASE Rests(v)
    BY <1>1, <2>1, <2>2 DEF Rests, KeyFits, KeyOf, Running
  <2>3. CASE ~ Rests(v)
    <3>1. pc'[v] \in {"idle", "read"} \/ job'[v].op # "WRITE"
      BY <1>1, <2>3 DEF Elsewhere
    <3> QED
      BY <3>1 DEF KeyFits, Running, KeyOf
  <2> QED
    BY <2>2, <2>3
<1>3. IdempotencyTypeOK' /\ AnswersAgree'
  BY <1>1 DEF KeyInv, IdempotencyTypeOK, AnswersAgree
<1>4. ASSUME NEW k \in Key \ unguarded'
      PROVE  Guarded(k)'
  <2>1. Guarded(k)
    BY <1>1, <1>4 DEF KeyInv
  <2>2. \A v \in Worker : Running(v, k)' => Running(v, k) /\ pc'[v] = pc[v]
    BY <1>2
  <2> QED
    BY <1>1, <2>1, <2>2 DEF Guarded, Dropping
<1> QED
  BY <1>2, <1>3, <1>4 DEF KeyInv

\* A step of w.
LEMMA KeyStepKeeps ==
    ASSUME RequestsInv, KeyInv, NEW w \in Worker, Handled(w),
           unguarded \subseteq unguarded', \A k \in Key : effects[k] > 0 => effects'[k] > 0,
           IdempotencyTypeOK', AnswersAgree', \A k \in Key \ unguarded' : Guarded(k)', KeyFits(w)'
    PROVE  KeyInv'
<1>1. \A v \in Worker \ {w} : Rests(v)
  BY OthersRest
<1>2. ASSUME NEW v \in Worker, v # w
      PROVE  KeyFits(v)'
  <2>1. KeyFits(v) /\ pc'[v] = pc[v] /\ job'[v] = job[v] /\ saw'[v] = saw[v]
    BY <1>1, <1>2 DEF KeyInv, Rests
  <2>2. CASE pc[v] # "idle" /\ job[v].op = "WRITE"
    <3>1. PICK k \in Key : k = job[v].key
      BY <2>2, JobIsRequest, KeyRequest
    <3> QED
      BY <2>1, <3>1 DEF KeyFits, KeyOf, Running
  <2>3. CASE ~ (pc[v] # "idle" /\ job[v].op = "WRITE")
    BY <2>1, <2>3 DEF KeyFits, Running
  <2> QED
    BY <2>2, <2>3
<1> QED
  BY <1>2 DEF KeyInv

LEMMA OthersRun ==
    ASSUME RequestsInv, NEW w \in Worker, Handled(w)
    PROVE  \A v \in Worker \ {w} : \A k : Running(v, k)' => Running(v, k) /\ pc'[v] = pc[v]
BY OthersRest DEF Rests, Running, KeyOf

\* A request of a guarded key that does not run after the step leaves the key
\* as it was, whatever has been replayed.
LEMMA KeyLooks ==
    ASSUME RequestsInv, KeyInv, NEW w \in Worker, Handled(w), UNCHANGED kept,
           unguarded \subseteq unguarded', unguarded' \subseteq Key,
           replayed' \in [Key -> SUBSET HttpStatus], \A k \in Key : replayed'[k] \subseteq answered[k],
           KeyFits(w)', \A k \in Key \ unguarded' : ~ Running(w, k)'
    PROVE  KeyInv'
<1>1. UNCHANGED <<record, lastId, loose, effects, failures, answered>>
  BY DEF kept
<1>2. IdempotencyTypeOK' /\ AnswersAgree'
  BY <1>1 DEF KeyInv, IdempotencyTypeOK, AnswersAgree
<1>3. ASSUME NEW k \in Key \ unguarded'
      PROVE  Guarded(k)'
  <2>1. Guarded(k)
    BY <1>3 DEF KeyInv
  <2>2. \A v \in Worker : Running(v, k)' => Running(v, k) /\ pc'[v] = pc[v]
    BY <1>3, OthersRun
  <2> QED
    BY <1>1, <2>1, <2>2 DEF Guarded, Dropping
<1> QED
  BY <1>1, <1>2, <1>3, KeyStepKeeps

\* Whoever is let through without a claim leaves his key unguarded.
LEMMA KeyIsLetThrough ==
    ASSUME RequestsInv, KeyInv, NEW w \in Worker, pc[w] # "idle", job[w].op = "WRITE",
           UNCHANGED <<record, lastId, loose, keyHistory>>,
           unguarded' = unguarded \cup {KeyOf(w)}, See(w, FALSE, "write")
    PROVE  KeyInv'
<1>1. Handled(w) /\ pc'[w] = "write" /\ job'[w] = job[w] /\ saw'[w] = FALSE
  BY SeeHandles, WhatIsSeen, StepNames
<1>2. PICK k \in Key : k = job[w].key
  BY JobIsRequest, KeyRequest
<1>3. KeyFits(w)' /\ \A i \in Key \ unguarded' : ~ Running(w, i)'
  BY <1>1, <1>2 DEF KeyFits, KeyOf, Running
<1>4. UNCHANGED kept /\ UNCHANGED replayed
  BY DEF kept, keyHistory
<1>5. unguarded' \subseteq Key /\ replayed' \in [Key -> SUBSET HttpStatus]
  BY <1>2, <1>4 DEF KeyInv, IdempotencyTypeOK, KeyOf
<1>6. \A i \in Key : replayed'[i] \subseteq answered[i]
  BY <1>4 DEF KeyInv, AnswersAgree
<1> QED
  BY <1>1, <1>3, <1>4, <1>5, <1>6, KeyLooks

LEMMA LookUpKeeps ==
    ASSUME RequestsInv, KeyInv, NEW w \in Worker, LookUp(w)
    PROVE  KeyInv'
<1>1. pc[w] = "read" /\ job[w].op = "WRITE" /\ UNCHANGED kept
  BY DEF LookUp, At, kept
<1>2. PICK k \in Key : k = job[w].key
  BY <1>1, JobIsRequest, KeyRequest
<1>3. unguarded \subseteq Key /\ replayed \in [Key -> SUBSET HttpStatus]
  BY DEF KeyInv, IdempotencyTypeOK
<1>4. \A i \in Key : replayed[i] \subseteq answered[i]
  BY DEF KeyInv, AnswersAgree
<1>5. CASE unguarded' = unguarded \cup {k} /\ See(w, FALSE, "write") /\ UNCHANGED replayed
  BY <1>1, <1>2, <1>5, KeyIsLetThrough DEF kept, keyHistory, KeyOf
<1>6. CASE Goto(w, "ask") /\ UNCHANGED <<replayed, unguarded>>
  <2>1. Handled(w) /\ pc'[w] = "ask"
    BY <1>1, <1>6, GotoHandles, WhatGoesOn, StepNames
  <2>2. KeyFits(w)' /\ \A i \in Key \ unguarded' : ~ Running(w, i)'
    BY <2>1 DEF KeyFits, Running
  <2> QED
    BY <1>1, <1>3, <1>4, <1>6, <2>1, <2>2, KeyLooks
<1>7. CASE /\ record[k] # NoRecord /\ record[k].expired
           /\ See(w, record[k].id, "check") /\ UNCHANGED <<replayed, unguarded>>
  <2>1. Handled(w) /\ pc'[w] = "check" /\ job'[w] = job[w]
    BY <1>1, <1>7, SeeHandles, WhatIsSeen, StepNames
  <2>2. k \in unguarded
    BY <1>7 DEF KeyInv, Guarded
  <2>3. KeyFits(w)' /\ \A i \in Key \ unguarded' : ~ Running(w, i)'
    BY <1>2, <1>7, <2>1, <2>2 DEF KeyFits, Running, KeyOf
  <2> QED
    BY <1>1, <1>3, <1>4, <1>7, <2>1, <2>3, KeyLooks
<1>8. CASE Answer(w) /\ UNCHANGED <<replayed, unguarded>>
  <2>1. Handled(w) /\ pc'[w] = "idle"
    BY <1>1, <1>8, AnswerHandles, WhatIsAnswered
  <2>2. KeyFits(w)' /\ \A i \in Key \ unguarded' : ~ Running(w, i)'
    BY <2>1 DEF KeyFits, Running
  <2> QED
    BY <1>1, <1>3, <1>4, <1>8, <2>1, <2>2, KeyLooks
<1>9. CASE /\ record[k] # NoRecord /\ record[k].status # 0
           /\ replayed' = [replayed EXCEPT ![k] = @ \cup {record[k].status}]
           /\ Answer(w) /\ UNCHANGED unguarded
  <2>1. Handled(w) /\ pc'[w] = "idle"
    BY <1>1, <1>9, AnswerHandles, WhatIsAnswered
  <2>2. KeyFits(w)' /\ \A i \in Key \ unguarded' : ~ Running(w, i)'
    BY <2>1 DEF KeyFits, Running
  <2>3. record[k].status \in HttpStatus /\ record[k].status \in answered[k]
    BY <1>9 DEF KeyInv, IdempotencyTypeOK, RecordRow, AnswersAgree
  <2>4. replayed' \in [Key -> SUBSET HttpStatus]
    BY <1>3, <1>9, <2>3
  <2>5. \A i \in Key : replayed'[i] \subseteq answered[i]
    BY <1>3, <1>4, <1>9, <2>3
  <2> QED
    BY <1>1, <1>3, <1>9, <2>1, <2>2, <2>4, <2>5, KeyLooks
<1> QED
  BY <1>1, <1>2, <1>5, <1>6, <1>7, <1>8, <1>9 DEF LookUp, KeyOf, InFlight

LEMMA LetThroughKeeps ==
    ASSUME RequestsInv, KeyInv, NEW w \in Worker, LetThrough(w)
    PROVE  KeyInv'
BY KeyIsLetThrough DEF LetThrough, At

LEMMA DeleteExpiredKeeps ==
    ASSUME RequestsInv, KeyInv, NEW w \in Worker, DeleteExpired(w)
    PROVE  KeyInv'
<1>1. pc[w] = "check" /\ job[w].op = "WRITE" /\ pc[w] # "idle"
  BY DEF DeleteExpired, At
<1>2. PICK k \in Key : k = job[w].key
  BY <1>1, JobIsRequest, KeyRequest
<1>3. CASE ~ (record[k] # NoRecord /\ record[k].id = saw[w])
  BY <1>1, <1>2, <1>3, KeyIsLetThrough DEF DeleteExpired, KeyOf
<1>4. CASE record[k] # NoRecord /\ record[k].id = saw[w]
  <2>1. /\ record' = [record EXCEPT ![k] = NoRecord] /\ Goto(w, "ask")
        /\ UNCHANGED <<lastId, loose, effects, failures, answered, replayed, unguarded>>
    BY <1>2, <1>4 DEF DeleteExpired, KeyOf, keyHistory
  <2>2. Handled(w) /\ pc'[w] = "ask" /\ job'[w] = job[w]
    BY <1>1, <2>1, GotoHandles, WhatGoesOn, StepNames
  <2>3. k \in unguarded
    BY <1>1, <1>2 DEF KeyInv, KeyFits, KeyOf
  <2>4. record'[k] = NoRecord /\ \A i \in Key : i # k => record'[i] = record[i]
    BY <2>1 DEF KeyInv, IdempotencyTypeOK
  <2>5. IdempotencyTypeOK'
    BY <2>1 DEF KeyInv, IdempotencyTypeOK
  <2>6. AnswersAgree'
    BY <2>1, <2>4 DEF KeyInv, AnswersAgree
  <2>7. ASSUME NEW i \in Key \ unguarded'
        PROVE  Guarded(i)'
    <3>1. Guarded(i) /\ record'[i] = record[i]
      BY <2>1, <2>3, <2>4, <2>7 DEF KeyInv
    <3>2. \A v \in Worker : Running(v, i)' => Running(v, i) /\ pc'[v] = pc[v]
      BY <2>2, OthersRun DEF Running
    <3> QED
      BY <2>1, <3>1, <3>2 DEF Guarded, Dropping
  <2>8. KeyFits(w)'
    BY <2>2 DEF KeyFits, Running
  <2> QED
    BY <2>1, <2>2, <2>5, <2>6, <2>7, <2>8, KeyStepKeeps
<1> QED
  BY <1>3, <1>4

LEMMA ClaimKeeps ==
    ASSUME RequestsInv, KeyInv, NEW w \in Worker, Claim(w)
    PROVE  KeyInv'
<1>1. pc[w] = "ask" /\ job[w].op = "WRITE" /\ pc[w] # "idle"
  BY DEF Claim, At
<1>2. PICK k \in Key : k = job[w].key
  BY <1>1, JobIsRequest, KeyRequest
<1>3. UNCHANGED <<loose, effects, failures, answered, replayed, unguarded>>
  BY DEF Claim, keyHistory
<1>4. CASE Answer(w) /\ UNCHANGED <<record, lastId>>
  <2>1. Handled(w) /\ pc'[w] = "idle"
    BY <1>1, <1>4, AnswerHandles, WhatIsAnswered
  <2>2. KeyFits(w)' /\ \A i \in Key \ unguarded' : ~ Running(w, i)'
    BY <2>1 DEF KeyFits, Running
  <2>3. unguarded' \subseteq Key /\ replayed' \in [Key -> SUBSET HttpStatus]
    BY <1>3 DEF KeyInv, IdempotencyTypeOK
  <2>4. \A i \in Key : replayed'[i] \subseteq answered[i]
    BY <1>3 DEF KeyInv, AnswersAgree
  <2> QED
    BY <1>3, <1>4, <2>1, <2>2, <2>3, <2>4, KeyLooks DEF kept
<1>5. CASE /\ record[k] = NoRecord /\ See(w, TRUE, "write") /\ lastId' = lastId + 1
           /\ record' = [record EXCEPT ![k] = [id |-> lastId + 1, status |-> 0, expired |-> FALSE]]
  <2> DEFINE new == [id |-> lastId + 1, status |-> 0, expired |-> FALSE]
  <2>1. new \in RecordRow /\ new.status = 0 /\ ~ new.expired
    BY DEF KeyInv, IdempotencyTypeOK, RecordRow, HttpStatus
  <2>2. record' = [record EXCEPT ![k] = new]
    BY <1>5
  <2> HIDE DEF new
  <2>3. new # NoRecord
    BY <2>1, IdempotencyAssumption
  <2>4. record'[k] = new /\ \A i \in Key : i # k => record'[i] = record[i]
    BY <2>2 DEF KeyInv, IdempotencyTypeOK
  <2>5. Handled(w) /\ pc'[w] = "write" /\ job'[w] = job[w] /\ saw'[w] = TRUE
    BY <1>1, <1>5, SeeHandles, WhatIsSeen, StepNames
  <2>6. IdempotencyTypeOK'
    <3>1. record' \in [Key -> RecordRow \cup {NoRecord}]
      BY <2>1, <2>2 DEF KeyInv, IdempotencyTypeOK
    <3>2. lastId' \in Nat
      BY <1>5 DEF KeyInv, IdempotencyTypeOK
    <3> QED
      BY <1>3, <3>1, <3>2 DEF KeyInv, IdempotencyTypeOK
  <2>7. AnswersAgree'
    BY <1>3, <2>1, <2>4 DEF KeyInv, AnswersAgree
  <2>8. ASSUME NEW i \in Key \ unguarded'
        PROVE  Guarded(i)'
    <3>1. Guarded(i)
      BY <1>3, <2>8 DEF KeyInv
    <3>2. \A v \in Worker \ {w} : Running(v, i)' => Running(v, i) /\ pc'[v] = pc[v]
      BY <2>5, OthersRun
    <3>3. CASE i = k
      <4>1. effects[i] <= failures[i] /\ (\A v \in Worker : ~ Running(v, i)) /\ ~ Dropping(i)
        BY <1>5, <3>1, <3>3 DEF Guarded
      <4> QED
        BY <1>3, <2>1, <2>3, <2>4, <3>1, <3>2, <3>3, <4>1 DEF Guarded, Dropping
    <3>4. CASE i # k
      <4>1. ~ Running(w, i)'
        BY <1>2, <2>5, <3>4 DEF Running, KeyOf
      <4> QED
        BY <1>3, <2>4, <3>1, <3>2, <3>4, <4>1 DEF Guarded, Dropping
    <3> QED
      BY <3>3, <3>4
  <2>9. KeyFits(w)'
    BY <2>5 DEF KeyFits, Running, KeyOf
  <2> QED
    BY <1>3, <2>5, <2>6, <2>7, <2>8, <2>9, KeyStepKeeps
<1> QED
  BY <1>2, <1>4, <1>5 DEF Claim, KeyOf, Unclaimed

LEMMA EffectKeeps ==
    ASSUME RequestsInv, KeyInv, NEW w \in Worker, Effect(w)
    PROVE  KeyInv'
<1>1. pc[w] = "write" /\ job[w].op = "WRITE" /\ pc[w] # "idle"
  BY DEF Effect, At
<1>2. PICK k \in Key : k = job[w].key
  BY <1>1, JobIsRequest, KeyRequest
<1>3. /\ effects' = [effects EXCEPT ![k] = @ + 1] /\ Goto(w, "finish")
      /\ UNCHANGED <<record, lastId, loose, failures, answered, replayed, unguarded>>
  BY <1>2 DEF Effect, KeyOf
<1>4. Handled(w) /\ pc'[w] = "finish" /\ job'[w] = job[w] /\ saw'[w] = saw[w]
  BY <1>1, <1>3, GotoHandles, WhatGoesOn, StepNames
<1>5. effects'[k] = effects[k] + 1 /\ \A i \in Key : i # k => effects'[i] = effects[i]
  BY <1>3 DEF KeyInv, IdempotencyTypeOK
<1>6. \A i \in Key : effects[i] \in Nat /\ failures[i] \in Nat
  BY DEF KeyInv, IdempotencyTypeOK
<1>7. IdempotencyTypeOK'
  <2>1. effects' \in [Key -> Nat]
    BY <1>3 DEF KeyInv, IdempotencyTypeOK
  <2> QED
    BY <1>3, <2>1 DEF KeyInv, IdempotencyTypeOK
<1>8. \A i \in Key : effects[i] > 0 => effects'[i] > 0
  BY <1>5, <1>6
<1>9. AnswersAgree'
  BY <1>3, <1>8 DEF KeyInv, AnswersAgree
<1>10. ASSUME NEW i \in Key \ unguarded'
       PROVE  Guarded(i)'
  <2>1. Guarded(i)
    BY <1>3, <1>10 DEF KeyInv
  <2>2. \A v \in Worker \ {w} : Running(v, i)' => Running(v, i) /\ pc'[v] = pc[v]
    BY <1>4, OthersRun
  <2>3. Running(w, i)' => Running(w, i)
    BY <1>1, <1>4 DEF Running, KeyOf
  <2>4. CASE i = k
    <3>1. Running(w, i)
      BY <1>1, <1>2, <2>4 DEF Running, KeyOf
    <3>2. /\ effects[i] <= failures[i] /\ record[i] # NoRecord /\ ~ Dropping(i)
          /\ \A v \in Worker : Running(v, i) => v = w
      BY <1>1, <2>1, <3>1 DEF Guarded
    <3>3. effects'[i] <= 1 + failures[i]
      BY <1>5, <1>6, <2>4, <3>2
    <3> QED
      BY <1>3, <1>4, <2>1, <2>2, <3>2, <3>3 DEF Guarded, Dropping
  <2>5. CASE i # k
    <3>1. ~ Running(w, i)'
      BY <1>2, <1>4, <2>5 DEF Running, KeyOf
    <3> QED
      BY <1>3, <1>5, <2>1, <2>2, <2>5, <3>1 DEF Guarded, Dropping
  <2> QED
    BY <2>4, <2>5
<1>11. KeyFits(w)'
  <2>1. KeyFits(w) /\ Running(w, k) /\ KeyOf(w) = k
    BY <1>1, <1>2 DEF KeyInv, Running, KeyOf
  <2>2. effects'[k] > 0
    BY <1>5, <1>6
  <2>3. KeyOf(w)' = k /\ unguarded' = unguarded
    BY <1>2, <1>3, <1>4 DEF KeyOf
  <2> QED
    BY <1>4, <2>1, <2>2, <2>3 DEF KeyFits, Running
<1> QED
  BY <1>3, <1>4, <1>7, <1>8, <1>9, <1>10, <1>11, KeyStepKeeps

LEMMA RespondKeeps ==
    ASSUME RequestsInv, KeyInv, NEW w \in Worker, Respond(w)
    PROVE  KeyInv'
<1>1. pc[w] \in {"write", "finish"} /\ job[w].op = "WRITE" /\ pc[w] # "idle"
  BY DEF Respond, At
<1>2. PICK k \in Key : k = job[w].key
  BY <1>1, JobIsRequest, KeyRequest
<1>3. PICK status \in HttpStatus \ {0} :
         /\ (pc[w] = "write" /\ status # 200) \/ (pc[w] = "finish" /\ status # 400)
         /\ failures' = [failures EXCEPT ![k] = @ + (IF status = 500 THEN 1 ELSE 0)]
         /\ answered' = [answered EXCEPT ![k] = @ \cup {status}]
         /\ loose' = loose \cup (IF saw[w] THEN Hooks(w, status) ELSE {})
  BY <1>1, <1>2 DEF Respond, At, KeyOf
<1>4. Answer(w) /\ UNCHANGED <<record, lastId, effects, replayed, unguarded>>
  BY DEF Respond
<1>5. Handled(w) /\ pc'[w] = "idle"
  BY <1>1, <1>4, AnswerHandles, WhatIsAnswered
<1>6. ASSUME NEW s \in loose'
      PROVE  \/ s \in loose
             \/ s = [do |-> "store", key |-> k, status |-> status]
             \/ s = [do |-> "drop", key |-> k] /\ status = 500
  BY <1>2, <1>3, <1>6 DEF Hooks, KeyOf
<1>7. /\ failures'[k] = failures[k] + (IF status = 500 THEN 1 ELSE 0)
      /\ answered'[k] = answered[k] \cup {status}
      /\ \A i \in Key : i # k => failures'[i] = failures[i] /\ answered'[i] = answered[i]
  BY <1>3 DEF KeyInv, IdempotencyTypeOK
<1>8. \A i \in Key : effects[i] \in Nat /\ failures[i] \in Nat
  BY DEF KeyInv, IdempotencyTypeOK
<1>9. IdempotencyTypeOK'
  <2>1. failures' \in [Key -> Nat]
    <3>1. failures[k] + (IF status = 500 THEN 1 ELSE 0) \in Nat
      BY <1>8
    <3> QED
      BY <1>3, <3>1 DEF KeyInv, IdempotencyTypeOK
  <2>2. answered' \in [Key -> SUBSET HttpStatus]
    BY <1>3 DEF KeyInv, IdempotencyTypeOK
  <2>3. \A s \in loose' : s \in Statement
    BY <1>6 DEF KeyInv, IdempotencyTypeOK, Statement
  <2> QED
    BY <1>4, <2>1, <2>2, <2>3 DEF KeyInv, IdempotencyTypeOK
<1>10. AnswersAgree'
  <2>1. \A i \in Key : answered[i] \subseteq answered'[i]
    BY <1>7
  <2>2. ASSUME NEW s \in loose', s.do = "store"
        PROVE  s.status \in answered'[s.key]
    <3>1. CASE s \in loose
      <4>1. s \in Statement /\ s.status \in answered[s.key]
        BY <2>2, <3>1 DEF KeyInv, IdempotencyTypeOK, AnswersAgree
      <4>2. s.key \in Key
        BY <4>1 DEF Statement
      <4> QED
        BY <2>1, <4>1, <4>2
    <3>2. CASE s = [do |-> "store", key |-> k, status |-> status]
      BY <1>7, <3>2
    <3>3. CASE s = [do |-> "drop", key |-> k]
      BY <2>2, <3>3
    <3> QED
      BY <1>6, <2>2, <3>1, <3>2, <3>3
  <2>3. status = 200 => effects[k] > 0
    BY <1>1, <1>2, <1>3 DEF KeyInv, KeyFits, KeyOf
  <2>4. \A i \in Key : 200 \in answered'[i] => effects[i] > 0
    BY <1>7, <2>3 DEF KeyInv, AnswersAgree
  <2> QED
    BY <1>4, <2>1, <2>2, <2>4 DEF KeyInv, AnswersAgree
<1>11. ASSUME NEW i \in Key \ unguarded'
       PROVE  Guarded(i)'
  <2>1. Guarded(i)
    BY <1>4, <1>11 DEF KeyInv
  <2>2. \A v \in Worker : Running(v, i)' => Running(v, i) /\ pc'[v] = pc[v] /\ v # w
    BY <1>5, OthersRun DEF Running
  <2>3. CASE i = k
    <3>1. Running(w, i)
      BY <1>1, <1>2, <2>3 DEF Running, KeyOf
    <3>2. record[i] # NoRecord /\ ~ Dropping(i) /\ \A v \in Worker : Running(v, i) => v = w
      BY <2>1, <3>1 DEF Guarded
    <3>3. Dropping(i)' => status = 500
      BY <1>6, <3>2 DEF Dropping
    <3>4. /\ effects[i] <= 1 + failures[i] /\ failures'[i] >= failures[i]
          /\ status = 500 => effects[i] <= failures'[i]
      BY <1>7, <1>8, <2>1, <2>3 DEF Guarded
    <3>5. effects[i] <= 1 + failures'[i]
      <4>1. failures'[i] \in Nat /\ failures[i] \in Nat /\ effects[i] \in Nat
        BY <1>8, <1>9 DEF IdempotencyTypeOK
      <4> QED
        BY <3>4, <4>1
    <3> QED
      BY <1>4, <2>1, <2>2, <3>2, <3>3, <3>4, <3>5 DEF Guarded
  <2>4. CASE i # k
    <3>1. Dropping(i)' => Dropping(i)
      BY <1>6, <2>4 DEF Dropping
    <3> QED
      BY <1>4, <1>7, <2>1, <2>2, <2>4, <3>1 DEF Guarded
  <2> QED
    BY <2>3, <2>4
<1>12. KeyFits(w)'
  BY <1>5 DEF KeyFits, Running
<1> QED
  BY <1>4, <1>5, <1>9, <1>10, <1>11, <1>12, KeyStepKeeps

\* A statement nobody waited for is executed.
LEMMA ExecuteKeeps ==
    ASSUME RequestsInv, KeyInv, NEW s \in loose, Execute(s)
    PROVE  KeyInv'
<1>1. /\ UNCHANGED <<todo, pc, job, saw, lastId, effects, failures, answered, replayed, unguarded>>
      /\ loose' = loose \ {s}
  BY DEF Execute, requests, keyHistory
<1>2. s \in Statement
  BY DEF KeyInv, IdempotencyTypeOK
<1>3. PICK k \in Key : k = s.key
  BY <1>2 DEF Statement
<1>4. /\ \A i \in Key : i # k => record'[i] = record[i]
      /\ record[k] = NoRecord => record'[k] = NoRecord
      /\ record[k] # NoRecord /\ s.do = "drop" => record'[k] = NoRecord
      /\ record[k] # NoRecord /\ s.do # "drop" =>
            record'[k] = [record[k] EXCEPT !.status = s.status]
      /\ record' \in [Key -> RecordRow \cup {NoRecord}]
  <2>1. record \in [Key -> RecordRow \cup {NoRecord}]
    BY DEF KeyInv, IdempotencyTypeOK
  <2>2. CASE record[k] = NoRecord
    BY <1>3, <2>1, <2>2 DEF Execute
  <2>3. CASE record[k] # NoRecord /\ s.do = "drop"
    <3>1. record' = [record EXCEPT ![k] = NoRecord]
      BY <1>3, <2>1, <2>3 DEF Execute
    <3> QED
      BY <2>1, <2>3, <3>1
  <2>4. CASE record[k] # NoRecord /\ s.do # "drop"
    <3> DEFINE new == [record[k] EXCEPT !.status = s.status]
    <3>1. record' = [record EXCEPT ![k] = new]
      BY <1>3, <2>1, <2>4 DEF Execute
    <3>2. record[k] \in RecordRow /\ s.status \in HttpStatus
      BY <1>2, <2>1, <2>4 DEF Statement
    <3>3. new \in RecordRow
      BY <3>2 DEF RecordRow
    <3> QED
      BY <2>1, <2>4, <3>1, <3>3
  <2> QED
    BY <2>2, <2>3, <2>4
<1>5. record'[k] # NoRecord => /\ record[k] # NoRecord /\ s.do = "store"
                               /\ record'[k].status = s.status /\ record'[k].expired = record[k].expired
  <2>1. ASSUME record'[k] # NoRecord
        PROVE  record[k] # NoRecord /\ s.do = "store"
    BY <1>2, <1>4, <2>1 DEF Statement
  <2>2. record[k] # NoRecord => record[k] \in RecordRow
    BY DEF KeyInv, IdempotencyTypeOK
  <2> QED
    BY <1>4, <2>1, <2>2 DEF RecordRow
<1>6. IdempotencyTypeOK'
  BY <1>1, <1>4 DEF KeyInv, IdempotencyTypeOK
<1>7. AnswersAgree'
  <2>1. ASSUME NEW i \in Key, record'[i] # NoRecord, record'[i].status # 0
        PROVE  record'[i].status \in answered[i]
    <3>1. CASE i = k
      BY <1>3, <1>5, <2>1, <3>1 DEF KeyInv, AnswersAgree
    <3>2. CASE i # k
      BY <1>4, <2>1, <3>2 DEF KeyInv, AnswersAgree
    <3> QED
      BY <3>1, <3>2
  <2> QED
    BY <1>1, <2>1 DEF KeyInv, AnswersAgree
<1>8. \A v \in Worker : \A i : Running(v, i)' <=> Running(v, i)
  BY <1>1 DEF Running, KeyOf
<1>9. ASSUME NEW i \in Key \ unguarded'
      PROVE  Guarded(i)'
  <2>1. Guarded(i)
    BY <1>1, <1>9 DEF KeyInv
  <2>2. Dropping(i)' => Dropping(i) /\ s # [do |-> "drop", key |-> i]
    BY <1>1 DEF Dropping
  <2>3. CASE i # k
    BY <1>1, <1>4, <1>8, <2>1, <2>2, <2>3 DEF Guarded
  <2>4. CASE i = k /\ s.do = "drop"
    <3>1. s = [do |-> "drop", key |-> i]
      BY <1>2, <1>3, <2>4 DEF Statement
    <3>2. Dropping(i) /\ ~ Dropping(i)'
      BY <2>2, <3>1 DEF Dropping
    <3>3. effects[i] <= failures[i] /\ (\A v \in Worker : ~ Running(v, i)) /\ record'[i] = NoRecord
      BY <1>4, <2>1, <2>4, <3>2 DEF Guarded
    <3> QED
      BY <1>1, <1>8, <2>1, <3>2, <3>3 DEF Guarded
  <2>5. CASE i = k /\ s.do # "drop"
    <3>1. record'[i] = NoRecord <=> record[i] = NoRecord
      <4>1. ASSUME record[i] # NoRecord
            PROVE  record'[i] # NoRecord
        <5>1. record[i] \in RecordRow /\ s.status \in HttpStatus
          BY <1>2, <2>5, <4>1 DEF KeyInv, IdempotencyTypeOK, Statement
        <5>2. record'[i] \in RecordRow
          BY <1>4, <2>5, <4>1, <5>1 DEF RecordRow
        <5> QED
          BY <5>2, IdempotencyAssumption
      <4> QED
        BY <1>4, <2>5, <4>1
    <3>2. record'[i] # NoRecord => ~ record'[i].expired
      BY <1>5, <2>1, <2>5 DEF Guarded
    <3> QED
      BY <1>1, <1>8, <2>1, <2>2, <3>1, <3>2 DEF Guarded
  <2> QED
    BY <2>3, <2>4, <2>5
<1>10. \A v \in Worker : KeyFits(v)'
  BY <1>1, <1>8 DEF KeyInv, KeyFits, KeyOf
<1> QED
  BY <1>6, <1>7, <1>9, <1>10 DEF KeyInv

LEMMA ExpiresKeeps ==
    ASSUME RequestsInv, KeyInv, NEW k \in Key, Expires(k)
    PROVE  KeyInv'
<1>1. /\ UNCHANGED <<todo, pc, job, saw, lastId, loose, effects, failures, answered, replayed>>
      /\ record[k] # NoRecord /\ record' = [record EXCEPT ![k].expired = TRUE]
      /\ unguarded' = unguarded \cup {k}
  BY DEF Expires, requests, keyHistory
<1>2. /\ record'[k] \in RecordRow /\ record'[k].status = record[k].status
      /\ \A i \in Key : i # k => record'[i] = record[i]
  BY <1>1 DEF KeyInv, IdempotencyTypeOK, RecordRow
<1>3. IdempotencyTypeOK'
  BY <1>1, <1>2 DEF KeyInv, IdempotencyTypeOK
<1>4. AnswersAgree'
  BY <1>1, <1>2 DEF KeyInv, AnswersAgree
<1>5. \A v \in Worker : \A i : Running(v, i)' <=> Running(v, i)
  BY <1>1 DEF Running, KeyOf
<1>6. ASSUME NEW i \in Key \ unguarded'
      PROVE  Guarded(i)'
  <2>1. Guarded(i) /\ record'[i] = record[i]
    BY <1>1, <1>2, <1>6 DEF KeyInv
  <2> QED
    BY <1>1, <1>5, <2>1 DEF Guarded, Dropping
<1>7. \A v \in Worker : KeyFits(v)'
  BY <1>1, <1>5 DEF KeyInv, KeyFits, KeyOf
<1> QED
  BY <1>3, <1>4, <1>6, <1>7 DEF KeyInv

LEMMA ProcessDiesKeeps ==
    ASSUME RequestsInv, KeyInv, ProcessDies
    PROVE  KeyInv'
<1>1. /\ UNCHANGED <<record, lastId, effects, failures, answered, replayed, unguarded>>
      /\ loose' = {} /\ \A w \in Worker : pc'[w] = "idle"
  BY DEF ProcessDies, keyHistory
<1>2. IdempotencyTypeOK' /\ AnswersAgree'
  BY <1>1 DEF KeyInv, IdempotencyTypeOK, AnswersAgree
<1>3. \A v \in Worker : \A i : ~ Running(v, i)'
  BY <1>1 DEF Running
<1>4. ASSUME NEW i \in Key \ unguarded'
      PROVE  Guarded(i)'
  <2>1. Guarded(i)
    BY <1>1, <1>4 DEF KeyInv
  <2> QED
    BY <1>1, <1>3, <2>1 DEF Guarded, Dropping
<1>5. \A v \in Worker : KeyFits(v)'
  BY <1>1, <1>3 DEF KeyFits
<1> QED
  BY <1>2, <1>4, <1>5 DEF KeyInv

LEMMA IdempotencyKeeps ==
    ASSUME RequestsInv, KeyInv,
           IdempotencyRests \/ (\E w \in Worker : IdempotencyStep(w)) \/ IdempotencyWorld
    PROVE  KeyInv'
<1>1. CASE IdempotencyRests
  BY <1>1, IdempotencyRestsKeeps
<1>2. CASE \E w \in Worker : IdempotencyStep(w)
  BY <1>2, LookUpKeeps, DeleteExpiredKeeps, ClaimKeeps, LetThroughKeeps, EffectKeeps, RespondKeeps
     DEF IdempotencyStep
<1>3. CASE IdempotencyWorld
  BY <1>3, ExecuteKeeps, ExpiresKeeps, ProcessDiesKeeps DEF IdempotencyWorld
<1> QED
  BY <1>1, <1>2, <1>3

LEMMA IdempotencyStart == RequestsInit /\ IdempotencyInit => KeyInv
<1> SUFFICES ASSUME RequestsInit, IdempotencyInit
             PROVE  KeyInv
  OBVIOUS
<1>1. \A v \in Worker : \A i : ~ Running(v, i)
  BY DEF RequestsInit, Running
<1>2. IdempotencyTypeOK /\ AnswersAgree
  BY DEF IdempotencyInit, IdempotencyTypeOK, AnswersAgree
<1>3. \A k \in Key : Guarded(k)
  BY <1>1 DEF IdempotencyInit, Guarded, Dropping
<1>4. \A w \in Worker : KeyFits(w)
  BY <1>1 DEF RequestsInit, KeyFits
<1> QED
  BY <1>2, <1>3, <1>4 DEF KeyInv

LEMMA KeyHolds == BackOfficeSpec => [](RequestsInv /\ KeyInv)
<1>1. BackOfficeInit => RequestsInv /\ KeyInv
  BY RequestsStart, IdempotencyStart DEF BackOfficeInit
<1>2. RequestsInv /\ KeyInv /\ [BackOfficeNext]_<<requests, business>> => (RequestsInv /\ KeyInv)'
  <2>1. ASSUME RequestsInv, KeyInv, BackOfficeNext
        PROVE  RequestsInv' /\ KeyInv'
    BY <2>1, BackOfficeMoves, RequestsKept, IdempotencyKeeps
  <2>2. ASSUME RequestsInv, KeyInv, UNCHANGED <<requests, business>>
        PROVE  RequestsInv' /\ KeyInv'
    BY <2>2, BackOfficeStutters, RequestsKept, IdempotencyKeeps DEF AllRest, PlatformRests
  <2> QED
    BY <2>1, <2>2
<1> QED
  BY <1>1, <1>2, PTL DEF BackOfficeSpec

\* Claimed requests of a key never run together, its effect happens again
\* only after a 5xx, and a retry is answered with nothing the handler has not
\* answered (KeyIsKept of Idempotency), through crashes and lost statements.
THEOREM KeysAreKept == BackOfficeSpec => []KeyIsKept
<1>1. KeyInv => KeyIsKept
  BY DEF KeyInv, Guarded, AnswersAgree, KeyIsKept, OneExecutionPerClaim, ReplaysWereAnswered
<1> QED
  BY <1>1, KeyHolds, PTL

-----------------------------------------------------------------------------
(***************************************************************************)
(* Subscriptions.  A seat that is let in is counted from its check on, so  *)
(* that seats and requests let in never exceed the largest limit by more   *)
(* than the requests there can be; a webhook that has booked a payment is  *)
(* counted until it has logged it.  A handler that is past its read has    *)
(* found the tenant, and tenants stay.                                     *)
(***************************************************************************)
AccountFits(w) ==
    pc[w] \notin {"idle", "read"} /\ job[w].op \in AccountOp \ {"SIGN_UP"} =>
       /\ account[Who(w)] # Unread
       /\ job[w].op = "ADD_SEAT" => saw[w] \in Plan

LetIn(a, s) ==
    {w \in Worker : At(w, "ADD_SEAT", "write") /\ job[w].account = a /\ job[w].seat = s}

InWebhook(i) ==
    {w \in Worker : /\ pc[w] \in {"next", "then", "finish", "commit"} /\ job[w].op = "HOOK_PAID"
                    /\ job[w].charge = i}

Most(s) == Max({Limit[p][s] : p \in Plan})
Extra(a, s) == IF s = "users" THEN granted[a] ELSE 0

SeatsBound(a, s) ==
    (\A p \in Plan : Limit[p][s] > 0)
    => seats[a][s] - Extra(a, s) + Cardinality(LetIn(a, s)) <= Most(s) - 1 + Cardinality(Worker)

MoneyBound(i) == acknowledged[i] + Cardinality(InWebhook(i)) <= booked[i]

AccountInv ==
    /\ AccountTypeOK
    /\ \A a \in Account : account[a] = Unread => \A s \in Seat : seats[a][s] = 0
    /\ \A a \in Account, s \in Seat : SeatsBound(a, s)
    /\ \A i \in StripeBill : MoneyBound(i)
    /\ \A w \in Worker : AccountFits(w)

LEMMA AccountRequest ==
    ASSUME NEW r \in Request, r.op \in AccountOp
    PROVE  /\ r.account \in Account /\ r.plan \in Plan /\ r.seat \in Seat /\ r.charge \in StripeBill
           /\ r.status \in SubscriptionStatus
BY AccountAssumption

\* Of finitely many numbers, one is the largest.
LEMMA Largest ==
    ASSUME NEW P, IsFiniteSet(P), P # {}, NEW f, \A p \in P : f[p] \in Nat
    PROVE  \E p \in P : \A q \in P : f[q] <= f[p]
<1> DEFINE Topped(T) == \E p \in T : \A q \in T : f[q] <= f[p]
           C == {n \in Nat : \E T \in SUBSET P : T # {} /\ Cardinality(T) = n /\ ~ Topped(T)}
           R == OpToRel(<, Nat)
<1>1. \A x, y \in Nat : <<x, y>> \in OpToRel(<, Nat) <=> x < y
  BY Z3 DEF OpToRel
<1>2. IsWellFoundedOn(R, Nat)
  BY NatLessThanWellFounded
<1>3. \A x, y \in Nat : <<x, y>> \in R <=> x < y
  BY <1>1
<1> HIDE DEF R
<1>4. ASSUME C # {}
      PROVE  FALSE
  <2>1. PICK n \in C : \A m \in C : ~ (m < n)
    <3>1. C \subseteq Nat
      OBVIOUS
    <3> HIDE DEF C
    <3>2. \E n \in C : \A m \in C : ~ (<<m, n>> \in R)
      BY <1>2, <1>4, <3>1, WFMin
    <3> QED
      BY <1>3, <3>1, <3>2, Zenon
  <2>2. PICK T \in SUBSET P : T # {} /\ Cardinality(T) = n /\ ~ Topped(T)
    BY <2>1
  <2>3. PICK p \in T : TRUE
    BY <2>2
  <2>4. IsFiniteSet(T)
    BY FS_Subset
  <2>5. IsFiniteSet(T \ {p}) /\ Cardinality(T \ {p}) = n - 1 /\ Cardinality(T \ {p}) \in Nat
    BY <2>2, <2>4, FS_RemoveElement, FS_CardinalityType
  <2>6. n \in Nat /\ n - 1 < n
    BY <2>1
  <2>7. T \ {p} = {} \/ Topped(T \ {p})
    BY <2>1, <2>5, <2>6
  <2>8. CASE T \ {p} = {}
    <3>1. \A q \in T : q = p
      BY <2>8
    <3>2. f[p] \in Nat
      BY <2>2
    <3> QED
      BY <2>2, <2>3, <3>1, <3>2
  <2>9. CASE Topped(T \ {p})
    <3>1. PICK t \in T \ {p} : \A q \in T \ {p} : f[q] <= f[t]
      BY <2>9
    <3>2. f[p] \in Nat /\ f[t] \in Nat /\ \A q \in T : f[q] \in Nat
      BY <2>3, <3>1
    <3>3. CASE f[p] <= f[t]
      <4>1. \A q \in T : f[q] <= f[t]
        BY <3>1, <3>3
      <4> QED
        BY <2>2, <3>1, <4>1
    <3>4. CASE f[t] <= f[p]
      <4>1. \A q \in T : f[q] <= f[p]
        BY <3>1, <3>2, <3>4
      <4> QED
        BY <2>2, <4>1
    <3> QED
      BY <3>2, <3>3, <3>4
  <2> QED
    BY <2>7, <2>8, <2>9
<1>5. P \in SUBSET P /\ Cardinality(P) \in Nat
  BY FS_CardinalityType
<1> QED
  BY <1>4, <1>5

LEMMA MostIsLargest ==
    ASSUME NEW s \in Seat
    PROVE  Most(s) \in Nat /\ \A p \in Plan : Limit[p][s] <= Most(s)
<1> DEFINE f == [p \in Plan |-> Limit[p][s]]
           S == {Limit[p][s] : p \in Plan}
<1>1. \A p \in Plan : f[p] \in Nat /\ f[p] = Limit[p][s]
  BY AccountAssumption
<1>2. \E p \in Plan : \A q \in Plan : f[q] <= f[p]
  <2> HIDE DEF f
  <2> QED
    BY <1>1, Largest, AccountAssumption
<1>3. \E x \in S : \A y \in S : x >= y
  BY <1>1, <1>2
<1>4. Max(S) \in S /\ \A y \in S : Max(S) >= y
  BY <1>3 DEF Max
<1> QED
  BY <1>1, <1>4 DEF Most

\* A set of workers when one of them comes or goes.
LEMMA CountWorkers ==
    ASSUME NEW X \in SUBSET Worker, NEW Y \in SUBSET Worker, NEW w \in Worker, Y \subseteq X \cup {w}
    PROVE  /\ Cardinality(X) \in Nat /\ Cardinality(Y) \in Nat /\ Cardinality(Worker) \in Nat
           /\ Cardinality(Y) <= Cardinality(Worker)
           /\ Cardinality(Y) <= Cardinality(X) + 1
           /\ w \notin Y \/ w \in X => Cardinality(Y) <= Cardinality(X)
           /\ w \in X /\ w \notin Y => Cardinality(Y) <= Cardinality(X) - 1
<1>1. IsFiniteSet(Worker) /\ IsFiniteSet(X) /\ IsFiniteSet(Y) /\ Cardinality(Y) <= Cardinality(Worker)
  BY AccountAssumption, FS_Subset
<1>2. Cardinality(X) \in Nat /\ Cardinality(Y) \in Nat /\ Cardinality(Worker) \in Nat
  BY <1>1, FS_CardinalityType
<1>3. /\ IsFiniteSet(X \cup {w})
      /\ Cardinality(X \cup {w}) = IF w \in X THEN Cardinality(X) ELSE Cardinality(X) + 1
  BY <1>1, FS_AddElement
<1>4. Cardinality(Y) <= Cardinality(X \cup {w})
  BY <1>3, FS_Subset
<1>5. w \notin Y \/ w \in X => Cardinality(Y) <= Cardinality(X)
  <2>1. w \notin Y \/ w \in X => Y \subseteq X
    OBVIOUS
  <2> QED
    BY <1>1, <2>1, FS_Subset
<1>6. w \in X /\ w \notin Y => Cardinality(Y) <= Cardinality(X) - 1
  <2>1. IsFiniteSet(X \ {w}) /\ (w \in X => Cardinality(X \ {w}) = Cardinality(X) - 1)
    BY <1>1, FS_RemoveElement
  <2>2. w \in X /\ w \notin Y => Y \in SUBSET (X \ {w})
    OBVIOUS
  <2> QED
    BY <2>1, <2>2, FS_Subset
<1> QED
  BY <1>1, <1>2, <1>3, <1>4, <1>5, <1>6

LEMMA FewerWorkers ==
    ASSUME NEW X \in SUBSET Worker, NEW Y \in SUBSET X
    PROVE  Cardinality(X) \in Nat /\ Cardinality(Y) \in Nat /\ Cardinality(Y) <= Cardinality(X)
BY AccountAssumption, FS_Subset, FS_CardinalityType

LEMMA AccountRestsKeeps ==
    ASSUME RequestsInv, AccountInv, AccountRests
    PROVE  AccountInv'
<1>1. UNCHANGED <<account, subscription, seats, granted, booked, acknowledged>> /\ Elsewhere(AccountOp)
  BY DEF AccountRests, accounts
<1>2. ASSUME NEW v \in Worker
      PROVE  \/ pc'[v] = pc[v] /\ job'[v] = job[v] /\ saw'[v] = saw[v]
             \/ pc'[v] \in {"idle", "read"}
             \/ job'[v].op \notin AccountOp
  BY <1>1 DEF Elsewhere, Rests
<1>3. AccountTypeOK' /\ \A a \in Account : account'[a] = Unread => \A s \in Seat : seats'[a][s] = 0
  BY <1>1 DEF AccountInv, AccountTypeOK
<1>4. ASSUME NEW a \in Account, NEW s \in Seat
      PROVE  SeatsBound(a, s)'
  <2>1. LetIn(a, s)' \subseteq LetIn(a, s) /\ LetIn(a, s) \subseteq Worker
    BY <1>2 DEF LetIn, At, AccountOp, TenantOp
  <2>2. /\ Cardinality(LetIn(a, s)') <= Cardinality(LetIn(a, s))
        /\ Cardinality(LetIn(a, s)') \in Nat /\ Cardinality(LetIn(a, s)) \in Nat
    BY <2>1, FewerWorkers
  <2>3. SeatsBound(a, s)
    BY DEF AccountInv
  <2>4. seats[a][s] \in Nat /\ Extra(a, s) \in Nat /\ Extra(a, s)' = Extra(a, s)
    BY <1>1 DEF AccountInv, AccountTypeOK, Extra
  <2>5. Most(s) \in Nat /\ Cardinality(Worker) \in Nat /\ Most(s)' = Most(s)
    BY MostIsLargest, FS_CardinalityType, AccountAssumption DEF Most
  <2> QED
    BY <1>1, <2>2, <2>3, <2>4, <2>5 DEF SeatsBound
<1>5. ASSUME NEW i \in StripeBill
      PROVE  MoneyBound(i)'
  <2>1. InWebhook(i)' \subseteq InWebhook(i) /\ InWebhook(i) \subseteq Worker
    BY <1>2 DEF InWebhook, AccountOp, HookOp
  <2>2. /\ Cardinality(InWebhook(i)') <= Cardinality(InWebhook(i))
        /\ Cardinality(InWebhook(i)') \in Nat /\ Cardinality(InWebhook(i)) \in Nat
    BY <2>1, FewerWorkers
  <2>3. MoneyBound(i) /\ acknowledged[i] \in Nat /\ booked[i] \in Nat
    BY DEF AccountInv, AccountTypeOK
  <2> QED
    BY <1>1, <2>2, <2>3 DEF MoneyBound
<1>6. ASSUME NEW v \in Worker
      PROVE  AccountFits(v)'
  <2>1. AccountFits(v)
    BY DEF AccountInv
  <2> QED
    BY <1>1, <1>2, <2>1 DEF AccountFits, Who
<1> QED
  BY <1>3, <1>4, <1>5, <1>6 DEF AccountInv

LEMMA AccountStepKeeps ==
    ASSUME RequestsInv, AccountInv, NEW w \in Worker, Handled(w), AccountTypeOK',
           \A a \in Account : account[a] # Unread => account'[a] # Unread,
           \A a \in Account : account'[a] = Unread => \A s \in Seat : seats'[a][s] = 0,
           \A a \in Account, s \in Seat : SeatsBound(a, s)', \A i \in StripeBill : MoneyBound(i)',
           AccountFits(w)'
    PROVE  AccountInv'
<1>1. ASSUME NEW v \in Worker, v # w
      PROVE  AccountFits(v)'
  <2>1. AccountFits(v) /\ pc'[v] = pc[v] /\ job'[v] = job[v] /\ saw'[v] = saw[v]
    BY <1>1, OthersRest DEF AccountInv, Rests
  <2>2. CASE pc[v] # "idle" /\ job[v].op \in AccountOp
    <3>1. PICK a \in Account : a = job[v].account
      BY <2>2, JobIsRequest, AccountRequest
    <3> QED
      BY <2>1, <3>1 DEF AccountFits, Who
  <2>3. CASE ~ (pc[v] # "idle" /\ job[v].op \in AccountOp)
    BY <2>1, <2>3 DEF AccountFits
  <2> QED
    BY <2>2, <2>3
<1> QED
  BY <1>1 DEF AccountInv

\* Who else is let in, or in a webhook, stays so.
LEMMA OthersStay ==
    ASSUME RequestsInv, NEW w \in Worker, Handled(w)
    PROVE  /\ \A a \in Account, s \in Seat :
                 /\ LetIn(a, s) \subseteq Worker /\ LetIn(a, s)' \subseteq Worker
                 /\ LetIn(a, s)' \subseteq LetIn(a, s) \cup {w}
           /\ \A i \in StripeBill :
                 /\ InWebhook(i) \subseteq Worker /\ InWebhook(i)' \subseteq Worker
                 /\ InWebhook(i)' \subseteq InWebhook(i) \cup {w}
<1>1. \A v \in Worker \ {w} : pc'[v] = pc[v] /\ job'[v] = job[v]
  BY OthersRest DEF Rests
<1> QED
  BY <1>1 DEF LetIn, InWebhook, At

LEMMA SeatsStay ==
    ASSUME RequestsInv, AccountInv, NEW w \in Worker, Handled(w), UNCHANGED <<seats, granted>>,
           pc'[w] # "write" \/ job'[w].op # "ADD_SEAT"
    PROVE  \A a \in Account, s \in Seat : SeatsBound(a, s)'
<1> SUFFICES ASSUME NEW a \in Account, NEW s \in Seat
             PROVE  SeatsBound(a, s)'
  OBVIOUS
<1>1. w \notin LetIn(a, s)' /\ Most(s)' = Most(s) /\ Extra(a, s)' = Extra(a, s)
  BY DEF LetIn, At, Most, Extra
<1>2. /\ Cardinality(LetIn(a, s)') <= Cardinality(LetIn(a, s))
      /\ Cardinality(LetIn(a, s)') \in Nat /\ Cardinality(LetIn(a, s)) \in Nat
      /\ Cardinality(Worker) \in Nat
  BY <1>1, OthersStay, CountWorkers
<1>3. SeatsBound(a, s) /\ seats[a][s] \in Nat /\ Extra(a, s) \in Nat /\ Most(s) \in Nat
  BY MostIsLargest DEF AccountInv, AccountTypeOK, Extra
<1> QED
  BY <1>1, <1>2, <1>3 DEF SeatsBound

LEMMA MoneyStays ==
    ASSUME RequestsInv, AccountInv, NEW w \in Worker, Handled(w), UNCHANGED money,
           \A i \in StripeBill : w \in InWebhook(i)' => w \in InWebhook(i)
    PROVE  \A i \in StripeBill : MoneyBound(i)'
<1> SUFFICES ASSUME NEW i \in StripeBill
             PROVE  MoneyBound(i)'
  OBVIOUS
<1>1. /\ Cardinality(InWebhook(i)') <= Cardinality(InWebhook(i))
      /\ Cardinality(InWebhook(i)') \in Nat /\ Cardinality(InWebhook(i)) \in Nat
  BY OthersStay, CountWorkers
<1>2. MoneyBound(i) /\ acknowledged[i] \in Nat /\ booked[i] \in Nat
  BY DEF AccountInv, AccountTypeOK
<1> QED
  BY <1>1, <1>2 DEF MoneyBound, money

\* A handler looks, and goes on only with a tenant.
LEMMA AccountLooks ==
    ASSUME RequestsInv, AccountInv, NEW w \in Worker, Handled(w), UNCHANGED accounts,
           pc'[w] # "write" \/ job'[w].op # "ADD_SEAT",
           \A i \in StripeBill : w \in InWebhook(i)' => w \in InWebhook(i),
           AccountFits(w)'
    PROVE  AccountInv'
<1>1. UNCHANGED <<account, subscription, seats, granted, booked, acknowledged>>
  BY DEF accounts
<1>2. AccountTypeOK' /\ \A a \in Account : account'[a] = Unread => \A s \in Seat : seats'[a][s] = 0
  BY <1>1 DEF AccountInv, AccountTypeOK
<1>3. /\ \A a \in Account, s \in Seat : SeatsBound(a, s)'
      /\ \A i \in StripeBill : MoneyBound(i)'
  BY <1>1, SeatsStay, MoneyStays DEF money
<1> QED
  BY <1>1, <1>2, <1>3, AccountStepKeeps

\* A handler answers, and has at most written rows of tenants there are.
LEMMA AccountRowsWritten ==
    ASSUME RequestsInv, AccountInv, NEW w \in Worker, Handled(w), UNCHANGED <<seats, granted, money>>,
           account' \in [Account -> AccountRow \cup {Unread}],
           subscription' \in [Account -> SubscriptionRow \cup {Unread}],
           \A a \in Account : account'[a] = Unread <=> account[a] = Unread,
           \A a \in Account : subscription'[a] = Unread <=> subscription[a] = Unread,
           pc'[w] # "write" \/ job'[w].op # "ADD_SEAT",
           \A i \in StripeBill : w \in InWebhook(i)' => w \in InWebhook(i),
           AccountFits(w)'
    PROVE  AccountInv'
<1>1. AccountTypeOK' /\ \A a \in Account : account'[a] = Unread => \A s \in Seat : seats'[a][s] = 0
  BY DEF AccountInv, AccountTypeOK, money
<1>2. /\ \A a \in Account, s \in Seat : SeatsBound(a, s)'
      /\ \A i \in StripeBill : MoneyBound(i)'
  BY SeatsStay, MoneyStays
<1> QED
  BY <1>1, <1>2, AccountStepKeeps

\* Rows of w's tenant, rewritten.
LEMMA RowsOfTenant ==
    ASSUME AccountInv, NEW a \in Account, account[a] # Unread,
           \/ account' = account
           \/ \E status \in {"ACTIVE", "SUSPENDED", "TERMINATED"}, reason \in {"none", "admin", "dunning"} :
                 account' = [account EXCEPT ![a].status = status, ![a].reason = reason]
           \/ \E plan \in Plan : account' = [account EXCEPT ![a].plan = plan],
           \/ subscription' = subscription
           \/ \E plan \in Plan :
                 subscription' = [subscription EXCEPT ![a].plan = plan, ![a].status = "ACTIVE"]
           \/ \E status \in SubscriptionStatus :
                 \/ subscription' = [subscription EXCEPT ![a].status = status]
                 \/ subscription' = [subscription EXCEPT ![a].status = status, ![a].ends = TRUE]
                 \/ subscription' = [subscription EXCEPT ![a].status = status, ![a].linked = TRUE]
    PROVE  /\ account' \in [Account -> AccountRow \cup {Unread}]
           /\ subscription' \in [Account -> SubscriptionRow \cup {Unread}]
           /\ \A b \in Account : account'[b] = Unread <=> account[b] = Unread
           /\ \A b \in Account : subscription'[b] = Unread <=> subscription[b] = Unread
<1>1. /\ account \in [Account -> AccountRow \cup {Unread}] /\ account[a] \in AccountRow
      /\ subscription \in [Account -> SubscriptionRow \cup {Unread}] /\ subscription[a] \in SubscriptionRow
      /\ account[a] # Unread /\ subscription[a] # Unread
  BY DEF AccountInv, AccountTypeOK
<1>2. account' = account \/ \E row \in AccountRow : account' = [account EXCEPT ![a] = row]
  <2>1. ASSUME NEW status \in {"ACTIVE", "SUSPENDED", "TERMINATED"},
               NEW reason \in {"none", "admin", "dunning"}
        PROVE  [account[a] EXCEPT !.status = status, !.reason = reason] \in AccountRow
    BY <1>1 DEF AccountRow
  <2>2. ASSUME NEW plan \in Plan
        PROVE  [account[a] EXCEPT !.plan = plan] \in AccountRow
    BY <1>1 DEF AccountRow
  <2>3. ASSUME NEW status \in {"ACTIVE", "SUSPENDED", "TERMINATED"},
               NEW reason \in {"none", "admin", "dunning"},
               account' = [account EXCEPT ![a].status = status, ![a].reason = reason]
        PROVE  account' = [account EXCEPT ![a] = [account[a] EXCEPT !.status = status, !.reason = reason]]
    BY <1>1, <2>3
  <2> QED
    BY <2>1, <2>2, <2>3
<1>3. \/ subscription' = subscription
      \/ \E row \in SubscriptionRow : subscription' = [subscription EXCEPT ![a] = row]
  <2>1. ASSUME NEW status \in SubscriptionStatus
        PROVE  /\ [subscription[a] EXCEPT !.status = status] \in SubscriptionRow
               /\ [subscription[a] EXCEPT !.status = status, !.ends = TRUE] \in SubscriptionRow
               /\ [subscription[a] EXCEPT !.status = status, !.linked = TRUE] \in SubscriptionRow
               /\ \A plan \in Plan :
                     [subscription[a] EXCEPT !.plan = plan, !.status = status] \in SubscriptionRow
    BY <1>1 DEF SubscriptionRow
  <2>2. "ACTIVE" \in SubscriptionStatus
    BY DEF SubscriptionStatus
  <2> QED
    BY <1>1, <2>1, <2>2
<1> QED
  BY <1>1, <1>2, <1>3, AccountAssumption

\* Reads and failures.
LEMMA TenantLooks ==
    ASSUME RequestsInv, AccountInv, NEW w \in Worker, pc[w] = "read", job[w].op \in AccountOp,
           UNCHANGED accounts, NEW ok, NEW x, NEW p \in {"check", "write", "commit"}, SeeIf(w, ok, x, p),
           ok /\ job[w].op # "SIGN_UP" => account[Who(w)] # Unread,
           job[w].op = "ADD_SEAT" => p = "check" /\ (ok => x \in Plan),
           job[w].op = "HOOK_PAID" => p = "write"
    PROVE  AccountInv'
<1>1. CASE ok /\ See(w, x, p)
  <2>1. Handled(w) /\ pc'[w] = p /\ job'[w] = job[w] /\ saw'[w] = x
    BY <1>1, SeeHandles, WhatIsSeen, StepNames
  <2>2. AccountFits(w)'
    BY <1>1, <2>1 DEF AccountFits, accounts, Who
  <2>3. \A i \in StripeBill : w \notin InWebhook(i)'
    BY <2>1 DEF InWebhook
  <2> QED
    BY <2>1, <2>2, <2>3, AccountLooks
<1>2. CASE Answer(w)
  <2>1. Handled(w) /\ pc'[w] = "idle"
    BY <1>2, AnswerHandles, WhatIsAnswered
  <2>2. AccountFits(w)' /\ \A i \in StripeBill : w \notin InWebhook(i)'
    BY <2>1 DEF AccountFits, InWebhook
  <2> QED
    BY <2>1, <2>2, AccountLooks
<1> QED
  BY <1>1, <1>2 DEF SeeIf

LEMMA AccountAnswers ==
    ASSUME RequestsInv, AccountInv, NEW w \in Worker, pc[w] # "idle", Answer(w), UNCHANGED accounts
    PROVE  AccountInv'
<1>1. Handled(w) /\ pc'[w] = "idle"
  BY AnswerHandles, WhatIsAnswered
<1>2. AccountFits(w)' /\ \A i \in StripeBill : w \notin InWebhook(i)'
  BY <1>1 DEF AccountFits, InWebhook
<1> QED
  BY <1>1, <1>2, AccountLooks

\* The last statement of a handler, on rows of its tenant.
LEMMA TenantWrites ==
    ASSUME RequestsInv, AccountInv, NEW w \in Worker, pc[w] # "idle", job[w].op \in AccountOp, Answer(w),
           UNCHANGED <<seats, granted, money>>, account[Who(w)] # Unread,
           \/ account' = account
           \/ \E status \in {"ACTIVE", "SUSPENDED", "TERMINATED"}, reason \in {"none", "admin", "dunning"} :
                 account' = [account EXCEPT ![Who(w)].status = status, ![Who(w)].reason = reason]
           \/ \E plan \in Plan : account' = [account EXCEPT ![Who(w)].plan = plan],
           \/ subscription' = subscription
           \/ \E plan \in Plan :
                 subscription' = [subscription EXCEPT ![Who(w)].plan = plan, ![Who(w)].status = "ACTIVE"]
           \/ \E status \in SubscriptionStatus :
                 \/ subscription' = [subscription EXCEPT ![Who(w)].status = status]
                 \/ subscription' = [subscription EXCEPT ![Who(w)].status = status, ![Who(w)].ends = TRUE]
                 \/ subscription' = [subscription EXCEPT ![Who(w)].status = status, ![Who(w)].linked = TRUE]
    PROVE  AccountInv'
<1>1. Handled(w) /\ pc'[w] = "idle"
  BY AnswerHandles, WhatIsAnswered
<1>2. AccountFits(w)' /\ \A i \in StripeBill : w \notin InWebhook(i)'
  BY <1>1 DEF AccountFits, InWebhook
<1>3. PICK a \in Account : a = Who(w)
  BY JobIsRequest, AccountRequest DEF Who
<1>4. /\ account' \in [Account -> AccountRow \cup {Unread}]
      /\ subscription' \in [Account -> SubscriptionRow \cup {Unread}]
      /\ \A b \in Account : account'[b] = Unread <=> account[b] = Unread
      /\ \A b \in Account : subscription'[b] = Unread <=> subscription[b] = Unread
  BY <1>3, RowsOfTenant
<1> QED
  BY <1>1, <1>2, <1>4, AccountRowsWritten

\* The same in the middle of a webhook.
LEMMA WebhookWrites ==
    ASSUME RequestsInv, AccountInv, NEW w \in Worker, job[w].op \in HookOp,
           NEW p \in {"then", "finish", "commit"}, Goto(w, p),
           pc[w] \in {"next", "then", "finish"} \/ (pc[w] = "write" /\ job[w].op # "HOOK_PAID"),
           UNCHANGED <<seats, granted, money>>,
           \/ account' = account
           \/ \E status \in {"ACTIVE", "SUSPENDED", "TERMINATED"}, reason \in {"none", "admin", "dunning"} :
                 account' = [account EXCEPT ![Who(w)].status = status, ![Who(w)].reason = reason],
           \/ subscription' = subscription
           \/ \E status \in SubscriptionStatus :
                 subscription' = [subscription EXCEPT ![Who(w)].status = status]
    PROVE  AccountInv'
<1>1. /\ Handled(w) /\ pc[w] \notin {"idle", "read"} /\ pc'[w] = p /\ job'[w] = job[w]
      /\ job[w].op \in AccountOp \ {"SIGN_UP", "ADD_SEAT"}
  BY GotoHandles, WhatGoesOn, StepNames DEF AccountOp, HookOp
<1>2. PICK a \in Account : a = job[w].account
  BY <1>1, JobIsRequest, AccountRequest
<1>3. Who(w) = a /\ account[a] # Unread
  BY <1>1, <1>2 DEF AccountInv, AccountFits, Who
<1>4. /\ account' \in [Account -> AccountRow \cup {Unread}]
      /\ subscription' \in [Account -> SubscriptionRow \cup {Unread}]
      /\ \A b \in Account : account'[b] = Unread <=> account[b] = Unread
      /\ \A b \in Account : subscription'[b] = Unread <=> subscription[b] = Unread
  BY <1>3, RowsOfTenant
<1>5. AccountFits(w)'
  BY <1>1, <1>2, <1>3, <1>4 DEF AccountFits, Who
<1>6. \A i \in StripeBill : w \in InWebhook(i)' => w \in InWebhook(i)
  BY <1>1 DEF InWebhook
<1>7. pc'[w] # "write"
  BY <1>1
<1> QED
  BY <1>1, <1>4, <1>5, <1>6, <1>7, AccountRowsWritten

LEMMA SignUpKeeps ==
    ASSUME RequestsInv, AccountInv, NEW w \in Worker, SignUp(w)
    PROVE  AccountInv'
<1>1. pc[w] \in {"read", "commit"} /\ job[w].op = "SIGN_UP" /\ job[w].op \in AccountOp
  BY DEF SignUp, At, AccountOp, AdminOp
<1>2. CASE pc[w] = "read"
  <2>1. SeeIf(w, account[Who(w)] = Unread, Unread, "commit") /\ UNCHANGED accounts
    BY <1>2 DEF SignUp, At
  <2> QED
    BY <1>1, <1>2, <2>1, TenantLooks
<1>3. CASE pc[w] = "commit"
  <2>1. PICK a \in Account : a = job[w].account /\ job[w].plan \in Plan
    BY <1>1, JobIsRequest, AccountRequest
  <2> DEFINE row == [status |-> "ACTIVE", reason |-> "none", plan |-> job[w].plan]
             sub == [status |-> "ACTIVE", plan |-> job[w].plan, ends |-> FALSE, linked |-> FALSE]
  <2>2. /\ account[a] = Unread /\ Answer(w) /\ UNCHANGED <<granted, money>>
        /\ account' = [account EXCEPT ![a] = row]
        /\ subscription' = [subscription EXCEPT ![a] = sub]
        /\ seats' = [seats EXCEPT ![a]["users"] = seats[a]["users"] + 1]
    BY <1>3, <2>1 DEF SignUp, At, AddSeat, Who
  <2>3. row \in AccountRow /\ sub \in SubscriptionRow
    BY <2>1 DEF AccountRow, SubscriptionRow, SubscriptionStatus
  <2> HIDE DEF row, sub
  <2>4. Handled(w) /\ pc'[w] = "idle"
    BY <1>3, <2>2, AnswerHandles, WhatIsAnswered
  <2>5. row # Unread /\ sub # Unread
    BY <2>3, AccountAssumption
  <2>6. /\ account \in [Account -> AccountRow \cup {Unread}]
        /\ subscription \in [Account -> SubscriptionRow \cup {Unread}]
        /\ seats \in [Account -> [Seat -> Nat]] /\ "users" \in Seat
    BY AccountAssumption DEF AccountInv, AccountTypeOK
  <2>7. \A b \in Account, s \in Seat :
           seats'[b][s] = IF b = a /\ s = "users" THEN seats[b][s] + 1 ELSE seats[b][s]
    BY <2>2, <2>6
  <2>8. seats' \in [Account -> [Seat -> Nat]]
    BY <2>2, <2>6
  <2>9. AccountTypeOK'
    BY <2>2, <2>3, <2>5, <2>6, <2>8 DEF AccountInv, AccountTypeOK, money
  <2>10. \A b \in Account : /\ account[b] # Unread => account'[b] # Unread
                            /\ account'[b] = Unread => \A s \in Seat : seats'[b][s] = 0
    BY <2>2, <2>5, <2>6, <2>7 DEF AccountInv
  <2>11. AccountFits(w)' /\ \A i \in StripeBill : w \notin InWebhook(i)'
    BY <2>4 DEF AccountFits, InWebhook
  <2>12. \A i \in StripeBill : MoneyBound(i)'
    BY <2>2, <2>4, <2>11, MoneyStays
  <2>13. ASSUME NEW b \in Account, NEW s \in Seat
         PROVE  SeatsBound(b, s)'
    <3>1. w \notin LetIn(b, s)' /\ Most(s)' = Most(s) /\ Extra(b, s)' = Extra(b, s)
      BY <2>2, <2>4 DEF LetIn, At, Most, Extra
    <3>2. /\ Cardinality(LetIn(b, s)') <= Cardinality(LetIn(b, s))
          /\ Cardinality(LetIn(b, s)') \in Nat /\ Cardinality(LetIn(b, s)) \in Nat
          /\ Cardinality(Worker) \in Nat
      BY <2>4, <3>1, OthersStay, CountWorkers
    <3>3. SeatsBound(b, s) /\ seats[b][s] \in Nat /\ Extra(b, s) \in Nat /\ Most(s) \in Nat
      BY MostIsLargest DEF AccountInv, AccountTypeOK, Extra
    <3>4. CASE b = a /\ s = "users"
      <4>1. seats'[b][s] = 1
        BY <2>2, <2>7, <3>4 DEF AccountInv
      <4>2. LetIn(b, s)' = {}
        <5>1. ASSUME NEW v \in LetIn(b, s)'
              PROVE  FALSE
          <6>1. v \in Worker /\ v # w /\ v \in LetIn(b, s)
            BY <2>4, <3>1, <5>1, OthersStay DEF LetIn
          <6>2. pc[v] = "write" /\ job[v].op = "ADD_SEAT" /\ job[v].account = b
            BY <6>1 DEF LetIn, At
          <6>3. "ADD_SEAT" \in AccountOp \ {"SIGN_UP"}
            BY DEF AccountOp, TenantOp
          <6>4. account[Who(v)] # Unread /\ Who(v) = b
            BY <6>1, <6>2, <6>3 DEF AccountInv, AccountFits, Who
          <6> QED
            BY <2>2, <3>4, <6>4
        <5> QED
          BY <5>1
      <4>3. Cardinality(LetIn(b, s)') = 0
        BY <4>2, FS_EmptySet
      <4>4. Cardinality(Worker) >= 1
        BY <3>2, AccountAssumption, FS_EmptySet
      <4>5. (\A p \in Plan : Limit[p][s] > 0) => Most(s) >= 1
        <5>1. PICK p \in Plan : TRUE
          BY AccountAssumption
        <5>2. Limit[p][s] <= Most(s) /\ Limit[p][s] \in Nat
          BY MostIsLargest, AccountAssumption
        <5> QED
          BY <3>3, <5>2
      <4>6. ASSUME \A p \in Plan : Limit[p][s] > 0
            PROVE  1 - Extra(b, s) + 0 <= Most(s) - 1 + Cardinality(Worker)
        BY <3>2, <3>3, <4>4, <4>5, <4>6
      <4> QED
        BY <3>1, <4>1, <4>3, <4>6 DEF SeatsBound
    <3>5. CASE ~ (b = a /\ s = "users")
      <4>1. seats'[b][s] = seats[b][s]
        BY <2>7, <3>5
      <4> QED
        BY <3>1, <3>2, <3>3, <4>1 DEF SeatsBound
    <3> QED
      BY <3>4, <3>5
  <2> QED
    BY <2>4, <2>9, <2>10, <2>11, <2>12, <2>13, AccountStepKeeps
<1> QED
  BY <1>1, <1>2, <1>3

\* The administrator's other calls, the payment and the change of plan.
LEMMA AdministrationKeeps ==
    ASSUME RequestsInv, AccountInv, NEW w \in Worker,
           \/ SuspendTenant(w) \/ ReactivateTenant(w) \/ DeleteTenant(w) \/ ChangeTenantPlan(w)
           \/ CancelSubscription(w) \/ ForceRenewal(w) \/ ApplyPayment(w) \/ HandlePlanChange(w)
    PROVE  AccountInv'
<1> DEFINE ops == {"SUSPEND", "REACTIVATE", "TERMINATE", "CHANGE_PLAN", "CANCEL_PLAN", "RENEW",
                   "PAY_PLAN", "UPGRADE"}
<1>1. /\ pc[w] \in {"read", "commit"} /\ job[w].op \in ops
      /\ job[w].op \in AccountOp \ {"SIGN_UP", "ADD_SEAT", "HOOK_PAID"}
  BY DEF SuspendTenant, ReactivateTenant, DeleteTenant, ChangeTenantPlan, CancelSubscription,
         ForceRenewal, ApplyPayment, HandlePlanChange, At, AccountOp, AdminOp, TenantOp, HookOp
<1>2. PICK a \in Account : a = Who(w) /\ job[w].plan \in Plan
  BY <1>1, JobIsRequest, AccountRequest DEF Who
<1>3. CASE pc[w] = "read"
  <2>1. CASE \E not : ReadAccount(w, not)
    <3>1. PICK not : ReadAccount(w, not)
      BY <2>1
    <3> QED
      BY <1>1, <1>3, <3>1, TenantLooks DEF ReadAccount
  <2>2. CASE HandlePlanChange(w)
    <3>1. LET s == subscription[Who(w)] IN
          SeeIf(w, s # Unread /\ s.ends, s, "commit") /\ UNCHANGED accounts
      BY <1>3, <2>2 DEF HandlePlanChange, At
    <3>2. subscription[Who(w)] # Unread => account[Who(w)] # Unread
      BY <1>2 DEF AccountInv, AccountTypeOK
    <3> QED
      BY <1>1, <1>3, <3>1, <3>2, TenantLooks
  <2> QED
    BY <1>3, <2>1, <2>2 DEF SuspendTenant, ReactivateTenant, DeleteTenant, ChangeTenantPlan,
       CancelSubscription, ForceRenewal, ApplyPayment, At
<1>4. CASE pc[w] = "commit"
  <2>1. account[Who(w)] # Unread /\ pc[w] # "idle"
    BY <1>1, <1>4 DEF AccountInv, AccountFits
  <2>2. account[Who(w)].reason \in {"none", "admin", "dunning"}
    BY <1>2, <2>1 DEF AccountInv, AccountTypeOK, AccountRow
  <2>3. /\ Answer(w) /\ UNCHANGED <<seats, granted, money>>
        /\ \/ account' = account
           \/ \E status \in {"ACTIVE", "SUSPENDED", "TERMINATED"}, reason \in {"none", "admin", "dunning"} :
                 account' = [account EXCEPT ![Who(w)].status = status, ![Who(w)].reason = reason]
           \/ \E plan \in Plan : account' = [account EXCEPT ![Who(w)].plan = plan]
    BY <1>2, <1>4, <2>2 DEF SuspendTenant, ReactivateTenant, DeleteTenant, ChangeTenantPlan,
       CancelSubscription, ForceRenewal, ApplyPayment, HandlePlanChange, At, SetAccount
  <2>4. \/ subscription' = subscription
        \/ \E plan \in Plan :
              subscription' = [subscription EXCEPT ![Who(w)].plan = plan, ![Who(w)].status = "ACTIVE"]
        \/ \E status \in SubscriptionStatus :
              \/ subscription' = [subscription EXCEPT ![Who(w)].status = status]
              \/ subscription' = [subscription EXCEPT ![Who(w)].status = status, ![Who(w)].ends = TRUE]
              \/ subscription' = [subscription EXCEPT ![Who(w)].status = status, ![Who(w)].linked = TRUE]
    BY <1>2, <1>4 DEF SuspendTenant, ReactivateTenant, DeleteTenant, ChangeTenantPlan,
       CancelSubscription, ForceRenewal, ApplyPayment, HandlePlanChange, At, SetSubscription,
       SubscriptionStatus
  <2> QED
    BY <1>1, <2>1, <2>3, <2>4, TenantWrites
<1> QED
  BY <1>1, <1>3, <1>4

\* The platform's own user costs no seat.
LEMMA GrantSeatKeeps ==
    ASSUME RequestsInv, AccountInv, NEW w \in Worker, GrantSeat(w)
    PROVE  AccountInv'
<1>1. pc[w] = "read" /\ job[w].op = "GRANT_SEAT" /\ job[w].op \in AccountOp /\ pc[w] # "idle"
  BY DEF GrantSeat, At, AccountOp, TenantOp
<1>2. PICK a \in Account : a = job[w].account
  BY <1>1, JobIsRequest, AccountRequest
<1>3. /\ account[a] # Unread /\ Answer(w) /\ UNCHANGED <<account, subscription, money>>
      /\ seats' = [seats EXCEPT ![a]["users"] = seats[a]["users"] + 1]
      /\ granted' = [granted EXCEPT ![a] = granted[a] + 1]
  BY <1>2 DEF GrantSeat, AddSeat, Who
<1>4. Handled(w) /\ pc'[w] = "idle"
  BY <1>1, <1>3, AnswerHandles, WhatIsAnswered
<1>5. seats \in [Account -> [Seat -> Nat]] /\ granted \in [Account -> Nat] /\ "users" \in Seat
  BY AccountAssumption DEF AccountInv, AccountTypeOK
<1>6. /\ \A b \in Account, s \in Seat :
            seats'[b][s] = IF b = a /\ s = "users" THEN seats[b][s] + 1 ELSE seats[b][s]
      /\ \A b \in Account : granted'[b] = IF b = a THEN granted[b] + 1 ELSE granted[b]
  BY <1>3, <1>5
<1>7. seats' \in [Account -> [Seat -> Nat]] /\ granted' \in [Account -> Nat]
  BY <1>3, <1>5
<1>8. AccountTypeOK'
  BY <1>3, <1>7 DEF AccountInv, AccountTypeOK, money
<1>9. \A b \in Account : account'[b] = Unread => \A s \in Seat : seats'[b][s] = 0
  BY <1>3, <1>6 DEF AccountInv
<1>10. AccountFits(w)' /\ \A i \in StripeBill : w \notin InWebhook(i)'
  BY <1>4 DEF AccountFits, InWebhook
<1>11. \A i \in StripeBill : MoneyBound(i)'
  BY <1>3, <1>4, <1>10, MoneyStays
<1>12. ASSUME NEW b \in Account, NEW s \in Seat
       PROVE  SeatsBound(b, s)'
  <2>1. w \notin LetIn(b, s)' /\ Most(s)' = Most(s)
    BY <1>4 DEF LetIn, At, Most
  <2>2. /\ Cardinality(LetIn(b, s)') <= Cardinality(LetIn(b, s))
        /\ Cardinality(LetIn(b, s)') \in Nat /\ Cardinality(LetIn(b, s)) \in Nat
        /\ Cardinality(Worker) \in Nat
    BY <1>4, <2>1, OthersStay, CountWorkers
  <2>3. SeatsBound(b, s) /\ seats[b][s] \in Nat /\ Extra(b, s) \in Nat /\ Most(s) \in Nat
    BY MostIsLargest DEF AccountInv, AccountTypeOK, Extra
  <2>4. seats'[b][s] \in Nat /\ Extra(b, s)' \in Nat /\ seats'[b][s] - Extra(b, s)' <= seats[b][s] - Extra(b, s)
    BY <1>5, <1>6, <1>7, <2>3 DEF Extra
  <2> QED
    BY <2>1, <2>2, <2>3, <2>4 DEF SeatsBound
<1> QED
  BY <1>3, <1>4, <1>8, <1>9, <1>10, <1>11, <1>12, AccountStepKeeps

\* A request is let in at its check, and counted from then on.
LEMMA CreateSeatKeeps ==
    ASSUME RequestsInv, AccountInv, NEW w \in Worker, CreateSeat(w)
    PROVE  AccountInv'
<1>1. pc[w] \in {"read", "check", "write"} /\ job[w].op = "ADD_SEAT" /\ job[w].op \in AccountOp
  BY DEF CreateSeat, At, AccountOp, TenantOp
<1>2. PICK a \in Account, seat \in Seat : a = job[w].account /\ seat = job[w].seat
  BY <1>1, JobIsRequest, AccountRequest
<1>3. CASE pc[w] = "read"
  <2>1. LET s == subscription[a] IN
        /\ SeeIf(w, s # Unread /\ s.status \notin {"PAST_DUE", "CANCELED"}, s.plan, "check")
        /\ UNCHANGED accounts
    BY <1>2, <1>3 DEF CreateSeat, At, Who
  <2>2. subscription[a] # Unread => account[a] # Unread /\ subscription[a].plan \in Plan
    BY DEF AccountInv, AccountTypeOK, SubscriptionRow
  <2> QED
    BY <1>1, <1>2, <1>3, <2>1, <2>2, TenantLooks DEF Who
<1>4. CASE pc[w] = "check"
  <2>1. /\ SeeIf(w, Within(saw[w], seat, seats[a][seat]), saw[w], "write")
        /\ UNCHANGED <<account, subscription, seats, granted, booked, acknowledged>>
    BY <1>2, <1>4 DEF CreateSeat, At, Who, accounts
  <2>2. CASE Answer(w)
    BY <1>4, <2>1, <2>2, AccountAnswers DEF accounts
  <2>3. CASE Within(saw[w], seat, seats[a][seat]) /\ See(w, saw[w], "write")
    <3>1. Handled(w) /\ pc'[w] = "write" /\ job'[w] = job[w] /\ saw'[w] = saw[w]
      BY <1>4, <2>3, SeeHandles, WhatIsSeen, StepNames
    <3>2. account[a] # Unread /\ saw[w] \in Plan
      BY <1>1, <1>2, <1>4 DEF AccountInv, AccountFits, Who, AccountOp, TenantOp
    <3>3. AccountFits(w)'
      BY <1>2, <2>1, <3>1, <3>2 DEF AccountFits, Who
    <3>4. AccountTypeOK' /\ \A b \in Account : account'[b] = Unread => \A s \in Seat : seats'[b][s] = 0
      BY <2>1 DEF AccountInv, AccountTypeOK
    <3>5. \A i \in StripeBill : MoneyBound(i)'
      <4>1. \A i \in StripeBill : w \notin InWebhook(i)'
        BY <3>1 DEF InWebhook
      <4> QED
        BY <2>1, <3>1, <4>1, MoneyStays DEF money
    <3>6. ASSUME NEW b \in Account, NEW s \in Seat
          PROVE  SeatsBound(b, s)'
      <4>1. /\ Cardinality(LetIn(b, s)') <= Cardinality(Worker)
            /\ w \notin LetIn(b, s)' => Cardinality(LetIn(b, s)') <= Cardinality(LetIn(b, s))
            /\ Cardinality(LetIn(b, s)') \in Nat /\ Cardinality(LetIn(b, s)) \in Nat
            /\ Cardinality(Worker) \in Nat
        BY <3>1, OthersStay, CountWorkers
      <4>2. SeatsBound(b, s) /\ seats[b][s] \in Nat /\ Extra(b, s) \in Nat /\ Most(s) \in Nat
        BY MostIsLargest DEF AccountInv, AccountTypeOK, Extra
      <4>3. Most(s)' = Most(s) /\ Extra(b, s)' = Extra(b, s) /\ seats'[b][s] = seats[b][s]
        BY <2>1 DEF Most, Extra
      <4>4. CASE w \notin LetIn(b, s)'
        BY <4>1, <4>2, <4>3, <4>4 DEF SeatsBound
      <4>5. CASE w \in LetIn(b, s)'
        <5>1. b = a /\ s = seat
          BY <1>2, <3>1, <4>5 DEF LetIn
        <5>2. ASSUME \A p \in Plan : Limit[p][s] > 0
              PROVE  seats[b][s] <= Most(s) - 1
          <6>1. Limit[saw[w]][s] \in Nat /\ Limit[saw[w]][s] > 0 /\ Limit[saw[w]][s] <= Most(s)
            BY <3>2, <5>2, MostIsLargest, AccountAssumption
          <6>2. seats[b][s] < Limit[saw[w]][s]
            BY <2>3, <5>1, <6>1 DEF Within
          <6> QED
            BY <4>2, <6>1, <6>2
        <5> QED
          BY <4>1, <4>2, <4>3, <5>2 DEF SeatsBound
      <4> QED
        BY <4>4, <4>5
    <3> QED
      BY <2>1, <3>1, <3>3, <3>4, <3>5, <3>6, AccountStepKeeps
  <2> QED
    BY <2>1, <2>2, <2>3 DEF SeeIf
<1>5. CASE pc[w] = "write"
  <2>1. /\ Answer(w) /\ UNCHANGED <<account, subscription, granted, money>>
        /\ seats' = [seats EXCEPT ![a][seat] = seats[a][seat] + 1]
    BY <1>2, <1>5 DEF CreateSeat, At, AddSeat, Who
  <2>2. Handled(w) /\ pc'[w] = "idle" /\ pc[w] # "idle"
    BY <1>5, <2>1, AnswerHandles, WhatIsAnswered
  <2>3. account[a] # Unread
    BY <1>1, <1>2, <1>5 DEF AccountInv, AccountFits, Who
  <2>4. seats \in [Account -> [Seat -> Nat]]
    BY DEF AccountInv, AccountTypeOK
  <2>5. /\ \A b \in Account, s \in Seat :
              seats'[b][s] = IF b = a /\ s = seat THEN seats[b][s] + 1 ELSE seats[b][s]
        /\ seats' \in [Account -> [Seat -> Nat]]
    BY <2>1, <2>4
  <2>6. AccountTypeOK'
    BY <2>1, <2>5 DEF AccountInv, AccountTypeOK, money
  <2>7. \A b \in Account : account'[b] = Unread => \A s \in Seat : seats'[b][s] = 0
    BY <2>1, <2>3, <2>5 DEF AccountInv
  <2>8. AccountFits(w)' /\ \A i \in StripeBill : w \notin InWebhook(i)'
    BY <2>2 DEF AccountFits, InWebhook
  <2>9. \A i \in StripeBill : MoneyBound(i)'
    BY <2>1, <2>2, <2>8, MoneyStays
  <2>10. ASSUME NEW b \in Account, NEW s \in Seat
         PROVE  SeatsBound(b, s)'
    <3>1. w \notin LetIn(b, s)' /\ Most(s)' = Most(s) /\ Extra(b, s)' = Extra(b, s)
      BY <2>1, <2>2 DEF LetIn, At, Most, Extra
    <3>2. /\ Cardinality(LetIn(b, s)') <= Cardinality(LetIn(b, s))
          /\ w \in LetIn(b, s) => Cardinality(LetIn(b, s)') <= Cardinality(LetIn(b, s)) - 1
          /\ Cardinality(LetIn(b, s)') \in Nat /\ Cardinality(LetIn(b, s)) \in Nat
          /\ Cardinality(Worker) \in Nat
      BY <2>2, <3>1, OthersStay, CountWorkers
    <3>3. SeatsBound(b, s) /\ seats[b][s] \in Nat /\ Extra(b, s) \in Nat /\ Most(s) \in Nat
      BY MostIsLargest DEF AccountInv, AccountTypeOK, Extra
    <3>4. CASE b = a /\ s = seat
      <4>1. w \in LetIn(b, s) /\ seats'[b][s] = seats[b][s] + 1
        BY <1>1, <1>2, <1>5, <2>5, <3>4 DEF LetIn, At
      <4> QED
        BY <3>1, <3>2, <3>3, <4>1 DEF SeatsBound
    <3>5. CASE ~ (b = a /\ s = seat)
      <4>1. seats'[b][s] = seats[b][s]
        BY <2>5, <3>5
      <4> QED
        BY <3>1, <3>2, <3>3, <4>1 DEF SeatsBound
    <3> QED
      BY <3>4, <3>5
  <2> QED
    BY <2>1, <2>2, <2>6, <2>7, <2>8, <2>9, <2>10, AccountStepKeeps
<1> QED
  BY <1>1, <1>3, <1>4, <1>5

\* A payment is booked before the webhook goes on, and logged as it ends.
LEMMA PaymentHookKeeps ==
    ASSUME RequestsInv, AccountInv, NEW w \in Worker, ProcessStripePaymentSuccess(w)
    PROVE  AccountInv'
<1>1. /\ pc[w] \in {"read", "write", "next", "then", "finish", "commit"} /\ job[w].op = "HOOK_PAID"
      /\ job[w].op \in AccountOp /\ job[w].op \in HookOp
  BY DEF ProcessStripePaymentSuccess, At, AccountOp, HookOp
<1>2. PICK a \in Account, i \in StripeBill : a = Who(w) /\ i = job[w].charge
  BY <1>1, JobIsRequest, AccountRequest DEF Who
<1>3. CASE pc[w] = "read"
  <2>1. FindLinked(w)
    BY <1>3 DEF ProcessStripePaymentSuccess, At
  <2>2. subscription[Who(w)] # Unread => account[Who(w)] # Unread
    BY <1>2 DEF AccountInv, AccountTypeOK
  <2> QED
    BY <1>1, <1>3, <2>1, <2>2, TenantLooks DEF FindLinked
<1>4. CASE pc[w] \in {"write", "commit"}
  <2>1. /\ UNCHANGED <<account, subscription, seats, granted>>
        /\ \/ /\ pc[w] = "write" /\ booked' = [booked EXCEPT ![i] = booked[i] + 1]
              /\ acknowledged' = acknowledged /\ Goto(w, "next")
           \/ /\ pc[w] = "commit" /\ acknowledged' = [acknowledged EXCEPT ![i] = acknowledged[i] + 1]
              /\ booked' = booked /\ Answer(w)
    BY <1>2, <1>4 DEF ProcessStripePaymentSuccess, At, BookPayment, LogPayment
  <2>2. /\ Handled(w)
        /\ \/ pc[w] = "write" /\ pc'[w] = "next" /\ job'[w] = job[w]
           \/ pc[w] = "commit" /\ pc'[w] = "idle"
    BY <1>4, <2>1, GotoHandles, AnswerHandles, WhatGoesOn, WhatIsAnswered, StepNames
  <2>3. AccountTypeOK' /\ \A b \in Account : account'[b] = Unread => \A s \in Seat : seats'[b][s] = 0
    <3>1. /\ booked \in [StripeBill -> Nat] /\ booked[i] + 1 \in Nat
          /\ acknowledged \in [StripeBill -> Nat] /\ acknowledged[i] + 1 \in Nat
      BY DEF AccountInv, AccountTypeOK
    <3>2. booked' \in [StripeBill -> Nat]
      BY <2>1, <3>1
    <3>3. acknowledged' \in [StripeBill -> Nat]
      BY <2>1, <3>1
    <3> QED
      BY <2>1, <3>2, <3>3 DEF AccountInv, AccountTypeOK
  <2>4. account[a] # Unread
    BY <1>1, <1>2, <1>4 DEF AccountInv, AccountFits
  <2>5. AccountFits(w)'
    BY <1>1, <1>2, <2>1, <2>2, <2>4 DEF AccountFits, Who
  <2>6. \A b \in Account, s \in Seat : SeatsBound(b, s)'
    BY <2>1, <2>2, SeatsStay
  <2>7. ASSUME NEW k \in StripeBill
        PROVE  MoneyBound(k)'
    <3>1. /\ Cardinality(InWebhook(k)') <= Cardinality(InWebhook(k)) + 1
          /\ w \notin InWebhook(k)' => Cardinality(InWebhook(k)') <= Cardinality(InWebhook(k))
          /\ w \in InWebhook(k) /\ w \notin InWebhook(k)' =>
                Cardinality(InWebhook(k)') <= Cardinality(InWebhook(k)) - 1
          /\ Cardinality(InWebhook(k)') \in Nat /\ Cardinality(InWebhook(k)) \in Nat
      BY <2>2, OthersStay, CountWorkers
    <3>2. MoneyBound(k) /\ acknowledged[k] \in Nat /\ booked[k] \in Nat
      BY DEF AccountInv, AccountTypeOK
    <3>3. CASE k = i /\ pc[w] = "write"
      <4>1. booked'[k] = booked[k] + 1 /\ acknowledged'[k] = acknowledged[k]
        BY <2>1, <3>3 DEF AccountInv, AccountTypeOK
      <4> QED
        BY <3>1, <3>2, <4>1 DEF MoneyBound
    <3>4. CASE k = i /\ pc[w] = "commit"
      <4>1. acknowledged'[k] = acknowledged[k] + 1 /\ booked'[k] = booked[k]
        BY <2>1, <3>4 DEF AccountInv, AccountTypeOK
      <4>2. w \in InWebhook(k) /\ w \notin InWebhook(k)'
        BY <1>1, <1>2, <2>2, <3>4 DEF InWebhook
      <4> QED
        BY <3>1, <3>2, <4>1, <4>2 DEF MoneyBound
    <3>5. CASE k # i
      <4>1. acknowledged'[k] = acknowledged[k] /\ booked'[k] = booked[k]
        BY <2>1, <3>5 DEF AccountInv, AccountTypeOK
      <4>2. w \notin InWebhook(k)'
        BY <1>2, <2>2, <3>5 DEF InWebhook
      <4> QED
        BY <3>1, <3>2, <4>1, <4>2 DEF MoneyBound
    <3> QED
      BY <1>4, <3>3, <3>4, <3>5
  <2> QED
    BY <2>1, <2>2, <2>3, <2>5, <2>6, <2>7, AccountStepKeeps
<1>5. CASE pc[w] \in {"next", "then", "finish"}
  <2>1. \E p \in {"then", "finish", "commit"} :
           /\ Goto(w, p) /\ UNCHANGED <<seats, granted, money>>
           /\ \/ account' = account
              \/ account' = [account EXCEPT ![Who(w)].status = "ACTIVE", ![Who(w)].reason = "none"]
           /\ \/ subscription' = subscription
              \/ subscription' = [subscription EXCEPT ![Who(w)].status = "ACTIVE"]
    BY <1>5 DEF ProcessStripePaymentSuccess, At, SetAccount, SetSubscription, accounts, money
  <2>2. "ACTIVE" \in SubscriptionStatus
    BY DEF SubscriptionStatus
  <2> QED
    BY <1>1, <1>5, <2>1, <2>2, WebhookWrites
<1> QED
  BY <1>1, <1>3, <1>4, <1>5

LEMMA OtherHooksKeep ==
    ASSUME RequestsInv, AccountInv, NEW w \in Worker,
           \/ ProcessStripePaymentFailure(w)
           \/ ProcessStripeSubscriptionUpdate(w) \/ ProcessStripeSubscriptionDeleted(w)
    PROVE  AccountInv'
<1>1. /\ pc[w] \in {"read", "write", "finish"} /\ pc[w] # "idle"
      /\ job[w].op \in {"HOOK_FAILED", "HOOK_UPDATED", "HOOK_DELETED"}
      /\ job[w].op \in AccountOp \ {"SIGN_UP"} /\ job[w].op \in HookOp
  BY DEF ProcessStripePaymentFailure, ProcessStripeSubscriptionUpdate, ProcessStripeSubscriptionDeleted,
         At, AccountOp, HookOp
<1>2. PICK a \in Account : a = Who(w) /\ job[w].status \in SubscriptionStatus
  BY <1>1, JobIsRequest, AccountRequest DEF Who
<1>3. subscription[Who(w)] # Unread => account[Who(w)] # Unread
  BY <1>2 DEF AccountInv, AccountTypeOK
<1>4. {"PAST_DUE", "CANCELED"} \subseteq SubscriptionStatus
  BY DEF SubscriptionStatus
<1>5. CASE ProcessStripePaymentFailure(w) /\ pc[w] = "read"
  BY <1>1, <1>3, <1>5, TenantLooks DEF ProcessStripePaymentFailure, At, FindLinked
<1>6. CASE ProcessStripePaymentFailure(w) /\ pc[w] \in {"write", "finish"}
  <2>1. /\ UNCHANGED <<seats, granted, money>>
        /\ Answer(w) \/ (pc[w] = "write" /\ Goto(w, "finish"))
        /\ \/ account' = account
           \/ account' = [account EXCEPT ![Who(w)].status = "SUSPENDED", ![Who(w)].reason = "dunning"]
        /\ \/ subscription' = subscription
           \/ subscription' = [subscription EXCEPT ![Who(w)].status = "PAST_DUE"]
    BY <1>6 DEF ProcessStripePaymentFailure, At, SetAccount, SetSubscription
  <2>2. account[Who(w)] # Unread
    BY <1>1, <1>6 DEF AccountInv, AccountFits
  <2>3. job[w].op # "HOOK_PAID"
    BY <1>1
  <2>4. CASE Answer(w)
    BY <1>1, <1>4, <2>1, <2>2, <2>4, TenantWrites
  <2>5. CASE pc[w] = "write" /\ Goto(w, "finish")
    BY <1>1, <1>4, <2>1, <2>3, <2>5, WebhookWrites
  <2> QED
    BY <2>1, <2>4, <2>5
<1>7. CASE ProcessStripeSubscriptionUpdate(w) \/ ProcessStripeSubscriptionDeleted(w)
  <2>1. /\ subscription[Who(w)] # Unread /\ Answer(w) /\ UNCHANGED <<account, seats, granted, money>>
        /\ \/ subscription' = [subscription EXCEPT ![Who(w)].status = job[w].status, ![Who(w)].linked = TRUE]
           \/ subscription' = [subscription EXCEPT ![Who(w)].status = "CANCELED"]
    BY <1>7 DEF ProcessStripeSubscriptionUpdate, ProcessStripeSubscriptionDeleted, SetSubscription
  <2> QED
    BY <1>1, <1>2, <1>3, <1>4, <2>1, TenantWrites
<1> QED
  BY <1>1, <1>5, <1>6, <1>7 DEF ProcessStripePaymentFailure, At

LEMMA AccountKeeps ==
    ASSUME RequestsInv, AccountInv, AccountRests \/ \E w \in Worker : AccountStep(w)
    PROVE  AccountInv'
<1>1. CASE AccountRests
  BY <1>1, AccountRestsKeeps
<1>2. ASSUME NEW w \in Worker, AccountFails(w)
      PROVE  AccountInv'
  BY <1>2, AccountAnswers DEF AccountFails
<1>3. ASSUME NEW w \in Worker, AccountStep(w)
      PROVE  AccountInv'
  BY <1>2, <1>3, SignUpKeeps, AdministrationKeeps, GrantSeatKeeps, CreateSeatKeeps, PaymentHookKeeps,
     OtherHooksKeep DEF AccountStep
<1> QED
  BY <1>1, <1>3

LEMMA AccountStart == RequestsInit /\ AccountInit => AccountInv
<1> SUFFICES ASSUME RequestsInit, AccountInit
             PROVE  AccountInv
  OBVIOUS
<1>1. \A w \in Worker : pc[w] = "idle"
  BY DEF RequestsInit
<1>2. AccountTypeOK /\ \A w \in Worker : AccountFits(w)
  BY <1>1, AccountAssumption DEF AccountInit, AccountTypeOK, AccountFits
<1>3. ASSUME NEW a \in Account, NEW s \in Seat
      PROVE  SeatsBound(a, s)
  <2>1. LetIn(a, s) = {}
    BY <1>1 DEF LetIn, At
  <2>2. Cardinality(LetIn(a, s)) = 0
    BY <2>1, FS_EmptySet
  <2>3. Cardinality(Worker) \in Nat /\ Most(s) \in Nat
    BY AccountAssumption, FS_CardinalityType, MostIsLargest
  <2>4. (\A p \in Plan : Limit[p][s] > 0) => Most(s) >= 1
    <3>1. PICK p \in Plan : TRUE
      BY AccountAssumption
    <3>2. Limit[p][s] <= Most(s) /\ Limit[p][s] \in Nat
      BY MostIsLargest, AccountAssumption
    <3> QED
      BY <2>3, <3>2
  <2>5. seats[a][s] = 0 /\ Extra(a, s) = 0
    BY DEF AccountInit, Extra
  <2> QED
    BY <2>2, <2>3, <2>4, <2>5 DEF SeatsBound
<1>4. ASSUME NEW i \in StripeBill
      PROVE  MoneyBound(i)
  <2>1. InWebhook(i) = {}
    BY <1>1 DEF InWebhook
  <2>2. Cardinality(InWebhook(i)) = 0
    BY <2>1, FS_EmptySet
  <2> QED
    BY <2>2 DEF MoneyBound, AccountInit
<1>5. \A a \in Account, s \in Seat : seats[a][s] = 0
  BY DEF AccountInit
<1> QED
  BY <1>2, <1>3, <1>4, <1>5 DEF AccountInv

LEMMA AccountHolds == BackOfficeSpec => [](RequestsInv /\ AccountInv)
<1>1. BackOfficeInit => RequestsInv /\ AccountInv
  BY RequestsStart, AccountStart DEF BackOfficeInit
<1>2. RequestsInv /\ AccountInv /\ [BackOfficeNext]_<<requests, business>> => (RequestsInv /\ AccountInv)'
  <2>1. ASSUME RequestsInv, AccountInv, BackOfficeNext
        PROVE  RequestsInv' /\ AccountInv'
    BY <2>1, BackOfficeMoves, RequestsKept, AccountKeeps
  <2>2. ASSUME RequestsInv, AccountInv, UNCHANGED <<requests, business>>
        PROVE  RequestsInv' /\ AccountInv'
    BY <2>2, BackOfficeStutters, RequestsKept, AccountKeeps DEF AllRest, PlatformRests
  <2> QED
    BY <2>1, <2>2
<1> QED
  BY <1>1, <1>2, PTL DEF BackOfficeSpec

\* However calls, renewals and webhooks interleave, the seats of a tenant are
\* above the largest limit only by requests that ran at once, and a payment
\* that was acknowledged was booked as often (AccountsAreKept).
THEOREM TenantsAreKept == BackOfficeSpec => []AccountsAreKept
<1>1. AccountInv => SeatsExceedOnlyByRaces
  <2> SUFFICES ASSUME AccountInv, NEW a \in Account, NEW s \in Seat, \A p \in Plan : Limit[p][s] > 0
               PROVE  seats[a][s] - Extra(a, s) <= Most(s) - 1 + Cardinality(Worker)
    BY DEF SeatsExceedOnlyByRaces, Extra, Most
  <2>1. LetIn(a, s) \in SUBSET Worker
    BY DEF LetIn
  <2>2. Cardinality(LetIn(a, s)) \in Nat /\ Cardinality(Worker) \in Nat
    BY <2>1, FewerWorkers
  <2>3. SeatsBound(a, s) /\ seats[a][s] \in Nat /\ Extra(a, s) \in Nat /\ Most(s) \in Nat
    BY MostIsLargest DEF AccountInv, AccountTypeOK, Extra
  <2> QED
    BY <2>2, <2>3 DEF SeatsBound
<1>2. AccountInv => AcknowledgedPaymentsAreBooked
  <2> SUFFICES ASSUME AccountInv, NEW i \in StripeBill
               PROVE  acknowledged[i] <= booked[i]
    BY DEF AcknowledgedPaymentsAreBooked
  <2>1. InWebhook(i) \in SUBSET Worker
    BY DEF InWebhook
  <2>2. Cardinality(InWebhook(i)) \in Nat
    BY <2>1, FewerWorkers
  <2>3. MoneyBound(i) /\ acknowledged[i] \in Nat /\ booked[i] \in Nat
    BY DEF AccountInv, AccountTypeOK
  <2> QED
    BY <2>2, <2>3 DEF MoneyBound
<1> QED
  BY <1>1, <1>2, AccountHolds, PTL DEF AccountsAreKept

-----------------------------------------------------------------------------
(***************************************************************************)
(* Card payments.  A confirmation that has come past Stripe's answer knows *)
(* that the intent is paid and written here; what it has read as paid by   *)
(* the time it commits is at most what is paid then, since payment rows    *)
(* are only added.                                                         *)
(***************************************************************************)
PaidParts(s, n) == [i \in Intent |-> IF SaleOf[i] = s THEN n[i] * Amount[i] ELSE 0]

CardFits(w) ==
    job[w].op = "CONFIRM" =>
       LET i == job[w].intent IN
       /\ pc[w] \in {"ask", "check", "commit"} => stripeRow[i] # "none"
       /\ pc[w] \in {"check", "commit"} => intent[i] = "succeeded"
       /\ pc[w] = "commit" => saw[w] \in Nat /\ saw[w] <= CardPaid(SaleOf[i])

IntentsToCome == \A q \in Live : q.op = "CREATE_INTENT" => stripeRow[q.intent] = "none"

CardInv ==
    /\ CardTypeOK
    /\ CardPaymentsAddUp
    /\ IntentsToCome
    /\ \A w \in Worker : CardFits(w)

\* What is written stays written and what is paid stays paid.
CardsGrow ==
    /\ \A i \in Intent : stripeRow[i] # "none" =>
          stripeRow'[i] # "none" /\ (intent[i] = "succeeded" => intent'[i] = "succeeded")
    /\ \A s \in Sale : CardPaid(s) <= CardPaid(s)'

LEMMA CardRequest ==
    ASSUME NEW r \in Request
    PROVE  /\ r.op \in CardOp => r.intent \in Intent
           /\ \A q \in Request : q.op = "CREATE_INTENT" /\ r.op = "CREATE_INTENT" /\ q.intent = r.intent => q = r
BY CardAssumption

LEMMA CardPaidSums ==
    ASSUME NEW s
    PROVE  /\ CardPaid(s) = SumOn(PaidParts(s, cardRows), Intent)
           /\ CardPaid(s)' = SumOn(PaidParts(s, cardRows'), Intent)
<1>1. CardPaid(s) = SumOn(PaidParts(s, cardRows), Intent)
  BY ZenonT(40) DEF CardPaid, SumOn, PaidParts, MapThenSumSet, MapThenFoldSet
<1>2. CardPaid(s)' = SumOn(PaidParts(s, cardRows'), Intent)
  BY ZenonT(40) DEF CardPaid, SumOn, PaidParts, MapThenSumSet, MapThenFoldSet
<1> QED
  BY <1>1, <1>2

LEMMA PartsAddUp ==
    ASSUME NEW n \in [Intent -> Nat], NEW s \in Sale
    PROVE  SumOn(PaidParts(s, n), Intent) \in Nat
<1> DEFINE f == PaidParts(s, n)
           z == [i \in Intent |-> 0]
<1>1. \A i \in Intent : f[i] \in Nat /\ z[i] = 0
  BY CardAssumption DEF PaidParts
<1>2. SumOn(f, Intent) \in Int
  <2> HIDE DEF f
  <2> QED
    BY <1>1, CardAssumption, SumIsInt
<1>3. SumOn(z, Intent) <= SumOn(f, Intent)
  <2> HIDE DEF f, z
  <2> QED
    BY <1>1, CardAssumption, SumGrows
<1>4. SumOn(z, Intent) = 0
  <2>1. IsFiniteSet(Intent) /\ {} \in SUBSET Intent /\ \A i \in Intent : z[i] \in Int
    BY CardAssumption
  <2>2. \A i \in Intent \ {} : z[i] = 0
    BY <1>1
  <2> HIDE DEF z
  <2> QED
    BY <2>1, <2>2, SumOfZeros, SumOfNone
<1> QED
  BY <1>2, <1>3, <1>4

LEMMA CardPaidIsNat ==
    ASSUME NEW s \in Sale
    PROVE  /\ CardTypeOK => CardPaid(s) \in Nat
           /\ CardTypeOK' => CardPaid(s)' \in Nat
BY CardPaidSums, PartsAddUp DEF CardTypeOK

\* A payment row more, and its sale has its amount more.
LEMMA CardPaidMore ==
    ASSUME CardTypeOK, NEW i \in Intent, cardRows' = [cardRows EXCEPT ![i] = @ + 1], NEW s \in Sale
    PROVE  /\ CardPaid(s) \in Nat /\ CardPaid(s)' \in Nat
           /\ CardPaid(s)' = CardPaid(s) + (IF SaleOf[i] = s THEN Amount[i] ELSE 0)
<1> DEFINE f == PaidParts(s, cardRows)
           g == PaidParts(s, cardRows')
<1>1. /\ cardRows \in [Intent -> Nat] /\ Amount[i] \in Nat /\ IsFiniteSet(Intent)
      /\ cardRows[i] \in Nat
  BY CardAssumption DEF CardTypeOK
<1>2. cardRows[i] + 1 \in Nat
  BY <1>1
<1>3. cardRows' \in [Intent -> Nat] /\ cardRows'[i] = cardRows[i] + 1
  BY <1>1, <1>2
<1>4. \A j \in Intent : f[j] \in Int /\ g[j] \in Int
  BY <1>1, <1>3, CardAssumption DEF PaidParts
<1>5. \A j \in Intent \ {i} : f[j] = g[j]
  BY <1>1 DEF PaidParts
<1>6. g[i] - f[i] = IF SaleOf[i] = s THEN Amount[i] ELSE 0
  <2>1. (cardRows[i] + 1) * Amount[i] = cardRows[i] * Amount[i] + Amount[i]
    BY <1>1
  <2>2. cardRows[i] * Amount[i] \in Int
    BY <1>1
  <2> QED
    BY <1>1, <1>3, <2>1, <2>2 DEF PaidParts
<1>7. /\ SumOn(f, Intent) \in Int /\ SumOn(g, Intent) \in Int
      /\ SumOn(g, Intent) = SumOn(f, Intent) + (g[i] - f[i])
  <2>1. IsFiniteSet(Intent)
    BY <1>1
  <2> HIDE DEF f, g
  <2>2. \A y \in Intent : f[y] \in Int /\ g[y] \in Int
    BY <1>4
  <2>3. \A y \in Intent \ {i} : f[y] = g[y]
    BY <1>5
  <2> QED
    BY <2>1, <2>2, <2>3, SumMoves
<1>8. CardPaid(s) = SumOn(f, Intent) /\ CardPaid(s)' = SumOn(g, Intent)
  BY CardPaidSums
<1>9. CardPaid(s) \in Nat
  BY CardPaidIsNat
<1> HIDE DEF f, g
<1> QED
  BY <1>1, <1>6, <1>7, <1>8, <1>9

LEMMA CardPaidStays ==
    ASSUME UNCHANGED cardRows, NEW s
    PROVE  CardPaid(s)' = CardPaid(s)
BY CardPaidSums

LEMMA CardRestsKeeps ==
    ASSUME RequestsInv, CardInv, CardRests
    PROVE  CardInv'
<1>1. UNCHANGED <<intent, stripeRow, cardRows, paidByCard>> /\ Elsewhere(CardOp)
  BY DEF CardRests, cards
<1>2. \A s : CardPaid(s)' = CardPaid(s)
  BY <1>1, CardPaidStays
<1>3. CardTypeOK' /\ CardPaymentsAddUp'
  BY <1>1, <1>2 DEF CardInv, CardTypeOK, CardPaymentsAddUp
<1>4. IntentsToCome'
  BY <1>1 DEF CardInv, IntentsToCome, Elsewhere
<1>5. ASSUME NEW v \in Worker
      PROVE  CardFits(v)'
  <2>1. CardFits(v)
    BY DEF CardInv
  <2>2. CASE Rests(v)
    BY <1>1, <1>2, <2>1, <2>2 DEF Rests, CardFits
  <2>3. CASE ~ Rests(v)
    BY <1>1, <2>3 DEF Elsewhere, CardFits, CardOp
  <2> QED
    BY <2>2, <2>3
<1> QED
  BY <1>3, <1>4, <1>5 DEF CardInv

\* What a worker that rests knows is as true after the step.
LEMMA CardRestFits ==
    ASSUME RequestsInv, CardInv, CardTypeOK', CardsGrow, NEW v \in Worker, Rests(v)
    PROVE  CardFits(v)'
<1>1. CardFits(v) /\ pc'[v] = pc[v] /\ job'[v] = job[v] /\ saw'[v] = saw[v]
  BY DEF CardInv, Rests
<1>2. CASE job[v].op = "CONFIRM" /\ pc[v] # "idle"
  <2>1. PICK i \in Intent : i = job[v].intent
    BY <1>2, JobIsRequest, CardRequest DEF CardOp
  <2>2. SaleOf[i] \in Sale
    BY CardAssumption
  <2>3. CardPaid(SaleOf[i]) \in Nat /\ CardPaid(SaleOf[i])' \in Nat /\ CardPaid(SaleOf[i]) <= CardPaid(SaleOf[i])'
    <3>1. CardPaid(SaleOf[i])' \in Nat
      BY <2>2, CardPaidIsNat
    <3> QED
      BY <2>2, <3>1, CardPaidIsNat DEF CardInv, CardsGrow
  <2>4. pc[v] \in {"ask", "check", "commit"} => stripeRow[i] # "none" /\ stripeRow'[i] # "none"
    BY <1>1, <1>2, <2>1 DEF CardFits, CardsGrow
  <2>5. pc[v] \in {"check", "commit"} => intent'[i] = "succeeded"
    BY <1>1, <1>2, <2>1, <2>4 DEF CardFits, CardsGrow
  <2>6. pc[v] = "commit" => saw[v] \in Nat /\ saw[v] <= CardPaid(SaleOf[i])'
    BY <1>1, <1>2, <2>1, <2>3 DEF CardFits
  <2> QED
    BY <1>1, <1>2, <2>1, <2>4, <2>5, <2>6 DEF CardFits
<1>3. CASE ~ (job[v].op = "CONFIRM" /\ pc[v] # "idle")
  BY <1>1, <1>3 DEF CardFits
<1> QED
  BY <1>2, <1>3

LEMMA CardStepKeeps ==
    ASSUME RequestsInv, CardInv, NEW w \in Worker, Handled(w), CardsGrow,
           CardTypeOK', CardPaymentsAddUp', IntentsToCome', CardFits(w)'
    PROVE  CardInv'
<1>1. ASSUME NEW v \in Worker, v # w
      PROVE  CardFits(v)'
  BY <1>1, OthersRest, CardRestFits
<1> QED
  BY <1>1 DEF CardInv

LEMMA CardLooks ==
    ASSUME RequestsInv, CardInv, NEW w \in Worker, Handled(w), UNCHANGED cards, CardFits(w)'
    PROVE  CardInv'
<1>1. UNCHANGED <<intent, stripeRow, cardRows, paidByCard>>
  BY DEF cards
<1>2. \A s : CardPaid(s)' = CardPaid(s)
  BY <1>1, CardPaidStays
<1>3. CardTypeOK' /\ CardPaymentsAddUp'
  BY <1>1, <1>2 DEF CardInv, CardTypeOK, CardPaymentsAddUp
<1>4. CardsGrow
  BY <1>1, <1>2, CardPaidIsNat DEF CardsGrow, CardInv
<1>5. IntentsToCome'
  BY <1>1, LiveShrinks DEF CardInv, IntentsToCome, RequestsMove
<1> QED
  BY <1>3, <1>4, <1>5, CardStepKeeps

LEMMA CardAnswers ==
    ASSUME RequestsInv, CardInv, NEW w \in Worker, pc[w] # "idle", Answer(w), UNCHANGED cards
    PROVE  CardInv'
<1>1. Handled(w) /\ job'[w] = NoRequest /\ pc'[w] = "idle"
  BY AnswerHandles, WhatIsAnswered
<1>2. CardFits(w)'
  BY <1>1 DEF CardFits
<1> QED
  BY <1>1, <1>2, CardLooks

\* An intent that the customer pays, or that Stripe opens before its row is
\* written: no row mirrors it as paid yet, or it was open.
LEMMA CreateIntentKeeps ==
    ASSUME RequestsInv, CardInv, NEW w \in Worker, CreateIntent(w)
    PROVE  CardInv'
<1>1. pc[w] # "idle" /\ job[w].op = "CREATE_INTENT"
  BY DEF CreateIntent, At
<1>2. job[w] \in Request /\ job[w] \in Live
  BY <1>1, JobIsRequest
<1>3. PICK i \in Intent : i = job[w].intent
  BY <1>1, <1>2, CardRequest DEF CardOp
<1>4. stripeRow[i] = "none" /\ cardRows[i] = 0
  BY <1>1, <1>2, <1>3 DEF CardInv, IntentsToCome, CardTypeOK, CardPaymentsAddUp
<1>5. ASSUME UNCHANGED cardRows
      PROVE  \A s : CardPaid(s)' = CardPaid(s)
  BY <1>5, CardPaidStays
<1>6. CASE pc[w] = "read"
  <2>1. /\ Goto(w, "write") /\ intent' = [intent EXCEPT ![i] = "open"]
        /\ UNCHANGED <<stripeRow, cardRows, paidByCard>>
    BY <1>3, <1>6 DEF CreateIntent, At
  <2>2. CardTypeOK'
    BY <2>1 DEF CardInv, CardTypeOK
  <2>3. \A j \in Intent : j # i => intent'[j] = intent[j]
    BY <2>1 DEF CardInv, CardTypeOK
  <2>4. CardPaymentsAddUp'
    <3>1. \A j \in Intent : /\ cardRows'[j] > 0 => intent'[j] = "succeeded"
                            /\ cardRows'[j] > 0 <=> stripeRow'[j] = "SUCCEEDED"
      <4> SUFFICES ASSUME NEW j \in Intent
                   PROVE  /\ cardRows'[j] > 0 => intent'[j] = "succeeded"
                          /\ cardRows'[j] > 0 <=> stripeRow'[j] = "SUCCEEDED"
        OBVIOUS
      <4>1. CASE j = i
        BY <1>4, <2>1, <4>1
      <4>2. CASE j # i
        BY <2>1, <2>3, <4>2 DEF CardInv, CardPaymentsAddUp
      <4> QED
        BY <4>1, <4>2
    <3>2. \A s \in Sale : paidByCard'[s] => CardPaid(s)' >= SaleTotal[s]
      BY <1>5, <2>1 DEF CardInv, CardPaymentsAddUp
    <3> QED
      BY <3>1, <3>2 DEF CardPaymentsAddUp
  <2>5. CardsGrow
    BY <1>4, <1>5, <2>1, <2>3, CardPaidIsNat DEF CardsGrow, CardInv
  <2>6. Handled(w) /\ job'[w] = job[w]
    BY <1>1, <2>1, GotoHandles, WhatGoesOn, StepNames
  <2>7. IntentsToCome'
    BY <2>1, <2>6, LiveShrinks DEF CardInv, IntentsToCome, RequestsMove
  <2>8. CardFits(w)'
    BY <1>1, <2>6 DEF CardFits
  <2> QED
    BY <2>2, <2>4, <2>5, <2>6, <2>7, <2>8, CardStepKeeps
<1>7. CASE pc[w] = "write"
  <2>1. /\ Answer(w) /\ stripeRow' = [stripeRow EXCEPT ![i] = "PENDING"]
        /\ UNCHANGED <<intent, cardRows, paidByCard>>
    BY <1>3, <1>7 DEF CreateIntent, At
  <2>2. CardTypeOK'
    BY <2>1 DEF CardInv, CardTypeOK
  <2>3. stripeRow'[i] = "PENDING" /\ \A j \in Intent : j # i => stripeRow'[j] = stripeRow[j]
    BY <2>1 DEF CardInv, CardTypeOK
  <2>4. CardPaymentsAddUp'
    <3>1. \A j \in Intent : /\ cardRows'[j] > 0 => intent'[j] = "succeeded"
                            /\ cardRows'[j] > 0 <=> stripeRow'[j] = "SUCCEEDED"
      <4> SUFFICES ASSUME NEW j \in Intent
                   PROVE  /\ cardRows'[j] > 0 => intent'[j] = "succeeded"
                          /\ cardRows'[j] > 0 <=> stripeRow'[j] = "SUCCEEDED"
        OBVIOUS
      <4>1. CASE j = i
        BY <1>4, <2>1, <2>3, <4>1
      <4>2. CASE j # i
        BY <2>1, <2>3, <4>2 DEF CardInv, CardPaymentsAddUp
      <4> QED
        BY <4>1, <4>2
    <3>2. \A s \in Sale : paidByCard'[s] => CardPaid(s)' >= SaleTotal[s]
      BY <1>5, <2>1 DEF CardInv, CardPaymentsAddUp
    <3> QED
      BY <3>1, <3>2 DEF CardPaymentsAddUp
  <2>5. CardsGrow
    BY <1>4, <1>5, <2>1, <2>3, CardPaidIsNat DEF CardsGrow, CardInv
  <2>6. Handled(w) /\ job'[w] = NoRequest /\ pc'[w] = "idle"
    BY <1>1, <2>1, AnswerHandles, WhatIsAnswered
  <2>7. ASSUME NEW q \in Live', q.op = "CREATE_INTENT"
        PROVE  stripeRow'[q.intent] = "none"
    <3>1. q \in Live /\ q # job[w] /\ q \in Request
      BY <1>1, <2>1, AnsweredIsGone DEF Live
    <3>2. q.intent # i /\ q.intent \in Intent
      BY <1>1, <1>2, <1>3, <2>7, <3>1, CardRequest DEF CardOp
    <3> QED
      BY <2>3, <2>7, <3>1, <3>2 DEF CardInv, IntentsToCome
  <2>8. IntentsToCome'
    BY <2>7 DEF IntentsToCome
  <2>9. CardFits(w)'
    BY <2>6 DEF CardFits
  <2> QED
    BY <2>2, <2>4, <2>5, <2>6, <2>8, <2>9, CardStepKeeps
<1> QED
  BY <1>6, <1>7 DEF CreateIntent, At

LEMMA ConfirmLooks ==
    ASSUME RequestsInv, CardInv, NEW w \in Worker, Confirm(w), pc[w] # "commit"
    PROVE  CardInv'
<1>1. pc[w] # "idle" /\ job[w].op = "CONFIRM" /\ UNCHANGED cards
  BY DEF Confirm, At
<1>2. PICK i \in Intent : i = job[w].intent
  BY <1>1, JobIsRequest, CardRequest DEF CardOp
<1>3. UNCHANGED <<intent, stripeRow, cardRows>>
  BY <1>1 DEF cards
<1>4. CardFits(w)
  BY DEF CardInv
<1>5. CASE pc[w] = "read"
  <2>1. Answer(w) \/ (stripeRow[i] = "PENDING" /\ Goto(w, "ask"))
    BY <1>2, <1>5 DEF Confirm, At
  <2>2. ASSUME stripeRow[i] = "PENDING", Goto(w, "ask")
        PROVE  Handled(w) /\ CardFits(w)'
    <3>1. Handled(w) /\ job'[w] = job[w] /\ pc'[w] = "ask"
      BY <1>1, <2>2, GotoHandles, WhatGoesOn, StepNames
    <3> QED
      BY <1>2, <1>3, <2>2, <3>1 DEF CardFits
  <2> QED
    BY <1>1, <2>1, <2>2, CardAnswers, CardLooks
<1>6. CASE pc[w] = "ask"
  <2>1. Answer(w) \/ (intent[i] = "succeeded" /\ Goto(w, "check"))
    BY <1>2, <1>6 DEF Confirm, At, Succeeded
  <2>2. ASSUME intent[i] = "succeeded", Goto(w, "check")
        PROVE  Handled(w) /\ CardFits(w)'
    <3>1. Handled(w) /\ job'[w] = job[w] /\ pc'[w] = "check"
      BY <1>1, <2>2, GotoHandles, WhatGoesOn, StepNames
    <3>2. stripeRow[i] # "none"
      BY <1>1, <1>2, <1>4, <1>6 DEF CardFits
    <3> QED
      BY <1>2, <1>3, <2>2, <3>1, <3>2 DEF CardFits
  <2> QED
    BY <1>1, <2>1, <2>2, CardAnswers, CardLooks
<1>7. CASE pc[w] = "check"
  <2>1. See(w, CardPaid(SaleOf[i]), "commit")
    BY <1>2, <1>7 DEF Confirm, At
  <2>2. Handled(w) /\ job'[w] = job[w] /\ saw'[w] = CardPaid(SaleOf[i])
    BY <1>1, <2>1, SeeHandles, WhatIsSeen, StepNames
  <2>3. CardPaid(SaleOf[i]) \in Nat /\ CardPaid(SaleOf[i])' = CardPaid(SaleOf[i])
    BY <1>3, CardPaidStays, CardPaidIsNat, CardAssumption DEF CardInv
  <2>4. stripeRow[i] # "none" /\ intent[i] = "succeeded"
    BY <1>1, <1>2, <1>4, <1>7 DEF CardFits
  <2>5. saw'[w] \in Nat /\ saw'[w] <= CardPaid(SaleOf[i])'
    BY <2>2, <2>3
  <2>6. CardFits(w)'
    BY <1>2, <1>3, <2>2, <2>4, <2>5 DEF CardFits
  <2> QED
    BY <1>1, <2>2, <2>6, CardLooks
<1> QED
  BY <1>5, <1>6, <1>7 DEF Confirm, At

\* The payment that reaches the total may not have seen all the others, but
\* what it saw was paid.
LEMMA ConfirmCommits ==
    ASSUME RequestsInv, CardInv, NEW w \in Worker, Confirm(w), pc[w] = "commit"
    PROVE  CardInv'
<1>1. pc[w] # "idle" /\ job[w].op = "CONFIRM" /\ Answer(w)
  BY DEF Confirm, At
<1>2. PICK i \in Intent : i = job[w].intent
  BY <1>1, JobIsRequest, CardRequest DEF CardOp
<1> DEFINE s == SaleOf[i]
<1>3. /\ cardRows' = [cardRows EXCEPT ![i] = @ + 1]
      /\ stripeRow' = [stripeRow EXCEPT ![i] = "SUCCEEDED"]
      /\ paidByCard' = [paidByCard EXCEPT ![s] = @ \/ saw[w] + Amount[i] >= SaleTotal[s]]
      /\ UNCHANGED intent
  BY <1>2 DEF Confirm, At
<1>4. /\ stripeRow[i] # "none" /\ intent[i] = "succeeded"
      /\ saw[w] \in Nat /\ saw[w] <= CardPaid(s)
  BY <1>1, <1>2 DEF CardInv, CardFits
<1>5. /\ s \in Sale /\ Amount[i] \in Nat /\ cardRows[i] \in Nat /\ cardRows[i] + 1 \in Nat
      /\ \A t \in Sale : SaleTotal[t] \in Nat
  BY CardAssumption DEF CardInv, CardTypeOK
<1>6. CardTypeOK'
  <2>1. cardRows' \in [Intent -> Nat] /\ stripeRow' \in [Intent -> {"none", "PENDING", "SUCCEEDED"}]
    BY <1>3, <1>5 DEF CardInv, CardTypeOK
  <2>2. paidByCard' \in [Sale -> BOOLEAN]
    BY <1>3, <1>5, Zenon DEF CardInv, CardTypeOK
  <2> QED
    BY <1>3, <2>1, <2>2 DEF CardInv, CardTypeOK
<1>7. \A t \in Sale : /\ CardPaid(t) \in Nat /\ CardPaid(t)' \in Nat
                      /\ CardPaid(t)' = CardPaid(t) + (IF s = t THEN Amount[i] ELSE 0)
  BY <1>3, CardPaidMore DEF CardInv
<1>8. /\ cardRows'[i] > 0 /\ stripeRow'[i] = "SUCCEEDED"
      /\ \A j \in Intent : j # i => cardRows'[j] = cardRows[j] /\ stripeRow'[j] = stripeRow[j]
  BY <1>3, <1>5 DEF CardInv, CardTypeOK
<1>9. ASSUME NEW t \in Sale, paidByCard'[t]
      PROVE  CardPaid(t)' >= SaleTotal[t]
  <2>1. CASE paidByCard[t]
    <3>1. CardPaid(t) >= SaleTotal[t] /\ CardPaid(t)' >= CardPaid(t)
      BY <1>5, <1>7, <2>1 DEF CardInv, CardPaymentsAddUp
    <3> QED
      BY <1>5, <1>7, <3>1
  <2>2. CASE ~ paidByCard[t]
    <3>1. t = s
      BY <1>3, <1>9, <2>2 DEF CardInv, CardTypeOK
    <3>2. saw[w] + Amount[i] >= SaleTotal[s]
      BY <1>3, <1>5, <1>9, <2>2, <3>1, Zenon DEF CardInv, CardTypeOK
    <3> HIDE DEF s
    <3> QED
      BY <1>4, <1>5, <1>7, <3>1, <3>2
  <2> QED
    BY <2>1, <2>2
<1>10. CardPaymentsAddUp'
  <2>1. ASSUME NEW j \in Intent
        PROVE  /\ cardRows'[j] > 0 => intent'[j] = "succeeded"
               /\ cardRows'[j] > 0 <=> stripeRow'[j] = "SUCCEEDED"
    <3>1. CASE j = i
      BY <1>3, <1>4, <1>8, <3>1
    <3>2. CASE j # i
      BY <1>3, <1>8, <3>2 DEF CardInv, CardPaymentsAddUp
    <3> QED
      BY <3>1, <3>2
  <2> QED
    BY <1>9, <2>1 DEF CardPaymentsAddUp
<1>11. CardsGrow
  <2>1. \A t \in Sale : CardPaid(t) <= CardPaid(t)'
    BY <1>5, <1>7
  <2>2. \A j \in Intent : stripeRow[j] # "none" => stripeRow'[j] # "none"
    BY <1>8
  <2> QED
    BY <1>3, <2>1, <2>2 DEF CardsGrow
<1>12. Handled(w) /\ job'[w] = NoRequest /\ pc'[w] = "idle"
  BY <1>1, AnswerHandles, WhatIsAnswered
<1>13. IntentsToCome'
  <2>1. ASSUME NEW q \in Live', q.op = "CREATE_INTENT"
        PROVE  stripeRow'[q.intent] = "none"
    <3>1. q \in Live /\ q \in Request
      BY <1>12, LiveShrinks DEF Live, RequestsMove
    <3>2. stripeRow[q.intent] = "none" /\ q.intent \in Intent
      BY <2>1, <3>1, CardRequest DEF CardInv, IntentsToCome, CardOp
    <3> QED
      BY <1>4, <1>8, <3>2
  <2> QED
    BY <2>1 DEF IntentsToCome
<1>14. CardFits(w)'
  BY <1>12 DEF CardFits
<1> QED
  BY <1>6, <1>10, <1>11, <1>12, <1>13, <1>14, CardStepKeeps

LEMMA CustomerPaysKeeps ==
    ASSUME RequestsInv, CardInv, NEW i \in Intent, CustomerPays(i)
    PROVE  CardInv'
<1>1. /\ intent' = [intent EXCEPT ![i] = "succeeded"]
      /\ UNCHANGED <<requests, stripeRow, cardRows, paidByCard>>
  BY DEF CustomerPays
<1>2. \A s : CardPaid(s)' = CardPaid(s)
  BY <1>1, CardPaidStays
<1>3. \A j \in Intent : intent[j] = "succeeded" => intent'[j] = "succeeded"
  BY <1>1 DEF CardInv, CardTypeOK
<1>4. CardTypeOK'
  BY <1>1 DEF CardInv, CardTypeOK
<1>5. CardPaymentsAddUp'
  BY <1>1, <1>2, <1>3 DEF CardInv, CardPaymentsAddUp
<1>6. CardsGrow
  BY <1>1, <1>2, <1>3, CardPaidIsNat DEF CardsGrow, CardInv
<1>7. IntentsToCome'
  BY <1>1, LiveShrinks DEF CardInv, IntentsToCome, RequestsMove, requests
<1>8. \A v \in Worker : Rests(v)
  BY <1>1 DEF requests, Rests
<1> QED
  BY <1>4, <1>5, <1>6, <1>7, <1>8, CardRestFits DEF CardInv

LEMMA CardKeeps ==
    ASSUME RequestsInv, CardInv,
           CardRests \/ (\E w \in Worker : CardStep(w)) \/ (\E i \in Intent : CustomerPays(i))
    PROVE  CardInv'
<1>1. ASSUME NEW w \in Worker, CardStep(w)
      PROVE  CardInv'
  <2>1. CASE CardFails(w)
    BY <2>1, CardAnswers DEF CardFails
  <2>2. CASE Confirm(w)
    BY <2>2, ConfirmLooks, ConfirmCommits
  <2> QED
    BY <1>1, <2>1, <2>2, CreateIntentKeeps DEF CardStep
<1> QED
  BY <1>1, CardRestsKeeps, CustomerPaysKeeps

LEMMA CardStart ==
    ASSUME RequestsInit, CardInit
    PROVE  CardInv
<1>1. CardTypeOK
  BY DEF CardInit, CardTypeOK
<1>2. CardPaymentsAddUp /\ IntentsToCome
  BY CardRequest DEF CardInit, CardPaymentsAddUp, IntentsToCome, Live, CardOp
<1>3. \A w \in Worker : CardFits(w)
  BY DEF RequestsInit, CardFits
<1> QED
  BY <1>1, <1>2, <1>3 DEF CardInv

LEMMA CardHolds == BackOfficeSpec => [](RequestsInv /\ CardInv)
<1>1. BackOfficeInit => RequestsInv /\ CardInv
  BY RequestsStart, CardStart DEF BackOfficeInit
<1>2. RequestsInv /\ CardInv /\ [BackOfficeNext]_<<requests, business>> => (RequestsInv /\ CardInv)'
  <2>1. ASSUME RequestsInv, CardInv, BackOfficeNext PROVE (RequestsInv /\ CardInv)'
    BY <2>1, BackOfficeMoves, RequestsKept, CardKeeps
  <2>2. ASSUME RequestsInv, CardInv, UNCHANGED <<requests, business>> PROVE (RequestsInv /\ CardInv)'
    BY <2>2, BackOfficeStutters, RequestsKept, CardKeeps DEF AllRest, FinanceRests
  <2> QED
    BY <2>1, <2>2
<1> QED
  BY <1>1, <1>2, PTL DEF BackOfficeSpec

\* Whatever confirms run at the same time: a payment row stands for an intent
\* the customer has paid, the mirror says SUCCEEDED exactly when there is one,
\* and an invoice is PAID only when the sale's payment rows cover its total.
THEOREM CardsAddUp == BackOfficeSpec => []CardPaymentsAddUp
<1>1. CardInv => CardPaymentsAddUp
  BY DEF CardInv
<1> QED
  BY <1>1, CardHolds, PTL

-----------------------------------------------------------------------------
(***************************************************************************)
(* The general ledger.  Entries are only added and posted, so what a       *)
(* handler has found written and posted stays so; and while a closing is   *)
(* past its count, an unposted entry of its period is a late one.          *)
(***************************************************************************)
EntryOp == {"CREATE_ENTRY", "SYSTEM_ENTRY", "REVERSE_ENTRY"}

LedgerFits(w) ==
    /\ pc[w] \in {"check", "write"} /\ job[w].op = "REVERSE_ENTRY" =>
          entry[job[w].reverses] # Unread /\ entry[job[w].reverses].posted
    /\ pc[w] \in {"check", "commit"} /\ job[w].op = "POST_ENTRY" => entry[job[w].entry] # Unread

EntriesToCome == \A q \in Live : q.op \in EntryOp => entry[q.entry] = Unread

ReversedOnce ==
    \A r \in Written : entry[r].reverses # Unread =>
        /\ entry[entry[r].reverses] # Unread /\ entry[entry[r].reverses].posted
        /\ \A s \in Written : entry[s].reverses = entry[r].reverses => s = r

LateOrPosted == \A e \in Written : Counted(entry[e].period) /\ ~ entry[e].posted => e \in late

LedgerInv ==
    /\ LedgerTypeOK
    /\ EntriesToCome
    /\ ReversedOnce
    /\ LateOrPosted
    /\ \A w \in Worker : LedgerFits(w)

EntriesGrow ==
    \A e \in Entry : entry[e] # Unread => entry'[e] # Unread /\ (entry[e].posted => entry'[e].posted)

LEMMA LedgerRequest ==
    ASSUME NEW r \in Request, r.op \in LedgerOp
    PROVE  r.entry \in Entry /\ r.reverses \in Entry /\ r.period \in Period /\ r.balanced \in BOOLEAN
BY LedgerAssumption

LEMMA LedgerRestsKeeps ==
    ASSUME RequestsInv, LedgerInv, LedgerRests
    PROVE  LedgerInv'
<1>1. UNCHANGED <<entry, closed, late>> /\ Elsewhere(LedgerOp)
  BY DEF LedgerRests, ledger
<1>2. ASSUME NEW v \in Worker
      PROVE  /\ LedgerFits(v)'
             /\ At(v, "CLOSE_PERIOD", "commit")' => At(v, "CLOSE_PERIOD", "commit") /\ job'[v] = job[v]
  <2>1. LedgerFits(v)
    BY DEF LedgerInv
  <2>2. CASE Rests(v)
    BY <1>1, <2>1, <2>2 DEF Rests, LedgerFits, At
  <2>3. CASE ~ Rests(v)
    <3>1. pc'[v] \in {"idle", "read"} \/ job'[v].op \notin LedgerOp
      BY <1>1, <2>3 DEF Elsewhere
    <3> QED
      BY <3>1 DEF LedgerFits, LedgerOp, At
  <2> QED
    BY <2>2, <2>3
<1>3. \A p : Counted(p)' => Counted(p)
  BY <1>1, <1>2 DEF Counted
<1>4. Written' = Written
  BY <1>1 DEF Written
<1>5. LedgerTypeOK' /\ ReversedOnce' /\ LateOrPosted'
  BY <1>1, <1>3, <1>4 DEF LedgerInv, LedgerTypeOK, ReversedOnce, LateOrPosted
<1>6. EntriesToCome'
  <2>1. \A q \in Live' : q.op \in EntryOp => q \in Live
    BY <1>1 DEF Elsewhere, EntryOp, LedgerOp
  <2> QED
    BY <1>1, <2>1 DEF LedgerInv, EntriesToCome
<1> QED
  BY <1>2, <1>5, <1>6 DEF LedgerInv

\* A step of w: the others' knowledge keeps, and no closing of another has
\* counted in it.
LEMMA LedgerStepKeeps ==
    ASSUME RequestsInv, LedgerInv, NEW w \in Worker, Handled(w), EntriesGrow,
           LedgerTypeOK', EntriesToCome', ReversedOnce', LateOrPosted', LedgerFits(w)'
    PROVE  LedgerInv'
<1>1. \A v \in Worker \ {w} : Rests(v)
  BY OthersRest
<1>2. ASSUME NEW v \in Worker, v # w
      PROVE  LedgerFits(v)'
  <2>1. LedgerFits(v) /\ pc'[v] = pc[v] /\ job'[v] = job[v]
    BY <1>1, <1>2 DEF LedgerInv, Rests
  <2>2. CASE pc[v] \in {"check", "write", "commit"} /\ job[v].op \in {"REVERSE_ENTRY", "POST_ENTRY"}
    <3>1. PICK e \in Entry : e = job[v].entry
      BY <2>2, JobIsRequest, LedgerRequest DEF LedgerOp
    <3>2. PICK r \in Entry : r = job[v].reverses
      BY <2>2, JobIsRequest, LedgerRequest DEF LedgerOp
    <3> QED
      BY <2>1, <3>1, <3>2 DEF LedgerFits, EntriesGrow
  <2>3. CASE ~ (pc[v] \in {"check", "write", "commit"} /\ job[v].op \in {"REVERSE_ENTRY", "POST_ENTRY"})
    BY <2>1, <2>3 DEF LedgerFits
  <2> QED
    BY <2>2, <2>3
<1> QED
  BY <1>2 DEF LedgerInv

\* Which periods are counted after a step of w.
LEMMA CountedStays ==
    ASSUME RequestsInv, NEW w \in Worker, Handled(w), UNCHANGED closed, NEW p, Counted(p)',
           ~ (At(w, "CLOSE_PERIOD", "commit")' /\ job'[w].period = p)
    PROVE  Counted(p)
<1>1. \A v \in Worker \ {w} : Rests(v)
  BY OthersRest
<1>2. \A v \in Worker \ {w} : At(v, "CLOSE_PERIOD", "commit")' => At(v, "CLOSE_PERIOD", "commit")
  BY <1>1 DEF Rests, At
<1> QED
  BY <1>1, <1>2 DEF Counted, Rests

\* A step that leaves the books alone.
LEMMA LedgerLooks ==
    ASSUME RequestsInv, LedgerInv, NEW w \in Worker, Handled(w), UNCHANGED ledger, LedgerFits(w)',
           At(w, "CLOSE_PERIOD", "commit")' => UnpostedEntries(job'[w].period) = {}
    PROVE  LedgerInv'
<1>1. UNCHANGED <<entry, closed, late>>
  BY DEF ledger
<1>2. Written' = Written
  BY <1>1 DEF Written
<1>3. LedgerTypeOK' /\ ReversedOnce' /\ EntriesGrow
  BY <1>1, <1>2 DEF LedgerInv, LedgerTypeOK, ReversedOnce, EntriesGrow
<1>4. EntriesToCome'
  BY <1>1, LiveShrinks DEF RequestsMove, LedgerInv, EntriesToCome
<1>5. LateOrPosted'
  <2>1. ASSUME NEW e \in Written, NEW p, p = entry[e].period, Counted(p)', ~ entry[e].posted
        PROVE  e \in late
    <3>1. CASE At(w, "CLOSE_PERIOD", "commit")' /\ job'[w].period = p
      BY <2>1, <3>1 DEF UnpostedEntries
    <3>2. CASE ~ (At(w, "CLOSE_PERIOD", "commit")' /\ job'[w].period = p)
      <4>1. Counted(p)
        BY <1>1, <2>1, <3>2, CountedStays
      <4> QED
        BY <2>1, <4>1 DEF LedgerInv, LateOrPosted
    <3> QED
      BY <3>1, <3>2
  <2> QED
    BY <1>1, <1>2, <2>1 DEF LateOrPosted, Counted
<1> QED
  BY <1>3, <1>4, <1>5, LedgerStepKeeps

LEMMA LedgerAnswers ==
    ASSUME RequestsInv, LedgerInv, NEW w \in Worker, pc[w] # "idle", Answer(w), UNCHANGED ledger
    PROVE  LedgerInv'
<1>1. Handled(w) /\ pc'[w] = "idle"
  BY AnswerHandles, WhatIsAnswered
<1>2. LedgerFits(w)' /\ ~ At(w, "CLOSE_PERIOD", "commit")'
  BY <1>1 DEF LedgerFits, At
<1> QED
  BY <1>1, <1>2, LedgerLooks

\* A new entry: it reverses none, or one that is posted and not yet reversed.
LEMMA EntryIsInserted ==
    ASSUME RequestsInv, LedgerInv, NEW w \in Worker, pc[w] # "idle", job[w].op \in EntryOp, Answer(w),
           NEW row \in EntryRow, Insert(job[w].entry, row),
           row.reverses # Unread =>
              /\ entry[row.reverses] # Unread /\ entry[row.reverses].posted
              /\ Reversals(row.reverses) = {}
    PROVE  LedgerInv'
<1>1. Handled(w) /\ pc'[w] = "idle" /\ job[w] \notin Live'
  BY AnswerHandles, WhatIsAnswered, AnsweredIsGone
<1>2. job[w] \in Request /\ job[w] \in Live
  BY JobIsRequest DEF Live
<1>3. PICK e \in Entry : e = job[w].entry
  BY <1>2, LedgerRequest DEF EntryOp, LedgerOp
<1>4. entry[e] = Unread
  BY <1>2, <1>3 DEF LedgerInv, EntriesToCome
<1>5. /\ entry' = [entry EXCEPT ![e] = row] /\ UNCHANGED closed
      /\ late' = IF row.period # NoPeriod /\ Counted(row.period) THEN late \cup {e} ELSE late
  BY <1>3 DEF Insert
<1>6. row # Unread
  BY LedgerAssumption
<1>7. entry'[e] = row /\ (\A k \in Entry : k # e => entry'[k] = entry[k])
  BY <1>5 DEF LedgerInv, LedgerTypeOK
<1>8. Written' = Written \cup {e} /\ e \notin Written
  BY <1>4, <1>6, <1>7 DEF Written
<1>9. LedgerTypeOK'
  BY <1>5 DEF LedgerInv, LedgerTypeOK
<1>10. EntriesGrow
  BY <1>4, <1>7 DEF EntriesGrow
<1>11. EntriesToCome'
  <2>1. ASSUME NEW q \in Live', q.op \in EntryOp
        PROVE  entry'[q.entry] = Unread
    <3>1. q \in Live /\ q # job[w]
      BY <1>1, LiveShrinks DEF RequestsMove
    <3>2. q.entry # e /\ q.entry \in Entry
      BY <1>2, <1>3, <2>1, <3>1, LedgerAssumption, LedgerRequest DEF Live, EntryOp, LedgerOp
    <3> QED
      BY <1>7, <2>1, <3>1, <3>2 DEF LedgerInv, EntriesToCome
  <2> QED
    BY <2>1 DEF EntriesToCome
<1>12. ReversedOnce'
  <2>1. ASSUME NEW r \in Written', entry'[r].reverses # Unread
        PROVE  /\ entry'[entry'[r].reverses] # Unread /\ entry'[entry'[r].reverses].posted
               /\ \A s \in Written' : entry'[s].reverses = entry'[r].reverses => s = r
    <3>1. CASE r = e
      <4>1. \A s \in Written : entry[s].reverses # row.reverses
        BY <1>7, <2>1, <3>1 DEF Reversals
      <4>2. row.reverses \in Entry /\ row.reverses # e
        BY <1>4, <1>7, <2>1, <3>1 DEF EntryRow
      <4> QED
        BY <1>7, <1>8, <2>1, <3>1, <4>1, <4>2 DEF Written
    <3>2. CASE r # e
      <4>1. r \in Written /\ entry'[r] = entry[r]
        BY <1>7, <1>8, <3>2 DEF Written
      <4>2. /\ entry[entry[r].reverses] # Unread /\ entry[entry[r].reverses].posted
            /\ \A s \in Written : entry[s].reverses = entry[r].reverses => s = r
        BY <2>1, <4>1 DEF LedgerInv, ReversedOnce
      <4>3. entry[r].reverses \in Entry /\ entry[r].reverses # e
        BY <1>4, <2>1, <4>1, <4>2 DEF LedgerInv, LedgerTypeOK, EntryRow, Written
      <4>4. row.reverses # entry[r].reverses
        BY <2>1, <4>1 DEF Reversals
      <4> QED
        BY <1>7, <1>8, <4>1, <4>2, <4>3, <4>4 DEF Written
    <3> QED
      BY <3>1, <3>2
  <2> QED
    BY <2>1 DEF ReversedOnce
<1>13. LateOrPosted'
  <2>1. ASSUME NEW p, Counted(p)' PROVE Counted(p)
    BY <1>1, <1>5, <2>1, CountedStays DEF At
  <2>2. ~ Counted(NoPeriod)
    <3>1. ASSUME NEW v \in Worker, At(v, "CLOSE_PERIOD", "commit")
          PROVE  job[v].period \in Period
      BY <3>1, JobIsRequest, LedgerRequest DEF At, LedgerOp
    <3> QED
      BY <3>1, LedgerAssumption DEF Counted, LedgerInv, LedgerTypeOK
  <2>3. ASSUME NEW k \in Entry, k \in Written', NEW p, p = entry'[k].period, Counted(p)', ~ entry'[k].posted
        PROVE  k \in late'
    <3>1. Counted(p)
      BY <2>1, <2>3
    <3>2. CASE k = e
      BY <1>5, <1>7, <2>2, <2>3, <3>1, <3>2
    <3>3. CASE k # e
      BY <1>5, <1>7, <1>8, <2>3, <3>1, <3>3 DEF LedgerInv, LateOrPosted
    <3> QED
      BY <3>2, <3>3
  <2> QED
    BY <2>3 DEF LateOrPosted, Written, Counted
<1>14. LedgerFits(w)'
  BY <1>1 DEF LedgerFits
<1> QED
  BY <1>1, <1>9, <1>10, <1>11, <1>12, <1>13, <1>14, LedgerStepKeeps

LEMMA CreateJournalEntryKeeps ==
    ASSUME RequestsInv, LedgerInv, NEW w \in Worker, CreateJournalEntry(w)
    PROVE  LedgerInv'
<1>1. job[w].op \in EntryOp /\ pc[w] # "idle" /\ job[w].entry \in Entry
  BY JobIsRequest, LedgerRequest DEF CreateJournalEntry, At, EntryOp, LedgerOp
<1> DEFINE row == [posted |-> FALSE, balanced |-> TRUE, reverses |-> Unread, period |-> Dated[job[w].entry]]
<1>2. row \in EntryRow /\ row.reverses = Unread
  BY <1>1, LedgerAssumption DEF EntryRow
<1>3. Insert(job[w].entry, row) /\ Answer(w)
  BY DEF CreateJournalEntry
<1> HIDE DEF row
<1> QED
  BY <1>1, <1>2, <1>3, EntryIsInserted

LEMMA CreateSystemEntryKeeps ==
    ASSUME RequestsInv, LedgerInv, NEW w \in Worker, CreateSystemJournalEntryByCode(w)
    PROVE  LedgerInv'
<1>1. job[w].op \in EntryOp /\ pc[w] # "idle" /\ job[w].balanced \in BOOLEAN
  BY JobIsRequest, LedgerRequest DEF CreateSystemJournalEntryByCode, At, EntryOp, LedgerOp
<1> DEFINE row == [posted |-> FALSE, balanced |-> job[w].balanced, reverses |-> Unread, period |-> Today]
<1>2. row \in EntryRow /\ row.reverses = Unread
  BY <1>1, LedgerAssumption DEF EntryRow
<1>3. Insert(job[w].entry, row) /\ Answer(w)
  BY DEF CreateSystemJournalEntryByCode
<1> HIDE DEF row
<1> QED
  BY <1>1, <1>2, <1>3, EntryIsInserted

LEMMA PostJournalEntryKeeps ==
    ASSUME RequestsInv, LedgerInv, NEW w \in Worker, PostJournalEntry(w)
    PROVE  LedgerInv'
<1>1. job[w].op = "POST_ENTRY" /\ pc[w] \in {"read", "check", "commit"} /\ pc[w] # "idle"
  BY DEF PostJournalEntry, At
<1>2. PICK e \in Entry : e = job[w].entry
  BY <1>1, JobIsRequest, LedgerRequest DEF LedgerOp
<1>3. CASE pc[w] = "read"
  <2>1. UNCHANGED ledger /\ (Answer(w) \/ (entry[e] # Unread /\ See(w, entry[e], "check")))
    BY <1>1, <1>2, <1>3 DEF PostJournalEntry, At, SeeIf
  <2>2. CASE entry[e] # Unread /\ See(w, entry[e], "check")
    <3>1. Handled(w) /\ pc'[w] = "check" /\ job'[w] = job[w]
      BY <1>1, <2>2, SeeHandles, WhatIsSeen, StepNames
    <3>2. LedgerFits(w)' /\ ~ At(w, "CLOSE_PERIOD", "commit")'
      BY <1>1, <1>2, <2>1, <2>2, <3>1 DEF LedgerFits, ledger, At
    <3> QED
      BY <2>1, <3>1, <3>2, LedgerLooks
  <2> QED
    BY <1>1, <2>1, <2>2, LedgerAnswers
<1>4. CASE pc[w] = "check"
  <2>1. UNCHANGED ledger /\ (Answer(w) \/ Goto(w, "commit")) /\ entry[e] # Unread
    BY <1>1, <1>2, <1>4 DEF PostJournalEntry, At, LedgerInv, LedgerFits
  <2>2. CASE Goto(w, "commit")
    <3>1. Handled(w) /\ pc'[w] = "commit" /\ job'[w] = job[w]
      BY <1>1, <2>2, GotoHandles, WhatGoesOn, StepNames
    <3>2. LedgerFits(w)' /\ ~ At(w, "CLOSE_PERIOD", "commit")'
      BY <1>1, <1>2, <2>1, <3>1 DEF LedgerFits, ledger, At
    <3> QED
      BY <2>1, <3>1, <3>2, LedgerLooks
  <2> QED
    BY <1>1, <2>1, <2>2, LedgerAnswers
<1>5. CASE pc[w] = "commit"
  <2>1. /\ entry' = [entry EXCEPT ![e] = [@ EXCEPT !.posted = TRUE]] /\ Answer(w)
        /\ UNCHANGED <<closed, late>> /\ entry[e] # Unread
    BY <1>1, <1>2, <1>5 DEF PostJournalEntry, At, LedgerInv, LedgerFits
  <2>2. Handled(w) /\ pc'[w] = "idle"
    BY <1>1, <2>1, AnswerHandles, WhatIsAnswered
  <2>3. /\ entry'[e] \in EntryRow /\ entry'[e].posted = TRUE
        /\ entry'[e].reverses = entry[e].reverses /\ entry'[e].period = entry[e].period
        /\ \A k \in Entry : k # e => entry'[k] = entry[k]
    BY <2>1 DEF LedgerInv, LedgerTypeOK, EntryRow
  <2>4. entry'[e] # Unread /\ Written' = Written
    BY <2>1, <2>3, LedgerAssumption DEF Written
  <2>5. LedgerTypeOK'
    BY <2>1, <2>3 DEF LedgerInv, LedgerTypeOK
  <2>6. EntriesGrow
    BY <2>3, <2>4 DEF EntriesGrow
  <2>7. EntriesToCome'
    <3>1. ASSUME NEW q \in Live', q.op \in EntryOp
          PROVE  entry'[q.entry] = Unread
      <4>1. q \in Live
        BY <2>2, LiveShrinks DEF RequestsMove
      <4>2. entry[q.entry] = Unread /\ q.entry \in Entry
        BY <3>1, <4>1, LedgerRequest DEF LedgerInv, EntriesToCome, Live, EntryOp, LedgerOp
      <4> QED
        BY <2>1, <2>3, <4>2
    <3> QED
      BY <3>1 DEF EntriesToCome
  <2>8. ReversedOnce'
    <3>1. \A k \in Written : entry'[k].reverses = entry[k].reverses
      BY <2>3 DEF Written
    <3>2. \A r \in Written : entry[r].reverses # Unread => entry[r].reverses \in Entry
      BY DEF Written, LedgerInv, LedgerTypeOK, EntryRow
    <3> QED
      BY <2>4, <2>6, <3>1, <3>2 DEF LedgerInv, ReversedOnce, EntriesGrow
  <2>9. LateOrPosted'
    <3>1. ASSUME NEW k \in Written, NEW p, p = entry'[k].period, Counted(p)', ~ entry'[k].posted
          PROVE  k \in late
      <4>1. k # e /\ entry'[k] = entry[k]
        BY <2>3, <3>1 DEF Written
      <4>2. Counted(p)
        BY <2>1, <2>2, <3>1, CountedStays DEF At
      <4> QED
        BY <3>1, <4>1, <4>2 DEF LedgerInv, LateOrPosted
    <3> QED
      BY <2>1, <2>4, <3>1 DEF LateOrPosted, Counted
  <2>10. LedgerFits(w)'
    BY <2>2 DEF LedgerFits
  <2> QED
    BY <2>2, <2>5, <2>6, <2>7, <2>8, <2>9, <2>10, LedgerStepKeeps
<1> QED
  BY <1>1, <1>3, <1>4, <1>5

LEMMA ReverseJournalEntryKeeps ==
    ASSUME RequestsInv, LedgerInv, NEW w \in Worker, ReverseJournalEntry(w)
    PROVE  LedgerInv'
<1>1. job[w].op = "REVERSE_ENTRY" /\ pc[w] \in {"read", "check", "write"} /\ pc[w] # "idle"
  BY DEF ReverseJournalEntry, At
<1>2. PICK e \in Entry : e = job[w].reverses
  BY <1>1, JobIsRequest, LedgerRequest DEF LedgerOp
<1>3. CASE pc[w] = "read"
  <2>1. UNCHANGED ledger /\ (Answer(w) \/ (entry[e] # Unread /\ entry[e].posted /\ Goto(w, "check")))
    BY <1>1, <1>2, <1>3 DEF ReverseJournalEntry, At
  <2>2. CASE entry[e] # Unread /\ entry[e].posted /\ Goto(w, "check")
    <3>1. Handled(w) /\ pc'[w] = "check" /\ job'[w] = job[w]
      BY <1>1, <2>2, GotoHandles, WhatGoesOn, StepNames
    <3>2. LedgerFits(w)' /\ ~ At(w, "CLOSE_PERIOD", "commit")'
      BY <1>1, <1>2, <2>1, <2>2, <3>1 DEF LedgerFits, ledger, At
    <3> QED
      BY <2>1, <3>1, <3>2, LedgerLooks
  <2> QED
    BY <1>1, <2>1, <2>2, LedgerAnswers
<1>4. CASE pc[w] = "check"
  <2>1. UNCHANGED ledger /\ (Answer(w) \/ Goto(w, "write")) /\ entry[e] # Unread /\ entry[e].posted
    BY <1>1, <1>2, <1>4 DEF ReverseJournalEntry, At, LedgerInv, LedgerFits
  <2>2. CASE Goto(w, "write")
    <3>1. Handled(w) /\ pc'[w] = "write" /\ job'[w] = job[w]
      BY <1>1, <2>2, GotoHandles, WhatGoesOn, StepNames
    <3>2. LedgerFits(w)' /\ ~ At(w, "CLOSE_PERIOD", "commit")'
      BY <1>1, <1>2, <2>1, <3>1 DEF LedgerFits, ledger, At
    <3> QED
      BY <2>1, <3>1, <3>2, LedgerLooks
  <2> QED
    BY <1>1, <2>1, <2>2, LedgerAnswers
<1>5. CASE pc[w] = "write"
  <2> DEFINE row == [posted |-> TRUE, balanced |-> entry[e].balanced, reverses |-> e, period |-> Today]
  <2>1. entry[e] # Unread /\ entry[e].posted
    BY <1>1, <1>2, <1>5 DEF LedgerInv, LedgerFits
  <2>2. row \in EntryRow /\ row.reverses = e
    BY <2>1, LedgerAssumption DEF LedgerInv, LedgerTypeOK, EntryRow
  <2>3. Insert(job[w].entry, row) /\ Answer(w) /\ Reversals(e) = {}
    BY <1>1, <1>2, <1>5 DEF ReverseJournalEntry, At, FirstReversal
  <2>4. job[w].op \in EntryOp
    BY <1>1 DEF EntryOp
  <2> HIDE DEF row
  <2> QED
    BY <1>1, <2>1, <2>2, <2>3, <2>4, EntryIsInserted
<1> QED
  BY <1>1, <1>3, <1>4, <1>5

LEMMA CloseAccountingPeriodKeeps ==
    ASSUME RequestsInv, LedgerInv, NEW w \in Worker, CloseAccountingPeriod(w)
    PROVE  LedgerInv'
<1>1. job[w].op = "CLOSE_PERIOD" /\ pc[w] \in {"read", "check", "commit"} /\ pc[w] # "idle"
  BY DEF CloseAccountingPeriod, At
<1>2. PICK p \in Period : p = job[w].period
  BY <1>1, JobIsRequest, LedgerRequest DEF LedgerOp
<1>3. CASE pc[w] = "read"
  <2>1. UNCHANGED ledger /\ (Answer(w) \/ Goto(w, "check"))
    BY <1>1, <1>3 DEF CloseAccountingPeriod, At
  <2>2. CASE Goto(w, "check")
    <3>1. Handled(w) /\ pc'[w] = "check" /\ job'[w] = job[w]
      BY <1>1, <2>2, GotoHandles, WhatGoesOn, StepNames
    <3>2. LedgerFits(w)' /\ ~ At(w, "CLOSE_PERIOD", "commit")'
      BY <1>1, <3>1 DEF LedgerFits, At
    <3> QED
      BY <2>1, <3>1, <3>2, LedgerLooks
  <2> QED
    BY <1>1, <2>1, <2>2, LedgerAnswers
<1>4. CASE pc[w] = "check"
  <2>1. UNCHANGED ledger /\ (Answer(w) \/ (UnpostedEntries(p) = {} /\ Goto(w, "commit")))
    BY <1>1, <1>2, <1>4 DEF CloseAccountingPeriod, At
  <2>2. CASE UnpostedEntries(p) = {} /\ Goto(w, "commit")
    <3>1. Handled(w) /\ pc'[w] = "commit" /\ job'[w] = job[w]
      BY <1>1, <2>2, GotoHandles, WhatGoesOn, StepNames
    <3>2. LedgerFits(w)' /\ UnpostedEntries(job'[w].period) = {}
      BY <1>1, <1>2, <2>2, <3>1 DEF LedgerFits
    <3> QED
      BY <2>1, <3>1, <3>2, LedgerLooks
  <2> QED
    BY <1>1, <2>1, <2>2, LedgerAnswers
<1>5. CASE pc[w] = "commit"
  <2>1. closed' = closed \cup {p} /\ Answer(w) /\ UNCHANGED <<entry, late>>
    BY <1>1, <1>2, <1>5 DEF CloseAccountingPeriod, At
  <2>2. Handled(w) /\ pc'[w] = "idle"
    BY <1>1, <2>1, AnswerHandles, WhatIsAnswered
  <2>3. Written' = Written
    BY <2>1 DEF Written
  <2>4. LedgerTypeOK' /\ ReversedOnce' /\ EntriesGrow
    BY <2>1, <2>3 DEF LedgerInv, LedgerTypeOK, ReversedOnce, EntriesGrow
  <2>5. EntriesToCome'
    BY <2>1, <2>2, LiveShrinks DEF RequestsMove, LedgerInv, EntriesToCome
  <2>6. \A v \in Worker \ {w} : Rests(v)
    BY <2>2, OthersRest
  <2>7. \A k : Counted(k)' => Counted(k)
    BY <1>1, <1>2, <1>5, <2>1, <2>2, <2>6 DEF Counted, At, Rests
  <2>8. LateOrPosted'
    BY <2>1, <2>3, <2>7 DEF LedgerInv, LateOrPosted
  <2>9. LedgerFits(w)'
    BY <2>2 DEF LedgerFits
  <2> QED
    BY <2>2, <2>4, <2>5, <2>8, <2>9, LedgerStepKeeps
<1> QED
  BY <1>1, <1>3, <1>4, <1>5

LEMMA LedgerKeeps ==
    ASSUME RequestsInv, LedgerInv, LedgerRests \/ (\E w \in Worker : LedgerStep(w))
    PROVE  LedgerInv'
<1>1. CASE LedgerRests
  BY <1>1, LedgerRestsKeeps
<1>2. ASSUME NEW w \in Worker, LedgerStep(w)
      PROVE  LedgerInv'
  <2>1. CASE LedgerFails(w)
    BY <2>1, LedgerAnswers DEF LedgerFails
  <2> QED
    BY <1>2, <2>1, CreateJournalEntryKeeps, CreateSystemEntryKeeps, PostJournalEntryKeeps,
       ReverseJournalEntryKeeps, CloseAccountingPeriodKeeps DEF LedgerStep
<1> QED
  BY <1>1, <1>2

LEMMA LedgerStart == RequestsInit /\ LedgerInit => LedgerInv
<1> SUFFICES ASSUME RequestsInit, LedgerInit
             PROVE  LedgerInv
  OBVIOUS
<1>1. Written = {}
  BY DEF LedgerInit, Written
<1>2. LedgerTypeOK /\ ReversedOnce /\ LateOrPosted
  BY <1>1 DEF LedgerInit, LedgerTypeOK, ReversedOnce, LateOrPosted
<1>3. EntriesToCome
  BY LedgerRequest DEF Live, LedgerInit, EntriesToCome, EntryOp, LedgerOp
<1>4. \A w \in Worker : LedgerFits(w)
  BY DEF RequestsInit, LedgerFits
<1> QED
  BY <1>2, <1>3, <1>4 DEF LedgerInv

LEMMA LedgerHolds == BackOfficeSpec => [](RequestsInv /\ LedgerInv)
<1>1. BackOfficeInit => RequestsInv /\ LedgerInv
  BY RequestsStart, LedgerStart DEF BackOfficeInit
<1>2. RequestsInv /\ LedgerInv /\ [BackOfficeNext]_<<requests, business>> => (RequestsInv /\ LedgerInv)'
  <2>1. ASSUME RequestsInv, LedgerInv, BackOfficeNext
        PROVE  RequestsInv' /\ LedgerInv'
    BY <2>1, BackOfficeMoves, RequestsKept, LedgerKeeps
  <2>2. ASSUME RequestsInv, LedgerInv, UNCHANGED <<requests, business>>
        PROVE  RequestsInv' /\ LedgerInv'
    BY <2>2, BackOfficeStutters, RequestsKept, LedgerKeeps DEF AllRest, FinanceRests
  <2> QED
    BY <2>1, <2>2
<1> QED
  BY <1>1, <1>2, PTL DEF BackOfficeSpec

\* An entry is undone by one reversal at most and is posted itself, and a
\* closed period holds no unposted entry but late ones (BooksStaySettled of
\* GeneralLedger).
THEOREM BooksAreSettled == BackOfficeSpec => []BooksStaySettled
<1>1. LedgerInv => BooksStaySettled
  <2>1. ASSUME LedgerInv, NEW e \in Entry
        PROVE  Paired(e) /\ Settled(e)
    <3>1. Settled(e)
      BY <2>1 DEF LedgerInv, LateOrPosted, Settled, Counted, Written
    <3>2. ASSUME Reversals(e) # {}
          PROVE  Cardinality(Reversals(e)) = 1 /\ entry[e] # Unread /\ entry[e].posted
      <4>1. PICK r \in Written : entry[r].reverses = e
        BY <3>2 DEF Reversals
      <4>2. entry[r].reverses # Unread
        BY <4>1, LedgerAssumption
      <4>3. entry[e] # Unread /\ entry[e].posted /\ Reversals(e) = {r}
        BY <2>1, <4>1, <4>2 DEF LedgerInv, ReversedOnce, Reversals
      <4> QED
        BY <4>3, FS_Singleton
    <3> QED
      BY <3>1, <3>2 DEF Paired
  <2> QED
    BY <2>1 DEF BooksStaySettled
<1> QED
  BY <1>1, LedgerHolds, PTL

-----------------------------------------------------------------------------
(***************************************************************************)
(* Chargebacks and tax filings.  A chargeback has no version: the index on *)
(* its resolution decides between the handlers.  A filing has one.         *)
(***************************************************************************)
DisputeFits(w) ==
    /\ pc[w] = "commit" /\ job[w].op = "GENERATE_REPORT" => saw[w] \in Nat
    /\ pc[w] = "commit" /\ job[w].op = "FILE_REPORT" =>
          LET f == filing[job[w].period] IN
          /\ f # Unread /\ saw[w] \in FilingRow
          /\ saw[w].version <= f.version
          /\ saw[w].version = f.version => saw[w] = f
          /\ saw[w].status = "DRAFT"

DisputeInv ==
    /\ DisputeTypeOK
    /\ AnsweredOnce
    /\ \A w \in Worker : DisputeFits(w)

FilingsGrow ==
    \A p \in TaxPeriod : filing[p] # Unread =>
        filing'[p] = filing[p] \/ (filing'[p] # Unread /\ filing'[p].version > filing[p].version)

LEMMA DisputeRequest ==
    ASSUME NEW r \in Request
    PROVE  /\ r.op \in DisputeOp => r.chargeback \in Chargeback
           /\ r.op \in TaxOp => r.period \in TaxPeriod /\ r.figures \in Nat
BY DisputeAssumption

LEMMA DisputeRestsKeeps ==
    ASSUME RequestsInv, DisputeInv, DisputeRests
    PROVE  DisputeInv'
<1>1. UNCHANGED <<chargeback, resolution, reversed, filing, filed>> /\ Elsewhere(DisputeOp \cup TaxOp)
  BY DEF DisputeRests, disputes
<1>2. DisputeTypeOK' /\ AnsweredOnce'
  BY <1>1 DEF DisputeInv, DisputeTypeOK, AnsweredOnce, ChargebackAnsweredOnce, TaxFiledOnce
<1>3. ASSUME NEW v \in Worker
      PROVE  DisputeFits(v)'
  <2>1. DisputeFits(v)
    BY DEF DisputeInv
  <2>2. CASE Rests(v)
    BY <1>1, <2>1, <2>2 DEF Rests, DisputeFits
  <2>3. CASE ~ Rests(v)
    BY <1>1, <2>3 DEF Elsewhere, DisputeFits, TaxOp
  <2> QED
    BY <2>2, <2>3
<1> QED
  BY <1>2, <1>3 DEF DisputeInv

LEMMA DisputeStepKeeps ==
    ASSUME RequestsInv, DisputeInv, NEW w \in Worker, Handled(w), FilingsGrow,
           DisputeTypeOK', AnsweredOnce', DisputeFits(w)'
    PROVE  DisputeInv'
<1>1. \A v \in Worker \ {w} : Rests(v)
  BY OthersRest
<1>2. ASSUME NEW v \in Worker, v # w
      PROVE  DisputeFits(v)'
  <2>1. DisputeFits(v) /\ Rests(v)
    BY <1>1, <1>2 DEF DisputeInv
  <2>2. ASSUME pc[v] = "commit", job[v].op = "FILE_REPORT"
        PROVE  DisputeFits(v)'
    <3> DEFINE p == job[v].period
    <3>1. p \in TaxPeriod
      BY <2>2, JobIsRequest, DisputeRequest DEF TaxOp
    <3>2. /\ saw[v] \in FilingRow /\ filing[p] \in FilingRow /\ filing'[p] \in FilingRow
          /\ filing'[p] # Unread
          /\ filing'[p] = filing[p] \/ filing'[p].version > filing[p].version
      BY <2>1, <2>2, <3>1 DEF DisputeFits, DisputeInv, DisputeTypeOK, FilingsGrow
    <3>3. saw[v].version \in Nat /\ filing[p].version \in Nat /\ filing'[p].version \in Nat
      BY <3>2 DEF FilingRow
    <3> QED
      BY <2>1, <2>2, <3>2, <3>3 DEF Rests, DisputeFits
  <2> QED
    BY <2>1, <2>2 DEF Rests, DisputeFits
<1> QED
  BY <1>2 DEF DisputeInv

\* A step that leaves the rows alone: only what the handler knows counts.
LEMMA DisputeLooks ==
    ASSUME RequestsInv, DisputeInv, NEW w \in Worker, Handled(w), UNCHANGED disputes, DisputeFits(w)'
    PROVE  DisputeInv'
<1>1. UNCHANGED <<chargeback, resolution, reversed, filing, filed>>
  BY DEF disputes
<1>2. DisputeTypeOK' /\ AnsweredOnce' /\ FilingsGrow
  BY <1>1 DEF DisputeInv, DisputeTypeOK, AnsweredOnce, ChargebackAnsweredOnce, TaxFiledOnce, FilingsGrow
<1> QED
  BY <1>2, DisputeStepKeeps

LEMMA DisputeAnswers ==
    ASSUME RequestsInv, DisputeInv, NEW w \in Worker, pc[w] # "idle", Answer(w), UNCHANGED disputes
    PROVE  DisputeInv'
<1>1. Handled(w) /\ pc'[w] = "idle"
  BY AnswerHandles, WhatIsAnswered
<1>2. DisputeFits(w)'
  BY <1>1 DEF DisputeFits
<1> QED
  BY <1>1, <1>2, DisputeLooks

LEMMA ChargebackLooks ==
    ASSUME RequestsInv, DisputeInv, NEW w \in Worker, pc[w] # "idle", job[w].op \in DisputeOp,
           NEW to, ReadChargeback(w, to)
    PROVE  DisputeInv'
<1>1. UNCHANGED disputes /\ (Answer(w) \/ See(w, chargeback[job[w].chargeback], "commit"))
  BY DEF ReadChargeback, SeeIf
<1>2. ASSUME See(w, chargeback[job[w].chargeback], "commit")
      PROVE  Handled(w) /\ DisputeFits(w)'
  <2>1. Handled(w) /\ job'[w] = job[w]
    BY <1>2, SeeHandles, WhatIsSeen, StepNames
  <2> QED
    BY <2>1 DEF DisputeFits, DisputeOp
<1> QED
  BY <1>1, <1>2, DisputeAnswers, DisputeLooks

\* Whoever comes first has recorded the resolution; the others are refused.
LEMMA ChargebackIsAnswered ==
    ASSUME RequestsInv, DisputeInv, NEW w \in Worker, pc[w] # "idle", job[w].op \in DisputeOp, Answer(w),
           NEW status \in {"RESOLVED", "REJECTED"},
           chargeback' = [chargeback EXCEPT ![job[w].chargeback] = status],
           Record(job[w].chargeback, status),
           reversed' = IF status = "RESOLVED"
                       THEN [reversed EXCEPT ![job[w].chargeback] = reversed[job[w].chargeback] + 1] ELSE reversed,
           UNCHANGED <<filing, filed>>
    PROVE  DisputeInv'
<1>1. PICK c \in Chargeback : c = job[w].chargeback
  BY JobIsRequest, DisputeRequest
<1>2. resolution[c] = Unread /\ resolution' = [resolution EXCEPT ![c] = status]
  BY <1>1 DEF Record
<1>3. chargeback[c] = "PENDING" /\ reversed[c] = 0
  BY <1>2 DEF DisputeInv, AnsweredOnce, ChargebackAnsweredOnce
<1>4. /\ chargeback'[c] = status /\ resolution'[c] = status
      /\ reversed'[c] = IF status = "RESOLVED" THEN 1 ELSE 0
      /\ \A d \in Chargeback \ {c} : /\ chargeback'[d] = chargeback[d] /\ resolution'[d] = resolution[d]
                                     /\ reversed'[d] = reversed[d]
  BY <1>1, <1>2, <1>3 DEF DisputeInv, DisputeTypeOK
<1>5. chargeback' \in [Chargeback -> ChargebackStatus]
  BY <1>1 DEF DisputeInv, DisputeTypeOK, ChargebackStatus
<1>6. resolution' \in [Chargeback -> {"RESOLVED", "REJECTED", Unread}]
  BY <1>2 DEF DisputeInv, DisputeTypeOK
<1>7. reversed' \in [Chargeback -> Nat]
  BY <1>1, <1>3 DEF DisputeInv, DisputeTypeOK
<1>8. DisputeTypeOK'
  BY <1>5, <1>6, <1>7 DEF DisputeInv, DisputeTypeOK
<1>9. ChargebackAnsweredOnce'
  <2>1. status # Unread
    BY DisputeAssumption
  <2>2. ASSUME NEW d \in Chargeback
        PROVE  /\ chargeback'[d] = (IF resolution'[d] = Unread THEN "PENDING" ELSE resolution'[d])
               /\ reversed'[d] = (IF chargeback'[d] = "RESOLVED" THEN 1 ELSE 0)
    <3>1. CASE d = c
      BY <1>4, <2>1, <3>1
    <3>2. CASE d # c
      BY <1>4, <3>2 DEF DisputeInv, AnsweredOnce, ChargebackAnsweredOnce
    <3> QED
      BY <3>1, <3>2
  <2> QED
    BY <2>2 DEF ChargebackAnsweredOnce
<1>10. TaxFiledOnce' /\ FilingsGrow
  BY DEF DisputeInv, AnsweredOnce, TaxFiledOnce, FilingsGrow
<1>11. Handled(w) /\ pc'[w] = "idle"
  BY AnswerHandles, WhatIsAnswered
<1>12. DisputeFits(w)'
  BY <1>11 DEF DisputeFits
<1> QED
  BY <1>8, <1>9, <1>10, <1>11, <1>12, DisputeStepKeeps DEF AnsweredOnce

LEMMA ChargebacksKeep ==
    ASSUME RequestsInv, DisputeInv, NEW w \in Worker, ResolveChargeback(w) \/ RejectChargeback(w)
    PROVE  DisputeInv'
<1>1. pc[w] # "idle" /\ job[w].op \in DisputeOp
  BY DEF ResolveChargeback, RejectChargeback, At, DisputeOp
<1>2. CASE ReadChargeback(w, "RESOLVED") \/ ReadChargeback(w, "REJECTED")
  BY <1>1, <1>2, ChargebackLooks
<1>3. CASE At(w, "RESOLVE_CHARGEBACK", "commit")
  <2>1. /\ chargeback' = [chargeback EXCEPT ![job[w].chargeback] = "RESOLVED"]
        /\ Record(job[w].chargeback, "RESOLVED") /\ Answer(w) /\ UNCHANGED <<filing, filed>>
        /\ reversed' = [reversed EXCEPT ![job[w].chargeback] = reversed[job[w].chargeback] + 1]
    BY <1>3 DEF ResolveChargeback, RejectChargeback, At
  <2> QED
    BY <1>1, <2>1, ChargebackIsAnswered
<1>4. CASE At(w, "REJECT_CHARGEBACK", "commit")
  <2>1. /\ chargeback' = [chargeback EXCEPT ![job[w].chargeback] = "REJECTED"]
        /\ Record(job[w].chargeback, "REJECTED") /\ Answer(w) /\ UNCHANGED <<reversed, filing, filed>>
    BY <1>4 DEF ResolveChargeback, RejectChargeback, At
  <2> QED
    BY <1>1, <2>1, ChargebackIsAnswered
<1> QED
  BY <1>2, <1>3, <1>4 DEF ResolveChargeback, RejectChargeback

\* A write of a filing.
LEMMA FilingIsWritten ==
    ASSUME RequestsInv, DisputeInv, NEW w \in Worker, pc[w] # "idle", Answer(w),
           NEW p \in TaxPeriod,
           filing' \in [TaxPeriod -> FilingRow \cup {Unread}], filed' \in [TaxPeriod -> Seq(Nat)],
           \A q \in TaxPeriod \ {p} : filing'[q] = filing[q] /\ filed'[q] = filed[q],
           filing[p] # Unread => filing'[p].version > filing[p].version,
           filing'[p] # Unread,
           filed'[p] = IF filing'[p].status = "FILED" THEN <<filing'[p].figures>> ELSE <<>>,
           UNCHANGED <<chargeback, resolution, reversed>>
    PROVE  DisputeInv'
<1>1. DisputeTypeOK' /\ FilingsGrow
  BY DEF DisputeInv, DisputeTypeOK, FilingsGrow
<1>2. ChargebackAnsweredOnce' /\ TaxFiledOnce'
  BY DEF DisputeInv, AnsweredOnce, ChargebackAnsweredOnce, TaxFiledOnce
<1>3. Handled(w) /\ pc'[w] = "idle"
  BY AnswerHandles, WhatIsAnswered
<1>4. DisputeFits(w)'
  BY <1>3 DEF DisputeFits
<1> QED
  BY <1>1, <1>2, <1>3, <1>4, DisputeStepKeeps DEF AnsweredOnce

LEMMA GenerateReportKeeps ==
    ASSUME RequestsInv, DisputeInv, NEW w \in Worker, GenerateReport(w)
    PROVE  DisputeInv'
<1>1. pc[w] # "idle" /\ job[w].op = "GENERATE_REPORT"
  BY DEF GenerateReport, At
<1>2. PICK p \in TaxPeriod : p = job[w].period /\ job[w].figures \in Nat
  BY <1>1, JobIsRequest, DisputeRequest DEF TaxOp
<1>3. CASE pc[w] = "read"
  <2>1. UNCHANGED disputes /\ (Answer(w) \/ See(w, job[w].figures, "commit"))
    BY <1>3 DEF GenerateReport, At, SeeIf
  <2>2. ASSUME See(w, job[w].figures, "commit")
        PROVE  Handled(w) /\ DisputeFits(w)'
    <3>1. Handled(w) /\ job'[w] = job[w] /\ saw'[w] = job[w].figures
      BY <1>1, <2>2, SeeHandles, WhatIsSeen, StepNames
    <3> QED
      BY <1>1, <1>2, <3>1 DEF DisputeFits
  <2> QED
    BY <1>1, <2>1, <2>2, DisputeAnswers, DisputeLooks
<1>4. CASE pc[w] = "commit"
  <2> DEFINE new == [status |-> "DRAFT", version |-> 0, figures |-> saw[w]]
  <2>1. /\ filing[p] = Unread /\ filing' = [filing EXCEPT ![p] = new]
        /\ Answer(w) /\ UNCHANGED <<chargeback, resolution, reversed, filed>>
    BY <1>2, <1>4 DEF GenerateReport, At
  <2>2. saw[w] \in Nat
    BY <1>1, <1>4 DEF DisputeInv, DisputeFits
  <2>3. new \in FilingRow /\ new.status = "DRAFT"
    BY <2>2 DEF FilingRow
  <2> HIDE DEF new
  <2>4. new # Unread
    BY <2>3, DisputeAssumption
  <2>5. /\ filing' \in [TaxPeriod -> FilingRow \cup {Unread}] /\ filing'[p] = new
        /\ \A q \in TaxPeriod \ {p} : filing'[q] = filing[q]
    BY <2>1, <2>3 DEF DisputeInv, DisputeTypeOK
  <2>6. filed'[p] = <<>> /\ filed' \in [TaxPeriod -> Seq(Nat)]
    BY <2>1 DEF DisputeInv, DisputeTypeOK, AnsweredOnce, TaxFiledOnce
  <2> QED
    BY <1>1, <2>1, <2>3, <2>4, <2>5, <2>6, FilingIsWritten
<1> QED
  BY <1>3, <1>4 DEF GenerateReport, At

LEMMA FileTaxReportKeeps ==
    ASSUME RequestsInv, DisputeInv, NEW w \in Worker, FileTaxReport(w)
    PROVE  DisputeInv'
<1>1. pc[w] # "idle" /\ job[w].op = "FILE_REPORT"
  BY DEF FileTaxReport, At
<1>2. PICK p \in TaxPeriod : p = job[w].period
  BY <1>1, JobIsRequest, DisputeRequest DEF TaxOp
<1>3. CASE pc[w] = "read"
  <2> DEFINE ok == filing[p] # Unread /\ "FILED" \in TAX_FILING_TRANSITIONS[filing[p].status]
  <2>1. UNCHANGED disputes /\ (Answer(w) \/ (ok /\ See(w, filing[p], "commit")))
    BY <1>2, <1>3 DEF FileTaxReport, At, SeeIf
  <2>2. ASSUME ok, See(w, filing[p], "commit")
        PROVE  Handled(w) /\ DisputeFits(w)'
    <3>1. Handled(w) /\ job'[w] = job[w] /\ saw'[w] = filing[p]
      BY <1>1, <2>2, SeeHandles, WhatIsSeen, StepNames
    <3>2. filing[p] \in FilingRow
      BY <2>2 DEF DisputeInv, DisputeTypeOK
    <3>3. filing[p].status = "DRAFT" /\ filing[p].version \in Nat
      BY <2>2, <3>2 DEF FilingRow, TAX_FILING_TRANSITIONS
    <3>4. filing' = filing
      BY <2>1 DEF disputes
    <3> QED
      BY <1>1, <1>2, <2>2, <3>1, <3>2, <3>3, <3>4 DEF DisputeFits
  <2> QED
    BY <1>1, <2>1, <2>2, DisputeAnswers, DisputeLooks
<1>4. CASE pc[w] = "commit"
  <2>1. /\ SetFiled(w) /\ Answer(w) /\ UNCHANGED <<chargeback, resolution, reversed>>
        /\ filed' = [filed EXCEPT ![p] = Append(filed[p], saw[w].figures)]
    BY <1>2, <1>4 DEF FileTaxReport, At
  <2>2. /\ filing[p] \in FilingRow /\ filing[p] # Unread /\ saw[w] = filing[p]
        /\ filing[p].status = "DRAFT"
    BY <1>1, <1>2, <1>4, <2>1 DEF DisputeInv, DisputeTypeOK, DisputeFits, SetFiled
  <2>3. filing[p].version + 1 \in Nat /\ filing[p].version \in Nat /\ filing[p].figures \in Nat
    BY <2>2 DEF FilingRow
  <2>4. /\ \A q \in TaxPeriod : q # p => filing'[q] = filing[q]
        /\ filing'[p].status = "FILED" /\ filing'[p].version = filing[p].version + 1
        /\ filing'[p].figures = filing[p].figures /\ filing'[p] \in FilingRow
    BY <1>2, <2>1, <2>2, <2>3 DEF SetFiled, FilingRow, DisputeInv, DisputeTypeOK
  <2>5. filing' \in [TaxPeriod -> FilingRow \cup {Unread}]
    BY <2>1, <2>4 DEF SetFiled, DisputeInv, DisputeTypeOK
  <2>6. filing'[p] # Unread
    BY <2>4, DisputeAssumption
  <2>7. filed[p] = <<>> /\ filed \in [TaxPeriod -> Seq(Nat)]
    BY <2>2 DEF DisputeInv, DisputeTypeOK, AnsweredOnce, TaxFiledOnce
  <2>8. Append(filed[p], saw[w].figures) = <<filing[p].figures>>
        /\ <<filing[p].figures>> \in Seq(Nat)
    BY <2>2, <2>3, <2>7
  <2>9. /\ filed' \in [TaxPeriod -> Seq(Nat)] /\ filed'[p] = <<filing[p].figures>>
        /\ \A q \in TaxPeriod \ {p} : filed'[q] = filed[q]
    BY <2>1, <2>7, <2>8
  <2>10. /\ filed'[p] = IF filing'[p].status = "FILED" THEN <<filing'[p].figures>> ELSE <<>>
         /\ filing'[p].version > filing[p].version
    BY <2>3, <2>4, <2>9
  <2>11. \A q \in TaxPeriod \ {p} : filing'[q] = filing[q] /\ filed'[q] = filed[q]
    BY <2>4, <2>9
  <2> QED
    BY <1>1, <2>1, <2>5, <2>6, <2>9, <2>10, <2>11, FilingIsWritten
<1> QED
  BY <1>3, <1>4 DEF FileTaxReport, At

LEMMA DisputeKeeps ==
    ASSUME RequestsInv, DisputeInv, DisputeRests \/ \E w \in Worker : DisputeStep(w)
    PROVE  DisputeInv'
<1>1. CASE DisputeRests
  BY <1>1, DisputeRestsKeeps
<1>2. ASSUME NEW w \in Worker, DisputeFails(w)
      PROVE  DisputeInv'
  BY <1>2, DisputeAnswers DEF DisputeFails
<1>3. ASSUME NEW w \in Worker, DisputeStep(w)
      PROVE  DisputeInv'
  BY <1>2, <1>3, ChargebacksKeep, GenerateReportKeeps, FileTaxReportKeeps DEF DisputeStep
<1> QED
  BY <1>1, <1>3

LEMMA DisputeStart ==
    ASSUME RequestsInit, DisputeInit
    PROVE  DisputeInv
<1>1. DisputeTypeOK
  BY DEF DisputeInit, DisputeTypeOK, ChargebackStatus
<1>2. AnsweredOnce
  BY DEF DisputeInit, AnsweredOnce, ChargebackAnsweredOnce, TaxFiledOnce
<1>3. \A w \in Worker : DisputeFits(w)
  BY DEF RequestsInit, DisputeFits
<1> QED
  BY <1>1, <1>2, <1>3 DEF DisputeInv

LEMMA DisputeHolds == BackOfficeSpec => [](RequestsInv /\ DisputeInv)
<1>1. BackOfficeInit => RequestsInv /\ DisputeInv
  BY RequestsStart, DisputeStart DEF BackOfficeInit
<1>2. RequestsInv /\ DisputeInv /\ [BackOfficeNext]_<<requests, business>> => (RequestsInv /\ DisputeInv)'
  <2>1. ASSUME RequestsInv, DisputeInv, BackOfficeNext PROVE (RequestsInv /\ DisputeInv)'
    BY <2>1, BackOfficeMoves, RequestsKept, DisputeKeeps
  <2>2. ASSUME RequestsInv, DisputeInv, UNCHANGED <<requests, business>> PROVE (RequestsInv /\ DisputeInv)'
    BY <2>2, BackOfficeStutters, RequestsKept, DisputeKeeps DEF AllRest, FinanceRests
  <2> QED
    BY <2>1, <2>2
<1> QED
  BY <1>1, <1>2, PTL DEF BackOfficeSpec

\* Whoever answers the bank or the tax office at the same time, a chargeback
\* has one answer, the money is reversed only and once if it was resolved,
\* and a period is filed once, with the figures of its report.
THEOREM OneAnswerEach == BackOfficeSpec => []AnsweredOnce
<1>1. DisputeInv => AnsweredOnce
  BY DEF DisputeInv
<1> QED
  BY <1>1, DisputeHolds, PTL

-----------------------------------------------------------------------------
(***************************************************************************)
(* Delivery trips.  A handler that will write a trip at its version holds  *)
(* a copy; while the version is the one it read, the trip is as it was, or *)
(* has FAILED, which leaves the version alone.  A trip is spent when goods *)
(* of its stops have left the stock: it has a version then that no handler *)
(* has read who might complete it again.                                   *)
(***************************************************************************)
Spent(t) == \E s \in Stop : stop[s] # Unread /\ stop[s].trip = t /\ committed[s] # 0

PlanningOp == {"ASSIGN_PROVIDER", "ADD_STOP", "ADD_PACK", "START_LOADING", "START_TRIP"}
CompletingOp == {"COMPLETE_TRIP", "COMPLETE_STOP"}
CopyingOp == PlanningOp \cup CompletingOp \cup {"RTW"}

\* w holds a copy of its trip and will write it at the copy's version.
HoldsTrip(w) ==
    \/ pc[w] \in {"write", "commit"} /\ job[w].op \in PlanningOp
    \/ pc[w] = "commit" /\ job[w].op \in CompletingOp \cup {"RTW"}

\* What the copy shows, by operation.
TripAllows(op, status) ==
    /\ op \in PlanningOp => status \in {"PLANNED", "LOADING"}
    /\ op = "START_LOADING" => status = "PLANNED"
    /\ op \in CompletingOp => status = "IN_TRANSIT"
    /\ op = "RTW" => status = "FAILED"

TripFits(w) ==
    LET t == job[w].trip
        s == job[w].stop IN
    /\ HoldsTrip(w) =>
          /\ trip[t] # Unread
          /\ saw[w].row \in TripRow /\ TripAllows(job[w].op, saw[w].row.status)
          /\ saw[w].row.version <= trip[t].version
          /\ saw[w].row.version = trip[t].version =>
                /\ trip[t].status \in {saw[w].row.status, "FAILED"}
                /\ job[w].op # "RTW" => ~ Spent(t)
    /\ pc[w] = "commit" /\ job[w].op \in CompletingOp =>
          \A u \in saw[w].delivered : u \in Stop /\ stop[u] # Unread /\ stop[u].trip = t
    /\ pc[w] = "commit" /\ job[w].op = "FAIL_TRIP" => trip[t] # Unread
    /\ pc[w] = "commit" /\ job[w].op \in {"ARRIVE", "RTW"} => stop[s] # Unread
    /\ pc[w] = "commit" /\ job[w].op = "RTW" => stop[s].trip = t
    /\ pc[w] \in {"write", "next", "then"} /\ job[w].op = "COMPLETE_STOP" => stop[s] # Unread

\* The creation q has made its row; until then there is none.
Made(q) ==
    \E w \in Worker : job[w] = q /\ \/ q.op = "CREATE_TRIP" /\ pc[w] = "next"
                                    \/ q.op = "ADD_STOP" /\ pc[w] = "commit"
ToCome ==
    \A q \in Live : ~ Made(q) =>
        /\ q.op = "CREATE_TRIP" => trip[q.trip] = Unread
        /\ q.op = "ADD_STOP" => stop[q.stop] = Unread

GoodsAgree ==
    /\ \A s \in Stop : /\ committed[s] \in {0, 1}
                       /\ committed[s] # 0 => stop[s] # Unread
                       /\ fetched[s] = (IF s \in rtw THEN 1 ELSE 0)
    /\ \A t \in Trip : /\ Spent(t) => trip[t] # Unread /\ trip[t].status \in {"COMPLETED", "FAILED", "RETURNED"}
                       /\ trip[t] # Unread /\ trip[t].status = "RETURNED" => StopsOn(t) \cap rtw # {}

TripInv ==
    /\ TripTypeOK
    /\ ToCome
    /\ GoodsAgree
    /\ \A w \in Worker : TripFits(w)

\* No late planner pulls a trip back into the yard once it has left.
TripsGoOn ==
    \A t \in Trip : trip[t] # Unread /\ trip[t].status \in {"IN_TRANSIT", "COMPLETED", "RETURNED"}
                    => trip'[t].status \notin {"PLANNED", "LOADING"}

\* What a step may do to rows that others hold copies of.
TripsGrow ==
    /\ \A t \in Trip : trip[t] # Unread =>
          /\ trip'[t] # Unread
          /\ \/ trip'[t].version > trip[t].version
             \/ /\ trip'[t].version = trip[t].version
                /\ trip'[t].status \in {trip[t].status, "FAILED"}
                /\ Spent(t)' => Spent(t)
    /\ \A s \in Stop : stop[s] # Unread => stop'[s] # Unread /\ stop'[s].trip = stop[s].trip

LEMMA TripRequest ==
    ASSUME NEW r \in Request, r.op \in TripOp
    PROVE  r.trip \in Trip /\ r.stop \in Stop /\ r.pack \in Pack /\ r.crew \in Crew \cup {NoCrew}
BY TripAssumption

LEMMA TripRestsKeeps ==
    ASSUME RequestsInv, TripInv, TripRests
    PROVE  TripInv' /\ TripsGoOn
<1>1. UNCHANGED <<trip, stop, packOn, crewOn, delivery, committed, rtw, fetched>> /\ Elsewhere(TripOp)
  BY DEF TripRests, trips
<1>2. TripTypeOK' /\ GoodsAgree' /\ TripsGoOn
  BY <1>1 DEF TripInv, TripTypeOK, GoodsAgree, Spent, StopsOn, TripsGoOn
<1>3. \A t : Spent(t)' <=> Spent(t)
  BY <1>1 DEF Spent
<1>4. ASSUME NEW v \in Worker
      PROVE  TripFits(v)'
  <2>1. TripFits(v)
    BY DEF TripInv
  <2>2. CASE Rests(v)
    BY <1>1, <1>3, <2>1, <2>2 DEF Rests, TripFits, HoldsTrip
  <2>3. CASE ~ Rests(v)
    <3>1. pc'[v] \in {"idle", "read"} \/ job'[v].op \notin TripOp
      BY <1>1, <2>3 DEF Elsewhere
    <3> QED
      BY <3>1 DEF TripFits, HoldsTrip, PlanningOp, CompletingOp, TripOp, PlanOp, RoadOp
  <2> QED
    BY <2>2, <2>3
<1>5. ToCome'
  <2>1. ASSUME NEW q \in Live', ~ Made(q)'
        PROVE  /\ q.op = "CREATE_TRIP" => trip'[q.trip] = Unread
               /\ q.op = "ADD_STOP" => stop'[q.stop] = Unread
    <3>1. q \in Live
      BY <1>1 DEF Elsewhere
    <3>2. ASSUME Made(q), q.op \in TripOp
          PROVE  FALSE
      <4>1. PICK v \in Worker : job[v] = q /\ \/ q.op = "CREATE_TRIP" /\ pc[v] = "next"
                                              \/ q.op = "ADD_STOP" /\ pc[v] = "commit"
        BY <3>2 DEF Made
      <4>2. job'[v] = job[v]
        BY <1>1, <2>1, <4>1 DEF Elsewhere
      <4>3. job'[v] # NoRequest /\ (pc[v] # "idle" => job'[v] \in Request)
        BY <2>1, <4>1, <4>2, RequestsAssumption DEF Live
      <4>4. CASE Rests(v)
        BY <2>1, <4>1, <4>4 DEF Rests, Made
      <4>5. CASE ~ Rests(v)
        BY <1>1, <3>2, <4>1, <4>3, <4>5 DEF Elsewhere
      <4> QED
        BY <4>4, <4>5
    <3> QED
      BY <1>1, <3>1, <3>2 DEF TripInv, ToCome, TripOp, PlanOp
  <2> QED
    BY <2>1 DEF ToCome
<1> QED
  BY <1>2, <1>4, <1>5 DEF TripInv

\* The creations that others make, or that w has still to make, keep their
\* place.
LEMMA OthersToCome ==
    ASSUME RequestsInv, TripInv, NEW w \in Worker, Handled(w),
           \A q \in Live \ {job[w]} :
              /\ q.op = "CREATE_TRIP" /\ trip[q.trip] = Unread => trip'[q.trip] = Unread
              /\ q.op = "ADD_STOP" /\ stop[q.stop] = Unread => stop'[q.stop] = Unread,
           job[w] \in Live' /\ ~ (\E v \in Worker : job'[v] = job[w] /\
                                    (\/ job[w].op = "CREATE_TRIP" /\ pc'[v] = "next"
                                     \/ job[w].op = "ADD_STOP" /\ pc'[v] = "commit")) =>
              /\ job[w].op = "CREATE_TRIP" => trip'[job[w].trip] = Unread
              /\ job[w].op = "ADD_STOP" => stop'[job[w].stop] = Unread
    PROVE  ToCome'
<1>1. ASSUME NEW q \in Live', ~ Made(q)', q # job[w]
      PROVE  /\ q.op = "CREATE_TRIP" => trip'[q.trip] = Unread
             /\ q.op = "ADD_STOP" => stop'[q.stop] = Unread
  <2>1. q \in Live
    BY LiveShrinks DEF RequestsMove
  <2>2. ~ Made(q)
    <3>1. SUFFICES ASSUME NEW v \in Worker, job[v] = q, \/ q.op = "CREATE_TRIP" /\ pc[v] = "next"
                                                        \/ q.op = "ADD_STOP" /\ pc[v] = "commit"
                   PROVE  FALSE
      BY DEF Made
    <3>2. Rests(v)
      BY <1>1, <3>1, OthersRest
    <3> QED
      BY <1>1, <3>1, <3>2 DEF Rests, Made
  <2> QED
    BY <1>1, <2>1, <2>2 DEF TripInv, ToCome
<1>2. ASSUME job[w] \in Live', ~ \E v \in Worker : job'[v] = job[w] /\
                                    (\/ job[w].op = "CREATE_TRIP" /\ pc'[v] = "next"
                                     \/ job[w].op = "ADD_STOP" /\ pc'[v] = "commit")
      PROVE  /\ job[w].op = "CREATE_TRIP" => trip'[job[w].trip] = Unread
             /\ job[w].op = "ADD_STOP" => stop'[job[w].stop] = Unread
  BY <1>2
<1>3. \A q \in Live' : q = job[w] /\ ~ Made(q)' =>
         /\ q.op = "CREATE_TRIP" => trip'[q.trip] = Unread
         /\ q.op = "ADD_STOP" => stop'[q.stop] = Unread
  BY <1>2 DEF Made
<1> QED
  BY <1>1, <1>3 DEF ToCome

LEMMA TripStepKeeps ==
    ASSUME RequestsInv, TripInv, NEW w \in Worker, Handled(w), TripsGrow,
           TripTypeOK', ToCome', GoodsAgree', TripFits(w)'
    PROVE  TripInv'
<1>1. \A v \in Worker \ {w} : Rests(v)
  BY OthersRest
<1>2. ASSUME NEW v \in Worker, v # w
      PROVE  TripFits(v)'
  <2>1. TripFits(v) /\ pc'[v] = pc[v] /\ job'[v] = job[v] /\ saw'[v] = saw[v]
    BY <1>1, <1>2 DEF TripInv, Rests
  <2>2. ASSUME pc[v] # "idle", job[v].op \in TripOp
        PROVE  job[v].trip \in Trip /\ job[v].stop \in Stop
    BY <2>2, JobIsRequest, TripRequest
  <2>3. ASSUME HoldsTrip(v)
        PROVE  LET t == job[v].trip IN
               /\ trip'[t] # Unread
               /\ saw[v].row \in TripRow /\ TripAllows(job[v].op, saw[v].row.status)
               /\ saw[v].row.version <= trip'[t].version
               /\ saw[v].row.version = trip'[t].version =>
                     /\ trip'[t].status \in {saw[v].row.status, "FAILED"}
                     /\ job[v].op # "RTW" => ~ Spent(t)'
    <3>1. PICK t \in Trip : t = job[v].trip
      BY <2>2, <2>3 DEF HoldsTrip, PlanningOp, CompletingOp, TripOp, PlanOp, RoadOp
    <3>2. /\ trip[t] # Unread /\ saw[v].row \in TripRow /\ TripAllows(job[v].op, saw[v].row.status)
          /\ saw[v].row.version <= trip[t].version
          /\ saw[v].row.version = trip[t].version =>
                /\ trip[t].status \in {saw[v].row.status, "FAILED"}
                /\ job[v].op # "RTW" => ~ Spent(t)
      BY <2>1, <2>3, <3>1 DEF TripFits
    <3>3. /\ trip'[t] # Unread
          /\ \/ trip'[t].version > trip[t].version
             \/ /\ trip'[t].version = trip[t].version
                /\ trip'[t].status \in {trip[t].status, "FAILED"}
                /\ Spent(t)' => Spent(t)
      BY <3>1, <3>2 DEF TripsGrow
    <3>4. trip[t] \in TripRow /\ trip'[t] \in TripRow
      BY <3>1, <3>2, <3>3 DEF TripInv, TripTypeOK
    <3>5. saw[v].row.version \in Nat /\ trip[t].version \in Nat /\ trip'[t].version \in Nat
      BY <3>2, <3>4 DEF TripRow
    <3>6. saw[v].row.version = trip'[t].version /\ job[v].op # "RTW" => ~ Spent(t)'
      BY <3>2, <3>3, <3>5
    <3> QED
      BY <2>1, <3>1, <3>2, <3>3, <3>5, <3>6 DEF Spent
  <2>4. ASSUME pc[v] # "idle", job[v].op \in TripOp, stop[job[v].stop] # Unread
        PROVE  stop'[job[v].stop] # Unread /\ stop'[job[v].stop].trip = stop[job[v].stop].trip
    BY <2>2, <2>4 DEF TripsGrow
  <2>5. ASSUME pc[v] = "commit", job[v].op \in CompletingOp, NEW u \in saw[v].delivered
        PROVE  u \in Stop /\ stop'[u] # Unread /\ stop'[u].trip = job[v].trip
    BY <2>1, <2>5 DEF TripFits, TripsGrow
  <2>6. pc[v] = "commit" /\ job[v].op = "FAIL_TRIP" => trip'[job[v].trip] # Unread
    BY <2>1, <2>2 DEF TripFits, TripsGrow, TripOp, RoadOp
  <2>7. HoldsTrip(v)' <=> HoldsTrip(v)
    BY <2>1 DEF HoldsTrip
  <2>8. /\ pc[v] = "commit" /\ job[v].op \in {"ARRIVE", "RTW"} => stop'[job[v].stop] # Unread
        /\ pc[v] = "commit" /\ job[v].op = "RTW" => stop'[job[v].stop].trip = job[v].trip
        /\ pc[v] \in {"write", "next", "then"} /\ job[v].op = "COMPLETE_STOP" => stop'[job[v].stop] # Unread
    BY <2>1, <2>4 DEF TripFits, TripOp, RoadOp
  <2> QED
    BY <2>1, <2>3, <2>5, <2>6, <2>7, <2>8 DEF TripFits, Spent
<1> QED
  BY <1>2 DEF TripInv

\* A step that leaves trips, stops and goods alone: only what the handler
\* knows counts.
LEMMA TripRowsStay ==
    ASSUME RequestsInv, TripInv, NEW w \in Worker, Handled(w), UNCHANGED <<trip, stop, goods>>, TripTypeOK',
           TripFits(w)', Made(job[w]) => Answer(w)
    PROVE  TripInv' /\ TripsGoOn
<1>1. UNCHANGED <<trip, stop, committed, rtw, fetched>>
  BY DEF goods
<1>2. GoodsAgree' /\ TripsGoOn
  BY <1>1 DEF TripInv, GoodsAgree, Spent, StopsOn, TripsGoOn
<1>3. TripsGrow
  <2>1. \A t : Spent(t)' => Spent(t)
    BY <1>1 DEF Spent
  <2> QED
    BY <1>1, <2>1 DEF TripsGrow
<1>4. job[w] \in Live' => ~ Made(job[w]) /\ job[w] \in Live
  BY LiveShrinks, AnsweredIsGone DEF RequestsMove, Handled
<1>5. ToCome'
  BY <1>1, <1>4, OthersToCome DEF TripInv, ToCome
<1> QED
  BY <1>2, <1>3, <1>5, TripStepKeeps

LEMMA TripLooks ==
    ASSUME RequestsInv, TripInv, NEW w \in Worker, Handled(w), UNCHANGED trips, TripFits(w)',
           Made(job[w]) => Answer(w)
    PROVE  TripInv' /\ TripsGoOn
<1>1. UNCHANGED <<trip, stop, packOn, crewOn, delivery, committed, rtw, fetched>>
  BY DEF trips
<1>2. TripTypeOK'
  BY <1>1 DEF TripInv, TripTypeOK
<1> QED
  BY <1>1, <1>2, TripRowsStay DEF goods

LEMMA TripAnswers ==
    ASSUME RequestsInv, TripInv, NEW w \in Worker, pc[w] # "idle", Answer(w), UNCHANGED trips
    PROVE  TripInv' /\ TripsGoOn
<1>1. Handled(w) /\ pc'[w] = "idle"
  BY AnswerHandles, WhatIsAnswered
<1>2. TripFits(w)'
  BY <1>1 DEF TripFits, HoldsTrip
<1> QED
  BY <1>1, <1>2, TripLooks

\* An answer after a write of an existing trip: copies are out of date, or
\* the trip has FAILED at the same version.
LEMMA TripIsWritten ==
    ASSUME RequestsInv, TripInv, NEW w \in Worker, pc[w] # "idle", Answer(w),
           NEW t \in Trip, trip[t] # Unread,
           TripTypeOK', GoodsAgree', UNCHANGED stop,
           \A k \in Trip \ {t} : trip'[k] = trip[k] /\ (Spent(k)' => Spent(k)),
           trip'[t] # Unread,
           \/ trip'[t].version > trip[t].version
           \/ trip'[t].version = trip[t].version /\ trip'[t].status = "FAILED" /\ (Spent(t)' => Spent(t))
    PROVE  TripInv'
<1>1. Handled(w) /\ pc'[w] = "idle" /\ job[w] \notin Live'
  BY AnswerHandles, WhatIsAnswered, AnsweredIsGone
<1>2. TripFits(w)'
  BY <1>1 DEF TripFits, HoldsTrip
<1>3. TripsGrow
  <2>1. ASSUME NEW k \in Trip, trip[k] # Unread
        PROVE  /\ trip'[k] # Unread
               /\ \/ trip'[k].version > trip[k].version
                  \/ /\ trip'[k].version = trip[k].version
                     /\ trip'[k].status \in {trip[k].status, "FAILED"}
                     /\ Spent(k)' => Spent(k)
    <3>1. CASE k = t
      BY <3>1
    <3>2. CASE k # t
      BY <2>1, <3>2
    <3> QED
      BY <3>1, <3>2
  <2> QED
    BY <2>1 DEF TripsGrow
<1>4. \A q \in Live \ {job[w]} : q.op = "CREATE_TRIP" /\ trip[q.trip] = Unread => trip'[q.trip] = Unread
  <2>1. ASSUME NEW q \in Live, q.op = "CREATE_TRIP", trip[q.trip] = Unread
        PROVE  trip'[q.trip] = Unread
    <3>1. q.trip \in Trip
      BY <2>1, TripRequest DEF Live, TripOp, PlanOp
    <3> QED
      BY <2>1, <3>1
  <2> QED
    BY <2>1
<1>5. ToCome'
  BY <1>1, <1>4, OthersToCome
<1> QED
  BY <1>1, <1>2, <1>3, <1>5, TripStepKeeps

\* A write of the trip at the version read: the trip is what the copy shows,
\* or FAILED, and it is not spent.
LEMMA TripIsSaved ==
    ASSUME RequestsInv, TripInv, NEW w \in Worker, HoldsTrip(w), NEW t \in Trip, t = job[w].trip,
           NEW status \in TripStatus, SaveTrip(w, status)
    PROVE  /\ trip[t] # Unread /\ trip[t] \in TripRow
           /\ saw[w].row \in TripRow /\ TripAllows(job[w].op, saw[w].row.status)
           /\ trip[t].status \in {saw[w].row.status, "FAILED"}
           /\ job[w].op # "RTW" => ~ Spent(t)
           /\ trip' \in [Trip -> TripRow \cup {Unread}]
           /\ \A k \in Trip \ {t} : trip'[k] = trip[k]
           /\ trip'[t] # Unread /\ trip'[t].status = status /\ trip'[t].version > trip[t].version
<1>1. /\ trip[t] # Unread /\ saw[w].row \in TripRow /\ TripAllows(job[w].op, saw[w].row.status)
      /\ trip[t].status \in {saw[w].row.status, "FAILED"}
      /\ job[w].op # "RTW" => ~ Spent(t)
  BY DEF TripInv, TripFits, SaveTrip
<1>2. trip[t] \in TripRow
  BY <1>1 DEF TripInv, TripTypeOK
<1>3. trip[t].version + 1 \in Nat /\ trip[t].version \in Nat
  BY <1>2 DEF TripRow
<1>4. /\ \A k \in Trip : k # t => trip'[k] = trip[k]
      /\ trip'[t].status = status /\ trip'[t].version = trip[t].version + 1
      /\ trip'[t] \in TripRow
  BY <1>2, <1>3 DEF SaveTrip, TripRow, TripInv, TripTypeOK
<1>5. trip' \in [Trip -> TripRow \cup {Unread}]
  BY <1>4 DEF SaveTrip, TripInv, TripTypeOK
<1>6. trip'[t] # Unread
  BY <1>4, TripAssumption
<1> QED
  BY <1>1, <1>2, <1>3, <1>4, <1>5, <1>6

LEMMA PlannerSaves ==
    ASSUME RequestsInv, TripInv, NEW w \in Worker, pc[w] = "commit", job[w].op \in PlanningOp, Answer(w),
           NEW status, SaveTrip(w, status), status \in {trip[job[w].trip].status, "LOADING", "IN_TRANSIT"},
           UNCHANGED <<stop, packOn, crewOn, delivery, goods>>
    PROVE  TripInv' /\ TripsGoOn
<1>1. PICK t \in Trip : t = job[w].trip
  BY JobIsRequest, TripRequest DEF PlanningOp, TripOp, PlanOp
<1>2. HoldsTrip(w)
  BY DEF HoldsTrip
<1>3. trip[t] # Unread /\ trip[t] \in TripRow
  BY <1>1, <1>2 DEF TripInv, TripFits, TripTypeOK
<1>4. status \in TripStatus
  BY <1>1, <1>3 DEF TripRow, TripStatus
<1>5. /\ TripAllows(job[w].op, saw[w].row.status) /\ trip[t].status \in {saw[w].row.status, "FAILED"}
      /\ ~ Spent(t)
      /\ trip' \in [Trip -> TripRow \cup {Unread}]
      /\ \A k \in Trip \ {t} : trip'[k] = trip[k]
      /\ trip'[t] # Unread /\ trip'[t].status = status /\ trip'[t].version > trip[t].version
  BY <1>1, <1>2, <1>4, TripIsSaved DEF PlanningOp
<1>6. trip[t].status \in {"PLANNED", "LOADING", "FAILED"}
  BY <1>5 DEF TripAllows
<1>7. UNCHANGED <<stop, packOn, crewOn, delivery, committed, rtw, fetched>>
  BY DEF goods
<1>8. TripTypeOK'
  BY <1>5, <1>7 DEF TripInv, TripTypeOK
<1>9. \A k \in Trip : (Spent(k)' <=> Spent(k)) /\ StopsOn(k)' = StopsOn(k)
  BY <1>7 DEF Spent, StopsOn
<1>10. GoodsAgree'
  BY <1>1, <1>5, <1>6, <1>7, <1>9 DEF TripInv, GoodsAgree
<1>11. TripsGoOn
  BY <1>5, <1>6 DEF TripsGoOn
<1> QED
  BY <1>3, <1>5, <1>7, <1>8, <1>9, <1>10, <1>11, TripIsWritten

LEMMA NotMade ==
    ASSUME RequestsInv, NEW w \in Worker, pc[w] # "idle",
           ~ (job[w].op = "CREATE_TRIP" /\ pc[w] = "next"), ~ (job[w].op = "ADD_STOP" /\ pc[w] = "commit")
    PROVE  ~ Made(job[w])
<1>1. \A v \in Worker : pc[v] # "idle" /\ job[v] = job[w] => v = w
  BY DEF RequestsInv
<1> QED
  BY <1>1 DEF Made

\* A handler that reads its trip to write it, or to be failed.
LEMMA TripIsRead ==
    ASSUME RequestsInv, TripInv, NEW w \in Worker, pc[w] # "idle", pc[w] # "commit",
           job[w].op \in CopyingOp \cup {"FAIL_TRIP"}, UNCHANGED trips,
           NEW t \in Trip, t = job[w].trip, NEW p \in {"write", "commit"}, See(w, Read(t), p),
           job[w].op \notin PlanningOp => p = "commit",
           trip[t] # Unread, TripAllows(job[w].op, trip[t].status),
           job[w].op = "RTW" => job[w].stop \in StopsOn(t)
    PROVE  TripInv' /\ TripsGoOn
<1>1. p \in Step \ {"idle", "read"}
  BY StepNames
<1>2. Handled(w) /\ pc'[w] = p /\ job'[w] = job[w] /\ saw'[w] = Read(t)
  BY <1>1, SeeHandles, WhatIsSeen
<1>3. /\ Read(t).row = trip[t] /\ Read(t).stops = StopsOn(t)
      /\ Read(t).delivered \subseteq StopsOn(t)
  BY DEF Read
<1>4. trip[t] \in TripRow /\ trip[t].version \in Nat
  BY DEF TripInv, TripTypeOK, TripRow
<1>5. job[w].op # "RTW" /\ job[w].op # "FAIL_TRIP" => ~ Spent(t)
  BY DEF TripInv, GoodsAgree, TripAllows, CopyingOp
<1>6. UNCHANGED <<trip, stop, committed>>
  BY DEF trips
<1>7. HoldsTrip(w)' =>
         /\ trip'[t] # Unread
         /\ saw'[w].row \in TripRow /\ TripAllows(job'[w].op, saw'[w].row.status)
         /\ saw'[w].row.version <= trip'[t].version
         /\ saw'[w].row.version = trip'[t].version =>
               /\ trip'[t].status \in {saw'[w].row.status, "FAILED"}
               /\ job'[w].op # "RTW" => ~ Spent(t)'
  <2>1. Spent(t)' <=> Spent(t)
    BY <1>6 DEF Spent
  <2>2. HoldsTrip(w)' => job[w].op # "FAIL_TRIP"
    BY <1>2 DEF HoldsTrip, PlanningOp, CompletingOp
  <2> QED
    BY <1>2, <1>3, <1>4, <1>5, <1>6, <2>1, <2>2
<1>8. \A u \in saw'[w].delivered : u \in Stop /\ stop'[u] # Unread /\ stop'[u].trip = t
  BY <1>2, <1>3, <1>6 DEF StopsOn
<1>9. /\ job[w].op = "RTW" => stop[job[w].stop] # Unread /\ stop[job[w].stop].trip = t
      /\ job[w].op # "ARRIVE" /\ (job[w].op = "COMPLETE_STOP" => p = "commit")
  BY DEF StopsOn, CopyingOp, PlanningOp, CompletingOp
<1>10. TripFits(w)'
  BY <1>2, <1>6, <1>7, <1>8, <1>9 DEF TripFits, Spent
<1>11. ~ Made(job[w])
  BY NotMade DEF CopyingOp, PlanningOp, CompletingOp
<1> QED
  BY <1>2, <1>10, <1>11, TripLooks

\* What the planners and completers ask for before they read.
LEMMA TripMay ==
    ASSUME TripInv, NEW t \in Trip, trip[t] # Unread
    PROVE  /\ May(t, "LOADING") => trip[t].status = "PLANNED"
           /\ May(t, "IN_TRANSIT") => trip[t].status \in {"PLANNED", "LOADING"}
           /\ May(t, "COMPLETED") => trip[t].status = "IN_TRANSIT"
           /\ May(t, "RETURNED") => trip[t].status = "FAILED"
<1>1. trip[t].status \in TripStatus
  BY DEF TripInv, TripTypeOK, TripRow
<1> QED
  BY <1>1 DEF May, DELIVERY_TRIP_TRANSITIONS, TripStatus

LEMMA ReadTripKeeps ==
    ASSUME RequestsInv, TripInv, NEW w \in Worker, pc[w] # "idle", pc[w] # "commit",
           NEW ok, ReadTrip(w, ok),
           \/ job[w].op = "ASSIGN_PROVIDER" /\ (ok => trip[job[w].trip].status = "PLANNED")
           \/ job[w].op = "START_LOADING" /\ (ok => May(job[w].trip, "LOADING"))
           \/ job[w].op = "FAIL_TRIP"
    PROVE  TripInv' /\ TripsGoOn
<1>1. PICK t \in Trip : t = job[w].trip
  BY JobIsRequest, TripRequest DEF TripOp, PlanOp, RoadOp
<1>2. UNCHANGED trips /\ (Answer(w) \/ (trip[t] # Unread /\ ok /\ See(w, Read(t), "commit")))
  BY <1>1 DEF ReadTrip, SeeIf
<1>3. trip[t] # Unread /\ ok => TripAllows(job[w].op, trip[t].status)
  BY <1>1, TripMay DEF TripAllows, PlanningOp, CompletingOp
<1>4. job[w].op \in CopyingOp \cup {"FAIL_TRIP"} /\ job[w].op # "RTW"
  BY DEF CopyingOp, PlanningOp
<1>5. CASE Answer(w)
  BY <1>2, <1>5, TripAnswers
<1>6. CASE ~ Answer(w)
  BY <1>1, <1>2, <1>3, <1>4, <1>6, TripIsRead
<1> QED
  BY <1>5, <1>6

LEMMA CreateTripKeeps ==
    ASSUME RequestsInv, TripInv, NEW w \in Worker, CreateTrip(w)
    PROVE  TripInv' /\ TripsGoOn
<1>1. job[w].op = "CREATE_TRIP" /\ pc[w] \in {"read", "write", "next"} /\ pc[w] # "idle"
  BY DEF CreateTrip, At
<1>2. job[w] \in Request /\ job[w] \in Live
  BY <1>1, JobIsRequest DEF Live
<1>3. PICK t \in Trip : t = job[w].trip
  BY <1>1, <1>2, TripRequest DEF TripOp, PlanOp
<1>4. PICK c \in Crew \cup {NoCrew} : c = job[w].crew
  BY <1>1, <1>2, TripRequest DEF TripOp, PlanOp
<1>5. CASE pc[w] = "read"
  <2>1. UNCHANGED trips /\ (Goto(w, "write") \/ Answer(w))
    BY <1>1, <1>5 DEF CreateTrip, At
  <2>2. CASE Goto(w, "write")
    <3>1. Handled(w) /\ pc'[w] = "write" /\ job'[w] = job[w]
      BY <1>1, <2>2, GotoHandles, WhatGoesOn, StepNames
    <3>2. TripFits(w)'
      BY <1>1, <3>1 DEF TripFits, HoldsTrip, PlanningOp, CompletingOp
    <3>3. ~ Made(job[w])
      BY <1>1, <1>5, NotMade
    <3> QED
      BY <2>1, <3>1, <3>2, <3>3, TripLooks
  <2> QED
    BY <1>1, <2>1, <2>2, TripAnswers
<1>6. CASE pc[w] = "write"
  <2> DEFINE new == [status |-> "PLANNED", version |-> 0, crew |-> c]
  <2>1. /\ trip' = [trip EXCEPT ![t] = new] /\ (Answer(w) \/ Goto(w, "next"))
        /\ UNCHANGED <<stop, packOn, crewOn, delivery, committed, rtw, fetched>>
    BY <1>1, <1>3, <1>4, <1>6 DEF CreateTrip, At, goods
  <2>2. new \in TripRow
    BY DEF TripRow, TripStatus
  <2> HIDE DEF new
  <2>3. new # Unread
    BY <2>2, TripAssumption
  <2>4. Handled(w)
    BY <1>1, <2>1, GotoHandles, AnswerHandles, StepNames
  <2>5. trip[t] = Unread
    <3>1. ~ Made(job[w])
      BY <1>1, <1>6, NotMade
    <3> QED
      BY <1>1, <1>2, <1>3, <3>1 DEF TripInv, ToCome
  <2>6. trip'[t] = new /\ (\A k \in Trip : k # t => trip'[k] = trip[k])
    BY <2>1 DEF TripInv, TripTypeOK
  <2>7. TripTypeOK'
    BY <2>1, <2>2 DEF TripInv, TripTypeOK
  <2>8. \A k \in Trip : (Spent(k)' <=> Spent(k)) /\ StopsOn(k)' = StopsOn(k)
    BY <2>1 DEF Spent, StopsOn
  <2>9. TripsGrow /\ TripsGoOn
    <3>1. \A k \in Trip : trip[k] # Unread => trip'[k] = trip[k]
      BY <2>5, <2>6
    <3>2. ASSUME NEW k \in Trip, trip[k] # Unread
          PROVE  trip[k].version \in Nat
      BY <3>2 DEF TripInv, TripTypeOK, TripRow
    <3> QED
      BY <2>1, <2>8, <3>1, <3>2 DEF TripsGrow, TripsGoOn
  <2>10. GoodsAgree'
    <3>1. ASSUME NEW k \in Trip
          PROVE  /\ Spent(k)' => trip'[k] # Unread /\ trip'[k].status \in {"COMPLETED", "FAILED", "RETURNED"}
                 /\ trip'[k] # Unread /\ trip'[k].status = "RETURNED" => (StopsOn(k) \cap rtw # {})'
      <4>1. CASE k = t
        <5>1. ~ Spent(k)' /\ trip'[k].status = "PLANNED"
          BY <2>5, <2>6, <2>8, <4>1 DEF TripInv, GoodsAgree, new
        <5> QED
          BY <5>1
      <4>2. CASE k # t
        BY <2>1, <2>6, <2>8, <4>2 DEF TripInv, GoodsAgree
      <4> QED
        BY <4>1, <4>2
    <3> QED
      BY <2>1, <3>1 DEF TripInv, GoodsAgree
  <2>11. TripFits(w)'
    <3>1. CASE Answer(w)
      BY <3>1, WhatIsAnswered DEF TripFits, HoldsTrip
    <3>2. CASE Goto(w, "next")
      <4>1. pc'[w] = "next" /\ job'[w] = job[w]
        BY <1>1, <3>2, WhatGoesOn, StepNames
      <4> QED
        BY <1>1, <4>1 DEF TripFits, HoldsTrip
    <3> QED
      BY <2>1, <3>1, <3>2
  <2>12. ToCome'
    <3>1. ASSUME NEW q \in Live \ {job[w]}, q.op = "CREATE_TRIP", trip[q.trip] = Unread
          PROVE  trip'[q.trip] = Unread
      <4>1. q.trip # t /\ q.trip \in Trip
        BY <1>1, <1>2, <1>3, <3>1, TripAssumption, TripRequest DEF Live, TripOp, PlanOp
      <4> QED
        BY <2>6, <3>1, <4>1
    <3>2. CASE Answer(w)
      BY <1>1, <2>1, <2>4, <3>1, <3>2, AnsweredIsGone, OthersToCome
    <3>3. CASE Goto(w, "next")
      <4>1. pc'[w] = "next" /\ job'[w] = job[w]
        BY <1>1, <3>3, WhatGoesOn, StepNames
      <4> QED
        BY <1>1, <2>1, <2>4, <3>1, <4>1, OthersToCome
    <3> QED
      BY <2>1, <3>2, <3>3
  <2> QED
    BY <2>4, <2>7, <2>9, <2>10, <2>11, <2>12, TripStepKeeps
<1>7. CASE pc[w] = "next"
  <2>1. /\ crewOn' = [crewOn EXCEPT ![c] = t] /\ Answer(w)
        /\ UNCHANGED <<trip, stop, packOn, delivery, goods>>
    BY <1>1, <1>3, <1>4, <1>7 DEF CreateTrip, At
  <2>2. TripTypeOK'
    <3>1. crewOn' \in [Crew -> Trip \cup {NoTrip}]
      BY <2>1 DEF TripInv, TripTypeOK
    <3> QED
      BY <2>1, <3>1 DEF TripInv, TripTypeOK, goods
  <2>3. Handled(w) /\ TripFits(w)'
    BY <1>1, <2>1, AnswerHandles, WhatIsAnswered DEF TripFits, HoldsTrip
  <2> QED
    BY <2>1, <2>2, <2>3, TripRowsStay
<1> QED
  BY <1>1, <1>5, <1>6, <1>7

LEMMA AssignProviderKeeps ==
    ASSUME RequestsInv, TripInv, NEW w \in Worker, AssignProvider(w)
    PROVE  TripInv' /\ TripsGoOn
<1>1. CASE At(w, "ASSIGN_PROVIDER", "read") /\ ReadTrip(w, trip[job[w].trip].status = "PLANNED")
  BY <1>1, ReadTripKeeps DEF At
<1>2. CASE At(w, "ASSIGN_PROVIDER", "commit") /\ SaveTrip(w, trip[job[w].trip].status)
  BY <1>2, PlannerSaves DEF AssignProvider, At, PlanningOp
<1> QED
  BY <1>1, <1>2 DEF AssignProvider

LEMMA StartLoadingKeeps ==
    ASSUME RequestsInv, TripInv, NEW w \in Worker, StartLoading(w)
    PROVE  TripInv' /\ TripsGoOn
<1>1. CASE At(w, "START_LOADING", "read") /\
           ReadTrip(w, May(job[w].trip, "LOADING") /\ trip[job[w].trip].crew # NoCrew)
  BY <1>1, ReadTripKeeps DEF At
<1>2. CASE At(w, "START_LOADING", "commit") /\ SaveTrip(w, "LOADING")
  BY <1>2, PlannerSaves DEF StartLoading, At, PlanningOp
<1> QED
  BY <1>1, <1>2 DEF StartLoading

\* A planner that has written its own row goes on to write the trip.
LEMMA PlannerGoesOn ==
    ASSUME RequestsInv, TripInv, NEW w \in Worker, pc[w] = "write", job[w].op \in PlanningOp,
           Goto(w, "commit"), UNCHANGED trip, \A t \in Trip : Spent(t)' => Spent(t)
    PROVE  Handled(w) /\ pc'[w] = "commit" /\ job'[w] = job[w] /\ TripFits(w)'
<1>1. Handled(w) /\ pc'[w] = "commit" /\ job'[w] = job[w] /\ saw'[w] = saw[w]
  BY GotoHandles, WhatGoesOn, StepNames
<1>2. PICK t \in Trip : t = job[w].trip
  BY JobIsRequest, TripRequest DEF PlanningOp, TripOp, PlanOp
<1>3. HoldsTrip(w) /\ TripFits(w)
  BY DEF HoldsTrip, TripInv
<1>4. /\ trip'[t] # Unread
      /\ saw'[w].row \in TripRow /\ TripAllows(job'[w].op, saw'[w].row.status)
      /\ saw'[w].row.version <= trip'[t].version
      /\ saw'[w].row.version = trip'[t].version =>
            /\ trip'[t].status \in {saw'[w].row.status, "FAILED"}
            /\ job'[w].op # "RTW" => ~ Spent(t)'
  BY <1>1, <1>2, <1>3 DEF TripFits
<1>5. job'[w].op \notin CompletingOp \cup {"RTW", "ARRIVE", "FAIL_TRIP", "COMPLETE_STOP"}
  BY <1>1 DEF PlanningOp, CompletingOp
<1> QED
  BY <1>1, <1>2, <1>4, <1>5 DEF TripFits, Spent

\* A planner that reads its trip and goes on to write a row of its own.
LEMMA PlannerReads ==
    ASSUME RequestsInv, TripInv, NEW w \in Worker, pc[w] = "read", job[w].op \in PlanningOp,
           NEW ok, SeeIf(w, ok, Read(job[w].trip), "write"), UNCHANGED trips,
           ok => trip[job[w].trip] # Unread /\ trip[job[w].trip].status \in {"PLANNED", "LOADING"},
           job[w].op # "START_LOADING"
    PROVE  TripInv' /\ TripsGoOn
<1>1. PICK t \in Trip : t = job[w].trip
  BY JobIsRequest, TripRequest DEF PlanningOp, TripOp, PlanOp
<1>2. CASE Answer(w)
  BY <1>2, TripAnswers
<1>3. CASE ok /\ See(w, Read(t), "write")
  <2>1. TripAllows(job[w].op, trip[t].status) /\ job[w].op # "RTW" /\ job[w].op \in CopyingOp
    BY <1>1, <1>3 DEF TripAllows, PlanningOp, CompletingOp, CopyingOp
  <2> QED
    BY <1>1, <1>3, <2>1, TripIsRead
<1> QED
  BY <1>1, <1>2, <1>3 DEF SeeIf

LEMMA AddStopKeeps ==
    ASSUME RequestsInv, TripInv, NEW w \in Worker, AddStop(w)
    PROVE  TripInv' /\ TripsGoOn
<1>1. /\ job[w].op = "ADD_STOP" /\ pc[w] \in {"read", "write", "commit"} /\ pc[w] # "idle"
      /\ job[w].op \in PlanningOp
  BY DEF AddStop, At, PlanningOp
<1>2. job[w] \in Request /\ job[w] \in Live
  BY <1>1, JobIsRequest DEF Live
<1>3. PICK t \in Trip : t = job[w].trip
  BY <1>1, <1>2, TripRequest DEF TripOp, PlanOp
<1>4. PICK s \in Stop : s = job[w].stop
  BY <1>1, <1>2, TripRequest DEF TripOp, PlanOp
<1>5. CASE pc[w] = "read"
  BY <1>1, <1>5, PlannerReads DEF AddStop, At
<1>6. CASE pc[w] = "write"
  <2> DEFINE new == [trip |-> t, status |-> "PENDING"]
  <2>1. /\ stop' = [stop EXCEPT ![s] = new] /\ Goto(w, "commit")
        /\ UNCHANGED <<trip, packOn, crewOn, delivery, committed, rtw, fetched>>
    BY <1>1, <1>3, <1>4, <1>6 DEF AddStop, At, goods
  <2>2. new \in StopRow
    BY DEF StopRow, StopStatus
  <2> HIDE DEF new
  <2>3. new # Unread
    BY <2>2, TripAssumption
  <2>4. stop[s] = Unread /\ committed[s] = 0
    <3>1. ~ Made(job[w])
      BY <1>1, <1>6, NotMade
    <3>2. stop[s] = Unread
      BY <1>1, <1>2, <1>4, <3>1 DEF TripInv, ToCome
    <3> QED
      BY <3>2 DEF TripInv, GoodsAgree
  <2>5. stop'[s] = new /\ (\A u \in Stop : u # s => stop'[u] = stop[u])
    BY <2>1 DEF TripInv, TripTypeOK
  <2>6. TripTypeOK'
    BY <2>1, <2>2 DEF TripInv, TripTypeOK
  <2>7. \A k \in Trip : (Spent(k)' => Spent(k)) /\ StopsOn(k) \subseteq StopsOn(k)'
    BY <2>1, <2>4, <2>5 DEF Spent, StopsOn
  <2>8. TripsGrow /\ TripsGoOn
    <3>1. ASSUME NEW k \in Trip, trip[k] # Unread
          PROVE  trip[k].version \in Nat
      BY <3>1 DEF TripInv, TripTypeOK, TripRow
    <3> QED
      BY <2>1, <2>4, <2>5, <2>7, <3>1 DEF TripsGrow, TripsGoOn
  <2>9. GoodsAgree'
    <3>1. \A u \in Stop : committed'[u] # 0 => stop'[u] # Unread
      BY <2>1, <2>3, <2>5 DEF TripInv, GoodsAgree
    <3>2. ASSUME NEW k \in Trip, trip'[k] # Unread, trip'[k].status = "RETURNED"
          PROVE  (StopsOn(k) \cap rtw # {})'
      BY <2>1, <2>7, <3>2 DEF TripInv, GoodsAgree
    <3> QED
      BY <2>1, <2>7, <3>1, <3>2 DEF TripInv, GoodsAgree
  <2>10. Handled(w) /\ pc'[w] = "commit" /\ job'[w] = job[w] /\ TripFits(w)'
    BY <1>1, <1>6, <2>1, <2>7, PlannerGoesOn
  <2>11. ToCome'
    <3>1. ASSUME NEW q \in Live \ {job[w]}, q.op = "ADD_STOP", stop[q.stop] = Unread
          PROVE  stop'[q.stop] = Unread
      <4>1. q.stop # s /\ q.stop \in Stop
        BY <1>1, <1>2, <1>4, <3>1, TripAssumption, TripRequest DEF Live, TripOp, PlanOp
      <4> QED
        BY <2>5, <3>1, <4>1
    <3> QED
      BY <1>1, <2>1, <2>10, <3>1, OthersToCome
  <2> QED
    BY <2>6, <2>8, <2>9, <2>10, <2>11, TripStepKeeps
<1>7. CASE pc[w] = "commit"
  BY <1>1, <1>7, PlannerSaves DEF AddStop, At
<1> QED
  BY <1>1, <1>5, <1>6, <1>7

LEMMA AddPackKeeps ==
    ASSUME RequestsInv, TripInv, NEW w \in Worker, AddPack(w)
    PROVE  TripInv' /\ TripsGoOn
<1>1. /\ job[w].op = "ADD_PACK" /\ pc[w] \in {"read", "write", "commit"} /\ pc[w] # "idle"
      /\ job[w].op \in PlanningOp
  BY DEF AddPack, At, PlanningOp
<1>2. PICK t \in Trip : t = job[w].trip
  BY <1>1, JobIsRequest, TripRequest DEF TripOp, PlanOp
<1>3. CASE pc[w] = "read"
  BY <1>1, <1>3, PlannerReads DEF AddPack, At
<1>4. CASE pc[w] = "write"
  <2>1. /\ packOn' = [packOn EXCEPT ![job[w].pack] = t] /\ Goto(w, "commit")
        /\ UNCHANGED <<trip, stop, crewOn, delivery, committed, rtw, fetched>>
    BY <1>1, <1>2, <1>4 DEF AddPack, At, goods
  <2>2. TripTypeOK'
    <3>1. packOn' \in [Pack -> Trip \cup {NoTrip}]
      BY <2>1 DEF TripInv, TripTypeOK
    <3> QED
      BY <2>1, <3>1 DEF TripInv, TripTypeOK
  <2>3. \A k \in Trip : Spent(k)' => Spent(k)
    BY <2>1 DEF Spent
  <2>4. Handled(w) /\ TripFits(w)'
    BY <1>1, <1>4, <2>1, <2>3, PlannerGoesOn
  <2>5. ~ Made(job[w])
    BY <1>1, NotMade
  <2> QED
    BY <2>1, <2>2, <2>4, <2>5, TripRowsStay DEF goods
<1>5. CASE pc[w] = "commit"
  BY <1>1, <1>5, PlannerSaves DEF AddPack, At
<1> QED
  BY <1>1, <1>3, <1>4, <1>5

LEMMA StartTripKeeps ==
    ASSUME RequestsInv, TripInv, NEW w \in Worker, StartTrip(w)
    PROVE  TripInv' /\ TripsGoOn
<1>1. /\ job[w].op = "START_TRIP" /\ pc[w] \in {"read", "write", "commit"} /\ pc[w] # "idle"
      /\ job[w].op \in PlanningOp
  BY DEF StartTrip, At, PlanningOp
<1>2. PICK t \in Trip : t = job[w].trip
  BY <1>1, JobIsRequest, TripRequest DEF TripOp, PlanOp
<1>3. CASE pc[w] = "read"
  <2>1. May(t, "IN_TRANSIT") => trip[t] # Unread /\ trip[t].status \in {"PLANNED", "LOADING"}
    BY TripMay DEF May
  <2> QED
    BY <1>1, <1>2, <1>3, <2>1, PlannerReads DEF StartTrip, At
<1>4. CASE pc[w] = "write"
  <2>1. /\ delivery' = [s \in Stop |-> IF s \in saw[w].stops THEN "OUT_FOR_DELIVERY" ELSE delivery[s]]
        /\ Goto(w, "commit")
        /\ UNCHANGED <<trip, stop, packOn, crewOn, committed, rtw, fetched>>
    BY <1>1, <1>4 DEF StartTrip, At, goods
  <2>2. TripTypeOK'
    <3>1. delivery' \in [Stop -> {"PROCESSING", "OUT_FOR_DELIVERY", "DELIVERED", "DELIVERY_FAILED"}]
      BY <2>1 DEF TripInv, TripTypeOK
    <3> QED
      BY <2>1, <3>1 DEF TripInv, TripTypeOK
  <2>3. \A k \in Trip : Spent(k)' => Spent(k)
    BY <2>1 DEF Spent
  <2>4. Handled(w) /\ TripFits(w)'
    BY <1>1, <1>4, <2>1, <2>3, PlannerGoesOn
  <2>5. ~ Made(job[w])
    BY <1>1, NotMade
  <2> QED
    BY <2>1, <2>2, <2>4, <2>5, TripRowsStay DEF goods
<1>5. CASE pc[w] = "commit"
  BY <1>1, <1>5, PlannerSaves DEF StartTrip, At
<1> QED
  BY <1>1, <1>3, <1>4, <1>5

\* A write of an existing stop's status.
LEMMA StopIsWritten ==
    ASSUME RequestsInv, TripInv, NEW w \in Worker, Handled(w), NEW s \in Stop, stop[s] # Unread,
           NEW status \in StopStatus, stop' = [stop EXCEPT ![s] = [@ EXCEPT !.status = status]],
           UNCHANGED <<trip, packOn, crewOn, delivery, goods>>,
           TripFits(w)', ~ Made(job[w])
    PROVE  TripInv' /\ TripsGoOn
<1>1. UNCHANGED <<trip, packOn, crewOn, delivery, committed, rtw, fetched>>
  BY DEF goods
<1>2. /\ stop'[s] \in StopRow /\ stop'[s].trip = stop[s].trip
      /\ \A u \in Stop : u # s => stop'[u] = stop[u]
  BY DEF TripInv, TripTypeOK, StopRow
<1>3. stop'[s] # Unread
  BY <1>2, TripAssumption
<1>4. TripTypeOK'
  BY <1>1, <1>2 DEF TripInv, TripTypeOK
<1>5. \A u \in Stop : /\ stop'[u] # Unread <=> stop[u] # Unread
                      /\ stop[u] # Unread => stop'[u].trip = stop[u].trip
  BY <1>2, <1>3
<1>6. \A k \in Trip : (Spent(k)' <=> Spent(k)) /\ StopsOn(k)' = StopsOn(k)
  BY <1>1, <1>5 DEF Spent, StopsOn
<1>7. TripsGrow /\ TripsGoOn
  BY <1>1, <1>5, <1>6 DEF TripsGrow, TripsGoOn
<1>8. GoodsAgree'
  BY <1>1, <1>5, <1>6 DEF TripInv, GoodsAgree
<1>9. job[w] \in Live' => job[w] \in Live
  BY LiveShrinks DEF RequestsMove
<1>10. \A q \in Live \ {job[w]} : q.op = "ADD_STOP" /\ stop[q.stop] = Unread => stop'[q.stop] = Unread
  <2>1. ASSUME NEW q \in Live, q.op = "ADD_STOP", stop[q.stop] = Unread
        PROVE  stop'[q.stop] = Unread
    <3>1. q.stop \in Stop
      BY <2>1, TripRequest DEF Live, TripOp, PlanOp
    <3> QED
      BY <1>5, <2>1, <3>1
  <2> QED
    BY <2>1
<1>11. job[w] \in Live' =>
          /\ job[w].op = "CREATE_TRIP" => trip'[job[w].trip] = Unread
          /\ job[w].op = "ADD_STOP" => stop'[job[w].stop] = Unread
  <2>1. ASSUME job[w] \in Live', job[w].op = "ADD_STOP"
        PROVE  stop'[job[w].stop] = Unread
    <3>1. job[w].stop \in Stop /\ stop[job[w].stop] = Unread
      BY <1>9, <2>1, TripRequest DEF Live, TripOp, PlanOp, TripInv, ToCome
    <3> QED
      BY <1>5, <3>1
  <2> QED
    BY <1>1, <1>9, <2>1 DEF TripInv, ToCome
<1>12. ToCome'
  BY <1>1, <1>10, <1>11, OthersToCome
<1> QED
  BY <1>4, <1>7, <1>8, <1>12, TripStepKeeps

LEMMA ArriveAtStopKeeps ==
    ASSUME RequestsInv, TripInv, NEW w \in Worker, ArriveAtStop(w)
    PROVE  TripInv' /\ TripsGoOn
<1>1. job[w].op = "ARRIVE" /\ pc[w] \in {"read", "commit"} /\ pc[w] # "idle"
  BY DEF ArriveAtStop, At
<1>2. PICK s \in Stop : s = job[w].stop
  BY <1>1, JobIsRequest, TripRequest DEF TripOp, RoadOp
<1>3. ~ Made(job[w])
  BY <1>1, NotMade
<1>4. CASE pc[w] = "read"
  <2>1. UNCHANGED trips /\ (Answer(w) \/ (stop[s] # Unread /\ See(w, Read(stop[s].trip), "commit")))
    BY <1>1, <1>2, <1>4 DEF ArriveAtStop, At, SeeIf
  <2>2. CASE stop[s] # Unread /\ See(w, Read(stop[s].trip), "commit")
    <3>1. Handled(w) /\ pc'[w] = "commit" /\ job'[w] = job[w]
      BY <1>1, <2>2, SeeHandles, WhatIsSeen, StepNames
    <3>2. TripFits(w)'
      BY <1>1, <1>2, <2>1, <2>2, <3>1 DEF TripFits, HoldsTrip, PlanningOp, CompletingOp, trips
    <3> QED
      BY <1>3, <2>1, <3>1, <3>2, TripLooks
  <2> QED
    BY <1>1, <2>1, <2>2, TripAnswers
<1>5. CASE pc[w] = "commit"
  <2>1. /\ stop' = [stop EXCEPT ![s] = [@ EXCEPT !.status = "ARRIVED"]] /\ Answer(w)
        /\ UNCHANGED <<trip, packOn, crewOn, delivery, goods>>
    BY <1>1, <1>2, <1>5 DEF ArriveAtStop, At
  <2>2. stop[s] # Unread
    BY <1>1, <1>2, <1>5 DEF TripInv, TripFits
  <2>3. Handled(w) /\ TripFits(w)'
    BY <1>1, <2>1, AnswerHandles, WhatIsAnswered DEF TripFits, HoldsTrip
  <2>4. "ARRIVED" \in StopStatus
    BY DEF StopStatus
  <2> QED
    BY <1>3, <2>1, <2>2, <2>3, <2>4, StopIsWritten
<1> QED
  BY <1>1, <1>4, <1>5

LEMMA ReadForCompletionKeeps ==
    ASSUME RequestsInv, TripInv, NEW w \in Worker, pc[w] # "idle", pc[w] # "commit",
           job[w].op \in CompletingOp, ReadForCompletion(w, job[w].trip)
    PROVE  TripInv' /\ TripsGoOn
<1>1. PICK t \in Trip : t = job[w].trip
  BY JobIsRequest, TripRequest DEF CompletingOp, TripOp, RoadOp
<1>2. UNCHANGED trips /\ (Answer(w) \/ (May(t, "COMPLETED") /\ See(w, Read(t), "commit")))
  BY <1>1 DEF ReadForCompletion, SeeIf
<1>3. CASE May(t, "COMPLETED") /\ See(w, Read(t), "commit")
  <2>1. trip[t] # Unread /\ trip[t].status = "IN_TRANSIT"
    BY <1>3, TripMay DEF May
  <2>2. TripAllows(job[w].op, trip[t].status) /\ job[w].op \in CopyingOp /\ job[w].op # "RTW"
    BY <2>1 DEF TripAllows, PlanningOp, CompletingOp, CopyingOp
  <2> QED
    BY <1>1, <1>2, <1>3, <2>1, <2>2, TripIsRead
<1> QED
  BY <1>2, <1>3, TripAnswers

\* The goods of the stops that were DELIVERED leave the stock, and had not
\* left it.
LEMMA CommitTripKeeps ==
    ASSUME RequestsInv, TripInv, NEW w \in Worker, pc[w] = "commit", job[w].op \in CompletingOp, CommitTrip(w)
    PROVE  TripInv' /\ TripsGoOn
<1>1. PICK t \in Trip : t = job[w].trip
  BY JobIsRequest, TripRequest DEF CompletingOp, TripOp, RoadOp
<1>2. HoldsTrip(w)
  BY DEF HoldsTrip
<1>3. /\ SaveTrip(w, "COMPLETED") /\ Answer(w) /\ UNCHANGED <<stop, packOn, delivery, rtw, fetched>>
      /\ crewOn' \in [Crew -> Trip \cup {NoTrip}]
      /\ committed' = [s \in Stop |-> committed[s] + (IF s \in saw[w].delivered THEN 1 ELSE 0)]
  BY DEF CommitTrip, Release, TripInv, TripTypeOK
<1>4. "COMPLETED" \in TripStatus
  BY DEF TripStatus
<1>5. /\ trip[t] # Unread /\ ~ Spent(t) /\ trip[t] \in TripRow
      /\ trip' \in [Trip -> TripRow \cup {Unread}]
      /\ \A k \in Trip \ {t} : trip'[k] = trip[k]
      /\ trip'[t] # Unread /\ trip'[t].status = "COMPLETED" /\ trip'[t].version > trip[t].version
  <2>1. job[w].op # "RTW"
    BY DEF CompletingOp
  <2> QED
    BY <1>1, <1>2, <1>3, <1>4, <2>1, TripIsSaved
<1>6. \A u \in saw[w].delivered : u \in Stop /\ stop[u] # Unread /\ stop[u].trip = t /\ committed[u] = 0
  <2>1. \A u \in saw[w].delivered : u \in Stop /\ stop[u] # Unread /\ stop[u].trip = t
    BY <1>1 DEF TripInv, TripFits
  <2> QED
    BY <1>5, <2>1 DEF Spent
<1>7. \A u \in Stop : /\ u \in saw[w].delivered => committed'[u] = 1
                      /\ u \notin saw[w].delivered => committed'[u] = committed[u]
  <2>1. \A u \in Stop : committed[u] \in Nat
    BY DEF TripInv, TripTypeOK
  <2> QED
    BY <1>3, <1>6, <2>1
<1>8. committed' \in [Stop -> Nat]
  BY <1>3 DEF TripInv, TripTypeOK
<1>9. TripTypeOK'
  BY <1>3, <1>5, <1>8 DEF TripInv, TripTypeOK
<1>10. \A k \in Trip \ {t} : Spent(k)' => Spent(k)
  <2>1. ASSUME NEW k \in Trip \ {t}, NEW u \in Stop, stop[u] # Unread, stop[u].trip = k, committed'[u] # 0
        PROVE  committed[u] # 0
    BY <1>6, <1>7, <2>1
  <2> QED
    BY <1>3, <2>1 DEF Spent
<1>11. GoodsAgree'
  <2>1. \A u \in Stop : /\ committed'[u] \in {0, 1}
                        /\ committed'[u] # 0 => stop'[u] # Unread
                        /\ fetched'[u] = (IF u \in rtw' THEN 1 ELSE 0)
    BY <1>3, <1>6, <1>7 DEF TripInv, GoodsAgree
  <2>2. \A k \in Trip : StopsOn(k)' = StopsOn(k)
    BY <1>3 DEF StopsOn
  <2>3. ASSUME NEW k \in Trip
        PROVE  /\ Spent(k)' => trip'[k] # Unread /\ trip'[k].status \in {"COMPLETED", "FAILED", "RETURNED"}
               /\ trip'[k] # Unread /\ trip'[k].status = "RETURNED" => (StopsOn(k) \cap rtw # {})'
    <3>1. CASE k = t
      BY <1>5, <3>1
    <3>2. CASE k # t
      BY <1>3, <1>5, <1>10, <2>2, <3>2 DEF TripInv, GoodsAgree
    <3> QED
      BY <3>1, <3>2
  <2> QED
    BY <2>1, <2>3 DEF GoodsAgree
<1>12. TripsGoOn
  BY <1>5 DEF TripsGoOn
<1> QED
  BY <1>3, <1>5, <1>9, <1>10, <1>11, <1>12, TripIsWritten

LEMMA CompleteStopKeeps ==
    ASSUME RequestsInv, TripInv, NEW w \in Worker, CompleteStop(w)
    PROVE  TripInv' /\ TripsGoOn
<1>1. /\ job[w].op = "COMPLETE_STOP" /\ pc[w] \in {"read", "write", "next", "then", "commit"} /\ pc[w] # "idle"
      /\ job[w].op \in CompletingOp
  BY DEF CompleteStop, At, CompletingOp
<1>2. PICK s \in Stop : s = job[w].stop
  BY <1>1, JobIsRequest, TripRequest DEF TripOp, RoadOp
<1>3. ~ Made(job[w])
  BY <1>1, NotMade
<1>4. CASE pc[w] = "read"
  <2>1. UNCHANGED trips /\ (Answer(w) \/ (stop[s] # Unread /\ See(w, Read(job[w].trip), "write")))
    BY <1>1, <1>2, <1>4 DEF CompleteStop, At, SeeIf
  <2>2. CASE stop[s] # Unread /\ See(w, Read(job[w].trip), "write")
    <3>1. Handled(w) /\ pc'[w] = "write" /\ job'[w] = job[w]
      BY <1>1, <2>2, SeeHandles, WhatIsSeen, StepNames
    <3>2. TripFits(w)'
      BY <1>1, <1>2, <2>1, <2>2, <3>1 DEF TripFits, HoldsTrip, PlanningOp, CompletingOp, trips
    <3> QED
      BY <1>3, <2>1, <3>1, <3>2, TripLooks
  <2> QED
    BY <1>1, <2>1, <2>2, TripAnswers
<1>5. CASE pc[w] = "write"
  <2> DEFINE status == IF job[w].success THEN "DELIVERED" ELSE "FAILED"
  <2>1. /\ stop' = [stop EXCEPT ![s] = [@ EXCEPT !.status = status]] /\ Goto(w, "next")
        /\ UNCHANGED <<trip, packOn, crewOn, delivery, goods>>
    BY <1>1, <1>2, <1>5 DEF CompleteStop, At
  <2>2. stop[s] # Unread
    BY <1>1, <1>2, <1>5 DEF TripInv, TripFits
  <2>3. status \in StopStatus
    BY DEF StopStatus
  <2>4. stop'[s] # Unread
    <3>1. stop'[s] \in StopRow
      BY <2>1, <2>2, <2>3 DEF TripInv, TripTypeOK, StopRow
    <3> QED
      BY <3>1, TripAssumption
  <2> HIDE DEF status
  <2>5. Handled(w) /\ pc'[w] = "next" /\ job'[w] = job[w]
    BY <1>1, <2>1, GotoHandles, WhatGoesOn, StepNames
  <2>6. TripFits(w)'
    BY <1>1, <1>2, <2>4, <2>5 DEF TripFits, HoldsTrip, PlanningOp
  <2> QED
    BY <1>3, <2>1, <2>2, <2>3, <2>5, <2>6, StopIsWritten
<1>6. CASE pc[w] = "next"
  <2>1. /\ delivery' = [delivery EXCEPT ![s] = IF job[w].success THEN "DELIVERED" ELSE "DELIVERY_FAILED"]
        /\ Goto(w, "then") \/ Answer(w)
        /\ UNCHANGED <<trip, stop, packOn, crewOn, goods>>
    BY <1>1, <1>2, <1>6 DEF CompleteStop, At
  <2>2. TripTypeOK'
    <3>1. delivery' \in [Stop -> {"PROCESSING", "OUT_FOR_DELIVERY", "DELIVERED", "DELIVERY_FAILED"}]
      BY <2>1 DEF TripInv, TripTypeOK
    <3> QED
      BY <2>1, <3>1 DEF TripInv, TripTypeOK, goods
  <2>3. Handled(w) /\ TripFits(w)'
    <3>1. CASE Answer(w)
      BY <1>1, <3>1, AnswerHandles, WhatIsAnswered DEF TripFits, HoldsTrip
    <3>2. CASE Goto(w, "then")
      <4>1. Handled(w) /\ pc'[w] = "then" /\ job'[w] = job[w]
        BY <1>1, <3>2, GotoHandles, WhatGoesOn, StepNames
      <4>2. stop[s] # Unread
        BY <1>1, <1>2, <1>6 DEF TripInv, TripFits
      <4> QED
        BY <1>1, <1>2, <2>1, <4>1, <4>2 DEF TripFits, HoldsTrip, PlanningOp
    <3> QED
      BY <2>1, <3>1, <3>2
  <2> QED
    BY <1>3, <2>1, <2>2, <2>3, TripRowsStay
<1>7. CASE pc[w] = "then"
  BY <1>1, <1>7, ReadForCompletionKeeps DEF CompleteStop, At
<1>8. CASE pc[w] = "commit"
  BY <1>1, <1>8, CommitTripKeeps DEF CompleteStop, At
<1> QED
  BY <1>1, <1>4, <1>5, <1>6, <1>7, <1>8

LEMMA CompleteTripKeeps ==
    ASSUME RequestsInv, TripInv, NEW w \in Worker, CompleteTrip(w)
    PROVE  TripInv' /\ TripsGoOn
BY ReadForCompletionKeeps, CommitTripKeeps DEF CompleteTrip, At, CompletingOp

LEMMA FailTripKeeps ==
    ASSUME RequestsInv, TripInv, NEW w \in Worker, FailTrip(w)
    PROVE  TripInv' /\ TripsGoOn
<1>1. CASE At(w, "FAIL_TRIP", "read") /\ ReadTrip(w, May(job[w].trip, "FAILED"))
  BY <1>1, ReadTripKeeps DEF At
<1>2. CASE At(w, "FAIL_TRIP", "commit")
  <2>1. PICK t \in Trip : t = job[w].trip
    BY <1>2, JobIsRequest, TripRequest DEF At, TripOp, RoadOp
  <2>2. /\ trip' = [trip EXCEPT ![t] = [@ EXCEPT !.status = "FAILED"]] /\ Answer(w)
        /\ UNCHANGED <<stop, packOn, delivery, committed, rtw, fetched>>
        /\ crewOn' \in [Crew -> Trip \cup {NoTrip}]
    BY <1>2, <2>1 DEF FailTrip, At, Release, TripInv, TripTypeOK, goods
  <2>3. trip[t] # Unread
    BY <1>2, <2>1 DEF At, TripInv, TripFits
  <2>4. /\ trip'[t] \in TripRow /\ trip'[t].status = "FAILED" /\ trip'[t].version = trip[t].version
        /\ \A k \in Trip : k # t => trip'[k] = trip[k]
    BY <2>2, <2>3 DEF TripInv, TripTypeOK, TripRow, TripStatus
  <2>5. trip'[t] # Unread
    BY <2>4, TripAssumption
  <2>6. TripTypeOK'
    <3>1. trip' \in [Trip -> TripRow \cup {Unread}]
      BY <2>2, <2>4 DEF TripInv, TripTypeOK
    <3> QED
      BY <2>2, <3>1 DEF TripInv, TripTypeOK
  <2>7. \A k \in Trip : (Spent(k)' <=> Spent(k)) /\ StopsOn(k)' = StopsOn(k)
    BY <2>2 DEF Spent, StopsOn
  <2>8. GoodsAgree'
    <3>1. ASSUME NEW k \in Trip
          PROVE  /\ Spent(k)' => trip'[k] # Unread /\ trip'[k].status \in {"COMPLETED", "FAILED", "RETURNED"}
                 /\ trip'[k] # Unread /\ trip'[k].status = "RETURNED" => (StopsOn(k) \cap rtw # {})'
      <4>1. CASE k = t
        BY <2>4, <2>5, <4>1
      <4>2. CASE k # t
        BY <2>2, <2>4, <2>7, <4>2 DEF TripInv, GoodsAgree
      <4> QED
        BY <4>1, <4>2
    <3> QED
      BY <2>2, <3>1 DEF TripInv, GoodsAgree
  <2>9. TripsGoOn
    BY <2>4 DEF TripsGoOn
  <2> QED
    BY <1>2, <2>2, <2>3, <2>4, <2>5, <2>6, <2>7, <2>8, <2>9, TripIsWritten DEF At
<1> QED
  BY <1>1, <1>2 DEF FailTrip

LEMMA ReturnToWarehouseKeeps ==
    ASSUME RequestsInv, TripInv, NEW w \in Worker, ReturnToWarehouse(w)
    PROVE  TripInv' /\ TripsGoOn
<1>1. job[w].op = "RTW" /\ pc[w] \in {"read", "commit"} /\ pc[w] # "idle"
  BY DEF ReturnToWarehouse, At
<1>2. PICK t \in Trip : t = job[w].trip
  BY <1>1, JobIsRequest, TripRequest DEF TripOp, RoadOp
<1>3. PICK s \in Stop : s = job[w].stop
  BY <1>1, JobIsRequest, TripRequest DEF TripOp, RoadOp
<1>4. CASE pc[w] = "read"
  <2>1. /\ UNCHANGED trips
        /\ Answer(w) \/ (s \in StopsOn(t) /\ May(t, "RETURNED") /\ See(w, Read(t), "commit"))
    BY <1>1, <1>2, <1>3, <1>4 DEF ReturnToWarehouse, At, SeeIf
  <2>2. CASE s \in StopsOn(t) /\ May(t, "RETURNED") /\ See(w, Read(t), "commit")
    <3>1. trip[t] # Unread /\ trip[t].status = "FAILED"
      BY <2>2, TripMay DEF May
    <3>2. TripAllows(job[w].op, trip[t].status) /\ job[w].op \in CopyingOp /\ job[w].op \notin PlanningOp
      BY <1>1, <3>1 DEF TripAllows, PlanningOp, CompletingOp, CopyingOp
    <3> QED
      BY <1>1, <1>2, <1>3, <1>4, <2>1, <2>2, <3>1, <3>2, TripIsRead
  <2> QED
    BY <1>1, <2>1, <2>2, TripAnswers
<1>5. CASE pc[w] = "commit"
  <2>1. /\ s \notin rtw /\ rtw' = rtw \cup {s} /\ fetched' = [fetched EXCEPT ![s] = @ + 1]
        /\ SaveTrip(w, "RETURNED") /\ Answer(w)
        /\ UNCHANGED <<stop, packOn, crewOn, delivery, committed>>
    BY <1>1, <1>3, <1>5 DEF ReturnToWarehouse, At
  <2>2. HoldsTrip(w) /\ "RETURNED" \in TripStatus
    BY <1>1, <1>5 DEF HoldsTrip, TripStatus
  <2>3. /\ trip[t] # Unread
        /\ trip' \in [Trip -> TripRow \cup {Unread}]
        /\ \A k \in Trip \ {t} : trip'[k] = trip[k]
        /\ trip'[t] # Unread /\ trip'[t].status = "RETURNED" /\ trip'[t].version > trip[t].version
    BY <1>2, <2>1, <2>2, TripIsSaved
  <2>4. stop[s] # Unread /\ stop[s].trip = t
    BY <1>1, <1>2, <1>3, <1>5 DEF TripInv, TripFits
  <2>5. fetched[s] = 0 /\ fetched'[s] = 1 /\ (\A u \in Stop : u # s => fetched'[u] = fetched[u])
    BY <2>1 DEF TripInv, TripTypeOK, GoodsAgree
  <2>6. TripTypeOK'
    <3>1. fetched' \in [Stop -> Nat]
      BY <2>1, <2>5 DEF TripInv, TripTypeOK
    <3> QED
      BY <2>1, <2>3, <3>1 DEF TripInv, TripTypeOK
  <2>7. \A k \in Trip : (Spent(k)' <=> Spent(k)) /\ StopsOn(k)' = StopsOn(k)
    BY <2>1 DEF Spent, StopsOn
  <2>8. GoodsAgree'
    <3>1. s \in StopsOn(t)' \cap rtw'
      BY <2>1, <2>4 DEF StopsOn
    <3>2. ASSUME NEW k \in Trip
          PROVE  /\ Spent(k)' => trip'[k] # Unread /\ trip'[k].status \in {"COMPLETED", "FAILED", "RETURNED"}
                 /\ trip'[k] # Unread /\ trip'[k].status = "RETURNED" => (StopsOn(k) \cap rtw # {})'
      <4>1. CASE k = t
        BY <2>3, <3>1, <4>1
      <4>2. CASE k # t
        BY <2>1, <2>3, <2>7, <4>2 DEF TripInv, GoodsAgree
      <4> QED
        BY <4>1, <4>2
    <3>3. \A u \in Stop : /\ committed'[u] \in {0, 1}
                          /\ committed'[u] # 0 => stop'[u] # Unread
                          /\ fetched'[u] = (IF u \in rtw' THEN 1 ELSE 0)
      BY <2>1, <2>5 DEF TripInv, GoodsAgree
    <3> QED
      BY <3>2, <3>3 DEF GoodsAgree
  <2>9. TripsGoOn
    BY <2>3 DEF TripsGoOn
  <2> QED
    BY <1>1, <2>1, <2>3, <2>6, <2>7, <2>8, <2>9, TripIsWritten
<1> QED
  BY <1>1, <1>4, <1>5

LEMMA TripKeeps ==
    ASSUME RequestsInv, TripInv, TripRests \/ (\E w \in Worker : TripStep(w))
    PROVE  TripInv' /\ TripsGoOn
<1>1. CASE TripRests
  BY <1>1, TripRestsKeeps
<1>2. ASSUME NEW w \in Worker, TripStep(w)
      PROVE  TripInv' /\ TripsGoOn
  <2>1. CASE TripFails(w)
    BY <2>1, TripAnswers DEF TripFails
  <2> QED
    BY <1>2, <2>1, CreateTripKeeps, AssignProviderKeeps, AddStopKeeps, AddPackKeeps, StartLoadingKeeps,
       StartTripKeeps, ArriveAtStopKeeps, CompleteStopKeeps, CompleteTripKeeps, FailTripKeeps,
       ReturnToWarehouseKeeps DEF TripStep
<1> QED
  BY <1>1, <1>2

LEMMA TripStart == RequestsInit /\ TripInit => TripInv
<1> SUFFICES ASSUME RequestsInit, TripInit
             PROVE  TripInv
  OBVIOUS
<1>1. \A t \in Trip : trip[t] = IF t \in UnderWay
                                THEN [status |-> "IN_TRANSIT", version |-> 0, crew |-> NoCrew] ELSE Unread
  BY DEF TripInit
<1>2. [status |-> "IN_TRANSIT", version |-> 0, crew |-> NoCrew] \in TripRow
  BY DEF TripRow, TripStatus
<1>3. ASSUME NEW s \in Stop
      PROVE  /\ stop[s] \in StopRow \cup {Unread}
             /\ (\A t \in UnderWay : s \notin StopsOf[t]) => stop[s] = Unread
  <2>1. CASE \E t \in UnderWay : s \in StopsOf[t]
    <3> DEFINE t == CHOOSE t \in UnderWay : s \in StopsOf[t]
    <3>1. t \in UnderWay
      BY <2>1
    <3>2. stop[s] = [trip |-> t, status |-> "ARRIVED"]
      BY <2>1 DEF TripInit
    <3>3. t \in Trip
      BY <3>1, TripAssumption
    <3> HIDE DEF t
    <3> QED
      BY <2>1, <3>2, <3>3 DEF StopRow, StopStatus
  <2>2. CASE ~ \E t \in UnderWay : s \in StopsOf[t]
    BY <2>2 DEF TripInit
  <2> QED
    BY <2>1, <2>2
<1>4. TripTypeOK
  <2>1. stop \in [Stop -> StopRow \cup {Unread}]
    BY <1>3 DEF TripInit
  <2>2. trip \in [Trip -> TripRow \cup {Unread}]
    BY <1>1, <1>2 DEF TripInit
  <2> QED
    BY <2>1, <2>2 DEF TripInit, TripTypeOK
<1>5. GoodsAgree
  <2>1. \A s \in Stop : committed[s] = 0 /\ fetched[s] = 0 /\ s \notin rtw
    BY DEF TripInit
  <2>2. ASSUME NEW t \in Trip, trip[t] # Unread
        PROVE  trip[t].status = "IN_TRANSIT"
    BY <1>1, <2>2
  <2> QED
    BY <2>1, <2>2 DEF GoodsAgree, Spent
<1>6. ToCome
  <2>1. ASSUME NEW q \in Live
        PROVE  /\ q.op = "CREATE_TRIP" => trip[q.trip] = Unread
               /\ q.op = "ADD_STOP" => stop[q.stop] = Unread
    <3>1. q \in Request
      BY DEF Live
    <3>2. ASSUME q.op = "CREATE_TRIP" PROVE trip[q.trip] = Unread
      BY <1>1, <3>1, <3>2, TripRequest, TripAssumption DEF TripOp, PlanOp
    <3>3. ASSUME q.op = "ADD_STOP" PROVE stop[q.stop] = Unread
      <4>1. q.stop \in Stop /\ \A t \in UnderWay : q.stop \notin StopsOf[t]
        BY <3>1, <3>3, TripRequest, TripAssumption DEF TripOp, PlanOp
      <4> QED
        BY <1>3, <4>1
    <3> QED
      BY <3>2, <3>3
  <2> QED
    BY <2>1 DEF ToCome
<1>7. \A w \in Worker : TripFits(w)
  BY DEF RequestsInit, TripFits, HoldsTrip
<1> QED
  BY <1>4, <1>5, <1>6, <1>7 DEF TripInv

LEMMA TripHolds == BackOfficeSpec => [](RequestsInv /\ TripInv)
<1>1. BackOfficeInit => RequestsInv /\ TripInv
  BY RequestsStart, TripStart DEF BackOfficeInit
<1>2. RequestsInv /\ TripInv /\ [BackOfficeNext]_<<requests, business>> => (RequestsInv /\ TripInv)'
  <2>1. ASSUME RequestsInv, TripInv, BackOfficeNext
        PROVE  RequestsInv' /\ TripInv'
    BY <2>1, BackOfficeMoves, RequestsKept, TripKeeps
  <2>2. ASSUME RequestsInv, TripInv, UNCHANGED <<requests, business>>
        PROVE  RequestsInv' /\ TripInv'
    BY <2>2, BackOfficeStutters, RequestsKept, TripKeeps DEF AllRest, FleetRests
  <2> QED
    BY <2>1, <2>2
<1> QED
  BY <1>1, <1>2, PTL DEF BackOfficeSpec

\* The goods of a stop leave the stock at most once, and come back at most
\* once (GoodsLeaveOnce of DeliveryTrips).
THEOREM TripsKeepTheirGoods == BackOfficeSpec => []GoodsLeaveOnce
<1>1. TripInv => GoodsLeaveOnce
  BY DEF TripInv, GoodsAgree, GoodsLeaveOnce
<1> QED
  BY <1>1, TripHolds, PTL

\* A trip that has left is never planned or loaded again, whichever planner
\* still holds a copy (TripNeverTurnsBack of DeliveryTrips).
THEOREM TripsNeverTurnBack == BackOfficeSpec => TripNeverTurnsBack
<1>1. RequestsInv /\ TripInv /\ [BackOfficeNext]_<<requests, business>> => [TripsGoOn]_trip
  <2>1. ASSUME RequestsInv, TripInv, BackOfficeNext
        PROVE  TripsGoOn
    BY <2>1, BackOfficeMoves, TripKeeps
  <2>2. ASSUME UNCHANGED <<requests, business>>
        PROVE  UNCHANGED trip
    BY <2>2 DEF business, fleet, trips
  <2> QED
    BY <2>1, <2>2
<1>2. BackOfficeSpec => [][TripsGoOn]_trip
  BY <1>1, TripHolds, PTL DEF BackOfficeSpec
<1> QED
  BY <1>2 DEF TripsGoOn, TripNeverTurnsBack

-----------------------------------------------------------------------------
(***************************************************************************)
(* Dispatch.  Trips and crews are written by their ids, and the unique     *)
(* index on currentTripId keeps them in step.  A manifest is written at    *)
(* the version that was read, except that orders are listed beside it: at  *)
(* the version read, status and trip are those of the copy.                *)
(***************************************************************************)
SealingOp == {"SEAL_MANIFEST", "DISPATCH_MANIFEST", "COMPLETE_MANIFEST"}

ManifestAllows(op, status) ==
    /\ op = "SEAL_MANIFEST" => status = "DRAFT"
    /\ op = "DISPATCH_MANIFEST" => status = "SEALED"
    /\ op = "COMPLETE_MANIFEST" => status = "DISPATCHED"

DispatchFits(w) ==
    LET j == job[w].journey
        m == job[w].manifest IN
    /\ pc[w] = "commit" /\ job[w].op = "DISPATCH_JOURNEY" =>
          journey[j] # Unread /\ CrewFor(w) \in Squad
    /\ pc[w] = "commit" /\ job[w].op = "LIST_ORDERS" => manifest[m] # Unread
    /\ pc[w] = "commit" /\ job[w].op \in SealingOp =>
          /\ manifest[m] # Unread
          /\ saw[w] \in ManifestRow /\ ManifestAllows(job[w].op, saw[w].status)
          /\ job[w].op = "SEAL_MANIFEST" => manifest[m].orders # {}
          /\ saw[w].version <= manifest[m].version
          /\ saw[w].version = manifest[m].version => manifest[m].status = saw[w].status

\* A creation still to come makes a row of its own.
RowsToCome ==
    \A q \in Live : /\ q.op = "PLAN_JOURNEY" => journey[q.journey] = Unread
                    /\ q.op = "CREATE_MANIFEST" => manifest[q.manifest] = Unread

ManifestsAgree ==
    \A m \in Manifest :
       /\ announced[m] = IF manifest[m] # Unread /\ manifest[m].status \in {"DISPATCHED", "COMPLETED"}
                         THEN <<manifest[m].journey>> ELSE <<>>
       /\ manifest[m] # Unread /\ manifest[m].status \in {"SEALED", "DISPATCHED", "COMPLETED"} =>
             manifest[m].orders # {}

DispatchInv ==
    /\ DispatchTypeOK
    /\ RowsToCome
    /\ CrewIsOnItsJourney
    /\ ManifestsAgree
    /\ \A w \in Worker : DispatchFits(w)

\* What a step may do to rows that others hold copies of.
DispatchGrows ==
    /\ \A j \in Journey : journey[j] # Unread => journey'[j] # Unread
    /\ \A m \in Manifest : manifest[m] # Unread =>
          /\ manifest'[m] # Unread
          /\ manifest[m].orders # {} => manifest'[m].orders # {}
          /\ \/ manifest'[m].version > manifest[m].version
             \/ manifest'[m].version = manifest[m].version /\ manifest'[m].status = manifest[m].status

LEMMA DispatchRequest ==
    ASSUME NEW r \in Request, r.op \in DispatchOp
    PROVE  /\ r.journey \in Journey /\ r.squad \in Squad \cup {NoSquad}
           /\ r.manifest \in Manifest /\ r.cargo \in SUBSET Cargo
BY DispatchAssumption

LEMMA DispatchRestsKeeps ==
    ASSUME RequestsInv, DispatchInv, DispatchRests
    PROVE  DispatchInv'
<1>1. UNCHANGED <<journey, onJourney, manifest, announced>> /\ Elsewhere(DispatchOp)
  BY DEF DispatchRests, dispatching
<1>2. DispatchTypeOK' /\ CrewIsOnItsJourney' /\ ManifestsAgree'
  BY <1>1 DEF DispatchInv, DispatchTypeOK, CrewIsOnItsJourney, ManifestsAgree
<1>3. RowsToCome'
  BY <1>1 DEF DispatchInv, RowsToCome, Elsewhere
<1>4. ASSUME NEW v \in Worker
      PROVE  DispatchFits(v)'
  <2>1. DispatchFits(v)
    BY DEF DispatchInv
  <2>2. CASE Rests(v)
    BY <1>1, <2>1, <2>2 DEF Rests, DispatchFits, CrewFor
  <2>3. CASE ~ Rests(v)
    <3>1. pc'[v] \in {"idle", "read"} \/ job'[v].op \notin DispatchOp
      BY <1>1, <2>3 DEF Elsewhere
    <3> QED
      BY <3>1 DEF DispatchFits, SealingOp, DispatchOp, JourneyOp, ManifestOp
  <2> QED
    BY <2>2, <2>3
<1> QED
  BY <1>2, <1>3, <1>4 DEF DispatchInv

LEMMA DispatchStepKeeps ==
    ASSUME RequestsInv, DispatchInv, NEW w \in Worker, Handled(w), DispatchGrows,
           DispatchTypeOK', RowsToCome', CrewIsOnItsJourney', ManifestsAgree', DispatchFits(w)'
    PROVE  DispatchInv'
<1>1. \A v \in Worker \ {w} : Rests(v)
  BY OthersRest
<1>2. ASSUME NEW v \in Worker, v # w
      PROVE  DispatchFits(v)'
  <2>1. DispatchFits(v) /\ pc'[v] = pc[v] /\ job'[v] = job[v] /\ saw'[v] = saw[v]
    BY <1>1, <1>2 DEF DispatchInv, Rests
  <2>2. CASE ~ (pc[v] = "commit" /\ job[v].op \in SealingOp \cup {"DISPATCH_JOURNEY", "LIST_ORDERS"})
    BY <2>1, <2>2 DEF DispatchFits
  <2>3. CASE pc[v] = "commit" /\ job[v].op \in SealingOp \cup {"DISPATCH_JOURNEY", "LIST_ORDERS"}
    <3>1. PICK j \in Journey : j = job[v].journey
      BY <2>3, JobIsRequest, DispatchRequest DEF SealingOp, DispatchOp, JourneyOp, ManifestOp
    <3>2. PICK m \in Manifest : m = job[v].manifest
      BY <2>3, JobIsRequest, DispatchRequest DEF SealingOp, DispatchOp, JourneyOp, ManifestOp
    <3>3. journey[j] # Unread => journey'[j] # Unread
      BY DEF DispatchGrows
    <3>4. manifest[m] # Unread =>
             /\ manifest'[m] # Unread
             /\ manifest[m].orders # {} => manifest'[m].orders # {}
             /\ \/ manifest'[m].version > manifest[m].version
                \/ manifest'[m].version = manifest[m].version /\ manifest'[m].status = manifest[m].status
      BY DEF DispatchGrows
    <3>5. /\ manifest[m] # Unread => manifest[m].version \in Nat
          /\ manifest'[m] # Unread => manifest'[m].version \in Nat
          /\ saw[v] \in ManifestRow => saw[v].version \in Nat
      BY DEF DispatchInv, DispatchTypeOK, ManifestRow
    <3>6. CASE job[v].op \in SealingOp
      BY <2>1, <2>3, <3>2, <3>4, <3>5, <3>6 DEF DispatchFits, SealingOp
    <3>7. CASE job[v].op \in {"DISPATCH_JOURNEY", "LIST_ORDERS"}
      BY <2>1, <2>3, <3>1, <3>2, <3>3, <3>4, <3>7 DEF DispatchFits, SealingOp, CrewFor
    <3> QED
      BY <2>3, <3>6, <3>7
  <2> QED
    BY <2>2, <2>3
<1> QED
  BY <1>2 DEF DispatchInv

\* A step that leaves the rows alone.
LEMMA DispatchLooks ==
    ASSUME RequestsInv, DispatchInv, NEW w \in Worker, Handled(w), UNCHANGED dispatching, DispatchFits(w)'
    PROVE  DispatchInv'
<1>1. UNCHANGED <<journey, onJourney, manifest, announced>>
  BY DEF dispatching
<1>2. DispatchTypeOK' /\ CrewIsOnItsJourney' /\ ManifestsAgree' /\ DispatchGrows
  BY <1>1 DEF DispatchInv, DispatchTypeOK, CrewIsOnItsJourney, ManifestsAgree, DispatchGrows
<1>3. RowsToCome'
  BY <1>1, LiveShrinks DEF RequestsMove, DispatchInv, RowsToCome
<1> QED
  BY <1>2, <1>3, DispatchStepKeeps

LEMMA DispatchAnswers ==
    ASSUME RequestsInv, DispatchInv, NEW w \in Worker, pc[w] # "idle", Answer(w), UNCHANGED dispatching
    PROVE  DispatchInv'
<1>1. Handled(w) /\ pc'[w] = "idle"
  BY AnswerHandles, WhatIsAnswered
<1>2. DispatchFits(w)'
  BY <1>1 DEF DispatchFits
<1> QED
  BY <1>1, <1>2, DispatchLooks

\* The last step of a handler: rows are written, the others' copies age.
LEMMA DispatchWrites ==
    ASSUME RequestsInv, DispatchInv, NEW w \in Worker, pc[w] # "idle", Answer(w), DispatchGrows,
           DispatchTypeOK', CrewIsOnItsJourney', ManifestsAgree',
           \A q \in Live \ {job[w]} :
              /\ q.op = "PLAN_JOURNEY" /\ journey[q.journey] = Unread => journey'[q.journey] = Unread
              /\ q.op = "CREATE_MANIFEST" /\ manifest[q.manifest] = Unread => manifest'[q.manifest] = Unread
    PROVE  DispatchInv'
<1>1. Handled(w) /\ pc'[w] = "idle" /\ job[w] \notin Live'
  BY AnswerHandles, WhatIsAnswered, AnsweredIsGone
<1>2. DispatchFits(w)'
  BY <1>1 DEF DispatchFits
<1>3. RowsToCome'
  BY <1>1, LiveShrinks DEF RequestsMove, DispatchInv, RowsToCome
<1> QED
  BY <1>1, <1>2, <1>3, DispatchStepKeeps

LEMMA PlanJourneyKeeps ==
    ASSUME RequestsInv, DispatchInv, NEW w \in Worker, PlanJourney(w)
    PROVE  DispatchInv'
<1>1. job[w].op = "PLAN_JOURNEY" /\ pc[w] \in {"read", "commit"} /\ pc[w] # "idle"
  BY DEF PlanJourney, At
<1>2. job[w] \in Request /\ job[w] \in Live
  BY <1>1, JobIsRequest DEF Live
<1>3. PICK j \in Journey : j = job[w].journey
  BY <1>1, <1>2, DispatchRequest DEF DispatchOp, JourneyOp
<1>4. CASE pc[w] = "read"
  <2>1. UNCHANGED dispatching /\ (Answer(w) \/ See(w, Unread, "commit"))
    BY <1>1, <1>4 DEF PlanJourney, At, SeeIf
  <2>2. CASE See(w, Unread, "commit")
    <3>1. Handled(w) /\ job'[w] = job[w]
      BY <1>1, <2>2, SeeHandles, WhatIsSeen, StepNames
    <3>2. DispatchFits(w)'
      BY <1>1, <3>1 DEF DispatchFits, SealingOp
    <3> QED
      BY <2>1, <3>1, <3>2, DispatchLooks
  <2> QED
    BY <1>1, <2>1, <2>2, DispatchAnswers
<1>5. CASE pc[w] = "commit"
  <2> DEFINE new == [status |-> "PLANNED", squad |-> job[w].squad]
  <2>1. /\ journey' = [journey EXCEPT ![j] = new] /\ Answer(w)
        /\ UNCHANGED <<onJourney, manifest, announced>>
    BY <1>1, <1>3, <1>5 DEF PlanJourney, At
  <2>2. new \in JourneyRow
    BY <1>1, <1>2, DispatchRequest DEF JourneyRow, DispatchOp, JourneyOp
  <2> HIDE DEF new
  <2>3. journey[j] = Unread
    BY <1>1, <1>2, <1>3 DEF DispatchInv, RowsToCome
  <2>4. journey'[j] = new /\ (\A k \in Journey : k # j => journey'[k] = journey[k])
    BY <2>1 DEF DispatchInv, DispatchTypeOK
  <2>5. DispatchTypeOK'
    BY <2>1, <2>2 DEF DispatchInv, DispatchTypeOK
  <2>6. DispatchGrows
    <3>1. \A m \in Manifest : manifest[m] # Unread => manifest[m].version \in Nat
      BY DEF DispatchInv, DispatchTypeOK, ManifestRow
    <3> QED
      BY <2>1, <2>3, <2>4, <3>1 DEF DispatchGrows
  <2>7. CrewIsOnItsJourney'
    <3>1. ASSUME NEW s \in Squad, onJourney[s] # NoJourney
          PROVE  journey'[onJourney[s]] = [status |-> "IN_TRANSIT", squad |-> s]
      <4>1. journey[onJourney[s]] = [status |-> "IN_TRANSIT", squad |-> s] /\ onJourney[s] \in Journey
        BY <3>1 DEF DispatchInv, CrewIsOnItsJourney, DispatchTypeOK
      <4>2. [status |-> "IN_TRANSIT", squad |-> s] \in JourneyRow
        BY DEF JourneyRow
      <4>3. onJourney[s] # j
        BY <2>3, <4>1, <4>2, DispatchAssumption
      <4> QED
        BY <2>4, <4>1, <4>3
    <3> QED
      BY <2>1, <3>1 DEF CrewIsOnItsJourney
  <2>8. ManifestsAgree'
    BY <2>1 DEF DispatchInv, ManifestsAgree
  <2>9. ASSUME NEW q \in Live \ {job[w]}, q.op = "PLAN_JOURNEY"
        PROVE  q.journey # j /\ q.journey \in Journey
    BY <1>1, <1>2, <1>3, <2>9, DispatchAssumption, DispatchRequest DEF Live, DispatchOp, JourneyOp
  <2> QED
    BY <1>1, <2>1, <2>4, <2>5, <2>6, <2>7, <2>8, <2>9, DispatchWrites
<1> QED
  BY <1>1, <1>4, <1>5

LEMMA DispatchJourneyKeeps ==
    ASSUME RequestsInv, DispatchInv, NEW w \in Worker, DispatchJourney(w)
    PROVE  DispatchInv'
<1>1. job[w].op = "DISPATCH_JOURNEY" /\ pc[w] \in {"read", "commit"} /\ pc[w] # "idle"
  BY DEF DispatchJourney, At
<1>2. job[w] \in Request
  BY <1>1, JobIsRequest
<1>3. PICK j \in Journey : j = job[w].journey
  BY <1>1, <1>2, DispatchRequest DEF DispatchOp, JourneyOp
<1>4. CASE pc[w] = "read"
  <2>1. /\ UNCHANGED dispatching
        /\ \/ Answer(w)
           \/ /\ journey[j] # Unread /\ (job[w].squad # NoSquad \/ journey[j].squad # NoSquad)
              /\ See(w, journey[j], "commit")
    BY <1>1, <1>3, <1>4 DEF DispatchJourney, At, SeeIf
  <2>2. CASE /\ journey[j] # Unread /\ (job[w].squad # NoSquad \/ journey[j].squad # NoSquad)
             /\ See(w, journey[j], "commit")
    <3>1. Handled(w) /\ job'[w] = job[w] /\ saw'[w] = journey[j]
      BY <1>1, <2>2, SeeHandles, WhatIsSeen, StepNames
    <3>2. job[w].squad \in Squad \cup {NoSquad} /\ journey[j].squad \in Squad \cup {NoSquad}
      BY <1>1, <1>2, <2>2, DispatchRequest DEF DispatchOp, JourneyOp, DispatchInv, DispatchTypeOK, JourneyRow
    <3>3. CrewFor(w)' \in Squad
      BY <2>2, <3>1, <3>2 DEF CrewFor
    <3>4. DispatchFits(w)'
      BY <1>1, <1>3, <2>1, <2>2, <3>1, <3>3 DEF DispatchFits, SealingOp, dispatching
    <3> QED
      BY <2>1, <3>1, <3>4, DispatchLooks
  <2> QED
    BY <1>1, <2>1, <2>2, DispatchAnswers
<1>5. CASE pc[w] = "commit"
  <2>1. PICK s \in Squad : s = CrewFor(w)
    BY <1>1, <1>5 DEF DispatchInv, DispatchFits
  <2> DEFINE new == [status |-> "IN_TRANSIT", squad |-> s]
  <2>2. /\ journey' = [journey EXCEPT ![j] = new] /\ Answer(w)
        /\ \A other \in Squad \ {s} : onJourney[other] # j
        /\ onJourney' = [onJourney EXCEPT ![s] = j]
        /\ UNCHANGED <<manifest, announced>>
    BY <1>1, <1>3, <1>5, <2>1 DEF DispatchJourney, At, TakeCrew
  <2>3. new \in JourneyRow /\ new # Unread
    BY DispatchAssumption DEF JourneyRow
  <2>4. /\ journey'[j] = new /\ \A k \in Journey : k # j => journey'[k] = journey[k]
        /\ onJourney'[s] = j /\ \A other \in Squad : other # s => onJourney'[other] = onJourney[other]
    BY <2>2 DEF DispatchInv, DispatchTypeOK
  <2>5. DispatchTypeOK'
    BY <2>2, <2>3 DEF DispatchInv, DispatchTypeOK
  <2>6. DispatchGrows
    <3>1. \A m \in Manifest : manifest[m] # Unread => manifest[m].version \in Nat
      BY DEF DispatchInv, DispatchTypeOK, ManifestRow
    <3> QED
      BY <2>2, <2>3, <2>4, <3>1 DEF DispatchGrows
  <2>7. CrewIsOnItsJourney'
    <3>1. ASSUME NEW other \in Squad, onJourney'[other] # NoJourney
          PROVE  journey'[onJourney'[other]] = [status |-> "IN_TRANSIT", squad |-> other]
      <4>1. CASE other = s
        BY <2>4, <4>1
      <4>2. CASE other # s
        BY <2>2, <2>4, <3>1, <4>2 DEF DispatchInv, CrewIsOnItsJourney, DispatchTypeOK
      <4> QED
        BY <4>1, <4>2
    <3> QED
      BY <3>1 DEF CrewIsOnItsJourney
  <2>8. ManifestsAgree'
    BY <2>2 DEF DispatchInv, ManifestsAgree
  <2>9. journey[j] # Unread
    BY <1>1, <1>3, <1>5 DEF DispatchInv, DispatchFits
  <2>10. ASSUME NEW q \in Live \ {job[w]}, q.op = "PLAN_JOURNEY", journey[q.journey] = Unread
         PROVE  journey'[q.journey] = Unread
    <3>1. q.journey # j /\ q.journey \in Journey
      BY <2>9, <2>10, DispatchRequest DEF Live, DispatchOp, JourneyOp
    <3> QED
      BY <2>4, <2>10, <3>1
  <2> QED
    BY <1>1, <2>2, <2>5, <2>6, <2>7, <2>8, <2>10, DispatchWrites
<1> QED
  BY <1>1, <1>4, <1>5

LEMMA CreateManifestKeeps ==
    ASSUME RequestsInv, DispatchInv, NEW w \in Worker, CreateManifest(w)
    PROVE  DispatchInv'
<1>1. job[w].op = "CREATE_MANIFEST" /\ pc[w] # "idle"
  BY DEF CreateManifest, At
<1>2. job[w] \in Request /\ job[w] \in Live
  BY <1>1, JobIsRequest DEF Live
<1>3. PICK m \in Manifest : m = job[w].manifest
  BY <1>1, <1>2, DispatchRequest DEF DispatchOp, ManifestOp
<1> DEFINE new == [status |-> "DRAFT", version |-> 0, orders |-> job[w].cargo, journey |-> NoJourney]
<1>4. /\ manifest' = [manifest EXCEPT ![m] = new] /\ Answer(w)
      /\ UNCHANGED <<journey, onJourney, announced>>
  BY <1>3 DEF CreateManifest
<1>5. new \in ManifestRow /\ new.status = "DRAFT"
  BY <1>1, <1>2, DispatchRequest DEF ManifestRow, ManifestStatus, DispatchOp, ManifestOp
<1> HIDE DEF new
<1>6. manifest[m] = Unread
  BY <1>1, <1>2, <1>3 DEF DispatchInv, RowsToCome
<1>7. manifest'[m] = new /\ (\A k \in Manifest : k # m => manifest'[k] = manifest[k])
  BY <1>4 DEF DispatchInv, DispatchTypeOK
<1>8. DispatchTypeOK'
  BY <1>4, <1>5 DEF DispatchInv, DispatchTypeOK
<1>9. DispatchGrows
  <2>1. \A k \in Manifest : manifest[k] # Unread => manifest[k].version \in Nat
    BY DEF DispatchInv, DispatchTypeOK, ManifestRow
  <2> QED
    BY <1>4, <1>6, <1>7, <2>1 DEF DispatchGrows
<1>10. CrewIsOnItsJourney'
  BY <1>4 DEF DispatchInv, CrewIsOnItsJourney
<1>11. ManifestsAgree'
  <2>1. ASSUME NEW k \in Manifest
        PROVE  /\ announced'[k] = IF manifest'[k] # Unread /\ manifest'[k].status \in {"DISPATCHED", "COMPLETED"}
                                  THEN <<manifest'[k].journey>> ELSE <<>>
               /\ manifest'[k] # Unread /\ manifest'[k].status \in {"SEALED", "DISPATCHED", "COMPLETED"} =>
                     manifest'[k].orders # {}
    <3>1. CASE k = m
      BY <1>4, <1>5, <1>6, <1>7, <3>1 DEF DispatchInv, ManifestsAgree
    <3>2. CASE k # m
      BY <1>4, <1>7, <3>2 DEF DispatchInv, ManifestsAgree
    <3> QED
      BY <3>1, <3>2
  <2> QED
    BY <2>1 DEF ManifestsAgree
<1>12. ASSUME NEW q \in Live \ {job[w]}, q.op = "CREATE_MANIFEST"
       PROVE  q.manifest # m /\ q.manifest \in Manifest
  BY <1>1, <1>2, <1>3, <1>12, DispatchAssumption, DispatchRequest DEF Live, DispatchOp, ManifestOp
<1> QED
  BY <1>1, <1>4, <1>7, <1>8, <1>9, <1>10, <1>11, <1>12, DispatchWrites

\* A handler that reads its manifest, to write it at its version or to list
\* orders.
LEMMA ManifestIsRead ==
    ASSUME RequestsInv, DispatchInv, NEW w \in Worker, pc[w] = "read",
           job[w].op \in SealingOp \cup {"LIST_ORDERS"}, NEW ok, ReadManifest(w, ok),
           ok /\ manifest[job[w].manifest] # Unread =>
              /\ ManifestAllows(job[w].op, manifest[job[w].manifest].status)
              /\ job[w].op = "SEAL_MANIFEST" => manifest[job[w].manifest].orders # {}
    PROVE  DispatchInv'
<1>1. PICK m \in Manifest : m = job[w].manifest
  BY JobIsRequest, DispatchRequest DEF SealingOp, DispatchOp, ManifestOp
<1>2. UNCHANGED dispatching /\ (Answer(w) \/ (manifest[m] # Unread /\ ok /\ See(w, manifest[m], "commit")))
  BY <1>1 DEF ReadManifest, SeeIf
<1>3. CASE manifest[m] # Unread /\ ok /\ See(w, manifest[m], "commit")
  <2>1. Handled(w) /\ pc'[w] = "commit" /\ job'[w] = job[w] /\ saw'[w] = manifest[m]
    BY <1>3, SeeHandles, WhatIsSeen, StepNames
  <2>2. manifest[m] \in ManifestRow /\ manifest[m].version \in Nat
    BY <1>3 DEF DispatchInv, DispatchTypeOK, ManifestRow
  <2>3. DispatchFits(w)'
    BY <1>1, <1>2, <1>3, <2>1, <2>2 DEF DispatchFits, SealingOp, dispatching
  <2> QED
    BY <1>2, <2>1, <2>3, DispatchLooks
<1> QED
  BY <1>2, <1>3, DispatchAnswers

\* A write of an existing manifest that tells which trips were announced.
LEMMA ManifestIsWritten ==
    ASSUME RequestsInv, DispatchInv, NEW w \in Worker, pc[w] # "idle", Answer(w),
           NEW m \in Manifest, manifest[m] # Unread, UNCHANGED <<journey, onJourney>>,
           manifest' \in [Manifest -> ManifestRow \cup {Unread}], announced' \in [Manifest -> Seq(Journey)],
           \A k \in Manifest : k # m => manifest'[k] = manifest[k] /\ announced'[k] = announced[k],
           manifest'[m] # Unread,
           manifest[m].orders # {} => manifest'[m].orders # {},
           \/ manifest'[m].version > manifest[m].version
           \/ manifest'[m].version = manifest[m].version /\ manifest'[m].status = manifest[m].status,
           announced'[m] = IF manifest'[m].status \in {"DISPATCHED", "COMPLETED"}
                           THEN <<manifest'[m].journey>> ELSE <<>>,
           manifest'[m].status \in {"SEALED", "DISPATCHED", "COMPLETED"} => manifest'[m].orders # {}
    PROVE  DispatchInv'
<1>1. DispatchTypeOK' /\ CrewIsOnItsJourney'
  BY DEF DispatchInv, DispatchTypeOK, CrewIsOnItsJourney
<1>2. DispatchGrows
  <2>1. ASSUME NEW k \in Manifest, manifest[k] # Unread
        PROVE  /\ manifest'[k] # Unread
               /\ manifest[k].orders # {} => manifest'[k].orders # {}
               /\ \/ manifest'[k].version > manifest[k].version
                  \/ manifest'[k].version = manifest[k].version /\ manifest'[k].status = manifest[k].status
    <3>1. CASE k = m
      BY <3>1
    <3>2. CASE k # m
      BY <2>1, <3>2
    <3> QED
      BY <3>1, <3>2
  <2> QED
    BY <2>1 DEF DispatchGrows
<1>3. ManifestsAgree'
  <2>1. ASSUME NEW k \in Manifest
        PROVE  /\ announced'[k] = IF manifest'[k] # Unread /\ manifest'[k].status \in {"DISPATCHED", "COMPLETED"}
                                  THEN <<manifest'[k].journey>> ELSE <<>>
               /\ manifest'[k] # Unread /\ manifest'[k].status \in {"SEALED", "DISPATCHED", "COMPLETED"} =>
                     manifest'[k].orders # {}
    <3>1. CASE k = m
      BY <3>1
    <3>2. CASE k # m
      BY <3>2 DEF DispatchInv, ManifestsAgree
    <3> QED
      BY <3>1, <3>2
  <2> QED
    BY <2>1 DEF ManifestsAgree
<1>4. ASSUME NEW q \in Live \ {job[w]}, q.op = "CREATE_MANIFEST", manifest[q.manifest] = Unread
      PROVE  manifest'[q.manifest] = Unread
  <2>1. q.manifest # m /\ q.manifest \in Manifest
    BY <1>4, DispatchRequest DEF Live, DispatchOp, ManifestOp
  <2> QED
    BY <1>4, <2>1
<1> QED
  BY <1>1, <1>2, <1>3, <1>4, DispatchWrites

\* A write at the version read finds the manifest in the status read.
LEMMA ManifestIsUpdated ==
    ASSUME RequestsInv, DispatchInv, NEW w \in Worker, pc[w] = "commit", job[w].op \in SealingOp,
           NEW m \in Manifest, m = job[w].manifest, NEW status \in ManifestStatus,
           NEW j \in Journey \cup {NoJourney}, UpdateManifest(w, status, j)
    PROVE  /\ manifest[m] # Unread /\ ManifestAllows(job[w].op, manifest[m].status)
           /\ job[w].op = "SEAL_MANIFEST" => manifest[m].orders # {}
           /\ manifest' \in [Manifest -> ManifestRow \cup {Unread}]
           /\ \A k \in Manifest : k # m => manifest'[k] = manifest[k]
           /\ manifest'[m] # Unread /\ manifest'[m].status = status /\ manifest'[m].journey = j
           /\ manifest'[m].orders = manifest[m].orders /\ manifest'[m].version > manifest[m].version
<1>1. /\ manifest[m] # Unread /\ ManifestAllows(job[w].op, manifest[m].status)
      /\ job[w].op = "SEAL_MANIFEST" => manifest[m].orders # {}
  BY DEF UpdateManifest, DispatchInv, DispatchFits
<1>2. manifest[m] \in ManifestRow
  BY <1>1 DEF DispatchInv, DispatchTypeOK
<1>3. manifest[m].version \in Nat /\ manifest[m].version + 1 \in Nat
  BY <1>2 DEF ManifestRow
<1>4. /\ \A k \in Manifest : k # m => manifest'[k] = manifest[k]
      /\ manifest'[m].status = status /\ manifest'[m].journey = j
      /\ manifest'[m].orders = manifest[m].orders /\ manifest'[m].version = manifest[m].version + 1
      /\ manifest'[m] \in ManifestRow
  BY <1>2, <1>3 DEF UpdateManifest, ManifestRow, DispatchInv, DispatchTypeOK
<1>5. manifest' \in [Manifest -> ManifestRow \cup {Unread}]
  BY <1>4 DEF UpdateManifest, DispatchInv, DispatchTypeOK
<1>6. manifest'[m] # Unread
  BY <1>4, DispatchAssumption
<1> QED
  BY <1>1, <1>3, <1>4, <1>5, <1>6

LEMMA AddOrdersKeeps ==
    ASSUME RequestsInv, DispatchInv, NEW w \in Worker, AddOrders(w)
    PROVE  DispatchInv'
<1>1. job[w].op = "LIST_ORDERS" /\ pc[w] \in {"read", "commit"} /\ pc[w] # "idle"
  BY DEF AddOrders, At
<1>2. PICK m \in Manifest : m = job[w].manifest
  BY <1>1, JobIsRequest, DispatchRequest DEF DispatchOp, ManifestOp
<1>3. CASE pc[w] = "read"
  BY <1>1, <1>3, ManifestIsRead DEF AddOrders, At, ManifestAllows
<1>4. CASE pc[w] = "commit"
  <2>1. /\ manifest' = [manifest EXCEPT ![m].orders = @ \cup job[w].cargo] /\ Answer(w)
        /\ UNCHANGED <<journey, onJourney, announced>>
    BY <1>1, <1>2, <1>4 DEF AddOrders, At
  <2>2. manifest[m] # Unread
    BY <1>1, <1>2, <1>4 DEF DispatchInv, DispatchFits
  <2>3. manifest[m] \in ManifestRow /\ job[w].cargo \in SUBSET Cargo
    BY <1>1, <2>2, JobIsRequest, DispatchRequest
       DEF DispatchInv, DispatchTypeOK, DispatchOp, ManifestOp
  <2>4. /\ \A k \in Manifest : k # m => manifest'[k] = manifest[k]
        /\ manifest'[m].status = manifest[m].status /\ manifest'[m].journey = manifest[m].journey
        /\ manifest'[m].orders = manifest[m].orders \cup job[w].cargo
        /\ manifest'[m].version = manifest[m].version
        /\ manifest'[m] \in ManifestRow
    BY <2>1, <2>3 DEF ManifestRow, DispatchInv, DispatchTypeOK
  <2>5. manifest' \in [Manifest -> ManifestRow \cup {Unread}] /\ manifest'[m] # Unread
    BY <2>1, <2>4, DispatchAssumption DEF DispatchInv, DispatchTypeOK
  <2>6. manifest[m].orders # {} => manifest'[m].orders # {}
    BY <2>4
  <2>7. announced' \in [Manifest -> Seq(Journey)] /\ \A k \in Manifest : announced'[k] = announced[k]
    BY <2>1 DEF DispatchInv, DispatchTypeOK
  <2>8. /\ announced'[m] = IF manifest'[m].status \in {"DISPATCHED", "COMPLETED"}
                           THEN <<manifest'[m].journey>> ELSE <<>>
        /\ manifest'[m].status \in {"SEALED", "DISPATCHED", "COMPLETED"} => manifest'[m].orders # {}
    BY <2>1, <2>2, <2>4, <2>6 DEF DispatchInv, ManifestsAgree
  <2> QED
    BY <1>1, <2>1, <2>2, <2>4, <2>5, <2>6, <2>7, <2>8, ManifestIsWritten
<1> QED
  BY <1>1, <1>3, <1>4

\* What the handlers of a manifest ask of its status.
LEMMA ManifestMay ==
    ASSUME DispatchInv, NEW w \in Worker, job[w].manifest \in Manifest, manifest[job[w].manifest] # Unread
    PROVE  /\ MayBecome(w, "SEALED") => manifest[job[w].manifest].status = "DRAFT"
           /\ MayBecome(w, "DISPATCHED") => manifest[job[w].manifest].status = "SEALED"
           /\ MayBecome(w, "COMPLETED") => manifest[job[w].manifest].status = "DISPATCHED"
<1>1. manifest[job[w].manifest].status \in ManifestStatus
  BY DEF DispatchInv, DispatchTypeOK, ManifestRow
<1> QED
  BY <1>1 DEF MayBecome, MANIFEST_TRANSITIONS, ManifestStatus

LEMMA SealManifestKeeps ==
    ASSUME RequestsInv, DispatchInv, NEW w \in Worker, SealManifest(w)
    PROVE  DispatchInv'
<1>1. job[w].op = "SEAL_MANIFEST" /\ pc[w] \in {"read", "commit"} /\ pc[w] # "idle"
  BY DEF SealManifest, At
<1>2. PICK m \in Manifest : m = job[w].manifest
  BY <1>1, JobIsRequest, DispatchRequest DEF DispatchOp, ManifestOp
<1>3. job[w].op \in SealingOp
  BY <1>1 DEF SealingOp
<1>4. CASE pc[w] = "read"
  BY <1>1, <1>2, <1>3, <1>4, ManifestIsRead, ManifestMay DEF SealManifest, At, ManifestAllows
<1>5. CASE pc[w] = "commit"
  <2>1. UpdateManifest(w, "SEALED", NoJourney) /\ Answer(w) /\ UNCHANGED <<journey, onJourney, announced>>
    BY <1>1, <1>5 DEF SealManifest, At
  <2>2. /\ manifest[m] # Unread /\ manifest[m].status = "DRAFT" /\ manifest[m].orders # {}
        /\ manifest' \in [Manifest -> ManifestRow \cup {Unread}]
        /\ \A k \in Manifest : k # m => manifest'[k] = manifest[k]
        /\ manifest'[m] # Unread /\ manifest'[m].status = "SEALED"
        /\ manifest'[m].orders = manifest[m].orders /\ manifest'[m].version > manifest[m].version
    <3>1. "SEALED" \in ManifestStatus
      BY DEF ManifestStatus
    <3> QED
      BY <1>1, <1>2, <1>3, <1>5, <2>1, <3>1, ManifestIsUpdated DEF ManifestAllows
  <2>3. announced' \in [Manifest -> Seq(Journey)] /\ \A k \in Manifest : announced'[k] = announced[k]
    BY <2>1 DEF DispatchInv, DispatchTypeOK
  <2>4. announced'[m] = <<>>
    BY <2>2, <2>3 DEF DispatchInv, ManifestsAgree
  <2> QED
    BY <1>1, <2>1, <2>2, <2>3, <2>4, ManifestIsWritten
<1> QED
  BY <1>1, <1>4, <1>5

LEMMA DispatchManifestKeeps ==
    ASSUME RequestsInv, DispatchInv, NEW w \in Worker, DispatchManifest(w)
    PROVE  DispatchInv'
<1>1. job[w].op = "DISPATCH_MANIFEST" /\ pc[w] \in {"read", "commit"} /\ pc[w] # "idle"
  BY DEF DispatchManifest, At
<1>2. PICK m \in Manifest : m = job[w].manifest
  BY <1>1, JobIsRequest, DispatchRequest DEF DispatchOp, ManifestOp
<1>3. PICK j \in Journey : j = job[w].journey
  BY <1>1, JobIsRequest, DispatchRequest DEF DispatchOp, ManifestOp
<1>4. job[w].op \in SealingOp
  BY <1>1 DEF SealingOp
<1>5. CASE pc[w] = "read"
  BY <1>1, <1>2, <1>4, <1>5, ManifestIsRead, ManifestMay DEF DispatchManifest, At, ManifestAllows
<1>6. CASE pc[w] = "commit"
  <2>1. /\ UpdateManifest(w, "DISPATCHED", j) /\ Answer(w) /\ UNCHANGED <<journey, onJourney>>
        /\ announced' = [announced EXCEPT ![m] = Append(@, j)]
    BY <1>1, <1>2, <1>3, <1>6 DEF DispatchManifest, At
  <2>2. /\ manifest[m] # Unread /\ manifest[m].status = "SEALED"
        /\ manifest' \in [Manifest -> ManifestRow \cup {Unread}]
        /\ \A k \in Manifest : k # m => manifest'[k] = manifest[k]
        /\ manifest'[m] # Unread /\ manifest'[m].status = "DISPATCHED" /\ manifest'[m].journey = j
        /\ manifest'[m].orders = manifest[m].orders /\ manifest'[m].version > manifest[m].version
    <3>1. "DISPATCHED" \in ManifestStatus
      BY DEF ManifestStatus
    <3> QED
      BY <1>1, <1>2, <1>4, <1>6, <2>1, <3>1, ManifestIsUpdated DEF ManifestAllows
  <2>3. announced[m] = <<>> /\ manifest[m].orders # {}
    BY <2>2 DEF DispatchInv, ManifestsAgree
  <2>4. Append(announced[m], j) = <<j>> /\ <<j>> \in Seq(Journey)
    BY <2>3
  <2>5. /\ announced' \in [Manifest -> Seq(Journey)] /\ announced'[m] = <<j>>
        /\ \A k \in Manifest : k # m => announced'[k] = announced[k]
    BY <2>1, <2>4 DEF DispatchInv, DispatchTypeOK
  <2> QED
    BY <1>1, <2>1, <2>2, <2>3, <2>5, ManifestIsWritten
<1> QED
  BY <1>1, <1>5, <1>6

LEMMA CompleteManifestKeeps ==
    ASSUME RequestsInv, DispatchInv, NEW w \in Worker, CompleteManifest(w)
    PROVE  DispatchInv'
<1>1. job[w].op = "COMPLETE_MANIFEST" /\ pc[w] \in {"read", "commit"} /\ pc[w] # "idle"
  BY DEF CompleteManifest, At
<1>2. PICK m \in Manifest : m = job[w].manifest
  BY <1>1, JobIsRequest, DispatchRequest DEF DispatchOp, ManifestOp
<1>3. job[w].op \in SealingOp
  BY <1>1 DEF SealingOp
<1>4. CASE pc[w] = "read"
  BY <1>1, <1>2, <1>3, <1>4, ManifestIsRead, ManifestMay DEF CompleteManifest, At, ManifestAllows
<1>5. CASE pc[w] = "commit"
  <2>1. /\ UpdateManifest(w, "COMPLETED", manifest[m].journey) /\ Answer(w)
        /\ UNCHANGED <<journey, onJourney, announced>>
    BY <1>1, <1>2, <1>5 DEF CompleteManifest, At
  <2>2. manifest[m] # Unread
    BY <1>2, <1>3, <1>5 DEF DispatchInv, DispatchFits
  <2>3. PICK j \in Journey \cup {NoJourney} : j = manifest[m].journey
    BY <2>2 DEF DispatchInv, DispatchTypeOK, ManifestRow
  <2>4. /\ manifest[m].status = "DISPATCHED"
        /\ manifest' \in [Manifest -> ManifestRow \cup {Unread}]
        /\ \A k \in Manifest : k # m => manifest'[k] = manifest[k]
        /\ manifest'[m] # Unread /\ manifest'[m].status = "COMPLETED" /\ manifest'[m].journey = j
        /\ manifest'[m].orders = manifest[m].orders /\ manifest'[m].version > manifest[m].version
    <3>1. "COMPLETED" \in ManifestStatus
      BY DEF ManifestStatus
    <3> QED
      BY <1>1, <1>2, <1>3, <1>5, <2>1, <2>3, <3>1, ManifestIsUpdated DEF ManifestAllows
  <2>5. announced' \in [Manifest -> Seq(Journey)] /\ \A k \in Manifest : announced'[k] = announced[k]
    BY <2>1 DEF DispatchInv, DispatchTypeOK
  <2>6. announced'[m] = <<j>> /\ manifest[m].orders # {}
    BY <2>2, <2>3, <2>4, <2>5 DEF DispatchInv, ManifestsAgree
  <2> QED
    BY <1>1, <2>1, <2>2, <2>4, <2>5, <2>6, ManifestIsWritten
<1> QED
  BY <1>1, <1>4, <1>5

LEMMA DispatchKeeps ==
    ASSUME RequestsInv, DispatchInv, DispatchRests \/ (\E w \in Worker : DispatchStep(w))
    PROVE  DispatchInv'
<1>1. CASE DispatchRests
  BY <1>1, DispatchRestsKeeps
<1>2. ASSUME NEW w \in Worker, DispatchStep(w)
      PROVE  DispatchInv'
  <2>1. CASE DispatchFails(w)
    BY <2>1, DispatchAnswers DEF DispatchFails
  <2> QED
    BY <1>2, <2>1, PlanJourneyKeeps, DispatchJourneyKeeps, CreateManifestKeeps, AddOrdersKeeps,
       SealManifestKeeps, DispatchManifestKeeps, CompleteManifestKeeps DEF DispatchStep
<1> QED
  BY <1>1, <1>2

LEMMA DispatchStart == RequestsInit /\ DispatchInit => DispatchInv
<1> SUFFICES ASSUME RequestsInit, DispatchInit
             PROVE  DispatchInv
  OBVIOUS
<1>1. DispatchTypeOK
  <2>1. <<>> \in Seq(Journey)
    OBVIOUS
  <2> QED
    BY <2>1 DEF DispatchInit, DispatchTypeOK
<1>2. RowsToCome
  BY DispatchRequest DEF Live, DispatchInit, RowsToCome, DispatchOp, JourneyOp, ManifestOp
<1>3. CrewIsOnItsJourney /\ ManifestsAgree
  BY DEF DispatchInit, CrewIsOnItsJourney, ManifestsAgree
<1>4. \A w \in Worker : DispatchFits(w)
  BY DEF RequestsInit, DispatchFits
<1> QED
  BY <1>1, <1>2, <1>3, <1>4 DEF DispatchInv

LEMMA DispatchHolds == BackOfficeSpec => [](RequestsInv /\ DispatchInv)
<1>1. BackOfficeInit => RequestsInv /\ DispatchInv
  BY RequestsStart, DispatchStart DEF BackOfficeInit
<1>2. RequestsInv /\ DispatchInv /\ [BackOfficeNext]_<<requests, business>> => (RequestsInv /\ DispatchInv)'
  <2>1. ASSUME RequestsInv, DispatchInv, BackOfficeNext
        PROVE  RequestsInv' /\ DispatchInv'
    BY <2>1, BackOfficeMoves, RequestsKept, DispatchKeeps
  <2>2. ASSUME RequestsInv, DispatchInv, UNCHANGED <<requests, business>>
        PROVE  RequestsInv' /\ DispatchInv'
    BY <2>2, BackOfficeStutters, RequestsKept, DispatchKeeps DEF AllRest, FleetRests
  <2> QED
    BY <2>1, <2>2
<1> QED
  BY <1>1, <1>2, PTL DEF BackOfficeSpec

\* However dispatches of one trip or of one manifest run together, a crew is
\* on the trip that names it, and a manifest goes once, with the trip that
\* was announced and never empty (DispatchedOnce of Dispatching).
THEOREM DispatchesOnce == BackOfficeSpec => []DispatchedOnce
<1>1. DispatchInv => DispatchedOnce
  BY DEF DispatchInv, ManifestsAgree, DispatchedOnce, ManifestGoesOnce
<1> QED
  BY <1>1, DispatchHolds, PTL

-----------------------------------------------------------------------------
(***************************************************************************)
(* Substitutions: a decision holds a copy of the proposal, which is the    *)
(* proposal as long as the version is the one read; until a proposal is    *)
(* approved, pick list and order line are as they were ordered.            *)
(***************************************************************************)
SubstitutionFits(w) ==
    /\ pc[w] \in {"check", "commit"} /\ job[w].op = "SUGGEST" => saw[w] \in SparePart
    /\ pc[w] = "commit" /\ job[w].op \in {"APPROVE_SUB", "REJECT_SUB"} =>
          LET s == proposal[job[w].item] IN
          /\ s # Unread /\ saw[w] \in Proposal
          /\ saw[w].version <= s.version
          /\ saw[w].version = s.version => saw[w] = s
          /\ saw[w].status = "PENDING"

ItemAsAgreed(i) ==
    LET s == proposal[i] IN
    IF s # Unread /\ s.status = "APPROVED"
    THEN /\ picking[i].part = s.part /\ agreed[i] = 1
         /\ line[i].part = IF s.delta = 0 THEN PartOf[i] ELSE s.part
         /\ line[i].price - AgreedPrice[i] \in {0, s.delta}
    ELSE picking[i].part = PartOf[i] /\ line[i] = AsOrdered(i) /\ agreed[i] = 0

SubstitutionInv ==
    /\ SubstitutionTypeOK
    /\ \A w \in Worker : SubstitutionFits(w)
    /\ \A i \in PickItem : ItemAsAgreed(i)

ProposalsGrow ==
    \A i \in PickItem : proposal[i] # Unread =>
        proposal'[i] = proposal[i] \/ (proposal'[i] # Unread /\ proposal'[i].version > proposal[i].version)

LEMMA SubstitutionRequest ==
    ASSUME NEW r \in Request
    PROVE  /\ r.op \in SubstitutionOp => r.item \in PickItem /\ r.part \in SparePart
           /\ r.op \in PickOp => r.item \in PickItem /\ r.picked \in Nat
BY SubstitutionAssumption

LEMMA SubstitutionRestsKeeps ==
    ASSUME RequestsInv, SubstitutionInv, SubstitutionRests
    PROVE  SubstitutionInv'
<1>1. UNCHANGED <<picking, proposal, line, agreed>> /\ Elsewhere(SubstitutionOp \cup PickOp)
  BY DEF SubstitutionRests, substitutions
<1>2. SubstitutionTypeOK' /\ \A i \in PickItem : ItemAsAgreed(i)'
  BY <1>1 DEF SubstitutionInv, SubstitutionTypeOK, ItemAsAgreed, AsOrdered
<1>3. ASSUME NEW v \in Worker
      PROVE  SubstitutionFits(v)'
  <2>1. SubstitutionFits(v)
    BY DEF SubstitutionInv
  <2>2. CASE Rests(v)
    BY <1>1, <2>1, <2>2 DEF Rests, SubstitutionFits
  <2>3. CASE ~ Rests(v)
    BY <1>1, <2>3 DEF Elsewhere, SubstitutionFits, SubstitutionOp
  <2> QED
    BY <2>2, <2>3
<1> QED
  BY <1>2, <1>3 DEF SubstitutionInv

LEMMA SubstitutionStepKeeps ==
    ASSUME RequestsInv, SubstitutionInv, NEW w \in Worker, Handled(w), ProposalsGrow,
           SubstitutionTypeOK', \A i \in PickItem : ItemAsAgreed(i)', SubstitutionFits(w)'
    PROVE  SubstitutionInv'
<1>1. \A v \in Worker \ {w} : Rests(v)
  BY OthersRest
<1>2. ASSUME NEW v \in Worker, v # w
      PROVE  SubstitutionFits(v)'
  <2>1. SubstitutionFits(v) /\ Rests(v)
    BY <1>1, <1>2 DEF SubstitutionInv
  <2>2. ASSUME pc[v] = "commit", job[v].op \in {"APPROVE_SUB", "REJECT_SUB"}
        PROVE  SubstitutionFits(v)'
    <3> DEFINE i == job[v].item
    <3>1. i \in PickItem
      BY <2>2, JobIsRequest, SubstitutionRequest DEF SubstitutionOp
    <3>2. /\ saw[v] \in Proposal /\ proposal[i] \in Proposal /\ proposal'[i] \in Proposal
          /\ proposal'[i] # Unread
          /\ proposal'[i] = proposal[i] \/ proposal'[i].version > proposal[i].version
      BY <2>1, <2>2, <3>1 DEF SubstitutionFits, SubstitutionInv, SubstitutionTypeOK, ProposalsGrow
    <3>3. saw[v].version \in Nat /\ proposal[i].version \in Nat /\ proposal'[i].version \in Nat
      BY <3>2 DEF Proposal
    <3> QED
      BY <2>1, <2>2, <3>2, <3>3 DEF Rests, SubstitutionFits
  <2> QED
    BY <2>1, <2>2 DEF Rests, SubstitutionFits
<1> QED
  BY <1>2 DEF SubstitutionInv

\* A step that leaves the rows alone: only what the handler knows counts.
LEMMA SubstitutionLooks ==
    ASSUME RequestsInv, SubstitutionInv, NEW w \in Worker, Handled(w), UNCHANGED substitutions,
           SubstitutionFits(w)'
    PROVE  SubstitutionInv'
<1>1. UNCHANGED <<picking, proposal, line, agreed>>
  BY DEF substitutions
<1>2. SubstitutionTypeOK' /\ ProposalsGrow /\ \A i \in PickItem : ItemAsAgreed(i)'
  BY <1>1 DEF SubstitutionInv, SubstitutionTypeOK, ItemAsAgreed, AsOrdered, ProposalsGrow
<1> QED
  BY <1>2, SubstitutionStepKeeps

LEMMA SubstitutionAnswers ==
    ASSUME RequestsInv, SubstitutionInv, NEW w \in Worker, pc[w] # "idle", Answer(w),
           UNCHANGED substitutions
    PROVE  SubstitutionInv'
<1>1. Handled(w) /\ pc'[w] = "idle"
  BY AnswerHandles, WhatIsAnswered
<1>2. SubstitutionFits(w)'
  BY <1>1 DEF SubstitutionFits
<1> QED
  BY <1>1, <1>2, SubstitutionLooks

LEMMA PickOneKeeps ==
    ASSUME RequestsInv, SubstitutionInv, NEW w \in Worker, PickOne(w)
    PROVE  SubstitutionInv'
<1>1. pc[w] # "idle" /\ job[w].op \in PickOp /\ Answer(w) /\ UNCHANGED <<proposal, line, agreed>>
  BY DEF PickOne, At, PickOp
<1>2. PICK i \in PickItem : i = job[w].item /\ job[w].picked \in Nat
  BY <1>1, JobIsRequest, SubstitutionRequest
<1> DEFINE s == CASE job[w].picked >= Needed[i] -> "PICKED"
                  [] job[w].picked \in 1..(Needed[i] - 1) -> "SHORTAGE"
                  [] OTHER -> "PENDING"
<1>3. /\ picking' = [picking EXCEPT ![i] = [picking[i] EXCEPT !.picked = job[w].picked, !.status = s]]
      /\ s \in {"PENDING", "PICKED", "SHORTAGE"}
  <2>1. picking' = [picking EXCEPT ![i] = [picking[i] EXCEPT !.picked = job[w].picked, !.status = s]]
    BY <1>2 DEF PickOne
  <2>2. s \in {"PENDING", "PICKED", "SHORTAGE"}
    OBVIOUS
  <2> QED
    BY <2>1, <2>2
<1> HIDE DEF s
<1>4. picking[i] \in Pickable
  BY DEF SubstitutionInv, SubstitutionTypeOK
<1>5. [picking[i] EXCEPT !.picked = job[w].picked, !.status = s] \in Pickable
  BY <1>2, <1>3, <1>4 DEF Pickable
<1>6. picking' \in [PickItem -> Pickable] /\ \A k \in PickItem : picking'[k].part = picking[k].part
  BY <1>3, <1>4, <1>5 DEF SubstitutionInv, SubstitutionTypeOK, Pickable
<1>7. SubstitutionTypeOK' /\ ProposalsGrow
  BY <1>1, <1>6 DEF SubstitutionInv, SubstitutionTypeOK, ProposalsGrow
<1>8. \A k \in PickItem : ItemAsAgreed(k)'
  BY <1>1, <1>6 DEF SubstitutionInv, ItemAsAgreed, AsOrdered
<1>9. Handled(w) /\ pc'[w] = "idle"
  BY <1>1, AnswerHandles, WhatIsAnswered
<1>10. SubstitutionFits(w)'
  BY <1>9 DEF SubstitutionFits
<1> QED
  BY <1>7, <1>8, <1>9, <1>10, SubstitutionStepKeeps

LEMMA SuggestKeeps ==
    ASSUME RequestsInv, SubstitutionInv, NEW w \in Worker, Suggest(w)
    PROVE  SubstitutionInv'
<1>1. pc[w] # "idle" /\ job[w].op = "SUGGEST"
  BY DEF Suggest, At
<1>2. PICK i \in PickItem : i = job[w].item /\ job[w].part \in SparePart
  BY <1>1, JobIsRequest, SubstitutionRequest DEF SubstitutionOp
<1>3. picking[i].part \in SparePart
  BY DEF SubstitutionInv, SubstitutionTypeOK, Pickable
<1>4. CASE pc[w] \in {"read", "check"}
  <2>1. /\ UNCHANGED substitutions
        /\ \/ Answer(w)
           \/ pc[w] = "read" /\ See(w, picking[i].part, "check")
           \/ pc[w] = "check" /\ See(w, saw[w], "commit")
    BY <1>2, <1>4 DEF Suggest, At, SeeIf
  <2>2. pc[w] = "check" => saw[w] \in SparePart
    BY <1>1 DEF SubstitutionInv, SubstitutionFits
  <2>3. ASSUME NEW x \in SparePart, NEW p \in {"check", "commit"}, See(w, x, p)
        PROVE  Handled(w) /\ SubstitutionFits(w)'
    <3>1. p \in Step \ {"idle", "read"}
      BY StepNames
    <3>2. Handled(w) /\ job'[w] = job[w] /\ saw'[w] = x
      BY <1>1, <2>3, <3>1, SeeHandles, WhatIsSeen
    <3> QED
      BY <1>1, <2>3, <3>2 DEF SubstitutionFits
  <2> QED
    BY <1>1, <1>3, <2>1, <2>2, <2>3, SubstitutionAnswers, SubstitutionLooks
<1>5. CASE pc[w] = "commit"
  <2>1. saw[w] \in SparePart
    BY <1>1, <1>5 DEF SubstitutionInv, SubstitutionFits
  <2> DEFINE new == [part |-> job[w].part, delta |-> Price[job[w].part] - Price[saw[w]],
                     status |-> "PENDING", version |-> 0]
  <2>2. /\ proposal[i] = Unread /\ proposal' = [proposal EXCEPT ![i] = new]
        /\ Answer(w) /\ UNCHANGED <<picking, line, agreed>>
    BY <1>2, <1>5 DEF Suggest, At
  <2>3. new \in Proposal /\ new.status = "PENDING"
    <3>1. Price[job[w].part] \in Nat /\ Price[saw[w]] \in Nat
      BY <1>2, <2>1, SubstitutionAssumption
    <3>2. Price[job[w].part] - Price[saw[w]] \in Int
      BY <3>1
    <3> QED
      BY <1>2, <3>2 DEF Proposal
  <2> HIDE DEF new
  <2>4. \A k \in PickItem : proposal'[k] = IF k = i THEN new ELSE proposal[k]
    BY <2>2 DEF SubstitutionInv, SubstitutionTypeOK
  <2>5. SubstitutionTypeOK'
    BY <2>2, <2>3 DEF SubstitutionInv, SubstitutionTypeOK
  <2>6. Handled(w) /\ pc'[w] = "idle"
    BY <1>1, <2>2, AnswerHandles, WhatIsAnswered
  <2>7. ProposalsGrow /\ SubstitutionFits(w)'
    BY <2>2, <2>4, <2>6 DEF ProposalsGrow, SubstitutionFits
  <2>8. \A k \in PickItem : ItemAsAgreed(k)'
    BY <2>2, <2>3, <2>4 DEF SubstitutionInv, ItemAsAgreed, AsOrdered
  <2> QED
    BY <2>5, <2>6, <2>7, <2>8, SubstitutionStepKeeps
<1> QED
  BY <1>4, <1>5 DEF Suggest, At

LEMMA ProposalIsRead ==
    ASSUME RequestsInv, SubstitutionInv, NEW w \in Worker, pc[w] # "idle",
           job[w].op \in {"APPROVE_SUB", "REJECT_SUB"}, NEW to, ReadProposal(w, to)
    PROVE  SubstitutionInv'
<1>1. PICK i \in PickItem : i = job[w].item
  BY JobIsRequest, SubstitutionRequest DEF SubstitutionOp
<1> DEFINE ok == proposal[i] # Unread /\ to \in SUBSTITUTION_TRANSITIONS[proposal[i].status]
<1>2. UNCHANGED substitutions /\ (Answer(w) \/ (ok /\ See(w, proposal[i], "commit")))
  BY <1>1 DEF ReadProposal, SeeIf
<1>3. ASSUME ok, See(w, proposal[i], "commit")
      PROVE  Handled(w) /\ SubstitutionFits(w)'
  <2>1. Handled(w) /\ job'[w] = job[w] /\ saw'[w] = proposal[i]
    BY <1>3, SeeHandles, WhatIsSeen, StepNames
  <2>2. proposal[i] \in Proposal
    BY <1>3 DEF SubstitutionInv, SubstitutionTypeOK
  <2>3. proposal[i].status = "PENDING" /\ proposal[i].version \in Nat
    BY <1>3, <2>2 DEF Proposal, SUBSTITUTION_TRANSITIONS
  <2>4. proposal' = proposal
    BY <1>2 DEF substitutions
  <2> QED
    BY <1>1, <1>3, <2>1, <2>2, <2>3, <2>4 DEF SubstitutionFits
<1> QED
  BY <1>2, <1>3, SubstitutionAnswers, SubstitutionLooks

\* A decision at the version read: the copy is the proposal, still PENDING.
LEMMA ProposalIsDecided ==
    ASSUME RequestsInv, SubstitutionInv, NEW w \in Worker, pc[w] = "commit",
           job[w].op \in {"APPROVE_SUB", "REJECT_SUB"}, Answer(w),
           NEW status \in {"APPROVED", "REJECTED"}, Decide(w, status),
           NEW i \in PickItem, i = job[w].item,
           picking' = IF status = "APPROVED"
                      THEN [picking EXCEPT ![i] = [part |-> saw[w].part, picked |-> Needed[i], status |-> "PICKED"]]
                      ELSE picking,
           line' = IF status = "APPROVED" THEN [line EXCEPT ![i] = Reprice(i, saw[w])] ELSE line,
           agreed' = IF status = "APPROVED" THEN [agreed EXCEPT ![i] = agreed[i] + 1] ELSE agreed
    PROVE  SubstitutionInv'
<1>1. proposal[i] \in Proposal /\ proposal[i] # Unread /\ saw[w] = proposal[i] /\ proposal[i].status = "PENDING"
  BY DEF SubstitutionInv, SubstitutionTypeOK, SubstitutionFits, Decide
<1>2. proposal[i].version + 1 \in Nat /\ proposal[i].version \in Nat /\ proposal[i].delta \in Int
      /\ proposal[i].part \in SparePart
  BY <1>1 DEF Proposal
<1>3. /\ \A k \in PickItem : k # i => proposal'[k] = proposal[k]
      /\ proposal'[i].status = status /\ proposal'[i].version = proposal[i].version + 1
      /\ proposal'[i].part = proposal[i].part /\ proposal'[i].delta = proposal[i].delta
      /\ proposal'[i] \in Proposal
  BY <1>1, <1>2 DEF Decide, Proposal, SubstitutionInv, SubstitutionTypeOK
<1>4. proposal' \in [PickItem -> Proposal \cup {Unread}]
  BY <1>3 DEF Decide, SubstitutionInv, SubstitutionTypeOK
<1>5. proposal'[i] # Unread
  BY <1>3, SubstitutionAssumption
<1>6. picking[i].part = PartOf[i] /\ line[i] = AsOrdered(i) /\ agreed[i] = 0
  BY <1>1 DEF SubstitutionInv, ItemAsAgreed
<1>7. /\ Needed[i] \in Nat /\ AgreedPrice[i] \in Nat /\ PartOf[i] \in SparePart
      /\ line[i].part = PartOf[i] /\ line[i].price = AgreedPrice[i]
  BY <1>6, SubstitutionAssumption DEF AsOrdered
<1> DEFINE taken == [part |-> saw[w].part, picked |-> Needed[i], status |-> "PICKED"]
           d == proposal[i].delta
           newPrice == IF d # 0 /\ AgreedPrice[i] + d > 0 THEN AgreedPrice[i] + d ELSE AgreedPrice[i]
           newPart == IF d = 0 THEN PartOf[i] ELSE proposal[i].part
           priced == Reprice(i, saw[w])
<1>8. taken \in Pickable /\ taken.part = proposal[i].part
  BY <1>1, <1>2, <1>7 DEF Pickable
<1>9. /\ priced.part = newPart /\ priced.price = newPrice
      /\ priced = [part |-> newPart, price |-> newPrice] \/ priced = line[i]
  BY <1>1, <1>7 DEF Reprice
<1>10. newPrice \in Nat /\ newPart \in SparePart /\ newPrice - AgreedPrice[i] \in {0, d}
  BY <1>2, <1>7
<1>11. [part |-> newPart, price |-> newPrice] \in OrderLine /\ line[i] \in OrderLine
  BY <1>10 DEF OrderLine, SubstitutionInv, SubstitutionTypeOK
<1>12. priced \in OrderLine
  BY <1>9, <1>11
<1> HIDE DEF taken, priced, newPrice, newPart
<1>13. /\ picking' = IF status = "APPROVED" THEN [picking EXCEPT ![i] = taken] ELSE picking
       /\ line' = IF status = "APPROVED" THEN [line EXCEPT ![i] = priced] ELSE line
  BY DEF taken, priced
<1>14. /\ picking' \in [PickItem -> Pickable] /\ line' \in [PickItem -> OrderLine]
       /\ agreed' \in [PickItem -> Nat]
  BY <1>6, <1>8, <1>12, <1>13 DEF SubstitutionInv, SubstitutionTypeOK
<1>15. SubstitutionTypeOK' /\ ProposalsGrow
  BY <1>2, <1>3, <1>4, <1>5, <1>14 DEF SubstitutionTypeOK, ProposalsGrow
<1>16. /\ \A k \in PickItem \ {i} : picking'[k] = picking[k] /\ line'[k] = line[k] /\ agreed'[k] = agreed[k]
       /\ status = "APPROVED" => picking'[i] = taken /\ line'[i] = priced /\ agreed'[i] = 1
       /\ status = "REJECTED" => picking'[i] = picking[i] /\ line'[i] = line[i] /\ agreed'[i] = 0
  BY <1>6, <1>13 DEF SubstitutionInv, SubstitutionTypeOK
<1>17. ItemAsAgreed(i)'
  <2>1. CASE status = "APPROVED"
    BY <1>3, <1>5, <1>8, <1>9, <1>10, <1>16, <2>1 DEF ItemAsAgreed, newPart
  <2>2. CASE status = "REJECTED"
    BY <1>3, <1>6, <1>16, <2>2 DEF ItemAsAgreed, AsOrdered
  <2> QED
    BY <2>1, <2>2
<1>18. ASSUME NEW k \in PickItem \ {i} PROVE ItemAsAgreed(k)'
  <2>1. ItemAsAgreed(k)
    BY DEF SubstitutionInv
  <2>2. UNCHANGED <<proposal[k], picking[k], line[k], agreed[k]>>
    BY <1>3, <1>16
  <2> QED
    BY <2>1, <2>2 DEF ItemAsAgreed, AsOrdered
<1>19. Handled(w) /\ pc'[w] = "idle"
  BY AnswerHandles, WhatIsAnswered
<1>20. SubstitutionFits(w)'
  BY <1>19 DEF SubstitutionFits
<1> QED
  BY <1>15, <1>17, <1>18, <1>19, <1>20, SubstitutionStepKeeps

LEMMA DecisionsKeep ==
    ASSUME RequestsInv, SubstitutionInv, NEW w \in Worker,
           ApproveSubstitution(w) \/ RejectSubstitution(w)
    PROVE  SubstitutionInv'
<1>1. pc[w] # "idle" /\ job[w].op \in {"APPROVE_SUB", "REJECT_SUB"}
  BY DEF ApproveSubstitution, RejectSubstitution, At
<1>2. PICK i \in PickItem : i = job[w].item
  BY <1>1, JobIsRequest, SubstitutionRequest DEF SubstitutionOp
<1>3. CASE ReadProposal(w, "APPROVED") \/ ReadProposal(w, "REJECTED")
  BY <1>1, <1>3, ProposalIsRead
<1>4. CASE At(w, "APPROVE_SUB", "commit")
  <2>1. /\ Decide(w, "APPROVED") /\ Answer(w) /\ pc[w] = "commit"
        /\ picking' = [picking EXCEPT ![i] = [part |-> saw[w].part, picked |-> Needed[i], status |-> "PICKED"]]
        /\ line' = [line EXCEPT ![i] = Reprice(i, saw[w])]
        /\ agreed' = [agreed EXCEPT ![i] = agreed[i] + 1]
    BY <1>2, <1>4 DEF ApproveSubstitution, RejectSubstitution, At
  <2> QED
    BY <1>1, <1>2, <2>1, ProposalIsDecided
<1>5. CASE At(w, "REJECT_SUB", "commit")
  <2>1. Decide(w, "REJECTED") /\ Answer(w) /\ UNCHANGED <<picking, line, agreed>> /\ pc[w] = "commit"
    BY <1>5 DEF ApproveSubstitution, RejectSubstitution, At
  <2> QED
    BY <1>1, <1>2, <2>1, ProposalIsDecided
<1> QED
  BY <1>3, <1>4, <1>5 DEF ApproveSubstitution, RejectSubstitution

LEMMA SubstitutionKeeps ==
    ASSUME RequestsInv, SubstitutionInv, SubstitutionRests \/ \E w \in Worker : SubstitutionStep(w)
    PROVE  SubstitutionInv'
<1>1. CASE SubstitutionRests
  BY <1>1, SubstitutionRestsKeeps
<1>2. ASSUME NEW w \in Worker, SubstitutionFails(w)
      PROVE  SubstitutionInv'
  BY <1>2, SubstitutionAnswers DEF SubstitutionFails
<1>3. ASSUME NEW w \in Worker, SubstitutionStep(w)
      PROVE  SubstitutionInv'
  BY <1>2, <1>3, PickOneKeeps, SuggestKeeps, DecisionsKeep DEF SubstitutionStep
<1> QED
  BY <1>1, <1>3

LEMMA SubstitutionStart ==
    ASSUME RequestsInit, SubstitutionInit
    PROVE  SubstitutionInv
<1>1. SubstitutionTypeOK
  <2>1. \A i \in PickItem : /\ [part |-> PartOf[i], picked |-> 0, status |-> "PENDING"] \in Pickable
                            /\ AsOrdered(i) \in OrderLine
    BY SubstitutionAssumption DEF Pickable, OrderLine, AsOrdered
  <2> QED
    BY <2>1 DEF SubstitutionInit, SubstitutionTypeOK
<1>2. \A i \in PickItem : ItemAsAgreed(i)
  BY DEF SubstitutionInit, ItemAsAgreed
<1>3. \A w \in Worker : SubstitutionFits(w)
  BY DEF RequestsInit, SubstitutionFits
<1> QED
  BY <1>1, <1>2, <1>3 DEF SubstitutionInv

LEMMA SubstitutionHolds == BackOfficeSpec => [](RequestsInv /\ SubstitutionInv)
<1>1. BackOfficeInit => RequestsInv /\ SubstitutionInv
  BY RequestsStart, SubstitutionStart DEF BackOfficeInit
<1>2. RequestsInv /\ SubstitutionInv /\ [BackOfficeNext]_<<requests, business>>
      => (RequestsInv /\ SubstitutionInv)'
  <2>1. ASSUME RequestsInv, SubstitutionInv, BackOfficeNext PROVE (RequestsInv /\ SubstitutionInv)'
    BY <2>1, BackOfficeMoves, RequestsKept, SubstitutionKeeps
  <2>2. ASSUME RequestsInv, SubstitutionInv, UNCHANGED <<requests, business>>
        PROVE  (RequestsInv /\ SubstitutionInv)'
    BY <2>2, BackOfficeStutters, RequestsKept, SubstitutionKeeps DEF AllRest, FleetRests
  <2> QED
    BY <2>1, <2>2
<1> QED
  BY <1>1, <1>2, PTL DEF BackOfficeSpec

\* Whatever is suggested, decided and picked at once, the pick list carries the
\* substitute if and only if its proposal stands approved, the order line if and
\* only if it does at another price, and the difference is charged at most once.
THEOREM SubstitutesAsAgreed == BackOfficeSpec => []PickedAsAgreed
<1>1. SubstitutionInv => PickedAsAgreed
  BY DEF SubstitutionInv, ItemAsAgreed, PickedAsAgreed
<1> QED
  BY <1>1, SubstitutionHolds, PTL

-----------------------------------------------------------------------------
\* In every component the handlers keep the rows what their schema says they
\* are, whatever requests of whatever components are in progress.
THEOREM TypeCorrect == BackOfficeSpec => []BackOfficeTypeOK
<1>1. RequestsInv => RequestsTypeOK
  BY DEF RequestsInv
<1>2. TransferInv /\ PurchasingInv /\ ReturnInv /\ QuoteInv =>
         TransferTypeOK /\ PurchasingTypeOK /\ ReturnTypeOK /\ QuoteTypeOK
  BY DEF TransferInv, PurchasingInv, ReturnInv, QuoteInv
<1>3. CardInv /\ LedgerInv /\ DisputeInv => CardTypeOK /\ LedgerTypeOK /\ DisputeTypeOK
  BY DEF CardInv, LedgerInv, DisputeInv
<1>4. TripInv /\ DispatchInv /\ SubstitutionInv => TripTypeOK /\ DispatchTypeOK /\ SubstitutionTypeOK
  BY DEF TripInv, DispatchInv, SubstitutionInv
<1>5. AccountInv /\ KeyInv => AccountTypeOK /\ IdempotencyTypeOK
  BY DEF AccountInv, KeyInv
<1>6. /\ RequestsInv
      /\ TransferInv /\ PurchasingInv /\ ReturnInv /\ QuoteInv
      /\ CardInv /\ LedgerInv /\ DisputeInv
      /\ TripInv /\ DispatchInv /\ SubstitutionInv
      /\ AccountInv /\ KeyInv
      => BackOfficeTypeOK
  BY <1>1, <1>2, <1>3, <1>4, <1>5 DEF BackOfficeTypeOK
<1> QED
  BY <1>6, TransferHolds, PurchasingHolds, ReturnHolds, QuoteHolds, CardHolds, LedgerHolds,
     DisputeHolds, TripHolds, DispatchHolds, SubstitutionHolds, AccountHolds, KeyHolds, PTL
=============================================================================

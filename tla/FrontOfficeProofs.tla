--------------------------- MODULE FrontOfficeProofs ---------------------------
(***************************************************************************)
(* Proofs about the front office, for any number of workers and any        *)
(* requests, laid out as those about the back office: requests, the frame, *)
(* then the components one after another.  The rows here carry no version; *)
(* what a handler has read is good as long as the others only add to it.   *)
(***************************************************************************)
EXTENDS FrontOffice, SumTheorems, SequenceTheorems, TLAPS

-----------------------------------------------------------------------------
(***************************************************************************)
(* Requests, as in BackOfficeProofs (nothing stops the process here): a    *)
(* request is served by one worker at a time and never again once it is    *)
(* answered, and a worker that has read nothing knows nothing.             *)
(***************************************************************************)
\* The requests that are not answered yet.
Live == {r \in Request : r \in todo \/ \E w \in Worker : job[w] = r}

RequestsInv ==
    /\ RequestsTypeOK
    /\ saw = [w \in Worker |-> saw[w]]
    /\ \A w \in Worker : job[w] \notin todo
    /\ \A v, w \in Worker : pc[v] # "idle" /\ job[v] = job[w] => v = w

\* A step of the handler that w runs: it goes on, or answers.
Proceeds(w) ==
    /\ UNCHANGED <<todo, job>>
    /\ \E p \in Step \ {"idle", "read"} : pc' = [pc EXCEPT ![w] = p]
    /\ saw' = saw \/ \E x : saw' = [saw EXCEPT ![w] = x]
Handled(w) == pc[w] # "idle" /\ (Answer(w) \/ Proceeds(w))

RequestsMove ==
    \/ \E w \in Worker : Handled(w)
    \/ \E w \in Worker, r \in todo : Send(w, r)
    \/ UNCHANGED requests

\* No worker takes a step of an operation in `ops`: a worker of these rests,
\* answers, or takes up a new request; what it gives up is never live again.
Rests(v) == pc'[v] = pc[v] /\ job'[v] = job[v] /\ saw'[v] = saw[v]
Elsewhere(ops) ==
    /\ Live' \subseteq Live
    /\ \A v \in Worker : pc[v] # "idle" /\ job'[v] # job[v] => job[v] \notin Live'
    /\ \A v \in Worker :
          \/ Rests(v)
          \/ pc'[v] = "idle" /\ job'[v] = NoRequest /\ saw'[v] = Unread
          \/ pc[v] = "idle" /\ pc'[v] = "read" /\ job'[v] \in Request /\ saw'[v] = Unread
          \/ pc[v] # "idle" /\ pc'[v] # "idle" /\ job'[v] = job[v] /\ job[v].op \notin ops

-----------------------------------------------------------------------------
LEMMA StepNames ==
    /\ {"idle", "read", "check", "ask", "write", "next", "then", "finish", "commit"} = Step
    /\ \A p \in {"check", "ask", "write", "next", "then", "finish", "commit"} : p \in Step \ {"idle", "read"}
BY DEF Step

\* The operators that handlers are written with make steps of one handler.
LEMMA SeeHandles ==
    ASSUME NEW w \in Worker, pc[w] # "idle", NEW x, NEW p \in Step \ {"idle", "read"}, See(w, x, p)
    PROVE  Handled(w)
BY DEF See, Handled, Proceeds

LEMMA GotoHandles ==
    ASSUME NEW w \in Worker, pc[w] # "idle", NEW p \in Step \ {"idle", "read"}, Goto(w, p)
    PROVE  Handled(w)
BY DEF Goto, Handled, Proceeds

LEMMA AnswerHandles ==
    ASSUME NEW w \in Worker, pc[w] # "idle", Answer(w)
    PROVE  Handled(w)
BY DEF Handled

\* What w knows after a step.
LEMMA WhatIsSeen ==
    ASSUME RequestsInv, NEW w \in Worker, NEW x, NEW p \in Step, See(w, x, p)
    PROVE  pc'[w] = p /\ job'[w] = job[w] /\ saw'[w] = x
BY DEF RequestsInv, RequestsTypeOK, See

LEMMA WhatGoesOn ==
    ASSUME RequestsInv, NEW w \in Worker, NEW p \in Step, Goto(w, p)
    PROVE  pc'[w] = p /\ job'[w] = job[w] /\ saw'[w] = saw[w]
BY DEF RequestsInv, RequestsTypeOK, Goto

LEMMA WhatIsAnswered ==
    ASSUME RequestsInv, NEW w \in Worker, Answer(w)
    PROVE  pc'[w] = "idle" /\ job'[w] = NoRequest /\ saw'[w] = Unread
BY DEF RequestsInv, RequestsTypeOK, Answer

\* The other workers stay as they are.
LEMMA OthersRest ==
    ASSUME RequestsInv, NEW w \in Worker, Handled(w), NEW v \in Worker, v # w
    PROVE  Rests(v)
<1>1. CASE Answer(w)
  BY <1>1 DEF RequestsInv, RequestsTypeOK, Answer, Rests
<1>2. CASE Proceeds(w)
  <2>1. pc'[v] = pc[v] /\ job'[v] = job[v]
    BY <1>2 DEF RequestsInv, RequestsTypeOK, Proceeds
  <2>2. saw'[v] = saw[v]
    <3>1. CASE saw' = saw
      BY <3>1
    <3>2. CASE \E x : saw' = [saw EXCEPT ![w] = x]
      <4>1. PICK x : saw' = [saw EXCEPT ![w] = x]
        BY <3>2
      <4> QED
        BY <4>1 DEF RequestsInv
    <3> QED
      BY <1>2, <3>1, <3>2 DEF Proceeds
  <2> QED
    BY <2>1, <2>2 DEF Rests
<1> QED
  BY <1>1, <1>2 DEF Handled

LEMMA JobIsRequest ==
    ASSUME RequestsInv, NEW w \in Worker, pc[w] # "idle"
    PROVE  job[w] \in Request /\ job[w] \in Live
<1>1. job[w] \in Request
  BY DEF RequestsInv, RequestsTypeOK, Job
<1> QED
  BY <1>1 DEF Live

\* A request is live until it is answered, and never again.
LEMMA LiveShrinks ==
    ASSUME RequestsInv, RequestsMove
    PROVE  Live' \subseteq Live
<1>1. ASSUME NEW w \in Worker, Handled(w)
      PROVE  Live' \subseteq Live
  <2>1. CASE Answer(w)
    <3>1. todo' = todo /\ \A v \in Worker : job'[v] \in {job[v], NoRequest}
      BY <2>1 DEF Answer, RequestsInv, RequestsTypeOK
    <3> QED
      BY <3>1, RequestsAssumption DEF Live
  <2>2. CASE Proceeds(w)
    BY <2>2 DEF Proceeds, Live
  <2> QED
    BY <1>1, <2>1, <2>2 DEF Handled
<1>2. ASSUME NEW w \in Worker, NEW r \in todo, Send(w, r)
      PROVE  Live' \subseteq Live
  <2>1. todo' \subseteq todo /\ \A v \in Worker : job'[v] = job[v] \/ job'[v] = r
    BY <1>2 DEF Send, RequestsInv, RequestsTypeOK
  <2> QED
    BY <1>2, <2>1 DEF Live
<1>3. CASE UNCHANGED requests
  BY <1>3 DEF requests, Live
<1> QED
  BY <1>1, <1>2, <1>3 DEF RequestsMove

LEMMA AnsweredIsGone ==
    ASSUME RequestsInv, NEW w \in Worker, pc[w] # "idle", Answer(w)
    PROVE  Live' \subseteq Live \ {job[w]}
<1>1. todo' = todo /\ job'[w] = NoRequest /\ \A v \in Worker \ {w} : job'[v] = job[v]
  BY DEF Answer, RequestsInv, RequestsTypeOK
<1>2. job[w] \notin todo /\ \A v \in Worker \ {w} : job[v] # job[w]
  BY DEF RequestsInv
<1>3. ASSUME NEW r \in Live'
      PROVE  r \in Live \ {job[w]}
  BY <1>1, <1>2, RequestsAssumption DEF Live
<1> QED
  BY <1>3

LEMMA RequestsStart == RequestsInit => RequestsInv
<1> SUFFICES ASSUME RequestsInit PROVE RequestsInv
  OBVIOUS
<1>1. RequestsTypeOK
  BY RequestsAssumption DEF RequestsInit, RequestsTypeOK, Job, Step
<1> QED
  BY <1>1, RequestsAssumption DEF RequestsInit, RequestsInv

LEMMA RequestsKept ==
    ASSUME RequestsInv, RequestsMove
    PROVE  RequestsInv'
<1> USE RequestsAssumption
<1>1. ASSUME NEW w \in Worker, pc[w] # "idle", Answer(w)
      PROVE  RequestsInv'
  <2>1. RequestsTypeOK'
    BY <1>1 DEF Answer, RequestsInv, RequestsTypeOK, Job, Step
  <2>2. (saw = [v \in Worker |-> saw[v]])'
    BY <1>1 DEF Answer, RequestsInv
  <2>3. \A v \in Worker \ {w} : job'[v] = job[v] /\ pc'[v] = pc[v]
    BY <1>1 DEF Answer, RequestsInv, RequestsTypeOK
  <2>4. todo' = todo /\ job'[w] = NoRequest /\ pc'[w] = "idle"
    BY <1>1 DEF Answer, RequestsInv, RequestsTypeOK
  <2>5. \A v \in Worker : job'[v] \notin todo'
    BY <2>3, <2>4 DEF RequestsInv, RequestsTypeOK
  <2>6. ASSUME NEW u \in Worker, NEW v \in Worker, pc'[u] # "idle", job'[u] = job'[v]
        PROVE  u = v
    BY <2>3, <2>4, <2>6 DEF RequestsInv, RequestsTypeOK, Job
  <2> QED
    BY <2>1, <2>2, <2>5, <2>6 DEF RequestsInv
<1>2. ASSUME NEW w \in Worker, pc[w] # "idle", Proceeds(w)
      PROVE  RequestsInv'
  <2>1. PICK p \in Step \ {"idle", "read"} : pc' = [pc EXCEPT ![w] = p]
    BY <1>2 DEF Proceeds
  <2>2. todo' = todo /\ job' = job
    BY <1>2 DEF Proceeds
  <2>3. (saw = [v \in Worker |-> saw[v]])' /\ \A v \in Worker \ {w} : saw'[v] = saw[v]
    <3>1. CASE saw' = saw
      BY <3>1 DEF RequestsInv
    <3>2. CASE \E x : saw' = [saw EXCEPT ![w] = x]
      <4>1. PICK x : saw' = [saw EXCEPT ![w] = x]
        BY <3>2
      <4> QED
        BY <4>1 DEF RequestsInv
    <3> QED
      BY <1>2, <3>1, <3>2 DEF Proceeds
  <2>4. RequestsTypeOK'
    BY <1>2, <2>1, <2>2, <2>3 DEF RequestsInv, RequestsTypeOK
  <2>5. \A v \in Worker : pc'[v] # "idle" => pc[v] # "idle"
    BY <1>2, <2>1 DEF RequestsInv, RequestsTypeOK
  <2> QED
    BY <2>2, <2>3, <2>4, <2>5 DEF RequestsInv
<1>3. ASSUME NEW w \in Worker, NEW r \in todo, Send(w, r)
      PROVE  RequestsInv'
  <2>1. /\ todo' = todo \ {r} /\ saw' = saw
        /\ pc[w] = "idle" /\ pc'[w] = "read" /\ job'[w] = r
        /\ \A v \in Worker \ {w} : job'[v] = job[v] /\ pc'[v] = pc[v]
    BY <1>3 DEF Send, RequestsInv, RequestsTypeOK
  <2>2. RequestsTypeOK'
    BY <1>3 DEF Send, RequestsInv, RequestsTypeOK, Job, Step
  <2>3. \A v \in Worker : job'[v] \notin todo'
    BY <1>3, <2>1 DEF RequestsInv
  <2>4. ASSUME NEW u \in Worker, NEW v \in Worker, pc'[u] # "idle", job'[u] = job'[v]
        PROVE  u = v
    BY <1>3, <2>1, <2>4 DEF RequestsInv
  <2> QED
    BY <2>1, <2>2, <2>3, <2>4 DEF RequestsInv
<1>4. CASE UNCHANGED requests
  BY <1>4 DEF requests, RequestsInv, RequestsTypeOK
<1> QED
  BY <1>1, <1>2, <1>3, <1>4 DEF RequestsMove, Handled

-----------------------------------------------------------------------------
(***************************************************************************)
(* Steps elsewhere.                                                        *)
(***************************************************************************)
LEMMA HandledElsewhere ==
    ASSUME RequestsInv, NEW ops, NEW w \in Worker, Handled(w), job[w].op \notin ops
    PROVE  Elsewhere(ops)
<1>1. Live' \subseteq Live
  BY LiveShrinks DEF RequestsMove
<1>2. \A v \in Worker \ {w} : Rests(v) /\ job'[v] = job[v]
  BY OthersRest DEF Rests
<1>3. CASE Answer(w)
  <2>1. pc'[w] = "idle" /\ job'[w] = NoRequest /\ saw'[w] = Unread /\ job[w] \notin Live'
    BY <1>3, WhatIsAnswered, AnsweredIsGone DEF Handled
  <2> QED
    BY <1>1, <1>2, <2>1 DEF Elsewhere
<1>4. CASE Proceeds(w)
  <2>1. pc[w] # "idle" /\ pc'[w] # "idle" /\ job'[w] = job[w]
    BY <1>4 DEF Handled, Proceeds, RequestsInv, RequestsTypeOK
  <2> QED
    BY <1>1, <1>2, <2>1 DEF Elsewhere
<1> QED
  BY <1>3, <1>4 DEF Handled

LEMMA SendElsewhere ==
    ASSUME RequestsInv, NEW ops, NEW w \in Worker, NEW r \in todo, Send(w, r)
    PROVE  Elsewhere(ops)
<1>1. Live' \subseteq Live
  BY LiveShrinks DEF RequestsMove
<1>2. /\ pc[w] = "idle" /\ pc'[w] = "read" /\ job'[w] = r
      /\ saw'[w] = saw[w] /\ saw[w] = Unread /\ r \in Request
      /\ \A v \in Worker \ {w} : Rests(v) /\ job'[v] = job[v]
  BY DEF Send, RequestsInv, RequestsTypeOK, Rests
<1> QED
  BY <1>1, <1>2 DEF Elsewhere

LEMMA RestElsewhere ==
    ASSUME RequestsInv, NEW ops, UNCHANGED requests
    PROVE  Elsewhere(ops)
BY LiveShrinks DEF RequestsMove, requests, Elsewhere, Rests

-----------------------------------------------------------------------------
(***************************************************************************)
(* A step of the front office is a step of one component; the others rest  *)
(* meanwhile.                                                              *)
(***************************************************************************)
LEMMA OrderingHandles ==
    ASSUME NEW w \in Worker, OrderingStep(w)
    PROVE  Handled(w) /\ job[w].op \in OrderingOp
<1>1. CASE GetCart(w) \/ AddItem(w) \/ UpdateItem(w) \/ RemoveItem(w) \/ ClearCart(w)
  BY <1>1, SeeHandles, GotoHandles, AnswerHandles, StepNames
     DEF OrderingOp, CartOp, OpenCart, GetCart, AddItem, UpdateItem, RemoveItem, ClearCart, FindItem, SeeIf, At
<1>2. CASE CreateOrder(w) \/ UpdateBuyer(w) \/ RemoveBuyer(w)
  BY <1>2, SeeHandles, AnswerHandles, StepNames
     DEF OrderingOp, OrderOp, BuyerOp, CreateOrder, ConsiderOrder, UpdateBuyer, RemoveBuyer, ReadBuyer,
         DeleteBuyer, SeeIf, At
<1>3. CASE \/ AddContact(w) \/ UpdateContact(w) \/ RemoveContact(w)
           \/ AddAddress(w) \/ UpdateAddress(w) \/ RemoveAddress(w)
  BY <1>3, SeeHandles, GotoHandles, AnswerHandles, StepNames
     DEF OrderingOp, BookOp, AddContact, UpdateContact, RemoveContact, AddAddress, UpdateAddress,
         RemoveAddress, AddTo, ChangeIn, RemoveFrom, SeeIf, At
<1>4. CASE OrderingFails(w)
  BY <1>4, AnswerHandles DEF OrderingFails
<1> QED
  BY <1>1, <1>2, <1>3, <1>4 DEF OrderingStep

LEMMA AftercareHandles ==
    ASSUME NEW w \in Worker, AftercareStep(w)
    PROVE  Handled(w) /\ job[w].op \in AftercareOp
<1>1. CASE AskReturn(w) \/ AllowReturn(w) \/ RefuseReturn(w) \/ TakeReturn(w) \/ CloseReturn(w)
  BY <1>1, SeeHandles, AnswerHandles, StepNames
     DEF AftercareOp, ClaimOp, AskReturn, AllowReturn, RefuseReturn, TakeReturn, CloseReturn, DecideClaim,
         ReadClaim, SeeIf, At
<1>2. CASE ReportMishap(w) \/ ResolveMishap(w) \/ ProcessLoss(w)
  BY <1>2, SeeHandles, AnswerHandles, StepNames
     DEF AftercareOp, MishapOp, ReportMishap, ResolveMishap, ProcessLoss, SeeIf, At
<1>3. CASE CreateRefund(w) \/ ProcessRefund(w) \/ CancelRefund(w) \/ ProcessReplacement(w)
  BY <1>3, SeeHandles, AnswerHandles, StepNames
     DEF AftercareOp, RefundOp, CreateRefund, ProcessRefund, CancelRefund, ProcessReplacement, ReadRefund,
         SetRefund, SeeIf, At
<1>4. CASE AftercareFails(w)
  BY <1>4, AnswerHandles DEF AftercareFails
<1> QED
  BY <1>1, <1>2, <1>3, <1>4 DEF AftercareStep

LEMMA ImportHandles ==
    ASSUME NEW w \in Worker, ImportStep(w)
    PROVE  Handled(w) /\ job[w].op \in ImportOp
BY SeeHandles, GotoHandles, AnswerHandles, StepNames
   DEF ImportStep, ImportOp, BeginImport, FindExistingProduct, CreateProduct, CreateAlternatePartNumbers,
       CreateFitments, CreateSource, PartFails, ImportDies, CalculateSimilarity, Skip, GoOn, NextPart, At

LEMMA AdministrationHandles ==
    ASSUME NEW w \in Worker, AdministrationStep(w)
    PROVE  Handled(w) /\ job[w].op \in AdministrationOp
<1>1. CASE RowStep(w)
  BY <1>1, SeeHandles, AnswerHandles, StepNames
     DEF RowStep, AdministrationOp, RowOp, Rows, CreatePlan, CreateCurrency, CreateSupportTicket,
         CreateFlag, CreateKey, Create, UpdatePlan, UpdateCurrency, UpdateTicketStatus, UpdateTenant,
         OverrideBillingCycle, Update, CreateExchangeRate, DeletePlan, UpdateFlag, DeleteFlag, SetConfig,
         RemoveConfig, DeleteKey, WriteAtOnce, ReadRow, WriteRow, SeeIf, At
<1>2. CASE UpdateLanguageSettings(w) \/ SuspendUser(w) \/ OffboardUser(w)
  BY <1>2, SeeHandles, AnswerHandles, StepNames
     DEF AdministrationOp, MemberOp, UpdateLanguageSettings, ReadLanguages, WriteLanguages, SuspendUser,
         OffboardUser, SeeIf, At
<1>3. CASE AdministrationFails(w)
  BY <1>3, AnswerHandles DEF AdministrationFails
<1> QED
  BY <1>1, <1>2, <1>3 DEF AdministrationStep

LEMMA OnboardingHandles ==
    ASSUME NEW w \in Worker, OnboardingStep(w)
    PROVE  Handled(w) /\ job[w].op \in {"SIGN_UP"}
BY SeeHandles, GotoHandles, AnswerHandles, StepNames
   DEF OnboardingStep, CheckSubdomain, CheckEmail, FindFreePlan, CreateFreePlan, CreateTenant, SignupFails,
       Says, At

LEMMA ReportsHandles ==
    ASSUME NEW w \in Worker, ReportsStep(w)
    PROVE  Handled(w) /\ job[w].op \in {"BOOK", "REPORT"}
BY AnswerHandles DEF ReportsStep, BookEntry, MakeReport, At

OrderingRests == UNCHANGED ordering /\ Elsewhere(OrderingOp)
AftercareRests == UNCHANGED aftercare /\ Elsewhere(AftercareOp)
ImportRests == UNCHANGED catalog /\ Elsewhere(ImportOp)
AdministrationRests == UNCHANGED administration /\ Elsewhere(AdministrationOp)
OnboardingRests == UNCHANGED onboarding /\ Elsewhere({"SIGN_UP"})
ReportsRest == UNCHANGED reporting /\ Elsewhere({"BOOK", "REPORT"})

\* No operation belongs to two components.
LEMMA OpsApart ==
    /\ \A o \in OrderingOp :
          o \notin AftercareOp \cup ImportOp \cup AdministrationOp \cup {"SIGN_UP"} \cup {"BOOK", "REPORT"}
    /\ \A o \in AftercareOp :
          o \notin ImportOp \cup AdministrationOp \cup {"SIGN_UP"} \cup {"BOOK", "REPORT"}
    /\ \A o \in ImportOp : o \notin AdministrationOp \cup {"SIGN_UP"} \cup {"BOOK", "REPORT"}
    /\ \A o \in AdministrationOp : o \notin {"SIGN_UP"} \cup {"BOOK", "REPORT"}
    /\ "SIGN_UP" \notin {"BOOK", "REPORT"}
BY DEF OrderingOp, CartOp, OrderOp, BuyerOp, BookOp, AftercareOp, ClaimOp, MishapOp, RefundOp, ImportOp,
       AdministrationOp, RowOp, Rows, MemberOp

LEMMA WhileHandled ==
    ASSUME RequestsInv, NEW w \in Worker, Handled(w)
    PROVE  \A ops : job[w].op \notin ops => Elsewhere(ops)
BY HandledElsewhere

LEMMA FrontOfficeMoves ==
    ASSUME RequestsInv, FrontOfficeNext
    PROVE  /\ RequestsMove
           /\ OrderingRests \/ \E w \in Worker : OrderingStep(w)
           /\ AftercareRests \/ \E w \in Worker : AftercareStep(w)
           /\ ImportRests \/ \E w \in Worker : ImportStep(w)
           /\ AdministrationRests \/ \E w \in Worker : AdministrationStep(w)
           /\ OnboardingRests \/ \E w \in Worker : OnboardingStep(w)
           /\ ReportsRest \/ \E w \in Worker : ReportsStep(w)
<1> USE DEF OrderingRests, AftercareRests, ImportRests, AdministrationRests, OnboardingRests, ReportsRest,
            office, front
<1>1. ASSUME NEW w \in Worker, ServeCustomer(w)
      PROVE  /\ Handled(w)
             /\ OrderingRests \/ OrderingStep(w)
             /\ AftercareRests \/ AftercareStep(w)
             /\ ImportRests /\ AdministrationRests /\ OnboardingRests /\ ReportsRest
  <2>1. CASE OrderingStep(w) /\ UNCHANGED aftercare
    <3>1. Handled(w) /\ job[w].op \in OrderingOp
      BY <2>1, OrderingHandles
    <3>2. /\ job[w].op \notin AftercareOp /\ job[w].op \notin ImportOp /\ job[w].op \notin AdministrationOp
          /\ job[w].op \notin {"SIGN_UP"} /\ job[w].op \notin {"BOOK", "REPORT"}
      BY <3>1, OpsApart
    <3>3. /\ Elsewhere(AftercareOp) /\ Elsewhere(ImportOp) /\ Elsewhere(AdministrationOp)
          /\ Elsewhere({"SIGN_UP"}) /\ Elsewhere({"BOOK", "REPORT"})
      BY <3>1, <3>2, WhileHandled
    <3> QED
      BY <1>1, <2>1, <3>1, <3>3 DEF ServeCustomer
  <2>2. CASE AftercareStep(w) /\ UNCHANGED ordering
    <3>1. Handled(w) /\ job[w].op \in AftercareOp
      BY <2>2, AftercareHandles
    <3>2. /\ job[w].op \notin OrderingOp /\ job[w].op \notin ImportOp /\ job[w].op \notin AdministrationOp
          /\ job[w].op \notin {"SIGN_UP"} /\ job[w].op \notin {"BOOK", "REPORT"}
      BY <3>1, OpsApart
    <3>3. /\ Elsewhere(OrderingOp) /\ Elsewhere(ImportOp) /\ Elsewhere(AdministrationOp)
          /\ Elsewhere({"SIGN_UP"}) /\ Elsewhere({"BOOK", "REPORT"})
      BY <3>1, <3>2, WhileHandled
    <3> QED
      BY <1>1, <2>2, <3>1, <3>3 DEF ServeCustomer
  <2> QED
    BY <1>1, <2>1, <2>2 DEF ServeCustomer
<1>2. ASSUME NEW w \in Worker, ServePlatform(w)
      PROVE  /\ Handled(w)
             /\ ImportRests \/ ImportStep(w)
             /\ AdministrationRests \/ AdministrationStep(w)
             /\ OnboardingRests \/ OnboardingStep(w)
             /\ ReportsRest \/ ReportsStep(w)
             /\ OrderingRests /\ AftercareRests
  <2>1. CASE ImportStep(w) /\ UNCHANGED office
    <3>1. Handled(w) /\ job[w].op \in ImportOp
      BY <2>1, ImportHandles
    <3>2. /\ job[w].op \notin OrderingOp /\ job[w].op \notin AftercareOp /\ job[w].op \notin AdministrationOp
          /\ job[w].op \notin {"SIGN_UP"} /\ job[w].op \notin {"BOOK", "REPORT"}
      BY <3>1, OpsApart
    <3>3. /\ Elsewhere(OrderingOp) /\ Elsewhere(AftercareOp) /\ Elsewhere(AdministrationOp)
          /\ Elsewhere({"SIGN_UP"}) /\ Elsewhere({"BOOK", "REPORT"})
      BY <3>1, <3>2, WhileHandled
    <3> QED
      BY <1>2, <2>1, <3>1, <3>3 DEF ServePlatform
  <2>2. CASE AdministrationStep(w) /\ UNCHANGED <<catalog, onboarding, reporting>>
    <3>1. Handled(w) /\ job[w].op \in AdministrationOp
      BY <2>2, AdministrationHandles
    <3>2. /\ job[w].op \notin OrderingOp /\ job[w].op \notin AftercareOp /\ job[w].op \notin ImportOp
          /\ job[w].op \notin {"SIGN_UP"} /\ job[w].op \notin {"BOOK", "REPORT"}
      BY <3>1, OpsApart
    <3>3. /\ Elsewhere(OrderingOp) /\ Elsewhere(AftercareOp) /\ Elsewhere(ImportOp)
          /\ Elsewhere({"SIGN_UP"}) /\ Elsewhere({"BOOK", "REPORT"})
      BY <3>1, <3>2, WhileHandled
    <3> QED
      BY <1>2, <2>2, <3>1, <3>3 DEF ServePlatform
  <2>3. CASE OnboardingStep(w) /\ UNCHANGED <<catalog, administration, reporting>>
    <3>1. Handled(w) /\ job[w].op \in {"SIGN_UP"}
      BY <2>3, OnboardingHandles
    <3>2. /\ job[w].op \notin OrderingOp /\ job[w].op \notin AftercareOp /\ job[w].op \notin ImportOp
          /\ job[w].op \notin AdministrationOp /\ job[w].op \notin {"BOOK", "REPORT"}
      BY <3>1, OpsApart
    <3>3. /\ Elsewhere(OrderingOp) /\ Elsewhere(AftercareOp) /\ Elsewhere(ImportOp)
          /\ Elsewhere(AdministrationOp) /\ Elsewhere({"BOOK", "REPORT"})
      BY <3>1, <3>2, WhileHandled
    <3> QED
      BY <1>2, <2>3, <3>1, <3>3 DEF ServePlatform
  <2>4. CASE ReportsStep(w) /\ UNCHANGED <<catalog, administration, onboarding>>
    <3>1. Handled(w) /\ job[w].op \in {"BOOK", "REPORT"}
      BY <2>4, ReportsHandles
    <3>2. /\ job[w].op \notin OrderingOp /\ job[w].op \notin AftercareOp /\ job[w].op \notin ImportOp
          /\ job[w].op \notin AdministrationOp /\ job[w].op \notin {"SIGN_UP"}
      BY <3>1, OpsApart
    <3>3. /\ Elsewhere(OrderingOp) /\ Elsewhere(AftercareOp) /\ Elsewhere(ImportOp)
          /\ Elsewhere(AdministrationOp) /\ Elsewhere({"SIGN_UP"})
      BY <3>1, <3>2, WhileHandled
    <3> QED
      BY <1>2, <2>4, <3>1, <3>3 DEF ServePlatform
  <2> QED
    BY <1>2, <2>1, <2>2, <2>3, <2>4 DEF ServePlatform
<1>3. CASE \E w \in Worker, r \in todo : Send(w, r) /\ UNCHANGED front
  <2>1. \A ops : Elsewhere(ops)
    BY <1>3, SendElsewhere
  <2> QED
    BY <1>3, <2>1 DEF RequestsMove
<1>4. CASE Quiet /\ UNCHANGED <<requests, front>>
  <2>1. \A ops : Elsewhere(ops)
    BY <1>4, RestElsewhere
  <2> QED
    BY <1>4, <2>1 DEF RequestsMove
<1>5. CASE \E w \in Worker : ServeCustomer(w)
  BY <1>1, <1>5 DEF RequestsMove
<1>6. CASE \E w \in Worker : ServePlatform(w)
  BY <1>2, <1>6 DEF RequestsMove
<1> QED
  BY <1>3, <1>4, <1>5, <1>6 DEF FrontOfficeNext

\* A stuttering step.
LEMMA FrontOfficeStutters ==
    ASSUME RequestsInv, UNCHANGED <<requests, front>>
    PROVE  /\ RequestsMove
           /\ OrderingRests /\ AftercareRests /\ ImportRests /\ AdministrationRests /\ OnboardingRests
           /\ ReportsRest
<1>1. \A ops : Elsewhere(ops)
  BY RestElsewhere
<1> QED
  BY <1>1 DEF RequestsMove, front, office, OrderingRests, AftercareRests, ImportRests, AdministrationRests,
              OnboardingRests, ReportsRest

LEMMA RequestsHold == FrontOfficeSpec => []RequestsInv
<1>1. FrontOfficeInit => RequestsInv
  BY RequestsStart DEF FrontOfficeInit
<1>2. RequestsInv /\ [FrontOfficeNext]_<<requests, front>> => RequestsInv'
  <2>1. ASSUME RequestsInv, FrontOfficeNext PROVE RequestsInv'
    BY <2>1, FrontOfficeMoves, RequestsKept
  <2>2. ASSUME RequestsInv, UNCHANGED <<requests, front>> PROVE RequestsInv'
    BY <2>2, FrontOfficeStutters, RequestsKept
  <2> QED
    BY <2>1, <2>2
<1> QED
  BY <1>1, <1>2, PTL DEF FrontOfficeSpec

-----------------------------------------------------------------------------
(***************************************************************************)
(* Returns, exceptions and refunds.  Nothing here has a version; what the  *)
(* handlers rely on only grows: a refund stays, with its proof and its     *)
(* amount, and what was taken in stays taken in.  A return that is         *)
(* APPROVED or RECEIVED has the refund of its full value, and the index    *)
(* on the proof keeps it the only one.                                     *)
(***************************************************************************)
HasRefund(c) == \E k \in DOMAIN refunds : refunds[k].proof = c /\ refunds[k].amount = Worth[c]

\* The proof of a refund holds, as law 4 asks.
Justified(proof, amount) ==
    IF proof \in Claim THEN taken[proof] > 0 /\ amount <= Worth[proof]
    ELSE proof \in Mishap /\ TypeOfMishap[proof] \in TransitLoss

AftercareFits(w) ==
    /\ pc[w] = "commit" /\ job[w].op \in {"ALLOW_RETURN", "WRITE_OFF", "CREATE_REFUND"} => saw[w] \in Nat
    /\ pc[w] = "commit" /\ job[w].op = "TAKE_RETURN" => HasRefund(job[w].proof)
    /\ pc[w] = "commit" /\ job[w].op = "CLOSE_RETURN" =>
          /\ taken[job[w].proof] > 0
          /\ HasRefund(job[w].proof)
          /\ \A k \in saw[w] : k \in DOMAIN refunds /\ refunds[k].proof = job[w].proof
    /\ pc[w] = "commit" /\ job[w].op = "PROCESS_REFUND" =>
          /\ job[w].refund \in DOMAIN refunds
          /\ Justified(refunds[job[w].refund].proof, refunds[job[w].refund].amount)

ClaimsAgree ==
    \A c \in Claim : /\ claim[c] \in {"APPROVED", "RECEIVED"} => HasRefund(c)
                     /\ claim[c] = "RECEIVED" => taken[c] > 0

OneRefundEach ==
    \A j, k \in DOMAIN refunds : refunds[j].proof = refunds[k].proof /\ refunds[k].proof # NoProof => j = k

CompletedAreJustified ==
    \A k \in DOMAIN refunds :
        refunds[k].status = "COMPLETED" => Justified(refunds[k].proof, refunds[k].amount)

AftercareRows == AftercareTypeOK /\ ClaimsAgree /\ OneRefundEach /\ CompletedAreJustified
AftercareInv == AftercareRows /\ \A w \in Worker : AftercareFits(w)

\* Refunds and takings only grow.
AftercareGrows ==
    /\ \A k \in DOMAIN refunds : /\ k \in DOMAIN refunds'
                                 /\ refunds'[k].proof = refunds[k].proof
                                 /\ refunds'[k].amount = refunds[k].amount
    /\ \A c \in Claim : taken[c] > 0 => taken'[c] > 0

LEMMA AftercareStart == AftercareInit /\ RequestsInit => AftercareInv
<1> SUFFICES ASSUME AftercareInit, RequestsInit PROVE AftercareInv
  OBVIOUS
<1>1. refunds = <<>> /\ DOMAIN refunds = {} /\ replaced = <<>>
  BY DEF AftercareInit
<1>2. AftercareTypeOK
  BY <1>1 DEF AftercareInit, AftercareTypeOK, ClaimStatus
<1>3. \A w \in Worker : pc[w] # "commit"
  BY DEF RequestsInit
<1>4. \A c \in Claim : claim[c] = "NONE"
  BY DEF AftercareInit
<1> QED
  BY <1>1, <1>2, <1>3, <1>4
     DEF AftercareInv, AftercareRows, ClaimsAgree, OneRefundEach, CompletedAreJustified, AftercareFits

LEMMA HasRefundStays ==
    ASSUME AftercareGrows, NEW c, HasRefund(c)
    PROVE  HasRefund(c)'
BY DEF AftercareGrows, HasRefund

LEMMA JustifiedStays ==
    ASSUME AftercareGrows, NEW proof, NEW amount, Justified(proof, amount)
    PROVE  Justified(proof, amount)'
BY DEF AftercareGrows, Justified

LEMMA AftercareJob ==
    ASSUME RequestsInv, NEW w \in Worker, pc[w] # "idle", job[w].op \in AftercareOp
    PROVE  /\ job[w].op \in ClaimOp => job[w].proof \in Claim
           /\ job[w].op \in MishapOp => job[w].proof \in Mishap
           /\ job[w].proof \in Claim \cup Mishap /\ job[w].refund \in Nat /\ job[w].amount \in Nat
<1>1. job[w] \in Request
  BY JobIsRequest
<1> QED
  BY <1>1, AftercareAssumption

\* Who rests may go on relying on it.
LEMMA AftercareFitsOn ==
    ASSUME RequestsInv, AftercareGrows, NEW v \in Worker, AftercareFits(v), Rests(v)
    PROVE  AftercareFits(v)'
<1>1. pc'[v] = pc[v] /\ job'[v] = job[v] /\ saw'[v] = saw[v]
  BY DEF Rests
<1>2. ASSUME pc[v] = "commit", job[v].op = "TAKE_RETURN" \/ job[v].op = "CLOSE_RETURN"
      PROVE  HasRefund(job[v].proof)'
  <2>1. HasRefund(job[v].proof)
    BY <1>2 DEF AftercareFits
  <2> QED
    BY <1>1, <2>1 DEF HasRefund, AftercareGrows
<1>3. ASSUME pc[v] = "commit", job[v].op = "CLOSE_RETURN"
      PROVE  /\ taken'[job[v].proof] > 0
             /\ \A k \in saw[v] : k \in DOMAIN refunds' /\ refunds'[k].proof = job[v].proof
  <2>1. job[v].proof \in Claim
    BY <1>3, AftercareJob DEF AftercareOp, ClaimOp
  <2> QED
    BY <1>3, <2>1 DEF AftercareFits, AftercareGrows
<1>4. ASSUME pc[v] = "commit", job[v].op = "PROCESS_REFUND"
      PROVE  /\ job[v].refund \in DOMAIN refunds'
             /\ Justified(refunds[job[v].refund].proof, refunds[job[v].refund].amount)'
  <2> DEFINE k == job[v].refund
  <2>1. k \in DOMAIN refunds /\ Justified(refunds[k].proof, refunds[k].amount)
    BY <1>4 DEF AftercareFits
  <2>2. k \in DOMAIN refunds' /\ refunds'[k].proof = refunds[k].proof /\ refunds'[k].amount = refunds[k].amount
    BY <2>1 DEF AftercareGrows
  <2> QED
    BY <1>1, <2>1, <2>2 DEF Justified, AftercareGrows
<1> QED
  BY <1>1, <1>2, <1>3, <1>4 DEF AftercareFits

LEMMA AftercareKeptAtRest ==
    ASSUME RequestsInv, AftercareInv, AftercareRests
    PROVE  AftercareInv'
<1>1. AftercareRows'
  BY DEF AftercareRests, aftercare, AftercareInv, AftercareRows, AftercareTypeOK, ClaimsAgree, HasRefund,
         OneRefundEach, CompletedAreJustified, Justified
<1>2. AftercareGrows
  BY DEF AftercareRests, aftercare, AftercareGrows
<1>3. ASSUME NEW v \in Worker
      PROVE  AftercareFits(v)'
  <2>1. CASE Rests(v)
    BY <1>2, <2>1, AftercareFitsOn DEF AftercareInv
  <2>2. CASE ~ Rests(v)
    <3>1. pc'[v] \in {"idle", "read"} \/ job'[v].op \notin AftercareOp
      BY <2>2 DEF AftercareRests, Elsewhere
    <3> QED
      BY <3>1 DEF AftercareFits, AftercareOp, ClaimOp, MishapOp, RefundOp
  <2> QED
    BY <2>1, <2>2
<1> QED
  BY <1>1, <1>3 DEF AftercareInv

\* What a handler of w keeps, but for what it leaves itself to rely on.
LEMMA AftercareOthers ==
    ASSUME RequestsInv, AftercareInv, NEW w \in Worker, Handled(w), AftercareRows', AftercareGrows,
           AftercareFits(w)'
    PROVE  AftercareInv'
<1>1. ASSUME NEW v \in Worker, v # w
      PROVE  AftercareFits(v)'
  BY <1>1, OthersRest, AftercareFitsOn DEF AftercareInv
<1> QED
  BY <1>1 DEF AftercareInv

\* A handler that has answered relies on nothing.
LEMMA AftercareAnswers ==
    ASSUME RequestsInv, NEW w \in Worker, Answer(w)
    PROVE  AftercareFits(w)'
BY WhatIsAnswered DEF AftercareFits

\* Reading leaves the rows as they are.
LEMMA AftercareReads ==
    ASSUME AftercareInv, UNCHANGED aftercare
    PROVE  AftercareRows' /\ AftercareGrows
BY DEF aftercare, AftercareInv, AftercareRows, AftercareTypeOK, ClaimsAgree, HasRefund, OneRefundEach,
       CompletedAreJustified, Justified, AftercareGrows

-----------------------------------------------------------------------------
(* Writing.                                                                *)

\* A refund is added.
LEMMA PutKeeps ==
    ASSUME AftercareInv, NEW proof \in Claim \cup Mishap \cup {NoProof}, NEW series \in {"RETURN", "REF", "LOSS"},
           NEW n \in Nat, NEW amount \in Nat, PutRefund(proof, series, n, amount), UNCHANGED taken
    PROVE  /\ refunds' \in Seq(RefundRow)
           /\ AftercareGrows
           /\ OneRefundEach' /\ CompletedAreJustified'
           /\ \E k \in DOMAIN refunds' : refunds'[k].proof = proof /\ refunds'[k].amount = amount
<1> DEFINE new == [proof |-> proof, series |-> series, number |-> n, amount |-> amount, status |-> "PENDING"]
<1>1. new \in RefundRow /\ new.proof = proof /\ new.amount = amount /\ new.status = "PENDING"
  BY DEF RefundRow
<1>2. refunds' = Append(refunds, new) /\ Unproved(proof)
  BY DEF PutRefund
<1> HIDE DEF new
<1>3. refunds \in Seq(RefundRow)
  BY DEF AftercareInv, AftercareRows, AftercareTypeOK
<1>4. /\ refunds' \in Seq(RefundRow)
      /\ Len(refunds') = Len(refunds) + 1
      /\ \A k \in 1..Len(refunds) : refunds'[k] = refunds[k]
      /\ refunds'[Len(refunds) + 1] = new
  BY <1>1, <1>2, <1>3, AppendProperties
<1>5. Len(refunds) \in Nat /\ DOMAIN refunds = 1..Len(refunds) /\ DOMAIN refunds' = 1..(Len(refunds) + 1)
  BY <1>3, <1>4
<1>6. \A k \in DOMAIN refunds' : \/ k \in DOMAIN refunds /\ refunds'[k] = refunds[k]
                                 \/ k = Len(refunds) + 1 /\ refunds'[k] = new
  BY <1>4, <1>5
<1>7. AftercareGrows
  BY <1>4, <1>5 DEF AftercareGrows
<1>8. OneRefundEach'
  <2> SUFFICES ASSUME NEW j \in DOMAIN refunds', NEW k \in DOMAIN refunds',
                      refunds'[j].proof = refunds'[k].proof, refunds'[k].proof # NoProof
               PROVE  j = k
    BY DEF OneRefundEach
  <2> QED
    BY <1>1, <1>2, <1>6 DEF Unproved, AftercareInv, AftercareRows, OneRefundEach
<1>9. CompletedAreJustified'
  <2> SUFFICES ASSUME NEW k \in DOMAIN refunds', refunds'[k].status = "COMPLETED"
               PROVE  Justified(refunds[k].proof, refunds[k].amount)'
    BY DEF CompletedAreJustified
  <2>1. k \in DOMAIN refunds /\ refunds'[k] = refunds[k]
    BY <1>1, <1>6
  <2> QED
    BY <2>1 DEF AftercareInv, AftercareRows, CompletedAreJustified, Justified
<1>10. \E k \in DOMAIN refunds' : refunds'[k].proof = proof /\ refunds'[k].amount = amount
  BY <1>1, <1>4, <1>5
<1> QED
  BY <1>4, <1>7, <1>8, <1>9, <1>10

\* Refunds change their status.
LEMMA StatusKeeps ==
    ASSUME AftercareInv, refunds' \in Seq(RefundRow), DOMAIN refunds' = DOMAIN refunds, UNCHANGED taken,
           \A k \in DOMAIN refunds :
              /\ refunds'[k].proof = refunds[k].proof /\ refunds'[k].amount = refunds[k].amount
              /\ \/ refunds'[k].status = refunds[k].status
                 \/ refunds'[k].status = "CANCELLED"
                 \/ Justified(refunds[k].proof, refunds[k].amount)
    PROVE  AftercareGrows /\ OneRefundEach' /\ CompletedAreJustified'
<1>1. AftercareGrows
  BY DEF AftercareGrows
<1>2. OneRefundEach'
  BY DEF OneRefundEach, AftercareInv, AftercareRows
<1>3. CompletedAreJustified'
  <2> SUFFICES ASSUME NEW k \in DOMAIN refunds', refunds'[k].status = "COMPLETED"
               PROVE  Justified(refunds[k].proof, refunds[k].amount)'
    BY DEF CompletedAreJustified
  <2>1. Justified(refunds[k].proof, refunds[k].amount)
    BY DEF AftercareInv, AftercareRows, CompletedAreJustified
  <2> QED
    BY <2>1 DEF Justified
<1> QED
  BY <1>1, <1>2, <1>3

LEMMA RefundRows ==
    ASSUME AftercareInv
    PROVE  /\ refunds \in Seq(RefundRow) /\ refunds \in [DOMAIN refunds -> RefundRow]
           /\ Len(refunds) \in Nat /\ DOMAIN refunds = 1..Len(refunds)
           /\ \A k \in DOMAIN refunds : refunds[k] \in RefundRow
BY DEF AftercareInv, AftercareRows, AftercareTypeOK

\* A function on the places of the refunds is a sequence.
LEMMA StillRows ==
    ASSUME AftercareInv, NEW f \in [DOMAIN refunds -> RefundRow]
    PROVE  f \in Seq(RefundRow)
<1>1. Len(refunds) \in Nat /\ DOMAIN refunds = 1..Len(refunds)
  BY RefundRows
<1> QED
  BY <1>1

LEMMA StatusStays ==
    ASSUME NEW r \in RefundRow, NEW s \in {"PENDING", "COMPLETED", "CANCELLED"}, NEW q,
           q = [r EXCEPT !.status = s]
    PROVE  q \in RefundRow /\ q.proof = r.proof /\ q.amount = r.amount /\ q.status = s
BY DEF RefundRow

LEMMA CompleteKeeps ==
    ASSUME AftercareInv, NEW ks, Complete(ks), UNCHANGED taken,
           \A k \in ks : k \in DOMAIN refunds => Justified(refunds[k].proof, refunds[k].amount)
    PROVE  refunds' \in Seq(RefundRow) /\ AftercareGrows /\ OneRefundEach' /\ CompletedAreJustified'
<1>1. DOMAIN refunds' = DOMAIN refunds
  BY DEF Complete
<1>2. ASSUME NEW k \in DOMAIN refunds
      PROVE  /\ refunds'[k] \in RefundRow
             /\ refunds'[k].proof = refunds[k].proof /\ refunds'[k].amount = refunds[k].amount
             /\ \/ refunds'[k].status = refunds[k].status
                \/ Justified(refunds[k].proof, refunds[k].amount)
  <2>1. refunds[k] \in RefundRow
    BY RefundRows
  <2>2. CASE k \in ks
    <3>1. refunds'[k] = [refunds[k] EXCEPT !.status = "COMPLETED"]
      BY <2>2 DEF Complete
    <3>2. Justified(refunds[k].proof, refunds[k].amount)
      BY <2>2
    <3>3. refunds'[k] \in RefundRow /\ refunds'[k].proof = refunds[k].proof /\ refunds'[k].amount = refunds[k].amount
      BY <2>1, <3>1, StatusStays
    <3> QED
      BY <3>2, <3>3
  <2>3. CASE k \notin ks
    <3>1. refunds'[k] = refunds[k]
      BY <2>3 DEF Complete
    <3> QED
      BY <2>1, <3>1
  <2> QED
    BY <2>2, <2>3
<1>3. refunds' = [k \in DOMAIN refunds |-> refunds'[k]]
  BY DEF Complete
<1>4. refunds' \in [DOMAIN refunds -> RefundRow]
  BY <1>2, <1>3
<1>5. refunds' \in Seq(RefundRow)
  BY <1>4, StillRows
<1> QED
  BY <1>1, <1>2, <1>5, StatusKeeps

LEMMA SetRefundKeeps ==
    ASSUME AftercareInv, NEW w \in Worker, NEW op, NEW s \in {"COMPLETED", "CANCELLED"}, SetRefund(w, op, s),
           s = "COMPLETED" => /\ job[w].refund \in DOMAIN refunds
                              /\ Justified(refunds[job[w].refund].proof, refunds[job[w].refund].amount)
    PROVE  refunds' \in Seq(RefundRow) /\ AftercareGrows /\ OneRefundEach' /\ CompletedAreJustified'
<1> DEFINE n == job[w].refund
<1>1. refunds' = [refunds EXCEPT ![n].status = s] /\ UNCHANGED taken
  BY DEF SetRefund
<1>2. refunds \in [DOMAIN refunds -> RefundRow]
  BY RefundRows
<1>3. DOMAIN refunds' = DOMAIN refunds
  BY <1>1
<1>4. ASSUME NEW k \in DOMAIN refunds
      PROVE  /\ refunds'[k] \in RefundRow
             /\ refunds'[k].proof = refunds[k].proof /\ refunds'[k].amount = refunds[k].amount
             /\ \/ refunds'[k].status = refunds[k].status
                \/ refunds'[k].status = "CANCELLED"
                \/ Justified(refunds[k].proof, refunds[k].amount)
  <2>1. refunds[k] \in RefundRow
    BY RefundRows
  <2>2. CASE k = n
    <3>1. refunds'[k] = [refunds[k] EXCEPT !.status = s]
      BY <1>1, <1>2, <2>2
    <3>2. /\ refunds'[k] \in RefundRow /\ refunds'[k].proof = refunds[k].proof
          /\ refunds'[k].amount = refunds[k].amount /\ refunds'[k].status = s
      BY <2>1, <3>1, StatusStays
    <3>3. s = "CANCELLED" \/ Justified(refunds[k].proof, refunds[k].amount)
      BY <2>2
    <3> QED
      BY <3>2, <3>3
  <2>3. CASE k # n
    <3>1. refunds'[k] = refunds[k]
      BY <1>1, <1>2, <2>3
    <3> QED
      BY <2>1, <3>1
  <2> QED
    BY <2>2, <2>3
<1>5. refunds' \in [DOMAIN refunds -> RefundRow]
  <2>1. refunds' = [k \in DOMAIN refunds |-> refunds'[k]]
    BY <1>1, <1>2
  <2> QED
    BY <1>4, <2>1
<1>6. refunds' \in Seq(RefundRow)
  BY <1>5, StillRows
<1> QED
  BY <1>1, <1>3, <1>4, <1>6, StatusKeeps

\* A step that leaves the refunds and what was taken alone.
LEMMA RefundsRest ==
    ASSUME AftercareInv, UNCHANGED <<refunds, taken>>
    PROVE  refunds' \in Seq(RefundRow) /\ AftercareGrows /\ OneRefundEach' /\ CompletedAreJustified'
BY DEF AftercareInv, AftercareRows, AftercareTypeOK, AftercareGrows, OneRefundEach, CompletedAreJustified, Justified

\* A return takes on a new status.
LEMMA ClaimKeeps ==
    ASSUME AftercareInv, AftercareGrows, NEW c \in Claim, NEW status \in ClaimStatus,
           claim' = [claim EXCEPT ![c] = status],
           status \in {"APPROVED", "RECEIVED"} => HasRefund(c)',
           status = "RECEIVED" => taken'[c] > 0
    PROVE  claim' \in [Claim -> ClaimStatus] /\ ClaimsAgree'
<1>1. claim \in [Claim -> ClaimStatus]
  BY DEF AftercareInv, AftercareRows, AftercareTypeOK
<1>2. /\ claim' \in [Claim -> ClaimStatus] /\ claim'[c] = status
      /\ \A d \in Claim \ {c} : claim'[d] = claim[d]
  BY <1>1
<1>3. ASSUME NEW d \in Claim, d # c
      PROVE  /\ claim'[d] \in {"APPROVED", "RECEIVED"} => HasRefund(d)'
             /\ claim'[d] = "RECEIVED" => taken'[d] > 0
  <2>1. /\ claim[d] \in {"APPROVED", "RECEIVED"} => HasRefund(d)
        /\ claim[d] = "RECEIVED" => taken[d] > 0
    BY DEF AftercareInv, AftercareRows, ClaimsAgree
  <2>2. claim'[d] = claim[d]
    BY <1>2, <1>3
  <2> QED
    BY <2>1, <2>2, HasRefundStays DEF AftercareGrows
<1>4. /\ claim'[c] \in {"APPROVED", "RECEIVED"} => HasRefund(c)'
      /\ claim'[c] = "RECEIVED" => taken'[c] > 0
  BY <1>2
<1> QED
  BY <1>2, <1>3, <1>4 DEF ClaimsAgree

LEMMA ClaimsRest ==
    ASSUME AftercareInv, AftercareGrows, UNCHANGED claim
    PROVE  claim' \in [Claim -> ClaimStatus] /\ ClaimsAgree'
<1>1. ASSUME NEW d \in Claim
      PROVE  /\ claim'[d] \in {"APPROVED", "RECEIVED"} => HasRefund(d)'
             /\ claim'[d] = "RECEIVED" => taken'[d] > 0
  <2>1. /\ claim[d] \in {"APPROVED", "RECEIVED"} => HasRefund(d)
        /\ claim[d] = "RECEIVED" => taken[d] > 0
    BY DEF AftercareInv, AftercareRows, ClaimsAgree
  <2> QED
    BY <2>1, HasRefundStays DEF AftercareGrows
<1> QED
  BY <1>1 DEF ClaimsAgree, AftercareInv, AftercareRows, AftercareTypeOK

-----------------------------------------------------------------------------
(* Handlers.                                                               *)

LEMMA AfterReading ==
    ASSUME RequestsInv, AftercareInv, NEW w \in Worker, Handled(w), UNCHANGED aftercare, AftercareFits(w)'
    PROVE  AftercareInv'
BY AftercareReads, AftercareOthers

LEMMA AfterAnswering ==
    ASSUME RequestsInv, AftercareInv, NEW w \in Worker, Handled(w), Answer(w), AftercareRows', AftercareGrows
    PROVE  AftercareInv'
BY AftercareAnswers, AftercareOthers

LEMMA RowsWhole ==
    ASSUME claim' \in [Claim -> ClaimStatus] /\ ClaimsAgree',
           taken' \in [Claim -> Nat],
           mishap' \in [Mishap -> {"none", "open", "resolved"}] /\ settled' \subseteq {StopOf[m] : m \in Mishap},
           refunds' \in Seq(RefundRow) /\ OneRefundEach' /\ CompletedAreJustified',
           replaced' \in Seq(Claim \cup Mishap)
    PROVE  AftercareRows'
BY DEF AftercareRows, AftercareTypeOK

LEMMA AftercareTypes ==
    ASSUME AftercareInv
    PROVE  /\ claim \in [Claim -> ClaimStatus] /\ taken \in [Claim -> Nat]
           /\ mishap \in [Mishap -> {"none", "open", "resolved"}] /\ settled \subseteq {StopOf[m] : m \in Mishap}
           /\ refunds \in Seq(RefundRow) /\ replaced \in Seq(Claim \cup Mishap)
BY DEF AftercareInv, AftercareRows, AftercareTypeOK

LEMMA ReadClaimKeeps ==
    ASSUME RequestsInv, AftercareInv, NEW w \in Worker, Handled(w),
           NEW op \in {"ASK_RETURN", "REFUSE_RETURN", "ALLOW_RETURN", "TAKE_RETURN"}, NEW status,
           op = "TAKE_RETURN" => status = "APPROVED", ReadClaim(w, op, status, "commit")
    PROVE  AftercareInv'
<1>1. pc[w] = "read" /\ job[w].op = op /\ UNCHANGED aftercare
  BY DEF ReadClaim, At
<1>2. CASE claim[Proof(w)] = status
  <2>1. pc'[w] = "commit" /\ job'[w] = job[w] /\ saw'[w] = Len(refunds)
    BY <1>2, WhatIsSeen DEF ReadClaim, SeeIf, Step
  <2>2. Len(refunds) \in Nat
    BY RefundRows
  <2>3. op = "TAKE_RETURN" => HasRefund(job[w].proof)
    <3>1. job[w].proof \in Claim
      BY <1>1, AftercareJob DEF AftercareOp, ClaimOp
    <3> QED
      BY <1>2, <3>1 DEF Proof, AftercareInv, AftercareRows, ClaimsAgree
  <2>4. refunds' = refunds
    BY <1>1 DEF aftercare
  <2>5. op = "TAKE_RETURN" => HasRefund(job[w].proof)'
    BY <2>1, <2>3, <2>4 DEF HasRefund
  <2>6. AftercareFits(w)'
    BY <1>1, <2>1, <2>2, <2>5 DEF AftercareFits
  <2> QED
    BY <1>1, <2>6, AfterReading
<1>3. CASE claim[Proof(w)] # status
  <2>1. Answer(w)
    BY <1>3 DEF ReadClaim, SeeIf
  <2> QED
    BY <1>1, <2>1, AftercareAnswers, AfterReading
<1> QED
  BY <1>2, <1>3

LEMMA DecideClaimKeeps ==
    ASSUME RequestsInv, AftercareInv, NEW w \in Worker, AskReturn(w) \/ RefuseReturn(w), Handled(w)
    PROVE  AftercareInv'
<1>1. PICK op \in {"ASK_RETURN", "REFUSE_RETURN"}, from \in ClaimStatus, to \in {"REQUESTED", "REJECTED"} :
         DecideClaim(w, op, from, to)
  BY DEF AskReturn, RefuseReturn, ClaimStatus
<1>2. CASE ReadClaim(w, op, from, "commit")
  BY <1>2, ReadClaimKeeps
<1>3. CASE /\ At(w, op, "commit") /\ SetClaim(w, to) /\ Answer(w)
           /\ UNCHANGED <<taken, mishap, settled, refunds, replaced>>
  <2>1. Proof(w) \in Claim
    BY <1>3, AftercareJob DEF At, Proof, AftercareOp, ClaimOp
  <2>2. refunds' \in Seq(RefundRow) /\ AftercareGrows /\ OneRefundEach' /\ CompletedAreJustified'
    BY <1>3, RefundsRest
  <2>3. claim' = [claim EXCEPT ![Proof(w)] = to]
    BY <1>3 DEF SetClaim
  <2>4. claim' \in [Claim -> ClaimStatus] /\ ClaimsAgree'
    BY <2>1, <2>2, <2>3, ClaimKeeps DEF ClaimStatus
  <2>5. AftercareRows'
    BY <1>3, <2>2, <2>4, AftercareTypes, RowsWhole
  <2> QED
    BY <1>3, <2>2, <2>5, AfterAnswering
<1> QED
  BY <1>1, <1>2, <1>3 DEF DecideClaim

LEMMA AllowReturnKeeps ==
    ASSUME RequestsInv, AftercareInv, NEW w \in Worker, AllowReturn(w), Handled(w)
    PROVE  AftercareInv'
<1>1. CASE ReadClaim(w, "ALLOW_RETURN", "REQUESTED", "commit")
  BY <1>1, ReadClaimKeeps
<1>2. CASE /\ At(w, "ALLOW_RETURN", "commit")
           /\ PutRefund(Proof(w), "RETURN", saw[w] + 1, Worth[Proof(w)])
           /\ SetClaim(w, "APPROVED") /\ Answer(w)
           /\ UNCHANGED <<taken, mishap, settled, replaced>>
  <2> DEFINE c == Proof(w)
  <2>1. c \in Claim
    BY <1>2, AftercareJob DEF At, Proof, AftercareOp, ClaimOp
  <2>2. saw[w] \in Nat
    BY <1>2 DEF At, AftercareInv, AftercareFits
  <2>3. saw[w] + 1 \in Nat /\ Worth[c] \in Nat /\ taken' = taken
    BY <1>2, <2>1, <2>2, AftercareAssumption
  <2>4. PutRefund(c, "RETURN", saw[w] + 1, Worth[c]) /\ claim' = [claim EXCEPT ![c] = "APPROVED"]
    BY <1>2 DEF SetClaim
  <2> HIDE DEF c
  <2>5. /\ refunds' \in Seq(RefundRow) /\ AftercareGrows /\ OneRefundEach' /\ CompletedAreJustified'
        /\ \E k \in DOMAIN refunds' : refunds'[k].proof = c /\ refunds'[k].amount = Worth[c]
    BY <2>1, <2>3, <2>4, PutKeeps
  <2>6. \E k \in DOMAIN refunds' : refunds'[k].proof = Proof(w) /\ refunds'[k].amount = Worth[Proof(w)]
    BY <2>5 DEF c
  <2>7. PICK d \in Claim : d = c
    BY <2>1
  <2>8. HasRefund(d)'
    BY <2>5, <2>7 DEF HasRefund
  <2>9. claim' \in [Claim -> ClaimStatus] /\ ClaimsAgree'
    BY <2>4, <2>5, <2>7, <2>8, ClaimKeeps DEF ClaimStatus
  <2>10. AftercareRows'
    BY <1>2, <2>3, <2>5, <2>9, AftercareTypes, RowsWhole
  <2> QED
    BY <1>2, <2>5, <2>10, AfterAnswering
<1> QED
  BY <1>1, <1>2 DEF AllowReturn

LEMMA TakeReturnKeeps ==
    ASSUME RequestsInv, AftercareInv, NEW w \in Worker, TakeReturn(w), Handled(w)
    PROVE  AftercareInv'
<1>1. CASE ReadClaim(w, "TAKE_RETURN", "APPROVED", "commit")
  BY <1>1, ReadClaimKeeps
<1>2. CASE /\ At(w, "TAKE_RETURN", "commit")
           /\ taken' = [taken EXCEPT ![Proof(w)] = @ + 1]
           /\ SetClaim(w, "RECEIVED") /\ Answer(w)
           /\ UNCHANGED <<mishap, settled, refunds, replaced>>
  <2>1. PICK c \in Claim : c = job[w].proof
    BY <1>2, AftercareJob DEF At, AftercareOp, ClaimOp
  <2>2. HasRefund(c)
    BY <1>2, <2>1 DEF At, AftercareInv, AftercareFits
  <2>3. taken \in [Claim -> Nat] /\ claim' = [claim EXCEPT ![c] = "RECEIVED"]
    BY <1>2, <2>1, AftercareTypes DEF SetClaim, Proof
  <2>4. taken[c] \in Nat /\ taken' = [taken EXCEPT ![c] = taken[c] + 1]
    BY <1>2, <2>1, <2>3 DEF Proof
  <2>5. taken' \in [Claim -> Nat] /\ taken'[c] > 0 /\ \A d \in Claim : taken[d] > 0 => taken'[d] > 0
    BY <2>3, <2>4
  <2>6. AftercareGrows
    BY <1>2, <2>5 DEF AftercareGrows
  <2>7. refunds' \in Seq(RefundRow) /\ OneRefundEach'
    BY <1>2, AftercareTypes DEF AftercareInv, AftercareRows, OneRefundEach
  <2>8. CompletedAreJustified'
    <3> SUFFICES ASSUME NEW k \in DOMAIN refunds', refunds'[k].status = "COMPLETED"
                 PROVE  Justified(refunds[k].proof, refunds[k].amount)'
      BY DEF CompletedAreJustified
    <3>1. refunds' = refunds
      BY <1>2
    <3>2. Justified(refunds[k].proof, refunds[k].amount)
      BY <3>1 DEF AftercareInv, AftercareRows, CompletedAreJustified
    <3> QED
      BY <2>5, <3>1, <3>2 DEF Justified
  <2>9. HasRefund(c)'
    BY <2>2, <2>6, HasRefundStays
  <2>10. claim' \in [Claim -> ClaimStatus] /\ ClaimsAgree'
    BY <2>3, <2>5, <2>6, <2>9, ClaimKeeps DEF ClaimStatus
  <2>11. AftercareRows'
    BY <1>2, <2>5, <2>7, <2>8, <2>10, AftercareTypes, RowsWhole
  <2> QED
    BY <1>2, <2>6, <2>11, AfterAnswering
<1> QED
  BY <1>1, <1>2 DEF TakeReturn

\* The refunds that a closing completes are the one of the full value.
LEMMA ClosedIsBacked ==
    ASSUME AftercareInv, NEW c \in Claim, HasRefund(c), taken[c] > 0, NEW k \in DOMAIN refunds, refunds[k].proof = c
    PROVE  Justified(refunds[k].proof, refunds[k].amount)
<1>1. PICK j \in DOMAIN refunds : refunds[j].proof = c /\ refunds[j].amount = Worth[c]
  BY DEF HasRefund
<1>2. c # NoProof /\ Worth[c] \in Nat
  BY AftercareAssumption
<1>3. j = k
  BY <1>1, <1>2 DEF AftercareInv, AftercareRows, OneRefundEach
<1> QED
  BY <1>1, <1>2, <1>3 DEF Justified

LEMMA CloseReturnKeeps ==
    ASSUME RequestsInv, AftercareInv, NEW w \in Worker, CloseReturn(w), Handled(w)
    PROVE  AftercareInv'
<1>1. CASE /\ At(w, "CLOSE_RETURN", "read")
           /\ SeeIf(w, claim[Proof(w)] = "RECEIVED",
                    {k \in RefundFor(Proof(w)) : refunds[k].status = "PENDING"}, "commit")
           /\ UNCHANGED aftercare
  <2>1. CASE claim[Proof(w)] = "RECEIVED"
    <3>1. /\ pc'[w] = "commit" /\ job'[w] = job[w] /\ job[w].op = "CLOSE_RETURN"
          /\ saw'[w] = {k \in RefundFor(Proof(w)) : refunds[k].status = "PENDING"}
      BY <1>1, <2>1, WhatIsSeen DEF SeeIf, Step, At
    <3>2. job[w].proof \in Claim
      BY <1>1, AftercareJob DEF At, AftercareOp, ClaimOp
    <3>3. taken[job[w].proof] > 0 /\ HasRefund(job[w].proof)
      BY <2>1, <3>2 DEF Proof, AftercareInv, AftercareRows, ClaimsAgree
    <3>4. \A k \in saw'[w] : k \in DOMAIN refunds /\ refunds[k].proof = job[w].proof
      BY <3>1 DEF RefundFor, Proof
    <3>5. refunds' = refunds /\ taken' = taken
      BY <1>1 DEF aftercare
    <3>6. HasRefund(job[w].proof)'
      BY <3>1, <3>3, <3>5 DEF HasRefund
    <3>7. AftercareFits(w)'
      BY <3>1, <3>3, <3>4, <3>5, <3>6 DEF AftercareFits
    <3> QED
      BY <1>1, <3>7, AfterReading
  <2>2. CASE claim[Proof(w)] # "RECEIVED"
    <3>1. Answer(w)
      BY <1>1, <2>2 DEF SeeIf
    <3> QED
      BY <1>1, <3>1, AftercareAnswers, AfterReading
  <2> QED
    BY <2>1, <2>2
<1>2. CASE /\ At(w, "CLOSE_RETURN", "commit")
           /\ Complete(saw[w]) /\ SetClaim(w, "COMPLETED") /\ Answer(w)
           /\ UNCHANGED <<taken, mishap, settled, replaced>>
  <2>1. PICK c \in Claim : c = job[w].proof
    BY <1>2, AftercareJob DEF At, AftercareOp, ClaimOp
  <2>2. /\ taken[c] > 0 /\ HasRefund(c)
        /\ \A k \in saw[w] : k \in DOMAIN refunds /\ refunds[k].proof = c
    BY <1>2, <2>1 DEF At, AftercareInv, AftercareFits
  <2>3. \A k \in saw[w] : k \in DOMAIN refunds => Justified(refunds[k].proof, refunds[k].amount)
    BY <2>2, ClosedIsBacked
  <2>4. refunds' \in Seq(RefundRow) /\ AftercareGrows /\ OneRefundEach' /\ CompletedAreJustified'
    BY <1>2, <2>3, CompleteKeeps
  <2>5. claim' = [claim EXCEPT ![c] = "COMPLETED"]
    BY <1>2, <2>1 DEF SetClaim, Proof
  <2>6. claim' \in [Claim -> ClaimStatus] /\ ClaimsAgree'
    BY <2>4, <2>5, ClaimKeeps DEF ClaimStatus
  <2>7. AftercareRows'
    BY <1>2, <2>4, <2>6, AftercareTypes, RowsWhole
  <2> QED
    BY <1>2, <2>4, <2>7, AfterAnswering
<1> QED
  BY <1>1, <1>2 DEF CloseReturn

\* A step that writes neither a return nor its taking.
LEMMA OthersWhole ==
    ASSUME RequestsInv, AftercareInv, NEW w \in Worker, Handled(w), Answer(w), UNCHANGED <<claim, taken>>,
           mishap' \in [Mishap -> {"none", "open", "resolved"}] /\ settled' \subseteq {StopOf[m] : m \in Mishap},
           refunds' \in Seq(RefundRow) /\ OneRefundEach' /\ CompletedAreJustified',
           AftercareGrows, replaced' \in Seq(Claim \cup Mishap)
    PROVE  AftercareInv'
<1>1. claim' \in [Claim -> ClaimStatus] /\ ClaimsAgree'
  BY ClaimsRest
<1>2. taken' \in [Claim -> Nat]
  BY AftercareTypes
<1>3. AftercareRows'
  BY <1>1, <1>2, RowsWhole
<1> QED
  BY <1>3, AfterAnswering

LEMMA ResolveTypes ==
    ASSUME AftercareInv, NEW m \in Mishap, NEW s \in {"open", "resolved"}
    PROVE  [mishap EXCEPT ![m] = s] \in [Mishap -> {"none", "open", "resolved"}]
BY AftercareTypes

\* Readings that leave nothing to rely on.
LEMMA FreeReadings ==
    ASSUME RequestsInv, AftercareInv, NEW w \in Worker, Handled(w), UNCHANGED aftercare,
           job[w].op \in {"REPORT_MISHAP", "RESOLVE_MISHAP", "REPLACE", "CANCEL_REFUND"},
           \/ Answer(w)
           \/ \E x, p : p \in Step /\ See(w, x, p)
    PROVE  AftercareInv'
<1>1. CASE Answer(w)
  BY <1>1, AftercareAnswers, AfterReading
<1>2. CASE \E x, p : p \in Step /\ See(w, x, p)
  <2>1. job'[w] = job[w]
    BY <1>2, WhatIsSeen
  <2>2. AftercareFits(w)'
    BY <2>1 DEF AftercareFits
  <2> QED
    BY <2>2, AfterReading
<1> QED
  BY <1>1, <1>2

LEMMA ReportMishapKeeps ==
    ASSUME RequestsInv, AftercareInv, NEW w \in Worker, ReportMishap(w), Handled(w)
    PROVE  AftercareInv'
<1>1. PICK m \in Mishap : m = Proof(w)
  BY AftercareJob DEF ReportMishap, At, Proof, AftercareOp, MishapOp
<1>2. /\ mishap' = [mishap EXCEPT ![m] = "open"] /\ settled' = settled \ {StopOf[m]} /\ Answer(w)
      /\ UNCHANGED <<claim, taken, refunds, replaced>>
  BY <1>1 DEF ReportMishap
<1>3. mishap' \in [Mishap -> {"none", "open", "resolved"}]
  BY <1>2, ResolveTypes
<1>4. refunds' \in Seq(RefundRow) /\ AftercareGrows /\ OneRefundEach' /\ CompletedAreJustified'
  BY <1>2, RefundsRest
<1> QED
  BY <1>2, <1>3, <1>4, OthersWhole, AftercareTypes

LEMMA ResolveMishapKeeps ==
    ASSUME RequestsInv, AftercareInv, NEW w \in Worker, ResolveMishap(w), Handled(w)
    PROVE  AftercareInv'
<1>1. PICK m \in Mishap : m = Proof(w)
  BY AftercareJob DEF ResolveMishap, Handled, At, Proof, AftercareOp, MishapOp
<1>2. job[w].op = "RESOLVE_MISHAP"
  BY DEF ResolveMishap, At
<1>3. CASE pc[w] # "commit"
  BY <1>2, <1>3, FreeReadings, StepNames DEF ResolveMishap, SeeIf, At
<1>4. CASE pc[w] = "commit"
  <2>1. /\ mishap' = [mishap EXCEPT ![m] = "resolved"] /\ Answer(w)
        /\ settled' = (IF saw[w] THEN settled \cup {StopOf[m]} ELSE settled)
        /\ UNCHANGED <<claim, taken, refunds, replaced>>
    BY <1>1, <1>4 DEF ResolveMishap, At, Resolve
  <2>2. settled' = settled \/ settled' = settled \cup {StopOf[m]}
    BY <2>1, Zenon
  <2>3. mishap' \in [Mishap -> {"none", "open", "resolved"}] /\ settled' \subseteq {StopOf[n] : n \in Mishap}
    BY <2>1, <2>2, ResolveTypes, AftercareTypes
  <2>4. refunds' \in Seq(RefundRow) /\ AftercareGrows /\ OneRefundEach' /\ CompletedAreJustified'
    BY <2>1, RefundsRest
  <2> QED
    BY <2>1, <2>3, <2>4, OthersWhole, AftercareTypes
<1> QED
  BY <1>3, <1>4

\* A count of the refunds, taken before one is created.
LEMMA Counting ==
    ASSUME RequestsInv, AftercareInv, NEW w \in Worker, Handled(w), UNCHANGED aftercare,
           job[w].op \in {"WRITE_OFF", "CREATE_REFUND"},
           \/ Answer(w)
           \/ \E x : See(w, x, "check")
           \/ See(w, Len(refunds), "commit")
    PROVE  AftercareInv'
<1>1. CASE Answer(w)
  BY <1>1, AftercareAnswers, AfterReading
<1>2. CASE \E x : See(w, x, "check")
  <2>1. pc'[w] = "check"
    BY <1>2, WhatIsSeen DEF Step
  <2>2. AftercareFits(w)'
    BY <2>1 DEF AftercareFits
  <2> QED
    BY <2>2, AfterReading
<1>3. CASE See(w, Len(refunds), "commit")
  <2>1. job'[w] = job[w] /\ saw'[w] = Len(refunds) /\ Len(refunds) \in Nat
    BY <1>3, WhatIsSeen, RefundRows DEF Step
  <2>2. AftercareFits(w)'
    BY <2>1 DEF AftercareFits
  <2> QED
    BY <2>2, AfterReading
<1> QED
  BY <1>1, <1>2, <1>3

LEMMA ProcessLossKeeps ==
    ASSUME RequestsInv, AftercareInv, NEW w \in Worker, ProcessLoss(w), Handled(w)
    PROVE  AftercareInv'
<1>1. job[w].op = "WRITE_OFF"
  BY DEF ProcessLoss, At
<1>2. PICK m \in Mishap : m = Proof(w)
  BY <1>1, AftercareJob DEF Handled, Proof, AftercareOp, MishapOp
<1>3. CASE pc[w] # "commit"
  BY <1>1, <1>3, Counting DEF ProcessLoss, SeeIf, At
<1>4. CASE pc[w] = "commit"
  <2>1. /\ PutRefund(NoProof, "LOSS", saw[w] + 1, job[w].amount)
        /\ mishap' = [mishap EXCEPT ![m] = "resolved"] /\ Answer(w)
        /\ UNCHANGED <<claim, taken, settled, replaced>>
    BY <1>2, <1>4 DEF ProcessLoss, At, Resolve
  <2>2. saw[w] \in Nat
    BY <1>1, <1>4 DEF AftercareInv, AftercareFits
  <2>3. saw[w] + 1 \in Nat /\ job[w].amount \in Nat
    BY <1>1, <1>4, <2>2, AftercareJob DEF AftercareOp, MishapOp
  <2>4. refunds' \in Seq(RefundRow) /\ AftercareGrows /\ OneRefundEach' /\ CompletedAreJustified'
    BY <2>1, <2>3, PutKeeps
  <2>5. mishap' \in [Mishap -> {"none", "open", "resolved"}]
    BY <2>1, ResolveTypes
  <2> QED
    BY <2>1, <2>4, <2>5, OthersWhole, AftercareTypes
<1> QED
  BY <1>3, <1>4

LEMMA CreateRefundKeeps ==
    ASSUME RequestsInv, AftercareInv, NEW w \in Worker, CreateRefund(w), Handled(w)
    PROVE  AftercareInv'
<1>1. job[w].op = "CREATE_REFUND"
  BY DEF CreateRefund, At
<1>2. CASE pc[w] # "commit"
  <2>1. Answer(w) \/ See(w, Len(refunds), "commit")
    BY <1>2, Zenon DEF CreateRefund, SeeIf, At
  <2>2. UNCHANGED aftercare
    BY <1>2 DEF CreateRefund, At
  <2> QED
    BY <1>1, <2>1, <2>2, Counting
<1>3. CASE pc[w] = "commit"
  <2>1. /\ PutRefund(Proof(w), "REF", saw[w] + 1, job[w].amount) /\ Answer(w)
        /\ UNCHANGED <<claim, taken, mishap, settled, replaced>>
    BY <1>3 DEF CreateRefund, At
  <2>2. saw[w] \in Nat
    BY <1>1, <1>3 DEF AftercareInv, AftercareFits
  <2>3. saw[w] + 1 \in Nat /\ job[w].amount \in Nat /\ Proof(w) \in Claim \cup Mishap \cup {NoProof}
    BY <1>1, <1>3, <2>2, AftercareJob DEF AftercareOp, RefundOp, Proof
  <2>4. refunds' \in Seq(RefundRow) /\ AftercareGrows /\ OneRefundEach' /\ CompletedAreJustified'
    BY <2>1, <2>3, PutKeeps
  <2> QED
    BY <2>1, <2>4, OthersWhole, AftercareTypes
<1> QED
  BY <1>2, <1>3

LEMMA ProcessRefundKeeps ==
    ASSUME RequestsInv, AftercareInv, NEW w \in Worker, ProcessRefund(w), Handled(w)
    PROVE  AftercareInv'
<1> DEFINE k == job[w].refund
<1>1. CASE ReadRefund(w, "PROCESS_REFUND", Pending(w) /\ Backed(refunds[k]))
  <2>1. job[w].op = "PROCESS_REFUND" /\ UNCHANGED aftercare
    BY <1>1 DEF ReadRefund, At
  <2>2. CASE Pending(w) /\ Backed(refunds[k])
    <3>1. pc'[w] = "commit" /\ job'[w] = job[w]
      BY <1>1, <2>2, WhatIsSeen DEF ReadRefund, SeeIf, Step
    <3>2. k \in DOMAIN refunds
      BY <2>2 DEF Pending
    <3>3. Justified(refunds[k].proof, refunds[k].amount)
      BY <2>2 DEF Backed, Justified, AftercareInv, AftercareRows, ClaimsAgree
    <3>4. refunds' = refunds /\ taken' = taken
      BY <2>1 DEF aftercare
    <3>5. AftercareFits(w)'
      BY <2>1, <3>1, <3>2, <3>3, <3>4 DEF AftercareFits, Justified
    <3> QED
      BY <2>1, <3>5, AfterReading
  <2>3. CASE ~ (Pending(w) /\ Backed(refunds[k]))
    <3>1. Answer(w)
      BY <1>1, <2>3, Zenon DEF ReadRefund, SeeIf
    <3> QED
      BY <2>1, <3>1, AftercareAnswers, AfterReading
  <2> QED
    BY <2>2, <2>3
<1>2. CASE SetRefund(w, "PROCESS_REFUND", "COMPLETED")
  <2>1. k \in DOMAIN refunds /\ Justified(refunds[k].proof, refunds[k].amount)
    BY <1>2 DEF SetRefund, At, AftercareInv, AftercareFits
  <2>2. refunds' \in Seq(RefundRow) /\ AftercareGrows /\ OneRefundEach' /\ CompletedAreJustified'
    BY <1>2, <2>1, SetRefundKeeps
  <2>3. Answer(w) /\ UNCHANGED <<claim, taken, mishap, settled, replaced>>
    BY <1>2 DEF SetRefund
  <2> QED
    BY <2>2, <2>3, OthersWhole, AftercareTypes
<1> QED
  BY <1>1, <1>2 DEF ProcessRefund

LEMMA CancelRefundKeeps ==
    ASSUME RequestsInv, AftercareInv, NEW w \in Worker, CancelRefund(w), Handled(w)
    PROVE  AftercareInv'
<1>1. CASE ReadRefund(w, "CANCEL_REFUND", Pending(w))
  <2>1. Answer(w) \/ See(w, Unread, "commit")
    BY <1>1, Zenon DEF ReadRefund, SeeIf
  <2> QED
    BY <1>1, <2>1, FreeReadings, StepNames DEF ReadRefund, At
<1>2. CASE SetRefund(w, "CANCEL_REFUND", "CANCELLED")
  <2>1. refunds' \in Seq(RefundRow) /\ AftercareGrows /\ OneRefundEach' /\ CompletedAreJustified'
    BY <1>2, SetRefundKeeps
  <2>2. Answer(w) /\ UNCHANGED <<claim, taken, mishap, settled, replaced>>
    BY <1>2 DEF SetRefund
  <2> QED
    BY <2>1, <2>2, OthersWhole, AftercareTypes
<1> QED
  BY <1>1, <1>2 DEF CancelRefund

LEMMA ReplaceKeeps ==
    ASSUME RequestsInv, AftercareInv, NEW w \in Worker, ProcessReplacement(w), Handled(w)
    PROVE  AftercareInv'
<1>1. job[w].op = "REPLACE"
  BY DEF ProcessReplacement, At
<1>2. Proof(w) \in Claim \cup Mishap
  BY <1>1, AftercareJob DEF Handled, Proof, AftercareOp
<1>3. CASE pc[w] # "commit"
  <2>1. Answer(w) \/ See(w, Unread, "check") \/ See(w, Len(replaced), "commit")
    BY <1>3, Zenon DEF ProcessReplacement, SeeIf, At
  <2>2. UNCHANGED aftercare
    BY <1>3 DEF ProcessReplacement, At
  <2> QED
    BY <1>1, <2>1, <2>2, FreeReadings, StepNames
<1>4. CASE pc[w] = "commit"
  <2>1. /\ replaced' = Append(replaced, Proof(w)) /\ Answer(w) /\ UNCHANGED <<taken, settled, refunds>>
        /\ IF Proof(w) \in Claim THEN SetClaim(w, "COMPLETED") /\ UNCHANGED mishap
                                 ELSE Resolve(Proof(w)) /\ UNCHANGED claim
    BY <1>4 DEF ProcessReplacement, At
  <2>2. replaced' \in Seq(Claim \cup Mishap)
    BY <1>2, <2>1, AftercareTypes, AppendProperties
  <2>3. refunds' \in Seq(RefundRow) /\ AftercareGrows /\ OneRefundEach' /\ CompletedAreJustified'
    BY <2>1, RefundsRest
  <2>4. CASE Proof(w) \in Claim
    <3>1. claim' = [claim EXCEPT ![Proof(w)] = "COMPLETED"] /\ mishap' = mishap
      BY <2>1, <2>4 DEF SetClaim
    <3>2. claim' \in [Claim -> ClaimStatus] /\ ClaimsAgree'
      BY <2>3, <2>4, <3>1, ClaimKeeps DEF ClaimStatus
    <3>3. AftercareRows'
      BY <2>1, <2>2, <2>3, <3>1, <3>2, AftercareTypes, RowsWhole
    <3> QED
      BY <2>1, <2>3, <3>3, AfterAnswering
  <2>5. CASE Proof(w) \notin Claim
    <3>1. mishap' = [mishap EXCEPT ![Proof(w)] = "resolved"] /\ claim' = claim
      BY <2>1, <2>5 DEF Resolve
    <3>2. mishap' \in [Mishap -> {"none", "open", "resolved"}]
      BY <1>2, <2>5, <3>1, ResolveTypes
    <3> QED
      BY <2>1, <2>2, <2>3, <3>1, <3>2, OthersWhole, AftercareTypes
  <2> QED
    BY <2>4, <2>5
<1> QED
  BY <1>3, <1>4

LEMMA AftercareKeeps ==
    ASSUME RequestsInv, AftercareInv, NEW w \in Worker, AftercareStep(w)
    PROVE  AftercareInv'
<1>1. Handled(w)
  BY AftercareHandles
<1>2. CASE AftercareFails(w)
  BY <1>1, <1>2, AftercareAnswers, AfterReading DEF AftercareFails
<1> QED
  BY <1>1, <1>2, DecideClaimKeeps, AllowReturnKeeps, TakeReturnKeeps, CloseReturnKeeps, ReportMishapKeeps,
     ResolveMishapKeeps, ProcessLossKeeps, CreateRefundKeeps, ProcessRefundKeeps, CancelRefundKeeps,
     ReplaceKeeps DEF AftercareStep

LEMMA AftercareHolds == FrontOfficeSpec => []AftercareInv
<1>1. FrontOfficeInit => AftercareInv
  BY AftercareStart DEF FrontOfficeInit
<1>2. RequestsInv /\ AftercareInv /\ [FrontOfficeNext]_<<requests, front>> => AftercareInv'
  <2>1. ASSUME RequestsInv, AftercareInv, FrontOfficeNext PROVE AftercareInv'
    BY <2>1, FrontOfficeMoves, AftercareKeptAtRest, AftercareKeeps
  <2>2. ASSUME RequestsInv, AftercareInv, UNCHANGED <<requests, front>> PROVE AftercareInv'
    BY <2>2, FrontOfficeStutters, AftercareKeptAtRest
  <2> QED
    BY <2>1, <2>2
<1> QED
  BY <1>1, <1>2, RequestsHold, PTL DEF FrontOfficeSpec

\* A refund that is completed rests on one proof alone and the proof holds,
\* though completing a return does not check it and a decision, a taking or a
\* replacement may run beside it.
THEOREM RefundsBacked == FrontOfficeSpec => []RefundsAreBacked
<1>1. AftercareInv => RefundsAreBacked
  <2> SUFFICES ASSUME AftercareInv, NEW k \in DOMAIN refunds
               PROVE  LET p == refunds[k].proof IN
                      /\ refunds[k].status = "COMPLETED" =>
                            IF p \in Claim THEN taken[p] > 0 /\ refunds[k].amount <= Worth[p]
                            ELSE p \in Mishap /\ TypeOfMishap[p] \in TransitLoss
                      /\ \A j \in DOMAIN refunds \ {k} : p # NoProof => refunds[j].proof # p
    BY DEF RefundsAreBacked
  <2> QED
    BY DEF AftercareInv, AftercareRows, OneRefundEach, CompletedAreJustified, Justified
<1> QED
  BY <1>1, AftercareHolds, PTL

-----------------------------------------------------------------------------
(***************************************************************************)
(* Carts, orders and address books.  While no two requests that create a   *)
(* buyer's order have met, what is ordered and what is in the cart are     *)
(* together within what was ever asked for; while no two that mark a main  *)
(* entry of a book have met, the one that marks finds no other marked.     *)
(***************************************************************************)
Held(b, a) == IF cart[b] = NoCart THEN 0 ELSE cart[b][a].units

\* The request of v is past its read and creates b's order, or marks an entry
\* of the book.
Makes(v, b, what) ==
    /\ pc[v] \notin {"idle", "read"} /\ job[v].op \in Creates(what) /\ job[v].buyer = b
    /\ what = "orders" \/ job[v].primary

Alone ==
    \A b \in Buyer, what \in Book \cup {"orders"} : <<b, what>> \notin rivals =>
        \A v, w \in Worker : Makes(v, b, what) /\ Makes(w, b, what) => v = w

WithinAsked ==
    \A b \in Buyer, a \in Article : <<b, "orders">> \notin rivals => placed[b][a] + Held(b, a) <= asked[b][a]

\* What the row that w read says of the row that is there.
RowAgrees(w, b, a) ==
    /\ cart[b] # NoCart /\ saw[w].row <= cart[b][a].row
    /\ <<b, "orders">> \notin rivals /\ saw[w].row = cart[b][a].row /\ cart[b][a].units > 0 =>
          placed[b][a] + saw[w].units <= asked[b][a]

\* w marks its entry when no other is.
OnlyMain(w, k) ==
    <<job[w].buyer, k>> \notin rivals =>
        \A e \in Entry : book[job[w].buyer][k][e] = "main" => e = job[w].entry

OrderingFits(w) ==
    /\ pc[w] \in {"next", "write"} /\ job[w].op \in CartOp => cart[job[w].buyer] # NoCart
    /\ pc[w] = "write" /\ job[w].op = "ADD_ITEM" =>
          saw[w] \in CartRow /\ (saw[w].units > 0 => RowAgrees(w, job[w].buyer, job[w].article))
    /\ pc[w] \in {"check", "commit"} /\ job[w].op = "PLACE_ORDER" =>
          /\ cart[job[w].buyer] # NoCart
          /\ saw[w].items \in [Article -> Nat]
          /\ <<job[w].buyer, "orders">> \notin rivals =>
                \A a \in Article : placed[job[w].buyer][a] + saw[w].items[a] <= asked[job[w].buyer][a]
    /\ \A k \in Book : pc[w] = "write" /\ job[w].op \in Creates(k) /\ job[w].primary => OnlyMain(w, k)

OrderingRows == OrderingTypeOK /\ WithinAsked /\ OneMainEntry
OrderingInv == OrderingRows /\ Alone /\ \A w \in Worker : OrderingFits(w)

\* What a step of w may do to what others rely on.
Marks(w, b, k) == pc[w] = "write" /\ Makes(w, b, k)
Places(w, b) == pc[w] = "commit" /\ Makes(w, b, "orders")
CartGrows(b, a) ==
    cart[b] # NoCart =>
       /\ cart'[b] # NoCart /\ cart'[b][a].row \in Nat /\ cart'[b][a].row >= cart[b][a].row
       /\ cart'[b][a].row = cart[b][a].row /\ cart'[b][a].units > 0 =>
             cart[b][a].units > 0 /\ placed'[b][a] = placed[b][a]
OrderingGrows(w) ==
    /\ rivals \subseteq rivals'
    /\ \A b \in Buyer : cart[b] # NoCart => cart'[b] # NoCart
    /\ \A b \in Buyer, a \in Article :
          /\ asked'[b][a] \in Nat /\ asked'[b][a] >= asked[b][a]
          /\ CartGrows(b, a)
    /\ \A b \in Buyer : placed'[b] = placed[b] \/ Places(w, b)
    /\ \A b \in Buyer, k \in Book :
          \/ \A e \in Entry : book'[b][k][e] = "main" => book[b][k][e] = "main"
          \/ Marks(w, b, k)

\* If w begins to create or to mark, nobody else does, or they have met.
NoNewMaker(w) ==
    \A b \in Buyer, what \in Book \cup {"orders"} :
        Makes(w, b, what)' =>
           Makes(w, b, what) \/ <<b, what>> \in rivals' \/ \A v \in Worker \ {w} : ~ Makes(v, b, what)

LEMMA Creators ==
    /\ Creates("orders") = {"PLACE_ORDER"}
    /\ Creates("contacts") = {"ADD_CONTACT", "UPDATE_CONTACT"}
    /\ Creates("addresses") = {"ADD_ADDRESS", "UPDATE_ADDRESS"}
BY DEF Creates, OrderOp

LEMMA OrderingTypes ==
    ASSUME OrderingTypeOK
    PROVE  /\ \A b \in Buyer : buyer[b] \in Int
           /\ \A b \in Buyer : cart[b] # NoCart => cart[b] \in [Article -> CartRow]
           /\ \A b \in Buyer, a \in Article : cart[b] # NoCart =>
                 cart[b][a] \in CartRow /\ cart[b][a].units \in Nat /\ cart[b][a].row \in Nat
           /\ \A b \in Buyer, a \in Article : placed[b][a] \in Nat /\ asked[b][a] \in Nat /\ Held(b, a) \in Nat
BY DEF OrderingTypeOK, CartRow, Held

LEMMA OrderingJob ==
    ASSUME RequestsInv, NEW w \in Worker, pc[w] # "idle", job[w].op \in OrderingOp
    PROVE  /\ job[w].buyer \in Buyer /\ job[w].article \in Article /\ job[w].n \in Nat
           /\ job[w].entry \in Entry \cup {NoEntry} /\ job[w].primary \in BOOLEAN
<1>1. job[w] \in Request
  BY JobIsRequest
<1> QED
  BY <1>1, OrderingAssumption

LEMMA OrderingStart == OrderingInit /\ RequestsInit => OrderingInv
<1> SUFFICES ASSUME OrderingInit, RequestsInit PROVE OrderingInv
  OBVIOUS
<1>1. \A w \in Worker : pc[w] = "idle"
  BY DEF RequestsInit
<1>2. OrderingTypeOK
  BY DEF OrderingInit, OrderingTypeOK, Book
<1>3. WithinAsked
  BY OrderingAssumption DEF OrderingInit, WithinAsked, Held
<1>4. OneMainEntry
  BY DEF OrderingInit, OneMainEntry
<1> QED
  BY <1>1, <1>2, <1>3, <1>4 DEF OrderingInv, OrderingRows, Alone, Makes, OrderingFits

LEMMA UnitsOn == \A p, u, q, r \in Nat : p + u <= q /\ r >= q => p + u <= r
OBVIOUS

LEMMA RowsUp == \A x, y, z \in Nat : x <= y /\ z >= y => x <= z /\ (x = z => y = z)
OBVIOUS

\* Who rests may go on relying on it.
LEMMA OrderingFitsOn ==
    ASSUME RequestsInv, OrderingInv, NEW w \in Worker, OrderingGrows(w), NEW v \in Worker, v # w, Rests(v)
    PROVE  OrderingFits(v)'
<1> DEFINE b == job[v].buyer
           a == job[v].article
<1>1. pc'[v] = pc[v] /\ job'[v] = job[v] /\ saw'[v] = saw[v] /\ OrderingFits(v) /\ OrderingTypeOK
  BY DEF Rests, OrderingInv, OrderingRows
<1>2. ASSUME pc[v] # "idle", job[v].op \in OrderingOp
      PROVE  b \in Buyer /\ a \in Article
  BY <1>2, OrderingJob
<1>3. ASSUME pc[v] \in {"next", "write"}, job[v].op \in CartOp
      PROVE  cart'[b] # NoCart
  BY <1>1, <1>2, <1>3 DEF OrderingFits, OrderingGrows, OrderingOp
<1>4. ASSUME pc[v] = "write", job[v].op = "ADD_ITEM"
      PROVE  saw[v] \in CartRow /\ (saw[v].units > 0 => RowAgrees(v, b, a)')
  <2>1. b \in Buyer /\ a \in Article
    BY <1>2, <1>4 DEF OrderingOp, CartOp
  <2>2. saw[v] \in CartRow /\ (saw[v].units > 0 => RowAgrees(v, b, a))
    BY <1>1, <1>4 DEF OrderingFits
  <2>3. saw[v].row \in Nat /\ saw[v].units \in Nat
    BY <2>2 DEF CartRow
  <2>4. /\ rivals \subseteq rivals' /\ CartGrows(b, a)
        /\ asked'[b][a] \in Nat /\ asked'[b][a] >= asked[b][a]
    BY <2>1 DEF OrderingGrows
  <2>5. /\ asked[b][a] \in Nat /\ placed[b][a] \in Nat
        /\ cart[b] # NoCart => cart[b][a].row \in Nat
    BY <1>1, <2>1, OrderingTypes
  <2>6. ASSUME RowAgrees(v, b, a)
        PROVE  /\ cart'[b] # NoCart /\ saw[v].row <= cart'[b][a].row
               /\ <<b, "orders">> \notin rivals' /\ saw[v].row = cart'[b][a].row /\ cart'[b][a].units > 0 =>
                     placed'[b][a] + saw[v].units <= asked'[b][a]
    <3>1. /\ cart[b] # NoCart /\ saw[v].row <= cart[b][a].row
          /\ <<b, "orders">> \notin rivals /\ saw[v].row = cart[b][a].row /\ cart[b][a].units > 0 =>
                placed[b][a] + saw[v].units <= asked[b][a]
      BY <2>6 DEF RowAgrees
    <3>2. /\ cart'[b] # NoCart /\ cart'[b][a].row \in Nat /\ cart'[b][a].row >= cart[b][a].row
          /\ cart'[b][a].row = cart[b][a].row /\ cart'[b][a].units > 0 =>
                cart[b][a].units > 0 /\ placed'[b][a] = placed[b][a]
      BY <2>4, <3>1 DEF CartGrows
    <3>3. /\ cart'[b] # NoCart /\ saw[v].row <= cart'[b][a].row
          /\ saw[v].row = cart'[b][a].row => cart[b][a].row = cart'[b][a].row
      <4>1. /\ saw[v].row \in Nat /\ cart[b][a].row \in Nat /\ cart'[b][a].row \in Nat
            /\ saw[v].row <= cart[b][a].row /\ cart'[b][a].row >= cart[b][a].row
        BY <2>3, <2>5, <3>1, <3>2, Zenon
      <4>2. /\ saw[v].row <= cart'[b][a].row
            /\ saw[v].row = cart'[b][a].row => cart[b][a].row = cart'[b][a].row
        <5> HIDE DEF a, b
        <5>1. PICK x \in Nat, y \in Nat, z \in Nat : x = saw[v].row /\ y = cart[b][a].row /\ z = cart'[b][a].row
          BY <4>1, Zenon
        <5> QED
          BY <4>1, <5>1, RowsUp
      <4> QED
        BY <3>2, <4>2, Zenon
    <3>4. ASSUME <<b, "orders">> \notin rivals', saw[v].row = cart'[b][a].row, cart'[b][a].units > 0
          PROVE  placed'[b][a] + saw[v].units <= asked'[b][a]
      <4>1. cart[b][a].row = cart'[b][a].row
        BY <3>3, <3>4
      <4>2. cart[b][a].units > 0 /\ placed'[b][a] = placed[b][a]
        BY <3>2, <3>4, <4>1
      <4>3. placed[b][a] + saw[v].units <= asked[b][a]
        BY <2>4, <3>1, <3>4, <4>1, <4>2
      <4> QED
        <5>1. /\ placed[b][a] \in Nat /\ saw[v].units \in Nat /\ asked[b][a] \in Nat /\ asked'[b][a] \in Nat
              /\ asked'[b][a] >= asked[b][a]
          BY <2>3, <2>4, <2>5, Zenon
        <5>2. placed[b][a] + saw[v].units <= asked'[b][a]
          BY <4>3, <5>1, UnitsOn
        <5> QED
          BY <4>2, <5>2
    <3> QED
      BY <3>3, <3>4
  <2> QED
    BY <1>1, <2>2, <2>6 DEF RowAgrees
<1>5. ASSUME pc[v] \in {"check", "commit"}, job[v].op = "PLACE_ORDER"
      PROVE  /\ cart'[b] # NoCart
             /\ saw[v].items \in [Article -> Nat]
             /\ <<b, "orders">> \notin rivals' => \A c \in Article : placed'[b][c] + saw[v].items[c] <= asked'[b][c]
  <2>1. b \in Buyer
    BY <1>2, <1>5 DEF OrderingOp, OrderOp
  <2>2. cart[b] # NoCart /\ saw[v].items \in [Article -> Nat]
    BY <1>1, <1>5 DEF OrderingFits
  <2>3. ASSUME <<b, "orders">> \notin rivals', NEW c \in Article
        PROVE  placed'[b][c] + saw[v].items[c] <= asked'[b][c]
    <3>1. <<b, "orders">> \notin rivals
      BY <2>3 DEF OrderingGrows
    <3>2. placed[b][c] + saw[v].items[c] <= asked[b][c]
      BY <1>1, <1>5, <3>1 DEF OrderingFits
    <3>3. Makes(v, b, "orders")
      BY <1>5, Creators DEF Makes
    <3>4. ~ Makes(w, b, "orders")
      BY <2>1, <3>1, <3>3 DEF OrderingInv, Alone
    <3>5. placed'[b] = placed[b]
      BY <2>1, <3>4 DEF OrderingGrows, Places
    <3>6. asked'[b][c] \in Nat /\ asked'[b][c] >= asked[b][c]
      BY <2>1 DEF OrderingGrows
    <3>7. placed[b][c] \in Nat /\ asked[b][c] \in Nat /\ saw[v].items[c] \in Nat
      BY <1>1, <2>1, <2>2, OrderingTypes
    <3> QED
      BY <3>2, <3>5, <3>6, <3>7
  <2> QED
    BY <2>1, <2>2, <2>3 DEF OrderingGrows
<1>6. ASSUME NEW k \in Book, pc[v] = "write", job[v].op \in Creates(k), job[v].primary
      PROVE  <<b, k>> \notin rivals' => \A e \in Entry : book'[b][k][e] = "main" => e = job[v].entry
  <2>1. b \in Buyer
    BY <1>2, <1>6, Creators DEF OrderingOp, BookOp, Book
  <2>2. SUFFICES ASSUME <<b, k>> \notin rivals', NEW e \in Entry, book'[b][k][e] = "main"
                 PROVE  e = job[v].entry
    OBVIOUS
  <2>3. <<b, k>> \notin rivals
    BY <2>2 DEF OrderingGrows
  <2>4. Makes(v, b, k)
    BY <1>6, Zenon DEF Makes
  <2>5. ~ Makes(w, b, k)
    BY <2>1, <2>3, <2>4 DEF OrderingInv, Alone
  <2>6. book[b][k][e] = "main"
    BY <2>1, <2>2, <2>5 DEF OrderingGrows, Marks
  <2>7. OnlyMain(v, k)
    BY <1>1, <1>6, Zenon DEF OrderingFits
  <2> QED
    BY <2>3, <2>6, <2>7 DEF OnlyMain
<1>7. \A k \in Book : pc[v] = "write" /\ job[v].op \in Creates(k) /\ job[v].primary => OnlyMain(v, k)'
  <2>1. ASSUME NEW k \in Book, pc[v] = "write", job[v].op \in Creates(k), job[v].primary
        PROVE  OnlyMain(v, k)'
    <3>1. job'[v] = job[v]
      BY <1>1
    <3> QED
      BY <1>6, <2>1, <3>1 DEF OnlyMain
  <2> QED
    BY <2>1, Zenon
<1> QED
  BY <1>1, <1>3, <1>4, <1>5, <1>7 DEF OrderingFits

\* All that a step of w owes the others.
OrderingKept(w) == OrderingRows' /\ OrderingGrows(w) /\ NoNewMaker(w) /\ OrderingFits(w)'

LEMMA OrderingOthers ==
    ASSUME RequestsInv, OrderingInv, NEW w \in Worker, Handled(w), OrderingKept(w)
    PROVE  OrderingInv'
<1>1. \A v \in Worker : v # w => Rests(v)
  BY OthersRest
<1>2. OrderingRows' /\ OrderingGrows(w) /\ NoNewMaker(w) /\ OrderingFits(w)'
  BY DEF OrderingKept
<1>3. \A v \in Worker : OrderingFits(v)'
  BY <1>1, <1>2, OrderingFitsOn
<1>4. ASSUME NEW v \in Worker, v # w, NEW b, NEW what
      PROVE  Makes(v, b, what)' <=> Makes(v, b, what)
  <2>1. Rests(v)
    BY <1>1, <1>4
  <2> QED
    BY <2>1 DEF Makes, Rests, Creates
<1>5. ASSUME NEW b \in Buyer, NEW what \in Book \cup {"orders"}, <<b, what>> \notin rivals',
             NEW u \in Worker, NEW v \in Worker, Makes(u, b, what)', Makes(v, b, what)'
      PROVE  u = v
  <2>1. <<b, what>> \notin rivals
    BY <1>2, <1>5 DEF OrderingGrows
  <2>2. \A x, y \in Worker : Makes(x, b, what) /\ Makes(y, b, what) => x = y
    BY <2>1 DEF OrderingInv, Alone
  <2>3. Makes(w, b, what)' => Makes(w, b, what) \/ \A x \in Worker \ {w} : ~ Makes(x, b, what)
    BY <1>2, <1>5, Zenon DEF NoNewMaker
  <2> QED
    BY <1>4, <1>5, <2>2, <2>3
<1>6. Alone'
  BY <1>5 DEF Alone
<1> QED
  BY <1>2, <1>3, <1>6 DEF OrderingInv

LEMMA OrderingAtRest ==
    ASSUME RequestsInv, OrderingInv, OrderingRests
    PROVE  OrderingInv'
<1>1. /\ UNCHANGED <<buyer, cart, placed, asked, rivals, book>>
      /\ \A v \in Worker :
            \/ Rests(v)
            \/ pc'[v] \in {"idle", "read"}
            \/ job'[v] = job[v] /\ job[v].op \notin OrderingOp
  BY DEF OrderingRests, ordering, Elsewhere
<1>2. OrderingRows'
  BY <1>1 DEF OrderingInv, OrderingRows, OrderingTypeOK, WithinAsked, Held, OneMainEntry
<1>3. \A what \in Book \cup {"orders"} : Creates(what) \subseteq OrderingOp
  BY Creators DEF Book, OrderingOp, OrderOp, BookOp
<1>4. ASSUME NEW v \in Worker, NEW b \in Buyer, NEW what \in Book \cup {"orders"}, Makes(v, b, what)'
      PROVE  Makes(v, b, what)
  <2>1. Creates(what)' = Creates(what)
    BY DEF Creates
  <2> QED
    BY <1>1, <1>3, <1>4, <2>1 DEF Makes, Rests
<1>5. Alone'
  BY <1>1, <1>4, Zenon DEF OrderingInv, Alone
<1>6. ASSUME NEW v \in Worker
      PROVE  OrderingFits(v)'
  <2>1. OrderingFits(v)
    BY DEF OrderingInv
  <2>2. CASE Rests(v)
    BY <1>1, <2>1, <2>2, ZenonT(40) DEF Rests, OrderingFits, RowAgrees, OnlyMain, Creates
  <2>3. CASE pc'[v] \in {"idle", "read"}
    BY <2>3 DEF OrderingFits
  <2>4. CASE job'[v] = job[v] /\ job[v].op \notin OrderingOp
    <3>1. job'[v].op \notin CartOp /\ job'[v].op # "PLACE_ORDER" /\ job'[v].op # "ADD_ITEM"
      BY <2>4 DEF OrderingOp, CartOp, OrderOp
    <3>2. \A k \in Book : job'[v].op \notin Creates(k)
      BY <1>3, <2>4
    <3> QED
      BY <3>1, <3>2 DEF OrderingFits, Creates
  <2> QED
    BY <1>1, <2>2, <2>3, <2>4
<1> QED
  BY <1>2, <1>5, <1>6 DEF OrderingInv

-----------------------------------------------------------------------------
(* Who makes what.                                                         *)
LEMMA OrderingEnds ==
    ASSUME RequestsInv, NEW w \in Worker, Answer(w)
    PROVE  NoNewMaker(w) /\ OrderingFits(w)'
<1>1. pc'[w] = "idle"
  BY WhatIsAnswered
<1> QED
  BY <1>1 DEF NoNewMaker, Makes, OrderingFits

LEMMA StaysMaker ==
    ASSUME RequestsInv, NEW w \in Worker, Handled(w),
           pc[w] # "read" \/ \A what \in Book \cup {"orders"} : job[w].op \notin Creates(what)
    PROVE  NoNewMaker(w)
<1>1. CASE Answer(w)
  BY <1>1, OrderingEnds
<1>2. CASE Proceeds(w)
  <2>1. job' = job /\ pc[w] # "idle"
    BY <1>2 DEF Proceeds, Handled
  <2>2. ASSUME NEW b \in Buyer, NEW what \in Book \cup {"orders"}, Makes(w, b, what)'
        PROVE  Makes(w, b, what)
    BY <2>1, <2>2 DEF Makes, Creates
  <2> QED
    BY <2>2, Zenon DEF NoNewMaker
<1> QED
  BY <1>1, <1>2 DEF Handled

LEMMA MeetsOrMakes ==
    ASSUME RequestsInv, OrderingRows, NEW w \in Worker, pc[w] # "idle", NEW what \in Book \cup {"orders"},
           job[w].op \in Creates(what), MeetsRival(w, what), job'[w] = job[w]
    PROVE  /\ NoNewMaker(w) /\ rivals \subseteq rivals'
           /\ rivals' \subseteq Buyer \X (Book \cup {"orders"})
<1> DEFINE met == \E v \in Worker \ {w} :
              /\ pc[v] \notin {"idle", "read"} /\ job[v].op \in Creates(what) /\ job[v].buyer = Who(w)
              /\ what = "orders" \/ (job[v].primary /\ job[w].primary)
<1>1. rivals' = IF met THEN rivals \cup {<<Who(w), what>>} ELSE rivals
  BY DEF MeetsRival
<1>2. job[w].op \in OrderingOp
  BY Creators DEF Book, OrderingOp, OrderOp, BookOp
<1>3. Who(w) \in Buyer
  BY <1>2, OrderingJob DEF Who
<1>4. ASSUME NEW b \in Buyer, NEW k \in Book \cup {"orders"}, Makes(w, b, k)', <<b, k>> \notin rivals',
             NEW v \in Worker \ {w}, Makes(v, b, k)
      PROVE  FALSE
  <2>1. job[w].op \in Creates(k) /\ b = Who(w) /\ (k = "orders" \/ job[w].primary)
    BY <1>4 DEF Makes, Creates, Who
  <2>2. k = what
    BY <2>1, Creators DEF Book
  <2>3. ~ met
    BY <1>1, <1>4, <2>1, <2>2
  <2> QED
    BY <1>4, <2>1, <2>2, <2>3 DEF Makes
<1>5. rivals \subseteq Buyer \X (Book \cup {"orders"})
  BY DEF OrderingRows, OrderingTypeOK
<1> HIDE DEF met
<1>6. NoNewMaker(w)
  BY <1>4, Zenon DEF NoNewMaker
<1> QED
  BY <1>1, <1>3, <1>5, <1>6

LEMMA OrderingReads ==
    ASSUME RequestsInv, OrderingInv, NEW w \in Worker, UNCHANGED ordering, Handled(w), OrderingFits(w)',
           pc[w] # "read" \/ \A what \in Book \cup {"orders"} : job[w].op \notin Creates(what)
    PROVE  OrderingKept(w)
<1>1. UNCHANGED <<buyer, cart, placed, asked, rivals, book>>
  BY DEF ordering
<1>2. OrderingRows' /\ OrderingTypeOK
  BY <1>1 DEF OrderingInv, OrderingRows, OrderingTypeOK, WithinAsked, Held, OneMainEntry
<1>3. OrderingGrows(w)
  BY <1>1, <1>2, OrderingTypes DEF OrderingGrows, CartGrows
<1> QED
  BY <1>2, <1>3, StaysMaker DEF OrderingKept

LEMMA OrderingMeets ==
    ASSUME RequestsInv, OrderingInv, NEW w \in Worker, NEW what \in Book \cup {"orders"},
           UNCHANGED <<buyer, cart, placed, asked, book>>, Handled(w), OrderingFits(w)',
           job[w].op \in Creates(what), MeetsRival(w, what)
    PROVE  OrderingKept(w)
<1>1. /\ rivals \subseteq rivals'
      /\ rivals' \subseteq Buyer \X (Book \cup {"orders"})
      /\ NoNewMaker(w)
  <2>1. CASE Answer(w)
    <3>1. NoNewMaker(w)
      BY <2>1, OrderingEnds
    <3>2. Who(w) \in Buyer
      BY OrderingJob, Creators DEF Who, Handled, Book, OrderingOp, OrderOp, BookOp
    <3> QED
      BY <3>1, <3>2 DEF MeetsRival, OrderingInv, OrderingRows, OrderingTypeOK
  <2>2. CASE Proceeds(w)
    BY <2>2, MeetsOrMakes DEF OrderingInv, Handled, Proceeds
  <2> QED
    BY <2>1, <2>2 DEF Handled
<1>2. OrderingRows' /\ OrderingTypeOK
  BY <1>1 DEF OrderingInv, OrderingRows, OrderingTypeOK, WithinAsked, Held, OneMainEntry
<1>3. OrderingGrows(w)
  BY <1>1, <1>2, OrderingTypes DEF OrderingGrows, CartGrows
<1> QED
  BY <1>1, <1>2, <1>3 DEF OrderingKept

-----------------------------------------------------------------------------
(* What is written.                                                        *)
LEMMA AskGrows ==
    ASSUME OrderingTypeOK, NEW b \in Buyer, NEW a \in Article, NEW n \in Int, Ask(b, a, n)
    PROVE  /\ asked' \in [Buyer -> [Article -> Nat]]
           /\ \A c \in Buyer, d \in Article : asked'[c][d] >= asked[c][d]
           /\ asked'[b][a] >= asked[b][a] + n
<1> DEFINE m == Max({0, n})
<1>1. m \in Nat /\ m >= n
  <2>1. CASE n >= 0
    <3>1. \E x \in {0, n} : \A y \in {0, n} : x >= y
      BY <2>1
    <3> QED
      BY <3>1 DEF Max
  <2>2. CASE n < 0
    <3>1. \E x \in {0, n} : \A y \in {0, n} : x >= y
      BY <2>2
    <3> QED
      BY <3>1 DEF Max
  <2> QED
    BY <2>1, <2>2
<1>2. asked' = [asked EXCEPT ![b][a] = asked[b][a] + m]
  BY DEF Ask
<1> HIDE DEF m
<1>3. asked \in [Buyer -> [Article -> Nat]]
  BY DEF OrderingTypeOK
<1>4. asked[b][a] + m \in Nat
  BY <1>1, <1>3
<1>5. asked' \in [Buyer -> [Article -> Nat]] /\ asked'[b][a] = asked[b][a] + m
  BY <1>2, <1>3, <1>4
<1>6. ASSUME NEW c \in Buyer, NEW d \in Article
      PROVE  asked'[c][d] >= asked[c][d]
  <2>1. asked'[c][d] = IF c = b /\ d = a THEN asked[b][a] + m ELSE asked[c][d]
    BY <1>2, <1>3
  <2> QED
    BY <1>1, <1>3, <2>1
<1>7. asked[b][a] \in Nat
  BY <1>3
<1> QED
  BY <1>1, <1>5, <1>6, <1>7

\* A row of a cart is written: for units that were asked for, and under a
\* number that is never used for less.
LEMMA RowWritten ==
    ASSUME OrderingRows, NEW w \in Worker, NEW b \in Buyer, NEW a \in Article, NEW r \in CartRow,
           cart[b] # NoCart, cart' = [cart EXCEPT ![b][a] = r], UNCHANGED <<buyer, placed, rivals, book>>,
           asked' \in [Buyer -> [Article -> Nat]],
           \A c \in Buyer, d \in Article : asked'[c][d] >= asked[c][d],
           r.row >= cart[b][a].row,
           r.row = cart[b][a].row /\ r.units > 0 => cart[b][a].units > 0,
           <<b, "orders">> \notin rivals => placed[b][a] + r.units <= asked'[b][a]
    PROVE  OrderingRows' /\ OrderingGrows(w)
<1>1. OrderingTypeOK /\ WithinAsked /\ OneMainEntry
  BY DEF OrderingRows
<1>2. /\ cart \in [Buyer -> {NoCart} \cup [Article -> CartRow]] /\ cart[b] \in [Article -> CartRow]
      /\ \A c \in Buyer : buyer[c] = -1 => cart[c] = NoCart
  BY <1>1 DEF OrderingTypeOK
<1>3. /\ cart'[b] \in [Article -> CartRow] /\ cart'[b][a] = r /\ cart'[b] # NoCart
      /\ \A c \in Buyer : c # b => cart'[c] = cart[c]
      /\ \A d \in Article : d # a => cart'[b][d] = cart[b][d]
  BY <1>2, OrderingAssumption
<1>4. cart' \in [Buyer -> {NoCart} \cup [Article -> CartRow]]
  BY <1>2, <1>3
<1>5. OrderingTypeOK'
  BY <1>1, <1>2, <1>3, <1>4 DEF OrderingTypeOK
<1>6. ASSUME NEW c \in Buyer, NEW d \in Article, <<c, "orders">> \notin rivals
      PROVE  placed[c][d] + Held(c, d)' <= asked'[c][d]
  <2>1. /\ placed[c][d] \in Nat /\ Held(c, d) \in Nat /\ asked[c][d] \in Nat /\ asked'[c][d] \in Nat
        /\ placed[c][d] + Held(c, d) <= asked[c][d] /\ asked'[c][d] >= asked[c][d]
    BY <1>1, <1>6, OrderingTypes DEF WithinAsked
  <2>2. CASE c = b /\ d = a
    <3>1. Held(c, d)' = r.units
      BY <1>3, <2>2 DEF Held
    <3> QED
      BY <1>6, <2>2, <3>1
  <2>3. CASE ~ (c = b /\ d = a)
    <3>1. Held(c, d)' = Held(c, d)
      BY <1>2, <1>3, <2>3 DEF Held
    <3> QED
      BY <2>1, <3>1
  <2> QED
    BY <2>2, <2>3
<1>7. WithinAsked'
  BY <1>6 DEF WithinAsked
<1>8. OneMainEntry'
  BY <1>1 DEF OneMainEntry
<1>9. ASSUME NEW c \in Buyer, NEW d \in Article
      PROVE  CartGrows(c, d)
  <2>1. CASE c = b /\ d = a
    BY <1>2, <1>3, <2>1 DEF CartGrows, CartRow
  <2>2. CASE ~ (c = b /\ d = a)
    <3>1. cart[c] # NoCart => cart'[c] # NoCart /\ cart'[c][d] = cart[c][d]
      BY <1>2, <1>3, <2>2
    <3>2. cart[c] # NoCart => cart[c][d].row \in Nat
      BY <1>1, OrderingTypes
    <3> QED
      BY <3>1, <3>2 DEF CartGrows
  <2> QED
    BY <2>1, <2>2
<1>10. OrderingGrows(w)
  BY <1>1, <1>2, <1>3, <1>9 DEF OrderingGrows
<1> QED
  BY <1>5, <1>7, <1>8, <1>10 DEF OrderingRows

LEMMA UnitsSet ==
    ASSUME OrderingTypeOK, NEW b \in Buyer, NEW a \in Article, NEW n \in Nat, cart[b] # NoCart,
           SetUnits(b, a, n), NEW r, r = [units |-> n, row |-> cart[b][a].row]
    PROVE  cart' = [cart EXCEPT ![b][a] = r] /\ r \in CartRow /\ r.units = n /\ r.row = cart[b][a].row
<1>1. cart[b][a] \in CartRow /\ cart[b][a].row \in Nat
  BY OrderingTypes
<1>2. [cart[b][a] EXCEPT !.units = n] = r
  BY <1>1 DEF CartRow
<1>3. cart' = [cart EXCEPT ![b][a] = [cart[b][a] EXCEPT !.units = n]]
  BY DEF SetUnits
<1>4. r \in CartRow
  BY <1>1 DEF CartRow
<1> QED
  BY <1>2, <1>3, <1>4

\* The cart is created.
LEMMA CartCreated ==
    ASSUME OrderingRows, NEW w \in Worker, NEW b \in Buyer, cart[b] = NoCart, buyer[b] # -1,
           cart' = [cart EXCEPT ![b] = [a \in Article |-> [units |-> 0, row |-> 0]]],
           UNCHANGED <<buyer, placed, asked, rivals, book>>
    PROVE  OrderingRows' /\ OrderingGrows(w) /\ cart'[b] # NoCart
<1>1. OrderingTypeOK /\ WithinAsked /\ OneMainEntry
  BY DEF OrderingRows
<1>2. [a \in Article |-> [units |-> 0, row |-> 0]] \in [Article -> CartRow]
  BY DEF CartRow
<1>3. /\ cart'[b] = [a \in Article |-> [units |-> 0, row |-> 0]] /\ cart'[b] # NoCart
      /\ cart' \in [Buyer -> {NoCart} \cup [Article -> CartRow]]
      /\ \A c \in Buyer : c # b => cart'[c] = cart[c]
  BY <1>1, <1>2, OrderingAssumption DEF OrderingTypeOK
<1>4. OrderingTypeOK'
  BY <1>1, <1>3 DEF OrderingTypeOK
<1>5. ASSUME NEW c \in Buyer, NEW d \in Article
      PROVE  Held(c, d)' = Held(c, d)
  BY <1>3, <1>5 DEF Held
<1>6. WithinAsked'
  BY <1>1, <1>5 DEF WithinAsked
<1>7. OneMainEntry'
  BY <1>1 DEF OneMainEntry
<1>8. OrderingGrows(w)
  BY <1>1, <1>3, OrderingTypes DEF OrderingGrows, CartGrows
<1> QED
  BY <1>3, <1>4, <1>6, <1>7, <1>8 DEF OrderingRows

\* The cart is emptied; what was in it may have been ordered.
LEMMA CartEmptied ==
    ASSUME OrderingRows, NEW w \in Worker, NEW b \in Buyer, cart[b] # NoCart, Emptied(b),
           UNCHANGED <<buyer, asked, rivals, book>>,
           placed' \in [Buyer -> [Article -> Nat]], \A c \in Buyer : c # b => placed'[c] = placed[c],
           placed'[b] = placed[b] \/ Places(w, b),
           \A a \in Article : <<b, "orders">> \notin rivals => placed'[b][a] <= asked[b][a]
    PROVE  OrderingRows' /\ OrderingGrows(w)
<1>1. OrderingTypeOK /\ WithinAsked /\ OneMainEntry
  BY DEF OrderingRows
<1>2. /\ cart \in [Buyer -> {NoCart} \cup [Article -> CartRow]] /\ cart[b] \in [Article -> CartRow]
      /\ \A c \in Buyer : buyer[c] = -1 => cart[c] = NoCart
  BY <1>1 DEF OrderingTypeOK
<1>3. [a \in Article |-> [units |-> 0, row |-> cart[b][a].row]] \in [Article -> CartRow]
  BY <1>1, OrderingTypes DEF CartRow
<1>4. /\ cart'[b] = [a \in Article |-> [units |-> 0, row |-> cart[b][a].row]] /\ cart'[b] # NoCart
      /\ cart' \in [Buyer -> {NoCart} \cup [Article -> CartRow]]
      /\ \A c \in Buyer : c # b => cart'[c] = cart[c]
  BY <1>2, <1>3, OrderingAssumption DEF Emptied
<1>5. OrderingTypeOK'
  BY <1>1, <1>2, <1>4 DEF OrderingTypeOK
<1>6. ASSUME NEW c \in Buyer, NEW d \in Article, <<c, "orders">> \notin rivals
      PROVE  placed'[c][d] + Held(c, d)' <= asked[c][d]
  <2>1. CASE c = b
    <3>1. Held(c, d)' = 0
      BY <1>4, <2>1 DEF Held
    <3>2. placed'[c][d] \in Nat
      OBVIOUS
    <3> QED
      BY <1>6, <2>1, <3>1, <3>2
  <2>2. CASE c # b
    <3>1. Held(c, d)' = Held(c, d) /\ placed'[c] = placed[c]
      BY <1>4, <2>2 DEF Held
    <3> QED
      BY <1>1, <1>6, <3>1 DEF WithinAsked
  <2> QED
    BY <2>1, <2>2
<1>7. WithinAsked'
  BY <1>6 DEF WithinAsked
<1>8. OneMainEntry'
  BY <1>1 DEF OneMainEntry
<1>9. ASSUME NEW c \in Buyer, NEW d \in Article
      PROVE  CartGrows(c, d)
  <2>1. cart[c] # NoCart => cart[c][d].row \in Nat
    BY <1>1, OrderingTypes
  <2>2. CASE c = b
    BY <1>4, <2>1, <2>2 DEF CartGrows
  <2>3. CASE c # b
    BY <1>4, <2>1, <2>3 DEF CartGrows
  <2> QED
    BY <2>2, <2>3
<1>10. \A c \in Buyer, d \in Article : asked'[c][d] \in Nat /\ asked'[c][d] >= asked[c][d]
  BY <1>1, OrderingTypes
<1>11. \A c \in Buyer : cart[c] # NoCart => cart'[c] # NoCart
  BY <1>4
<1>12. \A c \in Buyer : placed'[c] = placed[c] \/ Places(w, c)
  OBVIOUS
<1>13. OrderingGrows(w)
  BY <1>9, <1>10, <1>11, <1>12 DEF OrderingGrows
<1> QED
  BY <1>5, <1>7, <1>8, <1>13 DEF OrderingRows

\* The client or its books are written: nothing is marked, or by one who
\* marks, and then nothing else is.
LEMMA ClientWritten ==
    ASSUME OrderingRows, NEW w \in Worker, UNCHANGED <<cart, placed, asked, rivals>>,
           buyer' \in [Buyer -> Int], \A b \in Buyer : buyer'[b] = -1 => cart[b] = NoCart,
           book' \in [Buyer -> [Book -> [Entry -> {"none", "plain", "main"}]]],
           \A b \in Buyer, k \in Book :
              \/ \A e \in Entry : book'[b][k][e] = "main" => book[b][k][e] = "main"
              \/ /\ Marks(w, b, k)
                 /\ \/ <<b, k>> \in rivals
                    \/ \E f : \A e \in Entry : book'[b][k][e] = "main" => e = f
    PROVE  OrderingRows' /\ OrderingGrows(w)
<1>1. OrderingTypeOK /\ WithinAsked /\ OneMainEntry
  BY DEF OrderingRows
<1>2. OrderingTypeOK'
  BY <1>1 DEF OrderingTypeOK
<1>3. WithinAsked'
  BY <1>1 DEF WithinAsked, Held
<1>4. ASSUME NEW b \in Buyer, NEW k \in Book, NEW e \in Entry, NEW f \in Entry,
             book'[b][k][e] = "main", book'[b][k][f] = "main", <<b, k>> \notin rivals
      PROVE  e = f
  BY <1>1, <1>4 DEF OneMainEntry
<1>5. OneMainEntry'
  BY <1>4 DEF OneMainEntry
<1>6. \A c \in Buyer, d \in Article : CartGrows(c, d)
  BY <1>1, OrderingTypes DEF CartGrows
<1>7. \A c \in Buyer, d \in Article : asked'[c][d] \in Nat /\ asked'[c][d] >= asked[c][d]
  BY <1>1, OrderingTypes
<1>8. OrderingGrows(w)
  BY <1>6, <1>7 DEF OrderingGrows
<1> QED
  BY <1>2, <1>3, <1>5, <1>8 DEF OrderingRows

-----------------------------------------------------------------------------
(* The handlers.                                                           *)
LEMMA NotMakers ==
    ASSUME NEW o \in CartOp \cup BuyerOp \cup {"REMOVE_CONTACT", "REMOVE_ADDRESS"}
    PROVE  \A what \in Book \cup {"orders"} : o \notin Creates(what)
BY Creators DEF Book, CartOp, BuyerOp

\* A write that ends the request.
LEMMA WritesAndEnds ==
    ASSUME RequestsInv, NEW w \in Worker, Answer(w), OrderingRows', OrderingGrows(w)
    PROVE  OrderingKept(w)
BY OrderingEnds DEF OrderingKept

LEMMA ReadsAndEnds ==
    ASSUME RequestsInv, OrderingInv, NEW w \in Worker, pc[w] # "idle", Answer(w), UNCHANGED ordering
    PROVE  OrderingKept(w)
<1>1. UNCHANGED <<buyer, cart, placed, asked, rivals, book>>
  BY DEF ordering
<1>2. OrderingRows' /\ OrderingTypeOK
  BY <1>1 DEF OrderingInv, OrderingRows, OrderingTypeOK, WithinAsked, Held, OneMainEntry
<1>3. OrderingGrows(w)
  BY <1>1, <1>2, OrderingTypes DEF OrderingGrows, CartGrows
<1> QED
  BY <1>2, <1>3, WritesAndEnds

\* Between its steps the handler of a cart relies on the cart, from the step
\* that has read it on, and on nothing else before it writes.
LEMMA CartFits ==
    ASSUME RequestsInv, NEW w \in Worker, job[w].op \in CartOp, job'[w] = job[w],
           pc'[w] \in {"next", "write"} => cart'[job[w].buyer] # NoCart,
           pc'[w] = "write" => job[w].op # "ADD_ITEM"
    PROVE  OrderingFits(w)'
<1>1. job'[w].op \in CartOp /\ job'[w].op # "PLACE_ORDER"
  BY DEF CartOp
<1>2. \A k \in Book : job'[w].op \notin Creates(k)
  BY <1>1, NotMakers
<1> QED
  BY <1>1, <1>2 DEF OrderingFits, Creates

LEMMA OpensCart ==
    ASSUME RequestsInv, OrderingInv, NEW w \in Worker, NEW op \in CartOp,
           NEW then \in {"finish", "next", "write"}, then = "write" => op # "ADD_ITEM", OpenCart(w, op, then)
    PROVE  OrderingKept(w)
<1> DEFINE b == Who(w)
<1>1. pc[w] # "idle" /\ job[w].op = op
  BY DEF OpenCart, At
<1>2. Who(w) \in Buyer /\ b = job[w].buyer
  BY <1>1, OrderingJob DEF OrderingOp, Who
<1>3. \A what \in Book \cup {"orders"} : job[w].op \notin Creates(what)
  BY <1>1, NotMakers
<1>4. CASE At(w, op, "read") /\ SeeIf(w, buyer[b] # -1, Unread, "check") /\ UNCHANGED ordering
  <2>1. CASE Answer(w)
    BY <1>1, <1>4, <2>1, ReadsAndEnds
  <2>2. CASE See(w, Unread, "check")
    <3>1. pc'[w] = "check" /\ job'[w] = job[w]
      BY <2>2, WhatIsSeen, StepNames
    <3>2. OrderingFits(w)'
      BY <1>1, <3>1, CartFits
    <3>3. Handled(w)
      BY <1>1, <2>2, SeeHandles, StepNames
    <3> QED
      BY <1>3, <1>4, <3>2, <3>3, OrderingReads
  <2> QED
    BY <1>4, <2>1, <2>2 DEF SeeIf
<1>5. CASE At(w, op, "check") /\ Goto(w, IF cart[b] = NoCart THEN "ask" ELSE then) /\ UNCHANGED ordering
  <2>1. PICK p \in {"ask", then} : Goto(w, p) /\ (p = then => p = "ask" \/ cart[b] # NoCart)
    BY <1>5
  <2>2. p \in Step \ {"idle", "read"} /\ p \in Step
    BY StepNames
  <2>3. pc'[w] = p /\ job'[w] = job[w] /\ Handled(w)
    BY <1>1, <2>1, <2>2, WhatGoesOn, GotoHandles
  <2>4. cart' = cart
    BY <1>5 DEF ordering
  <2>5. OrderingFits(w)'
    BY <1>1, <1>2, <2>1, <2>3, <2>4, CartFits
  <2> QED
    BY <1>3, <1>5, <2>3, <2>5, OrderingReads
<1>6. CASE /\ At(w, op, "ask")
           /\ IF cart[b] = NoCart /\ buyer[b] # -1
              THEN /\ cart' = [cart EXCEPT ![b] = [a \in Article |-> [units |-> 0, row |-> 0]]]
                   /\ Goto(w, then)
              ELSE Answer(w) /\ UNCHANGED cart
           /\ UNCHANGED <<buyer, placed, asked, rivals, book>>
  <2>1. CASE cart[b] = NoCart /\ buyer[b] # -1
    <3>1. /\ cart' = [cart EXCEPT ![b] = [a \in Article |-> [units |-> 0, row |-> 0]]]
          /\ Goto(w, then) /\ UNCHANGED <<buyer, placed, asked, rivals, book>>
      BY <1>6, <2>1
    <3>2. OrderingRows
      BY DEF OrderingInv
    <3>3. OrderingRows' /\ OrderingGrows(w) /\ cart'[b] # NoCart
      BY <1>2, <2>1, <3>1, <3>2, CartCreated
    <3>4. then \in Step \ {"idle", "read"} /\ then \in Step
      BY StepNames
    <3>5. pc'[w] = then /\ job'[w] = job[w] /\ Handled(w)
      BY <1>1, <3>1, <3>4, WhatGoesOn, GotoHandles
    <3>6. OrderingFits(w)'
      BY <1>1, <1>2, <3>3, <3>5, CartFits
    <3>7. NoNewMaker(w)
      BY <1>3, <3>5, StaysMaker
    <3> QED
      BY <3>3, <3>6, <3>7 DEF OrderingKept
  <2>2. CASE ~ (cart[b] = NoCart /\ buyer[b] # -1)
    BY <1>1, <1>6, <2>2, ReadsAndEnds DEF ordering
  <2> QED
    BY <2>1, <2>2
<1> QED
  BY <1>4, <1>5, <1>6 DEF OpenCart

LEMMA FindsItem ==
    ASSUME RequestsInv, OrderingInv, NEW w \in Worker, NEW op \in {"UPDATE_ITEM", "REMOVE_ITEM"},
           FindItem(w, op)
    PROVE  OrderingKept(w)
<1>1. pc[w] = "next" /\ job[w].op = op /\ op \in CartOp /\ UNCHANGED ordering /\ cart' = cart
  BY DEF FindItem, At, CartOp, ordering
<1>2. cart[job[w].buyer] # NoCart
  BY <1>1 DEF OrderingInv, OrderingFits
<1>3. CASE Answer(w)
  BY <1>1, <1>3, ReadsAndEnds
<1>4. CASE See(w, cart[Who(w)][job[w].article], "write")
  <2>1. pc'[w] = "write" /\ job'[w] = job[w] /\ Handled(w)
    BY <1>1, <1>4, WhatIsSeen, SeeHandles, StepNames
  <2>2. OrderingFits(w)'
    BY <1>1, <1>2, <2>1, CartFits
  <2> QED
    BY <1>1, <2>1, <2>2, OrderingReads
<1> QED
  BY <1>3, <1>4 DEF FindItem, SeeIf

LEMMA AddsItem ==
    ASSUME RequestsInv, OrderingInv, NEW w \in Worker, AddItem(w)
    PROVE  OrderingKept(w)
<1> DEFINE b == Who(w)
           a == job[w].article
           n == job[w].n
<1>1. pc[w] # "idle" /\ job[w].op = "ADD_ITEM" /\ job[w].op \in CartOp
  BY DEF AddItem, OpenCart, At, CartOp
<1>2. Who(w) \in Buyer /\ job[w].article \in Article /\ job[w].n \in Nat /\ b = job[w].buyer
  BY <1>1, OrderingJob DEF OrderingOp, Who
<1>3. OrderingRows /\ OrderingTypeOK /\ WithinAsked /\ OrderingFits(w)
  BY DEF OrderingInv, OrderingRows
<1>4. CASE OpenCart(w, "ADD_ITEM", "next")
  BY <1>4, OpensCart DEF CartOp
<1>5. CASE /\ At(w, "ADD_ITEM", "next")
           /\ SeeIf(w, \E d \in Depot : OnHand[d][a] >= n, cart[b][a], "write")
           /\ UNCHANGED ordering
  <2>1. cart[b] # NoCart
    BY <1>1, <1>2, <1>3, <1>5 DEF OrderingFits, At
  <2>2. CASE Answer(w)
    BY <1>1, <1>5, <2>2, ReadsAndEnds
  <2>3. CASE See(w, cart[b][a], "write")
    <3>1. pc'[w] = "write" /\ job'[w] = job[w] /\ saw'[w] = cart[b][a] /\ Handled(w)
      BY <1>1, <2>3, WhatIsSeen, SeeHandles, StepNames
    <3>2. UNCHANGED <<buyer, cart, placed, asked, rivals, book>>
      BY <1>5 DEF ordering
    <3>3. cart[b][a] \in CartRow /\ cart[b][a].row \in Nat
      BY <1>2, <1>3, <2>1, OrderingTypes
    <3>4. <<b, "orders">> \notin rivals => placed[b][a] + cart[b][a].units <= asked[b][a]
      BY <1>2, <1>3, <2>1 DEF WithinAsked, Held
    <3>5. saw'[w].row <= cart'[b][a].row
      BY <3>1, <3>2, <3>3
    <3>6. RowAgrees(w, b, a)'
      BY <1>2, <2>1, <3>1, <3>2, <3>4, <3>5 DEF RowAgrees, Who
    <3>7. \A k \in Book : job[w].op \notin Creates(k)
      BY <1>1, NotMakers
    <3>8. OrderingFits(w)'
      <4>1. (pc[w] \in {"next", "write"} /\ job[w].op \in CartOp => cart[job[w].buyer] # NoCart)'
        BY <1>2, <2>1, <3>1, <3>2
      <4>2. saw'[w] \in CartRow
        BY <3>1, <3>3
      <4>3. RowAgrees(w, job[w].buyer, job[w].article)'
        BY <1>2, <3>1, <3>2, <3>6 DEF RowAgrees, Who
      <4> QED
        BY <1>1, <3>1, <3>7, <4>1, <4>2, <4>3 DEF OrderingFits, Creates, CartOp
    <3> QED
      BY <1>1, <1>5, <3>1, <3>8, OrderingReads DEF At
  <2> QED
    BY <1>5, <2>2, <2>3 DEF SeeIf
<1>6. CASE /\ At(w, "ADD_ITEM", "write")
           /\ IF saw[w].units > 0
              THEN StillThere(b, a, saw[w]) /\ SetUnits(b, a, saw[w].units + n)
              ELSE /\ cart[b][a].units = 0
                   /\ cart' = [cart EXCEPT ![b][a] = [units |-> n, row |-> @.row + 1]]
           /\ Ask(b, a, n)
           /\ Answer(w)
           /\ UNCHANGED <<buyer, placed, rivals, book>>
  <2>1. /\ cart[b] # NoCart /\ saw[w] \in CartRow
        /\ saw[w].units > 0 => RowAgrees(w, b, a)
    BY <1>1, <1>2, <1>3, <1>6 DEF OrderingFits, At
  <2>2. saw[w].units \in Nat /\ saw[w].row \in Nat /\ saw[w].units + n \in Nat
    BY <1>2, <2>1 DEF CartRow
  <2>3. /\ cart[b][a].units \in Nat /\ cart[b][a].row \in Nat /\ cart[b][a].row + 1 \in Nat
        /\ placed[b][a] \in Nat /\ asked[b][a] \in Nat
    BY <1>2, <1>3, <2>1, OrderingTypes
  <2>4. /\ asked' \in [Buyer -> [Article -> Nat]]
        /\ \A c \in Buyer, d \in Article : asked'[c][d] >= asked[c][d]
        /\ asked'[b][a] >= asked[b][a] + n
    BY <1>2, <1>3, <1>6, AskGrows
  <2>5. asked'[b][a] \in Nat
    BY <1>2, <2>4
  <2>6. CASE saw[w].units > 0
    <3>1. StillThere(b, a, saw[w]) /\ SetUnits(b, a, saw[w].units + n) /\ RowAgrees(w, b, a)
      BY <1>6, <2>1, <2>6
    <3>2. PICK r : r = [units |-> saw[w].units + n, row |-> cart[b][a].row]
      OBVIOUS
    <3>3. /\ cart' = [cart EXCEPT ![b][a] = r] /\ r \in CartRow
          /\ r.units = saw[w].units + n /\ r.row = cart[b][a].row
      BY <1>2, <1>3, <2>1, <2>2, <3>1, <3>2, UnitsSet
    <3>4. <<b, "orders">> \notin rivals => placed[b][a] + saw[w].units <= asked[b][a]
      BY <3>1 DEF RowAgrees, StillThere
    <3>5. <<b, "orders">> \notin rivals => placed[b][a] + r.units <= asked'[b][a]
      <4>1. /\ placed[b][a] \in Nat /\ saw[w].units \in Nat /\ asked[b][a] \in Nat /\ asked'[b][a] \in Nat /\ n \in Nat
            /\ asked'[b][a] >= asked[b][a] + n /\ r.units = saw[w].units + n
        BY <1>2, <2>2, <2>3, <2>4, <2>5, <3>3, Zenon
      <4> QED
        BY <3>4, <4>1
    <3>6. r.row >= cart[b][a].row /\ cart[b][a].units > 0
      BY <2>3, <3>1, <3>3 DEF StillThere
    <3> HIDE DEF b, a, n
    <3>7. OrderingRows' /\ OrderingGrows(w)
      BY <1>2, <1>3, <1>6, <2>1, <2>4, <3>3, <3>5, <3>6, RowWritten DEF b, a
    <3> QED
      BY <1>6, <3>7, WritesAndEnds
  <2>7. CASE ~ (saw[w].units > 0)
    <3>1. PICK r : r = [units |-> n, row |-> cart[b][a].row + 1]
      OBVIOUS
    <3>2. cart' = [cart EXCEPT ![b][a] = r] /\ cart[b][a].units = 0
      BY <1>6, <2>7, <3>1
    <3>3. r \in CartRow /\ r.units = n /\ r.row = cart[b][a].row + 1
      BY <1>2, <2>3, <3>1 DEF CartRow
    <3>4. <<b, "orders">> \notin rivals => placed[b][a] <= asked[b][a]
      BY <1>2, <1>3, <2>1, <2>3, <3>2 DEF WithinAsked, Held
    <3>5. <<b, "orders">> \notin rivals => placed[b][a] + r.units <= asked'[b][a]
      <4>1. /\ placed[b][a] \in Nat /\ asked[b][a] \in Nat /\ asked'[b][a] \in Nat /\ n \in Nat
            /\ asked'[b][a] >= asked[b][a] + n /\ r.units = n
        BY <1>2, <2>3, <2>4, <2>5, <3>3, Zenon
      <4> QED
        BY <3>4, <4>1
    <3>6. r.row >= cart[b][a].row /\ r.row # cart[b][a].row
      BY <2>3, <3>3
    <3> HIDE DEF b, a, n
    <3>7. OrderingRows' /\ OrderingGrows(w)
      BY <1>2, <1>3, <1>6, <2>1, <2>4, <3>2, <3>3, <3>5, <3>6, RowWritten DEF b, a
    <3> QED
      BY <1>6, <3>7, WritesAndEnds
  <2> QED
    BY <2>6, <2>7
<1> QED
  BY <1>4, <1>5, <1>6, Zenon DEF AddItem

LEMMA ChangesItem ==
    ASSUME RequestsInv, OrderingInv, NEW w \in Worker, UpdateItem(w) \/ RemoveItem(w)
    PROVE  OrderingKept(w)
<1> DEFINE b == Who(w)
           a == job[w].article
           n == job[w].n
<1>1. pc[w] # "idle" /\ job[w].op \in {"UPDATE_ITEM", "REMOVE_ITEM"} /\ job[w].op \in CartOp
  BY DEF UpdateItem, RemoveItem, OpenCart, FindItem, At, CartOp
<1>2. Who(w) \in Buyer /\ job[w].article \in Article /\ job[w].n \in Nat /\ b = job[w].buyer
  BY <1>1, OrderingJob DEF OrderingOp, Who
<1>3. OrderingRows /\ OrderingTypeOK /\ WithinAsked /\ OrderingFits(w)
  BY DEF OrderingInv, OrderingRows
<1>4. CASE OpenCart(w, "UPDATE_ITEM", "next") \/ OpenCart(w, "REMOVE_ITEM", "next")
  BY <1>4, OpensCart DEF CartOp
<1>5. CASE FindItem(w, "UPDATE_ITEM") \/ FindItem(w, "REMOVE_ITEM")
  BY <1>5, FindsItem
<1>6. ASSUME NEW m \in Nat, pc[w] = "write", StillThere(b, a, saw[w]), SetUnits(b, a, m), Answer(w),
             UNCHANGED <<buyer, placed, rivals, book>>,
             asked' \in [Buyer -> [Article -> Nat]],
             \A c \in Buyer, d \in Article : asked'[c][d] >= asked[c][d],
             asked'[b][a] + cart[b][a].units >= asked[b][a] + m
      PROVE  OrderingKept(w)
  <2>1. cart[b] # NoCart
    BY <1>1, <1>2, <1>3, <1>6 DEF OrderingFits
  <2>2. /\ cart[b][a].units \in Nat /\ cart[b][a].row \in Nat /\ asked'[b][a] \in Nat
        /\ placed[b][a] \in Nat /\ asked[b][a] \in Nat
    BY <1>2, <1>3, <1>6, <2>1, OrderingTypes
  <2>3. PICK r : r = [units |-> m, row |-> cart[b][a].row]
    OBVIOUS
  <2>4. cart' = [cart EXCEPT ![b][a] = r] /\ r \in CartRow /\ r.units = m /\ r.row = cart[b][a].row
    <3>1. OrderingTypeOK /\ Who(w) \in Buyer /\ job[w].article \in Article /\ m \in Nat
      BY <1>2, <1>3, <1>6
    <3>2. cart[Who(w)] # NoCart /\ SetUnits(Who(w), job[w].article, m)
      BY <1>6, <2>1
    <3> QED
      BY <2>3, <3>1, <3>2, UnitsSet
  <2>5. <<b, "orders">> \notin rivals => placed[b][a] + cart[b][a].units <= asked[b][a]
    BY <1>2, <1>3, <2>1 DEF WithinAsked, Held
  <2>6. <<b, "orders">> \notin rivals => placed[b][a] + r.units <= asked'[b][a]
    BY <1>6, <2>2, <2>4, <2>5
  <2>7. r.row >= cart[b][a].row /\ cart[b][a].units > 0
    BY <1>6, <2>2, <2>4 DEF StillThere
  <2> HIDE DEF b, a, n
  <2>8. OrderingRows' /\ OrderingGrows(w)
    BY <1>2, <1>3, <1>6, <2>1, <2>4, <2>6, <2>7, RowWritten DEF b, a
  <2> QED
    BY <1>6, <2>8, WritesAndEnds
<1>7. CASE /\ At(w, "UPDATE_ITEM", "write")
           /\ StillThere(b, a, saw[w])
           /\ SetUnits(b, a, job[w].n)
           /\ Ask(b, a, job[w].n - cart[b][a].units)
           /\ Answer(w)
           /\ UNCHANGED <<buyer, placed, rivals, book>>
  <2>1. cart[b] # NoCart
    BY <1>1, <1>2, <1>3, <1>7 DEF OrderingFits, At
  <2>2. cart[b][a].units \in Nat /\ asked[b][a] \in Nat
    BY <1>2, <1>3, <2>1, OrderingTypes
  <2>3. n - cart[b][a].units \in Int
    BY <1>2, <2>2
  <2>4. /\ asked' \in [Buyer -> [Article -> Nat]]
        /\ \A c \in Buyer, d \in Article : asked'[c][d] >= asked[c][d]
        /\ asked'[b][a] >= asked[b][a] + (n - cart[b][a].units)
    BY <1>2, <1>3, <1>7, <2>3, AskGrows
  <2>5. asked'[b][a] \in Nat
    BY <1>2, <2>4
  <2>6. asked'[b][a] + cart[b][a].units >= asked[b][a] + n
    BY <1>2, <2>2, <2>4, <2>5
  <2> QED
    BY <1>2, <1>6, <1>7, <2>4, <2>6 DEF At
<1>8. CASE /\ At(w, "REMOVE_ITEM", "write")
           /\ StillThere(b, a, saw[w])
           /\ SetUnits(b, a, 0)
           /\ Answer(w)
           /\ UNCHANGED <<buyer, placed, asked, rivals, book>>
  <2>1. cart[b] # NoCart
    BY <1>1, <1>2, <1>3, <1>8 DEF OrderingFits, At
  <2>2. cart[b][a].units \in Nat /\ asked[b][a] \in Nat
    BY <1>2, <1>3, <2>1, OrderingTypes
  <2>3. /\ asked' \in [Buyer -> [Article -> Nat]]
        /\ \A c \in Buyer, d \in Article : asked'[c][d] >= asked[c][d]
    BY <1>3, <1>8, OrderingTypes DEF OrderingTypeOK
  <2>4. asked'[b][a] + cart[b][a].units >= asked[b][a] + 0
    BY <1>8, <2>2
  <2> QED
    BY <1>6, <1>8, <2>3, <2>4 DEF At
<1> QED
  BY <1>4, <1>5, <1>7, <1>8, Zenon DEF UpdateItem, RemoveItem

LEMMA ClearsCart ==
    ASSUME RequestsInv, OrderingInv, NEW w \in Worker, ClearCart(w)
    PROVE  OrderingKept(w)
<1>1. CASE OpenCart(w, "CLEAR_CART", "write")
  BY <1>1, OpensCart DEF CartOp
<1>2. CASE /\ At(w, "CLEAR_CART", "write")
           /\ Emptied(Who(w))
           /\ Answer(w)
           /\ UNCHANGED <<buyer, placed, asked, rivals, book>>
  <2>1. Who(w) \in Buyer /\ cart[Who(w)] # NoCart
    <3>1. OrderingFits(w)
      BY DEF OrderingInv
    <3> QED
      BY <1>2, <3>1, OrderingJob DEF At, OrderingFits, Who, OrderingOp, CartOp
  <2>2. OrderingRows /\ OrderingTypeOK /\ WithinAsked
    BY DEF OrderingInv, OrderingRows
  <2>3. ASSUME NEW a \in Article, <<Who(w), "orders">> \notin rivals
        PROVE  placed[Who(w)][a] <= asked[Who(w)][a]
    <3>1. /\ placed[Who(w)][a] \in Nat /\ asked[Who(w)][a] \in Nat /\ Held(Who(w), a) \in Nat
      BY <2>1, <2>2, OrderingTypes
    <3> QED
      BY <2>1, <2>2, <2>3, <3>1 DEF WithinAsked
  <2>4. placed' \in [Buyer -> [Article -> Nat]] /\ placed' = placed
    BY <1>2, <2>2 DEF OrderingTypeOK
  <2>5. OrderingRows' /\ OrderingGrows(w)
    BY <1>2, <2>1, <2>2, <2>3, <2>4, CartEmptied
  <2> QED
    BY <1>2, <2>5, WritesAndEnds
<1> QED
  BY <1>1, <1>2 DEF ClearCart

LEMMA CreatesOrder ==
    ASSUME RequestsInv, OrderingInv, NEW w \in Worker, CreateOrder(w)
    PROVE  OrderingKept(w)
<1> DEFINE b == Who(w)
<1>1. pc[w] # "idle" /\ job[w].op = "PLACE_ORDER"
  BY DEF CreateOrder, ConsiderOrder, At
<1>2. Who(w) \in Buyer /\ b = job[w].buyer /\ job[w].op \in Creates("orders")
  BY <1>1, OrderingJob, Creators DEF OrderingOp, OrderOp, Who
<1>3. OrderingRows /\ OrderingTypeOK /\ WithinAsked /\ OrderingFits(w)
  BY DEF OrderingInv, OrderingRows
<1>4. \A k \in Book : "PLACE_ORDER" \notin Creates(k)
  BY Creators DEF Book
<1>5. "PLACE_ORDER" \notin CartOp
  BY DEF CartOp
\* What the order is about to be made of, while it is read and considered.
<1>6. ASSUME pc'[w] \in {"check", "commit"}, job'[w] = job[w],
             cart'[b] # NoCart, saw'[w].items \in [Article -> Nat],
             <<b, "orders">> \notin rivals' => \A a \in Article : placed'[b][a] + saw'[w].items[a] <= asked'[b][a]
      PROVE  OrderingFits(w)'
  BY <1>1, <1>2, <1>4, <1>5, <1>6 DEF OrderingFits, Creates
<1>7. CASE /\ At(w, "PLACE_ORDER", "read")
           /\ SeeIf(w, Wanted(Units(b)) # {}, [items |-> Units(b), credit |-> buyer[b] - Balance[b]], "check")
           /\ MeetsRival(w, "orders")
           /\ UNCHANGED <<buyer, cart, placed, asked, book>>
  <2>1. CASE Answer(w)
    BY <1>1, <1>2, <1>7, <2>1, AnswerHandles, OrderingEnds, OrderingMeets
  <2>2. CASE Wanted(Units(b)) # {} /\ See(w, [items |-> Units(b), credit |-> buyer[b] - Balance[b]], "check")
    <3>1. /\ pc'[w] = "check" /\ job'[w] = job[w] /\ Handled(w)
          /\ saw'[w] = [items |-> Units(b), credit |-> buyer[b] - Balance[b]]
      BY <1>1, <2>2, WhatIsSeen, SeeHandles, StepNames
    <3>2. saw'[w].items = Units(b) /\ cart'[b] = cart[b]
      BY <1>7, <3>1
    <3>3. cart[b] # NoCart
      BY <2>2 DEF Wanted, Units
    <3>4. ASSUME NEW a \in Article
          PROVE  Units(b)[a] = cart[b][a].units /\ Units(b)[a] \in Nat
      BY <1>2, <1>3, <3>3, OrderingTypes DEF Units
    <3>5. Units(b) \in [Article -> Nat]
      BY <3>4 DEF Units
    <3>6. rivals \subseteq rivals'
      BY <1>7 DEF MeetsRival
    <3>7. ASSUME NEW a \in Article, <<b, "orders">> \notin rivals'
          PROVE  placed'[b][a] + saw'[w].items[a] <= asked'[b][a]
      <4>1. placed[b][a] + cart[b][a].units <= asked[b][a]
        BY <1>2, <1>3, <3>3, <3>6, <3>7 DEF WithinAsked, Held
      <4> QED
        BY <1>7, <3>2, <3>4, <4>1
    <3>8. OrderingFits(w)'
      BY <1>6, <3>1, <3>2, <3>3, <3>5, <3>7
    <3> QED
      BY <1>2, <1>7, <3>1, <3>8, OrderingMeets
  <2> QED
    BY <1>7, <2>1, <2>2 DEF SeeIf
<1>8. CASE /\ At(w, "PLACE_ORDER", "check")
           /\ SeeIf(w, /\ \E d \in OptimalDepots(saw[w].items) : Price(d, saw[w].items) <= saw[w].credit
                       /\ job[w].entry # NoEntry => book[b]["contacts"][job[w].entry] # "none",
                    saw[w], "commit")
           /\ UNCHANGED ordering
  <2>1. CASE Answer(w)
    BY <1>1, <1>8, <2>1, ReadsAndEnds
  <2>2. CASE See(w, saw[w], "commit")
    <3>1. pc'[w] = "commit" /\ job'[w] = job[w] /\ saw'[w] = saw[w] /\ Handled(w)
      BY <1>1, <2>2, WhatIsSeen, SeeHandles, StepNames
    <3>2. UNCHANGED <<buyer, cart, placed, asked, rivals, book>>
      BY <1>8 DEF ordering
    <3>3. /\ cart[b] # NoCart /\ saw[w].items \in [Article -> Nat]
          /\ <<b, "orders">> \notin rivals => \A a \in Article : placed[b][a] + saw[w].items[a] <= asked[b][a]
      BY <1>1, <1>2, <1>3, <1>8 DEF OrderingFits, At
    <3>4. OrderingFits(w)'
      BY <1>6, <3>1, <3>2, <3>3
    <3> QED
      BY <1>8, <3>1, <3>4, OrderingReads DEF At
  <2> QED
    BY <1>8, <2>1, <2>2 DEF SeeIf
<1>9. CASE /\ At(w, "PLACE_ORDER", "commit")
           /\ Place(w) /\ Emptied(b) /\ Answer(w)
           /\ UNCHANGED <<buyer, asked, rivals, book>>
  <2>1. /\ cart[b] # NoCart /\ saw[w].items \in [Article -> Nat]
        /\ <<b, "orders">> \notin rivals => \A a \in Article : placed[b][a] + saw[w].items[a] <= asked[b][a]
    BY <1>1, <1>2, <1>3, <1>9 DEF OrderingFits, At
  <2>2. placed \in [Buyer -> [Article -> Nat]]
    BY <1>3 DEF OrderingTypeOK
  <2>3. placed' = [placed EXCEPT ![b] = [a \in Article |-> placed[b][a] + saw[w].items[a]]]
    BY <1>9 DEF Place
  <2>4. \A a \in Article : placed[b][a] + saw[w].items[a] \in Nat
    BY <1>2, <2>1, <2>2
  <2>5. /\ placed' \in [Buyer -> [Article -> Nat]]
        /\ \A c \in Buyer : c # b => placed'[c] = placed[c]
        /\ \A a \in Article : placed'[b][a] = placed[b][a] + saw[w].items[a]
    BY <1>2, <2>2, <2>3, <2>4
  <2>6. Places(w, Who(w))
    BY <1>1, <1>2, <1>9 DEF Places, Makes, At
  <2>7. \A a \in Article : <<Who(w), "orders">> \notin rivals => placed'[Who(w)][a] <= asked[Who(w)][a]
    BY <2>1, <2>5
  <2>8. \A c \in Buyer : c # Who(w) => placed'[c] = placed[c]
    BY <2>5
  <2>9. OrderingRows' /\ OrderingGrows(w)
    BY <1>2, <1>3, <1>9, <2>1, <2>5, <2>6, <2>7, <2>8, CartEmptied
  <2> QED
    BY <1>9, <2>9, WritesAndEnds
<1> QED
  BY <1>7, <1>8, <1>9 DEF CreateOrder, ConsiderOrder

\* A read with nothing to remember, and no claim on what is made.
LEMMA ChecksAndGoesOn ==
    ASSUME RequestsInv, OrderingInv, NEW w \in Worker,
           NEW op \in BuyerOp \cup {"REMOVE_CONTACT", "REMOVE_ADDRESS"}, At(w, op, "read"),
           NEW ok, NEW p \in {"write", "commit"}, SeeIf(w, ok, Unread, p), UNCHANGED ordering
    PROVE  OrderingKept(w)
<1>1. pc[w] # "idle" /\ job[w].op = op
  BY DEF At
<1>2. \A what \in Book \cup {"orders"} : op \notin Creates(what)
  BY NotMakers
<1>3. CASE Answer(w)
  BY <1>1, <1>3, ReadsAndEnds
<1>4. CASE See(w, Unread, p)
  <2>1. pc'[w] = p /\ job'[w] = job[w] /\ Handled(w)
    BY <1>1, <1>4, WhatIsSeen, SeeHandles, StepNames
  <2>2. op \notin CartOp /\ op # "PLACE_ORDER" /\ op # "ADD_ITEM"
    BY DEF CartOp, BuyerOp
  <2>3. \A k \in Book : job'[w].op \notin Creates(k)
    BY <1>1, <1>2, <2>1
  <2>4. OrderingFits(w)'
    BY <1>1, <2>1, <2>2, <2>3 DEF OrderingFits, Creates
  <2> QED
    BY <1>1, <1>2, <2>1, <2>4, OrderingReads
<1> QED
  BY <1>3, <1>4 DEF SeeIf

LEMMA UpdatesBuyer ==
    ASSUME RequestsInv, OrderingInv, NEW w \in Worker, UpdateBuyer(w)
    PROVE  OrderingKept(w)
<1>1. CASE ReadBuyer(w, "UPDATE_BUYER", "commit")
  BY <1>1, ChecksAndGoesOn DEF ReadBuyer, BuyerOp
<1>2. CASE /\ At(w, "UPDATE_BUYER", "commit")
           /\ buyer[Who(w)] # -1
           /\ buyer' = [buyer EXCEPT ![Who(w)] = job[w].n]
           /\ Answer(w)
           /\ UNCHANGED <<cart, placed, asked, rivals, book>>
  <2>1. Who(w) \in Buyer /\ job[w].n \in Nat
    BY <1>2, OrderingJob DEF At, Who, OrderingOp, BuyerOp
  <2>2. OrderingRows /\ OrderingTypeOK
    BY DEF OrderingInv, OrderingRows
  <2>3. buyer' \in [Buyer -> Int] /\ \A b \in Buyer : buyer'[b] = -1 => cart[b] = NoCart
    BY <1>2, <2>1, <2>2 DEF OrderingTypeOK
  <2>4. /\ book' \in [Buyer -> [Book -> [Entry -> {"none", "plain", "main"}]]]
        /\ \A b \in Buyer, k \in Book, e \in Entry : book'[b][k][e] = "main" => book[b][k][e] = "main"
    BY <1>2, <2>2 DEF OrderingTypeOK
  <2>5. OrderingRows' /\ OrderingGrows(w)
    BY <1>2, <2>2, <2>3, <2>4, ClientWritten
  <2> QED
    BY <1>2, <2>5, WritesAndEnds
<1> QED
  BY <1>1, <1>2 DEF UpdateBuyer

LEMMA RemovesBuyer ==
    ASSUME RequestsInv, OrderingInv, NEW w \in Worker, RemoveBuyer(w)
    PROVE  OrderingKept(w)
<1>1. CASE ReadBuyer(w, "REMOVE_BUYER", "commit")
  BY <1>1, ChecksAndGoesOn DEF ReadBuyer, BuyerOp
<1>2. CASE DeleteBuyer(w) /\ cart[Who(w)] = NoCart
  <2>1. Who(w) \in Buyer
    BY <1>2, OrderingJob DEF DeleteBuyer, At, Who, OrderingOp, BuyerOp
  <2>2. OrderingRows /\ OrderingTypeOK
    BY DEF OrderingInv, OrderingRows
  <2>3. buyer' \in [Buyer -> Int] /\ \A b \in Buyer : buyer'[b] = -1 => cart[b] = NoCart
    BY <1>2, <2>1, <2>2 DEF OrderingTypeOK, DeleteBuyer
  <2>4. /\ book' \in [Buyer -> [Book -> [Entry -> {"none", "plain", "main"}]]]
        /\ \A b \in Buyer, k \in Book, e \in Entry : book'[b][k][e] = "main" => book[b][k][e] = "main"
    <3>1. book \in [Buyer -> [Book -> [Entry -> {"none", "plain", "main"}]]]
      BY <2>2 DEF OrderingTypeOK
    <3>2. book' = [book EXCEPT ![Who(w)] = [k \in Book |-> [e \in Entry |-> "none"]]]
      BY <1>2 DEF DeleteBuyer
    <3>3. ASSUME NEW b \in Buyer
          PROVE  book'[b] = IF b = Who(w) THEN [k \in Book |-> [e \in Entry |-> "none"]] ELSE book[b]
      BY <3>1, <3>2
    <3> QED
      BY <3>1, <3>2, <3>3
  <2>5. UNCHANGED <<cart, placed, asked, rivals>> /\ Answer(w)
    BY <1>2 DEF DeleteBuyer
  <2>6. OrderingRows' /\ OrderingGrows(w)
    BY <2>2, <2>3, <2>4, <2>5, ClientWritten
  <2> QED
    BY <2>5, <2>6, WritesAndEnds
<1> QED
  BY <1>1, <1>2 DEF RemoveBuyer

LEMMA Demoted ==
    ASSUME OrderingTypeOK, NEW b \in Buyer, NEW k \in Book, NEW kept, Demote(b, k, kept)
    PROVE  /\ book' \in [Buyer -> [Book -> [Entry -> {"none", "plain", "main"}]]]
           /\ \A c \in Buyer, j \in Book, e \in Entry : book'[c][j][e] = "main" => book[c][j][e] = "main"
           /\ \A e \in Entry : book'[b][k][e] = "main" => e = kept
<1> DEFINE now == [e \in Entry |-> IF book[b][k][e] = "main" /\ e # kept THEN "plain" ELSE book[b][k][e]]
<1>1. book \in [Buyer -> [Book -> [Entry -> {"none", "plain", "main"}]]]
  BY DEF OrderingTypeOK
<1>2. book' = [book EXCEPT ![b][k] = now]
  BY DEF Demote
<1>3. now \in [Entry -> {"none", "plain", "main"}]
  BY <1>1
<1>4. \A e \in Entry : now[e] = "main" => e = kept /\ book[b][k][e] = "main"
  OBVIOUS
<1> HIDE DEF now
<1>5. book' \in [Buyer -> [Book -> [Entry -> {"none", "plain", "main"}]]]
  BY <1>1, <1>2, <1>3
<1>6. ASSUME NEW c \in Buyer, NEW j \in Book
      PROVE  book'[c][j] = IF c = b /\ j = k THEN now ELSE book[c][j]
  BY <1>1, <1>2
<1> QED
  BY <1>4, <1>5, <1>6

LEMMA BookSet ==
    ASSUME OrderingTypeOK, NEW b \in Buyer, NEW k \in Book, NEW now \in [Entry -> {"none", "plain", "main"}],
           book' = [book EXCEPT ![b][k] = now]
    PROVE  /\ book' \in [Buyer -> [Book -> [Entry -> {"none", "plain", "main"}]]]
           /\ \A c \in Buyer, j \in Book : book'[c][j] = IF c = b /\ j = k THEN now ELSE book[c][j]
BY DEF OrderingTypeOK

\* The steps that adding an entry and changing one have in common: the one
\* that reads, the one that demotes all entries but `kept`, and the one that
\* writes the entry.
LEMMA BookRead ==
    ASSUME RequestsInv, OrderingInv, NEW w \in Worker, NEW k \in Book, NEW op \in Creates(k),
           At(w, op, "read"), NEW ok, SeeIf(w, ok, Unread, IF job[w].primary THEN "next" ELSE "write"),
           MeetsRival(w, k), UNCHANGED <<buyer, cart, placed, asked, book>>
    PROVE  OrderingKept(w)
<1>1. pc[w] # "idle" /\ job[w].op = op /\ k # "orders"
  BY DEF At, Book
<1>2. op \notin CartOp /\ op # "PLACE_ORDER" /\ op # "ADD_ITEM"
  BY Creators DEF Book, CartOp
<1>3. CASE Answer(w)
  BY <1>1, <1>3, AnswerHandles, OrderingEnds, OrderingMeets
<1>4. CASE See(w, Unread, IF job[w].primary THEN "next" ELSE "write")
  <2>1. PICK p \in {"next", "write"} : See(w, Unread, p) /\ (p = "write" => ~ job[w].primary)
    BY <1>4
  <2>2. pc'[w] = p /\ job'[w] = job[w] /\ Handled(w)
    BY <1>1, <2>1, WhatIsSeen, SeeHandles, StepNames
  <2>3. OrderingFits(w)'
    BY <1>1, <1>2, <2>1, <2>2 DEF OrderingFits
  <2> QED
    BY <1>1, <2>2, <2>3, OrderingMeets
<1> QED
  BY <1>3, <1>4 DEF SeeIf

LEMMA OthersDemoted ==
    ASSUME RequestsInv, OrderingInv, NEW w \in Worker, NEW k \in Book, NEW op \in Creates(k),
           At(w, op, "next"), NEW kept \in {NoEntry, job[w].entry}, Demote(Who(w), k, kept),
           Goto(w, "write"), UNCHANGED <<buyer, cart, placed, asked, rivals>>
    PROVE  OrderingKept(w)
<1>1. pc[w] = "next" /\ job[w].op = op /\ k # "orders" /\ op \in Creates(k)
  BY DEF At, Book
<1>2. op \notin CartOp /\ op # "PLACE_ORDER" /\ op # "ADD_ITEM"
  BY Creators DEF Book, CartOp
<1>3. Who(w) \in Buyer /\ Who(w) = job[w].buyer
  BY <1>1, OrderingJob, Creators DEF Who, Book, OrderingOp, BookOp
<1>4. OrderingRows /\ OrderingTypeOK
  BY DEF OrderingInv, OrderingRows
<1>5. /\ book' \in [Buyer -> [Book -> [Entry -> {"none", "plain", "main"}]]]
      /\ \A c \in Buyer, j \in Book, e \in Entry : book'[c][j][e] = "main" => book[c][j][e] = "main"
      /\ \A e \in Entry : book'[Who(w)][k][e] = "main" => e = kept
  BY <1>3, <1>4, Demoted
<1>6. buyer' \in [Buyer -> Int] /\ \A b \in Buyer : buyer'[b] = -1 => cart[b] = NoCart
  BY <1>4 DEF OrderingTypeOK
<1>7. OrderingRows' /\ OrderingGrows(w)
  BY <1>4, <1>5, <1>6, ClientWritten
<1>8. pc'[w] = "write" /\ job'[w] = job[w] /\ Handled(w)
  BY <1>1, WhatGoesOn, GotoHandles, StepNames
<1>9. ASSUME NEW j \in Book, job[w].op \in Creates(j)
      PROVE  OnlyMain(w, j)'
  <2>1. j = k
    BY <1>1, <1>9, Creators DEF Book
  <2>2. \A e \in Entry : book'[Who(w)][j][e] = "main" => e = job[w].entry
    BY <1>5, <2>1, OrderingAssumption
  <2> QED
    BY <1>3, <1>8, <2>2 DEF OnlyMain
<1>10. OrderingFits(w)'
  <2>1. \A j \in Book : job'[w].op \in Creates(j) => OnlyMain(w, j)'
    BY <1>8, <1>9
  <2> QED
    BY <1>1, <1>2, <1>8, <2>1 DEF OrderingFits, Creates
<1>11. NoNewMaker(w)
  BY <1>1, <1>8, StaysMaker
<1> QED
  BY <1>7, <1>10, <1>11 DEF OrderingKept

LEMMA EntryMarked ==
    ASSUME RequestsInv, OrderingInv, NEW w \in Worker, NEW k \in Book, NEW op \in Creates(k),
           At(w, op, "write"), Enter(Who(w), k, job[w].entry, job[w].primary),
           Answer(w), UNCHANGED <<buyer, cart, placed, asked, rivals>>
    PROVE  OrderingKept(w)
<1>1. pc[w] = "write" /\ job[w].op = op /\ k # "orders" /\ op \in Creates(k)
  BY DEF At, Book
<1>2. Who(w) \in Buyer /\ Who(w) = job[w].buyer
  BY <1>1, OrderingJob, Creators DEF Who, Book, OrderingOp, BookOp
<1>3. OrderingRows /\ OrderingTypeOK /\ OrderingFits(w)
  BY DEF OrderingInv, OrderingRows
<1>4. buyer' \in [Buyer -> Int] /\ \A b \in Buyer : buyer'[b] = -1 => cart[b] = NoCart
  BY <1>3 DEF OrderingTypeOK
<1>5. PICK s \in {"plain", "main"} : /\ book' = [book EXCEPT ![Who(w)][k][job[w].entry] = s]
                                     /\ s = "main" => job[w].primary = TRUE
  <2>1. job[w].primary \in BOOLEAN
    BY <1>1, OrderingJob, Creators DEF Book, OrderingOp, BookOp
  <2>2. CASE job[w].primary = TRUE
    BY <2>2 DEF Enter
  <2>3. CASE job[w].primary = FALSE
    BY <2>3 DEF Enter
  <2> QED
    BY <2>1, <2>2, <2>3
<1>6. /\ book' \in [Buyer -> [Book -> [Entry -> {"none", "plain", "main"}]]]
      /\ \A c \in Buyer, j \in Book, e \in Entry :
            book'[c][j][e] = "main" =>
               \/ book[c][j][e] = "main"
               \/ c = Who(w) /\ j = k /\ e = job[w].entry /\ s = "main"
  <2>1. PICK now : now = [book[Who(w)][k] EXCEPT ![job[w].entry] = s]
    OBVIOUS
  <2>2. s \in {"none", "plain", "main"} /\ book' = [book EXCEPT ![Who(w)][k] = now]
    BY <1>5, <2>1
  <2>3. OrderingTypeOK /\ Who(w) \in Buyer
    BY <1>2, <1>3
  <2>4. /\ now \in [Entry -> {"none", "plain", "main"}]
        /\ \A e \in Entry : now[e] = IF e = job[w].entry THEN s ELSE book[Who(w)][k][e]
    <3>1. book[Who(w)][k] \in [Entry -> {"none", "plain", "main"}]
      BY <2>3 DEF OrderingTypeOK
    <3> QED
      BY <2>1, <2>2, <3>1
  <2>5. /\ book' \in [Buyer -> [Book -> [Entry -> {"none", "plain", "main"}]]]
        /\ \A c \in Buyer, j \in Book : book'[c][j] = IF c = Who(w) /\ j = k THEN now ELSE book[c][j]
    BY <2>2, <2>3, <2>4, BookSet, ZenonT(40)
  <2> QED
    BY <2>4, <2>5
<1>7. ASSUME job[w].primary
      PROVE  /\ Marks(w, Who(w), k)
             /\ \/ <<Who(w), k>> \in rivals
                \/ \A e \in Entry : book[Who(w)][k][e] = "main" => e = job[w].entry
  <2>1. OnlyMain(w, k)
    BY <1>1, <1>3, <1>7 DEF OrderingFits
  <2>2. Marks(w, Who(w), k)
    BY <1>1, <1>2, <1>7 DEF Marks, Makes
  <2> QED
    BY <1>2, <2>1, <2>2 DEF OnlyMain
<1>8. ASSUME NEW c \in Buyer, NEW j \in Book
      PROVE  \/ \A e \in Entry : book'[c][j][e] = "main" => book[c][j][e] = "main"
             \/ /\ Marks(w, c, j)
                /\ \/ <<c, j>> \in rivals
                   \/ \E f : \A e \in Entry : book'[c][j][e] = "main" => e = f
  <2>1. CASE c = Who(w) /\ j = k /\ s = "main"
    <3>1. job[w].primary
      BY <1>5, <2>1, Zenon
    <3>2. CASE <<c, j>> \in rivals
      BY <1>7, <2>1, <3>1, <3>2
    <3>3. CASE <<c, j>> \notin rivals
      <4>1. \A e \in Entry : book'[c][j][e] = "main" => e = job[w].entry
        BY <1>6, <1>7, <2>1, <3>1, <3>3
      <4> QED
        BY <1>7, <2>1, <3>1, <4>1
    <3> QED
      BY <3>2, <3>3
  <2>2. CASE ~ (c = Who(w) /\ j = k /\ s = "main")
    BY <1>6, <2>2
  <2> QED
    BY <2>1, <2>2
<1>9. OrderingRows' /\ OrderingGrows(w)
  BY <1>3, <1>4, <1>6, <1>8, ClientWritten
<1> QED
  BY <1>9, WritesAndEnds

LEMMA AddsToBook ==
    ASSUME RequestsInv, OrderingInv, NEW w \in Worker, NEW k \in Book, NEW op \in Creates(k), AddTo(w, op, k)
    PROVE  OrderingKept(w)
BY BookRead, OthersDemoted, EntryMarked DEF AddTo

LEMMA ChangesInBook ==
    ASSUME RequestsInv, OrderingInv, NEW w \in Worker, NEW k \in Book, NEW op \in Creates(k),
           ChangeIn(w, op, k)
    PROVE  OrderingKept(w)
BY BookRead, OthersDemoted, EntryMarked DEF ChangeIn

LEMMA RemovesFromBook ==
    ASSUME RequestsInv, OrderingInv, NEW w \in Worker, NEW k \in Book,
           NEW op \in {"REMOVE_CONTACT", "REMOVE_ADDRESS"}, RemoveFrom(w, op, k)
    PROVE  OrderingKept(w)
<1>1. CASE /\ At(w, op, "read")
           /\ SeeIf(w, book[Who(w)][k][job[w].entry] # "none", Unread, "write")
           /\ UNCHANGED ordering
  BY <1>1, ChecksAndGoesOn
<1>2. CASE /\ At(w, op, "write")
           /\ book' = [book EXCEPT ![Who(w)][k][job[w].entry] = "none"]
           /\ Answer(w)
           /\ UNCHANGED <<buyer, cart, placed, asked, rivals>>
  <2>1. Who(w) \in Buyer
    BY <1>2, OrderingJob DEF At, Who, OrderingOp, BookOp
  <2>2. OrderingRows /\ OrderingTypeOK
    BY DEF OrderingInv, OrderingRows
  <2>3. buyer' \in [Buyer -> Int] /\ \A b \in Buyer : buyer'[b] = -1 => cart[b] = NoCart
    BY <1>2, <2>2 DEF OrderingTypeOK
  <2>4. PICK s : s = "none"
    OBVIOUS
  <2>5. /\ book' \in [Buyer -> [Book -> [Entry -> {"none", "plain", "main"}]]]
        /\ \A c \in Buyer, j \in Book, e \in Entry :
              book'[c][j][e] = "main" =>
                 \/ book[c][j][e] = "main"
                 \/ c = Who(w) /\ j = k /\ e = job[w].entry /\ s = "main"
    <3>1. PICK now : now = [book[Who(w)][k] EXCEPT ![job[w].entry] = s]
      OBVIOUS
    <3>2. s \in {"none", "plain", "main"} /\ book' = [book EXCEPT ![Who(w)][k] = now]
      BY <1>2, <2>4, <3>1
    <3>3. /\ now \in [Entry -> {"none", "plain", "main"}]
          /\ \A e \in Entry : now[e] = IF e = job[w].entry THEN s ELSE book[Who(w)][k][e]
      <4>1. book[Who(w)][k] \in [Entry -> {"none", "plain", "main"}]
        BY <2>1, <2>2 DEF OrderingTypeOK
      <4> QED
        BY <3>1, <3>2, <4>1
    <3>4. /\ book' \in [Buyer -> [Book -> [Entry -> {"none", "plain", "main"}]]]
          /\ \A c \in Buyer, j \in Book : book'[c][j] = IF c = Who(w) /\ j = k THEN now ELSE book[c][j]
      BY <2>1, <2>2, <3>2, <3>3, BookSet, ZenonT(40)
    <3> QED
      BY <3>3, <3>4
  <2>6. \A c \in Buyer, j \in Book, e \in Entry : book'[c][j][e] = "main" => book[c][j][e] = "main"
    BY <2>4, <2>5
  <2>7. OrderingRows' /\ OrderingGrows(w)
    BY <1>2, <2>2, <2>3, <2>5, <2>6, ClientWritten
  <2> QED
    BY <1>2, <2>7, WritesAndEnds
<1> QED
  BY <1>1, <1>2 DEF RemoveFrom

LEMMA OrderingKeeps ==
    ASSUME RequestsInv, OrderingInv, NEW w \in Worker, OrderingStep(w)
    PROVE  OrderingInv'
<1>1. Handled(w)
  BY OrderingHandles
<1>2. "contacts" \in Book /\ "addresses" \in Book
  BY DEF Book
<1>3. CASE GetCart(w)
  <2>1. CASE OpenCart(w, "GET_CART", "finish")
    BY <1>1, <2>1, OpensCart, OrderingOthers DEF CartOp
  <2>2. CASE At(w, "GET_CART", "finish") /\ Answer(w) /\ UNCHANGED ordering
    BY <1>1, <2>2, ReadsAndEnds, OrderingOthers DEF At
  <2> QED
    BY <1>3, <2>1, <2>2 DEF GetCart
<1>4. CASE AddItem(w) \/ UpdateItem(w) \/ RemoveItem(w) \/ ClearCart(w) \/ CreateOrder(w)
  BY <1>1, <1>4, AddsItem, ChangesItem, ClearsCart, CreatesOrder, OrderingOthers
<1>5. CASE UpdateBuyer(w) \/ RemoveBuyer(w)
  BY <1>1, <1>5, UpdatesBuyer, RemovesBuyer, OrderingOthers
<1>6. CASE AddContact(w) \/ AddAddress(w)
  <2>1. OrderingKept(w)
    BY <1>2, <1>6, Creators, AddsToBook DEF AddContact, AddAddress
  <2> QED
    BY <1>1, <2>1, OrderingOthers
<1>7. CASE UpdateContact(w) \/ UpdateAddress(w)
  <2>1. OrderingKept(w)
    BY <1>2, <1>7, Creators, ChangesInBook DEF UpdateContact, UpdateAddress
  <2> QED
    BY <1>1, <2>1, OrderingOthers
<1>8. CASE RemoveContact(w) \/ RemoveAddress(w)
  <2>1. OrderingKept(w)
    BY <1>2, <1>8, RemovesFromBook DEF RemoveContact, RemoveAddress
  <2> QED
    BY <1>1, <2>1, OrderingOthers
<1>9. CASE OrderingFails(w)
  BY <1>1, <1>9, ReadsAndEnds, OrderingOthers DEF OrderingFails
<1> QED
  BY <1>3, <1>4, <1>5, <1>6, <1>7, <1>8, <1>9 DEF OrderingStep

LEMMA OrderingHolds == FrontOfficeSpec => []OrderingInv
<1>1. FrontOfficeInit => OrderingInv
  BY OrderingStart DEF FrontOfficeInit
<1>2. RequestsInv /\ OrderingInv /\ [FrontOfficeNext]_<<requests, front>> => OrderingInv'
  <2>1. ASSUME RequestsInv, OrderingInv, FrontOfficeNext PROVE OrderingInv'
    BY <2>1, FrontOfficeMoves, OrderingAtRest, OrderingKeeps
  <2>2. ASSUME RequestsInv, OrderingInv, UNCHANGED <<requests, front>> PROVE OrderingInv'
    BY <2>2, FrontOfficeStutters, OrderingAtRest
  <2> QED
    BY <2>1, <2>2
<1> QED
  BY <1>1, <1>2, RequestsHold, PTL DEF FrontOfficeSpec

\* OnlyRivalsCollide, for any number of requests, clients, articles and
\* entries: unless two requests that create a client's order, or mark the main
\* entry of its book, were under way at once, nothing is ordered twice and no
\* second entry is marked, whatever else changes the cart and the book
\* meanwhile.
THEOREM OnlyRivals == FrontOfficeSpec => []OnlyRivalsCollide
<1>1. OrderingInv => OnlyRivalsCollide
  <2> SUFFICES ASSUME OrderingInv PROVE OnlyRivalsCollide
    OBVIOUS
  <2>1. OrderingTypeOK /\ WithinAsked /\ OneMainEntry
    BY DEF OrderingInv, OrderingRows
  <2>2. ASSUME NEW b \in Buyer, NEW a \in Article, <<b, "orders">> \notin rivals
        PROVE  placed[b][a] <= asked[b][a]
    <3>1. placed[b][a] \in Nat /\ asked[b][a] \in Nat /\ Held(b, a) \in Nat
      BY <2>1, OrderingTypes
    <3> QED
      BY <2>1, <2>2, <3>1 DEF WithinAsked
  <2> QED
    BY <2>1, <2>2 DEF OnlyRivalsCollide, OrderedOnce
<1> QED
  BY <1>1, OrderingHolds, PTL

-----------------------------------------------------------------------------
(***************************************************************************)
(* What administrators keep.  The old value an audit entry tells was read  *)
(* before the transaction; what a trail has told once it tells for ever.   *)
(* An offboarding goes through only if no other has since it read, since   *)
(* each raises the version.                                                *)
(***************************************************************************)
Told(entries, first) == {first} \cup {entries[k].new : k \in DOMAIN entries}
Tells(entries, first, now) == Ends(entries, first, now) /\ (entries = <<>> => now = first)
First(r) == IF r \in There THEN 1 ELSE 0

\* A user's entries that say so.
Became(entries, status) == {k \in DOMAIN entries : entries[k].new = status}
Spare(entries) == Cardinality(Became(entries, "DISABLED")) <= Cardinality(Became(entries, "SUSPENDED"))

RowsTold == \A r \in Logged : Tells(trail[r], First(r), row[r])
MembersTold ==
    \A m \in Member :
        /\ Tells(memberTrail[m], "ACTIVE", member[m].status)
        /\ member[m].status # "DISABLED" => Spare(memberTrail[m])
AdministrationRows ==
    /\ AdministrationTypeOK /\ RowsTold /\ MembersTold /\ OffboardedOnce /\ DefaultIsSupported
    /\ spokenTrail # <<>> => Last(spokenTrail).new = languages

RowFits(w) ==
    pc[w] = "commit" /\ job[w].op \in RowOp =>
       saw[w] \in Nat /\ (job[w].row \in Logged => saw[w] \in Told(trail[job[w].row], First(job[w].row)))
LanguagesFit(w) ==
    pc[w] = "commit" /\ job[w].op = "SET_LANGUAGES" =>
       saw[w] \in Settings /\ Chosen(w, saw[w]).first \in Chosen(w, saw[w]).spoken
MemberFits(w) ==
    pc[w] = "commit" /\ job[w].op \in MemberOp =>
       LET m == job[w].member IN
       /\ saw[w].status \in MemberStatus /\ saw[w].status \in Told(memberTrail[m], "ACTIVE")
       /\ job[w].op = "OFFBOARD" =>
             /\ saw[w].version \in Nat /\ saw[w].version <= member[m].version
             /\ saw[w].version = member[m].version => Spare(memberTrail[m])
AdministrationFits(w) == RowFits(w) /\ LanguagesFit(w) /\ MemberFits(w)
AdministrationInv == AdministrationRows /\ \A w \in Worker : AdministrationFits(w)

AdministrationGrows ==
    /\ \A r \in Logged : Told(trail[r], First(r)) \subseteq Told(trail'[r], First(r))
    /\ \A m \in Member :
          /\ Told(memberTrail[m], "ACTIVE") \subseteq Told(memberTrail'[m], "ACTIVE")
          /\ member'[m].version \in Nat /\ member'[m].version >= member[m].version
          /\ member'[m].version = member[m].version /\ Spare(memberTrail[m]) => Spare(memberTrail'[m])

LEMMA AdministrationTypes ==
    ASSUME AdministrationTypeOK
    PROVE  /\ \A r \in Row : row[r] \in Nat
           /\ \A r \in Logged : trail[r] \in Seq([old: Nat, new: Nat])
           /\ \A m \in Member :
                 /\ member[m] \in [status: MemberStatus, version: Nat, roles: BOOLEAN]
                 /\ member[m].status \in MemberStatus /\ member[m].version \in Nat
                 /\ memberTrail[m] \in Seq([old: MemberStatus, new: MemberStatus])
BY DEF AdministrationTypeOK, TrailEntry

LEMMA AdministrationJob ==
    ASSUME RequestsInv, NEW w \in Worker, pc[w] # "idle", job[w].op \in AdministrationOp
    PROVE  /\ job[w].row \in Row /\ job[w].value \in Nat /\ job[w].member \in Member
           /\ job[w].first \in Language \cup {""} /\ job[w].spoken \in SUBSET Language
           /\ job[w].op \in RowOp => job[w].row \in Rows[job[w].op]
<1>1. job[w] \in Request
  BY JobIsRequest
<1> QED
  BY <1>1, AdministrationAssumption

\* A trail takes another entry.
LEMMA TrailGrows ==
    ASSUME NEW R, NEW es \in Seq(R), NEW first, NEW e \in R, e.old \in Told(es, first),
           \A k \in DOMAIN es : es[k].old \in Told(es, first)
    PROVE  /\ Append(es, e) \in Seq(R)
           /\ Told(es, first) \subseteq Told(Append(es, e), first)
           /\ Tells(Append(es, e), first, e.new)
<1> DEFINE more == Append(es, e)
<1>2. /\ more \in Seq(R) /\ Len(more) = Len(es) + 1
      /\ \A k \in 1..Len(es) : more[k] = es[k]
      /\ more[Len(es) + 1] = e
  OBVIOUS
<1> HIDE DEF more
<1>3. Len(es) \in Nat /\ DOMAIN es = 1..Len(es) /\ DOMAIN more = 1..(Len(es) + 1)
  BY <1>2
<1>4. more # <<>> /\ Last(more).new = e.new
  BY <1>2, <1>3 DEF Last
<1>5. Told(es, first) \subseteq Told(more, first)
  <2>1. ASSUME NEW k \in DOMAIN es
        PROVE  es[k].new \in {more[j].new : j \in DOMAIN more}
    <3>1. k \in DOMAIN more /\ more[k] = es[k]
      BY <1>2, <1>3
    <3> QED
      BY <3>1
  <2> QED
    BY <2>1 DEF Told
<1>6. ASSUME NEW k \in DOMAIN more
      PROVE  more[k].old \in Told(more, first)
  <2>1. CASE k \in DOMAIN es
    BY <1>2, <1>3, <1>5, <2>1
  <2>2. CASE k \notin DOMAIN es
    BY <1>2, <1>3, <1>5, <2>2
  <2> QED
    BY <2>1, <2>2
<1>7. Ends(more, first, e.new)
  BY <1>4, <1>6 DEF Ends, Told
<1> QED
  BY <1>2, <1>4, <1>5, <1>7 DEF Tells, more

LEMMA NowIsTold ==
    ASSUME NEW V, NEW es \in Seq(V), NEW first, NEW now, Tells(es, first, now)
    PROVE  now \in Told(es, first) /\ \A k \in DOMAIN es : es[k].old \in Told(es, first)
<1>1. \A k \in DOMAIN es : es[k].old \in Told(es, first)
  BY DEF Tells, Ends, Told
<1>2. CASE es = <<>>
  BY <1>2 DEF Tells, Told
<1>3. CASE es # <<>>
  <2>1. Len(es) \in DOMAIN es
    BY <1>3
  <2>2. es[Len(es)].new = now
    BY <1>3 DEF Tells, Ends, Last
  <2> QED
    BY <1>1, <2>1, <2>2 DEF Told
<1> QED
  BY <1>1, <1>2, <1>3

\* Of a user's entries one more says what the new one says.
LEMMA BecameGrows ==
    ASSUME NEW R, NEW es \in Seq(R), NEW e \in R, NEW status \in MemberStatus
    PROVE  /\ Cardinality(Became(es, status)) \in Nat /\ Cardinality(Became(Append(es, e), status)) \in Nat
           /\ e.new = status =>
                 Cardinality(Became(Append(es, e), status)) = Cardinality(Became(es, status)) + 1
           /\ e.new # status => Became(Append(es, e), status) = Became(es, status)
<1> DEFINE more == Append(es, e)
<1>1. /\ Len(es) \in Nat /\ DOMAIN es = 1..Len(es) /\ DOMAIN more = 1..(Len(es) + 1)
      /\ \A k \in 1..Len(es) : more[k] = es[k]
      /\ more[Len(es) + 1] = e
  OBVIOUS
<1> HIDE DEF more
<1>2. IsFiniteSet(1..Len(es))
  <2>1. 1 \in Int /\ Len(es) \in Int
    BY <1>1
  <2> QED
    BY <2>1, FS_Interval
<1>3. IsFiniteSet(Became(es, status))
  <2>1. Became(es, status) \subseteq 1..Len(es)
    BY <1>1 DEF Became
  <2> QED
    BY <1>2, <2>1, FS_Subset
<1>4. Became(more, status) = Became(es, status) \cup (IF e.new = status THEN {Len(es) + 1} ELSE {})
  BY <1>1 DEF Became
<1>5. Len(es) + 1 \notin Became(es, status)
  BY <1>1 DEF Became
<1>6. CASE e.new = status
  <2>1. Became(more, status) = Became(es, status) \cup {Len(es) + 1}
    BY <1>4, <1>6
  <2>2. Cardinality(Became(more, status)) = Cardinality(Became(es, status)) + 1
    BY <1>3, <1>5, <2>1, FS_AddElement
  <2>3. Cardinality(Became(es, status)) \in Nat
    BY <1>3, FS_CardinalityType
  <2> QED
    <3>1. Cardinality(Became(more, status)) \in Nat
      BY <1>3, <2>1, FS_AddElement, FS_CardinalityType
    <3> QED
      BY <1>6, <2>2, <2>3, <3>1 DEF more
<1>7. CASE e.new # status
  <2>1. Became(more, status) = Became(es, status)
    BY <1>4, <1>7
  <2> QED
    <3>1. Cardinality(Became(es, status)) \in Nat
      BY <1>3, FS_CardinalityType
    <3> QED
      BY <1>7, <2>1, <3>1 DEF more
<1> QED
  BY <1>6, <1>7 DEF more

LEMMA RowIsWritten ==
    ASSUME AdministrationRows, NEW r \in Row, NEW old \in Nat, NEW new \in Nat,
           r \in Logged => old \in Told(trail[r], First(r)),
           row' = [row EXCEPT ![r] = new],
           trail' = IF r \in Logged THEN [trail EXCEPT ![r] = Append(@, [old |-> old, new |-> new])] ELSE trail,
           UNCHANGED <<settings, members>>
    PROVE  AdministrationRows' /\ AdministrationGrows
<1>1. AdministrationTypeOK /\ RowsTold /\ MembersTold /\ OffboardedOnce /\ DefaultIsSupported
  BY DEF AdministrationRows
<1>2. UNCHANGED <<languages, spokenTrail, member, memberTrail>>
  BY DEF settings, members
<1>3. row' \in [Row -> Nat] /\ \A q \in Row : row'[q] = IF q = r THEN new ELSE row[q]
  BY <1>1 DEF AdministrationTypeOK
<1>4. ASSUME NEW q \in Logged
      PROVE  /\ trail'[q] \in Seq([old: Nat, new: Nat])
             /\ Told(trail[q], First(q)) \subseteq Told(trail'[q], First(q))
             /\ Tells(trail'[q], First(q), row'[q])
  <2>1. trail[q] \in Seq([old: Nat, new: Nat]) /\ q \in Row
    BY <1>1, AdministrationTypes DEF Row
  <2>2. Tells(trail[q], First(q), row[q])
    BY <1>1 DEF RowsTold
  <2>3. CASE q = r
    <3>1. PICK e : e = [old |-> old, new |-> new]
      OBVIOUS
    <3>2. trail'[q] = Append(trail[q], e) /\ e \in [old: Nat, new: Nat] /\ e.old = old /\ e.new = new
      BY <1>1, <1>4, <2>3, <3>1 DEF AdministrationTypeOK
    <3>3. old \in Told(trail[q], First(q)) /\ \A k \in DOMAIN trail[q] : trail[q][k].old \in Told(trail[q], First(q))
      BY <1>4, <2>1, <2>2, <2>3, NowIsTold
    <3>4. row'[q] = new
      BY <1>3, <2>1, <2>3
    <3> QED
      <4> DEFINE V == [old: Nat, new: Nat]
      <4>1. trail[q] \in Seq(V) /\ e \in V /\ e.old \in Told(trail[q], First(q))
        BY <2>1, <3>2, <3>3
      <4> HIDE DEF V
      <4>2. /\ Append(trail[q], e) \in Seq(V)
            /\ Told(trail[q], First(q)) \subseteq Told(Append(trail[q], e), First(q))
            /\ Tells(Append(trail[q], e), First(q), e.new)
        BY <3>3, <4>1, TrailGrows
      <4> QED
        BY <3>2, <3>4, <4>2 DEF V
  <2>4. CASE q # r
    <3>1. trail'[q] = trail[q] /\ row'[q] = row[q]
      BY <1>1, <1>3, <2>1, <2>4 DEF AdministrationTypeOK
    <3> QED
      BY <2>1, <2>2, <3>1
  <2> QED
    BY <2>3, <2>4
<1>5. trail' \in [Logged -> Seq([old: Nat, new: Nat])]
  <2>1. trail \in [Logged -> Seq([old: Nat, new: Nat])]
    BY <1>1 DEF AdministrationTypeOK, TrailEntry
  <2>2. CASE r \in Logged
    <3>1. trail' = [trail EXCEPT ![r] = trail'[r]]
      BY <2>1, <2>2
    <3> QED
      BY <1>4, <2>1, <2>2, <3>1
  <2>3. CASE r \notin Logged
    BY <2>1, <2>3
  <2> QED
    BY <2>2, <2>3
<1>6. AdministrationTypeOK'
  BY <1>1, <1>2, <1>3, <1>5 DEF AdministrationTypeOK, TrailEntry
<1>7. RowsTold'
  BY <1>4 DEF RowsTold
<1>8. AdministrationRows'
  BY <1>1, <1>2, <1>6, <1>7 DEF AdministrationRows, MembersTold, OffboardedOnce, DefaultIsSupported
<1>9. AdministrationGrows
  <2>1. \A m \in Member : member'[m] = member[m] /\ memberTrail'[m] = memberTrail[m] /\ member[m].version \in Nat
    BY <1>1, <1>2, AdministrationTypes
  <2> QED
    <3>1. \A m \in Member : member'[m].version >= member[m].version
      BY <2>1
    <3>2. \A q \in Logged : Told(trail[q], First(q)) \subseteq Told(trail'[q], First(q))
      BY <1>4
    <3> QED
      BY <2>1, <3>1, <3>2 DEF AdministrationGrows
<1> QED
  BY <1>8, <1>9

LEMMA LanguagesAreWritten ==
    ASSUME AdministrationRows, NEW seen \in Settings, NEW new \in Settings, new.first \in new.spoken,
           languages' = new, spokenTrail' = Append(spokenTrail, [old |-> seen, new |-> new]),
           UNCHANGED <<rows, members>>
    PROVE  AdministrationRows' /\ AdministrationGrows
<1>1. AdministrationTypeOK /\ RowsTold /\ MembersTold /\ OffboardedOnce
  BY DEF AdministrationRows
<1>2. UNCHANGED <<row, trail, member, memberTrail>>
  BY DEF rows, members
<1>3. PICK e : e = [old |-> seen, new |-> new]
  OBVIOUS
<1>4. e \in TrailEntry(Settings) /\ e.new = new /\ spokenTrail' = Append(spokenTrail, e)
  BY <1>3 DEF TrailEntry
<1>5. spokenTrail \in Seq(TrailEntry(Settings))
  BY <1>1 DEF AdministrationTypeOK
<1>6. spokenTrail' \in Seq(TrailEntry(Settings)) /\ Last(spokenTrail') = e
  BY <1>4, <1>5 DEF Last
<1>7. AdministrationTypeOK'
  BY <1>1, <1>2, <1>6 DEF AdministrationTypeOK
<1>8. AdministrationRows'
  BY <1>1, <1>2, <1>4, <1>6, <1>7 DEF AdministrationRows, RowsTold, MembersTold, OffboardedOnce, DefaultIsSupported
<1>9. AdministrationGrows
  <2>1. ASSUME NEW m \in Member
        PROVE  member'[m] = member[m] /\ memberTrail'[m] = memberTrail[m] /\ member[m].version \in Nat
    BY <1>1, <1>2, AdministrationTypes
  <2>2. \A m \in Member : member'[m].version >= member[m].version
    BY <2>1
  <2> QED
    BY <1>2, <2>1, <2>2 DEF AdministrationGrows
<1> QED
  BY <1>8, <1>9

\* A user is suspended, or offboarded with a suspension to spare.
LEMMA MemberIsWritten ==
    ASSUME AdministrationRows, NEW m \in Member, NEW old \in MemberStatus,
           old \in Told(memberTrail[m], "ACTIVE"),
           NEW now \in [status: MemberStatus, version: Nat, roles: BOOLEAN],
           member' = [member EXCEPT ![m] = now], LogMember(m, old, now.status),
           \/ now.status = "SUSPENDED" /\ now.version = member[m].version /\ now.roles = member[m].roles
           \/ /\ now.status = "DISABLED" /\ now.version = member[m].version + 1 /\ now.roles = FALSE
              /\ Spare(memberTrail[m]),
           UNCHANGED <<rows, settings>>
    PROVE  AdministrationRows' /\ AdministrationGrows
<1>1. AdministrationTypeOK /\ RowsTold /\ MembersTold /\ OffboardedOnce /\ DefaultIsSupported
  BY DEF AdministrationRows
<1>2. UNCHANGED <<row, trail, languages, spokenTrail>>
  BY DEF rows, settings
<1> DEFINE V == [old: MemberStatus, new: MemberStatus]
           es == memberTrail[m]
           D(s) == Cardinality(Became(s, "DISABLED"))
           S(s) == Cardinality(Became(s, "SUSPENDED"))
<1>3. memberTrail \in [Member -> Seq(V)] /\ es \in Seq(V)
  BY <1>1 DEF AdministrationTypeOK, TrailEntry
<1>4. PICK e : e = [old |-> old, new |-> now.status]
  OBVIOUS
<1>5. e \in V /\ e.old = old /\ e.new = now.status /\ now.status \in MemberStatus
  BY <1>4
<1> DEFINE more == Append(es, e)
<1>7. memberTrail' = [memberTrail EXCEPT ![m] = more]
  BY <1>4 DEF LogMember
<1>8. Tells(es, "ACTIVE", member[m].status)
  BY <1>1 DEF MembersTold
<1>9. \A k \in DOMAIN es : es[k].old \in Told(es, "ACTIVE")
  BY <1>3, <1>8, NowIsTold
<1>10. /\ more \in Seq(V) /\ Told(es, "ACTIVE") \subseteq Told(more, "ACTIVE")
       /\ Tells(more, "ACTIVE", now.status)
  BY <1>3, <1>5, <1>9, TrailGrows
<1>6. ASSUME NEW s \in MemberStatus
      PROVE  /\ Cardinality(Became(es, s)) \in Nat /\ Cardinality(Became(more, s)) \in Nat
             /\ e.new = s => Cardinality(Became(more, s)) = Cardinality(Became(es, s)) + 1
             /\ e.new # s => Became(more, s) = Became(es, s)
  <2>1. es \in Seq(V) /\ e \in V
    BY <1>3, <1>5
  <2> HIDE DEF V, es
  <2> QED
    BY <2>1, BecameGrows DEF more
<1>21. "DISABLED" \in MemberStatus /\ "SUSPENDED" \in MemberStatus /\ "DISABLED" # "SUSPENDED"
  BY DEF MemberStatus
<1>11. /\ D(es) \in Nat /\ D(more) \in Nat /\ S(es) \in Nat /\ S(more) \in Nat
       /\ now.status = "DISABLED" => D(more) = D(es) + 1 /\ S(more) = S(es)
       /\ now.status = "SUSPENDED" => S(more) = S(es) + 1 /\ D(more) = D(es)
  <2>1. /\ Cardinality(Became(es, "DISABLED")) \in Nat /\ Cardinality(Became(more, "DISABLED")) \in Nat
        /\ e.new = "DISABLED" => Cardinality(Became(more, "DISABLED")) = Cardinality(Became(es, "DISABLED")) + 1
        /\ e.new # "DISABLED" => Became(more, "DISABLED") = Became(es, "DISABLED")
    BY <1>6, <1>21, Zenon
  <2>2. /\ Cardinality(Became(es, "SUSPENDED")) \in Nat /\ Cardinality(Became(more, "SUSPENDED")) \in Nat
        /\ e.new = "SUSPENDED" => Cardinality(Became(more, "SUSPENDED")) = Cardinality(Became(es, "SUSPENDED")) + 1
        /\ e.new # "SUSPENDED" => Became(more, "SUSPENDED") = Became(es, "SUSPENDED")
    BY <1>6, <1>21, Zenon
  <2> QED
    BY <1>5, <2>1, <2>2
<1>12. /\ member' \in [Member -> [status: MemberStatus, version: Nat, roles: BOOLEAN]]
       /\ memberTrail' \in [Member -> Seq(V)]
       /\ member'[m] = now /\ memberTrail'[m] = more
       /\ \A n \in Member : n # m => member'[n] = member[n] /\ memberTrail'[n] = memberTrail[n]
  BY <1>1, <1>3, <1>7, <1>10 DEF AdministrationTypeOK
<1>13. /\ D(es) <= 1 + S(es)
       /\ Became(es, "DISABLED") # {} => ~ member[m].roles
  BY <1>1 DEF OffboardedOnce, Became
<1>14. /\ D(more) <= 1 + S(more)
       /\ now.status # "DISABLED" => D(more) <= S(more)
       /\ member'[m].version \in Nat /\ member'[m].version >= member[m].version
       /\ member'[m].version = member[m].version /\ D(es) <= S(es) => D(more) <= S(more)
  <2>1. member[m].version \in Nat
    BY <1>1, AdministrationTypes
  <2> HIDE DEF D, S
  <2>2. CASE now.status = "SUSPENDED" /\ now.version = member[m].version
    BY <1>11, <1>12, <1>13, <2>1, <2>2
  <2>3. CASE now.status = "DISABLED" /\ now.version = member[m].version + 1 /\ Spare(es)
    <3>1. D(es) <= S(es)
      BY <2>3 DEF Spare, D, S
    <3> QED
      BY <1>11, <1>12, <1>13, <2>1, <2>3, <3>1
  <2> QED
    BY <2>2, <2>3
<1>15. Became(more, "DISABLED") # {} => ~ now.roles
  <2>1. CASE now.status = "SUSPENDED" /\ now.roles = member[m].roles
    <3>1. Became(more, "DISABLED") = Became(es, "DISABLED")
      BY <1>5, <1>6, <1>21, <2>1, Zenon
    <3> QED
      BY <1>13, <2>1, <3>1, Zenon
  <2>2. CASE now.roles = FALSE
    BY <2>2
  <2> QED
    BY <2>1, <2>2
<1>16. AdministrationTypeOK'
  BY <1>1, <1>2, <1>12 DEF AdministrationTypeOK, TrailEntry
<1>17. MembersTold'
  BY <1>1, <1>10, <1>12, <1>14 DEF MembersTold, Spare
<1>18. OffboardedOnce'
  <2>1. ASSUME NEW n \in Member
        PROVE  /\ Cardinality(Became(memberTrail'[n], "DISABLED")) <= 1 + Cardinality(Became(memberTrail'[n], "SUSPENDED"))
               /\ Became(memberTrail'[n], "DISABLED") # {} => ~ member'[n].roles
    <3>1. CASE n = m
      BY <1>12, <1>14, <1>15, <3>1, Zenon
    <3>2. CASE n # m
      <4>1. /\ Cardinality(Became(memberTrail[n], "DISABLED")) <= 1 + Cardinality(Became(memberTrail[n], "SUSPENDED"))
            /\ Became(memberTrail[n], "DISABLED") # {} => ~ member[n].roles
        BY <1>1 DEF OffboardedOnce, Became
      <4> QED
        BY <1>12, <3>2, <4>1, Zenon
    <3> QED
      BY <3>1, <3>2
  <2> QED
    BY <2>1 DEF OffboardedOnce, Became
<1>19. AdministrationRows'
  BY <1>1, <1>2, <1>16, <1>17, <1>18 DEF AdministrationRows, RowsTold, DefaultIsSupported
<1>20. AdministrationGrows
  <2>1. ASSUME NEW n \in Member
        PROVE  /\ Told(memberTrail[n], "ACTIVE") \subseteq Told(memberTrail'[n], "ACTIVE")
               /\ member'[n].version \in Nat /\ member'[n].version >= member[n].version
               /\ member'[n].version = member[n].version /\ Spare(memberTrail[n]) => Spare(memberTrail'[n])
    <3>1. CASE n = m
      BY <1>10, <1>12, <1>14, <3>1 DEF Spare
    <3>2. CASE n # m
      BY <1>1, <1>12, <3>2, AdministrationTypes
    <3> QED
      BY <3>1, <3>2
  <2> QED
    BY <1>2, <2>1 DEF AdministrationGrows
<1> QED
  BY <1>19, <1>20

\* Who rests may go on relying on it.
LEMMA AdministrationFitsOn ==
    ASSUME RequestsInv, AdministrationInv, AdministrationGrows, NEW v \in Worker, Rests(v)
    PROVE  AdministrationFits(v)'
<1>1. pc'[v] = pc[v] /\ job'[v] = job[v] /\ saw'[v] = saw[v] /\ AdministrationFits(v) /\ AdministrationTypeOK
  BY DEF Rests, AdministrationInv, AdministrationRows
<1>2. RowFits(v)'
  BY <1>1 DEF AdministrationFits, RowFits, AdministrationGrows
<1>3. LanguagesFit(v)'
  BY <1>1 DEF AdministrationFits, LanguagesFit, Chosen
<1>4. MemberFits(v)'
  <2> SUFFICES ASSUME pc[v] = "commit", job[v].op \in MemberOp
               PROVE  LET m == job[v].member IN
                      /\ saw[v].status \in MemberStatus /\ saw[v].status \in Told(memberTrail'[m], "ACTIVE")
                      /\ job[v].op = "OFFBOARD" =>
                            /\ saw[v].version \in Nat /\ saw[v].version <= member'[m].version
                            /\ saw[v].version = member'[m].version => Spare(memberTrail'[m])
    BY <1>1 DEF MemberFits
  <2> DEFINE m == job[v].member
  <2>1. job[v].member \in Member
    BY AdministrationJob DEF AdministrationOp
  <2>2. /\ saw[v].status \in MemberStatus /\ saw[v].status \in Told(memberTrail[m], "ACTIVE")
        /\ job[v].op = "OFFBOARD" =>
              /\ saw[v].version \in Nat /\ saw[v].version <= member[m].version
              /\ saw[v].version = member[m].version => Spare(memberTrail[m])
    BY <1>1 DEF AdministrationFits, MemberFits
  <2>3. /\ Told(memberTrail[m], "ACTIVE") \subseteq Told(memberTrail'[m], "ACTIVE")
        /\ member'[m].version \in Nat /\ member'[m].version >= member[m].version
        /\ member'[m].version = member[m].version /\ Spare(memberTrail[m]) => Spare(memberTrail'[m])
    BY <2>1 DEF AdministrationGrows
  <2>4. member[m].version \in Nat
    BY <1>1, <2>1, AdministrationTypes
  <2> HIDE DEF m
  <2>5. ASSUME job[v].op = "OFFBOARD"
        PROVE  /\ saw[v].version \in Nat /\ saw[v].version <= member'[m].version
               /\ saw[v].version = member'[m].version => Spare(memberTrail'[m])
    BY <2>2, <2>3, <2>4, <2>5
  <2> QED
    BY <2>2, <2>3, <2>5 DEF m
<1> QED
  BY <1>2, <1>3, <1>4 DEF AdministrationFits

LEMMA AdministrationOthers ==
    ASSUME RequestsInv, AdministrationInv, NEW w \in Worker, Handled(w), AdministrationRows', AdministrationGrows,
           AdministrationFits(w)'
    PROVE  AdministrationInv'
<1>1. \A v \in Worker : v # w => Rests(v)
  BY OthersRest
<1> QED
  BY <1>1, AdministrationFitsOn DEF AdministrationInv

LEMMA AdministrationStays ==
    ASSUME AdministrationRows, UNCHANGED administration
    PROVE  AdministrationRows' /\ AdministrationGrows
<1>1. UNCHANGED <<row, trail, languages, spokenTrail, member, memberTrail>>
  BY DEF administration
<1>2. AdministrationRows'
  BY <1>1 DEF AdministrationRows, AdministrationTypeOK, RowsTold, MembersTold, OffboardedOnce, DefaultIsSupported
<1>3. AdministrationGrows
  BY <1>1, AdministrationTypes DEF AdministrationRows, AdministrationGrows
<1> QED
  BY <1>2, <1>3

LEMMA AdministrationAtRest ==
    ASSUME RequestsInv, AdministrationInv, AdministrationRests
    PROVE  AdministrationInv'
<1>1. AdministrationRows' /\ AdministrationGrows
  BY AdministrationStays DEF AdministrationRests, AdministrationInv
<1>2. ASSUME NEW v \in Worker
      PROVE  AdministrationFits(v)'
  <2>1. CASE Rests(v)
    BY <1>1, <2>1, AdministrationFitsOn
  <2>2. CASE pc'[v] \in {"idle", "read"}
    BY <2>2 DEF AdministrationFits, RowFits, LanguagesFit, MemberFits
  <2>3. CASE job'[v] = job[v] /\ job[v].op \notin AdministrationOp
    BY <2>3 DEF AdministrationFits, RowFits, LanguagesFit, MemberFits, AdministrationOp
  <2> QED
    BY <2>1, <2>2, <2>3 DEF AdministrationRests, Elsewhere
<1> QED
  BY <1>1, <1>2 DEF AdministrationInv

LEMMA AdministrationEnds ==
    ASSUME RequestsInv, NEW w \in Worker, Answer(w)
    PROVE  AdministrationFits(w)'
<1>1. pc'[w] = "idle"
  BY WhatIsAnswered
<1> QED
  BY <1>1 DEF AdministrationFits, RowFits, LanguagesFit, MemberFits

-----------------------------------------------------------------------------
(* The handlers.                                                           *)
LEMMA WritesAndAnswers ==
    ASSUME RequestsInv, AdministrationInv, NEW w \in Worker, pc[w] # "idle", Answer(w),
           AdministrationRows', AdministrationGrows
    PROVE  AdministrationInv'
BY AnswerHandles, AdministrationEnds, AdministrationOthers

LEMMA JustAnswers ==
    ASSUME RequestsInv, AdministrationInv, NEW w \in Worker, pc[w] # "idle", Answer(w), UNCHANGED administration
    PROVE  AdministrationInv'
BY AdministrationStays, WritesAndAnswers DEF AdministrationInv

LEMMA RowOps ==
    /\ \A o \in RowOp : o \notin MemberOp /\ o # "SET_LANGUAGES" /\ o \in AdministrationOp
    /\ \A o \in MemberOp : o # "SET_LANGUAGES" /\ o \in AdministrationOp
    /\ \A o \in {"CREATE_PLAN", "CREATE_CURRENCY", "CREATE_TICKET", "CREATE_FLAG", "CREATE_KEY", "UPDATE_PLAN",
                 "UPDATE_CURRENCY", "UPDATE_TICKET", "UPDATE_TENANT", "OVERRIDE_CYCLE", "SET_RATE",
                 "DELETE_PLAN", "UPDATE_FLAG", "DELETE_FLAG", "SET_CONFIG", "REMOVE_CONFIG", "DELETE_KEY"} :
          o \in RowOp
BY DEF RowOp, Rows, MemberOp, AdministrationOp

LEMMA ReadsRow ==
    ASSUME RequestsInv, AdministrationInv, NEW w \in Worker, NEW op \in RowOp, NEW ok, ReadRow(w, op, ok)
    PROVE  AdministrationInv'
<1>1. pc[w] # "idle" /\ job[w].op = op /\ UNCHANGED administration
  BY DEF ReadRow, At
<1>2. CASE Answer(w)
  BY <1>1, <1>2, JustAnswers
<1>3. CASE See(w, row[job[w].row], "commit")
  <2>1. pc'[w] = "commit" /\ job'[w] = job[w] /\ saw'[w] = row[job[w].row] /\ Handled(w)
    BY <1>1, <1>3, WhatIsSeen, SeeHandles, StepNames
  <2>2. job[w].row \in Row
    BY <1>1, AdministrationJob, RowOps
  <2>3. UNCHANGED <<row, trail>> /\ AdministrationTypeOK /\ RowsTold
    BY <1>1 DEF administration, AdministrationInv, AdministrationRows
  <2>4. row[job[w].row] \in Nat
    BY <2>2, <2>3, AdministrationTypes
  <2>5. ASSUME job[w].row \in Logged
        PROVE  row[job[w].row] \in Told(trail[job[w].row], First(job[w].row))
    <3>1. trail[job[w].row] \in Seq([old: Nat, new: Nat])
      BY <2>3, <2>5, AdministrationTypes
    <3>2. Tells(trail[job[w].row], First(job[w].row), row[job[w].row])
      BY <2>3, <2>5 DEF RowsTold
    <3> QED
      BY <3>1, <3>2, NowIsTold
  <2>6. AdministrationFits(w)'
    BY <1>1, <2>1, <2>3, <2>4, <2>5, RowOps DEF AdministrationFits, RowFits, LanguagesFit, MemberFits
  <2> QED
    BY <1>1, <2>1, <2>6, AdministrationStays, AdministrationOthers DEF AdministrationInv
<1> QED
  BY <1>2, <1>3 DEF ReadRow, SeeIf

LEMMA WritesRow ==
    ASSUME RequestsInv, AdministrationInv, NEW w \in Worker, pc[w] # "idle", NEW r \in Row, NEW old \in Nat,
           NEW new \in Nat, r \in Logged => old \in Told(trail[r], First(r)), WriteRow(w, r, old, new)
    PROVE  AdministrationInv'
<1>1. AdministrationRows
  BY DEF AdministrationInv
<1>2. AdministrationRows' /\ AdministrationGrows
  BY <1>1, RowIsWritten DEF WriteRow
<1> QED
  BY <1>2, WritesAndAnswers DEF WriteRow

\* With what is there.
LEMMA PresentIsTold ==
    ASSUME AdministrationInv, NEW r \in Row
    PROVE  row[r] \in Nat /\ (r \in Logged => row[r] \in Told(trail[r], First(r)))
<1>1. AdministrationTypeOK /\ RowsTold
  BY DEF AdministrationInv, AdministrationRows
<1>2. ASSUME r \in Logged
      PROVE  row[r] \in Told(trail[r], First(r))
  <2>1. trail[r] \in Seq([old: Nat, new: Nat]) /\ Tells(trail[r], First(r), row[r])
    BY <1>1, <1>2, AdministrationTypes DEF RowsTold
  <2> QED
    BY <2>1, NowIsTold
<1> QED
  BY <1>1, <1>2, AdministrationTypes

LEMMA CreatesRow ==
    ASSUME RequestsInv, AdministrationInv, NEW w \in Worker, NEW op \in RowOp, Create(w, op)
    PROVE  AdministrationInv'
<1>1. pc[w] # "idle" /\ job[w].op = op /\ row[job[w].row] = 0 /\ WriteRow(w, job[w].row, 0, job[w].value)
  BY DEF Create, At
<1>2. job[w].row \in Row /\ job[w].value \in Nat
  BY <1>1, AdministrationJob, RowOps
<1>3. job[w].row \in Logged => 0 \in Told(trail[job[w].row], First(job[w].row))
  BY <1>1, <1>2, PresentIsTold
<1> QED
  BY <1>1, <1>2, <1>3, WritesRow

LEMMA WritesWhatItRead ==
    ASSUME RequestsInv, AdministrationInv, NEW w \in Worker, NEW op \in RowOp, At(w, op, "commit"),
           NEW new \in {0, job[w].value}, WriteRow(w, job[w].row, saw[w], new)
    PROVE  AdministrationInv'
<1>1. pc[w] # "idle" /\ job[w].op = op /\ pc[w] = "commit"
  BY DEF At
<1>2. job[w].row \in Row /\ job[w].value \in Nat
  BY <1>1, AdministrationJob, RowOps
<1>3. saw[w] \in Nat /\ (job[w].row \in Logged => saw[w] \in Told(trail[job[w].row], First(job[w].row)))
  BY <1>1 DEF AdministrationInv, AdministrationFits, RowFits
<1> QED
  BY <1>1, <1>2, <1>3, WritesRow

LEMMA UpdatesRow ==
    ASSUME RequestsInv, AdministrationInv, NEW w \in Worker, NEW op \in RowOp, Update(w, op)
    PROVE  AdministrationInv'
BY ReadsRow, WritesWhatItRead DEF Update

LEMMA WritesAtOnce ==
    ASSUME RequestsInv, AdministrationInv, NEW w \in Worker, NEW op \in RowOp, NEW ok,
           NEW new \in {0, job[w].value}, WriteAtOnce(w, op, ok, new)
    PROVE  AdministrationInv'
<1>1. pc[w] # "idle" /\ job[w].op = op /\ WriteRow(w, job[w].row, row[job[w].row], new)
  BY DEF WriteAtOnce, At
<1>2. job[w].row \in Row /\ job[w].value \in Nat
  BY <1>1, AdministrationJob, RowOps
<1> QED
  BY <1>1, <1>2, PresentIsTold, WritesRow

LEMMA RowsKept ==
    ASSUME RequestsInv, AdministrationInv, NEW w \in Worker, RowStep(w)
    PROVE  AdministrationInv'
<1>1. CASE CreatePlan(w) \/ CreateCurrency(w) \/ CreateSupportTicket(w) \/ CreateFlag(w) \/ CreateKey(w)
  BY <1>1, CreatesRow, RowOps DEF CreatePlan, CreateCurrency, CreateSupportTicket, CreateFlag, CreateKey
<1>2. CASE \/ UpdatePlan(w) \/ UpdateCurrency(w) \/ UpdateTicketStatus(w) \/ UpdateTenant(w)
           \/ OverrideBillingCycle(w)
  BY <1>2, UpdatesRow, RowOps
     DEF UpdatePlan, UpdateCurrency, UpdateTicketStatus, UpdateTenant, OverrideBillingCycle
<1>3. CASE CreateExchangeRate(w)
  BY <1>3, ReadsRow, WritesWhatItRead, RowOps DEF CreateExchangeRate
<1>4. CASE DeletePlan(w)
  BY <1>4, ReadsRow, WritesWhatItRead, RowOps DEF DeletePlan
<1>5. CASE UpdateFlag(w) \/ DeleteFlag(w) \/ SetConfig(w) \/ RemoveConfig(w) \/ DeleteKey(w)
  BY <1>5, WritesAtOnce, RowOps DEF UpdateFlag, DeleteFlag, SetConfig, RemoveConfig, DeleteKey
<1> QED
  BY <1>1, <1>2, <1>3, <1>4, <1>5 DEF RowStep

LEMMA LanguagesKept ==
    ASSUME RequestsInv, AdministrationInv, NEW w \in Worker, UpdateLanguageSettings(w)
    PROVE  AdministrationInv'
<1>1. pc[w] # "idle" /\ job[w].op = "SET_LANGUAGES"
  BY DEF UpdateLanguageSettings, ReadLanguages, WriteLanguages, At
<1>2. job[w].first \in Language \cup {""} /\ job[w].spoken \in SUBSET Language
  BY <1>1, AdministrationJob DEF AdministrationOp
<1>3. AdministrationRows /\ AdministrationTypeOK
  BY DEF AdministrationInv, AdministrationRows
<1>4. CASE ReadLanguages(w)
  <2>1. UNCHANGED administration
    BY <1>4 DEF ReadLanguages
  <2>2. CASE Answer(w)
    BY <1>1, <2>1, <2>2, JustAnswers
  <2>3. CASE Chosen(w, languages).first \in Chosen(w, languages).spoken /\ See(w, languages, "commit")
    <3>1. pc'[w] = "commit" /\ job'[w] = job[w] /\ saw'[w] = languages /\ Handled(w)
      BY <1>1, <2>3, WhatIsSeen, SeeHandles, StepNames
    <3>2. languages \in Settings
      BY <1>3 DEF AdministrationTypeOK
    <3>3. LanguagesFit(w)'
      BY <2>3, <3>1, <3>2 DEF LanguagesFit, Chosen
    <3>4. AdministrationFits(w)'
      BY <1>1, <3>1, <3>3, RowOps DEF AdministrationFits, RowFits, MemberFits
    <3> QED
      BY <1>3, <2>1, <3>1, <3>4, AdministrationStays, AdministrationOthers
  <2> QED
    BY <1>4, <2>2, <2>3 DEF ReadLanguages, SeeIf
<1>5. CASE WriteLanguages(w, Chosen(w, saw[w]))
  <2>1. saw[w] \in Settings /\ Chosen(w, saw[w]).first \in Chosen(w, saw[w]).spoken
    BY <1>1, <1>5 DEF AdministrationInv, AdministrationFits, LanguagesFit, WriteLanguages, At
  <2>2. PICK new : new = Chosen(w, saw[w])
    OBVIOUS
  <2>3. new \in Settings /\ new.first \in new.spoken
    BY <1>2, <2>1, <2>2 DEF Settings, Chosen
  <2>4. /\ languages' = new /\ spokenTrail' = Append(spokenTrail, [old |-> saw[w], new |-> new])
        /\ UNCHANGED <<rows, members>> /\ Answer(w)
    BY <1>5, <2>2 DEF WriteLanguages
  <2>5. AdministrationRows' /\ AdministrationGrows
    BY <1>3, <2>1, <2>3, <2>4, LanguagesAreWritten
  <2> QED
    BY <1>1, <2>4, <2>5, WritesAndAnswers
<1> QED
  BY <1>4, <1>5 DEF UpdateLanguageSettings

LEMMA MembersKept ==
    ASSUME RequestsInv, AdministrationInv, NEW w \in Worker, SuspendUser(w) \/ OffboardUser(w)
    PROVE  AdministrationInv'
<1> DEFINE m == job[w].member
<1>1. pc[w] # "idle" /\ job[w].op \in MemberOp
  BY DEF SuspendUser, OffboardUser, At, MemberOp
<1>2. job[w].member \in Member
  BY <1>1, AdministrationJob, RowOps
<1>3. AdministrationRows /\ AdministrationTypeOK /\ MembersTold
  BY DEF AdministrationInv, AdministrationRows
<1>4. /\ member[m] \in [status: MemberStatus, version: Nat, roles: BOOLEAN]
      /\ member[m].status \in MemberStatus /\ member[m].version \in Nat
      /\ memberTrail[m] \in Seq([old: MemberStatus, new: MemberStatus])
  BY <1>2, <1>3, AdministrationTypes
<1>5. ASSUME See(w, member[m], "commit"), UNCHANGED administration,
             job[w].op = "OFFBOARD" => member[m].status # "DISABLED"
      PROVE  AdministrationInv'
  <2>1. pc'[w] = "commit" /\ job'[w] = job[w] /\ saw'[w] = member[m] /\ Handled(w)
    BY <1>1, <1>5, WhatIsSeen, SeeHandles, StepNames
  <2>2. UNCHANGED <<member, memberTrail>>
    BY <1>5 DEF administration
  <2>3. member[m].status \in Told(memberTrail[m], "ACTIVE")
    <3>1. Tells(memberTrail[m], "ACTIVE", member[m].status)
      BY <1>2, <1>3 DEF MembersTold
    <3> QED
      BY <1>4, <3>1, NowIsTold
  <2>4. job[w].op = "OFFBOARD" => Spare(memberTrail[m])
    BY <1>2, <1>3, <1>5 DEF MembersTold
  <2>5. MemberFits(w)'
    BY <1>1, <1>4, <2>1, <2>2, <2>3, <2>4 DEF MemberFits
  <2>6. AdministrationFits(w)'
    BY <1>1, <2>1, <2>5, RowOps DEF AdministrationFits, RowFits, LanguagesFit
  <2> QED
    BY <1>3, <1>5, <2>1, <2>6, AdministrationStays, AdministrationOthers
<1>6. ASSUME pc[w] = "commit",
             NEW now \in [status: MemberStatus, version: Nat, roles: BOOLEAN],
             member' = [member EXCEPT ![m] = now], LogMember(m, saw[w].status, now.status),
             \/ now.status = "SUSPENDED" /\ now.version = member[m].version /\ now.roles = member[m].roles
             \/ /\ now.status = "DISABLED" /\ now.version = member[m].version + 1 /\ now.roles = FALSE
                /\ Spare(memberTrail[m]),
             UNCHANGED <<rows, settings>>, Answer(w)
      PROVE  AdministrationInv'
  <2>1. saw[w].status \in MemberStatus /\ saw[w].status \in Told(memberTrail[m], "ACTIVE")
    BY <1>1, <1>6 DEF AdministrationInv, AdministrationFits, MemberFits
  <2>2. AdministrationRows' /\ AdministrationGrows
    BY <1>2, <1>3, <1>6, <2>1, MemberIsWritten
  <2> QED
    BY <1>1, <1>6, <2>2, WritesAndAnswers
<1>7. CASE SuspendUser(w)
  <2>1. CASE /\ At(w, "SUSPEND_MEMBER", "read")
             /\ See(w, member[m], "commit")
             /\ UNCHANGED administration
    BY <1>5, <2>1 DEF At
  <2>2. CASE /\ At(w, "SUSPEND_MEMBER", "commit")
             /\ member' = [member EXCEPT ![m].status = "SUSPENDED"]
             /\ LogMember(m, saw[w].status, "SUSPENDED")
             /\ Answer(w)
             /\ UNCHANGED <<rows, settings>>
    <3>1. PICK now : now = [member[m] EXCEPT !.status = "SUSPENDED"]
      OBVIOUS
    <3>2. /\ now \in [status: MemberStatus, version: Nat, roles: BOOLEAN]
          /\ now.status = "SUSPENDED" /\ now.version = member[m].version /\ now.roles = member[m].roles
      BY <1>4, <3>1 DEF MemberStatus
    <3>3. member' = [member EXCEPT ![m] = now]
      BY <2>2, <3>1
    <3> HIDE DEF m
    <3> QED
      BY <1>6, <2>2, <3>2, <3>3 DEF At
  <2> QED
    BY <1>7, <2>1, <2>2 DEF SuspendUser
<1>8. CASE OffboardUser(w)
  <2>1. CASE /\ At(w, "OFFBOARD", "read")
             /\ SeeIf(w, member[m].status # "DISABLED", member[m], "commit")
             /\ UNCHANGED administration
    BY <1>1, <1>5, <2>1, JustAnswers DEF SeeIf
  <2>2. CASE /\ At(w, "OFFBOARD", "commit")
             /\ member[m].version = saw[w].version
             /\ member' = [member EXCEPT ![m] = [status |-> "DISABLED", version |-> @.version + 1, roles |-> FALSE]]
             /\ LogMember(m, saw[w].status, "DISABLED")
             /\ Answer(w)
             /\ UNCHANGED <<rows, settings>>
    <3>1. PICK now : now = [status |-> "DISABLED", version |-> member[m].version + 1, roles |-> FALSE]
      OBVIOUS
    <3>2. member[m].version + 1 \in Nat
      BY <1>4
    <3>3. /\ now \in [status: MemberStatus, version: Nat, roles: BOOLEAN]
          /\ now.status = "DISABLED" /\ now.version = member[m].version + 1 /\ now.roles = FALSE
      BY <3>1, <3>2 DEF MemberStatus
    <3>4. member' = [member EXCEPT ![m] = now]
      BY <2>2, <3>1
    <3>5. Spare(memberTrail[m])
      BY <1>1, <2>2 DEF AdministrationInv, AdministrationFits, MemberFits, At
    <3> HIDE DEF m
    <3> QED
      BY <1>6, <2>2, <3>3, <3>4, <3>5 DEF At
  <2> QED
    BY <1>8, <2>1, <2>2 DEF OffboardUser
<1> QED
  BY <1>7, <1>8

LEMMA AdministrationKeeps ==
    ASSUME RequestsInv, AdministrationInv, NEW w \in Worker, AdministrationStep(w)
    PROVE  AdministrationInv'
BY RowsKept, LanguagesKept, MembersKept, JustAnswers DEF AdministrationStep, AdministrationFails

LEMMA AdministrationStart == AdministrationInit /\ RequestsInit => AdministrationInv
<1> SUFFICES ASSUME AdministrationInit, RequestsInit PROVE AdministrationInv
  OBVIOUS
<1>1. /\ row = [r \in Row |-> IF r \in There THEN 1 ELSE 0] /\ trail = [r \in Logged |-> <<>>]
      /\ languages \in {[first |-> l, spoken |-> Language] : l \in Language} /\ spokenTrail = <<>>
      /\ member = [m \in Member |-> [status |-> "ACTIVE", version |-> 0, roles |-> TRUE]]
      /\ memberTrail = [m \in Member |-> <<>>]
  BY DEF AdministrationInit
<1>2. AdministrationTypeOK
  <2>1. \A V : <<>> \in Seq(V)
    OBVIOUS
  <2>2. row \in [Row -> Nat] /\ trail \in [Logged -> Seq(TrailEntry(Nat))]
    BY <1>1
  <2>3. languages \in Settings
    BY <1>1 DEF Settings
  <2>4. /\ member \in [Member -> [status: MemberStatus, version: Nat, roles: BOOLEAN]]
        /\ memberTrail \in [Member -> Seq(TrailEntry(MemberStatus))]
    BY <1>1 DEF MemberStatus
  <2> QED
    BY <1>1, <2>1, <2>2, <2>3, <2>4 DEF AdministrationTypeOK
<1>3. \A s : Became(<<>>, s) = {}
  BY DEF Became
<1>4. RowsTold
  BY <1>1 DEF RowsTold, Tells, Ends, First, Row
<1>5. Cardinality({}) = 0
  BY FS_EmptySet
<1>6. MembersTold
  <2>1. \A m \in Member : memberTrail[m] = <<>> /\ member[m].status = "ACTIVE"
    BY <1>1
  <2>2. Spare(<<>>)
    <3>1. Became(<<>>, "DISABLED") = {} /\ Became(<<>>, "SUSPENDED") = {}
      BY <1>3
    <3>2. 0 <= 0
      OBVIOUS
    <3> QED
      BY <1>5, <3>1, <3>2, Zenon DEF Spare
  <2>3. Tells(<<>>, "ACTIVE", "ACTIVE")
    BY DEF Tells, Ends
  <2> QED
    BY <2>1, <2>2, <2>3 DEF MembersTold
<1>7. OffboardedOnce
  BY <1>1, <1>5 DEF OffboardedOnce
<1>8. DefaultIsSupported
  BY <1>1 DEF DefaultIsSupported
<1>9. \A w \in Worker : AdministrationFits(w)
  BY DEF RequestsInit, AdministrationFits, RowFits, LanguagesFit, MemberFits
<1> QED
  BY <1>1, <1>2, <1>4, <1>6, <1>7, <1>8, <1>9 DEF AdministrationInv, AdministrationRows

LEMMA AdministrationHolds == FrontOfficeSpec => []AdministrationInv
<1>1. FrontOfficeInit => AdministrationInv
  BY AdministrationStart DEF FrontOfficeInit
<1>2. RequestsInv /\ AdministrationInv /\ [FrontOfficeNext]_<<requests, front>> => AdministrationInv'
  <2>1. ASSUME RequestsInv, AdministrationInv, FrontOfficeNext PROVE AdministrationInv'
    BY <2>1, FrontOfficeMoves, AdministrationAtRest, AdministrationKeeps
  <2>2. ASSUME RequestsInv, AdministrationInv, UNCHANGED <<requests, front>> PROVE AdministrationInv'
    BY <2>2, FrontOfficeStutters, AdministrationAtRest
  <2> QED
    BY <2>1, <2>2
<1> QED
  BY <1>1, <1>2, RequestsHold, PTL DEF FrontOfficeSpec

LEMMA OnRecord == AdministrationInv => AdministrationIsOnRecord
BY DEF AdministrationInv, AdministrationRows, RowsTold, MembersTold, Tells, First, AdministrationIsOnRecord,
       TrailEndsInPresent

-----------------------------------------------------------------------------
(***************************************************************************)
(* Signups: what a signup leaves it leaves together, and no other takes    *)
(* its subdomain or its address after it.                                  *)
(***************************************************************************)
SignupRows ==
    /\ tenantOf \in [Subdomain -> Signup \cup {NoSignup}] /\ userOf \in [Email -> Signup \cup {NoSignup}]
    /\ subscribed \subseteq Signup \cap Request /\ freePlan \in Signup \cup {NoSignup}
    /\ \A s \in Subdomain : tenantOf[s] # NoSignup => tenantOf[s] \in subscribed /\ tenantOf[s].subdomain = s
    /\ \A e \in Email : userOf[e] # NoSignup => userOf[e] \in subscribed /\ userOf[e].email = e
    /\ \A r \in subscribed : tenantOf[r.subdomain] = r /\ userOf[r.email] = r
    /\ staffed = subscribed
    /\ subscribed # {} => freePlan # NoSignup

\* Who created the plan is still at it, or is answered.
PlanMakerCommits ==
    freePlan \in Live => \E w \in Worker : job[w] = freePlan /\ pc[w] = "commit"

\* An answer stands, whatever comes after it.
Stands(a) ==
    /\ a.of \in Signup /\ a.of \in Request \ Live /\ a.says \in SignupAnswer
    /\ a.after = Unread \/ a.after.done \subseteq Signup
    /\ a.says = "CREATED" => a.of \in subscribed
    /\ a.of \in subscribed => a.says = "CREATED"
    /\ a.says = "CONFLICT" => \E q \in subscribed : Collide(q, a.of)
    /\ a.says = "ERROR" =>
          \/ \E q \in subscribed \ a.after.done : Collide(q, a.of)
          \/ freePlan # NoSignup /\ freePlan \notin {a.after.plan, a.of}

SignupAnswers ==
    /\ \A a \in answered : Stands(a)
    /\ \A r \in subscribed : \E a \in answered : a.of = r

\* What a signup relies on between its steps.
OnboardingFits(w) ==
    pc[w] # "idle" /\ job[w].op = "SIGN_UP" =>
      /\ pc[w] \in {"read", "check", "ask", "write", "commit"}
      /\ pc[w] # "read" =>
            /\ saw[w].done \subseteq subscribed /\ \A q \in saw[w].done : q.subdomain # job[w].subdomain
            /\ saw[w].plan \in {NoSignup, freePlan}
      /\ pc[w] \in {"ask", "write", "commit"} => \A q \in saw[w].done : q.email # job[w].email
      /\ pc[w] = "write" => saw[w].plan = NoSignup
      /\ pc[w] = "commit" => freePlan # NoSignup

OnboardingInv ==
    /\ SignupRows /\ SignupAnswers /\ PlanMakerCommits
    /\ \A w \in Worker : OnboardingFits(w)

OnboardingGrows ==
    /\ subscribed \subseteq subscribed'
    /\ freePlan # NoSignup => freePlan' = freePlan

LEMMA SignupJob ==
    ASSUME RequestsInv, NEW w \in Worker, pc[w] # "idle", job[w].op = "SIGN_UP"
    PROVE  /\ job[w] \in Request /\ job[w] \in Live /\ job[w] \in Signup /\ job[w] # NoSignup
           /\ job[w].subdomain \in Subdomain /\ job[w].email \in Email
<1>1. job[w] \in Request /\ job[w] \in Live
  BY JobIsRequest
<1>2. job[w] \in Signup
  BY <1>1, OnboardingAssumption
<1> QED
  BY <1>1, <1>2, OnboardingAssumption DEF Signup

LEMMA OnboardingFitsOn ==
    ASSUME OnboardingGrows, NEW v \in Worker, Rests(v), OnboardingFits(v)
    PROVE  OnboardingFits(v)'
BY DEF OnboardingGrows, Rests, OnboardingFits

LEMMA StandsOn ==
    ASSUME NEW a, Stands(a), OnboardingGrows, Live' \subseteq Live, subscribed' \subseteq subscribed \cup Live
    PROVE  Stands(a)'
<1>1. a.of \in Request \ Live'
  BY DEF Stands
<1>2. a.of \in subscribed' => a.of \in subscribed
  BY DEF Stands
<1>3. a.says = "CREATED" => a.of \in subscribed'
  BY DEF Stands, OnboardingGrows
<1>4. a.says = "CONFLICT" => \E q \in subscribed' : Collide(q, a.of)
  BY DEF Stands, OnboardingGrows
<1>5. a.says = "ERROR" =>
         \/ \E q \in subscribed' \ a.after.done : Collide(q, a.of)
         \/ freePlan' # NoSignup /\ freePlan' \notin {a.after.plan, a.of}
  BY DEF Stands, OnboardingGrows
<1> QED
  BY <1>1, <1>2, <1>3, <1>4, <1>5 DEF Stands

LEMMA PlanMakerStays ==
    ASSUME RequestsInv, PlanMakerCommits, NEW w \in Worker, Handled(w), Answer(w) \/ pc[w] # "commit",
           freePlan' = freePlan
    PROVE  PlanMakerCommits'
<1> SUFFICES ASSUME freePlan \in Live'
             PROVE  \E v \in Worker : job'[v] = freePlan /\ pc'[v] = "commit"
  BY DEF PlanMakerCommits
<1>1. freePlan \in Live
  BY LiveShrinks DEF RequestsMove
<1>2. PICK v \in Worker : job[v] = freePlan /\ pc[v] = "commit"
  BY <1>1 DEF PlanMakerCommits
<1>3. v # w
  <2>1. ASSUME Answer(w) PROVE freePlan # job[w]
    BY <2>1, AnsweredIsGone DEF Handled
  <2> QED
    BY <1>2, <2>1
<1> QED
  BY <1>2, <1>3, OthersRest DEF Rests

LEMMA OnboardingAtRest ==
    ASSUME RequestsInv, OnboardingInv, OnboardingRests
    PROVE  OnboardingInv'
<1>1. UNCHANGED <<tenantOf, subscribed, staffed, userOf, freePlan, answered>> /\ Live' \subseteq Live
  BY DEF OnboardingRests, onboarding, Elsewhere
<1>2. OnboardingGrows /\ SignupRows'
  BY <1>1 DEF OnboardingInv, SignupRows, OnboardingGrows
<1>3. SignupAnswers'
  BY <1>1, <1>2, StandsOn DEF OnboardingInv, SignupAnswers
<1>4. PlanMakerCommits'
  <2> SUFFICES ASSUME freePlan \in Live'
               PROVE  \E v \in Worker : job'[v] = freePlan /\ pc'[v] = "commit"
    BY <1>1 DEF PlanMakerCommits
  <2>1. PICK v \in Worker : job[v] = freePlan /\ pc[v] = "commit"
    BY <1>1 DEF OnboardingInv, PlanMakerCommits
  <2>2. job'[v] = job[v] /\ job[v] \in Request
    <3>1. job[v] \in Request
      BY <2>1, JobIsRequest
    <3> QED
      BY <2>1, <3>1 DEF OnboardingRests, Elsewhere
  <2>3. freePlan \in Signup /\ job[v].op = "SIGN_UP"
    <3>1. freePlan \in Signup
      BY <2>1, <2>2, OnboardingAssumption DEF OnboardingInv, SignupRows
    <3> QED
      BY <2>1, <3>1 DEF Signup
  <2>4. Rests(v)
    BY <2>1, <2>2, <2>3, RequestsAssumption DEF OnboardingRests, Elsewhere
  <2> QED
    BY <2>1, <2>4 DEF Rests
<1>5. ASSUME NEW v \in Worker
      PROVE  OnboardingFits(v)'
  <2>1. CASE Rests(v)
    BY <1>2, <2>1, OnboardingFitsOn DEF OnboardingInv
  <2>2. CASE pc'[v] \in {"idle", "read"}
    BY <2>2 DEF OnboardingFits
  <2>3. CASE job'[v] = job[v] /\ job[v].op \notin {"SIGN_UP"}
    BY <2>3 DEF OnboardingFits
  <2> QED
    BY <2>1, <2>2, <2>3 DEF OnboardingRests, Elsewhere
<1> QED
  BY <1>2, <1>3, <1>4, <1>5 DEF OnboardingInv

\* The worker goes on, having changed no signup's rows.
LEMMA SignupGoesOn ==
    ASSUME RequestsInv, OnboardingInv, NEW w \in Worker, Handled(w), pc[w] # "commit",
           UNCHANGED onboarding, OnboardingFits(w)'
    PROVE  OnboardingInv'
<1>1. UNCHANGED <<tenantOf, subscribed, staffed, userOf, freePlan, answered>> /\ Live' \subseteq Live
  BY LiveShrinks DEF onboarding, RequestsMove
<1>2. OnboardingGrows /\ SignupRows'
  BY <1>1 DEF OnboardingInv, SignupRows, OnboardingGrows
<1>3. SignupAnswers'
  BY <1>1, <1>2, StandsOn DEF OnboardingInv, SignupAnswers
<1>4. PlanMakerCommits'
  BY <1>1, PlanMakerStays DEF OnboardingInv
<1>5. \A v \in Worker : OnboardingFits(v)'
  BY <1>2, OthersRest, OnboardingFitsOn DEF OnboardingInv
<1> QED
  BY <1>2, <1>3, <1>4, <1>5 DEF OnboardingInv

\* The worker answers `what`, having begun at `before`.
LEMMA SignupAnswersSo ==
    ASSUME RequestsInv, OnboardingInv, NEW w \in Worker, pc[w] # "idle", job[w].op = "SIGN_UP",
           NEW what \in SignupAnswer, NEW before, Says(w, what, before),
           before = Unread \/ before.done \subseteq Signup,
           SignupRows', OnboardingGrows, freePlan' = freePlan,
           subscribed' = IF what = "CREATED" THEN subscribed \cup {job[w]} ELSE subscribed,
           what = "CONFLICT" => \E q \in subscribed' : Collide(q, job[w]),
           what = "ERROR" =>
              \/ \E q \in subscribed' \ before.done : Collide(q, job[w])
              \/ freePlan # NoSignup /\ freePlan \notin {before.plan, job[w]}
    PROVE  OnboardingInv'
<1>1. Answer(w) /\ Handled(w)
  BY AnswerHandles DEF Says
<1>2. PICK a : a = [of |-> job[w], says |-> what, after |-> before]
  OBVIOUS
<1>3. a.of = job[w] /\ a.says = what /\ a.after = before /\ answered' = answered \cup {a}
  BY <1>2 DEF Says
<1>4. Live' \subseteq Live \ {job[w]}
  BY <1>1, AnsweredIsGone
<1>5. job[w] \in Request /\ job[w] \in Live /\ job[w] \in Signup
  BY SignupJob
<1>6. job[w] \notin subscribed
  BY <1>5 DEF OnboardingInv, SignupAnswers, Stands
<1>7. Stands(a)'
  BY <1>3, <1>4, <1>5, <1>6 DEF Stands
<1>8. \A b \in answered : Stands(b)'
  <2>1. Live' \subseteq Live /\ subscribed' \subseteq subscribed \cup Live
    BY <1>4, <1>5
  <2> QED
    BY <2>1, StandsOn DEF OnboardingInv, SignupAnswers
<1>9. SignupAnswers'
  <2>1. \A r \in subscribed' : \E b \in answered' : b.of = r
    BY <1>3 DEF OnboardingInv, SignupAnswers
  <2> QED
    BY <1>3, <1>7, <1>8, <2>1 DEF SignupAnswers
<1>10. PlanMakerCommits'
  BY <1>1, PlanMakerStays DEF OnboardingInv
<1>11. ASSUME NEW v \in Worker
       PROVE  OnboardingFits(v)'
  <2>1. CASE v = w
    <3>1. pc'[w] = "idle"
      BY <1>1, WhatIsAnswered
    <3> QED
      BY <2>1, <3>1 DEF OnboardingFits
  <2>2. CASE v # w
    BY <1>1, <2>2, OthersRest, OnboardingFitsOn DEF OnboardingInv
  <2> QED
    BY <2>1, <2>2
<1> QED
  BY <1>9, <1>10, <1>11 DEF OnboardingInv

LEMMA SignupRowsStay ==
    ASSUME SignupRows, UNCHANGED <<tenantOf, subscribed, staffed, userOf, freePlan>>
    PROVE  SignupRows' /\ OnboardingGrows
BY DEF SignupRows, OnboardingGrows

LEMMA SubscribedAreSucceeded == SignupRows => Succeeded = subscribed
<1> SUFFICES ASSUME SignupRows PROVE Succeeded = subscribed
  OBVIOUS
<1>1. Succeeded \subseteq subscribed
  BY DEF SignupRows, Succeeded
<1>2. ASSUME NEW r \in subscribed
      PROVE  r \in Succeeded
  <2>1. r \in Request /\ r \in Signup /\ tenantOf[r.subdomain] = r
    BY DEF SignupRows
  <2>2. r.subdomain \in Subdomain /\ r # NoSignup
    BY <2>1, OnboardingAssumption DEF Signup
  <2> QED
    BY <2>1, <2>2 DEF Succeeded
<1> QED
  BY <1>1, <1>2

LEMMA ChecksSubdomain ==
    ASSUME RequestsInv, OnboardingInv, NEW w \in Worker, CheckSubdomain(w)
    PROVE  OnboardingInv'
<1>1. /\ pc[w] = "read" /\ job[w].op = "SIGN_UP" /\ SignupRows /\ Succeeded = subscribed
      /\ UNCHANGED <<tenantOf, subscribed, staffed, userOf, freePlan>>
  BY SubscribedAreSucceeded DEF CheckSubdomain, At, OnboardingInv
<1>2. job[w].subdomain \in Subdomain
  BY <1>1, SignupJob
<1>3. SignupRows' /\ OnboardingGrows
  BY <1>1, SignupRowsStay
<1>4. PICK now : now = Now
  OBVIOUS
<1>5. now.done = subscribed /\ now.plan = freePlan
  BY <1>1, <1>4 DEF Now
<1>6. CASE tenantOf[job[w].subdomain] = NoSignup /\ See(w, now, "check") /\ UNCHANGED answered
  <2>1. pc'[w] = "check" /\ job'[w] = job[w] /\ saw'[w] = now /\ Handled(w)
    BY <1>1, <1>6, WhatIsSeen, SeeHandles, StepNames
  <2>2. \A q \in subscribed : q.subdomain # job[w].subdomain
    <3> SUFFICES ASSUME NEW q \in subscribed, q.subdomain = job[w].subdomain
                 PROVE  FALSE
      OBVIOUS
    <3>1. tenantOf[q.subdomain] = q /\ q \in Request
      BY <1>1 DEF SignupRows
    <3> QED
      BY <1>6, <3>1, OnboardingAssumption
  <2>3. OnboardingFits(w)'
    BY <1>1, <1>5, <2>1, <2>2 DEF OnboardingFits
  <2>4. UNCHANGED onboarding
    BY <1>1, <1>6 DEF onboarding
  <2> QED
    BY <1>1, <2>1, <2>3, <2>4, SignupGoesOn
<1>7. CASE tenantOf[job[w].subdomain] # NoSignup /\ Says(w, "CONFLICT", now)
  <2>1. \E q \in subscribed : Collide(q, job[w])
    BY <1>1, <1>2, <1>7 DEF SignupRows, Collide
  <2>2. now.done \subseteq Signup /\ "CONFLICT" \in SignupAnswer
    BY <1>1, <1>5 DEF SignupRows, SignupAnswer
  <2> QED
    BY <1>1, <1>3, <1>7, <2>1, <2>2, SignupAnswersSo
<1> QED
  BY <1>4, <1>6, <1>7 DEF CheckSubdomain

LEMMA SignupGoesTo ==
    ASSUME RequestsInv, OnboardingInv, NEW w \in Worker, pc[w] \in {"check", "ask"}, job[w].op = "SIGN_UP",
           NEW p \in {"ask", "write", "commit"}, Goto(w, p), UNCHANGED onboarding,
           p # "ask" => pc[w] = "ask",
           p = "ask" => userOf[job[w].email] = NoSignup,
           p = "write" => freePlan = NoSignup,
           p = "commit" => freePlan # NoSignup
    PROVE  OnboardingInv'
<1>1. pc'[w] = p /\ job'[w] = job[w] /\ saw'[w] = saw[w] /\ Handled(w)
  BY WhatGoesOn, GotoHandles, StepNames
<1>2. freePlan' = freePlan /\ subscribed' = subscribed
  BY DEF onboarding
<1>3. OnboardingFits(w) /\ SignupRows
  BY DEF OnboardingInv
<1>4. \A q \in saw[w].done : q.email # job[w].email
  <2>1. CASE pc[w] = "ask"
    BY <1>3, <2>1 DEF OnboardingFits
  <2>2. CASE userOf[job[w].email] = NoSignup
    <3> SUFFICES ASSUME NEW q \in saw[w].done, q.email = job[w].email
                 PROVE  FALSE
      OBVIOUS
    <3>1. q \in subscribed
      BY <1>3 DEF OnboardingFits
    <3>2. userOf[q.email] = q /\ q \in Request
      BY <1>3, <3>1 DEF SignupRows
    <3> QED
      BY <2>2, <3>2, OnboardingAssumption
  <2> QED
    BY <2>1, <2>2
<1>5. OnboardingFits(w)'
  BY <1>1, <1>2, <1>3, <1>4 DEF OnboardingFits
<1> QED
  BY <1>1, <1>5, SignupGoesOn

LEMMA ChecksEmail ==
    ASSUME RequestsInv, OnboardingInv, NEW w \in Worker, CheckEmail(w)
    PROVE  OnboardingInv'
<1>1. /\ pc[w] = "check" /\ job[w].op = "SIGN_UP" /\ SignupRows /\ OnboardingFits(w)
      /\ UNCHANGED <<tenantOf, subscribed, staffed, userOf, freePlan>>
  BY DEF CheckEmail, At, OnboardingInv
<1>2. SignupRows' /\ OnboardingGrows
  BY <1>1, SignupRowsStay
<1>3. CASE userOf[job[w].email] = NoSignup /\ Goto(w, "ask") /\ UNCHANGED answered
  <2>1. UNCHANGED onboarding
    BY <1>1, <1>3 DEF onboarding
  <2> QED
    BY <1>1, <1>3, <2>1, SignupGoesTo
<1>4. CASE userOf[job[w].email] # NoSignup /\ Says(w, "CONFLICT", saw[w])
  <2>1. \E q \in subscribed : Collide(q, job[w])
    BY <1>1, <1>4, SignupJob DEF SignupRows, Collide
  <2>2. saw[w].done \subseteq Signup /\ "CONFLICT" \in SignupAnswer
    BY <1>1 DEF SignupRows, SignupAnswer, OnboardingFits
  <2> QED
    BY <1>1, <1>2, <1>4, <2>1, <2>2, SignupAnswersSo
<1> QED
  BY <1>3, <1>4 DEF CheckEmail

LEMMA FindsFreePlan ==
    ASSUME RequestsInv, OnboardingInv, NEW w \in Worker, FindFreePlan(w)
    PROVE  OnboardingInv'
<1>1. CASE freePlan = NoSignup
  BY <1>1, SignupGoesTo DEF FindFreePlan, At
<1>2. CASE freePlan # NoSignup
  BY <1>2, SignupGoesTo DEF FindFreePlan, At
<1> QED
  BY <1>1, <1>2

LEMMA CreatesFreePlan ==
    ASSUME RequestsInv, OnboardingInv, NEW w \in Worker, CreateFreePlan(w)
    PROVE  OnboardingInv'
<1>1. /\ pc[w] = "write" /\ job[w].op = "SIGN_UP" /\ SignupRows /\ OnboardingFits(w)
      /\ UNCHANGED <<tenantOf, subscribed, staffed, userOf>>
  BY DEF CreateFreePlan, At, OnboardingInv
<1>2. job[w] \in Request /\ job[w] \in Live /\ job[w] \in Signup /\ job[w] # NoSignup
  BY <1>1, SignupJob
<1>3. CASE freePlan = NoSignup /\ freePlan' = job[w] /\ Goto(w, "commit") /\ UNCHANGED answered
  <2>1. pc'[w] = "commit" /\ job'[w] = job[w] /\ saw'[w] = saw[w] /\ Handled(w)
    BY <1>1, <1>3, WhatGoesOn, GotoHandles, StepNames
  <2>2. SignupRows' /\ OnboardingGrows
    BY <1>1, <1>2, <1>3 DEF SignupRows, OnboardingGrows
  <2>3. Live' \subseteq Live
    BY <2>1, LiveShrinks DEF RequestsMove
  <2>4. SignupAnswers'
    BY <1>1, <1>3, <2>2, <2>3, StandsOn DEF OnboardingInv, SignupAnswers
  <2>5. PlanMakerCommits'
    BY <1>3, <2>1 DEF PlanMakerCommits
  <2>6. OnboardingFits(w)'
    BY <1>1, <1>2, <1>3, <2>1 DEF OnboardingFits
  <2>7. \A v \in Worker : OnboardingFits(v)'
    BY <2>1, <2>2, <2>6, OthersRest, OnboardingFitsOn DEF OnboardingInv
  <2> QED
    BY <2>2, <2>4, <2>5, <2>7 DEF OnboardingInv
<1>4. CASE freePlan # NoSignup /\ Says(w, "ERROR", saw[w]) /\ UNCHANGED freePlan
  <2>1. SignupRows' /\ OnboardingGrows
    BY <1>1, <1>4, SignupRowsStay
  <2>2. freePlan # job[w]
    BY <1>1, <1>2 DEF OnboardingInv, PlanMakerCommits, RequestsInv
  <2>3. freePlan \notin {saw[w].plan, job[w]}
    BY <1>1, <1>4, <2>2 DEF OnboardingFits
  <2>4. saw[w].done \subseteq Signup /\ "ERROR" \in SignupAnswer
    BY <1>1 DEF SignupRows, SignupAnswer, OnboardingFits
  <2> QED
    BY <1>1, <1>4, <2>1, <2>3, <2>4, SignupAnswersSo
<1> QED
  BY <1>3, <1>4 DEF CreateFreePlan

\* The transaction: the rows are there together.
LEMMA CreatesTenant ==
    ASSUME RequestsInv, OnboardingInv, NEW w \in Worker, CreateTenant(w)
    PROVE  OnboardingInv'
<1>1. /\ pc[w] = "commit" /\ job[w].op = "SIGN_UP" /\ SignupRows /\ OnboardingFits(w)
      /\ freePlan # NoSignup /\ UNCHANGED freePlan
  BY DEF CreateTenant, At, OnboardingInv, OnboardingFits
<1>2. PICK r : r = job[w]
  OBVIOUS
<1>3. r \in Request /\ r \in Signup /\ r # NoSignup /\ r.subdomain \in Subdomain /\ r.email \in Email
  BY <1>1, <1>2, SignupJob
<1>4. saw[w].done \subseteq Signup /\ {"CREATED", "ERROR"} \subseteq SignupAnswer
  BY <1>1 DEF SignupRows, SignupAnswer, OnboardingFits
<1>5. CASE Unique(r)
  <2>1. /\ tenantOf' = [tenantOf EXCEPT ![r.subdomain] = r] /\ userOf' = [userOf EXCEPT ![r.email] = r]
        /\ subscribed' = subscribed \cup {r} /\ staffed' = staffed \cup {r}
        /\ Says(w, "CREATED", saw[w])
    BY <1>2, <1>5 DEF CreateTenant
  <2>2. /\ tenantOf'[r.subdomain] = r /\ userOf'[r.email] = r
        /\ \A s \in Subdomain : s # r.subdomain => tenantOf'[s] = tenantOf[s]
        /\ \A e \in Email : e # r.email => userOf'[e] = userOf[e]
        /\ tenantOf' \in [Subdomain -> Signup \cup {NoSignup}] /\ userOf' \in [Email -> Signup \cup {NoSignup}]
    BY <1>1, <1>3, <2>1 DEF SignupRows
  <2>3. \A q \in subscribed : q.subdomain # r.subdomain /\ q.email # r.email
    <3> SUFFICES ASSUME NEW q \in subscribed, q.subdomain = r.subdomain \/ q.email = r.email
                 PROVE  FALSE
      OBVIOUS
    <3>1. tenantOf[q.subdomain] = q /\ userOf[q.email] = q /\ q # NoSignup
      BY <1>1, OnboardingAssumption DEF SignupRows
    <3> QED
      BY <1>5, <3>1 DEF Unique
  <2>4. \A q \in subscribed : q.subdomain \in Subdomain /\ q.email \in Email
    BY <1>1 DEF SignupRows, Signup
  <2>5. SignupRows'
    <3>1. \A s \in Subdomain : tenantOf'[s] # NoSignup => tenantOf'[s] \in subscribed' /\ tenantOf'[s].subdomain = s
      BY <1>1, <2>1, <2>2 DEF SignupRows
    <3>2. \A e \in Email : userOf'[e] # NoSignup => userOf'[e] \in subscribed' /\ userOf'[e].email = e
      BY <1>1, <2>1, <2>2 DEF SignupRows
    <3>3. \A q \in subscribed' : tenantOf'[q.subdomain] = q /\ userOf'[q.email] = q
      BY <1>1, <2>1, <2>2, <2>3, <2>4 DEF SignupRows
    <3> QED
      BY <1>1, <1>3, <2>1, <2>2, <3>1, <3>2, <3>3 DEF SignupRows
  <2>6. OnboardingGrows
    BY <1>1, <2>1 DEF OnboardingGrows
  <2> QED
    BY <1>1, <1>2, <1>4, <2>1, <2>5, <2>6, SignupAnswersSo
<1>6. CASE ~ Unique(r)
  <2>1. Says(w, "ERROR", saw[w]) /\ UNCHANGED <<tenantOf, subscribed, staffed, userOf, freePlan>>
    BY <1>1, <1>2, <1>6 DEF CreateTenant
  <2>2. SignupRows' /\ OnboardingGrows
    BY <1>1, <2>1, SignupRowsStay
  <2>3. \E q \in subscribed \ saw[w].done : Collide(q, r)
    <3>1. CASE tenantOf[r.subdomain] # NoSignup
      BY <1>1, <1>2, <1>3, <3>1 DEF SignupRows, OnboardingFits, Collide
    <3>2. CASE userOf[r.email] # NoSignup
      BY <1>1, <1>2, <1>3, <3>2 DEF SignupRows, OnboardingFits, Collide
    <3> QED
      BY <1>6, <3>1, <3>2 DEF Unique
  <2> QED
    BY <1>1, <1>2, <1>4, <2>1, <2>2, <2>3, SignupAnswersSo
<1> QED
  BY <1>5, <1>6

LEMMA OnboardingKeeps ==
    ASSUME RequestsInv, OnboardingInv, NEW w \in Worker, OnboardingStep(w)
    PROVE  OnboardingInv'
<1>1. CASE SignupFails(w)
  <2>1. /\ pc[w] # "idle" /\ job[w].op = "SIGN_UP" /\ SignupRows /\ OnboardingFits(w)
        /\ UNCHANGED <<tenantOf, subscribed, staffed, userOf, freePlan>> /\ Says(w, "FAILED", saw[w])
    BY <1>1 DEF SignupFails, OnboardingInv
  <2>2. saw[w] = Unread \/ saw[w].done \subseteq Signup
    BY <2>1 DEF RequestsInv, RequestsTypeOK, OnboardingFits, SignupRows
  <2>3. SignupRows' /\ OnboardingGrows /\ "FAILED" \in SignupAnswer
    BY <2>1, SignupRowsStay DEF SignupAnswer
  <2> QED
    BY <2>1, <2>2, <2>3, SignupAnswersSo
<1> QED
  BY <1>1, ChecksSubdomain, ChecksEmail, FindsFreePlan, CreatesFreePlan, CreatesTenant DEF OnboardingStep

LEMMA OnboardingStart == OnboardingInit /\ RequestsInit => OnboardingInv
<1> SUFFICES ASSUME OnboardingInit, RequestsInit PROVE OnboardingInv
  OBVIOUS
<1>1. freePlan \notin Live
  BY OnboardingAssumption DEF Live, OnboardingInit
<1> QED
  BY <1>1 DEF OnboardingInit, RequestsInit, OnboardingInv, SignupRows, SignupAnswers, PlanMakerCommits,
              OnboardingFits

LEMMA OnboardingHolds == FrontOfficeSpec => []OnboardingInv
<1>1. FrontOfficeInit => OnboardingInv
  BY OnboardingStart DEF FrontOfficeInit
<1>2. RequestsInv /\ OnboardingInv /\ [FrontOfficeNext]_<<requests, front>> => OnboardingInv'
  <2>1. ASSUME RequestsInv, OnboardingInv, FrontOfficeNext PROVE OnboardingInv'
    BY <2>1, FrontOfficeMoves, OnboardingAtRest, OnboardingKeeps
  <2>2. ASSUME RequestsInv, OnboardingInv, UNCHANGED <<requests, front>> PROVE OnboardingInv'
    BY <2>2, FrontOfficeStutters, OnboardingAtRest
  <2> QED
    BY <2>1, <2>2
<1> QED
  BY <1>1, <1>2, RequestsHold, PTL DEF FrontOfficeSpec

LEMMA WholeSignups == OnboardingInv => OnboardingTypeOK /\ SignupsAreWhole
<1> SUFFICES ASSUME OnboardingInv PROVE OnboardingTypeOK /\ SignupsAreWhole
  OBVIOUS
<1>1. SignupRows /\ SignupAnswers /\ Succeeded = subscribed
  BY SubscribedAreSucceeded DEF OnboardingInv
<1>2. OnboardingTypeOK
  BY <1>1 DEF OnboardingTypeOK, SignupRows, SignupAnswers, Stands
<1>3. ASSUME NEW a \in answered
      PROVE  {a.says = "CREATED"}
             = {tenantOf[a.of.subdomain] = a.of, userOf[a.of.email] = a.of, a.of \in subscribed, a.of \in staffed}
  <2>1. Stands(a)
    BY <1>1 DEF SignupAnswers
  <2>2. CASE a.says = "CREATED"
    <3>1. a.of \in subscribed /\ a.of \in staffed /\ tenantOf[a.of.subdomain] = a.of /\ userOf[a.of.email] = a.of
      BY <1>1, <2>1, <2>2 DEF Stands, SignupRows
    <3> QED
      BY <2>2, <3>1
  <2>3. CASE a.says # "CREATED"
    <3>1. a.of \notin subscribed /\ a.of \notin staffed /\ a.of # NoSignup
      BY <1>1, <2>1, <2>3, OnboardingAssumption DEF Stands, SignupRows
    <3>2. a.of.subdomain \in Subdomain /\ a.of.email \in Email
      BY <2>1 DEF Stands, Signup
    <3>3. tenantOf[a.of.subdomain] # a.of /\ userOf[a.of.email] # a.of
      BY <1>1, <3>1, <3>2 DEF SignupRows
    <3> QED
      BY <2>3, <3>1, <3>3
  <2> QED
    BY <2>2, <2>3
<1>4. subscribed \cup staffed \cup Succeeded \subseteq {a.of : a \in answered}
  BY <1>1 DEF SignupRows, SignupAnswers
<1>5. \A a \in answered :
         /\ a.says = "CONFLICT" => \E q \in Succeeded : Collide(q, a.of)
         /\ a.says = "ERROR" =>
               \/ \E q \in Succeeded \ a.after.done : Collide(q, a.of)
               \/ freePlan \notin {a.after.plan, a.of}
  BY <1>1 DEF SignupAnswers, Stands
<1> QED
  BY <1>1, <1>2, <1>3, <1>4, <1>5 DEF SignupRows, SignupsAreWhole

-----------------------------------------------------------------------------
(***************************************************************************)
(* Reports: sums over the lines of the entries a report is about, taken    *)
(* apart by entry, by account and by type of account.                      *)
(***************************************************************************)
NetOf(es) == [l \in LinesOf(es) |-> LineAt(es, l).debit - LineAt(es, l).credit]
Entries(es) == IsFiniteSet(DOMAIN es) /\ \A i \in DOMAIN es : es[i] \in JournalEntry

LEMMA SumIs == \A amount, ls : Sum(amount, ls) = SumOn(amount, ls)
BY DEF Sum, SumOn

LEMMA NetIs == \A es, ls : Net(es, ls) = SumOn(NetOf(es), ls)
BY SumIs DEF Net, NetOf

\* Lines are finitely many, each with its account and two amounts.
LEMMA LinesAre ==
    ASSUME NEW es, Entries(es)
    PROVE  /\ IsFiniteSet(LinesOf(es))
           /\ \A l \in LinesOf(es) :
                 /\ l[1] \in DOMAIN es /\ l \in LinesAt(es, l[1]) /\ LineAt(es, l) \in Line
                 /\ LineAt(es, l).account \in Account /\ LineAt(es, l).debit \in Int /\ LineAt(es, l).credit \in Int
                 /\ NetOf(es)[l] \in Int
           /\ \A i \in DOMAIN es : LinesAt(es, i) = {l \in LinesOf(es) : l[1] = i}
<1>1. \A i \in DOMAIN es : es[i].lines \in Seq(Line)
  BY DEF Entries, JournalEntry
<1>2. ASSUME NEW i \in DOMAIN es
      PROVE  IsFiniteSet(LinesAt(es, i))
  <2>1. Len(es[i].lines) \in Nat /\ DOMAIN es[i].lines = 1..Len(es[i].lines)
    BY <1>1
  <2>2. IsFiniteSet(1..Len(es[i].lines))
    <3>1. 1 \in Int /\ Len(es[i].lines) \in Int
      BY <2>1
    <3> QED
      BY <3>1, FS_Interval
  <2>3. IsFiniteSet({i})
    BY FS_Singleton
  <2> QED
    BY <2>1, <2>2, <2>3, FS_Product DEF LinesAt
<1>3. IsFiniteSet(LinesOf(es))
  <2> DEFINE Some(s) == UNION {LinesAt(es, i) : i \in s}
             P == {s \in SUBSET DOMAIN es : IsFiniteSet(Some(s))}
  <2>1. {} \in P
    <3>1. Some({}) = {}
      OBVIOUS
    <3> HIDE DEF Some
    <3> QED
      BY <3>1, FS_EmptySet
  <2>2. ASSUME NEW s \in SUBSET DOMAIN es, s # {}, s \ {Pick(s)} \in P
        PROVE  s \in P
    <3> DEFINE p == Pick(s)
               r == s \ {p}
    <3>1. p \in s /\ p \in DOMAIN es
      BY <2>2 DEF Pick
    <3>2. Some(s) = LinesAt(es, p) \cup Some(r)
      <4> HIDE DEF p
      <4> QED
        BY <3>1
    <3>3. IsFiniteSet(Some(r)) /\ IsFiniteSet(LinesAt(es, p))
      BY <1>2, <2>2, <3>1
    <3> HIDE DEF Some
    <3>4. IsFiniteSet(Some(s))
      BY <3>2, <3>3, FS_Union
    <3> QED
      BY <3>4
  <2>3. SUBSET DOMAIN es \subseteq P
    <3>1. IsFiniteSet(DOMAIN es)
      BY DEF Entries
    <3> HIDE DEF P
    <3> QED
      BY <2>1, <2>2, <3>1, TakeOut
  <2> QED
    BY <2>3 DEF LinesOf
<1>4. ASSUME NEW l \in LinesOf(es)
      PROVE  l[1] \in DOMAIN es /\ l \in LinesAt(es, l[1]) /\ LineAt(es, l) \in Line
  <2>1. PICK i \in DOMAIN es : l \in LinesAt(es, i)
    BY DEF LinesOf
  <2>2. l[1] = i /\ l[2] \in DOMAIN es[i].lines
    BY <2>1 DEF LinesAt
  <2> QED
    BY <1>1, <2>1, <2>2 DEF LineAt
<1>5. \A l \in LinesOf(es) : LineAt(es, l).account \in Account /\ LineAt(es, l).debit \in Int /\ LineAt(es, l).credit \in Int
  BY <1>4 DEF Line
<1>6. \A l \in LinesOf(es) : NetOf(es)[l] \in Int
  BY <1>5 DEF NetOf
<1>7. \A i \in DOMAIN es : LinesAt(es, i) = {l \in LinesOf(es) : l[1] = i}
  BY DEF LinesOf, LinesAt
<1> QED
  BY <1>3, <1>4, <1>5, <1>6, <1>7

\* The sums over lines are numbers.
LEMMA NetIsInt ==
    ASSUME NEW es, Entries(es), NEW ls \in SUBSET LinesOf(es)
    PROVE  IsFiniteSet(ls) /\ Net(es, ls) \in Int
<1>1. IsFiniteSet(ls) /\ \A l \in ls : NetOf(es)[l] \in Int
  BY LinesAre, FS_Subset
<1> QED
  BY <1>1, NetIs, SumIsInt

\* Lines that share none.
LEMMA NetOfUnion ==
    ASSUME NEW es, Entries(es), NEW ls \in SUBSET LinesOf(es), NEW ks \in SUBSET LinesOf(es), ls \cap ks = {}
    PROVE  Net(es, ls \cup ks) = Net(es, ls) + Net(es, ks)
<1>1. IsFiniteSet(ls) /\ IsFiniteSet(ks)
  BY NetIsInt
<1>2. \A l \in ls \cup ks : NetOf(es)[l] \in Int
  BY LinesAre
<1>3. SumOn(NetOf(es), ls \cup ks) = SumOn(NetOf(es), ls) + SumOn(NetOf(es), ks)
  BY <1>1, <1>2, SumOfUnion
<1> QED
  BY <1>3, NetIs

\* When the entries balance, so do all their lines.
LEMMA BalancedInAll ==
    ASSUME NEW es, Entries(es), Balanced(es)
    PROVE  Net(es, LinesOf(es)) = 0
<1> DEFINE L == LinesOf(es)
           A == DOMAIN es
           v == NetOf(es)
           part == [l \in L |-> l[1]]
           Share == [i \in A |-> LinesAt(es, i)]
           of == [i \in A |-> SumOn(v, Share[i])]
<1>1. IsFiniteSet(L) /\ IsFiniteSet(A) /\ \A l \in L : v[l] \in Int /\ part[l] \in A
  BY LinesAre DEF Entries
<1>2. \A i \in A : of[i] = 0
  <2> SUFFICES ASSUME NEW i \in A
               PROVE  of[i] = 0
    OBVIOUS
  <2> HIDE DEF v
  <2>2. of[i] = SumOn(v, LinesAt(es, i))
    OBVIOUS
  <2> QED
    BY <2>2, NetIs DEF Balanced, v
<1>3. SumOn(of, A) = SumOn(v, L)
  <2>1. \A i \in A : of[i] = SumOn(v, Share[i])
    OBVIOUS
  <2>2. \A i \in A : Share[i] \subseteq L /\ \A l \in L : l \in Share[i] <=> part[l] = i
    BY LinesAre
  <2> HIDE DEF L, A, v, part, of, Share
  <2> QED
    <3>1. IsFiniteSet(L) /\ IsFiniteSet(A)
      BY <1>1
    <3>2. \A l \in L : v[l] \in Int
      BY <1>1
    <3>3. \A l \in L : part[l] \in A
      BY <1>1
    <3> QED
      BY <2>1, <2>2, <3>1, <3>2, <3>3, SumOfParts
<1>4. SumOn(of, A) = 0
  <2>1. \A i \in A : of[i] \in Int
    BY <1>2
  <2>2. \A i \in A \ {} : of[i] = 0
    BY <1>2
  <2>3. {} \in SUBSET A
    OBVIOUS
  <2> HIDE DEF L, A, v, part, of
  <2>4. SumOn(of, A) = SumOn(of, {})
    BY <1>1, <2>1, <2>2, <2>3, SumOfZeros
  <2> QED
    BY <2>4, SumOfNone
<1> QED
  BY <1>3, <1>4, NetIs

LEMMA ChartOfAccounts ==
    /\ IsFiniteSet(Account)
    /\ "goodsSold" \in Account /\ AccountType["goodsSold"] = "EXPENSE"
    /\ \A a \in Account : AccountType[a] \in {"ASSET", "LIABILITY", "EQUITY", "REVENUE", "EXPENSE"}
<1>1. Account = {"cash"} \cup {"bank"} \cup {"receivable"} \cup {"payable"} \cup {"capital"} \cup {"sales"}
                \cup {"goodsSold"} \cup {"salaries"}
  BY DEF Account, AccountType
<1>2. \A x : IsFiniteSet({x})
  BY FS_Singleton
<1>3. IsFiniteSet(Account)
  BY <1>1, <1>2, FS_Union
<1> QED
  BY <1>1, <1>3 DEF AccountType

LEMMA TypedLines ==
    ASSUME NEW es, Entries(es)
    PROVE  /\ \A types : Typed(es, types) \in SUBSET LinesOf(es)
           /\ LinesOf(es) = Typed(es, {"ASSET", "LIABILITY", "EQUITY"}) \cup Typed(es, {"REVENUE", "EXPENSE"})
           /\ Typed(es, {"ASSET", "LIABILITY", "EQUITY"}) \cap Typed(es, {"REVENUE", "EXPENSE"}) = {}
           /\ Typed(es, {"REVENUE", "EXPENSE"}) = Typed(es, {"REVENUE"}) \cup Typed(es, {"EXPENSE"})
           /\ Typed(es, {"REVENUE"}) \cap Typed(es, {"EXPENSE"}) = {}
           /\ Typed(es, {"ASSET", "LIABILITY", "EQUITY"}) = Typed(es, {"ASSET"}) \cup Typed(es, {"LIABILITY", "EQUITY"})
           /\ Typed(es, {"ASSET"}) \cap Typed(es, {"LIABILITY", "EQUITY"}) = {}
           /\ Typed(es, {"LIABILITY", "EQUITY"}) = Typed(es, {"LIABILITY"}) \cup Typed(es, {"EQUITY"})
           /\ Typed(es, {"LIABILITY"}) \cap Typed(es, {"EQUITY"}) = {}
<1>1. \A l \in LinesOf(es) :
         AccountType[LineAt(es, l).account] \in {"ASSET", "LIABILITY", "EQUITY", "REVENUE", "EXPENSE"}
  BY LinesAre, ChartOfAccounts
<1> QED
  BY <1>1 DEF Typed

\* What the lines of accounts of some types come to, type by type.
LEMMA NetByType ==
    ASSUME NEW es, Entries(es)
    PROVE  LET net(types) == Net(es, Typed(es, types)) IN
           /\ \A types : net(types) \in Int
           /\ Net(es, LinesOf(es)) = net({"ASSET", "LIABILITY", "EQUITY"}) + net({"REVENUE", "EXPENSE"})
           /\ net({"REVENUE", "EXPENSE"}) = net({"REVENUE"}) + net({"EXPENSE"})
           /\ net({"ASSET", "LIABILITY", "EQUITY"}) = net({"ASSET"}) + net({"LIABILITY", "EQUITY"})
           /\ net({"LIABILITY", "EQUITY"}) = net({"LIABILITY"}) + net({"EQUITY"})
<1> DEFINE all == Typed(es, {"ASSET", "LIABILITY", "EQUITY"})
           flow == Typed(es, {"REVENUE", "EXPENSE"})
           in == Typed(es, {"REVENUE"})
           out == Typed(es, {"EXPENSE"})
           own == Typed(es, {"ASSET"})
           owed == Typed(es, {"LIABILITY", "EQUITY"})
           others == Typed(es, {"LIABILITY"})
           equity == Typed(es, {"EQUITY"})
<1>1. \A types : Net(es, Typed(es, types)) \in Int
  BY TypedLines, NetIsInt
<1>2. /\ LinesOf(es) = all \cup flow /\ all \cap flow = {} /\ flow = in \cup out /\ in \cap out = {}
      /\ all = own \cup owed /\ own \cap owed = {} /\ owed = others \cup equity /\ others \cap equity = {}
      /\ all \in SUBSET LinesOf(es) /\ flow \in SUBSET LinesOf(es) /\ in \in SUBSET LinesOf(es)
      /\ out \in SUBSET LinesOf(es) /\ own \in SUBSET LinesOf(es) /\ owed \in SUBSET LinesOf(es)
      /\ others \in SUBSET LinesOf(es) /\ equity \in SUBSET LinesOf(es)
  BY TypedLines
<1>3. /\ Net(es, LinesOf(es)) = Net(es, all) + Net(es, flow) /\ Net(es, flow) = Net(es, in) + Net(es, out)
      /\ Net(es, all) = Net(es, own) + Net(es, owed) /\ Net(es, owed) = Net(es, others) + Net(es, equity)
  <2> HIDE DEF all, flow, in, out, own, owed, others, equity
  <2> QED
    BY <1>2, NetOfUnion
<1> QED
  BY <1>1, <1>3

LEMMA TrialBalanceAgrees ==
    ASSUME NEW es, Entries(es)
    PROVE  /\ TrialBalance(es) \in Figures["TRIAL_BALANCE"]
           /\ Balanced(es) => Sum(TrialBalance(es).debits, Account) = Sum(TrialBalance(es).credits, Account)
<1> DEFINE L == LinesOf(es)
           part == [l \in L |-> LineAt(es, l).account]
           On == [a \in Account |-> {l \in L : LineAt(es, l).account = a}]
           debit == [l \in L |-> LineAt(es, l).debit]
           credit == [l \in L |-> LineAt(es, l).credit]
           debits == [a \in Account |-> SumOn(debit, On[a])]
           credits == [a \in Account |-> SumOn(credit, On[a])]
<1>1. TrialBalance(es) = [debits |-> debits, credits |-> credits]
  BY SumIs DEF TrialBalance
<1>2. IsFiniteSet(L) /\ \A l \in L : debit[l] \in Int /\ credit[l] \in Int /\ part[l] \in Account
  BY LinesAre
<1>3. \A a \in Account : On[a] \subseteq L /\ \A l \in L : l \in On[a] <=> part[l] = a
  OBVIOUS
<1>4. \A a \in Account : debits[a] = SumOn(debit, On[a]) /\ credits[a] = SumOn(credit, On[a])
  OBVIOUS
<1>5. \A l \in L : NetOf(es)[l] = debit[l] - credit[l]
  BY DEF NetOf
<1>6. DOMAIN debits = Account /\ DOMAIN credits = Account
  OBVIOUS
<1>7. debits = [a \in Account |-> debits[a]] /\ credits = [a \in Account |-> credits[a]]
  OBVIOUS
<1> HIDE DEF L, part, On, debit, credit, debits, credits
<1>8. ASSUME NEW a \in Account
      PROVE  debits[a] \in Int /\ credits[a] \in Int
  <2>1. IsFiniteSet(On[a])
    BY <1>2, <1>3, FS_Subset
  <2>2. \A l \in On[a] : debit[l] \in Int /\ credit[l] \in Int
    BY <1>2, <1>3
  <2> QED
    BY <1>4, <2>1, <2>2, SumIsInt
<1>9. debits \in [Account -> Int] /\ credits \in [Account -> Int]
  BY <1>7, <1>8
<1>10. SumOn(debits, Account) = SumOn(debit, L) /\ SumOn(credits, Account) = SumOn(credit, L)
  <2>1. IsFiniteSet(Account) /\ IsFiniteSet(L)
    BY <1>2, ChartOfAccounts
  <2>2. \A l \in L : debit[l] \in Int
    BY <1>2
  <2>3. \A l \in L : credit[l] \in Int
    BY <1>2
  <2>4. \A l \in L : part[l] \in Account
    BY <1>2
  <2>5. \A a \in Account : debits[a] = SumOn(debit, On[a])
    BY <1>4
  <2>6. \A a \in Account : credits[a] = SumOn(credit, On[a])
    BY <1>4
  <2>7. SumOn(debits, Account) = SumOn(debit, L)
    BY <1>3, <2>1, <2>2, <2>4, <2>5, SumOfParts
  <2>8. SumOn(credits, Account) = SumOn(credit, L)
    BY <1>3, <2>1, <2>3, <2>4, <2>6, SumOfParts
  <2> QED
    BY <2>7, <2>8
<1>11. SumOn(NetOf(es), L) = SumOn(debit, L) - SumOn(credit, L)
  BY <1>2, <1>5, SumOfDifferences
<1>12. SumOn(debit, L) \in Int /\ SumOn(credit, L) \in Int
  BY <1>2, SumIsInt
<1>13. Balanced(es) => SumOn(debit, L) = SumOn(credit, L)
  <2> SUFFICES ASSUME Balanced(es) PROVE SumOn(debit, L) = SumOn(credit, L)
    OBVIOUS
  <2>1. SumOn(NetOf(es), L) = 0
    BY BalancedInAll, NetIs DEF L
  <2> QED
    BY <1>11, <1>12, <2>1
<1>14. TrialBalance(es) \in Figures["TRIAL_BALANCE"]
  BY <1>1, <1>9 DEF Figures
<1>15. TrialBalance(es).debits = debits /\ TrialBalance(es).credits = credits
  BY <1>1
<1> QED
  BY <1>10, <1>13, <1>14, <1>15, SumIs

LEMMA IncomeAgrees ==
    ASSUME NEW es, Entries(es)
    PROVE  /\ IncomeStatement(es) \in Figures["INCOME"]
           /\ Balanced(es) =>
                 IncomeStatement(es).netProfit = Net(es, Typed(es, {"ASSET", "LIABILITY", "EQUITY"}))
<1> DEFINE sold == Net(es, {l \in LinesOf(es) : LineAt(es, l).account = "goodsSold"})
           in == Net(es, Typed(es, {"REVENUE"}))
           out == Net(es, Typed(es, {"EXPENSE"}))
           held == Net(es, Typed(es, {"ASSET", "LIABILITY", "EQUITY"}))
           f == [totalRevenue |-> - in, totalCOGS |-> sold, grossProfit |-> - in - sold,
                 totalExpenses |-> out - sold, netProfit |-> - in - sold - (out - sold)]
<1>1. IncomeStatement(es) = f
  BY DEF IncomeStatement
<1>2. sold \in Int
  <2>1. {l \in LinesOf(es) : LineAt(es, l).account = "goodsSold"} \in SUBSET LinesOf(es)
    OBVIOUS
  <2> QED
    BY <2>1, NetIsInt
<1>3. in \in Int /\ out \in Int /\ held \in Int /\ Net(es, LinesOf(es)) = held + (in + out)
  BY NetByType
<1>4. Balanced(es) => Net(es, LinesOf(es)) = 0
  BY BalancedInAll
<1> HIDE DEF sold, in, out, held
<1>5. f \in Figures["INCOME"]
  BY <1>2, <1>3 DEF Figures
<1>6. Balanced(es) => - in - sold - (out - sold) = held
  BY <1>2, <1>3, <1>4
<1> QED
  BY <1>1, <1>5, <1>6 DEF held

LEMMA BalanceSheetAgrees ==
    ASSUME NEW es, Entries(es)
    PROVE  /\ BalanceSheet(es) \in Figures["BALANCE_SHEET"]
           /\ Balanced(es) =>
                 BalanceSheet(es).totalAssets = BalanceSheet(es).totalLiabilities + BalanceSheet(es).totalEquity
<1> DEFINE flow == Net(es, Typed(es, {"REVENUE", "EXPENSE"}))
           own == Net(es, Typed(es, {"ASSET"}))
           owed == Net(es, Typed(es, {"LIABILITY"}))
           equity == Net(es, Typed(es, {"EQUITY"}))
           f == [totalAssets |-> own, totalLiabilities |-> - owed, totalEquity |-> - flow - equity]
<1>1. BalanceSheet(es) = f
  BY DEF BalanceSheet
<1>2. /\ flow \in Int /\ own \in Int /\ owed \in Int /\ equity \in Int
      /\ Net(es, LinesOf(es)) = (own + (owed + equity)) + flow
  BY NetByType
<1>3. Balanced(es) => Net(es, LinesOf(es)) = 0
  BY BalancedInAll
<1> HIDE DEF flow, own, owed, equity
<1>4. f \in Figures["BALANCE_SHEET"]
  BY <1>2 DEF Figures
<1>5. Balanced(es) => own = - owed + (- flow - equity)
  BY <1>2, <1>3
<1> QED
  BY <1>1, <1>4, <1>5

LEMMA CashFlowAgrees ==
    ASSUME NEW es, Entries(es), NEW as \in [CashLines(es) -> {"sales", "suppliers", "other"}]
    PROVE  /\ CashFlow(es, as) \in Figures["CASH_FLOW"]
           /\ OneSided(es) => CashFlow(es, as).netCashChange = Net(es, CashLines(es))
<1> DEFINE C == CashLines(es)
           amount == [l \in C |-> Moved(LineAt(es, l))]
           S(what) == {l \in C : as[l] = what}
           sales == SumOn(amount, S("sales"))
           suppliers == SumOn(amount, S("suppliers"))
           other == SumOn(amount, S("other"))
           f == [cashFromSales |-> sales, cashPaidToSuppliers |-> suppliers, otherCheck |-> other,
                 netCashChange |-> sales + suppliers + other]
<1>1. DOMAIN as = C
  OBVIOUS
<1>2. CashFlow(es, as) = f
  BY <1>1, SumIs DEF CashFlow
<1>3. C \in SUBSET LinesOf(es) /\ IsFiniteSet(C)
  <2>1. C \in SUBSET LinesOf(es)
    BY DEF CashLines
  <2> QED
    BY <2>1, LinesAre, FS_Subset
<1>4. \A l \in C : LineAt(es, l).debit \in Nat /\ LineAt(es, l).credit \in Nat
  BY <1>3, LinesAre DEF Line
<1>5. \A l \in C : amount[l] \in Int
  BY <1>4 DEF Moved
<1>6. \A what : IsFiniteSet(S(what)) /\ \A l \in S(what) : amount[l] \in Int
  BY <1>3, <1>5, FS_Subset
<1>7. /\ C = (S("sales") \cup S("suppliers")) \cup S("other")
      /\ S("sales") \cap S("suppliers") = {} /\ (S("sales") \cup S("suppliers")) \cap S("other") = {}
  OBVIOUS
<1>8. OneSided(es) => \A l \in C : amount[l] = NetOf(es)[l]
  <2> SUFFICES ASSUME OneSided(es), NEW l \in C
               PROVE  amount[l] = NetOf(es)[l]
    OBVIOUS
  <2>1. LineAt(es, l).debit = 0 \/ LineAt(es, l).credit = 0
    BY <1>3 DEF OneSided
  <2>2. amount[l] = IF LineAt(es, l).debit > 0 THEN LineAt(es, l).debit ELSE - LineAt(es, l).credit
    BY DEF Moved
  <2>3. NetOf(es)[l] = LineAt(es, l).debit - LineAt(es, l).credit
    BY <1>3 DEF NetOf
  <2> QED
    BY <1>4, <2>1, <2>2, <2>3
<1> HIDE DEF C, amount, S
<1>9. sales \in Int /\ suppliers \in Int /\ other \in Int
  BY <1>6, SumIsInt
<1>10. SumOn(amount, C) = sales + suppliers + other
  <2>1. IsFiniteSet(S("sales") \cup S("suppliers"))
    BY <1>6, FS_Union
  <2>2. \A l \in S("sales") \cup S("suppliers") : amount[l] \in Int
    BY <1>6
  <2>3. \A l \in (S("sales") \cup S("suppliers")) \cup S("other") : amount[l] \in Int
    BY <1>6
  <2>4. SumOn(amount, S("sales") \cup S("suppliers")) = sales + suppliers
    BY <1>6, <1>7, <2>2, SumOfUnion
  <2>5. SumOn(amount, (S("sales") \cup S("suppliers")) \cup S("other"))
        = SumOn(amount, S("sales") \cup S("suppliers")) + other
    BY <1>6, <1>7, <2>1, <2>3, SumOfUnion
  <2> QED
    BY <1>7, <2>4, <2>5
<1>11. OneSided(es) => SumOn(amount, C) = Net(es, C)
  <2> SUFFICES ASSUME OneSided(es) PROVE SumOn(amount, C) = Net(es, C)
    OBVIOUS
  <2>1. SumOn(amount, C) = SumOn(NetOf(es), C)
    BY <1>3, <1>8, SumOfSame
  <2> QED
    BY <2>1, NetIs
<1> HIDE DEF sales, suppliers, other
<1>12. f \in Figures["CASH_FLOW"]
  BY <1>9 DEF Figures
<1>13. f.netCashChange = sales + suppliers + other
  OBVIOUS
<1> QED
  BY <1>2, <1>10, <1>11, <1>12, <1>13 DEF C

-----------------------------------------------------------------------------
ReportsInv ==
    /\ journal \in Seq(JournalEntry) /\ report.kind \in ReportKind \cup {"NONE"} /\ Entries(report.about)
    /\ report.kind \in ReportKind => report.figures \in Figures[report.kind]
    /\ ReportsAgree

LEMMA ReportsAtRest ==
    ASSUME ReportsInv, ReportsRest
    PROVE  ReportsInv'
<1>1. journal' = journal /\ report' = report
  BY DEF ReportsRest, reporting
<1> QED
  BY <1>1 DEF ReportsInv, ReportsAgree

LEMMA BooksEntry ==
    ASSUME RequestsInv, ReportsInv, NEW w \in Worker, BookEntry(w)
    PROVE  ReportsInv'
<1>1. PICK ls \in EntryLines : journal' = Append(journal, [day |-> job[w].day, lines |-> ls])
  BY DEF BookEntry
<1>2. PICK e : e = [day |-> job[w].day, lines |-> ls]
  OBVIOUS
<1>3. job[w] \in Request /\ job[w].op = "BOOK"
  BY JobIsRequest DEF BookEntry, At
<1>4. e \in JournalEntry
  BY <1>2, <1>3, ReportsAssumption DEF JournalEntry
<1>5. journal' \in Seq(JournalEntry)
  BY <1>1, <1>2, <1>4 DEF ReportsInv
<1> QED
  BY <1>5 DEF ReportsInv, ReportsAgree, BookEntry

\* The entries in a report's range.
LEMMA RangeIsEntries ==
    ASSUME ReportsInv, NEW w \in Worker
    PROVE  Entries(InRange(w))
<1>1. journal \in Seq(JournalEntry)
  BY DEF ReportsInv
<1>2. Len(journal) \in Nat /\ DOMAIN journal = 1..Len(journal) /\ \A i \in DOMAIN journal : journal[i] \in JournalEntry
  BY <1>1
<1>3. IsFiniteSet(DOMAIN journal)
  <2>1. 1 \in Int /\ Len(journal) \in Int
    BY <1>2
  <2> QED
    BY <1>2, <2>1, FS_Interval
<1>4. DOMAIN InRange(w) \subseteq DOMAIN journal /\ \A i \in DOMAIN InRange(w) : InRange(w)[i] = journal[i]
  BY DEF InRange
<1>5. IsFiniteSet(DOMAIN InRange(w))
  BY <1>3, <1>4, FS_Subset
<1> QED
  BY <1>2, <1>4, <1>5 DEF Entries

LEMMA MakesReport ==
    ASSUME RequestsInv, ReportsInv, NEW w \in Worker, MakeReport(w)
    PROVE  ReportsInv'
<1>1. PICK of : of = InRange(w)
  OBVIOUS
<1>2. Entries(of)
  BY <1>1, RangeIsEntries
<1>3. job[w] \in Request /\ job[w].op = "REPORT" /\ journal' = journal
  BY JobIsRequest DEF MakeReport, At
<1>4. job[w].kind \in ReportKind
  BY <1>3, ReportsAssumption
<1>5. ASSUME NEW kind \in ReportKind, NEW f, Show(kind, of, f), f \in Figures[kind],
             kind = "TRIAL_BALANCE" /\ Balanced(of) => Sum(f.debits, Account) = Sum(f.credits, Account),
             kind = "INCOME" /\ Balanced(of) => f.netProfit = Net(of, Typed(of, {"ASSET", "LIABILITY", "EQUITY"})),
             kind = "BALANCE_SHEET" /\ Balanced(of) => f.totalAssets = f.totalLiabilities + f.totalEquity,
             kind = "CASH_FLOW" /\ OneSided(of) => f.netCashChange = Net(of, CashLines(of))
      PROVE  ReportsInv'
  <2>1. report'.kind = kind /\ report'.about = of /\ report'.figures = f
    BY <1>5 DEF Show
  <2> QED
    BY <1>2, <1>3, <1>5, <2>1 DEF ReportsInv, ReportsAgree
<1>6. CASE job[w].kind = "TRIAL_BALANCE"
  <2>1. Show("TRIAL_BALANCE", of, TrialBalance(of))
    BY <1>1, <1>6 DEF MakeReport
  <2> QED
    BY <1>2, <1>5, <2>1, TrialBalanceAgrees DEF ReportKind
<1>7. CASE job[w].kind = "INCOME"
  <2>1. Show("INCOME", of, IncomeStatement(of))
    BY <1>1, <1>7 DEF MakeReport
  <2> QED
    BY <1>2, <1>5, <2>1, IncomeAgrees DEF ReportKind
<1>8. CASE job[w].kind = "BALANCE_SHEET"
  <2>1. Show("BALANCE_SHEET", of, BalanceSheet(of))
    BY <1>1, <1>8 DEF MakeReport
  <2> QED
    BY <1>2, <1>5, <2>1, BalanceSheetAgrees DEF ReportKind
<1>9. CASE job[w].kind = "CASH_FLOW"
  <2>1. PICK as \in [CashLines(of) -> {"sales", "suppliers", "other"}] : Show("CASH_FLOW", of, CashFlow(of, as))
    BY <1>1, <1>9 DEF MakeReport
  <2> QED
    BY <1>2, <1>5, <2>1, CashFlowAgrees DEF ReportKind
<1> QED
  BY <1>4, <1>6, <1>7, <1>8, <1>9 DEF ReportKind

LEMMA ReportsStart == ReportsInit => ReportsInv
<1> SUFFICES ASSUME ReportsInit PROVE ReportsInv
  OBVIOUS
<1>1. journal = <<>> /\ report.kind = "NONE" /\ report.about = <<>>
  BY DEF ReportsInit, NoReport
<1>2. Entries(<<>>)
  <2>1. DOMAIN <<>> = {}
    OBVIOUS
  <2> QED
    BY <2>1, FS_EmptySet DEF Entries
<1>3. "NONE" \notin ReportKind
  BY DEF ReportKind
<1> QED
  BY <1>1, <1>2, <1>3 DEF ReportsInv, ReportsAgree

LEMMA ReportsHold == FrontOfficeSpec => []ReportsInv
<1>1. FrontOfficeInit => ReportsInv
  BY ReportsStart DEF FrontOfficeInit
<1>2. RequestsInv /\ ReportsInv /\ [FrontOfficeNext]_<<requests, front>> => ReportsInv'
  <2>1. ASSUME RequestsInv, ReportsInv, FrontOfficeNext PROVE ReportsInv'
    BY <2>1, FrontOfficeMoves, ReportsAtRest, BooksEntry, MakesReport DEF ReportsStep
  <2>2. ASSUME RequestsInv, ReportsInv, UNCHANGED <<requests, front>> PROVE ReportsInv'
    BY <2>2, FrontOfficeStutters, ReportsAtRest
  <2> QED
    BY <2>1, <2>2
<1> QED
  BY <1>1, <1>2, RequestsHold, PTL DEF FrontOfficeSpec

LEMMA ReportsAreTyped == ReportsInv => ReportsTypeOK
<1> SUFFICES ASSUME ReportsInv PROVE ReportsTypeOK
  OBVIOUS
<1>1. \A i \in DOMAIN journal : journal[i] \in JournalEntry
  BY DEF ReportsInv
<1> QED
  BY <1>1 DEF ReportsInv, ReportsTypeOK, Entries

-----------------------------------------------------------------------------
(***************************************************************************)
(* The distance of two part numbers is a number: the matrix exists, since  *)
(* a cell needs only those with a smaller sum of their coordinates.        *)
(***************************************************************************)
Cells(one, two) == (0..Len(two)) \X (0..Len(one))
Filled(one, two, cell, c) ==
    IF c[1] = 0 THEN c[2] ELSE IF c[2] = 0 THEN c[1]
    ELSE IF two[c[1]] = one[c[2]] THEN cell[<<c[1] - 1, c[2] - 1>>]
    ELSE 1 + Min({cell[<<c[1] - 1, c[2] - 1>>], cell[<<c[1], c[2] - 1>>], cell[<<c[1] - 1, c[2]>>]})
Matrix(one, two) == CHOOSE cell : cell = [c \in Cells(one, two) |-> Filled(one, two, cell, c)]

\* The cells filled in k rounds.
Round(one, two, k) == {c \in Cells(one, two) : c[1] + c[2] <= k}
FilledUpTo(one, two, cell, k) == \A c \in Round(one, two, k) : cell[c] = Filled(one, two, cell, c)

LEMMA DistanceIsLastCell ==
    ASSUME NEW one, NEW two
    PROVE  LevenshteinDistance(one, two) = Matrix(one, two)[<<Len(two), Len(one)>>]
BY Zenon DEF LevenshteinDistance, Matrix, Cells, Filled

\* A cell needs those of the rounds before.
LEMMA EarlierCells ==
    ASSUME NEW one \in Seq(Letter), NEW two \in Seq(Letter), NEW k \in Nat, NEW c \in Round(one, two, k + 1)
    PROVE  /\ c[1] \in Nat /\ c[2] \in Nat
           /\ c[1] # 0 /\ c[2] # 0 =>
                 /\ <<c[1] - 1, c[2] - 1>> \in Round(one, two, k)
                 /\ <<c[1], c[2] - 1>> \in Round(one, two, k)
                 /\ <<c[1] - 1, c[2]>> \in Round(one, two, k)
<1>1. Len(one) \in Nat /\ Len(two) \in Nat
  OBVIOUS
<1>2. c[1] \in 0..Len(two) /\ c[2] \in 0..Len(one) /\ c[1] + c[2] <= k + 1
  BY DEF Round, Cells
<1>3. ASSUME c[1] # 0, c[2] # 0
      PROVE  /\ c[1] - 1 \in 0..Len(two) /\ c[2] - 1 \in 0..Len(one)
             /\ (c[1] - 1) + (c[2] - 1) <= k /\ c[1] + (c[2] - 1) <= k /\ (c[1] - 1) + c[2] <= k
  <2>1. PICK i, j, m, n : i = c[1] /\ j = c[2] /\ m = Len(two) /\ n = Len(one)
    OBVIOUS
  <2>2. m \in Nat /\ n \in Nat /\ i \in 0..m /\ j \in 0..n /\ i + j <= k + 1 /\ i # 0 /\ j # 0
    BY <1>1, <1>2, <1>3, <2>1
  <2>3. i - 1 \in 0..m /\ j - 1 \in 0..n
    BY <2>2
  <2>4. (i - 1) + (j - 1) <= k /\ i + (j - 1) <= k /\ (i - 1) + j <= k
    BY <2>2
  <2> QED
    BY <2>1, <2>3, <2>4
<1> QED
  BY <1>1, <1>2, <1>3 DEF Round, Cells

LEMMA MinOfThree ==
    ASSUME NEW a \in Nat, NEW b \in Nat, NEW c \in Nat
    PROVE  Min({a, b, c}) \in Nat
<1>1. \E x \in {a, b, c} : \A y \in {a, b, c} : x <= y
  <2>1. CASE a <= b /\ a <= c
    BY <2>1
  <2>2. CASE b <= a /\ b <= c
    BY <2>2
  <2>3. CASE c <= a /\ c <= b
    BY <2>3
  <2> QED
    BY <2>1, <2>2, <2>3
<1>2. Min({a, b, c}) \in {a, b, c}
  BY <1>1 DEF Min
<1> QED
  BY <1>2

\* Each round fills its cells.
LEMMA RoundsFill ==
    ASSUME NEW one \in Seq(Letter), NEW two \in Seq(Letter), NEW k \in Nat
    PROVE  \E cell : FilledUpTo(one, two, cell, k)
<1> DEFINE N == {n \in Nat : \E cell : FilledUpTo(one, two, cell, n)}
<1>1. 0 \in N
  <2> DEFINE cell == [c \in Round(one, two, 0) |-> 0]
  <2>1. ASSUME NEW c \in Round(one, two, 0)
        PROVE  c[1] = 0 /\ c[2] = 0
    <3>1. Len(one) \in Nat /\ Len(two) \in Nat
      OBVIOUS
    <3>2. c[1] \in 0..Len(two) /\ c[2] \in 0..Len(one) /\ c[1] + c[2] <= 0
      BY DEF Round, Cells
    <3> QED
      BY <3>1, <3>2
  <2>2. FilledUpTo(one, two, cell, 0)
    BY <2>1 DEF FilledUpTo, Filled
  <2> QED
    BY <2>2
<1>2. ASSUME NEW n \in Nat, n \in N
      PROVE  n + 1 \in N
  <2>1. PICK f : FilledUpTo(one, two, f, n)
    BY <1>2
  <2> DEFINE g == [c \in Round(one, two, n + 1) |-> Filled(one, two, f, c)]
  <2>2. \A c \in Round(one, two, n) : c \in Round(one, two, n + 1)
    <3> SUFFICES ASSUME NEW c \in Round(one, two, n)
                 PROVE  c \in Round(one, two, n + 1)
      OBVIOUS
    <3>1. Len(one) \in Nat /\ Len(two) \in Nat
      OBVIOUS
    <3>2. c[1] \in 0..Len(two) /\ c[2] \in 0..Len(one) /\ c[1] + c[2] <= n /\ c \in Cells(one, two)
      BY DEF Round, Cells
    <3>3. c[1] + c[2] <= n + 1
      BY <3>1, <3>2
    <3> QED
      BY <3>2, <3>3 DEF Round
  <2>3. \A c \in Round(one, two, n) : g[c] = f[c]
    BY <2>1, <2>2 DEF FilledUpTo
  <2>4. \A c \in Round(one, two, n + 1) : g[c] = Filled(one, two, f, c)
    OBVIOUS
  <2> HIDE DEF g
  <2>5. ASSUME NEW c \in Round(one, two, n + 1)
        PROVE  Filled(one, two, f, c) = Filled(one, two, g, c)
    <3>1. CASE c[1] # 0 /\ c[2] # 0
      <4>1. /\ g[<<c[1] - 1, c[2] - 1>>] = f[<<c[1] - 1, c[2] - 1>>]
            /\ g[<<c[1], c[2] - 1>>] = f[<<c[1], c[2] - 1>>]
            /\ g[<<c[1] - 1, c[2]>>] = f[<<c[1] - 1, c[2]>>]
        BY <2>3, <3>1, EarlierCells
      <4> QED
        BY <4>1 DEF Filled
    <3>2. CASE c[1] = 0 \/ c[2] = 0
      BY <3>2 DEF Filled
    <3> QED
      BY <3>1, <3>2
  <2>6. FilledUpTo(one, two, g, n + 1)
    BY <2>4, <2>5 DEF FilledUpTo
  <2>7. n + 1 \in Nat
    OBVIOUS
  <2> QED
    BY <2>6, <2>7
<1>3. Nat \subseteq N
  <2> HIDE DEF N
  <2> QED
    BY <1>1, <1>2, Climb
<1> QED
  BY <1>3

\* The last round is the matrix.
LEMMA MatrixIsFilled ==
    ASSUME NEW one \in Seq(Letter), NEW two \in Seq(Letter)
    PROVE  \A k \in Nat : FilledUpTo(one, two, Matrix(one, two), k)
<1> DEFINE D == Cells(one, two)
           last == Len(two) + Len(one)
           F(cell) == [c \in D |-> Filled(one, two, cell, c)]
<1>1. Len(one) \in Nat /\ Len(two) \in Nat /\ last \in Nat
  OBVIOUS
<1>2. \A c \in D : c \in Round(one, two, last)
  <2> SUFFICES ASSUME NEW c \in D PROVE c[1] + c[2] <= last
    BY DEF Round
  <2>1. c[1] \in 0..Len(two) /\ c[2] \in 0..Len(one)
    BY DEF Cells
  <2> QED
    BY <1>1, <2>1
<1>3. PICK f : FilledUpTo(one, two, f, last)
  BY <1>1, RoundsFill
<1> DEFINE g == F(f)
<1>4. \A c \in D : g[c] = f[c]
  BY <1>2, <1>3 DEF FilledUpTo
<1>5. \A c \in D : Filled(one, two, g, c) = Filled(one, two, f, c)
  <2> SUFFICES ASSUME NEW c \in D
               PROVE  Filled(one, two, g, c) = Filled(one, two, f, c)
    OBVIOUS
  <2> HIDE DEF g
  <2>1. CASE c[1] # 0 /\ c[2] # 0
    <3>1. PICK i \in 0..Len(two), j \in 0..Len(one) : c[1] = i /\ c[2] = j
      BY DEF Cells
    <3>2. i - 1 \in 0..Len(two) /\ j - 1 \in 0..Len(one)
      BY <1>1, <2>1, <3>1
    <3>3. <<i - 1, j - 1>> \in D /\ <<i, j - 1>> \in D /\ <<i - 1, j>> \in D
      BY <3>1, <3>2 DEF Cells
    <3> HIDE DEF D
    <3> QED
      BY <1>4, <3>1, <3>3 DEF Filled
  <2>2. CASE c[1] = 0 \/ c[2] = 0
    BY <2>2 DEF Filled
  <2> QED
    BY <2>1, <2>2
<1>6. F(g) = g
  <2> HIDE DEF g
  <2>1. F(g) = F(f)
    BY <1>5
  <2> QED
    BY <2>1 DEF g
<1>7. Matrix(one, two) = F(Matrix(one, two))
  <2>1. \E cell : cell = F(cell)
    BY <1>6
  <2> HIDE DEF g
  <2> QED
    BY <2>1 DEF Matrix
<1> HIDE DEF F
<1>8. \A c \in D : Matrix(one, two)[c] = Filled(one, two, Matrix(one, two), c)
  BY <1>7 DEF F
<1> QED
  BY <1>8 DEF FilledUpTo, Round

LEMMA CellsAreNumbers ==
    ASSUME NEW one \in Seq(Letter), NEW two \in Seq(Letter), NEW cell, \A k \in Nat : FilledUpTo(one, two, cell, k),
           NEW k \in Nat
    PROVE  \A c \in Round(one, two, k) : cell[c] \in Nat
<1> DEFINE N == {n \in Nat : \A c \in Round(one, two, n) : cell[c] \in Nat}
<1>1. 0 \in N
  <2> SUFFICES ASSUME NEW c \in Round(one, two, 0)
               PROVE  cell[c] \in Nat
    OBVIOUS
  <2>1. Len(one) \in Nat /\ Len(two) \in Nat
    OBVIOUS
  <2>2. c[1] \in 0..Len(two) /\ c[2] \in 0..Len(one) /\ c[1] + c[2] <= 0
    BY DEF Round, Cells
  <2>3. c[1] = 0 /\ c[2] = 0
    BY <2>1, <2>2
  <2>4. cell[c] = Filled(one, two, cell, c)
    BY DEF FilledUpTo
  <2> QED
    BY <2>3, <2>4 DEF Filled
<1>2. ASSUME NEW n \in Nat, n \in N
      PROVE  n + 1 \in N
  <2>1. ASSUME NEW c \in Round(one, two, n + 1)
        PROVE  cell[c] \in Nat
    <3>1. cell[c] = Filled(one, two, cell, c)
      <4>1. n + 1 \in Nat
        OBVIOUS
      <4> QED
        BY <4>1 DEF FilledUpTo
    <3>2. c[1] \in Nat /\ c[2] \in Nat
      BY EarlierCells
    <3>3. CASE c[1] # 0 /\ c[2] # 0
      <4> DEFINE a == cell[<<c[1] - 1, c[2] - 1>>]
                 b == cell[<<c[1], c[2] - 1>>]
                 d == cell[<<c[1] - 1, c[2]>>]
      <4>1. a \in Nat /\ b \in Nat /\ d \in Nat
        BY <1>2, <3>3, EarlierCells
      <4>2. cell[c] = IF two[c[1]] = one[c[2]] THEN a ELSE 1 + Min({a, b, d})
        BY <3>1, <3>3 DEF Filled
      <4> HIDE DEF a, b, d
      <4>3. Min({a, b, d}) \in Nat
        BY <4>1, MinOfThree
      <4>4. 1 + Min({a, b, d}) \in Nat
        BY <4>3
      <4> QED
        BY <4>1, <4>2, <4>4
    <3>4. CASE c[1] = 0 \/ c[2] = 0
      BY <3>1, <3>2, <3>4 DEF Filled
    <3> QED
      BY <3>3, <3>4
  <2>2. n + 1 \in Nat
    OBVIOUS
  <2> QED
    BY <2>1, <2>2
<1>3. Nat \subseteq N
  <2> HIDE DEF N
  <2> QED
    BY <1>1, <1>2, Climb
<1> QED
  BY <1>3

LEMMA DistanceIsNumber ==
    ASSUME NEW one \in Seq(Letter), NEW two \in Seq(Letter)
    PROVE  LevenshteinDistance(one, two) \in Nat
<1> DEFINE last == Len(two) + Len(one)
<1>1. Len(one) \in Nat /\ Len(two) \in Nat /\ last \in Nat
  OBVIOUS
<1>2. <<Len(two), Len(one)>> \in Round(one, two, last)
  <2>1. last <= last /\ Len(two) \in 0..Len(two) /\ Len(one) \in 0..Len(one)
    BY <1>1
  <2> QED
    BY <2>1 DEF Round, Cells
<1>3. PICK cell : cell = Matrix(one, two)
  OBVIOUS
<1>4. \A k \in Nat : FilledUpTo(one, two, cell, k)
  BY <1>3, MatrixIsFilled
<1>5. \A c \in Round(one, two, last) : cell[c] \in Nat
  BY <1>1, <1>4, CellsAreNumbers
<1> QED
  BY <1>2, <1>3, <1>5, DistanceIsLastCell

-----------------------------------------------------------------------------
(***************************************************************************)
(* That distance is the least number of edits.  First what the matrix      *)
(* holds, cell by cell; i counts letters of `two`, j letters of `one`.     *)
(***************************************************************************)
Dist(one, two, i, j) == Matrix(one, two)[<<i, j>>]

\* What holds of a cell if it holds of those with a smaller sum of their
\* coordinates holds of every cell.
LEMMA CellByCell ==
    ASSUME NEW m \in Nat, NEW n \in Nat, NEW P,
           \A i \in 0..m, j \in 0..n :
              (\A h \in 0..m, k \in 0..n : h + k < i + j => <<h, k>> \in P) => <<i, j>> \in P
    PROVE  \A i \in 0..m, j \in 0..n : <<i, j>> \in P
<1> DEFINE N == {s \in Nat : \A i \in 0..m, j \in 0..n : i + j < s => <<i, j>> \in P}
<1>1. 0 \in N
  <2> SUFFICES ASSUME NEW i \in 0..m, NEW j \in 0..n, i + j < 0 PROVE FALSE
    OBVIOUS
  <2> QED
    OBVIOUS
<1>2. ASSUME NEW s \in Nat, s \in N
      PROVE  s + 1 \in N
  <2>1. ASSUME NEW i \in 0..m, NEW j \in 0..n, i + j < s + 1
        PROVE  <<i, j>> \in P
    <3>1. ASSUME NEW h \in 0..m, NEW k \in 0..n, h + k < i + j
          PROVE  <<h, k>> \in P
      <4>1. h + k < s
        BY <2>1, <3>1
      <4> QED
        BY <1>2, <4>1
    <3> QED
      BY <3>1
  <2>2. s + 1 \in Nat
    OBVIOUS
  <2> QED
    BY <2>1, <2>2
<1>3. Nat \subseteq N
  <2> HIDE DEF N
  <2> QED
    BY <1>1, <1>2, Climb
<1>4. ASSUME NEW i \in 0..m, NEW j \in 0..n
      PROVE  <<i, j>> \in P
  <2>1. i + j + 1 \in Nat /\ i + j < i + j + 1
    OBVIOUS
  <2>2. i + j + 1 \in N
    BY <1>3, <2>1
  <2> QED
    BY <2>1, <2>2
<1> QED
  BY <1>4

IsLeast(m, a, b, c) == m \in {a, b, c} /\ m <= a /\ m <= b /\ m <= c
LEMMA LeastOfThree ==
    ASSUME NEW a \in Nat, NEW b \in Nat, NEW c \in Nat
    PROVE  IsLeast(Min({a, b, c}), a, b, c)
<1>1. \E x \in {a, b, c} : \A y \in {a, b, c} : x <= y
  <2>1. CASE a <= b /\ a <= c
    BY <2>1
  <2>2. CASE b <= a /\ b <= c
    BY <2>2
  <2>3. CASE c <= a /\ c <= b
    BY <2>3
  <2> QED
    BY <2>1, <2>2, <2>3
<1>2. PICK m : m = Min({a, b, c})
  OBVIOUS
<1>3. m \in {a, b, c} /\ \A y \in {a, b, c} : m <= y
  BY <1>1, <1>2 DEF Min
<1>4. IsLeast(m, a, b, c)
  BY <1>3 DEF IsLeast
<1> QED
  BY <1>2, <1>4

\* A cell, from those before it.
LEMMA CellIsNumber ==
    ASSUME NEW one \in Seq(Letter), NEW two \in Seq(Letter), NEW i \in 0..Len(two), NEW j \in 0..Len(one)
    PROVE  /\ Dist(one, two, i, j) \in Nat
           /\ Dist(one, two, i, j) = Filled(one, two, Matrix(one, two), <<i, j>>)
<1>1. Len(one) \in Nat /\ Len(two) \in Nat /\ i + j \in Nat /\ i + j <= i + j
  OBVIOUS
<1>2. <<i, j>> \in Round(one, two, i + j)
  BY <1>1 DEF Round, Cells
<1>3. PICK cell : cell = Matrix(one, two)
  OBVIOUS
<1>4. \A k \in Nat : FilledUpTo(one, two, cell, k)
  BY <1>3, MatrixIsFilled
<1>5. cell[<<i, j>>] \in Nat
  BY <1>1, <1>2, <1>4, CellsAreNumbers
<1>6. cell[<<i, j>>] = Filled(one, two, cell, <<i, j>>)
  BY <1>1, <1>2, <1>4 DEF FilledUpTo
<1> QED
  BY <1>3, <1>5, <1>6 DEF Dist

LEMMA BorderCells ==
    ASSUME NEW one \in Seq(Letter), NEW two \in Seq(Letter)
    PROVE  /\ \A j \in 0..Len(one) : Dist(one, two, 0, j) = j
           /\ \A i \in 0..Len(two) : Dist(one, two, i, 0) = i
<1>1. Len(one) \in Nat /\ Len(two) \in Nat /\ 0 \in 0..Len(one) /\ 0 \in 0..Len(two)
  OBVIOUS
<1>2. ASSUME NEW j \in 0..Len(one) PROVE Dist(one, two, 0, j) = j
  <2>1. Dist(one, two, 0, j) = Filled(one, two, Matrix(one, two), <<0, j>>)
    BY <1>1, CellIsNumber
  <2>2. Filled(one, two, Matrix(one, two), <<0, j>>) = j
    BY DEF Filled
  <2> QED
    BY <2>1, <2>2
<1>3. ASSUME NEW i \in 0..Len(two) PROVE Dist(one, two, i, 0) = i
  <2>1. Dist(one, two, i, 0) = Filled(one, two, Matrix(one, two), <<i, 0>>)
    BY <1>1, CellIsNumber
  <2>2. Filled(one, two, Matrix(one, two), <<i, 0>>) = i
    BY DEF Filled
  <2> QED
    BY <2>1, <2>2
<1> QED
  BY <1>2, <1>3

LEMMA InnerCells ==
    ASSUME NEW one \in Seq(Letter), NEW two \in Seq(Letter), NEW i \in 1..Len(two), NEW j \in 1..Len(one),
           NEW x, x = Dist(one, two, i, j), NEW a, a = Dist(one, two, i - 1, j - 1),
           NEW b, b = Dist(one, two, i, j - 1), NEW c, c = Dist(one, two, i - 1, j)
    PROVE  /\ x \in Nat /\ a \in Nat /\ b \in Nat /\ c \in Nat
           /\ two[i] = one[j] => x = a
           /\ two[i] # one[j] => x \in {1 + a, 1 + b, 1 + c} /\ x <= 1 + a /\ x <= 1 + b /\ x <= 1 + c
<1>1. /\ Len(one) \in Nat /\ Len(two) \in Nat /\ i \in 0..Len(two) /\ j \in 0..Len(one)
      /\ i - 1 \in 0..Len(two) /\ j - 1 \in 0..Len(one) /\ i # 0 /\ j # 0
  OBVIOUS
<1>2. x \in Nat /\ a \in Nat /\ b \in Nat /\ c \in Nat
  BY <1>1, CellIsNumber
<1>3. x = Filled(one, two, Matrix(one, two), <<i, j>>)
  BY <1>1, CellIsNumber
<1>4. x = IF two[i] = one[j] THEN a ELSE 1 + Min({a, b, c})
  BY <1>1, <1>3 DEF Filled, Dist
<1>5. PICK m : m = Min({a, b, c})
  OBVIOUS
<1>6. IsLeast(m, a, b, c)
  BY <1>2, <1>5, LeastOfThree
<1>7. two[i] = one[j] => x = a
  BY <1>4
<1>8. two[i] # one[j] => x = 1 + m
  BY <1>4, <1>5
<1>9. ASSUME two[i] # one[j]
      PROVE  x \in {1 + a, 1 + b, 1 + c} /\ x <= 1 + a /\ x <= 1 + b /\ x <= 1 + c
  <2>1. x = 1 + m
    BY <1>8, <1>9
  <2>2. m = a \/ m = b \/ m = c
    BY <1>6 DEF IsLeast
  <2>3. m \in Nat /\ m <= a /\ m <= b /\ m <= c
    BY <1>2, <1>6, <2>2 DEF IsLeast
  <2>4. x = 1 + a \/ x = 1 + b \/ x = 1 + c
    BY <2>1, <2>2, Zenon
  <2>5. x <= 1 + a /\ x <= 1 + b /\ x <= 1 + c
    BY <1>2, <2>1, <2>3
  <2> QED
    BY <2>4, <2>5, Zenon
<1> QED
  BY <1>2, <1>7, <1>9, Zenon

LEMMA InnerNeighbours ==
    ASSUME NEW one \in Seq(Letter), NEW two \in Seq(Letter), NEW i \in 1..Len(two), NEW j \in 1..Len(one),
           /\ Dist(one, two, i, j - 1) <= 1 + Dist(one, two, i - 1, j - 1)
           /\ Dist(one, two, i - 1, j - 1) <= 1 + Dist(one, two, i, j - 1),
           /\ Dist(one, two, i - 1, j) <= 1 + Dist(one, two, i - 1, j - 1)
           /\ Dist(one, two, i - 1, j - 1) <= 1 + Dist(one, two, i - 1, j)
    PROVE  /\ Dist(one, two, i, j) <= 1 + Dist(one, two, i - 1, j)
           /\ Dist(one, two, i - 1, j) <= 1 + Dist(one, two, i, j)
           /\ Dist(one, two, i, j) <= 1 + Dist(one, two, i, j - 1)
           /\ Dist(one, two, i, j - 1) <= 1 + Dist(one, two, i, j)
<1>1. PICK x, a, b, c : x = Dist(one, two, i, j) /\ a = Dist(one, two, i - 1, j - 1)
                        /\ b = Dist(one, two, i, j - 1) /\ c = Dist(one, two, i - 1, j)
  OBVIOUS
<1>2. /\ x \in Nat /\ a \in Nat /\ b \in Nat /\ c \in Nat
      /\ two[i] = one[j] => x = a
      /\ two[i] # one[j] => x \in {1 + a, 1 + b, 1 + c} /\ x <= 1 + a /\ x <= 1 + b /\ x <= 1 + c
  <2>1. x \in Nat /\ a \in Nat /\ b \in Nat /\ c \in Nat
    BY <1>1, InnerCells
  <2>2. two[i] = one[j] => x = a
    BY <1>1, InnerCells
  <2>3. ASSUME two[i] # one[j]
        PROVE  x \in {1 + a, 1 + b, 1 + c} /\ x <= 1 + a /\ x <= 1 + b /\ x <= 1 + c
    BY <1>1, <2>3, InnerCells
  <2> QED
    BY <2>1, <2>2, <2>3
<1>3. x = a \/ (x \in {1 + a, 1 + b, 1 + c} /\ x <= 1 + a /\ x <= 1 + b /\ x <= 1 + c)
  BY <1>2
<1>4. b <= 1 + a /\ a <= 1 + b /\ c <= 1 + a /\ a <= 1 + c
  BY <1>1
<1>5. x <= 1 + c /\ c <= 1 + x /\ x <= 1 + b /\ b <= 1 + x
  BY <1>2, <1>3, <1>4
<1> QED
  BY <1>1, <1>5

\* Neighbours differ by one at most.
LEMMA Neighbours ==
    ASSUME NEW one \in Seq(Letter), NEW two \in Seq(Letter), NEW i \in 1..Len(two), NEW j \in 0..Len(one)
    PROVE  /\ Dist(one, two, i, j) <= 1 + Dist(one, two, i - 1, j)
           /\ Dist(one, two, i - 1, j) <= 1 + Dist(one, two, i, j)
           /\ j > 0 => Dist(one, two, i, j) <= 1 + Dist(one, two, i - 1, j - 1)
           /\ j > 0 => Dist(one, two, i, j) <= 1 + Dist(one, two, i, j - 1)
<1> DEFINE D(h, k) == Dist(one, two, h, k)
           Down(h, k) == h > 0 => D(h, k) <= 1 + D(h - 1, k) /\ D(h - 1, k) <= 1 + D(h, k)
           Across(h, k) == k > 0 => D(h, k) <= 1 + D(h, k - 1) /\ D(h, k - 1) <= 1 + D(h, k)
           P == {c \in (0..Len(two)) \X (0..Len(one)) : Down(c[1], c[2]) /\ Across(c[1], c[2])}
<1>1. Len(one) \in Nat /\ Len(two) \in Nat
  OBVIOUS
<1>2. ASSUME NEW h \in 0..Len(two), NEW k \in 0..Len(one),
             \A f \in 0..Len(two), g \in 0..Len(one) : f + g < h + k => <<f, g>> \in P
      PROVE  Down(h, k) /\ Across(h, k)
  <2>1. CASE h = 0
    <3>1. CASE k = 0
      BY <2>1, <3>1
    <3>2. CASE k # 0
      <4>1. k - 1 \in 0..Len(one) /\ D(0, k) = k /\ D(0, k - 1) = k - 1
        BY <1>1, <3>2, BorderCells
      <4> QED
        BY <1>1, <2>1, <4>1
    <3> QED
      BY <3>1, <3>2
  <2>2. CASE h # 0 /\ k = 0
    <3>1. h - 1 \in 0..Len(two) /\ D(h, 0) = h /\ D(h - 1, 0) = h - 1
      BY <1>1, <2>2, BorderCells
    <3> QED
      BY <1>1, <2>2, <3>1
  <2>3. CASE h # 0 /\ k # 0
    <3>1. /\ h \in 1..Len(two) /\ k \in 1..Len(one) /\ h - 1 \in 0..Len(two) /\ k - 1 \in 0..Len(one)
          /\ h + (k - 1) < h + k /\ (h - 1) + k < h + k /\ h > 0 /\ k > 0
      BY <1>1, <2>3
    <3>2. <<h, k - 1>> \in P /\ <<h - 1, k>> \in P
      BY <1>2, <3>1
    <3>3. Down(h, k - 1) /\ Across(h - 1, k)
      BY <3>2
    <3> QED
      BY <3>1, <3>3, InnerNeighbours
  <2> QED
    BY <2>1, <2>2, <2>3
<1>3. \A h \in 0..Len(two), k \in 0..Len(one) : <<h, k>> \in P
  <2>1. \A h \in 0..Len(two), k \in 0..Len(one) :
           (\A f \in 0..Len(two), g \in 0..Len(one) : f + g < h + k => <<f, g>> \in P) => <<h, k>> \in P
    BY <1>2
  <2> HIDE DEF P
  <2> QED
    BY <1>1, <2>1, CellByCell
<1>4. i \in 0..Len(two) /\ i > 0 /\ i - 1 \in 0..Len(two)
  BY <1>1
<1>5. Down(i, j) /\ Across(i, j)
  BY <1>3, <1>4
<1>6. ASSUME j > 0
      PROVE  D(i, j) <= 1 + D(i - 1, j - 1)
  <2>1. j \in 1..Len(one)
    BY <1>1, <1>6
  <2>2. PICK x, a, b, c : x = D(i, j) /\ a = D(i - 1, j - 1) /\ b = D(i, j - 1) /\ c = D(i - 1, j)
    OBVIOUS
  <2>3. x \in Nat /\ a \in Nat /\ (x = a \/ x <= 1 + a)
    BY <2>1, <2>2, InnerCells
  <2> QED
    BY <2>2, <2>3
<1> QED
  BY <1>4, <1>5, <1>6

-----------------------------------------------------------------------------
(* What an edit does to a word, letter by letter.                          *)

Dropped(s, t, p) ==
    /\ Len(t) = Len(s) - 1
    /\ \A k \in 1..p - 1 : t[k] = s[k]
    /\ \A k \in p..Len(t) : t[k] = s[k + 1]
Grown(s, t, p) ==
    /\ Len(t) = Len(s) + 1
    /\ \A k \in 1..p - 1 : t[k] = s[k]
    /\ \A k \in p..Len(s) : t[k + 1] = s[k]
Changed(s, t, p) ==
    /\ Len(t) = Len(s)
    /\ \A k \in 1..Len(s) : k # p => t[k] = s[k]

LEMMA PartOfWord ==
    ASSUME NEW s \in Seq(Letter), NEW a \in 1..Len(s) + 1, NEW b \in 0..Len(s)
    PROVE  /\ SubSeq(s, a, b) \in Seq(Letter)
           /\ Len(SubSeq(s, a, b)) = IF a <= b THEN b - a + 1 ELSE 0
           /\ \A i \in 1..b - a + 1 : SubSeq(s, a, b)[i] = s[a + i - 1]
<1>1. Len(s) \in Nat
  OBVIOUS
<1>2. a \in Int /\ b \in Int
  BY <1>1
<1>3. ASSUME NEW i \in a..b PROVE s[i] \in Letter
  <2>1. i \in 1..Len(s)
    BY <1>1
  <2> QED
    BY <2>1
<1> QED
  BY <1>2, <1>3, SubSeqProperties

LEMMA RemovedLetter ==
    ASSUME NEW s \in Seq(Letter), NEW p \in 1..Len(s), NEW t, t = RemoveAt(s, p)
    PROVE  t \in Seq(Letter) /\ Dropped(s, t, p)
<1> DEFINE u == SubSeq(s, 1, p - 1)
           v == SubSeq(s, p + 1, Len(s))
<1>1. Len(s) \in Nat /\ 1 \in 1..Len(s) + 1 /\ p - 1 \in 0..Len(s) /\ p + 1 \in 1..Len(s) + 1 /\ Len(s) \in 0..Len(s)
  OBVIOUS
<1>2. u \in Seq(Letter) /\ Len(u) = p - 1 /\ \A i \in 1..p - 1 : u[i] = s[i]
  <2>1. /\ u \in Seq(Letter)
        /\ Len(u) = IF 1 <= p - 1 THEN p - 1 - 1 + 1 ELSE 0
        /\ \A i \in 1..p - 1 - 1 + 1 : u[i] = s[1 + i - 1]
    BY <1>1, PartOfWord
  <2> HIDE DEF u
  <2> QED
    BY <1>1, <2>1
<1>3. v \in Seq(Letter) /\ Len(v) = Len(s) - p /\ \A i \in 1..Len(s) - p : v[i] = s[p + i]
  <2>1. /\ v \in Seq(Letter)
        /\ Len(v) = IF p + 1 <= Len(s) THEN Len(s) - (p + 1) + 1 ELSE 0
        /\ \A i \in 1..Len(s) - (p + 1) + 1 : v[i] = s[p + 1 + i - 1]
    BY <1>1, PartOfWord
  <2> HIDE DEF v
  <2> QED
    BY <1>1, <2>1
<1>4. t = u \o v
  BY DEF RemoveAt
<1> HIDE DEF u, v
<1>5. /\ t \in Seq(Letter) /\ Len(t) = (p - 1) + (Len(s) - p)
      /\ \A i \in 1..(p - 1) + (Len(s) - p) : t[i] = IF i <= p - 1 THEN u[i] ELSE v[i - (p - 1)]
  <2>1. /\ u \o v \in Seq(Letter) /\ Len(u \o v) = Len(u) + Len(v)
        /\ \A i \in 1..Len(u) + Len(v) : (u \o v)[i] = IF i <= Len(u) THEN u[i] ELSE v[i - Len(u)]
    BY <1>2, <1>3, ConcatProperties
  <2> QED
    BY <1>2, <1>3, <1>4, <2>1, Zenon
<1>6. Len(t) = Len(s) - 1 /\ (p - 1) + (Len(s) - p) = Len(s) - 1
  BY <1>1, <1>5
<1>7. ASSUME NEW k \in 1..p - 1 PROVE t[k] = s[k]
  BY <1>1, <1>2, <1>5, <1>6
<1>8. ASSUME NEW k \in p..Len(t) PROVE t[k] = s[k + 1]
  <2>1. k \in 1..Len(s) - 1 /\ ~(k <= p - 1) /\ k - (p - 1) \in 1..Len(s) - p
    BY <1>1, <1>6
  <2>2. t[k] = v[k - (p - 1)]
    BY <1>5, <1>6, <2>1
  <2>3. v[k - (p - 1)] = s[p + (k - (p - 1))]
    BY <1>3, <2>1
  <2>4. p + (k - (p - 1)) = k + 1
    BY <1>1, <2>1
  <2> QED
    BY <2>2, <2>3, <2>4
<1> QED
  BY <1>5, <1>6, <1>7, <1>8 DEF Dropped

LEMMA InsertedLetter ==
    ASSUME NEW s \in Seq(Letter), NEW p \in 1..Len(s) + 1, NEW c \in Letter, NEW t, t = InsertAt(s, p, c)
    PROVE  t \in Seq(Letter) /\ Grown(s, t, p) /\ t[p] = c
<1> DEFINE u == SubSeq(s, 1, p - 1)
           v == SubSeq(s, p, Len(s))
           x == u \o <<c>>
<1>1. Len(s) \in Nat /\ 1 \in 1..Len(s) + 1 /\ p - 1 \in 0..Len(s) /\ Len(s) \in 0..Len(s)
  OBVIOUS
<1>2. u \in Seq(Letter) /\ Len(u) = p - 1 /\ \A i \in 1..p - 1 : u[i] = s[i]
  <2>1. /\ u \in Seq(Letter)
        /\ Len(u) = IF 1 <= p - 1 THEN p - 1 - 1 + 1 ELSE 0
        /\ \A i \in 1..p - 1 - 1 + 1 : u[i] = s[1 + i - 1]
    BY <1>1, PartOfWord
  <2> HIDE DEF u
  <2> QED
    BY <1>1, <2>1
<1>3. v \in Seq(Letter) /\ Len(v) = Len(s) - p + 1 /\ \A i \in 1..Len(s) - p + 1 : v[i] = s[p + i - 1]
  <2>1. /\ v \in Seq(Letter)
        /\ Len(v) = IF p <= Len(s) THEN Len(s) - p + 1 ELSE 0
        /\ \A i \in 1..Len(s) - p + 1 : v[i] = s[p + i - 1]
    BY <1>1, PartOfWord
  <2> HIDE DEF v
  <2> QED
    BY <1>1, <2>1
<1>4. t = x \o v
  BY DEF InsertAt
<1> HIDE DEF u, v
<1>5. <<c>> \in Seq(Letter) /\ Len(<<c>>) = 1 /\ <<c>>[1] = c
  OBVIOUS
<1>6. /\ x \in Seq(Letter) /\ Len(x) = (p - 1) + 1
      /\ \A i \in 1..(p - 1) + 1 : x[i] = IF i <= p - 1 THEN u[i] ELSE <<c>>[i - (p - 1)]
  BY <1>2, <1>5, ConcatProperties
<1>7. Len(x) = p
  BY <1>1, <1>6
<1> HIDE DEF x
<1>8. /\ t \in Seq(Letter) /\ Len(t) = p + (Len(s) - p + 1)
      /\ \A i \in 1..p + (Len(s) - p + 1) : t[i] = IF i <= p THEN x[i] ELSE v[i - p]
  <2>1. /\ x \o v \in Seq(Letter) /\ Len(x \o v) = Len(x) + Len(v)
        /\ \A i \in 1..Len(x) + Len(v) : (x \o v)[i] = IF i <= Len(x) THEN x[i] ELSE v[i - Len(x)]
    BY <1>3, <1>6, ConcatProperties
  <2> QED
    BY <1>3, <1>4, <1>7, <2>1, Zenon
<1>9. Len(t) = Len(s) + 1 /\ p + (Len(s) - p + 1) = Len(s) + 1
  BY <1>1, <1>8
<1>10. ASSUME NEW k \in 1..p - 1 PROVE t[k] = s[k]
  <2>1. k \in 1..(p - 1) + 1 /\ k <= p - 1 /\ k <= p /\ k \in 1..Len(s) + 1
    BY <1>1
  <2> QED
    BY <1>2, <1>6, <1>8, <1>9, <2>1
<1>11. ASSUME NEW k \in p..Len(s) PROVE t[k + 1] = s[k]
  <2>1. k + 1 \in 1..Len(s) + 1 /\ ~(k + 1 <= p) /\ (k + 1) - p \in 1..Len(s) - p + 1
    BY <1>1
  <2>2. t[k + 1] = v[(k + 1) - p]
    BY <1>8, <1>9, <2>1
  <2>3. v[(k + 1) - p] = s[p + ((k + 1) - p) - 1]
    BY <1>3, <2>1
  <2>4. p + ((k + 1) - p) - 1 = k
    BY <1>1, <2>1
  <2> QED
    BY <2>2, <2>3, <2>4
<1>12. t[p] = c
  <2>1. p \in 1..(p - 1) + 1 /\ ~(p <= p - 1) /\ p <= p /\ p \in 1..Len(s) + 1 /\ p - (p - 1) = 1
    BY <1>1
  <2>2. t[p] = x[p]
    BY <1>8, <1>9, <2>1
  <2>3. x[p] = <<c>>[p - (p - 1)]
    BY <1>6, <2>1
  <2> QED
    BY <1>5, <2>1, <2>2, <2>3
<1> QED
  BY <1>8, <1>9, <1>10, <1>11, <1>12 DEF Grown

LEMMA ChangedLetter ==
    ASSUME NEW s \in Seq(Letter), NEW p \in 1..Len(s), NEW c \in Letter, NEW t, t = ReplaceAt(s, p, c)
    PROVE  t \in Seq(Letter) /\ Changed(s, t, p) /\ t[p] = c
<1>1. t = [s EXCEPT ![p] = c]
  BY DEF ReplaceAt
<1>2. /\ t \in Seq(Letter) /\ Len(t) = Len(s)
      /\ \A k \in 1..Len(s) : t[k] = IF k = p THEN c ELSE s[k]
  BY <1>1, ExceptSeq
<1> QED
  BY <1>2 DEF Changed

\* An edit takes a letter out, puts one in or changes one.
LEMMA WhatIsEdited ==
    ASSUME NEW s \in Seq(Letter), NEW t \in Edits(s)
    PROVE  /\ t \in Seq(Letter)
           /\ \/ \E p \in 1..Len(s) : Dropped(s, t, p)
              \/ \E p \in 1..Len(s) : Changed(s, t, p)
              \/ \E p \in 1..Len(s) + 1 : Grown(s, t, p)
<1>1. DOMAIN s = 1..Len(s)
  OBVIOUS
<1>2. CASE \E p \in 1..Len(s) : t = RemoveAt(s, p)
  BY <1>2, RemovedLetter
<1>3. CASE \E p \in 1..Len(s), c \in Letter : t = ReplaceAt(s, p, c)
  BY <1>3, ChangedLetter
<1>4. CASE \E p \in 1..Len(s) + 1, c \in Letter : t = InsertAt(s, p, c)
  BY <1>4, InsertedLetter
<1> QED
  BY <1>1, <1>2, <1>3, <1>4 DEF Edits

\* And a word that differs so from another is one edit away.
LEMMA EditsAway ==
    ASSUME NEW s \in Seq(Letter), NEW t \in Seq(Letter), NEW p \in Nat \ {0},
           \/ p <= Len(s) /\ Dropped(s, t, p)
           \/ p <= Len(s) /\ Changed(s, t, p)
           \/ p <= Len(s) + 1 /\ Grown(s, t, p)
    PROVE  t \in Edits(s)
<1>1. Len(s) \in Nat /\ Len(t) \in Nat /\ DOMAIN s = 1..Len(s)
  OBVIOUS
<1>2. CASE p <= Len(s) /\ Dropped(s, t, p)
  <2>1. PICK u : u = RemoveAt(s, p)
    OBVIOUS
  <2>2. p \in 1..Len(s)
    BY <1>1, <1>2
  <2>3. u \in Seq(Letter) /\ Dropped(s, u, p)
    BY <2>1, <2>2, RemovedLetter
  <2>4. ASSUME NEW k \in 1..Len(t) PROVE t[k] = u[k]
    <3>1. Len(u) = Len(t) /\ (k \in 1..p - 1 \/ k \in p..Len(t))
      BY <1>1, <1>2, <2>3 DEF Dropped
    <3> QED
      BY <1>2, <2>3, <3>1 DEF Dropped
  <2>5. t = u
    BY <1>2, <2>3, <2>4, SeqEqual DEF Dropped
  <2> QED
    BY <1>1, <2>1, <2>2, <2>5 DEF Edits
<1>3. CASE p <= Len(s) /\ Changed(s, t, p)
  <2>1. p \in 1..Len(s) /\ p \in 1..Len(t)
    BY <1>1, <1>3 DEF Changed
  <2>2. PICK c \in Letter : c = t[p]
    BY <2>1
  <2>3. PICK u : u = ReplaceAt(s, p, c)
    OBVIOUS
  <2>4. u \in Seq(Letter) /\ Changed(s, u, p) /\ u[p] = c
    BY <2>1, <2>3, ChangedLetter
  <2>5. t = u
    BY <1>3, <2>2, <2>4, SeqEqual DEF Changed
  <2> QED
    BY <1>1, <2>1, <2>3, <2>5 DEF Edits
<1>4. CASE p <= Len(s) + 1 /\ Grown(s, t, p)
  <2>1. p \in 1..Len(s) + 1 /\ p \in 1..Len(t)
    BY <1>1, <1>4 DEF Grown
  <2>2. t[p] \in Letter
    BY <2>1
  <2>3. PICK u : u = InsertAt(s, p, t[p])
    OBVIOUS
  <2>4. u \in Seq(Letter) /\ Grown(s, u, p) /\ u[p] = t[p]
    BY <2>1, <2>2, <2>3, InsertedLetter
  <2>5. ASSUME NEW k \in 1..Len(t) PROVE t[k] = u[k]
    <3>1. CASE k \in 1..p - 1
      BY <1>4, <2>4, <3>1 DEF Grown
    <3>2. CASE k = p
      BY <2>4, <3>2
    <3>3. CASE k > p
      <4>1. k - 1 \in p..Len(s) /\ (k - 1) + 1 = k
        BY <1>1, <1>4, <3>3 DEF Grown
      <4>2. t[(k - 1) + 1] = s[k - 1] /\ u[(k - 1) + 1] = s[k - 1]
        BY <1>4, <2>4, <4>1 DEF Grown
      <4> QED
        BY <4>1, <4>2
    <3> QED
      BY <1>1, <3>1, <3>2, <3>3
  <2>6. Len(u) = Len(t)
    BY <1>4, <2>4 DEF Grown
  <2>7. t = u
    BY <2>4, <2>5, <2>6, SeqEqual
  <2> QED
    BY <2>1, <2>2, <2>3, <2>7 DEF Edits
<1> QED
  BY <1>2, <1>3, <1>4

-----------------------------------------------------------------------------
(* The words a number of edits away.                                       *)

Within(x) ==
    CHOOSE within : within = [n \in Nat |-> IF n = 0 THEN {x} ELSE within[n - 1] \cup UNION {Edits(s) : s \in within[n - 1]}]
\* As steps from x to y, each an edit or none.
Walk(p, x, n, y) == p[0] = x /\ p[n] = y /\ \A k \in 0..n - 1 : p[k + 1] = p[k] \/ p[k + 1] \in Edits(p[k])
Walked(x, n, y) == \E p : Walk(p, x, n, y)

LEMMA WalksOn ==
    ASSUME NEW x, NEW n \in Nat, NEW s, Walked(x, n, s), NEW y, y = s \/ y \in Edits(s)
    PROVE  Walked(x, n + 1, y)
<1>1. PICK p : Walk(p, x, n, s)
  BY DEF Walked
<1> DEFINE q == [k \in 0..n + 1 |-> IF k = n + 1 THEN y ELSE p[k]]
<1>2. q[0] = x /\ q[n] = s /\ q[n + 1] = y
  BY <1>1 DEF Walk
<1>3. ASSUME NEW k \in 0..(n + 1) - 1
      PROVE  q[k + 1] = q[k] \/ q[k + 1] \in Edits(q[k])
  <2>1. CASE k = n
    BY <1>2, <2>1
  <2>2. CASE k # n
    <3>1. k \in 0..n - 1 /\ k \in 0..n + 1 /\ k + 1 \in 0..n + 1 /\ k # n + 1 /\ k + 1 # n + 1
      BY <2>2
    <3>2. q[k] = p[k] /\ q[k + 1] = p[k + 1]
      BY <3>1
    <3> HIDE DEF q
    <3> QED
      BY <1>1, <3>1, <3>2 DEF Walk
  <2> QED
    BY <2>1, <2>2
<1> HIDE DEF q
<1>4. Walk(q, x, n + 1, y)
  BY <1>2, <1>3 DEF Walk
<1> QED
  BY <1>4 DEF Walked

LEMMA WalkedBefore ==
    ASSUME NEW x, NEW n \in Nat, NEW y, Walked(x, n + 1, y)
    PROVE  \E s : Walked(x, n, s) /\ (y = s \/ y \in Edits(s))
<1>1. PICK p : Walk(p, x, n + 1, y)
  BY DEF Walked
<1>2. n \in 0..(n + 1) - 1 /\ \A k \in 0..n - 1 : k \in 0..(n + 1) - 1
  OBVIOUS
<1>3. Walk(p, x, n, p[n])
  BY <1>1, <1>2 DEF Walk
<1>4. y = p[n] \/ y \in Edits(p[n])
  BY <1>1, <1>2 DEF Walk
<1> QED
  BY <1>3, <1>4 DEF Walked

LEMMA WordsOfWalks ==
    ASSUME NEW x \in Seq(Letter), NEW n \in Nat
    PROVE  \A y : Walked(x, n, y) => y \in Seq(Letter)
<1> DEFINE N == {k \in Nat : \A y : Walked(x, k, y) => y \in Seq(Letter)}
<1>1. 0 \in N
  BY DEF Walked, Walk
<1>2. ASSUME NEW k \in Nat, k \in N PROVE k + 1 \in N
  <2>1. ASSUME NEW y, Walked(x, k + 1, y) PROVE y \in Seq(Letter)
    <3>1. PICK s : Walked(x, k, s) /\ (y = s \/ y \in Edits(s))
      BY <2>1, WalkedBefore
    <3>2. s \in Seq(Letter)
      BY <1>2, <3>1
    <3> QED
      BY <3>1, <3>2, WhatIsEdited
  <2>2. k + 1 \in Nat
    OBVIOUS
  <2> QED
    BY <2>1, <2>2
<1>3. Nat \subseteq N
  <2> HIDE DEF N
  <2> QED
    BY <1>1, <1>2, Climb
<1> QED
  BY <1>3

LEMMA WhatIsWithin ==
    ASSUME NEW x \in Seq(Letter)
    PROVE  \A n \in Nat : \A y : y \in Within(x)[n] <=> Walked(x, n, y)
<1> DEFINE F(within) == [n \in Nat |-> IF n = 0 THEN {x} ELSE within[n - 1] \cup UNION {Edits(s) : s \in within[n - 1]}]
           g == [n \in Nat |-> {y \in Seq(Letter) : Walked(x, n, y)}]
<1>1. ASSUME NEW n \in Nat, NEW y
      PROVE  y \in g[n] <=> Walked(x, n, y)
  BY WordsOfWalks
<1>2. Walked(x, 0, x)
  <2> DEFINE p == [k \in {0} |-> x]
  <2>1. Walk(p, x, 0, x)
    BY DEF Walk
  <2> QED
    BY <2>1 DEF Walked
<1>3. \A y : Walked(x, 0, y) => y = x
  BY DEF Walked, Walk
<1> HIDE DEF g
<1>4. g[0] = {x}
  BY <1>1, <1>2, <1>3
<1>5. ASSUME NEW n \in Nat, n # 0
      PROVE  g[n] = g[n - 1] \cup UNION {Edits(s) : s \in g[n - 1]}
  <2>1. PICK m \in Nat : m = n - 1 /\ n = m + 1
    BY <1>5
  <2>2. ASSUME NEW y, y \in g[n]
        PROVE  y \in g[m] \cup UNION {Edits(s) : s \in g[m]}
    <3>1. Walked(x, m + 1, y)
      BY <1>1, <2>1, <2>2
    <3>2. PICK s : Walked(x, m, s) /\ (y = s \/ y \in Edits(s))
      BY <3>1, WalkedBefore
    <3>3. s \in g[m]
      BY <1>1, <3>2
    <3> QED
      BY <3>2, <3>3
  <2>3. ASSUME NEW y, y \in g[m] \cup UNION {Edits(s) : s \in g[m]}
        PROVE  y \in g[n]
    <3>1. PICK s \in g[m] : y = s \/ y \in Edits(s)
      BY <2>3
    <3>2. Walked(x, m, s)
      BY <1>1
    <3>3. Walked(x, m + 1, y)
      BY <3>1, <3>2, WalksOn
    <3> QED
      BY <1>1, <2>1, <3>3
  <2>4. g[n] = g[m] \cup UNION {Edits(s) : s \in g[m]}
    BY <2>2, <2>3
  <2> QED
    BY <2>1, <2>4
<1>6. g = [n \in Nat |-> g[n]]
  BY DEF g
<1>7. F(g) = g
  <2>1. \A n \in Nat : (IF n = 0 THEN {x} ELSE g[n - 1] \cup UNION {Edits(s) : s \in g[n - 1]}) = g[n]
    BY <1>4, <1>5
  <2> QED
    BY <1>6, <2>1
<1>8. Within(x) = F(Within(x))
  <2>1. \E within : within = F(within)
    BY <1>7
  <2> QED
    BY <2>1 DEF Within
<1> DEFINE N == {n \in Nat : Within(x)[n] = g[n]}
<1>9. PICK w : w = Within(x)
  OBVIOUS
<1>10. \A n \in Nat : w[n] = IF n = 0 THEN {x} ELSE w[n - 1] \cup UNION {Edits(s) : s \in w[n - 1]}
  BY <1>8, <1>9
<1>11. 0 \in N
  BY <1>4, <1>9, <1>10
<1>12. ASSUME NEW n \in Nat, n \in N PROVE n + 1 \in N
  <2>1. n + 1 \in Nat /\ n + 1 # 0 /\ (n + 1) - 1 = n
    OBVIOUS
  <2>2. w[n] = g[n]
    BY <1>9, <1>12
  <2>3. w[n + 1] = w[n] \cup UNION {Edits(s) : s \in w[n]}
    BY <1>10, <2>1
  <2>4. g[n + 1] = g[n] \cup UNION {Edits(s) : s \in g[n]}
    BY <1>5, <2>1
  <2> QED
    BY <1>9, <2>1, <2>2, <2>3, <2>4
<1>13. Nat \subseteq N
  <2> HIDE DEF N
  <2> QED
    BY <1>11, <1>12, Climb
<1> QED
  BY <1>1, <1>13

-----------------------------------------------------------------------------
(* So many edits are enough.  Of the word a cell stands for, the first j   *)
(* letters are still those of `one`, the rest is that of `two` from i on.  *)

Mixed(one, two, i, j) == [k \in 1..j + Len(two) - i |-> IF k <= j THEN one[k] ELSE two[k - j + i]]

IsMixed(one, two, i, j, x) ==
    /\ x \in Seq(Letter) /\ Len(x) = j + Len(two) - i
    /\ \A k \in 1..j : x[k] = one[k]
    /\ \A k \in j + 1..j + Len(two) - i : x[k] = two[k - j + i]

LEMMA MixedWord ==
    ASSUME NEW one \in Seq(Letter), NEW two \in Seq(Letter), NEW i \in 0..Len(two), NEW j \in 0..Len(one),
           NEW x, x = Mixed(one, two, i, j)
    PROVE  IsMixed(one, two, i, j, x)
<1>1. Len(one) \in Nat /\ Len(two) \in Nat /\ j + Len(two) - i \in Nat
  OBVIOUS
<1>2. PICK n \in Nat : n = j + Len(two) - i
  BY <1>1
<1>3. ASSUME NEW k \in 1..n PROVE (IF k <= j THEN one[k] ELSE two[k - j + i]) \in Letter
  <2>1. CASE k <= j
    <3>1. k \in 1..Len(one)
      BY <1>1, <2>1
    <3> QED
      BY <2>1, <3>1
  <2>2. CASE ~(k <= j)
    <3>1. k - j + i \in 1..Len(two)
      BY <1>1, <1>2, <2>2
    <3> QED
      BY <2>2, <3>1
  <2> QED
    BY <2>1, <2>2
<1>4. x = [k \in 1..n |-> IF k <= j THEN one[k] ELSE two[k - j + i]]
  BY <1>2 DEF Mixed
<1>5. x \in [1..n -> Letter]
  BY <1>3, <1>4
<1>6. x \in Seq(Letter) /\ Len(x) = n
  <2>1. PICK z : z = x
    OBVIOUS
  <2>2. z \in [1..n -> Letter]
    BY <1>5, <2>1
  <2>3. z \in Seq(Letter) /\ Len(z) = n
    BY <2>2
  <2> QED
    BY <2>1, <2>3
<1>7. ASSUME NEW k \in 1..j PROVE x[k] = one[k]
  <2>1. k \in 1..n /\ k <= j
    BY <1>1, <1>2
  <2> QED
    BY <1>4, <2>1
<1>8. ASSUME NEW k \in j + 1..n PROVE x[k] = two[k - j + i]
  <2>1. k \in 1..n /\ ~(k <= j)
    BY <1>1, <1>2
  <2> QED
    BY <1>4, <2>1
<1> QED
  BY <1>2, <1>6, <1>7, <1>8 DEF IsMixed

LEMMA MixedEnds ==
    ASSUME NEW one \in Seq(Letter), NEW two \in Seq(Letter)
    PROVE  Mixed(one, two, Len(two), Len(one)) = one /\ Mixed(one, two, 0, 0) = two
<1>1. /\ Len(one) \in Nat /\ Len(two) \in Nat /\ Len(two) \in 0..Len(two) /\ Len(one) \in 0..Len(one)
      /\ 0 \in 0..Len(two) /\ 0 \in 0..Len(one)
  OBVIOUS
<1>2. PICK x, y : x = Mixed(one, two, Len(two), Len(one)) /\ y = Mixed(one, two, 0, 0)
  OBVIOUS
<1>3. /\ x \in Seq(Letter) /\ Len(x) = Len(one) + Len(two) - Len(two)
      /\ \A k \in 1..Len(one) : x[k] = one[k]
  <2>1. IsMixed(one, two, Len(two), Len(one), x)
    BY <1>1, <1>2, MixedWord
  <2> QED
    BY <2>1 DEF IsMixed
<1>4. x = one
  <2>1. Len(x) = Len(one)
    BY <1>1, <1>3
  <2> QED
    BY <1>3, <2>1, SeqEqual
<1>5. /\ y \in Seq(Letter) /\ Len(y) = 0 + Len(two) - 0
      /\ \A k \in 0 + 1..0 + Len(two) - 0 : y[k] = two[k - 0 + 0]
  <2>1. IsMixed(one, two, 0, 0, y)
    BY <1>1, <1>2, MixedWord
  <2> QED
    BY <2>1 DEF IsMixed
<1>6. y = two
  <2>1. Len(y) = Len(two)
    BY <1>1, <1>5
  <2>2. ASSUME NEW k \in 1..Len(y) PROVE y[k] = two[k]
    <3>1. k \in 0 + 1..0 + Len(two) - 0 /\ k - 0 + 0 = k
      BY <1>1, <2>1
    <3> QED
      BY <1>5, <3>1
  <2> QED
    BY <1>5, <2>1, <2>2, SeqEqual
<1> QED
  BY <1>2, <1>4, <1>6

\* From a cell to the one on the left: a letter out.
LEMMA MixedDrops ==
    ASSUME NEW one \in Seq(Letter), NEW two \in Seq(Letter), NEW i \in 0..Len(two), NEW j \in 1..Len(one),
           NEW x, x = Mixed(one, two, i, j), NEW y, y = Mixed(one, two, i, j - 1)
    PROVE  x \in Seq(Letter) /\ y \in Edits(x)
<1>1. Len(one) \in Nat /\ Len(two) \in Nat /\ j \in 0..Len(one) /\ j - 1 \in 0..Len(one)
  OBVIOUS
<1>2. /\ x \in Seq(Letter) /\ Len(x) = j + Len(two) - i
      /\ \A k \in 1..j : x[k] = one[k]
      /\ \A k \in j + 1..j + Len(two) - i : x[k] = two[k - j + i]
  <2>1. IsMixed(one, two, i, j, x)
    BY <1>1, MixedWord
  <2> QED
    BY <2>1 DEF IsMixed
<1>3. /\ y \in Seq(Letter) /\ Len(y) = (j - 1) + Len(two) - i
      /\ \A k \in 1..j - 1 : y[k] = one[k]
      /\ \A k \in (j - 1) + 1..(j - 1) + Len(two) - i : y[k] = two[k - (j - 1) + i]
  <2>1. IsMixed(one, two, i, j - 1, y)
    BY <1>1, MixedWord
  <2> QED
    BY <2>1 DEF IsMixed
<1>4. Len(y) = Len(x) - 1 /\ j <= Len(x) /\ j \in Nat \ {0}
  <2>1. PICK m \in Nat : m = Len(two)
    BY <1>1
  <2>2. Len(x) = j + m - i /\ Len(y) = (j - 1) + m - i
    BY <1>2, <1>3, <2>1
  <2>3. i \in 0..m /\ j \in Nat
    BY <1>1, <2>1
  <2> QED
    BY <2>2, <2>3
<1>5. ASSUME NEW k \in 1..j - 1 PROVE y[k] = x[k]
  <2>1. k \in 1..j
    BY <1>1
  <2> QED
    BY <1>2, <1>3, <2>1
<1>6. ASSUME NEW k \in j..Len(y) PROVE y[k] = x[k + 1]
  <2>1. /\ k \in (j - 1) + 1..(j - 1) + Len(two) - i /\ k + 1 \in j + 1..j + Len(two) - i
        /\ k - (j - 1) + i = (k + 1) - j + i
    BY <1>1, <1>3
  <2>2. y[k] = two[k - (j - 1) + i] /\ x[k + 1] = two[(k + 1) - j + i]
    BY <1>2, <1>3, <2>1
  <2> QED
    BY <2>1, <2>2
<1>7. Dropped(x, y, j)
  BY <1>4, <1>5, <1>6 DEF Dropped
<1> QED
  BY <1>2, <1>3, <1>4, <1>7, EditsAway

\* To the one above: a letter in.
LEMMA MixedGrows ==
    ASSUME NEW one \in Seq(Letter), NEW two \in Seq(Letter), NEW i \in 1..Len(two), NEW j \in 0..Len(one),
           NEW x, x = Mixed(one, two, i, j), NEW y, y = Mixed(one, two, i - 1, j)
    PROVE  x \in Seq(Letter) /\ y \in Edits(x)
<1>1. Len(one) \in Nat /\ Len(two) \in Nat /\ i \in 0..Len(two) /\ i - 1 \in 0..Len(two)
  OBVIOUS
<1>2. /\ x \in Seq(Letter) /\ Len(x) = j + Len(two) - i
      /\ \A k \in 1..j : x[k] = one[k]
      /\ \A k \in j + 1..j + Len(two) - i : x[k] = two[k - j + i]
  <2>1. IsMixed(one, two, i, j, x)
    BY <1>1, MixedWord
  <2> QED
    BY <2>1 DEF IsMixed
<1>3. /\ y \in Seq(Letter) /\ Len(y) = j + Len(two) - (i - 1)
      /\ \A k \in 1..j : y[k] = one[k]
      /\ \A k \in j + 1..j + Len(two) - (i - 1) : y[k] = two[k - j + (i - 1)]
  <2>1. IsMixed(one, two, i - 1, j, y)
    BY <1>1, MixedWord
  <2> QED
    BY <2>1 DEF IsMixed
<1>4. Len(y) = Len(x) + 1 /\ j + 1 <= Len(x) + 1 /\ j + 1 \in Nat \ {0}
  <2>1. PICK m \in Nat : m = Len(two)
    BY <1>1
  <2>2. Len(x) = j + m - i /\ Len(y) = j + m - (i - 1)
    BY <1>2, <1>3, <2>1
  <2>3. i \in 0..m /\ j \in Nat
    BY <1>1, <2>1
  <2> QED
    BY <2>2, <2>3
<1>5. ASSUME NEW k \in 1..(j + 1) - 1 PROVE y[k] = x[k]
  <2>1. k \in 1..j
    BY <1>1
  <2> QED
    BY <1>2, <1>3, <2>1
<1>6. ASSUME NEW k \in j + 1..Len(x) PROVE y[k + 1] = x[k]
  <2>1. /\ k \in j + 1..j + Len(two) - i /\ k + 1 \in j + 1..j + Len(two) - (i - 1)
        /\ (k + 1) - j + (i - 1) = k - j + i
    BY <1>1, <1>2
  <2>2. y[k + 1] = two[(k + 1) - j + (i - 1)] /\ x[k] = two[k - j + i]
    BY <1>2, <1>3, <2>1
  <2> QED
    BY <2>1, <2>2
<1>7. Grown(x, y, j + 1)
  BY <1>4, <1>5, <1>6 DEF Grown
<1> QED
  BY <1>2, <1>3, <1>4, <1>7, EditsAway

\* To the one above on the left: a letter changed, if it differs.
LEMMA MixedChanges ==
    ASSUME NEW one \in Seq(Letter), NEW two \in Seq(Letter), NEW i \in 1..Len(two), NEW j \in 1..Len(one),
           NEW x, x = Mixed(one, two, i, j), NEW y, y = Mixed(one, two, i - 1, j - 1)
    PROVE  x \in Seq(Letter) /\ y \in Edits(x) /\ (two[i] = one[j] => y = x)
<1>1. /\ Len(one) \in Nat /\ Len(two) \in Nat /\ i \in 0..Len(two) /\ i - 1 \in 0..Len(two)
      /\ j \in 0..Len(one) /\ j - 1 \in 0..Len(one)
  OBVIOUS
<1>2. /\ x \in Seq(Letter) /\ Len(x) = j + Len(two) - i
      /\ \A k \in 1..j : x[k] = one[k]
      /\ \A k \in j + 1..j + Len(two) - i : x[k] = two[k - j + i]
  <2>1. IsMixed(one, two, i, j, x)
    BY <1>1, MixedWord
  <2> QED
    BY <2>1 DEF IsMixed
<1>3. /\ y \in Seq(Letter) /\ Len(y) = (j - 1) + Len(two) - (i - 1)
      /\ \A k \in 1..j - 1 : y[k] = one[k]
      /\ \A k \in (j - 1) + 1..(j - 1) + Len(two) - (i - 1) : y[k] = two[k - (j - 1) + (i - 1)]
  <2>1. IsMixed(one, two, i - 1, j - 1, y)
    BY <1>1, MixedWord
  <2> QED
    BY <2>1 DEF IsMixed
<1>4. Len(y) = Len(x) /\ j <= Len(x) /\ j \in Nat \ {0}
  <2>1. PICK m \in Nat : m = Len(two)
    BY <1>1
  <2>2. Len(x) = j + m - i /\ Len(y) = (j - 1) + m - (i - 1)
    BY <1>2, <1>3, <2>1
  <2>3. i \in 0..m /\ j \in Nat
    BY <1>1, <2>1
  <2> QED
    BY <2>2, <2>3
<1>5. ASSUME NEW k \in 1..Len(x), k # j PROVE y[k] = x[k]
  <2>1. CASE k < j
    <3>1. k \in 1..j /\ k \in 1..j - 1
      BY <1>1, <2>1
    <3> QED
      BY <1>2, <1>3, <3>1
  <2>2. CASE k > j
    <3>1. /\ k \in j + 1..j + Len(two) - i /\ k \in (j - 1) + 1..(j - 1) + Len(two) - (i - 1)
          /\ k - (j - 1) + (i - 1) = k - j + i
      BY <1>1, <1>2, <2>2
    <3>2. y[k] = two[k - (j - 1) + (i - 1)] /\ x[k] = two[k - j + i]
      BY <1>2, <1>3, <3>1
    <3> QED
      BY <3>1, <3>2
  <2> QED
    BY <1>1, <1>2, <1>5, <2>1, <2>2
<1>6. Changed(x, y, j)
  BY <1>4, <1>5 DEF Changed
<1>7. ASSUME two[i] = one[j] PROVE y = x
  <2>1. y[j] = two[i] /\ x[j] = one[j]
    <3>1. /\ j \in 1..j /\ j \in (j - 1) + 1..(j - 1) + Len(two) - (i - 1)
          /\ j - (j - 1) + (i - 1) = i
      BY <1>1
    <3>2. y[j] = two[j - (j - 1) + (i - 1)] /\ x[j] = one[j]
      BY <1>2, <1>3, <3>1
    <3> QED
      BY <3>1, <3>2
  <2>2. \A k \in 1..Len(x) : y[k] = x[k]
    BY <1>5, <1>7, <2>1
  <2> QED
    BY <1>2, <1>3, <1>4, <2>2, SeqEqual
<1> QED
  BY <1>2, <1>3, <1>4, <1>6, <1>7, EditsAway

LEMMA EnoughEdits ==
    ASSUME NEW one \in Seq(Letter), NEW two \in Seq(Letter)
    PROVE  Walked(one, LevenshteinDistance(one, two), two)
<1> DEFINE D(i, j) == Dist(one, two, i, j)
           X(i, j) == Mixed(one, two, i, j)
           Leads(i, j) == \A a \in Nat : Walked(one, a, X(i, j)) => Walked(one, a + D(i, j), two)
           P == {c \in (0..Len(two)) \X (0..Len(one)) : Leads(c[1], c[2])}
<1>1. Len(one) \in Nat /\ Len(two) \in Nat /\ Len(two) \in 0..Len(two) /\ Len(one) \in 0..Len(one)
  OBVIOUS
\* One edit more leads on, at one more.
<1>2. ASSUME NEW i, NEW j, NEW h, NEW k, Leads(h, k), NEW x, x = X(i, j), NEW y, y = X(h, k), y \in Edits(x),
             NEW d \in Nat, d = D(h, k), D(i, j) = 1 + d
      PROVE  Leads(i, j)
  <2> SUFFICES ASSUME NEW a \in Nat, Walked(one, a, x) PROVE Walked(one, a + (1 + d), two)
    BY <1>2
  <2>1. Walked(one, a + 1, y)
    BY <1>2, WalksOn
  <2>2. a + 1 \in Nat /\ (a + 1) + d = a + (1 + d)
    OBVIOUS
  <2>3. Walked(one, (a + 1) + d, two)
    BY <1>2, <2>1, <2>2
  <2> QED
    BY <2>2, <2>3
<1>3. ASSUME NEW i \in 0..Len(two), NEW j \in 0..Len(one),
             \A h \in 0..Len(two), k \in 0..Len(one) : h + k < i + j => <<h, k>> \in P
      PROVE  Leads(i, j)
  <2>0. \A h \in 0..Len(two), k \in 0..Len(one) : h + k < i + j => Leads(h, k)
    BY <1>3
  <2> HIDE DEF P, Leads
  <2>1. CASE i = 0 /\ j = 0
    <3>1. X(0, 0) = two /\ D(0, 0) = 0
      BY <1>1, MixedEnds, BorderCells
    <3>2. \A a \in Nat : a + 0 = a
      OBVIOUS
    <3> QED
      BY <2>1, <3>1, <3>2 DEF Leads
  <2>2. CASE i = 0 /\ j # 0
    <3>1. j \in 1..Len(one) /\ j - 1 \in 0..Len(one) /\ 0 \in 0..Len(two) /\ 0 + (j - 1) < 0 + j
      BY <1>1, <2>2
    <3>2. D(0, j) = j /\ D(0, j - 1) = j - 1
      BY <3>1, BorderCells
    <3>3. X(0, j - 1) \in Edits(X(0, j))
      BY <3>1, MixedDrops
    <3>4. Leads(0, j - 1) /\ j - 1 \in Nat /\ j = 1 + (j - 1)
      BY <2>0, <2>2, <3>1
    <3> HIDE DEF X, D
    <3> QED
      BY <1>2, <2>2, <3>2, <3>3, <3>4
  <2>3. CASE i # 0 /\ j = 0
    <3>1. i \in 1..Len(two) /\ i - 1 \in 0..Len(two) /\ 0 \in 0..Len(one) /\ (i - 1) + 0 < i + 0
      BY <1>1, <2>3
    <3>2. D(i, 0) = i /\ D(i - 1, 0) = i - 1
      BY <3>1, BorderCells
    <3>3. X(i - 1, 0) \in Edits(X(i, 0))
      BY <3>1, MixedGrows
    <3>4. Leads(i - 1, 0) /\ i - 1 \in Nat /\ i = 1 + (i - 1)
      BY <2>0, <2>3, <3>1
    <3> HIDE DEF X, D
    <3> QED
      BY <1>2, <2>3, <3>2, <3>3, <3>4
  <2>4. CASE i # 0 /\ j # 0
    <3>1. /\ i \in 1..Len(two) /\ i - 1 \in 0..Len(two) /\ j \in 1..Len(one) /\ j - 1 \in 0..Len(one)
          /\ (i - 1) + (j - 1) < i + j /\ i + (j - 1) < i + j /\ (i - 1) + j < i + j
      BY <1>1, <2>4
    <3>2. Leads(i - 1, j - 1) /\ Leads(i, j - 1) /\ Leads(i - 1, j)
      BY <2>0, <3>1
    <3>3. X(i - 1, j - 1) \in Edits(X(i, j)) /\ X(i, j - 1) \in Edits(X(i, j)) /\ X(i - 1, j) \in Edits(X(i, j))
      <4>1. X(i - 1, j - 1) \in Edits(X(i, j))
        BY <3>1, MixedChanges
      <4>2. X(i, j - 1) \in Edits(X(i, j))
        BY <3>1, MixedDrops
      <4>3. X(i - 1, j) \in Edits(X(i, j))
        BY <3>1, MixedGrows
      <4> QED
        BY <4>1, <4>2, <4>3
    <3>12. ASSUME two[i] = one[j] PROVE X(i - 1, j - 1) = X(i, j)
      BY <3>1, <3>12, MixedChanges
    <3>4. PICK d, a, b, c : d = D(i, j) /\ a = D(i - 1, j - 1) /\ b = D(i, j - 1) /\ c = D(i - 1, j)
      OBVIOUS
    <3>5. a \in Nat /\ b \in Nat /\ c \in Nat
      BY <3>1, <3>4, InnerCells
    <3>6. two[i] = one[j] => d = a
      BY <3>1, <3>4, InnerCells
    <3>7. ASSUME two[i] # one[j] PROVE d \in {1 + a, 1 + b, 1 + c}
      BY <3>1, <3>4, <3>7, InnerCells
    <3> HIDE DEF X, D
    <3>8. CASE two[i] = one[j]
      <4>1. X(i - 1, j - 1) = X(i, j) /\ D(i - 1, j - 1) = D(i, j)
        BY <3>4, <3>6, <3>8, <3>12
      <4> QED
        BY <3>2, <4>1 DEF Leads
    <3>9. CASE d = 1 + a
      <4>1. Leads(i - 1, j - 1) /\ X(i - 1, j - 1) \in Edits(X(i, j)) /\ D(i, j) = 1 + D(i - 1, j - 1)
        BY <3>2, <3>3, <3>4, <3>9
      <4>2. D(i - 1, j - 1) \in Nat
        BY <3>4, <3>5
      <4> QED
        BY <1>2, <4>1, <4>2
    <3>10. CASE d = 1 + b
      BY <1>2, <3>2, <3>3, <3>4, <3>5, <3>10
    <3>11. CASE d = 1 + c
      BY <1>2, <3>2, <3>3, <3>4, <3>5, <3>11
    <3> QED
      BY <3>7, <3>8, <3>9, <3>10, <3>11
  <2> QED
    BY <2>1, <2>2, <2>3, <2>4
<1>4. \A i \in 0..Len(two), j \in 0..Len(one) : <<i, j>> \in P
  <2>1. \A i \in 0..Len(two), j \in 0..Len(one) :
           (\A h \in 0..Len(two), k \in 0..Len(one) : h + k < i + j => <<h, k>> \in P) => <<i, j>> \in P
    BY <1>3
  <2> HIDE DEF P
  <2> QED
    BY <1>1, <2>1, CellByCell
<1>5. Leads(Len(two), Len(one))
  BY <1>1, <1>4
<1>6. Walked(one, 0, one)
  <2> DEFINE p == [k \in {0} |-> one]
  <2>1. Walk(p, one, 0, one)
    BY DEF Walk
  <2> QED
    BY <2>1 DEF Walked
<1>7. X(Len(two), Len(one)) = one
  BY MixedEnds
<1>8. PICK d : d = D(Len(two), Len(one))
  OBVIOUS
<1>9. d \in Nat /\ 0 + d = d
  <2>1. d \in Nat
    BY <1>1, <1>8, CellIsNumber
  <2> QED
    BY <2>1
<1>10. d = LevenshteinDistance(one, two)
  BY <1>8, DistanceIsLastCell DEF Dist
<1> HIDE DEF X, D
<1>11. Walked(one, 0 + d, two)
  BY <1>5, <1>6, <1>7, <1>8
<1> QED
  BY <1>9, <1>10, <1>11

-----------------------------------------------------------------------------
(* And no fewer are enough: an edit moves the distance by one at most.     *)

\* Where two words have the same letters, d apart, the matrix of the one goes
\* on as far behind that of the other as it was.
LEMMA RowsFollow ==
    ASSUME NEW one \in Seq(Letter), NEW x \in Seq(Letter), NEW y \in Seq(Letter),
           NEW a \in Nat, NEW b \in Nat, a <= b, b <= Len(x), NEW d \in Int, NEW e \in Nat, d <= e,
           0 <= a + d, b + d <= Len(y), \A k \in a + 1..b : y[k + d] = x[k],
           \A j \in 0..Len(one) : Dist(one, y, a + d, j) <= Dist(one, x, a, j) + e
    PROVE  \A i \in a..b, j \in 0..Len(one) : Dist(one, y, i + d, j) <= Dist(one, x, i, j) + e
<1> DEFINE Follows(i, j) == Dist(one, y, i + d, j) <= Dist(one, x, i, j) + e
           P == {c \in (0..b) \X (0..Len(one)) : c[1] >= a => Follows(c[1], c[2])}
<1>1. Len(one) \in Nat /\ Len(x) \in Nat /\ Len(y) \in Nat
  OBVIOUS
<1>2. ASSUME NEW i \in 0..b, NEW j \in 0..Len(one), i >= a,
             \A h \in 0..b, k \in 0..Len(one) : h + k < i + j => <<h, k>> \in P
      PROVE  Follows(i, j)
  <2>1. CASE i = a
    BY <2>1
  <2>2. CASE i # a /\ j = 0
    <3>1. i \in 0..Len(x) /\ i + d \in 0..Len(y)
      BY <1>1, <1>2
    <3>2. Dist(one, x, i, 0) = i /\ Dist(one, y, i + d, 0) = i + d
      BY <3>1, BorderCells
    <3>3. i + d <= i + e
      BY <1>1
    <3> QED
      BY <2>2, <3>2, <3>3
  <2>3. CASE i # a /\ j # 0
    <3>1. /\ i - 1 \in 0..b /\ j - 1 \in 0..Len(one) /\ i - 1 >= a /\ i \in a + 1..b
          /\ (i - 1) + (j - 1) < i + j /\ i + (j - 1) < i + j /\ (i - 1) + j < i + j
      BY <1>1, <1>2, <2>3
    <3>2. Follows(i - 1, j - 1) /\ Follows(i, j - 1) /\ Follows(i - 1, j)
      <4>1. <<i - 1, j - 1>> \in P /\ <<i, j - 1>> \in P /\ <<i - 1, j>> \in P
        BY <1>2, <3>1
      <4> QED
        BY <1>2, <3>1, <4>1
    <3>3. PICK u, v, w, z : /\ u = Dist(one, x, i, j) /\ v = Dist(one, x, i - 1, j - 1)
                            /\ w = Dist(one, x, i, j - 1) /\ z = Dist(one, x, i - 1, j)
      OBVIOUS
    <3>4. i \in 1..Len(x) /\ j \in 1..Len(one)
      BY <1>1, <1>2, <2>3, <3>1
    <3>5. u \in Nat /\ v \in Nat /\ w \in Nat /\ z \in Nat
      BY <3>3, <3>4, InnerCells
    <3>6. x[i] = one[j] => u = v
      BY <3>3, <3>4, InnerCells
    <3>7. ASSUME x[i] # one[j] PROVE u \in {1 + v, 1 + w, 1 + z}
      BY <3>3, <3>4, <3>7, InnerCells
    <3>8. PICK g : g = i + d
      OBVIOUS
    <3>9. PICK q, r, s, t : /\ q = Dist(one, y, g, j) /\ r = Dist(one, y, g - 1, j - 1)
                            /\ s = Dist(one, y, g, j - 1) /\ t = Dist(one, y, g - 1, j)
      OBVIOUS
    <3>10. g \in 1..Len(y) /\ g - 1 = (i - 1) + d
      BY <1>1, <1>2, <2>3, <3>1, <3>8
    <3>11. q \in Nat /\ r \in Nat /\ s \in Nat /\ t \in Nat
      BY <3>4, <3>9, <3>10, InnerCells
    <3>12. y[g] = one[j] => q = r
      BY <3>4, <3>9, <3>10, InnerCells
    <3>13. ASSUME y[g] # one[j] PROVE q <= 1 + r /\ q <= 1 + s /\ q <= 1 + t
      BY <3>4, <3>9, <3>10, <3>13, InnerCells
    <3>14. r <= v + e /\ s <= w + e /\ t <= z + e
      BY <3>2, <3>3, <3>8, <3>9, <3>10
    <3>15. y[g] = x[i]
      BY <3>1, <3>8
    <3>16. q <= u + e
      <4>1. CASE x[i] = one[j]
        BY <3>6, <3>12, <3>14, <3>15, <4>1
      <4>2. CASE x[i] # one[j]
        <5>1. u \in {1 + v, 1 + w, 1 + z} /\ q <= 1 + r /\ q <= 1 + s /\ q <= 1 + t
          BY <3>7, <3>13, <3>15, <4>2
        <5> QED
          BY <3>5, <3>11, <3>14, <5>1
      <4> QED
        BY <4>1, <4>2
    <3> QED
      BY <3>3, <3>8, <3>9, <3>16
  <2> QED
    BY <2>1, <2>2, <2>3
<1>3. \A i \in 0..b, j \in 0..Len(one) : <<i, j>> \in P
  <2>1. \A i \in 0..b, j \in 0..Len(one) :
           (\A h \in 0..b, k \in 0..Len(one) : h + k < i + j => <<h, k>> \in P) => <<i, j>> \in P
    BY <1>2
  <2> HIDE DEF P
  <2> QED
    BY <1>1, <2>1, CellByCell
<1>4. ASSUME NEW i \in a..b, NEW j \in 0..Len(one) PROVE Follows(i, j)
  <2>1. i \in 0..b /\ i >= a
    BY <1>1
  <2> QED
    BY <1>3, <2>1
<1> QED
  BY <1>4

\* Up to the first letter that differs the matrix is no greater.
LEMMA RowsBefore ==
    ASSUME NEW one \in Seq(Letter), NEW x \in Seq(Letter), NEW y \in Seq(Letter), NEW b \in Nat,
           b <= Len(x), b <= Len(y), \A k \in 1..b : y[k] = x[k]
    PROVE  \A j \in 0..Len(one) : Dist(one, y, b, j) <= Dist(one, x, b, j)
<1>1. Len(one) \in Nat /\ Len(x) \in Nat /\ Len(y) \in Nat /\ b \in 0..b
  OBVIOUS
<1>2. \A j \in 0..Len(one) : Dist(one, y, 0 + 0, j) <= Dist(one, x, 0, j) + 0
  <2> SUFFICES ASSUME NEW j \in 0..Len(one) PROVE Dist(one, y, 0 + 0, j) <= Dist(one, x, 0, j) + 0
    OBVIOUS
  <2>1. Dist(one, y, 0, j) = j /\ Dist(one, x, 0, j) = j /\ 0 + 0 = 0
    BY BorderCells
  <2> QED
    BY <1>1, <2>1
<1>3. \A k \in 0 + 1..b : y[k + 0] = x[k]
  OBVIOUS
<1>4. 0 \in Nat /\ 0 \in Int /\ 0 <= b /\ 0 <= 0 /\ 0 <= 0 + 0 /\ b + 0 <= Len(y)
  BY <1>1
<1>5. \A i \in 0..b, j \in 0..Len(one) : Dist(one, y, i + 0, j) <= Dist(one, x, i, j) + 0
  BY <1>2, <1>3, <1>4, RowsFollow
<1>6. ASSUME NEW j \in 0..Len(one) PROVE Dist(one, y, b, j) <= Dist(one, x, b, j)
  <2>1. Dist(one, y, b + 0, j) <= Dist(one, x, b, j) + 0
    BY <1>1, <1>5
  <2>2. PICK u, v : u = Dist(one, y, b, j) /\ v = Dist(one, x, b, j)
    OBVIOUS
  <2>3. b \in 0..Len(x) /\ b \in 0..Len(y)
    BY <1>1
  <2>4. u \in Nat /\ v \in Nat
    BY <2>2, <2>3, CellIsNumber
  <2>5. b + 0 = b
    OBVIOUS
  <2> QED
    BY <2>1, <2>2, <2>4, <2>5
<1> QED
  BY <1>6

\* The row of a letter that was changed.
LEMMA ChangedRow ==
    ASSUME NEW one \in Seq(Letter), NEW x \in Seq(Letter), NEW y \in Seq(Letter),
           NEW p \in 1..Len(x), p \in 1..Len(y),
           \A j \in 0..Len(one) : Dist(one, y, p - 1, j) <= Dist(one, x, p - 1, j)
    PROVE  \A j \in 0..Len(one) : Dist(one, y, p, j) <= Dist(one, x, p, j) + 1
<1> DEFINE Follows(j) == Dist(one, y, p, j) <= Dist(one, x, p, j) + 1
           N == {j \in Nat : j \in 0..Len(one) => Follows(j)}
<1>1. Len(one) \in Nat /\ Len(x) \in Nat /\ Len(y) \in Nat /\ p \in 0..Len(x) /\ p \in 0..Len(y)
  OBVIOUS
<1>2. 0 \in N
  <2>1. Dist(one, y, p, 0) = p /\ Dist(one, x, p, 0) = p
    BY <1>1, BorderCells
  <2> QED
    BY <1>1, <2>1
<1>3. ASSUME NEW k \in Nat, k \in N PROVE k + 1 \in N
  <2>1. PICK j \in Nat : j = k + 1 /\ j - 1 = k
    OBVIOUS
  <2>2. ASSUME j \in 0..Len(one) PROVE Follows(j)
    <3>1. j \in 1..Len(one) /\ j - 1 \in 0..Len(one) /\ k \in 0..Len(one)
      BY <1>1, <2>1, <2>2
    <3>2. PICK u, v, w, z : /\ u = Dist(one, x, p, j) /\ v = Dist(one, x, p - 1, j - 1)
                            /\ w = Dist(one, x, p, j - 1) /\ z = Dist(one, x, p - 1, j)
      OBVIOUS
    <3>3. u \in Nat /\ v \in Nat /\ w \in Nat /\ z \in Nat
      BY <3>1, <3>2, InnerCells
    <3>4. x[p] = one[j] => u = v
      BY <3>1, <3>2, InnerCells
    <3>5. ASSUME x[p] # one[j] PROVE u \in {1 + v, 1 + w, 1 + z}
      BY <3>1, <3>2, <3>5, InnerCells
    <3>6. PICK q, r, s, t : /\ q = Dist(one, y, p, j) /\ r = Dist(one, y, p - 1, j - 1)
                            /\ s = Dist(one, y, p, j - 1) /\ t = Dist(one, y, p - 1, j)
      OBVIOUS
    <3>7. q \in Nat /\ r \in Nat /\ s \in Nat /\ t \in Nat
      BY <3>1, <3>6, InnerCells
    <3>8. q <= 1 + t /\ q <= 1 + r /\ q <= 1 + s
      <4>1. j \in 0..Len(one) /\ j > 0
        BY <1>1, <3>1
      <4> QED
        BY <3>6, <4>1, Neighbours
    <3>9. r <= v /\ t <= z
      BY <2>2, <3>1, <3>2, <3>6
    <3>10. s <= w + 1
      <4>1. Follows(k)
        BY <1>3, <3>1
      <4> QED
        BY <2>1, <3>2, <3>6, <4>1
    <3>11. q <= u + 1
      <4>1. CASE u = v
        BY <3>3, <3>7, <3>8, <3>9, <4>1
      <4>2. CASE u = 1 + v
        BY <3>3, <3>7, <3>8, <3>9, <4>2
      <4>3. CASE u = 1 + w
        BY <3>3, <3>7, <3>8, <3>10, <4>3
      <4>4. CASE u = 1 + z
        BY <3>3, <3>7, <3>8, <3>9, <4>4
      <4> QED
        BY <3>4, <3>5, <4>1, <4>2, <4>3, <4>4
    <3> QED
      BY <3>2, <3>6, <3>11
  <2>3. k + 1 \in Nat
    OBVIOUS
  <2> HIDE DEF Follows
  <2> QED
    BY <2>1, <2>2, <2>3
<1>4. Nat \subseteq N
  <2> HIDE DEF N
  <2> QED
    BY <1>2, <1>3, Climb
<1>5. ASSUME NEW j \in 0..Len(one) PROVE Follows(j)
  <2>1. j \in Nat
    BY <1>1
  <2> QED
    BY <1>4, <2>1
<1> QED
  BY <1>5

LEMMA EditMovesByOne ==
    ASSUME NEW one \in Seq(Letter), NEW x \in Seq(Letter), NEW y \in Edits(x)
    PROVE  LevenshteinDistance(one, y) <= LevenshteinDistance(one, x) + 1
<1>1. y \in Seq(Letter)
  BY WhatIsEdited
<1>2. Len(one) \in Nat /\ Len(x) \in Nat /\ Len(y) \in Nat /\ Len(one) \in 0..Len(one)
  BY <1>1
<1>3. SUFFICES Dist(one, y, Len(y), Len(one)) <= Dist(one, x, Len(x), Len(one)) + 1
  BY DistanceIsLastCell DEF Dist
\* From a row of x and one of y on, all letters are the same.
<1>4. ASSUME NEW a \in Nat, a <= Len(x), NEW d \in Int, d <= 1, 0 <= a + d, Len(x) + d = Len(y),
             \A k \in a + 1..Len(x) : y[k + d] = x[k],
             \A j \in 0..Len(one) : Dist(one, y, a + d, j) <= Dist(one, x, a, j) + 1
      PROVE  Dist(one, y, Len(y), Len(one)) <= Dist(one, x, Len(x), Len(one)) + 1
  <2>1. 1 \in Nat /\ Len(x) <= Len(x) /\ Len(x) + d <= Len(y) /\ Len(x) \in a..Len(x)
    BY <1>2, <1>4
  <2>2. \A i \in a..Len(x), j \in 0..Len(one) : Dist(one, y, i + d, j) <= Dist(one, x, i, j) + 1
    BY <1>1, <1>2, <1>4, <2>1, RowsFollow
  <2> QED
    BY <1>2, <1>4, <2>1, <2>2
<1>5. ASSUME NEW p \in 1..Len(x), Dropped(x, y, p)
      PROVE  Dist(one, y, Len(y), Len(one)) <= Dist(one, x, Len(x), Len(one)) + 1
  <2>1. /\ p \in Nat /\ p <= Len(x) /\ p - 1 \in Nat /\ p - 1 <= Len(x) /\ p - 1 <= Len(y) /\ p + (-1) = p - 1
        /\ -1 \in Int /\ -1 <= 1 /\ 0 <= p + (-1) /\ Len(x) + (-1) = Len(y)
    BY <1>2, <1>5 DEF Dropped
  <2>2. \A k \in 1..p - 1 : y[k] = x[k]
    BY <1>5 DEF Dropped
  <2>3. \A j \in 0..Len(one) : Dist(one, y, p - 1, j) <= Dist(one, x, p - 1, j)
    BY <1>1, <2>1, <2>2, RowsBefore
  <2>4. ASSUME NEW j \in 0..Len(one) PROVE Dist(one, y, p - 1, j) <= Dist(one, x, p, j) + 1
    <3>1. PICK u, v, w : u = Dist(one, y, p - 1, j) /\ v = Dist(one, x, p - 1, j) /\ w = Dist(one, x, p, j)
      OBVIOUS
    <3>2. p - 1 \in 0..Len(y) /\ p - 1 \in 0..Len(x) /\ p \in 0..Len(x)
      BY <1>2, <2>1
    <3>3. u \in Nat /\ v \in Nat /\ w \in Nat
      BY <1>1, <3>1, <3>2, CellIsNumber
    <3>4. u <= v /\ v <= 1 + w
      BY <2>3, <3>1, Neighbours
    <3>5. u <= w + 1
      BY <3>3, <3>4
    <3> QED
      BY <3>1, <3>5
  <2>5. ASSUME NEW k \in p + 1..Len(x) PROVE y[k + (-1)] = x[k]
    <3>1. k - 1 \in p..Len(y) /\ (k - 1) + 1 = k /\ k + (-1) = k - 1
      BY <1>2, <2>1
    <3> QED
      BY <1>5, <3>1 DEF Dropped
  <2>6. \A j \in 0..Len(one) : Dist(one, y, p + (-1), j) <= Dist(one, x, p, j) + 1
    BY <2>1, <2>4
  <2> QED
    BY <1>4, <2>1, <2>5, <2>6
<1>6. ASSUME NEW p \in 1..Len(x) + 1, Grown(x, y, p)
      PROVE  Dist(one, y, Len(y), Len(one)) <= Dist(one, x, Len(x), Len(one)) + 1
  <2>1. /\ p - 1 \in Nat /\ p - 1 <= Len(x) /\ p - 1 <= Len(y) /\ (p - 1) + 1 = p /\ p \in 1..Len(y)
        /\ 1 \in Int /\ 1 <= 1 /\ 0 <= (p - 1) + 1 /\ Len(x) + 1 = Len(y)
    BY <1>2, <1>6 DEF Grown
  <2>2. \A k \in 1..p - 1 : y[k] = x[k]
    BY <1>6 DEF Grown
  <2>3. \A j \in 0..Len(one) : Dist(one, y, p - 1, j) <= Dist(one, x, p - 1, j)
    BY <1>1, <2>1, <2>2, RowsBefore
  <2>4. ASSUME NEW j \in 0..Len(one) PROVE Dist(one, y, p, j) <= Dist(one, x, p - 1, j) + 1
    <3>1. PICK u, v, w : u = Dist(one, y, p, j) /\ v = Dist(one, y, p - 1, j) /\ w = Dist(one, x, p - 1, j)
      OBVIOUS
    <3>2. p \in 0..Len(y) /\ p - 1 \in 0..Len(y) /\ p - 1 \in 0..Len(x)
      BY <1>2, <2>1
    <3>3. u \in Nat /\ v \in Nat /\ w \in Nat
      BY <1>1, <3>1, <3>2, CellIsNumber
    <3>4. u <= 1 + v /\ v <= w
      BY <1>1, <2>1, <2>3, <3>1, Neighbours
    <3>5. u <= w + 1
      BY <3>3, <3>4
    <3> QED
      BY <3>1, <3>5
  <2>5. \A k \in (p - 1) + 1..Len(x) : y[k + 1] = x[k]
    BY <1>6, <2>1 DEF Grown
  <2>6. \A j \in 0..Len(one) : Dist(one, y, (p - 1) + 1, j) <= Dist(one, x, p - 1, j) + 1
    BY <2>1, <2>4
  <2> QED
    BY <1>4, <2>1, <2>5, <2>6
<1>7. ASSUME NEW p \in 1..Len(x), Changed(x, y, p)
      PROVE  Dist(one, y, Len(y), Len(one)) <= Dist(one, x, Len(x), Len(one)) + 1
  <2>1. /\ p \in Nat /\ p <= Len(x) /\ p - 1 \in Nat /\ p - 1 <= Len(x) /\ p - 1 <= Len(y) /\ p + 0 = p
        /\ 0 \in Int /\ 0 <= 1 /\ 0 <= p + 0 /\ Len(x) + 0 = Len(y) /\ p \in 1..Len(y)
    BY <1>2, <1>7 DEF Changed
  <2>2. ASSUME NEW k \in 1..p - 1 PROVE y[k] = x[k]
    <3>1. k \in 1..Len(x) /\ k # p
      BY <1>2, <2>1
    <3> QED
      BY <1>7, <3>1 DEF Changed
  <2>3. \A j \in 0..Len(one) : Dist(one, y, p - 1, j) <= Dist(one, x, p - 1, j)
    BY <1>1, <2>1, <2>2, RowsBefore
  <2>4. \A j \in 0..Len(one) : Dist(one, y, p, j) <= Dist(one, x, p, j) + 1
    BY <1>1, <2>1, <2>3, ChangedRow
  <2>5. ASSUME NEW k \in p + 1..Len(x) PROVE y[k + 0] = x[k]
    <3>1. k \in 1..Len(x) /\ k # p /\ k + 0 = k
      BY <1>2, <2>1
    <3> QED
      BY <1>7, <3>1 DEF Changed
  <2>6. \A j \in 0..Len(one) : Dist(one, y, p + 0, j) <= Dist(one, x, p, j) + 1
    BY <2>1, <2>4
  <2> QED
    BY <1>4, <2>1, <2>5, <2>6
<1> QED
  BY <1>5, <1>6, <1>7, WhatIsEdited

LEMMA NoDistanceToItself ==
    ASSUME NEW one \in Seq(Letter)
    PROVE  LevenshteinDistance(one, one) = 0
<1> DEFINE N == {i \in Nat : i \in 0..Len(one) => Dist(one, one, i, i) = 0}
<1>1. Len(one) \in Nat /\ Len(one) \in 0..Len(one) /\ 0 \in 0..Len(one)
  OBVIOUS
<1>2. 0 \in N
  BY <1>1, BorderCells
<1>3. ASSUME NEW k \in Nat, k \in N PROVE k + 1 \in N
  <2>1. PICK i \in Nat : i = k + 1 /\ i - 1 = k
    OBVIOUS
  <2>2. ASSUME i \in 0..Len(one) PROVE Dist(one, one, i, i) = 0
    <3>1. i \in 1..Len(one) /\ k \in 0..Len(one)
      BY <1>1, <2>1, <2>2
    <3>2. Dist(one, one, i, i) = Dist(one, one, i - 1, i - 1)
      BY <3>1, InnerCells
    <3> QED
      BY <1>3, <2>1, <3>1, <3>2
  <2>3. k + 1 \in Nat
    OBVIOUS
  <2> QED
    BY <2>1, <2>2, <2>3
<1>4. Nat \subseteq N
  <2> HIDE DEF N
  <2> QED
    BY <1>2, <1>3, Climb
<1> QED
  BY <1>1, <1>4, DistanceIsLastCell DEF Dist

LEMMA NoFewerEdits ==
    ASSUME NEW one \in Seq(Letter), NEW n \in Nat, NEW y, Walked(one, n, y)
    PROVE  LevenshteinDistance(one, y) <= n
<1> DEFINE N == {k \in Nat : \A z : Walked(one, k, z) => LevenshteinDistance(one, z) <= k}
<1>1. 0 \in N
  <2>1. ASSUME NEW z, Walked(one, 0, z) PROVE z = one
    BY <2>1 DEF Walked, Walk
  <2>2. 0 <= 0
    OBVIOUS
  <2> QED
    BY <2>1, <2>2, NoDistanceToItself
<1>2. ASSUME NEW k \in Nat, k \in N PROVE k + 1 \in N
  <2>1. ASSUME NEW z, Walked(one, k + 1, z) PROVE LevenshteinDistance(one, z) <= k + 1
    <3>1. PICK x : Walked(one, k, x) /\ (z = x \/ z \in Edits(x))
      BY <2>1, WalkedBefore
    <3>2. x \in Seq(Letter)
      BY <3>1, WordsOfWalks
    <3>3. z \in Seq(Letter)
      BY <3>1, <3>2, WhatIsEdited
    <3>4. PICK d, e : d = LevenshteinDistance(one, x) /\ e = LevenshteinDistance(one, z)
      OBVIOUS
    <3>5. d \in Nat /\ e \in Nat
      BY <3>2, <3>3, <3>4, DistanceIsNumber
    <3>6. d <= k
      BY <1>2, <3>1, <3>4
    <3>7. e = d \/ e <= d + 1
      BY <3>1, <3>2, <3>4, EditMovesByOne
    <3>8. e <= k + 1
      BY <3>5, <3>6, <3>7
    <3> QED
      BY <3>4, <3>8
  <2>2. k + 1 \in Nat
    OBVIOUS
  <2> QED
    BY <2>1, <2>2
<1>3. Nat \subseteq N
  <2> HIDE DEF N
  <2> QED
    BY <1>1, <1>2, Climb
<1> QED
  BY <1>3

\* The matrix's last cell is the least number of edits.
LEMMA LeastEdits ==
    ASSUME NEW one \in Seq(Letter), NEW two \in Seq(Letter), NEW d, d = LevenshteinDistance(one, two)
    PROVE  d \in Nat /\ two \in Within(one)[d] /\ (d > 0 => two \notin Within(one)[d - 1])
<1>1. d \in Nat
  BY DistanceIsNumber
<1>2. two \in Within(one)[d]
  BY <1>1, EnoughEdits, WhatIsWithin
<1>3. ASSUME d > 0, two \in Within(one)[d - 1] PROVE FALSE
  <2>1. PICK n : n = d - 1
    OBVIOUS
  <2>2. n \in Nat /\ ~(d <= n)
    BY <1>1, <1>3, <2>1
  <2>3. Walked(one, n, two)
    BY <1>3, <2>1, <2>2, WhatIsWithin
  <2> QED
    BY <2>2, <2>3, NoFewerEdits
<1> QED
  BY <1>1, <1>2, <1>3

LEMMA MeasuredRight ==
    ASSUME compared.left \in Seq(Letter), compared.right \in Seq(Letter),
           compared.distance = LevenshteinDistance(compared.left, compared.right)
    PROVE  DistanceIsLeastEdits
<1>1. PICK one, two, d : one = compared.left /\ two = compared.right /\ d = compared.distance
  OBVIOUS
<1>2. /\ two \in Within(one)[d]
      /\ d > 0 => two \notin Within(one)[d - 1]
  BY <1>1, LeastEdits
<1>3. /\ compared.right \in Within(compared.left)[compared.distance]
      /\ compared.distance > 0 => compared.right \notin Within(compared.left)[compared.distance - 1]
  BY <1>1, <1>2
<1> QED
  BY <1>3, Zenon DEF DistanceIsLeastEdits, Within

-----------------------------------------------------------------------------
(***************************************************************************)
(* Imports: a product that is there stays, and a number on record is that  *)
(* of a part whose product is there; a distance on record is that of its   *)
(* two words.                                                              *)
(***************************************************************************)
ImportRows ==
    /\ product \in [Parts -> {"none", "bare", "fitted", "full"}]
    /\ \A n \in number : \E p \in Parts : n \in p.others /\ product[p] # "none"
    /\ names \subseteq Manufacturer \cup {MapCategory(p.category) : p \in Parts}
    /\ \A p \in skipped : p \in Parts /\ product[p] # "none"
    /\ compared \in [left: Text, right: Text, distance: Nat]
    /\ compared.distance = LevenshteinDistance(compared.left, compared.right)

ImportFits(w) ==
    pc[w] \notin {"idle", "read"} /\ job[w].op \in ImportOp =>
      /\ saw[w] \in Seq(Parts) /\ Len(saw[w]) > 0
      /\ pc[w] \in {"next", "then", "finish"} => product[saw[w][1]] # "none"

ImportInv == ImportRows /\ \A w \in Worker : ImportFits(w)

ImportGrows == \A p \in Parts : product[p] # "none" => product'[p] # "none"

LEMMA ImportFitsOn ==
    ASSUME ImportGrows, NEW v \in Worker, Rests(v), ImportFits(v)
    PROVE  ImportFits(v)'
<1>1. pc'[v] = pc[v] /\ job'[v] = job[v] /\ saw'[v] = saw[v]
  BY DEF Rests
<1>2. saw[v] \in Seq(Parts) /\ Len(saw[v]) > 0 => saw[v][1] \in Parts
  OBVIOUS
<1> QED
  BY <1>1, <1>2 DEF ImportFits, ImportGrows

LEMMA ImportOthers ==
    ASSUME RequestsInv, ImportInv, NEW w \in Worker, Handled(w), ImportRows', ImportGrows, ImportFits(w)'
    PROVE  ImportInv'
<1>1. \A v \in Worker : v # w => Rests(v)
  BY OthersRest
<1> QED
  BY <1>1, ImportFitsOn DEF ImportInv

LEMMA ImportEnds ==
    ASSUME RequestsInv, ImportInv, NEW w \in Worker, pc[w] # "idle", Answer(w), ImportRows', ImportGrows
    PROVE  ImportInv'
<1>1. pc'[w] = "idle"
  BY WhatIsAnswered
<1>2. ImportFits(w)'
  BY <1>1 DEF ImportFits
<1> QED
  BY <1>2, ImportOthers, AnswerHandles

LEMMA ImportStays ==
    ASSUME ImportRows, UNCHANGED catalog
    PROVE  ImportRows' /\ ImportGrows
BY DEF catalog, ImportRows, ImportGrows

LEMMA ImportAtRest ==
    ASSUME RequestsInv, ImportInv, ImportRests
    PROVE  ImportInv'
<1>1. ImportRows' /\ ImportGrows
  BY ImportStays DEF ImportRests, ImportInv
<1>2. ASSUME NEW v \in Worker
      PROVE  ImportFits(v)'
  <2>1. CASE Rests(v)
    BY <1>1, <2>1, ImportFitsOn DEF ImportInv
  <2>2. CASE pc'[v] \in {"idle", "read"}
    BY <2>2 DEF ImportFits
  <2>3. CASE job'[v] = job[v] /\ job[v].op \notin ImportOp
    BY <2>3 DEF ImportFits
  <2> QED
    BY <2>1, <2>2, <2>3 DEF ImportRests, Elsewhere
<1> QED
  BY <1>1, <1>2 DEF ImportInv

\* The part a run is at.
LEMMA CurrentPart ==
    ASSUME ImportInv, NEW w \in Worker, pc[w] \notin {"idle", "read"}, job[w].op \in ImportOp
    PROVE  /\ saw[w] \in Seq(Parts) /\ Len(saw[w]) \in Nat /\ Len(saw[w]) > 0
           /\ Current(w) = saw[w][1] /\ Current(w) \in Parts
           /\ pc[w] \in {"next", "then", "finish"} => product[Current(w)] # "none"
<1>1. saw[w] \in Seq(Parts) /\ Len(saw[w]) > 0
  BY DEF ImportInv, ImportFits
<1>2. Len(saw[w]) \in Nat /\ Current(w) = saw[w][1] /\ saw[w][1] \in Parts
  BY <1>1 DEF Current
<1> QED
  BY <1>1, <1>2 DEF ImportInv, ImportFits

\* On to the next part, if there is one.
LEMMA ImportGoesToNext ==
    ASSUME RequestsInv, ImportInv, NEW w \in Worker, pc[w] \notin {"idle", "read"}, job[w].op \in ImportOp,
           NextPart(w), ImportRows', ImportGrows
    PROVE  ImportInv'
<1>1. saw[w] \in Seq(Parts) /\ Len(saw[w]) \in Nat /\ Len(saw[w]) > 0
  BY CurrentPart
<1>2. CASE Len(saw[w]) = 1
  BY <1>2, ImportEnds DEF NextPart
<1>3. CASE Len(saw[w]) # 1
  <2>1. PICK rest : rest = Tail(saw[w])
    OBVIOUS
  <2>2. rest \in Seq(Parts) /\ Len(rest) > 0
    <3>1. PICK now : now = saw[w]
      OBVIOUS
    <3>2. now \in Seq(Parts) /\ Len(now) \in Nat /\ Len(now) > 0 /\ Len(now) # 1 /\ rest = Tail(now)
      BY <1>1, <1>3, <2>1, <3>1
    <3>3. now # <<>> /\ Len(now) - 1 > 0
      <4>1. now # <<>>
        BY <3>2
      <4>2. PICK n : n = Len(now)
        OBVIOUS
      <4>3. n \in Nat /\ n > 0 /\ n # 1
        BY <3>2, <4>2
      <4>4. n - 1 > 0
        BY <4>3
      <4> QED
        BY <4>1, <4>2, <4>4
    <3>4. rest \in Seq(Parts) /\ Len(rest) = Len(now) - 1
      BY <3>2, <3>3, HeadTailProperties
    <3> QED
      BY <3>3, <3>4
  <2>3. See(w, rest, "check")
    BY <1>3, <2>1 DEF NextPart
  <2>4. pc'[w] = "check" /\ job'[w] = job[w] /\ saw'[w] = rest /\ Handled(w)
    BY <2>3, WhatIsSeen, SeeHandles, StepNames
  <2>5. ImportFits(w)'
    BY <2>2, <2>4 DEF ImportFits
  <2> QED
    BY <2>4, <2>5, ImportOthers
<1> QED
  BY <1>2, <1>3

LEMMA ImportGoesOn ==
    ASSUME RequestsInv, ImportInv, NEW w \in Worker, pc[w] \notin {"idle", "read"}, job[w].op \in ImportOp,
           NEW p \in {"ask", "write", "commit", "next", "then", "finish"}, Goto(w, p), ImportRows', ImportGrows,
           p \in {"next", "then", "finish"} => product'[Current(w)] # "none"
    PROVE  ImportInv'
<1>1. saw[w] \in Seq(Parts) /\ Len(saw[w]) > 0 /\ Current(w) = saw[w][1]
  BY CurrentPart
<1>2. pc'[w] = p /\ job'[w] = job[w] /\ saw'[w] = saw[w] /\ Handled(w)
  BY WhatGoesOn, GotoHandles, StepNames
<1>3. ImportFits(w)'
  BY <1>1, <1>2 DEF ImportFits
<1> QED
  BY <1>2, <1>3, ImportOthers

LEMMA ImportJob ==
    ASSUME RequestsInv, NEW w \in Worker, pc[w] # "idle", job[w].op \in ImportOp
    PROVE  Source(w) \in Manufacturer
<1>1. job[w] \in Request
  BY JobIsRequest
<1> QED
  BY <1>1, ImportAssumption DEF Source

LEMMA DeliveredParts ==
    ASSUME NEW m \in Manufacturer
    PROVE  Delivered[m] \in Seq(Parts)
<1>1. Delivered[m] \in Seq(Range(Curated[m]))
  BY ImportAssumption
<1>2. \A i \in DOMAIN Delivered[m] : Delivered[m][i] \in Parts
  BY DEF Parts, Range
<1>3. Len(Delivered[m]) \in Nat /\ DOMAIN Delivered[m] = 1..Len(Delivered[m])
      /\ Delivered[m] = [i \in 1..Len(Delivered[m]) |-> Delivered[m][i]]
  BY <1>1
<1> QED
  BY <1>2, <1>3, SeqDef

\* A number belongs to one part.
LEMMA NumbersAreOwn ==
    ASSUME NEW p \in Parts, NEW q \in Parts, NEW n, n \in p.others, n \in q.others
    PROVE  p = q
<1>1. ASSUME NEW r \in Parts
      PROVE  \E m \in Manufacturer : r \in Range(Curated[m])
  <2>1. PICK m \in Manufacturer : r \in Range(Delivered[m])
    BY <1>1 DEF Parts
  <2>2. Delivered[m] \in Seq(Range(Curated[m]))
    BY ImportAssumption
  <2>3. PICK i \in DOMAIN Delivered[m] : r = Delivered[m][i]
    BY <2>1 DEF Range
  <2> QED
    BY <2>2, <2>3
<1> QED
  BY <1>1, CatalogsAssumption

LEMMA BeginsImport ==
    ASSUME RequestsInv, ImportInv, NEW w \in Worker, BeginImport(w)
    PROVE  ImportInv'
<1>1. /\ pc[w] = "read" /\ job[w].op = "IMPORT" /\ names' = names \cup {Source(w)}
      /\ UNCHANGED <<product, number, skipped, compared>>
  BY DEF BeginImport, At
<1>2. Source(w) \in Manufacturer
  BY <1>1, ImportJob DEF ImportOp
<1>3. ImportRows' /\ ImportGrows
  BY <1>1, <1>2 DEF ImportInv, ImportRows, ImportGrows
<1>4. PICK parts : parts = Delivered[Source(w)]
  OBVIOUS
<1>5. parts \in Seq(Parts)
  BY <1>2, <1>4, DeliveredParts
<1>6. CASE parts = <<>>
  BY <1>1, <1>3, <1>4, <1>6, ImportEnds DEF BeginImport
<1>7. CASE parts # <<>>
  <2>1. See(w, parts, "check")
    BY <1>4, <1>7 DEF BeginImport
  <2>2. pc'[w] = "check" /\ job'[w] = job[w] /\ saw'[w] = parts /\ Handled(w)
    BY <1>1, <2>1, WhatIsSeen, SeeHandles, StepNames
  <2>3. Len(parts) > 0
    BY <1>5, <1>7
  <2>4. ImportFits(w)'
    BY <1>5, <2>2, <2>3 DEF ImportFits
  <2> QED
    BY <1>3, <2>2, <2>4, ImportOthers
<1> QED
  BY <1>6, <1>7

\* A part is left out because its product is there.
LEMMA SkipsPart ==
    ASSUME RequestsInv, ImportInv, NEW w \in Worker, pc[w] \notin {"idle", "read"}, job[w].op = "IMPORT",
           product[Current(w)] # "none", Skip(w)
    PROVE  ImportInv'
<1>1. Current(w) \in Parts
  BY CurrentPart DEF ImportOp
<1>2. ImportRows' /\ ImportGrows
  BY <1>1 DEF ImportInv, ImportRows, ImportGrows, Skip
<1> QED
  BY <1>2, ImportGoesToNext DEF Skip, ImportOp

LEMMA ImportJustGoesOn ==
    ASSUME RequestsInv, ImportInv, NEW w \in Worker, pc[w] \notin {"idle", "read"}, job[w].op = "IMPORT",
           NEW p \in {"ask", "write"}, GoOn(w, p)
    PROVE  ImportInv'
<1>1. ImportRows' /\ ImportGrows
  BY ImportStays DEF ImportInv, GoOn
<1> QED
  BY <1>1, ImportGoesOn DEF GoOn, ImportOp

LEMMA FindsExistingProduct ==
    ASSUME RequestsInv, ImportInv, NEW w \in Worker, FindExistingProduct(w)
    PROVE  ImportInv'
<1>1. pc[w] \in {"check", "ask"} /\ job[w].op = "IMPORT"
  BY DEF FindExistingProduct, At
<1>2. Current(w) \in Parts
  BY <1>1, CurrentPart DEF ImportOp
<1>3. CASE GoOn(w, "ask") \/ GoOn(w, "write")
  BY <1>1, <1>3, ImportJustGoesOn
<1>4. CASE product[Current(w)] # "none" /\ Skip(w)
  BY <1>1, <1>4, SkipsPart
<1>5. CASE Current(w).others \cap number # {} /\ Skip(w)
  <2>1. PICK n \in number : n \in Current(w).others
    BY <1>5
  <2>2. PICK q \in Parts : n \in q.others /\ product[q] # "none"
    BY <2>1 DEF ImportInv, ImportRows
  <2>3. q = Current(w)
    BY <1>2, <2>1, <2>2, NumbersAreOwn
  <2> QED
    BY <1>1, <1>5, <2>2, <2>3, SkipsPart
<1> QED
  BY <1>3, <1>4, <1>5 DEF FindExistingProduct

\* The product of the current part comes further.
LEMMA ProductComesFurther ==
    ASSUME ImportInv, NEW p \in Parts, NEW far \in {"bare", "fitted", "full"},
           product' = [product EXCEPT ![p] = far], UNCHANGED <<number, names, skipped, compared>>
    PROVE  ImportRows' /\ ImportGrows /\ product'[p] # "none"
<1>1. /\ product' \in [Parts -> {"none", "bare", "fitted", "full"}] /\ product'[p] = far
      /\ \A q \in Parts : q # p => product'[q] = product[q]
  BY DEF ImportInv, ImportRows
<1>2. ImportGrows
  BY <1>1 DEF ImportGrows
<1>3. \A n \in number : \E q \in Parts : n \in q.others /\ product'[q] # "none"
  BY <1>2 DEF ImportInv, ImportRows, ImportGrows
<1>4. \A q \in skipped : q \in Parts /\ product'[q] # "none"
  BY <1>2 DEF ImportInv, ImportRows, ImportGrows
<1>5. ImportRows'
  BY <1>1, <1>3, <1>4 DEF ImportInv, ImportRows
<1> QED
  BY <1>1, <1>2, <1>5

LEMMA CreatesProduct ==
    ASSUME RequestsInv, ImportInv, NEW w \in Worker, CreateProduct(w)
    PROVE  ImportInv'
<1>1. pc[w] \in {"write", "commit"} /\ job[w].op = "IMPORT"
  BY DEF CreateProduct, At
<1>2. Current(w) \in Parts
  BY <1>1, CurrentPart DEF ImportOp
<1>3. CASE /\ names' = names \cup {Source(w), MapCategory(Current(w).category)} /\ Goto(w, "commit")
           /\ UNCHANGED <<product, number, skipped, compared>>
  <2>1. Source(w) \in Manufacturer
    BY <1>1, ImportJob DEF ImportOp
  <2>2. ImportRows' /\ ImportGrows
    BY <1>2, <1>3, <2>1 DEF ImportInv, ImportRows, ImportGrows
  <2> QED
    BY <1>1, <1>3, <2>2, ImportGoesOn DEF ImportOp
<1>4. CASE /\ product' = [product EXCEPT ![Current(w)] = "bare"] /\ Goto(w, "next")
           /\ UNCHANGED <<number, names, skipped, compared>>
  <2>1. ImportRows' /\ ImportGrows /\ product'[Current(w)] # "none"
    BY <1>2, <1>4, ProductComesFurther
  <2> QED
    BY <1>1, <1>4, <2>1, ImportGoesOn DEF ImportOp
<1> QED
  BY <1>3, <1>4 DEF CreateProduct

LEMMA CreatesAlternatePartNumbers ==
    ASSUME RequestsInv, ImportInv, NEW w \in Worker, CreateAlternatePartNumbers(w)
    PROVE  ImportInv'
<1>1. /\ pc[w] = "next" /\ job[w].op = "IMPORT" /\ Goto(w, "then")
      /\ \E created \in SUBSET Current(w).others : number' = number \cup created
      /\ UNCHANGED <<product, names, skipped, compared>>
  BY DEF CreateAlternatePartNumbers, At
<1>2. Current(w) \in Parts /\ product[Current(w)] # "none"
  BY <1>1, CurrentPart DEF ImportOp
<1>3. ImportRows' /\ ImportGrows
  BY <1>1, <1>2 DEF ImportInv, ImportRows, ImportGrows
<1> QED
  BY <1>1, <1>2, <1>3, ImportGoesOn DEF ImportOp

LEMMA FinishesPart ==
    ASSUME RequestsInv, ImportInv, NEW w \in Worker, CreateFitments(w) \/ CreateSource(w)
    PROVE  ImportInv'
<1>1. pc[w] \in {"then", "finish"} /\ job[w].op = "IMPORT"
  BY DEF CreateFitments, CreateSource, At
<1>2. Current(w) \in Parts
  BY <1>1, CurrentPart DEF ImportOp
<1>3. CASE CreateFitments(w)
  <2>1. ImportRows' /\ ImportGrows /\ product'[Current(w)] # "none"
    BY <1>2, <1>3, ProductComesFurther DEF CreateFitments
  <2> QED
    BY <1>1, <1>3, <2>1, ImportGoesOn DEF CreateFitments, ImportOp
<1>4. CASE CreateSource(w)
  <2>1. ImportRows' /\ ImportGrows
    BY <1>2, <1>4, ProductComesFurther DEF CreateSource
  <2> QED
    BY <1>1, <1>4, <2>1, ImportGoesToNext DEF CreateSource, ImportOp
<1> QED
  BY <1>3, <1>4

LEMMA ComparesNumbers ==
    ASSUME RequestsInv, ImportInv, NEW w \in Worker, CalculateSimilarity(w)
    PROVE  ImportInv'
<1>1. pc[w] # "idle" /\ Answer(w) /\ UNCHANGED <<product, number, names, skipped>>
  BY DEF CalculateSimilarity, At
<1>2. PICK one \in Text, two \in Text :
         compared' = [left |-> one, right |-> two, distance |-> LevenshteinDistance(one, two)]
  BY DEF CalculateSimilarity
<1>3. one \in Seq(Letter) /\ two \in Seq(Letter)
  BY ImportAssumption
<1>4. PICK d : d = LevenshteinDistance(one, two)
  OBVIOUS
<1>5. d \in Nat
  BY <1>3, <1>4, DistanceIsNumber
<1>6. /\ compared' \in [left: Text, right: Text, distance: Nat]
      /\ compared'.left = one /\ compared'.right = two /\ compared'.distance = d
  BY <1>2, <1>4, <1>5
<1>7. ImportRows' /\ ImportGrows
  <2>1. compared'.distance = LevenshteinDistance(compared'.left, compared'.right)
    BY <1>4, <1>6
  <2> QED
    BY <1>1, <1>6, <2>1 DEF ImportInv, ImportRows, ImportGrows
<1> QED
  BY <1>1, <1>7, ImportEnds

LEMMA ImportKeeps ==
    ASSUME RequestsInv, ImportInv, NEW w \in Worker, ImportStep(w)
    PROVE  ImportInv'
<1>1. CASE PartFails(w)
  <2>1. ImportRows' /\ ImportGrows
    BY <1>1, ImportStays DEF ImportInv, PartFails
  <2> QED
    BY <1>1, <2>1, ImportGoesToNext DEF PartFails, ImportOp
<1>2. CASE ImportDies(w)
  <2>1. ImportRows' /\ ImportGrows
    BY <1>2, ImportStays DEF ImportInv, ImportDies
  <2> QED
    BY <1>2, <2>1, ImportEnds DEF ImportDies
<1> QED
  BY <1>1, <1>2, BeginsImport, FindsExistingProduct, CreatesProduct, CreatesAlternatePartNumbers, FinishesPart,
     ComparesNumbers DEF ImportStep

LEMMA ImportStart == ImportInit /\ RequestsInit => ImportInv
<1> SUFFICES ASSUME ImportInit, RequestsInit PROVE ImportInv
  OBVIOUS
<1>1. compared \in [left: Text, right: Text, distance: Nat]
  BY ImportAssumption DEF ImportInit
<1>2. compared.left = <<>> /\ compared.right = <<>> /\ compared.distance = 0
  BY DEF ImportInit
<1>3. LevenshteinDistance(<<>>, <<>>) = 0
  <2>1. <<>> \in Seq(Letter)
    BY ImportAssumption
  <2> QED
    BY <2>1, NoDistanceToItself
<1>4. compared.distance = LevenshteinDistance(compared.left, compared.right)
  BY <1>2, <1>3
<1> QED
  BY <1>1, <1>4 DEF ImportInit, RequestsInit, ImportInv, ImportRows, ImportFits

LEMMA ImportsHold == FrontOfficeSpec => []ImportInv
<1>1. FrontOfficeInit => ImportInv
  BY ImportStart DEF FrontOfficeInit
<1>2. RequestsInv /\ ImportInv /\ [FrontOfficeNext]_<<requests, front>> => ImportInv'
  <2>1. ASSUME RequestsInv, ImportInv, FrontOfficeNext PROVE ImportInv'
    BY <2>1, FrontOfficeMoves, ImportAtRest, ImportKeeps
  <2>2. ASSUME RequestsInv, ImportInv, UNCHANGED <<requests, front>> PROVE ImportInv'
    BY <2>2, FrontOfficeStutters, ImportAtRest
  <2> QED
    BY <2>1, <2>2
<1> QED
  BY <1>1, <1>2, RequestsHold, PTL DEF FrontOfficeSpec

LEMMA ImportsAreTyped == ImportInv => ImportTypeOK /\ ImportTellsPartsApart
<1> SUFFICES ASSUME ImportInv PROVE ImportTypeOK /\ ImportTellsPartsApart
  OBVIOUS
<1>1. DOMAIN product = Parts /\ ImportRows
  BY DEF ImportInv, ImportRows
<1>2. number \subseteq UNION {p.others : p \in DOMAIN product}
  BY <1>1 DEF ImportRows
<1>3. ImportTypeOK /\ SkippedOnlyIfThere
  BY <1>1, <1>2 DEF ImportRows, ImportTypeOK, SkippedOnlyIfThere
<1>4. compared.left \in Seq(Letter) /\ compared.right \in Seq(Letter)
  BY <1>1, ImportAssumption DEF ImportRows
<1>5. DistanceIsLeastEdits
  BY <1>1, <1>4, MeasuredRight DEF ImportRows
<1> QED
  BY <1>3, <1>5 DEF ImportTellsPartsApart

-----------------------------------------------------------------------------
(***************************************************************************)
(* What the components keep, together.                                     *)
(***************************************************************************)
\* OfficeIsOnRecord, for any number of workers, requests, rows, members and
\* entries, however the requests interleave: the audit trail of a logged row
\* and of a member ends in what is there, a tenant's default language is one it
\* supports, a user is offboarded once; a signup has its tenant, subscription,
\* role and user exactly if it is told it succeeded, and is refused or fails
\* only for a rival; and the totals of a report on the books agree.
THEOREM OfficeOnRecord == FrontOfficeSpec => []OfficeIsOnRecord
<1>1. ReportsInv => ReportsAgree
  BY DEF ReportsInv
<1>2. AdministrationIsOnRecord /\ SignupsAreWhole /\ ReportsAgree => OfficeIsOnRecord
  BY DEF OfficeIsOnRecord
<1> QED
  BY <1>1, <1>2, OnRecord, WholeSignups, AdministrationHolds, OnboardingHolds, ReportsHold, PTL

\* FrontOfficeTypeOK: what the handlers of the front office keep of requests,
\* carts, claims, parts, settings, signups and reports keeps its type.
THEOREM FrontOfficeTyped == FrontOfficeSpec => []FrontOfficeTypeOK
<1>1. RequestsInv => RequestsTypeOK
  BY DEF RequestsInv
<1>2. OrderingInv => OrderingTypeOK
  BY DEF OrderingInv, OrderingRows
<1>3. AftercareInv => AftercareTypeOK
  BY DEF AftercareInv, AftercareRows
<1>4. AdministrationInv => AdministrationTypeOK
  BY DEF AdministrationInv, AdministrationRows
<1>5. RequestsTypeOK /\ OrderingTypeOK /\ AftercareTypeOK /\ ImportTypeOK
         /\ AdministrationTypeOK /\ OnboardingTypeOK /\ ReportsTypeOK => FrontOfficeTypeOK
  BY DEF FrontOfficeTypeOK
<1> QED
  BY <1>1, <1>2, <1>3, <1>4, <1>5, ImportsAreTyped, WholeSignups, ReportsAreTyped, RequestsHold, OrderingHolds,
     AftercareHolds, ImportsHold, AdministrationHolds, OnboardingHolds, ReportsHold, PTL

\* ImportTellsPartsApart, for any files to import, any words compared and any
\* catalog in which no two parts share a number: a part is left out of an
\* import only because a product of that very part is there, however many
\* imports run at once and wherever they fail; and the distance found for two
\* numbers is the least number of letters to put in, take out or change.
THEOREM PartsAreTold == FrontOfficeSpec => []ImportTellsPartsApart
<1> QED
  BY ImportsAreTyped, ImportsHold, PTL
=============================================================================

---------------------------- MODULE Subscriptions ----------------------------
(***************************************************************************)
(* Tenants and their subscriptions: the platform administrator's calls     *)
(* (TenantAdminService), self-service signup, the subscription webhooks of *)
(* Stripe (BillingService), and the plan's limits where users and branches *)
(* are added.  A webhook may be delivered again and in any order.  Plans   *)
(* are fixed, and names, languages and currencies are left out.            *)
(***************************************************************************)
EXTENDS Requests

CONSTANTS
    Account,      \* tenants; one subdomain and one administrator's address each
    Plan,
    Seat,         \* what a plan limits: users, branches
    Limit,        \* per plan and seat, the limit; 0 and an absent one are no limit
    StripeBill    \* invoices of Stripe

AdminOp == {"SIGN_UP", "SUSPEND", "REACTIVATE", "TERMINATE", "CHANGE_PLAN", "CANCEL_PLAN", "RENEW"}
TenantOp == {"PAY_PLAN", "UPGRADE", "ADD_SEAT", "GRANT_SEAT"}
HookOp == {"HOOK_PAID", "HOOK_FAILED", "HOOK_UPDATED", "HOOK_DELETED"}
AccountOp == AdminOp \cup TenantOp \cup HookOp
SubscriptionStatus == {"ACTIVE", "TRIAL", "PAST_DUE", "CANCELED"}

AccountRow == [status: {"ACTIVE", "SUSPENDED", "TERMINATED"}, reason: {"none", "admin", "dunning"}, plan: Plan]
SubscriptionRow == [status: SubscriptionStatus, plan: Plan, ends: BOOLEAN, linked: BOOLEAN]

\* `last` says that a failed charge was the third attempt or a later one.
ASSUME AccountAssumption ==
    /\ IsFiniteSet(Worker) /\ IsFiniteSet(Plan) /\ Plan # {}
    /\ Unread \notin AccountRow /\ Unread \notin SubscriptionRow
    /\ Limit \in [Plan -> [Seat -> Nat]] /\ "users" \in Seat
    /\ \A r \in Request : r.op \in AccountOp =>
          r \in [op: AccountOp, account: Account, plan: Plan, seat: Seat, charge: StripeBill,
                 last: BOOLEAN, status: SubscriptionStatus, by: Nat]

VARIABLES
    account,        \* tenant rows
    subscription,   \* and the subscription of each
    seats,          \* per tenant, its users and branches
    granted,        \* per tenant, the users the platform created
    booked,         \* per invoice of Stripe, BillingInvoice rows PAID
    acknowledged    \* and PAYMENT_SUCCESS events logged

accounts == <<account, subscription, seats, granted, booked, acknowledged>>
money == <<booked, acknowledged>>

AccountTypeOK ==
    /\ account \in [Account -> AccountRow \cup {Unread}]
    /\ subscription \in [Account -> SubscriptionRow \cup {Unread}]
    /\ seats \in [Account -> [Seat -> Nat]] /\ granted \in [Account -> Nat]
    /\ booked \in [StripeBill -> Nat] /\ acknowledged \in [StripeBill -> Nat]
    /\ \A a \in Account : account[a] = Unread <=> subscription[a] = Unread

AccountInit ==
    /\ account = [a \in Account |-> Unread] /\ subscription = [a \in Account |-> Unread]
    /\ seats = [a \in Account |-> [s \in Seat |-> 0]] /\ granted = [a \in Account |-> 0]
    /\ booked = [i \in StripeBill |-> 0] /\ acknowledged = [i \in StripeBill |-> 0]

Who(w) == job[w].account

\* Every write below is by id: no row here has a version that is checked.
SetAccount(w, status, reason) ==
    account' = [account EXCEPT ![Who(w)].status = status, ![Who(w)].reason = reason]
SetSubscription(w, status) ==
    subscription' = [subscription EXCEPT ![Who(w)].status = status]
AddSeat(a, seat) == seats' = [seats EXCEPT ![a][seat] = @ + 1]

\* Reads the tenant: it exists and is not `not`.
ReadAccount(w, not) ==
    LET a == account[Who(w)] IN
    SeeIf(w, a # Unread /\ a.status # not, a, "commit") /\ UNCHANGED accounts

-----------------------------------------------------------------------------
(* The platform's administrators.                                          *)

\* The tenant first, its subscription in a statement of its own.
SignUpTenantFirst(w) ==
    LET a == Who(w) IN
    \/ /\ At(w, "SIGN_UP", "read")
       /\ SeeIf(w, account[a] = Unread, Unread, "commit")
       /\ UNCHANGED accounts
    \/ /\ At(w, "SIGN_UP", "commit")
       /\ account[a] = Unread
       /\ account' = [account EXCEPT ![a] = [status |-> "ACTIVE", reason |-> "none", plan |-> job[w].plan]]
       /\ AddSeat(a, "users")
       /\ Goto(w, "next")
       /\ UNCHANGED <<subscription, granted, money>>
    \/ /\ At(w, "SIGN_UP", "next")
       /\ subscription' = [subscription EXCEPT ![a] =
              [status |-> "ACTIVE", plan |-> job[w].plan, ends |-> FALSE, linked |-> FALSE]]
       /\ Answer(w)
       /\ UNCHANGED <<account, seats, granted, money>>

\* signup and createTenant: the subdomain is free, hash the password, then
\* one transaction creates tenant, subscription, role and first user.
SignUp(w) ==
    LET a == Who(w) IN
    \/ /\ At(w, "SIGN_UP", "read")
       /\ SeeIf(w, account[a] = Unread, Unread, "commit")
       /\ UNCHANGED accounts
    \/ /\ At(w, "SIGN_UP", "commit")
       /\ account[a] = Unread
       /\ account' = [account EXCEPT ![a] = [status |-> "ACTIVE", reason |-> "none", plan |-> job[w].plan]]
       /\ subscription' = [subscription EXCEPT ![a] =
              [status |-> "ACTIVE", plan |-> job[w].plan, ends |-> FALSE, linked |-> FALSE]]
       /\ AddSeat(a, "users")
       /\ Answer(w)
       /\ UNCHANGED <<granted, money>>

SuspendTenant(w) ==
    \/ At(w, "SUSPEND", "read") /\ ReadAccount(w, "SUSPENDED")
    \/ /\ At(w, "SUSPEND", "commit")
       /\ SetAccount(w, "SUSPENDED", "admin")
       /\ Answer(w)
       /\ UNCHANGED <<subscription, seats, granted, money>>

ReactivateTenant(w) ==
    \/ At(w, "REACTIVATE", "read") /\ ReadAccount(w, "ACTIVE")
    \/ /\ At(w, "REACTIVATE", "commit")
       /\ SetAccount(w, "ACTIVE", "none")
       /\ Answer(w)
       /\ UNCHANGED <<subscription, seats, granted, money>>

\* deleteTenant keeps the row, and the reason of a suspension.
DeleteTenant(w) ==
    \/ At(w, "TERMINATE", "read") /\ ReadAccount(w, "none")
    \/ /\ At(w, "TERMINATE", "commit")
       /\ SetAccount(w, "TERMINATED", account[Who(w)].reason)
       /\ Answer(w)
       /\ UNCHANGED <<subscription, seats, granted, money>>

\* changeTenantPlan writes the tenant and its subscription together.
ChangeTenantPlan(w) ==
    \/ At(w, "CHANGE_PLAN", "read") /\ ReadAccount(w, "none")
    \/ /\ At(w, "CHANGE_PLAN", "commit")
       /\ account' = [account EXCEPT ![Who(w)].plan = job[w].plan]
       /\ subscription' = [subscription EXCEPT ![Who(w)].plan = job[w].plan, ![Who(w)].status = "ACTIVE"]
       /\ Answer(w)
       /\ UNCHANGED <<seats, granted, money>>

CancelSubscription(w) ==
    \/ At(w, "CANCEL_PLAN", "read") /\ ReadAccount(w, "none")
    \/ /\ At(w, "CANCEL_PLAN", "commit")
       /\ subscription' = [subscription EXCEPT ![Who(w)].status = "CANCELED", ![Who(w)].ends = TRUE]
       /\ Answer(w)
       /\ UNCHANGED <<account, seats, granted, money>>

ForceRenewal(w) ==
    \/ At(w, "RENEW", "read") /\ ReadAccount(w, "none")
    \/ /\ At(w, "RENEW", "commit")
       /\ SetSubscription(w, "ACTIVE")
       /\ Answer(w)
       /\ UNCHANGED <<account, seats, granted, money>>

\* createUser of the platform looks at no plan.
GrantSeat(w) ==
    /\ At(w, "GRANT_SEAT", "read")
    /\ account[Who(w)] # Unread
    /\ AddSeat(Who(w), "users")
    /\ granted' = [granted EXCEPT ![Who(w)] = @ + 1]
    /\ Answer(w)
    /\ UNCHANGED <<account, subscription, money>>

-----------------------------------------------------------------------------
(* The tenant's own calls.                                                 *)

\* applyPayment; the event it logs names no invoice of Stripe.
ApplyPayment(w) ==
    \/ At(w, "PAY_PLAN", "read") /\ ReadAccount(w, "none")
    \/ /\ At(w, "PAY_PLAN", "commit")
       /\ subscription' = [subscription EXCEPT ![Who(w)].status = "ACTIVE", ![Who(w)].ends = TRUE]
       /\ Answer(w)
       /\ UNCHANGED <<account, seats, granted, money>>

\* handlePlanChange reckons with the end date, and throws where none is set;
\* it leaves the tenant's own plan as it was.
HandlePlanChange(w) ==
    LET s == subscription[Who(w)] IN
    \/ /\ At(w, "UPGRADE", "read")
       /\ SeeIf(w, s # Unread /\ s.ends, s, "commit")
       /\ UNCHANGED accounts
    \/ /\ At(w, "UPGRADE", "commit")
       /\ subscription' = [subscription EXCEPT ![Who(w)].plan = job[w].plan, ![Who(w)].status = "ACTIVE"]
       /\ Answer(w)
       /\ UNCHANGED <<account, seats, granted, money>>

\* One more seat is within the plan when `taken` are counted.
Within(plan, seat, taken) == Limit[plan][seat] = 0 \/ taken < Limit[plan][seat]

\* PlanEnforcementService reads the subscription, then counts; the service
\* then creates the user or the branch.
CreateSeat(w) ==
    LET a == Who(w)
        s == subscription[a] IN
    \/ /\ At(w, "ADD_SEAT", "read")
       /\ SeeIf(w, s # Unread /\ s.status \notin {"PAST_DUE", "CANCELED"}, s.plan, "check")
       /\ UNCHANGED accounts
    \/ /\ At(w, "ADD_SEAT", "check")
       /\ SeeIf(w, Within(saw[w], job[w].seat, seats[a][job[w].seat]), saw[w], "write")
       /\ UNCHANGED accounts
    \/ /\ At(w, "ADD_SEAT", "write")
       /\ AddSeat(a, job[w].seat)
       /\ Answer(w)
       /\ UNCHANGED <<account, subscription, granted, money>>

-----------------------------------------------------------------------------
(* Webhooks, statement by statement.                                       *)

\* The subscription that carries Stripe's id; an event for none is dropped.
FindLinked(w) ==
    LET s == subscription[Who(w)] IN
    SeeIf(w, s # Unread /\ s.linked, s, "write") /\ UNCHANGED accounts

\* The invoice is looked for under Stripe's id, which no row has as its key:
\* a row is created every time.
BookPayment(w) == booked' = [booked EXCEPT ![job[w].charge] = @ + 1] /\ UNCHANGED acknowledged
LogPayment(w) == acknowledged' = [acknowledged EXCEPT ![job[w].charge] = @ + 1] /\ UNCHANGED booked

\* The event is logged where the invoice should be booked.
LogsFirst(w) ==
    \/ At(w, "HOOK_PAID", "read") /\ FindLinked(w)
    \/ /\ At(w, "HOOK_PAID", "write")
       /\ LogPayment(w)
       /\ Goto(w, "commit")
       /\ UNCHANGED <<account, subscription, seats, granted>>
    \/ /\ At(w, "HOOK_PAID", "commit")
       /\ BookPayment(w)
       /\ Answer(w)
       /\ UNCHANGED <<account, subscription, seats, granted>>

\* processStripePaymentSuccess: invoice, subscription, a suspension for
\* dunning lifted, event.
ProcessStripePaymentSuccess(w) ==
    LET a == account[Who(w)] IN
    \/ At(w, "HOOK_PAID", "read") /\ FindLinked(w)
    \/ /\ At(w, "HOOK_PAID", "write")
       /\ BookPayment(w)
       /\ Goto(w, "next")
       /\ UNCHANGED <<account, subscription, seats, granted>>
    \/ /\ At(w, "HOOK_PAID", "next")
       /\ SetSubscription(w, "ACTIVE")
       /\ Goto(w, "then")
       /\ UNCHANGED <<account, seats, granted, money>>
    \/ /\ At(w, "HOOK_PAID", "then")
       /\ Goto(w, IF a.status = "SUSPENDED" /\ a.reason = "dunning" THEN "finish" ELSE "commit")
       /\ UNCHANGED accounts
    \/ /\ At(w, "HOOK_PAID", "finish")
       /\ SetAccount(w, "ACTIVE", "none")
       /\ Goto(w, "commit")
       /\ UNCHANGED <<subscription, seats, granted, money>>
    \/ /\ At(w, "HOOK_PAID", "commit")
       /\ LogPayment(w)
       /\ Answer(w)
       /\ UNCHANGED <<account, subscription, seats, granted>>

\* processStripePaymentFailure suspends after the third attempt, whatever the
\* tenant's status and reason; its last statement, an event of a type that
\* the schema's enum does not have, always throws.
ProcessStripePaymentFailure(w) ==
    \/ At(w, "HOOK_FAILED", "read") /\ FindLinked(w)
    \/ /\ At(w, "HOOK_FAILED", "write")
       /\ SetSubscription(w, "PAST_DUE")
       /\ IF job[w].last THEN Goto(w, "finish") ELSE Answer(w)
       /\ UNCHANGED <<account, seats, granted, money>>
    \/ /\ At(w, "HOOK_FAILED", "finish")
       /\ SetAccount(w, "SUSPENDED", "dunning")
       /\ Answer(w)
       /\ UNCHANGED <<subscription, seats, granted, money>>

\* processStripeSubscriptionUpdate: by the tenant, one statement.
ProcessStripeSubscriptionUpdate(w) ==
    /\ At(w, "HOOK_UPDATED", "read")
    /\ subscription[Who(w)] # Unread
    /\ subscription' = [subscription EXCEPT ![Who(w)].status = job[w].status, ![Who(w)].linked = TRUE]
    /\ Answer(w)
    /\ UNCHANGED <<account, seats, granted, money>>

ProcessStripeSubscriptionDeleted(w) ==
    /\ At(w, "HOOK_DELETED", "read")
    /\ subscription[Who(w)] # Unread
    /\ SetSubscription(w, "CANCELED")
    /\ Answer(w)
    /\ UNCHANGED <<account, seats, granted, money>>

AccountFails(w) ==
    /\ pc[w] # "idle" /\ job[w].op \in AccountOp
    /\ Answer(w)
    /\ UNCHANGED accounts

AccountStep(w) ==
    \/ SignUp(w) \/ SuspendTenant(w) \/ ReactivateTenant(w) \/ DeleteTenant(w) \/ ChangeTenantPlan(w)
    \/ CancelSubscription(w) \/ ForceRenewal(w) \/ GrantSeat(w)
    \/ ApplyPayment(w) \/ HandlePlanChange(w) \/ CreateSeat(w)
    \/ ProcessStripePaymentSuccess(w) \/ ProcessStripePaymentFailure(w)
    \/ ProcessStripeSubscriptionUpdate(w) \/ ProcessStripeSubscriptionDeleted(w)
    \/ AccountFails(w)

-----------------------------------------------------------------------------
\* The check of a limit and the seat it allows are steps apart, so requests
\* that run together may exceed it, whatever plans change meanwhile; but by
\* no more than the requests that can have been let in at once.
SeatsExceedOnlyByRaces ==
    \A a \in Account, s \in Seat :
        LET most == Max({Limit[p][s] : p \in Plan})
            extra == IF s = "users" THEN granted[a] ELSE 0 IN
        (\A p \in Plan : Limit[p][s] > 0)
        => seats[a][s] - extra <= most - 1 + Cardinality(Worker)

\* However often a payment webhook is delivered and wherever it breaks off, a
\* payment that was acknowledged in the billing events was booked as often.
AcknowledgedPaymentsAreBooked == \A i \in StripeBill : acknowledged[i] <= booked[i]

\* What a tenant is granted and charged follows its plan and its payments,
\* though neither is decided and written in one step.
AccountsAreKept == SeatsExceedOnlyByRaces /\ AcknowledgedPaymentsAreBooked
=============================================================================

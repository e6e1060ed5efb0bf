------------------------------ MODULE Onboarding ------------------------------
(***************************************************************************)
(* Self-service signup (OnboardingService): the checks read one after the  *)
(* other, the FREE plan is found or created, and one transaction creates   *)
(* the tenant and all that belongs to it.                                  *)
(***************************************************************************)
EXTENDS Requests

CONSTANTS
    Subdomain,
    Email,
    NoSignup

Signup == [op: {"SIGN_UP"}, subdomain: Subdomain, email: Email, by: Nat]

ASSUME OnboardingAssumption ==
    /\ NoSignup \notin Request
    /\ \A r \in Request : r.op = "SIGN_UP" => r \in Signup

VARIABLES
    tenantOf,    \* the signup that created the tenant of a subdomain,
    subscribed,  \* its subscription,
    staffed,     \* its role with all permissions, and the audit entry,
    userOf,      \* and the user of an address
    freePlan,    \* the signup that created the plan FREE
    answered     \* the answers given, with what was there when each began

onboarding == <<tenantOf, subscribed, staffed, userOf, freePlan, answered>>

SignupAnswer == {"CREATED", "CONFLICT", "ERROR", "FAILED"}

OnboardingTypeOK ==
    /\ tenantOf \in [Subdomain -> Signup \cup {NoSignup}] /\ userOf \in [Email -> Signup \cup {NoSignup}]
    /\ subscribed \subseteq Signup /\ staffed \subseteq Signup
    /\ freePlan \in Signup \cup {NoSignup}
    /\ \A a \in answered :
          /\ a.of \in Signup /\ a.says \in SignupAnswer
          /\ a.after = Unread \/ a.after.done \subseteq Signup

OnboardingInit ==
    /\ tenantOf = [s \in Subdomain |-> NoSignup] /\ userOf = [e \in Email |-> NoSignup]
    /\ subscribed = {} /\ staffed = {} /\ freePlan = NoSignup /\ answered = {}

Succeeded == {tenantOf[s] : s \in Subdomain} \ {NoSignup}
Now == [done |-> Succeeded, plan |-> freePlan]

Says(w, what, before) ==
    /\ answered' = answered \cup {[of |-> job[w], says |-> what, after |-> before]}
    /\ Answer(w)

\* The unique subdomain and address, and the plan's name.
Unique(r) == tenantOf[r.subdomain] = NoSignup /\ userOf[r.email] = NoSignup

CheckSubdomain(w) ==
    /\ At(w, "SIGN_UP", "read")
    /\ IF tenantOf[job[w].subdomain] = NoSignup
       THEN See(w, Now, "check") /\ UNCHANGED answered
       ELSE Says(w, "CONFLICT", Now)
    /\ UNCHANGED <<tenantOf, subscribed, staffed, userOf, freePlan>>

\* The address is not asked about.
SkipsEmail(w) ==
    /\ At(w, "SIGN_UP", "check")
    /\ Goto(w, "ask")
    /\ UNCHANGED onboarding

CheckEmail(w) ==
    /\ At(w, "SIGN_UP", "check")
    /\ IF userOf[job[w].email] = NoSignup
       THEN Goto(w, "ask") /\ UNCHANGED answered
       ELSE Says(w, "CONFLICT", saw[w])
    /\ UNCHANGED <<tenantOf, subscribed, staffed, userOf, freePlan>>

\* resolveFreePlan looks for the plan ...
FindFreePlan(w) ==
    /\ At(w, "SIGN_UP", "ask")
    /\ Goto(w, IF freePlan = NoSignup THEN "write" ELSE "commit")
    /\ UNCHANGED onboarding

\* ... and creates it, unless another has by now: its name is unique, and
\* nothing catches the error.
CreateFreePlan(w) ==
    /\ At(w, "SIGN_UP", "write")
    /\ IF freePlan = NoSignup
       THEN freePlan' = job[w] /\ Goto(w, "commit") /\ UNCHANGED answered
       ELSE Says(w, "ERROR", saw[w]) /\ UNCHANGED freePlan
    /\ UNCHANGED <<tenantOf, subscribed, staffed, userOf>>

\* The transaction, which a unique index may refuse.
CreateTenant(w) ==
    LET r == job[w] IN
    /\ At(w, "SIGN_UP", "commit")
    /\ IF Unique(r)
       THEN /\ tenantOf' = [tenantOf EXCEPT ![r.subdomain] = r]
            /\ subscribed' = subscribed \cup {r}
            /\ staffed' = staffed \cup {r}
            /\ userOf' = [userOf EXCEPT ![r.email] = r]
            /\ Says(w, "CREATED", saw[w])
       ELSE Says(w, "ERROR", saw[w]) /\ UNCHANGED <<tenantOf, subscribed, staffed, userOf>>
    /\ UNCHANGED freePlan

\* The database fails, anywhere; the transaction leaves nothing.
SignupFails(w) ==
    /\ pc[w] # "idle" /\ job[w].op = "SIGN_UP"
    /\ Says(w, "FAILED", saw[w])
    /\ UNCHANGED <<tenantOf, subscribed, staffed, userOf, freePlan>>

OnboardingStep(w) ==
    \/ CheckSubdomain(w) \/ CheckEmail(w) \/ FindFreePlan(w) \/ CreateFreePlan(w)
    \/ CreateTenant(w) \/ SignupFails(w)

-----------------------------------------------------------------------------
Collide(q, r) == q.subdomain = r.subdomain \/ q.email = r.email

\* However signups overlap: one that is told it succeeded has its tenant, its
\* subscription, its role and its user, whatever came after, and no other has
\* any; one is refused only for an address or subdomain that is taken; and an
\* error tells of a rival that came between: one that succeeded with the same
\* subdomain or address after it began, or that created the plan.
SignupsAreWhole ==
    /\ \A a \in answered :
          {a.says = "CREATED"}
          = {tenantOf[a.of.subdomain] = a.of, userOf[a.of.email] = a.of, a.of \in subscribed, a.of \in staffed}
    /\ subscribed \cup staffed \cup Succeeded \subseteq {a.of : a \in answered}
    /\ \A a \in answered :
          /\ a.says = "CONFLICT" => \E q \in Succeeded : Collide(q, a.of)
          /\ a.says = "ERROR" =>
                \/ \E q \in Succeeded \ a.after.done : Collide(q, a.of)
                \/ freePlan \notin {a.after.plan, a.of}
    /\ Succeeded # {} => freePlan # NoSignup
=============================================================================

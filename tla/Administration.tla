---------------------------- MODULE Administration ----------------------------
(***************************************************************************)
(* What the platform's administrators keep (TenantAdminService and the     *)
(* services of platform-admin) and the offboarding of a tenant's users:    *)
(* each change of a logged row reads the row first and then, in one        *)
(* transaction, writes it by id together with the audit entry.  A row is   *)
(* its value, a number; 0 is none.                                         *)
(***************************************************************************)
EXTENDS Requests, SequencesExt

CONSTANTS
    Member,      \* a tenant's users
    Language

\* What is kept, a row of each, and two plans: "basic" has tenants on it.
Logged == {"plan", "basic", "currency", "rate", "ticket", "tenant", "subscription"}
Unlogged == {"flag", "config", "key"}
Row == Logged \cup Unlogged
InUse == {"basic"}
There == {"basic", "tenant", "subscription"}

\* The rows each operation may name.
Rows ==
    [CREATE_PLAN |-> {"plan", "basic"}, UPDATE_PLAN |-> {"plan", "basic"}, DELETE_PLAN |-> {"plan", "basic"},
     CREATE_CURRENCY |-> {"currency"}, UPDATE_CURRENCY |-> {"currency"}, SET_RATE |-> {"rate"},
     CREATE_TICKET |-> {"ticket"}, UPDATE_TICKET |-> {"ticket"},
     UPDATE_TENANT |-> {"tenant"}, OVERRIDE_CYCLE |-> {"subscription"},
     CREATE_FLAG |-> {"flag"}, UPDATE_FLAG |-> {"flag"}, DELETE_FLAG |-> {"flag"},
     SET_CONFIG |-> {"config"}, REMOVE_CONFIG |-> {"config"}, CREATE_KEY |-> {"key"}, DELETE_KEY |-> {"key"}]

RowOp == DOMAIN Rows
MemberOp == {"SUSPEND_MEMBER", "OFFBOARD"}
AdministrationOp == RowOp \cup MemberOp \cup {"SET_LANGUAGES"}

\* {} stands for languages, and "" for a default, that the call leaves out.
ASSUME AdministrationAssumption ==
    /\ Language # {} /\ "" \notin Language
    /\ \A r \in Request : r.op \in AdministrationOp =>
          /\ r \in [op: AdministrationOp, row: Row, value: Nat \ {0}, member: Member, first: Language \cup {""},
                    spoken: SUBSET Language, by: Nat]
          /\ r.op \in RowOp => r.row \in Rows[r.op]

VARIABLES
    row,         \* the value of each row
    trail,       \* per logged row, its audit entries in the order of their commits
    languages,   \* a tenant's default and supported languages
    spokenTrail, \* and the audit entries about them
    member,      \* users
    memberTrail  \* and the audit entries about each

administration == <<row, trail, languages, spokenTrail, member, memberTrail>>
rows == <<row, trail>>
settings == <<languages, spokenTrail>>
members == <<member, memberTrail>>

MemberStatus == {"ACTIVE", "SUSPENDED", "DISABLED"}
Settings == [first: Language, spoken: SUBSET Language]
TrailEntry(value) == [old: value, new: value]

AdministrationTypeOK ==
    /\ row \in [Row -> Nat] /\ trail \in [Logged -> Seq(TrailEntry(Nat))]
    /\ languages \in Settings /\ spokenTrail \in Seq(TrailEntry(Settings))
    /\ member \in [Member -> [status: MemberStatus, version: Nat, roles: BOOLEAN]]
    /\ memberTrail \in [Member -> Seq(TrailEntry(MemberStatus))]

AdministrationInit ==
    /\ row = [r \in Row |-> IF r \in There THEN 1 ELSE 0] /\ trail = [r \in Logged |-> <<>>]
    /\ languages \in {[first |-> l, spoken |-> Language] : l \in Language} /\ spokenTrail = <<>>
    /\ member = [m \in Member |-> [status |-> "ACTIVE", version |-> 0, roles |-> TRUE]]
    /\ memberTrail = [m \in Member |-> <<>>]

-----------------------------------------------------------------------------
(* Rows.                                                                   *)

\* The row and its audit entry are written together; the entry's old value
\* is the one that was read.
WriteRow(w, r, old, new) ==
    /\ row' = [row EXCEPT ![r] = new]
    /\ trail' = IF r \in Logged THEN [trail EXCEPT ![r] = Append(@, [old |-> old, new |-> new])] ELSE trail
    /\ Answer(w)
    /\ UNCHANGED <<settings, members>>

\* Creation: one transaction.
Create(w, op) ==
    LET r == job[w].row IN
    /\ At(w, op, "read")
    /\ row[r] = 0
    /\ WriteRow(w, r, 0, job[w].value)

CreatePlan(w) == Create(w, "CREATE_PLAN")
CreateCurrency(w) == Create(w, "CREATE_CURRENCY")
CreateSupportTicket(w) == Create(w, "CREATE_TICKET")
CreateFlag(w) == Create(w, "CREATE_FLAG")
CreateKey(w) == Create(w, "CREATE_KEY")

\* The row is read before the transaction ...
ReadRow(w, op, ok) ==
    /\ At(w, op, "read")
    /\ SeeIf(w, ok, row[job[w].row], "commit")
    /\ UNCHANGED administration

\* ... which changes it, if it is still there ...
Update(w, op) ==
    LET r == job[w].row IN
    \/ ReadRow(w, op, row[r] # 0)
    \/ At(w, op, "commit") /\ row[r] # 0 /\ WriteRow(w, r, saw[w], job[w].value)

UpdatePlan(w) == Update(w, "UPDATE_PLAN")
UpdateCurrency(w) == Update(w, "UPDATE_CURRENCY")
UpdateTicketStatus(w) == Update(w, "UPDATE_TICKET")
UpdateTenant(w) == Update(w, "UPDATE_TENANT")
OverrideBillingCycle(w) == Update(w, "OVERRIDE_CYCLE")

\* ... or writes it, there or not; the tenant's plan has several currencies ...
CreateExchangeRate(w) ==
    \/ ReadRow(w, "SET_RATE", TRUE)
    \/ At(w, "SET_RATE", "commit") /\ WriteRow(w, job[w].row, saw[w], job[w].value)

\* ... or deletes it, unless a tenant is on it.
DeletePlan(w) ==
    LET r == job[w].row IN
    \/ ReadRow(w, "DELETE_PLAN", row[r] # 0)
    \/ At(w, "DELETE_PLAN", "commit") /\ row[r] # 0 /\ r \notin InUse /\ WriteRow(w, r, saw[w], 0)

\* Flags, configuration and keys: one statement, of a row that is there
\* unless it is an upsert.
WriteAtOnce(w, op, ok, value) ==
    LET r == job[w].row IN
    At(w, op, "read") /\ (row[r] # 0 \/ ok) /\ WriteRow(w, r, row[r], value)

UpdateFlag(w) == WriteAtOnce(w, "UPDATE_FLAG", FALSE, job[w].value)
DeleteFlag(w) == WriteAtOnce(w, "DELETE_FLAG", FALSE, 0)
SetConfig(w) == WriteAtOnce(w, "SET_CONFIG", TRUE, job[w].value)
RemoveConfig(w) == WriteAtOnce(w, "REMOVE_CONFIG", FALSE, 0)
DeleteKey(w) == WriteAtOnce(w, "DELETE_KEY", FALSE, 0)

RowStep(w) ==
    \/ CreatePlan(w) \/ CreateCurrency(w) \/ CreateSupportTicket(w) \/ CreateFlag(w) \/ CreateKey(w)
    \/ UpdatePlan(w) \/ UpdateCurrency(w) \/ UpdateTicketStatus(w) \/ UpdateTenant(w)
    \/ OverrideBillingCycle(w) \/ CreateExchangeRate(w) \/ DeletePlan(w)
    \/ UpdateFlag(w) \/ DeleteFlag(w) \/ SetConfig(w) \/ RemoveConfig(w) \/ DeleteKey(w)

-----------------------------------------------------------------------------
(* A tenant's languages.                                                   *)

\* What the call gives, the rest as it was read.
Chosen(w, now) ==
    [first |-> IF job[w].first = "" THEN now.first ELSE job[w].first,
     spoken |-> IF job[w].spoken = {} THEN now.spoken ELSE job[w].spoken]

ReadLanguages(w) ==
    /\ At(w, "SET_LANGUAGES", "read")
    /\ SeeIf(w, Chosen(w, languages).first \in Chosen(w, languages).spoken, languages, "commit")
    /\ UNCHANGED administration

WriteLanguages(w, new) ==
    /\ At(w, "SET_LANGUAGES", "commit")
    /\ languages' = new
    /\ spokenTrail' = Append(spokenTrail, [old |-> saw[w], new |-> new])
    /\ Answer(w)
    /\ UNCHANGED <<rows, members>>

\* updateLanguageSettings writes both, as they were checked.
UpdateLanguageSettings(w) == ReadLanguages(w) \/ WriteLanguages(w, Chosen(w, saw[w]))

-----------------------------------------------------------------------------
(* Users.                                                                  *)

LogMember(m, old, new) == memberTrail' = [memberTrail EXCEPT ![m] = Append(@, [old |-> old, new |-> new])]

\* suspendUser, by id and whatever the version; neither roles nor version
\* change.
SuspendUser(w) ==
    LET m == job[w].member IN
    \/ /\ At(w, "SUSPEND_MEMBER", "read")
       /\ See(w, member[m], "commit")
       /\ UNCHANGED administration
    \/ /\ At(w, "SUSPEND_MEMBER", "commit")
       /\ member' = [member EXCEPT ![m].status = "SUSPENDED"]
       /\ LogMember(m, saw[w].status, "SUSPENDED")
       /\ Answer(w)
       /\ UNCHANGED <<rows, settings>>

\* offboardUser: not disabled yet and of the version that was read; status,
\* roles and audit entry go together.
OffboardUser(w) ==
    LET m == job[w].member IN
    \/ /\ At(w, "OFFBOARD", "read")
       /\ SeeIf(w, member[m].status # "DISABLED", member[m], "commit")
       /\ UNCHANGED administration
    \/ /\ At(w, "OFFBOARD", "commit")
       /\ member[m].version = saw[w].version
       /\ member' = [member EXCEPT ![m] = [status |-> "DISABLED", version |-> @.version + 1, roles |-> FALSE]]
       /\ LogMember(m, saw[w].status, "DISABLED")
       /\ Answer(w)
       /\ UNCHANGED <<rows, settings>>

\* A transaction rolls back, with its audit entry.
AdministrationFails(w) ==
    /\ pc[w] # "idle" /\ job[w].op \in AdministrationOp
    /\ Answer(w)
    /\ UNCHANGED administration

AdministrationStep(w) ==
    \/ RowStep(w) \/ UpdateLanguageSettings(w)
    \/ SuspendUser(w) \/ OffboardUser(w)
    \/ AdministrationFails(w)

-----------------------------------------------------------------------------
\* A tenant's default language is one of those it supports, though each call
\* may change either alone and two calls run at once.
DefaultIsSupported == languages.first \in languages.spoken

\* The audit trail ends in what is: the last entry about a row tells its
\* present value, and every old value an entry tells is one the row had.
Ends(entries, first, now) ==
    LET told == {first} \cup {entries[k].new : k \in DOMAIN entries} IN
    /\ entries # <<>> => Last(entries).new = now
    /\ \A k \in DOMAIN entries : entries[k].old \in told
TrailEndsInPresent ==
    /\ \A r \in Logged : Ends(trail[r], IF r \in There THEN 1 ELSE 0, row[r])
    /\ \A m \in Member : Ends(memberTrail[m], "ACTIVE", member[m].status)
    /\ spokenTrail # <<>> => Last(spokenTrail).new = languages

\* A user is offboarded once, unless suspended since, and keeps no role.
OffboardedOnce ==
    \A m \in Member :
        LET to(status) == {k \in DOMAIN memberTrail[m] : memberTrail[m][k].new = status} IN
        /\ Cardinality(to("DISABLED")) <= 1 + Cardinality(to("SUSPENDED"))
        /\ to("DISABLED") # {} => ~member[m].roles

\* What administrators change at the same time stays whole and on record.
AdministrationIsOnRecord == DefaultIsSupported /\ TrailEndsInPresent /\ OffboardedOnce
=============================================================================

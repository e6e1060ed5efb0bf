------------------------------ MODULE Disputes ------------------------------
(***************************************************************************)
(* Chargebacks and their resolution (ChargebackResolutionService), and the *)
(* tax filings of a period (TaxFilingService).  Chargebacks stand in the   *)
(* table from the start: the service that files them is mounted nowhere.   *)
(* The accounts that a reversal needs exist.                               *)
(***************************************************************************)
EXTENDS Requests

CONSTANTS
    Chargeback,   \* no two of them share the first eight characters of the id
    TaxPeriod     \* pairs of a first and a last day of one tenant

DisputeOp == {"RESOLVE_CHARGEBACK", "REJECT_CHARGEBACK"}
TaxOp == {"GENERATE_REPORT", "FILE_REPORT"}

ChargebackStatus == {"PENDING", "RESOLVED", "REJECTED"}
FilingRow == [status: {"DRAFT", "FILED", "CANCELLED"}, version: Nat, figures: Nat]

\* `figures` is what the sales and invoices of the period add up to when the
\* report is generated.
ASSUME DisputeAssumption ==
    /\ Unread \notin FilingRow /\ Unread \notin {"RESOLVED", "REJECTED"}
    /\ \A r \in Request :
        /\ r.op \in DisputeOp => r \in [op: DisputeOp, chargeback: Chargeback, by: Nat]
        /\ r.op \in TaxOp => r \in [op: TaxOp, period: TaxPeriod, figures: Nat, by: Nat]

VARIABLES
    chargeback,   \* status of each chargeback
    resolution,   \* its ChargebackResolution row: the action taken
    reversed,     \* POSTED journal entries that reverse it
    filing,       \* tax filings
    filed         \* per period, the figures finance.tax_filing.filed announced

disputes == <<chargeback, resolution, reversed, filing, filed>>

DisputeTypeOK ==
    /\ chargeback \in [Chargeback -> ChargebackStatus]
    /\ resolution \in [Chargeback -> {"RESOLVED", "REJECTED", Unread}]
    /\ reversed \in [Chargeback -> Nat]
    /\ filing \in [TaxPeriod -> FilingRow \cup {Unread}] /\ filed \in [TaxPeriod -> Seq(Nat)]

DisputeInit ==
    /\ chargeback = [c \in Chargeback |-> "PENDING"] /\ resolution = [c \in Chargeback |-> Unread]
    /\ reversed = [c \in Chargeback |-> 0]
    /\ filing = [p \in TaxPeriod |-> Unread] /\ filed = [p \in TaxPeriod |-> <<>>]

CHARGEBACK_TRANSITIONS == [s \in ChargebackStatus |-> IF s = "PENDING" THEN {"RESOLVED", "REJECTED"} ELSE {}]
TAX_FILING_TRANSITIONS == [s \in {"DRAFT", "FILED", "CANCELLED"} |->
                              IF s = "DRAFT" THEN {"FILED", "CANCELLED"} ELSE {}]

-----------------------------------------------------------------------------
(* Chargebacks.                                                            *)

ReadChargeback(w, to) ==
    LET c == chargeback[job[w].chargeback] IN
    SeeIf(w, to \in CHARGEBACK_TRANSITIONS[c], c, "commit") /\ UNCHANGED disputes

\* A resolution row beside any other.
RecordAny(c, action) == resolution' = [resolution EXCEPT ![c] = action]

\* The unique index on chargebackId: a second row rolls everything back.
Record(c, action) == resolution[c] = Unread /\ resolution' = [resolution EXCEPT ![c] = action]

\* resolveChargeback writes the status by the id, records the resolution and
\* posts the reversal; the entry's reference, made of the id, is unique too.
ResolveChargeback(w) ==
    LET c == job[w].chargeback IN
    \/ At(w, "RESOLVE_CHARGEBACK", "read") /\ ReadChargeback(w, "RESOLVED")
    \/ /\ At(w, "RESOLVE_CHARGEBACK", "commit")
       /\ chargeback' = [chargeback EXCEPT ![c] = "RESOLVED"]
       /\ Record(c, "RESOLVED")
       /\ reversed[c] = 0
       /\ reversed' = [reversed EXCEPT ![c] = @ + 1]
       /\ Answer(w)
       /\ UNCHANGED <<filing, filed>>

RejectChargeback(w) ==
    LET c == job[w].chargeback IN
    \/ At(w, "REJECT_CHARGEBACK", "read") /\ ReadChargeback(w, "REJECTED")
    \/ /\ At(w, "REJECT_CHARGEBACK", "commit")
       /\ chargeback' = [chargeback EXCEPT ![c] = "REJECTED"]
       /\ Record(c, "REJECTED")
       /\ Answer(w)
       /\ UNCHANGED <<reversed, filing, filed>>

-----------------------------------------------------------------------------
(* Tax filings.                                                            *)

\* generateReport finds no filing of the period, adds the figures up, and
\* creates it; the unique index refuses a second one.
GenerateReport(w) ==
    LET p == job[w].period IN
    \/ /\ At(w, "GENERATE_REPORT", "read")
       /\ SeeIf(w, filing[p] = Unread, job[w].figures, "commit")
       /\ UNCHANGED disputes
    \/ /\ At(w, "GENERATE_REPORT", "commit")
       /\ filing[p] = Unread
       /\ filing' = [filing EXCEPT ![p] = [status |-> "DRAFT", version |-> 0, figures |-> saw[w]]]
       /\ Answer(w)
       /\ UNCHANGED <<chargeback, resolution, reversed, filed>>

\* updateMany where the version is the one read.
SetFiled(w) ==
    /\ filing[job[w].period].version = saw[w].version
    /\ filing' = [filing EXCEPT ![job[w].period].status = "FILED", ![job[w].period].version = @ + 1]

FileTaxReport(w) ==
    LET p == job[w].period IN
    \/ /\ At(w, "FILE_REPORT", "read")
       /\ SeeIf(w, filing[p] # Unread /\ "FILED" \in TAX_FILING_TRANSITIONS[filing[p].status],
                filing[p], "commit")
       /\ UNCHANGED disputes
    \/ /\ At(w, "FILE_REPORT", "commit")
       /\ SetFiled(w)
       /\ filed' = [filed EXCEPT ![p] = Append(@, saw[w].figures)]
       /\ Answer(w)
       /\ UNCHANGED <<chargeback, resolution, reversed>>

DisputeFails(w) ==
    /\ pc[w] # "idle" /\ job[w].op \in DisputeOp \cup TaxOp
    /\ Answer(w)
    /\ UNCHANGED disputes

DisputeStep(w) ==
    \/ ResolveChargeback(w) \/ RejectChargeback(w)
    \/ GenerateReport(w) \/ FileTaxReport(w)
    \/ DisputeFails(w)

-----------------------------------------------------------------------------
\* A chargeback resolved by two, or resolved and rejected at the same time,
\* has no version to tell them apart: yet it has one answer, its record says
\* the same, and the money is reversed once, and only if it was resolved.
ChargebackAnsweredOnce ==
    \A c \in Chargeback :
        /\ chargeback[c] = (IF resolution[c] = Unread THEN "PENDING" ELSE resolution[c])
        /\ reversed[c] = (IF chargeback[c] = "RESOLVED" THEN 1 ELSE 0)

\* A period is filed once, with the figures of its report, whoever generates
\* and files it again meanwhile.
TaxFiledOnce ==
    \A p \in TaxPeriod :
        filed[p] = IF filing[p] # Unread /\ filing[p].status = "FILED"
                   THEN <<filing[p].figures>> ELSE <<>>

\* Whoever answers the bank or the tax office at the same time, the answer is
\* one and the books tell the same.
AnsweredOnce == ChargebackAnsweredOnce /\ TaxFiledOnce
=============================================================================

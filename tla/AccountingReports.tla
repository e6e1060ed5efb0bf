--------------------------- MODULE AccountingReports ---------------------------
(***************************************************************************)
(* The reports on the journal (AccountingReportsService): what each of     *)
(* them adds up, over the entries dated in its range, posted or not.       *)
(* Entries and their lines never change once written, nor do accounts, so  *)
(* a report's statements read what the first of them found.                *)
(***************************************************************************)
EXTENDS Requests

CONSTANT EntryLines   \* the lines entries may be written with

\* The chart of accounts, by type.
AccountType ==
    [cash |-> "ASSET", bank |-> "ASSET", receivable |-> "ASSET", payable |-> "LIABILITY", capital |-> "EQUITY",
     sales |-> "REVENUE", goodsSold |-> "EXPENSE", salaries |-> "EXPENSE"]
Account == DOMAIN AccountType
CashAccount == {"cash", "bank"}

Line == [account: Account, debit: Nat, credit: Nat]
JournalEntry == [day: Nat, lines: Seq(Line)]
ReportKind == {"TRIAL_BALANCE", "INCOME", "BALANCE_SHEET", "CASH_FLOW"}

ASSUME ReportsAssumption ==
    /\ EntryLines \subseteq Seq(Line)
    /\ \A r \in Request :
        /\ r.op = "BOOK" => r \in [op: {"BOOK"}, day: Nat, by: Nat]
        /\ r.op = "REPORT" => r \in [op: {"REPORT"}, kind: ReportKind, from: Nat, to: Nat, by: Nat]

VARIABLES
    journal,   \* the entries in the order they were written
    report     \* the last report: its kind, the entries it was about, its figures

reporting == <<journal, report>>

NoReport == [kind |-> "NONE", about |-> <<>>, figures |-> <<>>]
Figures ==
    [TRIAL_BALANCE |-> [debits: [Account -> Int], credits: [Account -> Int]],
     INCOME |-> [totalRevenue: Int, totalCOGS: Int, grossProfit: Int, totalExpenses: Int, netProfit: Int],
     BALANCE_SHEET |-> [totalAssets: Int, totalLiabilities: Int, totalEquity: Int],
     CASH_FLOW |-> [cashFromSales: Int, cashPaidToSuppliers: Int, otherCheck: Int, netCashChange: Int]]

ReportsTypeOK ==
    /\ \A i \in DOMAIN journal : journal[i] \in JournalEntry
    /\ report.kind \in ReportKind \cup {"NONE"}
    /\ \A i \in DOMAIN report.about : report.about[i] \in JournalEntry
    /\ report.kind \in ReportKind => report.figures \in Figures[report.kind]

ReportsInit == journal = <<>> /\ report = NoReport

-----------------------------------------------------------------------------
(* The lines of some entries, by the entries' places and theirs.           *)

LinesAt(entries, i) == {i} \X DOMAIN entries[i].lines
LinesOf(entries) == UNION {LinesAt(entries, i) : i \in DOMAIN entries}
LineAt(entries, l) == entries[l[1]].lines[l[2]]
Sum(amount, ls) == MapThenSumSet(LAMBDA l : amount[l], ls)
Net(entries, ls) == Sum([l \in LinesOf(entries) |-> LineAt(entries, l).debit - LineAt(entries, l).credit], ls)
Typed(entries, types) == {l \in LinesOf(entries) : AccountType[LineAt(entries, l).account] \in types}

\* getTrialBalance: what is debited and credited, account by account.
TrialBalance(entries) ==
    LET on(a) == {l \in LinesOf(entries) : LineAt(entries, l).account = a}
        debit == [l \in LinesOf(entries) |-> LineAt(entries, l).debit]
        credit == [l \in LinesOf(entries) |-> LineAt(entries, l).credit] IN
    [debits |-> [a \in Account |-> Sum(debit, on(a))], credits |-> [a \in Account |-> Sum(credit, on(a))]]

\* getIncomeStatement.
IncomeStatement(entries) ==
    LET revenue == - Net(entries, Typed(entries, {"REVENUE"}))
        sold == Net(entries, {l \in LinesOf(entries) : LineAt(entries, l).account = "goodsSold"})
        expenses == Net(entries, Typed(entries, {"EXPENSE"})) - sold IN
    [totalRevenue |-> revenue, totalCOGS |-> sold, grossProfit |-> revenue - sold,
     totalExpenses |-> expenses, netProfit |-> revenue - sold - expenses]

\* getBalanceSheet: no year is ever closed, so the equity includes the profit
\* of all time.
BalanceSheet(entries) ==
    LET profit == - Net(entries, Typed(entries, {"REVENUE", "EXPENSE"})) IN
    [totalAssets |-> Net(entries, Typed(entries, {"ASSET"})),
     totalLiabilities |-> - Net(entries, Typed(entries, {"LIABILITY"})),
     totalEquity |-> profit - Net(entries, Typed(entries, {"EQUITY"}))]

\* What a line of a cash account moves: its debit, or else its credit.
Moved(line) == IF line.debit > 0 THEN line.debit ELSE - line.credit

\* What a cash line may count as: the first other line of its entry that is
\* about sales or suppliers decides, and lines come in any order.
CountsAs(entries, l) ==
    LET others == {k \in LinesOf(entries) : k[1] = l[1] /\ k # l}
        sales == \E k \in others : LineAt(entries, k).account = "receivable"
                                   \/ AccountType[LineAt(entries, k).account] = "REVENUE"
        suppliers == \E k \in others : LineAt(entries, k).account = "payable"
                                       \/ AccountType[LineAt(entries, k).account] = "EXPENSE" IN
    {c \in {"sales", "suppliers", "other"} :
        \/ c = "sales" /\ sales
        \/ c = "suppliers" /\ suppliers
        \/ c = "other" /\ ~sales /\ ~suppliers}

\* getCashFlow, with each cash line counted as `as` tells.
CashFlow(entries, as) ==
    LET amount == [l \in DOMAIN as |-> Moved(LineAt(entries, l))]
        moved(what) == Sum(amount, {l \in DOMAIN as : as[l] = what}) IN
    [cashFromSales |-> moved("sales"), cashPaidToSuppliers |-> moved("suppliers"),
     otherCheck |-> moved("other"), netCashChange |-> moved("sales") + moved("suppliers") + moved("other")]

CashLines(entries) == {l \in LinesOf(entries) : LineAt(entries, l).account \in CashAccount}

-----------------------------------------------------------------------------
\* An entry is written, by whichever service, with its lines.
BookEntry(w) ==
    /\ At(w, "BOOK", "read")
    /\ \E ls \in EntryLines : journal' = Append(journal, [day |-> job[w].day, lines |-> ls])
    /\ Answer(w)
    /\ UNCHANGED report

\* The entries a report is about, at their places; a balance sheet has no first
\* day.
InRange(w) ==
    LET dated(e) == e.day <= job[w].to /\ (job[w].kind = "BALANCE_SHEET" \/ job[w].from <= e.day) IN
    [i \in {i \in DOMAIN journal : dated(journal[i])} |-> journal[i]]

Show(kind, entries, figures) == report' = [kind |-> kind, about |-> entries, figures |-> figures]

MakeReport(w) ==
    LET of == InRange(w) IN
    /\ At(w, "REPORT", "read")
    /\ CASE job[w].kind = "TRIAL_BALANCE" -> Show("TRIAL_BALANCE", of, TrialBalance(of))
         [] job[w].kind = "INCOME" -> Show("INCOME", of, IncomeStatement(of))
         [] job[w].kind = "BALANCE_SHEET" -> Show("BALANCE_SHEET", of, BalanceSheet(of))
         [] job[w].kind = "CASH_FLOW" ->
                \E as \in [CashLines(of) -> {"sales", "suppliers", "other"}] :
                    /\ \A l \in DOMAIN as : as[l] \in CountsAs(of, l)
                    /\ Show("CASH_FLOW", of, CashFlow(of, as))
    /\ Answer(w)
    /\ UNCHANGED journal

ReportsStep(w) == BookEntry(w) \/ MakeReport(w)

-----------------------------------------------------------------------------
Balanced(entries) == \A i \in DOMAIN entries : Net(entries, LinesAt(entries, i)) = 0
OneSided(entries) == \A l \in LinesOf(entries) : LineAt(entries, l).debit = 0 \/ LineAt(entries, l).credit = 0

\* If the entries it is about balance, a report's totals agree with what it
\* does not add up itself: the debits are the credits; the profit is by what
\* the accounts of the balance sheet moved; assets are liabilities and equity;
\* and the cash flow is what the cash accounts moved, unless a line has both
\* sides.
ReportsAgree ==
    LET of == report.about
        f == report.figures IN
    /\ report.kind = "TRIAL_BALANCE" /\ Balanced(of) => Sum(f.debits, Account) = Sum(f.credits, Account)
    /\ report.kind = "INCOME" /\ Balanced(of) => f.netProfit = Net(of, Typed(of, {"ASSET", "LIABILITY", "EQUITY"}))
    /\ report.kind = "BALANCE_SHEET" /\ Balanced(of) => f.totalAssets = f.totalLiabilities + f.totalEquity
    /\ report.kind = "CASH_FLOW" /\ OneSided(of) => f.netCashChange = Net(of, CashLines(of))
=============================================================================

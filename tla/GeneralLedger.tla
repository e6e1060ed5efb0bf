---------------------------- MODULE GeneralLedger ----------------------------
(***************************************************************************)
(* Journal entries and accounting periods (AccountingService).  None of    *)
(* these handlers runs in a transaction of its own: each statement commits *)
(* by itself.  The system entries are the other services' and commit with  *)
(* their transaction.                                                      *)
(***************************************************************************)
EXTENDS Requests

CONSTANTS
    Entry,       \* journal entries that may be written, reversals too
    Period,      \* accounting periods, disjoint
    Dated,       \* per entry, the period its date falls in, or NoPeriod
    NoPeriod,
    Today        \* the period of the current date

LedgerOp == {"CREATE_ENTRY", "SYSTEM_ENTRY", "POST_ENTRY", "REVERSE_ENTRY", "CLOSE_PERIOD"}

EntryRow == [posted: BOOLEAN, balanced: BOOLEAN, reverses: Entry \cup {Unread},
             period: Period \cup {NoPeriod}]

\* `balanced` says that the debits and credits of the lines agree.  An entry
\* is created by one call; a reversal names the entry it creates.
ASSUME LedgerAssumption ==
    /\ Unread \notin Entry /\ Unread \notin EntryRow
    /\ NoPeriod \notin Period /\ Today \in Period \cup {NoPeriod}
    /\ Dated \in [Entry -> Period \cup {NoPeriod}]
    /\ \A r \in Request : r.op \in LedgerOp =>
          r \in [op: LedgerOp, entry: Entry, reverses: Entry, period: Period, balanced: BOOLEAN, by: Nat]
    /\ \A q, r \in Request :
          /\ {q.op, r.op} \subseteq {"CREATE_ENTRY", "SYSTEM_ENTRY", "REVERSE_ENTRY"}
          /\ q.entry = r.entry
          => q = r

VARIABLES
    entry,     \* the journal entries
    closed,    \* closed periods
    late       \* entries written when their period's closing had counted its
               \* unposted entries

ledger == <<entry, closed, late>>

LedgerTypeOK ==
    /\ entry \in [Entry -> EntryRow \cup {Unread}]
    /\ closed \subseteq Period /\ late \subseteq Entry

LedgerInit ==
    /\ entry = [e \in Entry |-> Unread]
    /\ closed = {} /\ late = {}

Written == {e \in Entry : entry[e] # Unread}

\* A closing of the period is past its count.
Counted(p) == p \in closed \/ \E w \in Worker : At(w, "CLOSE_PERIOD", "commit") /\ job[w].period = p

Insert(e, row) ==
    /\ entry' = [entry EXCEPT ![e] = row]
    /\ late' = IF row.period # NoPeriod /\ Counted(row.period) THEN late \cup {e} ELSE late
    /\ UNCHANGED closed

\* createJournalEntry wants the lines to balance; no period is looked at.
CreateJournalEntry(w) ==
    /\ At(w, "CREATE_ENTRY", "read")
    /\ job[w].balanced
    /\ Insert(job[w].entry, [posted |-> FALSE, balanced |-> TRUE, reverses |-> Unread,
                             period |-> Dated[job[w].entry]])
    /\ Answer(w)

\* createSystemJournalEntryByCode takes the lines as they are.
CreateSystemJournalEntryByCode(w) ==
    /\ At(w, "SYSTEM_ENTRY", "read")
    /\ Insert(job[w].entry, [posted |-> FALSE, balanced |-> job[w].balanced, reverses |-> Unread,
                             period |-> Today])
    /\ Answer(w)

\* postJournalEntry: the entry, then the closed periods, then the write by id.
PostJournalEntry(w) ==
    LET e == job[w].entry IN
    \/ /\ At(w, "POST_ENTRY", "read")
       /\ SeeIf(w, entry[e] # Unread /\ ~ entry[e].posted /\ entry[e].balanced, entry[e], "check")
       /\ UNCHANGED ledger
    \/ /\ At(w, "POST_ENTRY", "check")
       /\ IF saw[w].period \in closed THEN Answer(w) ELSE Goto(w, "commit")
       /\ UNCHANGED ledger
    \/ /\ At(w, "POST_ENTRY", "commit")
       /\ entry' = [entry EXCEPT ![e] = [@ EXCEPT !.posted = TRUE]]
       /\ Answer(w)
       /\ UNCHANGED <<closed, late>>

Reversals(e) == {r \in Written : entry[r].reverses = e}

\* What the unique indexes on reversesId and on the reference let through.
FirstReversal(e) == Reversals(e) = {}

\* reverseJournalEntry: posted, not reversed yet, then a posted entry dated
\* today, which the unique indexes on reversesId and the reference refuse
\* when another has come first.
ReverseJournalEntry(w) ==
    LET e == job[w].reverses IN
    \/ /\ At(w, "REVERSE_ENTRY", "read")
       /\ IF entry[e] # Unread /\ entry[e].posted THEN Goto(w, "check") ELSE Answer(w)
       /\ UNCHANGED ledger
    \/ /\ At(w, "REVERSE_ENTRY", "check")
       /\ IF Reversals(e) = {} THEN Goto(w, "write") ELSE Answer(w)
       /\ UNCHANGED ledger
    \/ /\ At(w, "REVERSE_ENTRY", "write")
       /\ FirstReversal(e)
       /\ Insert(job[w].entry, [posted |-> TRUE, balanced |-> entry[e].balanced, reverses |-> e,
                                period |-> Today])
       /\ Answer(w)

\* A count of the reversals alone.
UnpostedReversals(p) == {e \in Written : entry[e].period = p /\ ~ entry[e].posted /\ entry[e].reverses # Unread}

UnpostedEntries(p) == {e \in Written : entry[e].period = p /\ ~ entry[e].posted}

\* closeAccountingPeriod: open, no unposted entry dated in it, then the write.
CloseAccountingPeriod(w) ==
    LET p == job[w].period IN
    \/ /\ At(w, "CLOSE_PERIOD", "read")
       /\ IF p \notin closed THEN Goto(w, "check") ELSE Answer(w)
       /\ UNCHANGED ledger
    \/ /\ At(w, "CLOSE_PERIOD", "check")
       /\ IF UnpostedEntries(p) = {} THEN Goto(w, "commit") ELSE Answer(w)
       /\ UNCHANGED ledger
    \/ /\ At(w, "CLOSE_PERIOD", "commit")
       /\ closed' = closed \cup {p}
       /\ Answer(w)
       /\ UNCHANGED <<entry, late>>

LedgerFails(w) ==
    /\ pc[w] # "idle" /\ job[w].op \in LedgerOp
    /\ Answer(w)
    /\ UNCHANGED ledger

LedgerStep(w) ==
    \/ CreateJournalEntry(w) \/ CreateSystemJournalEntryByCode(w) \/ PostJournalEntry(w)
    \/ ReverseJournalEntry(w) \/ CloseAccountingPeriod(w) \/ LedgerFails(w)

-----------------------------------------------------------------------------
Paired(e) ==
    Reversals(e) # {} => Cardinality(Reversals(e)) = 1 /\ entry[e] # Unread /\ entry[e].posted

Settled(e) == entry[e] # Unread /\ entry[e].period \in closed /\ ~ entry[e].posted => e \in late

\* However many reversals, postings and closings run together: an entry is
\* undone by one reversal at most, and is posted itself, so that the pair adds
\* up to nothing; and a closed period holds no unposted entry but the ones
\* written after its closing had counted.
BooksStaySettled == \A e \in Entry : Paired(e) /\ Settled(e)
=============================================================================

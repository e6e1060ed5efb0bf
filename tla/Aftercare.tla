------------------------------ MODULE Aftercare ------------------------------
(***************************************************************************)
(* What is done about goods that come back or never arrive: returns,       *)
(* delivery exceptions, the refunds and the replacements they justify      *)
(* (logistics: ReturnsService, DeliveryExceptionsService, RefundsService,  *)
(* CommercialSafetyService).  No module provides these services at this    *)
(* commit; they are modelled as they would serve.  The stock they move is  *)
(* counted only where it is given back.                                    *)
(***************************************************************************)
EXTENDS Requests, SequencesExt

CONSTANTS
    Claim,        \* returns
    Named,        \* those whose items name a product, which initiateReturn's do not
    Worth,        \* per return, the value of its items
    Mishap,       \* delivery exceptions
    TypeOfMishap,
    StopOf,       \* per delivery exception, the stop
    NoProof

ClaimOp == {"ASK_RETURN", "ALLOW_RETURN", "REFUSE_RETURN", "TAKE_RETURN", "CLOSE_RETURN"}
MishapOp == {"REPORT_MISHAP", "RESOLVE_MISHAP", "WRITE_OFF"}
RefundOp == {"CREATE_REFUND", "PROCESS_REFUND", "CANCEL_REFUND"}
AftercareOp == ClaimOp \cup MishapOp \cup RefundOp \cup {"REPLACE"}

ClaimStatus == {"NONE", "REQUESTED", "APPROVED", "REJECTED", "RECEIVED", "COMPLETED"}
TransitLoss == {"LOST_IN_TRANSIT", "DAMAGED_IN_TRANSIT"}

\* A call names a return or a delivery exception, and refunds by their place.
ASSUME AftercareAssumption ==
    /\ Claim \cap Mishap = {} /\ NoProof \notin Claim \cup Mishap /\ Named \subseteq Claim
    /\ Worth \in [Claim -> Nat]
    /\ \A r \in Request : r.op \in AftercareOp =>
          /\ r \in [op: AftercareOp, proof: Claim \cup Mishap, refund: Nat, amount: Nat, by: Nat]
          /\ r.op \in ClaimOp => r.proof \in Claim
          /\ r.op \in MishapOp => r.proof \in Mishap

VARIABLES
    claim,      \* per return, its status
    taken,      \* per return, how often its goods were taken in
    mishap,     \* per delivery exception, whether it is open
    settled,    \* the stops whose exceptions are marked resolved
    refunds,    \* refund rows, in the order they were created
    replaced    \* the proof of each replacement order, in the order they were created

aftercare == <<claim, taken, mishap, settled, refunds, replaced>>

RefundRow == [proof: Claim \cup Mishap \cup {NoProof}, series: {"RETURN", "REF", "LOSS"}, number: Nat,
              amount: Nat, status: {"PENDING", "COMPLETED", "CANCELLED"}]

AftercareTypeOK ==
    /\ claim \in [Claim -> ClaimStatus] /\ taken \in [Claim -> Nat]
    /\ mishap \in [Mishap -> {"none", "open", "resolved"}]
    /\ settled \subseteq {StopOf[m] : m \in Mishap}
    /\ refunds \in Seq(RefundRow)
    /\ replaced \in Seq(Claim \cup Mishap)

AftercareInit ==
    /\ claim = [c \in Claim |-> "NONE"] /\ taken = [c \in Claim |-> 0]
    /\ mishap = [m \in Mishap |-> "none"] /\ settled = {StopOf[m] : m \in Mishap}
    /\ refunds = <<>> /\ replaced = <<>>

Proof(w) == job[w].proof
SetClaim(w, status) == claim' = [claim EXCEPT ![Proof(w)] = status]

\* A refund is numbered by a count taken earlier; its number is unique within
\* its series, and so is what proves it, if anything does.
Numbered(series, n) == \A k \in DOMAIN refunds : refunds[k].series = series => refunds[k].number # n
Unproved(proof) == \A k \in DOMAIN refunds : proof = NoProof \/ refunds[k].proof # proof
PutRefund(proof, series, n, amount) ==
    /\ Numbered(series, n) /\ Unproved(proof)
    /\ refunds' = Append(refunds, [proof |-> proof, series |-> series, number |-> n,
                                   amount |-> amount, status |-> "PENDING"])

-----------------------------------------------------------------------------
(* Returns.                                                                *)

ReadClaim(w, op, status, step) ==
    At(w, op, "read") /\ SeeIf(w, claim[Proof(w)] = status, Len(refunds), step) /\ UNCHANGED aftercare

\* A decision on the status that was read, written by id.
DecideClaim(w, op, from, to) ==
    \/ ReadClaim(w, op, from, "commit")
    \/ /\ At(w, op, "commit")
       /\ SetClaim(w, to)
       /\ Answer(w)
       /\ UNCHANGED <<taken, mishap, settled, refunds, replaced>>

\* initiateReturn; the quantities are within what was ordered.
AskReturn(w) == DecideClaim(w, "ASK_RETURN", "NONE", "REQUESTED")
RefuseReturn(w) == DecideClaim(w, "REFUSE_RETURN", "REQUESTED", "REJECTED")

\* approveReturn counts the refunds before its transaction, which writes the
\* status and creates the refund of the full value.
AllowReturn(w) ==
    \/ ReadClaim(w, "ALLOW_RETURN", "REQUESTED", "commit")
    \/ /\ At(w, "ALLOW_RETURN", "commit")
       /\ PutRefund(Proof(w), "RETURN", saw[w] + 1, Worth[Proof(w)])
       /\ SetClaim(w, "APPROVED")
       /\ Answer(w)
       /\ UNCHANGED <<taken, mishap, settled, replaced>>

\* receiveReturn: what is fit for it goes back on the shelf.
TakeReturn(w) ==
    \/ ReadClaim(w, "TAKE_RETURN", "APPROVED", "commit")
    \/ /\ At(w, "TAKE_RETURN", "commit")
       /\ taken' = [taken EXCEPT ![Proof(w)] = @ + 1]
       /\ SetClaim(w, "RECEIVED")
       /\ Answer(w)
       /\ UNCHANGED <<mishap, settled, refunds, replaced>>

RefundFor(c) == {k \in DOMAIN refunds : refunds[k].proof = c}
Complete(ks) == refunds' = [k \in DOMAIN refunds |-> IF k \in ks THEN [refunds[k] EXCEPT !.status = "COMPLETED"]
                                                                 ELSE refunds[k]]

\* completeReturn of a return that nobody need have received.
CloseUnreceived(w) ==
    \/ /\ At(w, "CLOSE_RETURN", "read")
       /\ See(w, {k \in RefundFor(Proof(w)) : refunds[k].status = "PENDING"}, "commit")
       /\ UNCHANGED aftercare
    \/ /\ At(w, "CLOSE_RETURN", "commit")
       /\ Complete(saw[w])
       /\ SetClaim(w, "COMPLETED")
       /\ Answer(w)
       /\ UNCHANGED <<taken, mishap, settled, replaced>>

\* completeReturn completes the refund it read pending, whatever it is by now.
CloseReturn(w) ==
    LET c == Proof(w) IN
    \/ /\ At(w, "CLOSE_RETURN", "read")
       /\ SeeIf(w, claim[c] = "RECEIVED", {k \in RefundFor(c) : refunds[k].status = "PENDING"}, "commit")
       /\ UNCHANGED aftercare
    \/ /\ At(w, "CLOSE_RETURN", "commit")
       /\ Complete(saw[w])
       /\ SetClaim(w, "COMPLETED")
       /\ Answer(w)
       /\ UNCHANGED <<taken, mishap, settled, replaced>>

-----------------------------------------------------------------------------
(* Delivery exceptions.                                                    *)

Resolve(m) == mishap' = [mishap EXCEPT ![m] = "resolved"]

\* createException; the stop exists.
ReportMishap(w) ==
    LET m == Proof(w) IN
    /\ At(w, "REPORT_MISHAP", "read")
    /\ mishap[m] = "none"
    /\ mishap' = [mishap EXCEPT ![m] = "open"]
    /\ settled' = settled \ {StopOf[m]}
    /\ Answer(w)
    /\ UNCHANGED <<claim, taken, refunds, replaced>>

\* resolveException: in its transaction it counts what is still open at the
\* stop, and settles the stop when that is nothing.
ResolveMishap(w) ==
    LET m == Proof(w)
        others == {o \in Mishap \ {m} : StopOf[o] = StopOf[m] /\ mishap[o] = "open"} IN
    \/ /\ At(w, "RESOLVE_MISHAP", "read")
       /\ SeeIf(w, mishap[m] = "open", Unread, "check")
       /\ UNCHANGED aftercare
    \/ /\ At(w, "RESOLVE_MISHAP", "check")
       /\ See(w, others = {}, "commit")
       /\ UNCHANGED aftercare
    \/ /\ At(w, "RESOLVE_MISHAP", "commit")
       /\ Resolve(m)
       /\ settled' = IF saw[w] THEN settled \cup {StopOf[m]} ELSE settled
       /\ Answer(w)
       /\ UNCHANGED <<claim, taken, refunds, replaced>>

\* processLoss does not ask whether the exception is resolved; its refund
\* names no proof, and the stop is not settled.
ProcessLoss(w) ==
    LET m == Proof(w) IN
    \/ /\ At(w, "WRITE_OFF", "read")
       /\ SeeIf(w, mishap[m] # "none" /\ TypeOfMishap[m] = "LOST_IN_TRANSIT", Unread, "check")
       /\ UNCHANGED aftercare
    \/ /\ At(w, "WRITE_OFF", "check")
       /\ See(w, Len(refunds), "commit")
       /\ UNCHANGED aftercare
    \/ /\ At(w, "WRITE_OFF", "commit")
       /\ PutRefund(NoProof, "LOSS", saw[w] + 1, job[w].amount)
       /\ Resolve(m)
       /\ Answer(w)
       /\ UNCHANGED <<claim, taken, settled, replaced>>

-----------------------------------------------------------------------------
(* Refunds and replacements.                                               *)

\* createRefund of any amount, for a return or an exception in any state.
CreateRefund(w) ==
    LET p == Proof(w) IN
    \/ /\ At(w, "CREATE_REFUND", "read")
       /\ SeeIf(w, IF p \in Claim THEN claim[p] # "NONE" ELSE mishap[p] # "none", Len(refunds), "commit")
       /\ UNCHANGED aftercare
    \/ /\ At(w, "CREATE_REFUND", "commit")
       /\ PutRefund(p, "REF", saw[w] + 1, job[w].amount)
       /\ Answer(w)
       /\ UNCHANGED <<claim, taken, mishap, settled, replaced>>

\* Law 4, as processRefund finds it: the return is received and worth it, or
\* the goods were lost or damaged.
Backed(row) ==
    IF row.proof \in Claim THEN claim[row.proof] = "RECEIVED" /\ row.amount <= Worth[row.proof]
    ELSE row.proof \in Mishap /\ TypeOfMishap[row.proof] \in TransitLoss

ReadRefund(w, op, ok) ==
    /\ At(w, op, "read")
    /\ SeeIf(w, ok, Unread, "commit")
    /\ UNCHANGED aftercare

Pending(w) == job[w].refund \in DOMAIN refunds /\ refunds[job[w].refund].status = "PENDING"

SetRefund(w, op, status) ==
    /\ At(w, op, "commit")
    /\ refunds' = [refunds EXCEPT ![job[w].refund].status = status]
    /\ Answer(w)
    /\ UNCHANGED <<claim, taken, mishap, settled, replaced>>

ProcessRefund(w) ==
    \/ ReadRefund(w, "PROCESS_REFUND", Pending(w) /\ Backed(refunds[job[w].refund]))
    \/ SetRefund(w, "PROCESS_REFUND", "COMPLETED")

CancelRefund(w) ==
    \/ ReadRefund(w, "CANCEL_REFUND", Pending(w))
    \/ SetRefund(w, "CANCEL_REFUND", "CANCELLED")

\* Law R1, as processReplacement finds it.
Replaceable(p) ==
    IF p \in Claim THEN claim[p] = "RECEIVED" /\ p \in Named
    ELSE mishap[p] # "none" /\ TypeOfMishap[p] \in TransitLoss

\* The order is numbered and created inside the transaction, unique in its
\* number and in its proof; the proof is closed.
ProcessReplacement(w) ==
    LET p == Proof(w) IN
    \/ /\ At(w, "REPLACE", "read")
       /\ SeeIf(w, Replaceable(p), Unread, "check")
       /\ UNCHANGED aftercare
    \/ /\ At(w, "REPLACE", "check")
       /\ See(w, Len(replaced), "commit")
       /\ UNCHANGED aftercare
    \/ /\ At(w, "REPLACE", "commit")
       /\ Len(replaced) = saw[w] /\ ~Contains(replaced, p)
       /\ replaced' = Append(replaced, p)
       /\ IF p \in Claim THEN SetClaim(w, "COMPLETED") /\ UNCHANGED mishap
                         ELSE Resolve(p) /\ UNCHANGED claim
       /\ Answer(w)
       /\ UNCHANGED <<taken, settled, refunds>>

AftercareFails(w) ==
    /\ pc[w] # "idle" /\ job[w].op \in AftercareOp
    /\ Answer(w)
    /\ UNCHANGED aftercare

AftercareStep(w) ==
    \/ AskReturn(w) \/ AllowReturn(w) \/ RefuseReturn(w) \/ TakeReturn(w) \/ CloseReturn(w)
    \/ ReportMishap(w) \/ ResolveMishap(w) \/ ProcessLoss(w)
    \/ CreateRefund(w) \/ ProcessRefund(w) \/ CancelRefund(w) \/ ProcessReplacement(w)
    \/ AftercareFails(w)

-----------------------------------------------------------------------------
\* Law 4 of the refunds: a refund that is completed rests on one proof alone,
\* and the proof holds: goods that came back and were worth it, or goods lost
\* or damaged on the way; two refunds never rest on the same proof.  The
\* check is made before the transaction, and completing a return completes
\* its refund without it.
RefundsAreBacked ==
    \A k \in DOMAIN refunds :
        LET p == refunds[k].proof IN
        /\ refunds[k].status = "COMPLETED" =>
              IF p \in Claim THEN taken[p] > 0 /\ refunds[k].amount <= Worth[p]
              ELSE p \in Mishap /\ TypeOfMishap[p] \in TransitLoss
        /\ \A j \in DOMAIN refunds \ {k} : p # NoProof => refunds[j].proof # p
=============================================================================

---------------------------- MODULE PaymentRefunds ----------------------------
(***************************************************************************)
(* Refunds of provider payments.  A refund is reserved against the receipt *)
(* of the payment, asked for at the provider and verified by rider, back   *)
(* office, webhook and an hourly job until the provider has paid it; then  *)
(* the ledger follows in one transaction.                                  *)
(*                                                                         *)
(*   refund[r]    the PaymentRefund row;                                   *)
(*   asking[r]    how far the call that created it got;                    *)
(*   payout[r]    the refund at the provider;                              *)
(*   answers[r]   answers read from the provider and not applied yet;      *)
(*   posted       the refunds that have their ledger entry;                *)
(*   origin[s]    the checkout or debit row that the receipt s came from;  *)
(*   sought[r]    the receipts whose origin the request of r found.        *)
(*                                                                         *)
(* PROCESSING is treated like PENDING everywhere and stands for neither;   *)
(* manual settlement refunds do not occur.                                 *)
(***************************************************************************)
EXTENDS RiderInvoices

CONSTANTS
    Refunds,       \* ids of PaymentRefund rows
    MaxRestarts    \* bound on the restarts of the API process

ASSUME RefundAssumption == IsFiniteSet(Refunds) /\ MaxRestarts \in Nat

VARIABLES refund, asking, payout, answers, posted, origin, sought, restarts

refundVars == <<refund, asking, payout, answers, posted, origin, sought, restarts>>
refundAllVars == <<ledgerVars, refundVars>>

Treatment == {"UNALLOCATED_RETURN", "PAYMENT_REVERSAL"}
RefundActive == {"CREATING", "UNKNOWN", "PENDING"}
RefundStatus == RefundActive \cup {"NONE", "SUCCESS", "FAILED"}
RefundAnswer == {"PENDING", "SUCCESS", "FAILED"}
Payout == RefundAnswer \cup {"ABSENT", "REQUESTED", "REFUSED"}

NoRefund == [status |-> "NONE", of |-> {}, amount |-> 0,
             treatment |-> "UNALLOCATED_RETURN"]
RefundRow == [status : RefundStatus, of : SUBSET Sources, amount : Nat,
              treatment : Treatment]

RefundInit ==
    /\ LedgerInit
    /\ refund = [r \in Refunds |-> NoRefund]
    /\ asking = [r \in Refunds |-> "none"]
    /\ payout = [r \in Refunds |-> "ABSENT"]
    /\ answers = [r \in Refunds |-> {}]
    /\ posted = {}
    /\ origin = [s \in Sources |-> "NONE"]
    /\ sought = [r \in Refunds |-> {}]
    /\ restarts = 0

\* Money of the refunds of s among R.
RefundTotal(s, R) ==
    SumFunctionOnSet([r \in Refunds |-> refund[r].amount],
                     {r \in R : s \in refund[r].of})

WithStatus(status) == {r \in Refunds : refund[r].status \in status}

\* Faulty: refunds that are not finished reserve nothing.
RefundableUnreserved(s) ==
    receipt[s].amount - RefundTotal(s, WithStatus({"SUCCESS"}))

\* refundableAmount: what the refunds of s leave of it.  Refunds that have left
\* the receipt without a successful row of their own count as legacy.
RefundableAmount(s) ==
    LET successful == RefundTotal(s, WithStatus({"SUCCESS"}))
        legacy == receipt[s].refunded - successful
        reserved == RefundTotal(s, WithStatus(RefundActive \cup {"SUCCESS"}))
        rest == receipt[s].amount - (IF legacy > 0 THEN legacy ELSE 0) - reserved
    IN IF rest > 0 THEN rest ELSE 0

SetRefund(r, status) == refund' = [refund EXCEPT ![r].status = status]

\* source: a refund is asked for and verified through the row that the receipt
\* came from, which is looked up by its status SUCCESS.
HasSource(s) == origin[s] = "SUCCESS"
SourceIsFound(r) == \A s \in refund[r].of : HasSource(s)

-----------------------------------------------------------------------------
(* request *)

\* A reversal concerns the whole payment, a return money that pays no invoice.
TreatmentFits(s, amount, treatment) ==
    IF treatment = "PAYMENT_REVERSAL"
    THEN amount = receipt[s].amount /\ receipt[s].refunded = 0
    ELSE amount <= receipt[s].unallocated

\* The request finds the source of the payment.
FindSource(r, s) ==
    /\ refund[r] = NoRefund
    /\ HasSource(s)
    /\ sought' = [sought EXCEPT ![r] = {s}]
    /\ UNCHANGED <<ledgerVars, refund, asking, payout, answers, posted, origin, restarts>>

\* The reservation transaction, whatever became of the source meanwhile.
RequestRefund(r, s, amount, treatment) ==
    /\ refund[r] = NoRefund
    /\ s \in sought[r]
    /\ receipt[s].status = "CONFIRMED"
    /\ amount > 0 /\ amount <= RefundableAmount(s)
    /\ TreatmentFits(s, amount, treatment)
    /\ refund' = [refund EXCEPT ![r] =
          [status |-> "CREATING", of |-> {s}, amount |-> amount,
           treatment |-> treatment]]
    /\ asking' = [asking EXCEPT ![r] = "send"]
    /\ UNCHANGED <<ledgerVars, payout, answers, posted, origin, sought, restarts>>

\* createRefund is called.
SendRefund(r) ==
    /\ asking[r] = "send"
    /\ asking' = [asking EXCEPT ![r] = "waiting"]
    /\ payout' = [payout EXCEPT ![r] = "REQUESTED"]
    /\ UNCHANGED <<ledgerVars, refund, answers, posted, origin, sought, restarts>>

\* It returns the refund; a success is verified before it is applied.
ReceiveRefund(r) ==
    /\ asking[r] = "waiting"
    /\ payout[r] \in RefundAnswer
    /\ asking' = [asking EXCEPT ![r] = "done"]
    /\ \/ /\ payout[r] # "SUCCESS" \/ SourceIsFound(r)
          /\ answers' = [answers EXCEPT ![r] = @ \cup {payout[r]}]
       \/ payout[r] = "SUCCESS" /\ ~SourceIsFound(r) /\ UNCHANGED answers
    /\ UNCHANGED <<ledgerVars, refund, payout, posted, origin, sought, restarts>>

\* It is answered INVALID_REQUEST.
RecordRefused(r) ==
    /\ asking[r] = "waiting"
    /\ payout[r] = "REFUSED"
    /\ asking' = [asking EXCEPT ![r] = "done"]
    /\ SetRefund(r, "FAILED")
    /\ UNCHANGED <<ledgerVars, payout, answers, posted, origin, sought, restarts>>

\* It fails otherwise: UNKNOWN, over anything a verification wrote meanwhile.
RecordUnclear(r) ==
    /\ asking[r] = "waiting"
    /\ asking' = [asking EXCEPT ![r] = "done"]
    /\ SetRefund(r, "UNKNOWN")
    /\ UNCHANGED <<ledgerVars, payout, answers, posted, origin, sought, restarts>>

-----------------------------------------------------------------------------
(* verify *)

\* verify reads a row that is not successful, finds the source of its payment,
\* without which it throws, and fetches the refund.
FetchRefund(r) ==
    /\ refund[r].status \notin {"NONE", "SUCCESS"}
    /\ SourceIsFound(r)
    /\ payout[r] \in RefundAnswer
    /\ answers' = [answers EXCEPT ![r] = @ \cup {payout[r]}]
    /\ UNCHANGED <<ledgerVars, refund, asking, payout, posted, origin, sought, restarts>>

\* Faulty: only refunds that the provider has acknowledged are looked at.
ReconcilePendingRefund(r) == refund[r].status = "PENDING" /\ FetchRefund(r)

\* The hourly jobs verify every refund that is not closed.
ReconcileRefund(r) == refund[r].status \in RefundActive /\ FetchRefund(r)

\* Faulty: the ledger entry of the refund is not looked up.
PostRefundAgain(r) ==
    \E s \in refund[r].of :
      IF Refundable(s, refund[r].amount, refund[r].treatment)
      THEN /\ ConfirmProviderRefund(s, refund[r].amount, refund[r].treatment)
           /\ SetRefund(r, "SUCCESS")
           /\ posted' = posted \cup {r}
      ELSE UNCHANGED <<ledgerVars, refund, posted>>

\* A refund that the provider paid leaves the receipt, once; a receipt that
\* cannot give it throws and nothing is written.
PostRefund(r) ==
    \E s \in refund[r].of :
      IF r \in posted
      THEN SetRefund(r, "SUCCESS") /\ UNCHANGED <<ledgerVars, posted>>
      ELSE IF Refundable(s, refund[r].amount, refund[r].treatment)
      THEN /\ ConfirmProviderRefund(s, refund[r].amount, refund[r].treatment)
           /\ SetRefund(r, "SUCCESS")
           /\ posted' = posted \cup {r}
      ELSE UNCHANGED <<ledgerVars, refund, posted>>

\* verify writes the answer it fetched; any status but SUCCESS is written over
\* whatever the row says by now.
ApplyRefund(r, answer) ==
    /\ answer \in answers[r]
    /\ answers' = [answers EXCEPT ![r] = @ \ {answer}]
    /\ \/ /\ answer # "SUCCESS"
          /\ SetRefund(r, answer)
          /\ UNCHANGED <<ledgerVars, posted>>
       \/ /\ answer = "SUCCESS"
          /\ IF refund[r].status = "SUCCESS"
             THEN UNCHANGED <<ledgerVars, refund, posted>>
             ELSE PostRefund(r)
    /\ UNCHANGED <<asking, payout, origin, sought, restarts>>

-----------------------------------------------------------------------------
(* The provider, the rest of the ledger, and restarts *)

PayoutBecomes(r, from, to) ==
    /\ payout[r] \in from
    /\ \E state \in to : payout' = [payout EXCEPT ![r] = state]
    /\ UNCHANGED <<ledgerVars, refund, asking, answers, posted, origin, sought, restarts>>

AcceptRefund(r) == PayoutBecomes(r, {"REQUESTED"}, {"PENDING", "REFUSED"})

LoseRefund(r) == PayoutBecomes(r, {"REQUESTED"}, {"ABSENT"})

PayRefund(r) == PayoutBecomes(r, {"PENDING"}, {"SUCCESS", "FAILED"})

\* Allocations leave alone what active refunds reserve of the receipt.
Held(s) == RefundTotal(s, WithStatus(RefundActive))

RefundOffice ==
    /\ BalanceNext \/ \E s \in Sources : AllocateNext(s, Held(s))
    /\ UNCHANGED refundVars

\* A checkout or debit settles: its row says SUCCESS, and the receipt is made
\* with the first settlement.
SettleOrigin(s, amount, T) ==
    /\ ConfirmProviderPayment(s, amount, T)
    /\ origin' = [origin EXCEPT ![s] = "SUCCESS"]
    /\ UNCHANGED <<refund, asking, payout, answers, posted, sought, restarts>>

OriginSettles ==
    \E s \in Sources, amount \in 1..MaxReceipt, T \in SUBSET Invoices :
       SettleOrigin(s, amount, T)

\* A late answer, or a verification that finds several payments, writes the row
\* over; only a later verification that finds one writes SUCCESS again.
HideOrigin(s) ==
    /\ origin[s] = "SUCCESS"
    /\ origin' = [origin EXCEPT ![s] = "OTHER"]
    /\ UNCHANGED <<ledgerVars, refund, asking, payout, answers, posted, sought, restarts>>

RefundCrash ==
    /\ restarts < MaxRestarts
    /\ restarts' = restarts + 1
    /\ asking' = [r \in Refunds |-> IF refund[r] = NoRefund THEN "none" ELSE "done"]
    /\ answers' = [r \in Refunds |-> {}]
    /\ sought' = [r \in Refunds |-> refund[r].of]
    /\ UNCHANGED <<ledgerVars, refund, payout, posted, origin>>

RefundNext ==
    \/ \E r \in Refunds :
          \/ \E s \in Sources : FindSource(r, s)
          \/ \E s \in Sources, amount \in 1..MaxReceipt, treatment \in Treatment :
                RequestRefund(r, s, amount, treatment)
          \/ SendRefund(r) \/ ReceiveRefund(r) \/ RecordRefused(r) \/ RecordUnclear(r)
          \/ FetchRefund(r)
          \/ \E answer \in RefundAnswer : ApplyRefund(r, answer)
          \/ AcceptRefund(r) \/ LoseRefund(r) \/ PayRefund(r)
    \/ OriginSettles
    \/ \E s \in Sources : HideOrigin(s)
    \/ RefundOffice
    \/ RefundCrash

RefundSpec == RefundInit /\ [][RefundNext]_refundAllVars

\* The hourly jobs run, answers are applied, and the provider works.
FairRefundSpec ==
    /\ RefundSpec
    /\ \A r \in Refunds :
          /\ WF_refundAllVars(ReconcileRefund(r))
          /\ \A answer \in RefundAnswer : WF_refundAllVars(ApplyRefund(r, answer))
          /\ WF_refundAllVars(PayRefund(r))

-----------------------------------------------------------------------------
(* Properties *)

\* Types of the refund state.
RefundTypeOK ==
    /\ refund \in [Refunds -> RefundRow]
    /\ asking \in [Refunds -> {"none", "send", "waiting", "done"}]
    /\ payout \in [Refunds -> Payout]
    /\ answers \in [Refunds -> SUBSET RefundAnswer]
    /\ posted \in SUBSET Refunds
    /\ origin \in [Sources -> {"NONE", "SUCCESS", "OTHER"}]
    /\ sought \in [Refunds -> SUBSET Sources]
    /\ restarts \in 0..MaxRestarts

\* Refunds that the provider paid, may pay or is about to be asked for.
PaysOut == {r \in Refunds : \/ payout[r] \in {"REQUESTED", "PENDING", "SUCCESS"}
                            \/ asking[r] = "send"}

\* Partial refunds, timeouts, retries and stale answers together never make the
\* provider pay back more than it collected (refundableAmount, lines 167-203).
NeverOverpaid ==
    \A s \in Sources : RefundTotal(s, PaysOut) <= receipt[s].amount

\* The ledger knows of exactly the refunds it posted, each of them paid: no
\* verification posts a refund twice, even after a late UNKNOWN or PENDING hid
\* its success (lines 314-317, 347-353), and a successful row was posted.
RefundsAddUp ==
    /\ \A s \in Sources : receipt[s].refunded = RefundTotal(s, posted)
    /\ \A r \in posted : payout[r] = "SUCCESS"
    /\ WithStatus({"SUCCESS"}) \subseteq posted

\* A reversal that the provider paid reopens the invoices in the end, whatever
\* was lost on the way, and its row says so for good, if from some point on the
\* row the receipt came from says SUCCESS again (source, lines 80-120): while it
\* does not, every verification throws (line 326).
PaidReversalIsPosted ==
    \A r \in Refunds :
        <>[]SourceIsFound(r) =>
            ((payout[r] = "SUCCESS" /\ refund[r].treatment = "PAYMENT_REVERSAL")
                 ~> [](r \in posted))

=============================================================================

---------------------------- MODULE PaymentProofs ----------------------------
(***************************************************************************)
(* What the payment provider takes from riders and returns to them, and    *)
(* what they approved, for any number of invoices, debits, refunds,        *)
(* mandates, overlapping calls, crashes and amounts.                       *)
(*                                                                         *)
(* AutoPay never credits money that the provider does not hold and never   *)
(* lets two charges of one invoice take money.  Neither is inductive by    *)
(* itself: a row is reserved, rejected, timed out and verified by calls    *)
(* that overlap, and what they write is justified only by what they knew   *)
(* of the charge.  DebitInv records that knowledge; the unique index on    *)
(* live rows does the rest.                                                *)
(*                                                                         *)
(* AutoPay and checkout together implement CollectionPromise.  A checkout  *)
(* needs little for it (CheckoutInv): its order is asked for once, and a   *)
(* reading that found a payment stays true.                                *)
(*                                                                         *)
(* Refunds never return more than a receipt was paid with, and the ledger  *)
(* returns what the provider did.  RefundRowInv records why a row that     *)
(* reserves nothing any more is a refund that will not be paid.            *)
(*                                                                         *)
(* A rider never has two mandates in force and is never debited without    *)
(* approval.  Rows are written from what was read before, so the invariant *)
(* follows what is in hand: a call closes a row only for a reason that     *)
(* lasts (the bank closed the mandate or its term is over), and the unique *)
(* index leaves one open row.                                              *)
(*                                                                         *)
(* Money that the provider took can always be credited, and a refund it    *)
(* paid can always be posted: the guards hold in every reachable state.    *)
(* This is what safety contributes to the liveness properties of the runs. *)
(***************************************************************************)
EXTENDS InvoiceCollection, PaymentRefunds, MandateLifecycle, RiderInvoicesProofs

Live == ActiveStatus \cup {"SUCCESS"}

\* What a row, its call and the answers in hand say about the charge.
DebitInv(d) ==
    /\ debit[d].status = "NONE" <=> caller[d] = "none"
    /\ debit[d].status = "NONE" => debit[d] = NoDebit
    /\ debit[d].status # "NONE" => \E i \in Invoices : debit[d].for = {i}
    /\ caller[d] \in {"none", "recheck", "send"} => charge[d] = "ABSENT"
    /\ caller[d] \in {"recheck", "send"} => debit[d].status = "CREATING"
    /\ fetched[d] # {} => charge[d] \in Answer
    /\ \A answer \in fetched[d] : answer # "PENDING" => charge[d] = answer
    /\ debit[d].status \in {"FAILED", "CANCELLED"} => ~TakesMoney(d)
    /\ debit[d].status = "SUCCESS" => Recorded(d)
    /\ Recorded(d) => /\ debit[d].status \in {"SUCCESS", "UNKNOWN", "PENDING"}
                      /\ charge[d] = "SUCCESS"
                      /\ receipt[d].amount = debit[d].amount

\* The unique index on live transactions of an invoice.
LiveRowsExclusive ==
    \A d, e \in Debits :
        d # e /\ debit[d].for = debit[e].for /\ debit[d].status \in Live
            => debit[e].status \notin Live

AutoPayInv ==
    /\ LedgerTypeOK
    /\ AutoPayTypeOK
    /\ \A d \in Debits : DebitInv(d)
    /\ LiveRowsExclusive

-----------------------------------------------------------------------------
(* Lemmas *)

\* A debit that a step does not touch keeps its invariant.
LEMMA Untouched ==
    ASSUME NEW e \in Debits, DebitInv(e),
           debit'[e] = debit[e], caller'[e] = caller[e], charge'[e] = charge[e],
           fetched'[e] = fetched[e],
           receipt'[e].status = receipt[e].status,
           receipt'[e].amount = receipt[e].amount
    PROVE  DebitInv(e)'
  BY DEF DebitInv, Recorded, TakesMoney

\* What a status write does to the table.
LEMMA StatusWrite ==
    ASSUME AutoPayTypeOK, NEW d \in Debits, NEW status \in DebitStatus,
           NEW retryable \in BOOLEAN, SetDebit(d, status, retryable)
    PROVE  /\ debit' \in [Debits -> DebitRow]
           /\ debit'[d].status = status
           /\ \A e \in Debits : debit'[e].for = debit[e].for /\ debit'[e].amount = debit[e].amount
           /\ \A e \in Debits \ {d} : debit'[e] = debit[e]
<1>1. debit' = [debit EXCEPT ![d] = [debit[d] EXCEPT !.status = status, !.retryable = retryable]]
  BY DEF SetDebit, AutoPayTypeOK
<1>2. [debit[d] EXCEPT !.status = status, !.retryable = retryable] \in DebitRow
  BY DEF AutoPayTypeOK, DebitRow
<1> QED BY <1>1, <1>2 DEF AutoPayTypeOK, DebitRow

\* A status write that the unique index allows keeps live rows exclusive.
LEMMA IndexedWrite ==
    ASSUME AutoPayInv, NEW d \in Debits, NEW status, NEW retryable,
           DebitIndexAllows(d, status), SetDebit(d, status, retryable)
    PROVE  LiveRowsExclusive'
<1>1. \A e \in Debits : debit'[e].for = debit[e].for
  BY DEF SetDebit, AutoPayInv, AutoPayTypeOK, DebitRow
<1>2. \A e \in Debits \ {d} : debit'[e] = debit[e]
  BY DEF SetDebit, AutoPayInv, AutoPayTypeOK
<1>3. debit'[d].status = status
  BY DEF SetDebit, AutoPayInv, AutoPayTypeOK, DebitRow
<1> QED BY <1>1, <1>2, <1>3 DEF AutoPayInv, LiveRowsExclusive, DebitIndexAllows, Live

\* A status that is not live needs no index.
LEMMA DeadWrite ==
    ASSUME AutoPayInv, NEW d \in Debits, NEW status, NEW retryable,
           status \notin Live, SetDebit(d, status, retryable)
    PROVE  LiveRowsExclusive'
  BY IndexedWrite DEF DebitIndexAllows, Live

\* Source identities of debits.
LEMMA DebitsAreSources == Debits \subseteq Sources /\ Debits \subseteq Nat
  BY CollectionAssumption

\* What invoices and wallet do to each other, and allocations, leave every
\* receipt with its amount and with what it returned.
LEMMA BalanceKeepsReceipts ==
    ASSUME LedgerTypeOK, NEW s \in Sources,
           BalanceNext \/ \E t \in Sources, held \in Nat : AllocateNext(t, held)
    PROVE  /\ receipt'[s].status = receipt[s].status
           /\ receipt'[s].amount = receipt[s].amount
           /\ receipt'[s].refunded = receipt[s].refunded
<1>1. PICK t \in Sources : \/ receipt' = receipt
                           \/ \E x : receipt' = [receipt EXCEPT ![t].unallocated = x]
  <2>1. CASE BalanceNext
    <3>1. \/ receipt' = receipt
          \/ \E t \in Sources, i \in Invoices : \E k \in DOMAIN allocation[t][i] :
                ReverseAllocation(t, i, k)
      BY <2>1 DEF BalanceNext, SettleFromWallet, ReverseSettlement, VoidUnpaid, MarkOverdue
    <3> QED BY <3>1 DEF ReverseAllocation
  <2>2. ASSUME NEW t \in Sources, NEW held \in Nat, AllocateNext(t, held)
        PROVE  \E x : receipt' = [receipt EXCEPT ![t].unallocated = x]
    BY <2>2 DEF AllocateNext, Allocate
  <2> QED BY <2>1, <2>2
<1>2. ASSUME NEW x, receipt' = [receipt EXCEPT ![t].unallocated = x]
      PROVE  /\ receipt'[s].status = receipt[s].status
             /\ receipt'[s].amount = receipt[s].amount
             /\ receipt'[s].refunded = receipt[s].refunded
  BY <1>2 DEF LedgerTypeOK, ReceiptRow
<1> QED BY <1>1, <1>2

-----------------------------------------------------------------------------
(* One lemma for each step *)

LEMMA ReserveKeeps ==
    ASSUME AutoPayInv, NEW d \in Debits, NEW i \in Invoices, ReserveDebit(d, i)
    PROVE  AutoPayInv'
<1> USE DEF AutoPayInv
<1> DEFINE row == [status |-> "CREATING", for |-> {i},
                   amount |-> invoice[i].outstanding, retryable |-> FALSE]
<1>1. /\ debit' = [debit EXCEPT ![d] = row]
      /\ caller' = [caller EXCEPT ![d] = "recheck"]
      /\ UNCHANGED <<ledgerVars, checkout, charge, fetched, dunning, noted, crashes>>
      /\ debit[d] = NoDebit
  BY DEF ReserveDebit
<1>2. row \in DebitRow
  BY DEF LedgerTypeOK, InvoiceRow, DebitRow, DebitStatus, ActiveStatus
<1>3. LedgerTypeOK'
  BY <1>1 DEF LedgerTypeOK, ledgerVars
<1>4. AutoPayTypeOK'
  BY <1>1, <1>2 DEF AutoPayTypeOK, Caller
<1>5. debit'[d] = row /\ caller'[d] = "recheck"
  BY <1>1 DEF AutoPayTypeOK
<1>6. DebitInv(d)'
  <2>1. caller[d] = "none" /\ charge[d] = "ABSENT" /\ fetched[d] = {} /\ ~Recorded(d)
    BY <1>1 DEF DebitInv, NoDebit, Answer, Outcome
  <2>2. receipt' = receipt /\ charge' = charge /\ fetched' = fetched
    BY <1>1 DEF ledgerVars
  <2> QED BY <1>5, <2>1, <2>2 DEF DebitInv, Recorded, TakesMoney
<1>7. \A e \in Debits : e # d => DebitInv(e)'
  BY <1>1, Untouched DEF ledgerVars, AutoPayTypeOK
<1>8. LiveRowsExclusive'
  <2>1. \A e \in Debits : i \in debit[e].for => debit[e].status \notin Live
    BY DEF ReserveDebit, DebitAllowed, DebitsOf, Live
  <2>2. \A e \in Debits : e # d => debit'[e] = debit[e]
    BY <1>1 DEF AutoPayTypeOK
  <2> QED BY <1>5, <2>1, <2>2 DEF LiveRowsExclusive
<1> QED BY <1>3, <1>4, <1>6, <1>7, <1>8

LEMMA RecheckKeeps ==
    ASSUME AutoPayInv, NEW d \in Debits, RecheckInvoice(d)
    PROVE  AutoPayInv'
<1> USE DEF AutoPayInv
<1>1. /\ caller[d] = "recheck"
      /\ UNCHANGED <<ledgerVars, checkout, charge, fetched, dunning, noted, crashes>>
      /\ \/ caller' = [caller EXCEPT ![d] = "send"] /\ UNCHANGED debit
         \/ /\ caller' = [caller EXCEPT ![d] = "done"]
            /\ SetDebit(d, "CANCELLED", debit[d].retryable)
  BY DEF RecheckInvoice
<1>2. LedgerTypeOK'
  BY <1>1 DEF LedgerTypeOK, ledgerVars
<1>3. AutoPayTypeOK'
  <2>1. "CANCELLED" \in DebitStatus /\ debit[d].retryable \in BOOLEAN
    BY DEF DebitStatus, ActiveStatus, AutoPayTypeOK, DebitRow
  <2>2. debit' \in [Debits -> DebitRow]
    BY <1>1, <2>1, StatusWrite DEF AutoPayTypeOK
  <2> QED BY <1>1, <2>2 DEF AutoPayTypeOK, Caller
<1>4. DebitInv(d)'
  BY <1>1 DEF DebitInv, ledgerVars, Recorded, TakesMoney, SetDebit, AutoPayTypeOK, DebitRow
<1>5. \A e \in Debits : e # d => DebitInv(e)'
  BY <1>1, Untouched DEF ledgerVars, AutoPayTypeOK, SetDebit
<1>6. LiveRowsExclusive'
  <2>1. "CANCELLED" \notin Live
    BY DEF Live, ActiveStatus
  <2> QED BY <1>1, <2>1, DeadWrite DEF LiveRowsExclusive
<1> QED BY <1>2, <1>3, <1>4, <1>5, <1>6

\* Steps that change no row: the request leaves, the provider acts, an answer is
\* read.
LEMMA RowsStayKeeps ==
    ASSUME AutoPayInv, NEW d \in Debits,
           \/ SendDebit(d) \/ ReceiveReply(d) \/ FetchDebit(d)
           \/ AcceptCharge(d) \/ LoseCharge(d) \/ RunCharge(d)
    PROVE  AutoPayInv'
<1> USE DEF AutoPayInv, SendDebit, ReceiveReply, FetchDebit,
            AcceptCharge, LoseCharge, RunCharge, ChargeBecomes
<1>1. UNCHANGED <<ledgerVars, debit, checkout, dunning, noted, crashes>>
  OBVIOUS
<1>2. LedgerTypeOK'
  BY <1>1 DEF LedgerTypeOK, ledgerVars
<1>3. AutoPayTypeOK'
  BY <1>1 DEF AutoPayTypeOK, Caller, Charge, Answer, Outcome
<1>4. receipt' = receipt
  BY <1>1 DEF ledgerVars
<1>5. DebitInv(d)'
  <2>1. CASE SendDebit(d)
    BY <2>1, <1>1, <1>4 DEF DebitInv, Recorded, TakesMoney, AutoPayTypeOK, Answer, Outcome
  <2>2. CASE ReceiveReply(d) \/ FetchDebit(d)
    BY <2>2, <1>1, <1>4 DEF DebitInv, Recorded, TakesMoney, AutoPayTypeOK, Caller
  <2>3. CASE AcceptCharge(d) \/ LoseCharge(d) \/ RunCharge(d)
    BY <2>3, <1>1, <1>4 DEF DebitInv, Recorded, TakesMoney, AutoPayTypeOK, Answer, Outcome
  <2> QED BY <2>1, <2>2, <2>3
<1>6. \A e \in Debits : e # d => DebitInv(e)'
  BY <1>1, <1>4, Untouched DEF AutoPayTypeOK
<1>7. LiveRowsExclusive'
  BY <1>1 DEF LiveRowsExclusive
<1> QED BY <1>2, <1>3, <1>5, <1>6, <1>7

LEMMA RejectedKeeps ==
    ASSUME AutoPayInv, NEW d \in Debits, RecordRejected(d)
    PROVE  AutoPayInv'
<1> USE DEF AutoPayInv
<1>1. /\ caller[d] = "waiting" /\ charge[d] = "REFUSED"
      /\ caller' = [caller EXCEPT ![d] = "done"]
      /\ SetDebit(d, "FAILED", FALSE)
      /\ UNCHANGED <<ledgerVars, checkout, charge, fetched, dunning, noted, crashes>>
  BY DEF RecordRejected
<1>2. LedgerTypeOK'
  BY <1>1 DEF LedgerTypeOK, ledgerVars
<1>3. AutoPayTypeOK'
  <2>1. "FAILED" \in DebitStatus /\ FALSE \in BOOLEAN
    BY DEF DebitStatus, ActiveStatus, AutoPayTypeOK, DebitRow
  <2>2. debit' \in [Debits -> DebitRow]
    BY <1>1, <2>1, StatusWrite DEF AutoPayTypeOK
  <2> QED BY <1>1, <2>2 DEF AutoPayTypeOK, Caller
<1>4. DebitInv(d)'
  <2>1. /\ debit[d].status # "NONE" /\ ~Recorded(d) /\ fetched[d] = {}
        /\ \E i \in Invoices : debit[d].for = {i}
    BY <1>1 DEF DebitInv, Answer, Outcome
  <2>2. debit'[d].status = "FAILED" /\ debit'[d].for = debit[d].for
    BY <1>1, StatusWrite DEF DebitStatus
  <2>3. caller'[d] = "done" /\ charge'[d] = "REFUSED" /\ fetched'[d] = {} /\ ~Recorded(d)'
    BY <1>1, <2>1 DEF AutoPayTypeOK, ledgerVars, Recorded
  <2> QED BY <2>1, <2>2, <2>3 DEF DebitInv, TakesMoney
<1>5. \A e \in Debits : e # d => DebitInv(e)'
  BY <1>1, Untouched DEF ledgerVars, AutoPayTypeOK, SetDebit
<1>6. LiveRowsExclusive'
  <2>1. "FAILED" \notin Live
    BY DEF Live, ActiveStatus
  <2> QED BY <1>1, <2>1, DeadWrite
<1> QED BY <1>2, <1>3, <1>4, <1>5, <1>6

LEMMA UncertainKeeps ==
    ASSUME AutoPayInv, NEW d \in Debits, RecordUncertain(d)
    PROVE  AutoPayInv'
<1> USE DEF AutoPayInv
<1>1. /\ caller[d] = "waiting"
      /\ caller' = [caller EXCEPT ![d] = "done"]
      /\ \/ DebitIndexAllows(d, "UNKNOWN") /\ SetDebit(d, "UNKNOWN", FALSE)
         \/ UNCHANGED debit
      /\ UNCHANGED <<ledgerVars, checkout, charge, fetched, dunning, noted, crashes>>
  BY DEF RecordUncertain
<1>2. LedgerTypeOK'
  BY <1>1 DEF LedgerTypeOK, ledgerVars
<1>3. AutoPayTypeOK'
  <2>1. "UNKNOWN" \in DebitStatus /\ FALSE \in BOOLEAN
    BY DEF DebitStatus, ActiveStatus, AutoPayTypeOK, DebitRow
  <2>2. debit' \in [Debits -> DebitRow]
    BY <1>1, <2>1, StatusWrite DEF AutoPayTypeOK
  <2> QED BY <1>1, <2>2 DEF AutoPayTypeOK, Caller
<1>4. DebitInv(d)'
  BY <1>1 DEF DebitInv, ledgerVars, Recorded, TakesMoney, SetDebit, AutoPayTypeOK,
     DebitRow
<1>5. \A e \in Debits : e # d => DebitInv(e)'
  BY <1>1, Untouched DEF ledgerVars, AutoPayTypeOK, SetDebit
<1>6. LiveRowsExclusive'
  BY <1>1, IndexedWrite DEF LiveRowsExclusive
<1> QED BY <1>2, <1>3, <1>4, <1>5, <1>6

\* A charge that was collected is settled, or its transaction throws.
LEMMA SettleKeeps ==
    ASSUME AutoPayInv, NEW d \in Debits, debit[d].status # "SUCCESS",
           charge[d] = "SUCCESS", debit[d].status # "NONE", SettleDebit(d),
           fetched' \in [Debits -> SUBSET Answer],
           \A e \in Debits : fetched'[e] \subseteq fetched[e],
           UNCHANGED <<checkout, caller, charge, noted, crashes>>
    PROVE  AutoPayInv'
<1> USE DEF AutoPayInv
<1>1. PICK i \in debit[d].for :
         IF invoice[i].status = "VOID" \/ ~DebitIndexAllows(d, "SUCCESS")
         THEN UNCHANGED <<ledgerVars, debit, dunning>>
         ELSE /\ ConfirmProviderPayment(d, debit[d].amount, {i})
              /\ SetDebit(d, "SUCCESS", debit[d].retryable)
              /\ dunning' = [dunning EXCEPT ![i] = IF DunningOpen(i) THEN "RESOLVED" ELSE @]
  BY DEF SettleDebit
<1>2. CASE UNCHANGED <<ledgerVars, debit, dunning>>
  <2>1. LedgerTypeOK' /\ receipt' = receipt
    BY <1>2 DEF LedgerTypeOK, ledgerVars
  <2>2. AutoPayTypeOK' /\ LiveRowsExclusive'
    BY <1>2 DEF AutoPayTypeOK, LiveRowsExclusive
  <2>3. \A e \in Debits : DebitInv(e)'
    BY <1>2, <2>1 DEF DebitInv, Recorded, TakesMoney
  <2> QED BY <2>1, <2>2, <2>3
<1>3. CASE /\ DebitIndexAllows(d, "SUCCESS")
           /\ ConfirmProviderPayment(d, debit[d].amount, {i})
           /\ SetDebit(d, "SUCCESS", debit[d].retryable)
           /\ dunning' = [dunning EXCEPT ![i] = IF DunningOpen(i) THEN "RESOLVED" ELSE @]
  <2>1. d \in Sources /\ debit[d].amount \in Nat /\ debit[d].retryable \in BOOLEAN
    BY DebitsAreSources DEF AutoPayTypeOK, DebitRow
  <2>2. LedgerTypeOK'
    BY <1>3, <2>1, ConfirmProviderPaymentKeeps
  <2>3. /\ debit' \in [Debits -> DebitRow]
        /\ debit'[d].status = "SUCCESS"
        /\ \A e \in Debits : debit'[e].for = debit[e].for /\ debit'[e].amount = debit[e].amount
        /\ \A e \in Debits \ {d} : debit'[e] = debit[e]
    BY <1>3, <2>1, StatusWrite DEF DebitStatus
  <2>4. dunning' \in [Invoices -> DunningStatus]
    BY <1>3 DEF AutoPayTypeOK, DunningStatus
  <2>5. AutoPayTypeOK'
    BY <2>3, <2>4 DEF AutoPayTypeOK
  <2>6. /\ Recorded(d)'
        /\ receipt'[d].amount = debit[d].amount
        /\ \A e \in Sources \ {d} : receipt'[e] = receipt[e]
    <3>1. CASE Recorded(d)
      <4>1. receipt' = receipt
        BY <3>1, <1>3 DEF ConfirmProviderPayment, ledgerVars
      <4> QED BY <3>1, <4>1 DEF DebitInv, Recorded
    <3>2. CASE ~Recorded(d)
      <4>1. PICK rest : receipt' = [receipt EXCEPT ![d] =
               [status |-> "CONFIRMED", amount |-> debit[d].amount,
                unallocated |-> rest, refunded |-> 0]]
        BY <3>2, <1>3 DEF ConfirmProviderPayment
      <4> QED BY <4>1, <2>1 DEF LedgerTypeOK, Recorded
    <3> QED BY <3>1, <3>2
  <2>7. DebitInv(d)'
    BY <2>3, <2>6 DEF DebitInv, Recorded, TakesMoney
  <2>8. \A e \in Debits : e # d => DebitInv(e)'
    BY <2>3, <2>6, DebitsAreSources DEF DebitInv, Recorded, TakesMoney
  <2>9. LiveRowsExclusive'
    BY <1>3, IndexedWrite
  <2> QED BY <2>2, <2>5, <2>7, <2>8, <2>9
<1> QED BY <1>1, <1>2, <1>3

\* A charge without money: the row follows the answer.
LEMMA AnswerKeeps ==
    ASSUME AutoPayInv, NEW d \in Debits, NEW answer \in Answer,
           answer # "SUCCESS", answer \in fetched[d],
           debit[d].status # "SUCCESS", debit[d].status # "NONE",
           RecordAnswer(d, answer),
           fetched' \in [Debits -> SUBSET Answer],
           \A e \in Debits : fetched'[e] \subseteq fetched[e],
           UNCHANGED <<checkout, caller, charge, noted, crashes>>
    PROVE  AutoPayInv'
<1> USE DEF AutoPayInv
<1> DEFINE status == StatusOf(answer)
           retryable == IF status = "FAILED" THEN answer = "FAILED_RETRYABLE"
                                             ELSE debit[d].retryable
<1>1. PICK i \in debit[d].for :
         IF ~DebitIndexAllows(d, status)
         THEN UNCHANGED <<ledgerVars, debit, dunning>>
         ELSE /\ UNCHANGED ledgerVars
              /\ SetDebit(d, status, retryable)
              /\ dunning' = IF status = "FAILED"
                            THEN [dunning EXCEPT ![i] = AfterFailure(d, i, answer)]
                            ELSE dunning
  BY DEF RecordAnswer
<1>2. LedgerTypeOK' /\ receipt' = receipt
  BY <1>1 DEF LedgerTypeOK, ledgerVars
<1>3. CASE UNCHANGED debit /\ UNCHANGED dunning
  <2>1. AutoPayTypeOK' /\ LiveRowsExclusive'
    BY <1>3 DEF AutoPayTypeOK, LiveRowsExclusive
  <2>2. \A e \in Debits : DebitInv(e)'
    BY <1>3, <1>2 DEF DebitInv, Recorded, TakesMoney
  <2> QED BY <1>2, <2>1, <2>2
<1>4. CASE /\ DebitIndexAllows(d, status)
           /\ SetDebit(d, status, retryable)
           /\ dunning' = IF status = "FAILED"
                         THEN [dunning EXCEPT ![i] = AfterFailure(d, i, answer)]
                         ELSE dunning
  <2>1. /\ status \in {"FAILED", "CANCELLED", "PENDING"}
        /\ status = "PENDING" \/ charge[d] = answer
    BY DEF StatusOf, Answer, Outcome, DebitInv
  <2>2. status \in DebitStatus /\ retryable \in BOOLEAN
    BY <2>1 DEF DebitStatus, ActiveStatus, AutoPayTypeOK, DebitRow
  <2>3. /\ debit' \in [Debits -> DebitRow]
        /\ debit'[d].status = status
        /\ \A e \in Debits : debit'[e].for = debit[e].for /\ debit'[e].amount = debit[e].amount
        /\ \A e \in Debits \ {d} : debit'[e] = debit[e]
    BY <1>4, <2>2, StatusWrite
  <2>4. dunning' \in [Invoices -> DunningStatus]
    BY <1>4 DEF AutoPayTypeOK, DunningStatus, AfterFailure
  <2>5. AutoPayTypeOK'
    BY <2>3, <2>4 DEF AutoPayTypeOK
  <2>6. status # "PENDING" => charge[d] \in {"FAILED", "FAILED_RETRYABLE", "CANCELLED"}
    BY <2>1 DEF StatusOf, Answer, Outcome
  <2>7. caller[d] \notin {"none", "recheck", "send"}
    BY DEF DebitInv, Answer, Outcome
  <2> HIDE DEF status, retryable
  <2>8. DebitInv(d)'
    BY <1>2, <2>1, <2>3, <2>6, <2>7 DEF DebitInv, Recorded, TakesMoney
  <2>9. \A e \in Debits : e # d => DebitInv(e)'
    BY <1>2, <2>3 DEF DebitInv, Recorded, TakesMoney
  <2>10. LiveRowsExclusive'
    BY <1>4, IndexedWrite
  <2> QED BY <1>2, <2>5, <2>8, <2>9, <2>10
<1> QED BY <1>1, <1>3, <1>4

LEMMA ApplyKeepsInv ==
    ASSUME AutoPayInv, NEW d \in Debits, NEW answer \in Answer, ApplyResult(d, answer)
    PROVE  AutoPayInv'
<1> USE DEF AutoPayInv
<1>1. /\ answer \in fetched[d]
      /\ fetched' = [fetched EXCEPT ![d] = @ \ {answer}]
      /\ UNCHANGED <<checkout, caller, charge, noted, crashes>>
  BY DEF ApplyResult
<1>2. fetched' \in [Debits -> SUBSET Answer]
  BY <1>1 DEF AutoPayTypeOK
<1>3. \A e \in Debits : fetched'[e] \subseteq fetched[e]
  BY <1>1 DEF AutoPayTypeOK
<1>4. debit[d].status # "NONE"
  BY <1>1 DEF DebitInv, Answer, Outcome
<1>5. CASE debit[d].status = "SUCCESS"
  <2>1. UNCHANGED <<ledgerVars, debit, dunning>>
    BY <1>5 DEF ApplyResult
  <2>2. LedgerTypeOK' /\ receipt' = receipt
    BY <2>1 DEF LedgerTypeOK, ledgerVars
  <2>3. AutoPayTypeOK' /\ LiveRowsExclusive'
    BY <1>1, <1>2, <2>1 DEF AutoPayTypeOK, LiveRowsExclusive
  <2>4. \A e \in Debits : DebitInv(e)'
    BY <1>1, <1>3, <2>1, <2>2 DEF DebitInv, Recorded, TakesMoney
  <2> QED BY <2>2, <2>3, <2>4
<1>6. CASE debit[d].status # "SUCCESS" /\ answer = "SUCCESS"
  <2>1. SettleDebit(d)
    BY <1>6 DEF ApplyResult
  <2>2. charge[d] = "SUCCESS"
    BY <1>1, <1>6 DEF DebitInv
  <2> QED BY <1>1, <1>2, <1>3, <1>4, <1>6, <2>1, <2>2, SettleKeeps
<1>7. CASE debit[d].status # "SUCCESS" /\ answer # "SUCCESS"
  <2>1. RecordAnswer(d, answer)
    BY <1>7 DEF ApplyResult
  <2> QED BY <1>1, <1>2, <1>3, <1>4, <1>7, <2>1, AnswerKeeps
<1> QED BY <1>5, <1>6, <1>7

\* What the jobs note, and the dunning cases they write.
LEMMA DunningKeeps ==
    ASSUME AutoPayInv, NEW i \in Invoices,
           NoteDue(i) \/ ActionRequired(i) \/ NoteSettled(i) \/ ReconcileDunning(i)
    PROVE  AutoPayInv'
<1> USE DEF AutoPayInv, NoteDue, ActionRequired, NoteSettled, ReconcileDunning
<1>1. UNCHANGED <<ledgerVars, debit, checkout, caller, charge, fetched, crashes>>
  OBVIOUS
<1>2. LedgerTypeOK' /\ receipt' = receipt
  BY <1>1 DEF LedgerTypeOK, ledgerVars
<1>3. /\ dunning' \in [Invoices -> DunningStatus]
      /\ noted' \in [Invoices -> SUBSET {"due", "settled"}]
  BY DEF AutoPayTypeOK, DunningStatus
<1>4. AutoPayTypeOK' /\ LiveRowsExclusive'
  BY <1>1, <1>3 DEF AutoPayTypeOK, LiveRowsExclusive
<1>5. \A e \in Debits : DebitInv(e)'
  BY <1>1, <1>2 DEF DebitInv, Recorded, TakesMoney
<1> QED BY <1>2, <1>4, <1>5

LEMMA CrashKeeps ==
    ASSUME AutoPayInv, DebitCrash
    PROVE  AutoPayInv'
<1> USE DEF AutoPayInv
<1>1. /\ caller' = [d \in Debits |-> IF debit[d] = NoDebit THEN "none" ELSE "done"]
      /\ fetched' = [d \in Debits |-> {}]
      /\ noted' = [i \in Invoices |-> {}]
      /\ crashes < MaxCrashes /\ crashes' = crashes + 1
      /\ UNCHANGED <<ledgerVars, checkout, debit, charge, dunning>>
  BY DEF DebitCrash, ForgetDebitCalls, Restart
<1>2. LedgerTypeOK' /\ receipt' = receipt
  BY <1>1 DEF LedgerTypeOK, ledgerVars
<1>3. crashes' \in 0..MaxCrashes
  BY <1>1, CollectionAssumption DEF AutoPayTypeOK
<1>4. AutoPayTypeOK' /\ LiveRowsExclusive'
  BY <1>1, <1>3 DEF AutoPayTypeOK, LiveRowsExclusive, Caller
<1>5. \A e \in Debits : DebitInv(e)'
  BY <1>1, <1>2 DEF DebitInv, Recorded, TakesMoney, NoDebit
<1> QED BY <1>2, <1>4, <1>5

LEMMA DebitOfficeKeeps ==
    ASSUME AutoPayInv, DebitOffice
    PROVE  AutoPayInv'
<1> USE DEF AutoPayInv
<1>1. OfficeNext /\ UNCHANGED <<debit, caller, charge, fetched, dunning, noted, checkout, crashes>>
  BY DEF DebitOffice, autoPayVars
<1>2. LedgerTypeOK'
  BY <1>1, OfficeKeeps
<1>3. AutoPayTypeOK' /\ LiveRowsExclusive'
  BY <1>1 DEF AutoPayTypeOK, LiveRowsExclusive
<1>4. \A e \in Debits : DebitInv(e)'
  <2>1. \A held \in 0..MaxReceipt : held \in Nat
    BY LedgerAssumption
  <2>2. BalanceNext \/ \E t \in Sources, held \in Nat : AllocateNext(t, held)
    BY <1>1, <2>1 DEF OfficeNext
  <2> QED BY <1>1, <2>2, DebitsAreSources, BalanceKeepsReceipts, Untouched
<1> QED BY <1>2, <1>3, <1>4

-----------------------------------------------------------------------------
(* The invariant, and what follows from it *)

LEMMA AutoPayInitially ==
    ASSUME AutoPayInit
    PROVE  AutoPayInv
<1> USE DEF AutoPayInit
<1>1. LedgerTypeOK
  BY LedgerInitially DEF CollectionsInit
<1>2. AutoPayTypeOK
  BY CollectionAssumption DEF CollectionsInit, DebitInit, AutoPayTypeOK, NoDebit,
     DebitRow, DebitStatus, ActiveStatus, Caller, Charge, Answer, Outcome, DunningStatus
<1>3. \A d \in Debits : DebitInv(d)
  BY DebitsAreSources DEF CollectionsInit, DebitInit, LedgerInit, DebitInv, NoDebit,
     NoReceipt, Recorded, TakesMoney
<1>4. LiveRowsExclusive
  BY DEF CollectionsInit, LiveRowsExclusive, NoDebit, Live, ActiveStatus
<1> QED BY <1>1, <1>2, <1>3, <1>4 DEF AutoPayInv

LEMMA AutoPayStep ==
    ASSUME AutoPayInv, [DebitNext \/ DebitCrash \/ DebitOffice]_autoPayAllVars
    PROVE  AutoPayInv'
<1>1. CASE DebitNext
  BY <1>1, ReserveKeeps, RecheckKeeps, RowsStayKeeps, RejectedKeeps, UncertainKeeps,
     ApplyKeepsInv, DunningKeeps DEF DebitNext, CollectDue
<1>2. CASE DebitCrash
  BY <1>2, CrashKeeps
<1>3. CASE DebitOffice
  BY <1>3, DebitOfficeKeeps
<1>4. CASE UNCHANGED autoPayAllVars
  <2>1. UNCHANGED <<debit, caller, charge, fetched, dunning, noted, crashes>>
        /\ UNCHANGED ledgerVars
    BY <1>4 DEF autoPayAllVars, autoPayVars
  <2>2. LedgerTypeOK' /\ receipt' = receipt
    BY <2>1 DEF AutoPayInv, LedgerTypeOK, ledgerVars
  <2>3. AutoPayTypeOK' /\ LiveRowsExclusive'
    BY <2>1 DEF AutoPayInv, AutoPayTypeOK, LiveRowsExclusive
  <2>4. \A e \in Debits : DebitInv(e)'
    BY <2>1, <2>2 DEF AutoPayInv, DebitInv, Recorded, TakesMoney
  <2> QED BY <2>2, <2>3, <2>4 DEF AutoPayInv
<1> QED BY <1>1, <1>2, <1>3, <1>4

LEMMA AutoPayInvariant == AutoPaySpec => []AutoPayInv
  BY AutoPayInitially, AutoPayStep, PTL DEF AutoPaySpec

\* AutoPay keeps the rows, calls, charges and cases well-formed.
THEOREM AutoPayTypes == AutoPaySpec => []AutoPayTypeOK
<1>1. AutoPayInv => AutoPayTypeOK
  BY DEF AutoPayInv
<1> QED BY <1>1, AutoPayInvariant, PTL

\* A receipt of AutoPay stands for money the provider collected, in the reserved
\* amount (payment-orchestrator.service.ts lines 358-427).
THEOREM CreditsAreCaptured == AutoPaySpec => []CreditIsCaptured
<1>1. AutoPayInv => CreditIsCaptured
  BY DEF AutoPayInv, DebitInv, CreditIsCaptured
<1> QED BY <1>1, AutoPayInvariant, PTL

\* A failed or cancelled row takes no money, so that it may be collected again
\* (payment-orchestrator.service.ts lines 126-138, 234-316, 428-460).
THEOREM DeadRowsAreSafe == AutoPaySpec => []DeadRowsTakeNoMoney
<1>1. AutoPayInv => DeadRowsTakeNoMoney
  BY DEF AutoPayInv, DebitInv, DeadRowsTakeNoMoney
<1> QED BY <1>1, AutoPayInvariant, PTL

\* The row of a credited debit never says that nothing was collected.
THEOREM RowsTellCredit == AutoPaySpec => []RowTellsCredit
<1>1. AutoPayInv => RowTellsCredit
  BY DEF AutoPayInv, DebitInv, RowTellsCredit
<1> QED BY <1>1, AutoPayInvariant, PTL

\* A debit whose charge took or may take money has a live row.
LEMMA TakersAreLive ==
    ASSUME AutoPayInv, NEW d \in Debits, TakesMoney(d)
    PROVE  debit[d].status \in Live
<1>1. debit[d].status \in DebitStatus \ {"NONE", "FAILED", "CANCELLED"}
  BY DEF AutoPayInv, AutoPayTypeOK, DebitRow, DebitInv, TakesMoney
<1> QED BY <1>1 DEF DebitStatus, Live

\* Live rows are about different invoices.
LEMMA LiveRowsAreApart ==
    ASSUME AutoPayInv, NEW d \in Debits, NEW e \in Debits, d # e,
           debit[d].status \in Live, debit[e].status \in Live
    PROVE  debit[d].for \cap debit[e].for = {}
<1>1. PICK i \in Invoices : debit[d].for = {i}
  BY DEF AutoPayInv, DebitInv, Live, ActiveStatus
<1>2. PICK j \in Invoices : debit[e].for = {j}
  BY DEF AutoPayInv, DebitInv, Live, ActiveStatus
<1> QED BY <1>1, <1>2 DEF AutoPayInv, LiveRowsExclusive

\* No invoice is ever charged twice at the provider: two debits of one invoice
\* whose charges took or may take money would both have live rows.
THEOREM NoDoubleCharge == AutoPaySpec => []ChargesExclusive
<1>1. AutoPayInv => ChargesExclusive
  BY TakersAreLive, LiveRowsAreApart DEF ChargesExclusive
<1> QED BY <1>1, AutoPayInvariant, PTL

-----------------------------------------------------------------------------
(* Collections: debits and checkouts on one ledger *)

\* What the row of a checkout, its session and its readings say about the order.
CheckoutInv(c) ==
    /\ checkout[c] = NoCheckout => session[c] = "none"
    /\ session[c] \in {"none", "send"} =>
          order[c] = "ABSENT" /\ tries[c] = NoTries /\ ~Recorded(c)
    /\ \A r \in reading[c] : r.found = "paid" => tries[c].success > 0
    /\ Tried(c) <= MaxTries

CollectionInv ==
    /\ AutoPayInv
    /\ CheckoutTypeOK
    /\ \A c \in Checkouts : CheckoutInv(c)

\* A step of one collection.
Advance(old, new) ==
    \/ new = old
    \/ old = "idle" /\ new \in {"asked", "closed"}
    \/ old = "asked" /\ new \in {"captured", "closed"}
    \/ old = "captured" /\ new = "credited"

StageOf == [s \in Debits \cup Checkouts |->
               IF s \in Debits THEN DebitStage(s) ELSE CheckoutStage(s)]
TargetOf == [s \in Debits \cup Checkouts |->
                IF s \in Debits THEN debit[s].for ELSE checkout[s].for]

LEMMA CheckoutsAreSources ==
    /\ Checkouts \subseteq Sources
    /\ \A c \in Checkouts : c \notin Debits
  BY CollectionAssumption

-----------------------------------------------------------------------------
(* Stages *)

LEMMA SameDebitStage ==
    ASSUME NEW d \in Debits, charge'[d] = charge[d],
           caller'[d] = caller[d] \/ charge[d] # "ABSENT",
           Recorded(d)' <=> Recorded(d)
    PROVE  DebitStage(d)' = DebitStage(d)
  BY DEF DebitStage

LEMMA SameCheckoutStage ==
    ASSUME NEW c \in Checkouts, session'[c] = session[c] \/ order[c] # "ABSENT",
           order'[c] = order[c], tries'[c] = tries[c],
           Recorded(c)' <=> Recorded(c)
    PROVE  CheckoutStage(c)' = CheckoutStage(c)
  BY DEF CheckoutStage

\* The receipt of a provider payment, and no other.
LEMMA ConfirmRecords ==
    ASSUME LedgerTypeOK, NEW s \in Sources, NEW amount, NEW T,
           ConfirmProviderPayment(s, amount, T)
    PROVE  /\ Recorded(s)'
           /\ \A t \in Sources : t # s => receipt'[t] = receipt[t]
<1>1. CASE Recorded(s)
  <2>1. receipt' = receipt
    BY <1>1 DEF ConfirmProviderPayment, ledgerVars
  <2> QED BY <1>1, <2>1 DEF Recorded
<1>2. CASE ~Recorded(s)
  <2>1. PICK rest : receipt' = [receipt EXCEPT ![s] =
           [status |-> "CONFIRMED", amount |-> amount, unallocated |-> rest, refunded |-> 0]]
    BY <1>2 DEF ConfirmProviderPayment
  <2> QED BY <2>1 DEF LedgerTypeOK, Recorded
<1> QED BY <1>1, <1>2

\* A status write keeps the invoice.
LEMMA StatusKeepsTarget ==
    ASSUME AutoPayTypeOK, NEW d \in Debits, NEW status, NEW retryable,
           SetDebit(d, status, retryable)
    PROVE  \A e \in Debits : debit'[e].for = debit[e].for
<1>1. debit' = [debit EXCEPT ![d] = [debit[d] EXCEPT !.status = status, !.retryable = retryable]]
  BY DEF SetDebit, AutoPayTypeOK
<1>2. [debit[d] EXCEPT !.status = status, !.retryable = retryable].for = debit[d].for
  BY DEF AutoPayTypeOK, DebitRow
<1> QED BY <1>1, <1>2 DEF AutoPayTypeOK

\* A step of one debit is a step of its stage.
LEMMA DebitAdvances ==
    ASSUME AutoPayInv, NEW d \in Debits,
           \/ RecheckInvoice(d) \/ SendDebit(d)
           \/ ReceiveReply(d) \/ RecordRejected(d) \/ RecordUncertain(d)
           \/ FetchDebit(d)
           \/ \E answer \in Answer : ApplyResult(d, answer)
           \/ AcceptCharge(d) \/ LoseCharge(d) \/ RunCharge(d)
    PROVE  /\ Advance(DebitStage(d), DebitStage(d)')
           /\ DebitStage(d)' = "asked" => DebitStage(d) = "asked" \/ SendDebit(d)
           /\ \A e \in Debits : e # d => DebitStage(e)' = DebitStage(e)
           /\ \A e \in Debits : debit'[e].for = debit[e].for
           /\ \A s \in Sources : s # d => receipt'[s] = receipt[s]
<1> USE DEF AutoPayInv
<1>0. /\ DebitInv(d)
      /\ \A e \in Debits : e \in Sources
      /\ caller \in [Debits -> Caller] /\ charge \in [Debits -> Charge]
      /\ debit \in [Debits -> DebitRow]
  BY DebitsAreSources DEF AutoPayTypeOK
<1>1. CASE RecheckInvoice(d)
  <2>1. /\ caller[d] = "recheck"
        /\ caller' = [caller EXCEPT ![d] = "send"] \/ caller' = [caller EXCEPT ![d] = "done"]
        /\ charge' = charge /\ receipt' = receipt
        /\ debit' = debit \/ SetDebit(d, "CANCELLED", debit[d].retryable)
    BY <1>1 DEF RecheckInvoice, ledgerVars
  <2>2. charge[d] = "ABSENT" /\ ~Recorded(d)
    BY <1>0, <2>1 DEF DebitInv
  <2>3. \A e \in Debits : e # d => DebitStage(e)' = DebitStage(e)
    BY <1>0, <2>1, SameDebitStage DEF Recorded
  <2>4. DebitStage(d) = "idle" /\ DebitStage(d)' \in {"idle", "closed"}
    BY <1>0, <2>1, <2>2 DEF DebitStage, Recorded
  <2>5. \A e \in Debits : debit'[e].for = debit[e].for
    BY <2>1, StatusKeepsTarget
  <2> QED BY <2>1, <2>3, <2>4, <2>5 DEF Advance
<1>2. CASE SendDebit(d)
  <2>1. /\ caller[d] = "send"
        /\ caller' = [caller EXCEPT ![d] = "waiting"]
        /\ charge' = [charge EXCEPT ![d] = "REQUESTED"]
        /\ debit' = debit /\ receipt' = receipt
    BY <1>2 DEF SendDebit, ledgerVars
  <2>2. charge[d] = "ABSENT" /\ ~Recorded(d)
    BY <1>0, <2>1 DEF DebitInv
  <2>3. \A e \in Debits : e # d => DebitStage(e)' = DebitStage(e)
    BY <1>0, <2>1, SameDebitStage DEF Recorded
  <2>4. DebitStage(d) = "idle" /\ DebitStage(d)' = "asked"
    BY <1>0, <2>1, <2>2 DEF DebitStage, Recorded
  <2> QED BY <1>2, <2>1, <2>3, <2>4 DEF Advance
<1>3. CASE ReceiveReply(d) \/ FetchDebit(d)
  <2>1. /\ caller' = caller \/ caller' = [caller EXCEPT ![d] = "done"]
        /\ charge[d] # "ABSENT"
        /\ charge' = charge /\ debit' = debit /\ receipt' = receipt
    BY <1>3 DEF ReceiveReply, FetchDebit, ledgerVars, Answer, Outcome
  <2>2. \A e \in Debits : DebitStage(e)' = DebitStage(e)
    BY <1>0, <2>1, SameDebitStage DEF Recorded
  <2> QED BY <2>1, <2>2 DEF Advance
<1>4. CASE RecordRejected(d) \/ RecordUncertain(d)
  <2>1. /\ caller[d] = "waiting"
        /\ caller' = [caller EXCEPT ![d] = "done"]
        /\ charge' = charge /\ receipt' = receipt
        /\ debit' = debit \/ \E status : SetDebit(d, status, FALSE)
    BY <1>4 DEF RecordRejected, RecordUncertain, ledgerVars
  <2>2. \A e \in Debits : e # d => DebitStage(e)' = DebitStage(e)
    BY <1>0, <2>1, SameDebitStage DEF Recorded
  <2>3. DebitStage(d)' = DebitStage(d)
    BY <1>0, <2>1 DEF DebitStage, Recorded
  <2>4. \A e \in Debits : debit'[e].for = debit[e].for
    BY <2>1, StatusKeepsTarget
  <2> QED BY <2>1, <2>2, <2>3, <2>4 DEF Advance
<1>5. ASSUME NEW answer \in Answer, ApplyResult(d, answer)
      PROVE  /\ Advance(DebitStage(d), DebitStage(d)')
             /\ DebitStage(d)' = "asked" => DebitStage(d) = "asked"
             /\ \A e \in Debits : e # d => DebitStage(e)' = DebitStage(e)
             /\ \A e \in Debits : debit'[e].for = debit[e].for
             /\ \A s \in Sources : s # d => receipt'[s] = receipt[s]
  <2>1. caller' = caller /\ charge' = charge /\ answer \in fetched[d]
    BY <1>5 DEF ApplyResult
  <2>2. \/ receipt' = receipt
           /\ (debit' = debit \/ \E status, retryable : SetDebit(d, status, retryable))
        \/ /\ answer = "SUCCESS"
           /\ \E i \in debit[d].for : ConfirmProviderPayment(d, debit[d].amount, {i})
           /\ SetDebit(d, "SUCCESS", debit[d].retryable)
    BY <1>5 DEF ApplyResult, SettleDebit, RecordAnswer, ledgerVars
  <2>3. \A e \in Debits : debit'[e].for = debit[e].for
    BY <2>2, StatusKeepsTarget
  <2>4. CASE receipt' = receipt
    <3>1. \A e \in Debits : DebitStage(e)' = DebitStage(e)
      BY <2>1, <2>4, SameDebitStage DEF Recorded
    <3> QED BY <3>1, <2>3, <2>4 DEF Advance
  <2>5. CASE /\ answer = "SUCCESS"
             /\ \E i \in debit[d].for : ConfirmProviderPayment(d, debit[d].amount, {i})
    <3>1. Recorded(d)' /\ \A t \in Sources : t # d => receipt'[t] = receipt[t]
      BY <2>5, <1>0, ConfirmRecords
    <3>2. charge[d] = "SUCCESS"
      BY <1>0, <2>1, <2>5 DEF DebitInv
    <3>3. \A e \in Debits : e # d => DebitStage(e)' = DebitStage(e)
      BY <1>0, <2>1, <3>1, SameDebitStage DEF Recorded
    <3>4. DebitStage(d) \in {"captured", "credited"} /\ DebitStage(d)' = "credited"
      BY <3>1, <3>2 DEF DebitStage
    <3> QED BY <2>3, <3>1, <3>3, <3>4 DEF Advance
  <2> QED BY <2>2, <2>4, <2>5
<1>6. CASE AcceptCharge(d) \/ LoseCharge(d) \/ RunCharge(d)
  <2>1. /\ caller' = caller /\ debit' = debit /\ receipt' = receipt
        /\ \/ charge[d] = "REQUESTED"
              /\ \E x \in {"PENDING", "REFUSED", "ABSENT"} : charge' = [charge EXCEPT ![d] = x]
           \/ charge[d] = "PENDING"
              /\ \E x \in Outcome : charge' = [charge EXCEPT ![d] = x]
    BY <1>6 DEF AcceptCharge, LoseCharge, RunCharge, ChargeBecomes, ledgerVars
  <2>2. ~Recorded(d) /\ caller[d] \notin {"none", "recheck", "send"}
    BY <1>0, <2>1 DEF DebitInv
  <2>3. \A e \in Debits : e # d => DebitStage(e)' = DebitStage(e)
    BY <1>0, <2>1, SameDebitStage DEF Recorded
  <2>4. DebitStage(d) = "asked" /\ DebitStage(d)' \in {"asked", "captured", "closed"}
    BY <1>0, <2>1, <2>2 DEF DebitStage, Recorded, Outcome
  <2> QED BY <2>1, <2>3, <2>4 DEF Advance
<1> QED BY <1>1, <1>2, <1>3, <1>4, <1>5, <1>6


-----------------------------------------------------------------------------
(* Checkouts *)

\* A checkout that a step does not touch.
LEMMA CheckoutUntouched ==
    ASSUME NEW c \in Checkouts, CheckoutInv(c),
           checkout'[c] = checkout[c], session'[c] = session[c], order'[c] = order[c],
           tries'[c] = tries[c], reading'[c] \subseteq reading[c],
           Recorded(c)' <=> Recorded(c)
    PROVE  CheckoutInv(c)' /\ CheckoutStage(c)' = CheckoutStage(c)
<1>1. CheckoutInv(c)'
  BY DEF CheckoutInv, Tried
<1>2. CheckoutStage(c)' = CheckoutStage(c)
  BY SameCheckoutStage
<1> QED BY <1>1, <1>2

\* A status write keeps the invoices, and the row stays in use.
LEMMA CheckoutWrite ==
    ASSUME CheckoutTypeOK, NEW c \in Checkouts, NEW status \in CheckoutStatus \ {"NONE"},
           checkout' = checkout \/ SetCheckout(c, status)
    PROVE  /\ checkout' \in [Checkouts -> CheckoutRow]
           /\ checkout'[c] = NoCheckout => checkout[c] = NoCheckout
           /\ \A e \in Checkouts : checkout'[e].for = checkout[e].for
           /\ \A e \in Checkouts : e # c => checkout'[e] = checkout[e]
<1>1. CASE checkout' = checkout
  BY <1>1 DEF CheckoutTypeOK
<1>2. CASE SetCheckout(c, status)
  <2>1. checkout' = [checkout EXCEPT ![c] = [checkout[c] EXCEPT !.status = status]]
    BY <1>2 DEF SetCheckout, CheckoutTypeOK
  <2>2. /\ [checkout[c] EXCEPT !.status = status] \in CheckoutRow
        /\ [checkout[c] EXCEPT !.status = status].for = checkout[c].for
        /\ [checkout[c] EXCEPT !.status = status].status = status
    BY DEF CheckoutTypeOK, CheckoutRow
  <2>3. [checkout[c] EXCEPT !.status = status] # NoCheckout
    BY <2>2 DEF NoCheckout
  <2> QED BY <2>1, <2>2, <2>3 DEF CheckoutTypeOK
<1> QED BY <1>1, <1>2

\* What each step of a checkout gives.
CheckoutGoesOn(c) ==
    /\ CheckoutTypeOK'
    /\ \A e \in Checkouts : CheckoutInv(e)'
    /\ Advance(CheckoutStage(c), CheckoutStage(c)')
    /\ \A e \in Checkouts : e # c => CheckoutStage(e)' = CheckoutStage(e)
    /\ \A e \in Checkouts : checkout'[e].for = checkout[e].for
    /\ \A s \in Sources : s # c => receipt'[s] = receipt[s]

\* The order is sent, its session comes back, or nothing does.
LEMMA SessionAdvances ==
    ASSUME CollectionInv, NEW c \in Checkouts,
           SendOrder(c) \/ StoreSession(c) \/ RejectOrder(c) \/ LoseSession(c)
    PROVE  CheckoutGoesOn(c)
<1>0. /\ CheckoutTypeOK /\ \A e \in Checkouts : CheckoutInv(e)
      /\ session \in [Checkouts -> Session] /\ order \in [Checkouts -> Order]
  BY DEF CollectionInv, CheckoutTypeOK
<1>1. CASE SendOrder(c)
  <2>1. /\ session[c] = "send"
        /\ session' = [session EXCEPT ![c] = "waiting"]
        /\ order' = [order EXCEPT ![c] = "REQUESTED"]
        /\ UNCHANGED <<receipt, checkout, tries, reading, crashes>>
    BY <1>1 DEF SendOrder, ledgerVars
  <2>2. order[c] = "ABSENT" /\ tries[c] = NoTries /\ ~Recorded(c)
    BY <1>0, <2>1 DEF CheckoutInv
  <2>3. CheckoutTypeOK'
    BY <1>0, <2>1 DEF CheckoutTypeOK, Session, Order
  <2>4. CheckoutInv(c)'
    BY <1>0, <2>1 DEF CheckoutInv, Tried, Recorded
  <2>5. \A e \in Checkouts : e # c => CheckoutInv(e)' /\ CheckoutStage(e)' = CheckoutStage(e)
    BY <1>0, <2>1, CheckoutUntouched DEF Recorded
  <2>6. CheckoutStage(c) = "idle" /\ CheckoutStage(c)' = "asked"
    BY <1>0, <2>1, <2>2 DEF CheckoutStage, Recorded, NoTries
  <2> QED BY <2>1, <2>3, <2>4, <2>5, <2>6 DEF CheckoutGoesOn, Advance
<1>2. CASE StoreSession(c) \/ RejectOrder(c) \/ LoseSession(c)
  <2>1. PICK status \in {"PENDING", "FAILED", "UNKNOWN"}, state \in {"stored", "lost"} :
           /\ session[c] = "waiting"
           /\ session' = [session EXCEPT ![c] = state]
           /\ checkout' = checkout \/ SetCheckout(c, status)
           /\ UNCHANGED <<receipt, order, tries, reading, crashes>>
    BY <1>2 DEF StoreSession, RejectOrder, LoseSession, TryCheckout, ledgerVars
  <2>2. status \in CheckoutStatus \ {"NONE"}
    BY DEF CheckoutStatus, ActiveStatus
  <2>3. /\ checkout' \in [Checkouts -> CheckoutRow]
        /\ checkout'[c] = NoCheckout => checkout[c] = NoCheckout
        /\ \A e \in Checkouts : checkout'[e].for = checkout[e].for
        /\ \A e \in Checkouts : e # c => checkout'[e] = checkout[e]
    BY <1>0, <2>1, <2>2, CheckoutWrite
  <2>4. CheckoutTypeOK'
    BY <1>0, <2>1, <2>3 DEF CheckoutTypeOK, Session
  <2>5. CheckoutInv(c)'
    BY <1>0, <2>1, <2>3 DEF CheckoutInv, Tried, Recorded
  <2>6. \A e \in Checkouts : e # c => CheckoutInv(e)' /\ CheckoutStage(e)' = CheckoutStage(e)
    BY <1>0, <2>1, <2>3, CheckoutUntouched DEF Recorded
  <2>7. CheckoutStage(c)' = CheckoutStage(c)
    BY <1>0, <2>1 DEF CheckoutStage, Recorded
  <2> QED BY <2>1, <2>3, <2>4, <2>5, <2>6, <2>7 DEF CheckoutGoesOn, Advance
<1> QED BY <1>1, <1>2

\* Verifications read.
LEMMA ReadingAdvances ==
    ASSUME CollectionInv, NEW c \in Checkouts,
           FetchPayments(c) \/ \E r \in reading[c] : FetchOrder(c, r)
    PROVE  CheckoutGoesOn(c)
<1>0. /\ CheckoutTypeOK /\ \A e \in Checkouts : CheckoutInv(e)
      /\ reading \in [Checkouts -> SUBSET Reading]
  BY DEF CollectionInv, CheckoutTypeOK
<1>1. /\ UNCHANGED <<receipt, checkout, session, order, tries, crashes>>
      /\ \E new \in SUBSET Reading :
            /\ reading' = [reading EXCEPT ![c] = new]
            /\ \A r \in new : r \in reading[c] \/ (r.found = "paid" => tries[c].success > 0)
  <2>1. CASE FetchPayments(c)
    <3> DEFINE found == [found |-> Found(c), settled |-> checkout[c].status = "SUCCESS"]
    <3>1. found \in Reading /\ found.found = Found(c)
      BY DEF Found, Reading, Finding
    <3>2. Found(c) = "paid" => tries[c].success > 0
      <4>1. tries[c].success \in Nat
        BY <1>0, CheckoutAssumption DEF CheckoutTypeOK, Tries
      <4> QED BY <4>1 DEF Found
    <3>3. /\ UNCHANGED <<receipt, checkout, session, order, tries, crashes>>
          /\ reading' = [reading EXCEPT ![c] = reading[c] \cup {found}]
      BY <1>0, <2>1 DEF FetchPayments, ledgerVars
    <3> HIDE DEF found
    <3>4. reading[c] \cup {found} \in SUBSET Reading
      BY <1>0, <3>1
    <3> QED BY <3>1, <3>2, <3>3, <3>4
  <2>2. ASSUME NEW r \in reading[c], FetchOrder(c, r)
        PROVE  <1>1
    <3>1. PICK found \in {"order expired", "order paid", "order declined"} :
             reading' = [reading EXCEPT ![c] =
                IF order[c] = "ACTIVE" /\ r.found = "open" THEN @ \ {r}
                ELSE (@ \ {r}) \cup {[r EXCEPT !.found = found]}]
      BY <2>2 DEF FetchOrder
    <3> DEFINE after == [r EXCEPT !.found = found]
               new == IF order[c] = "ACTIVE" /\ r.found = "open" THEN reading[c] \ {r}
                      ELSE (reading[c] \ {r}) \cup {after}
    <3>2. r \in Reading
      BY <1>0
    <3>3. after \in Reading /\ after.found # "paid"
      BY <3>2 DEF Reading, Finding
    <3>4. reading' = [reading EXCEPT ![c] = new]
      BY <1>0, <3>1
    <3> HIDE DEF after
    <3>5. new \in SUBSET Reading /\ \A x \in new : x \in reading[c] \/ x = after
      BY <1>0, <3>3
    <3>6. UNCHANGED <<receipt, checkout, session, order, tries, crashes>>
      BY <2>2 DEF FetchOrder, ledgerVars
    <3> HIDE DEF new
    <3> QED BY <3>3, <3>4, <3>5, <3>6
  <2> QED BY <2>1, <2>2
<1>2. PICK new \in SUBSET Reading :
         /\ reading' = [reading EXCEPT ![c] = new]
         /\ \A r \in new : r \in reading[c] \/ (r.found = "paid" => tries[c].success > 0)
  BY <1>1
<1>3. CheckoutTypeOK'
  BY <1>0, <1>1, <1>2 DEF CheckoutTypeOK
<1>4. CheckoutInv(c)'
  BY <1>0, <1>1, <1>2 DEF CheckoutInv, Tried, Recorded
<1>5. \A e \in Checkouts : e # c => CheckoutInv(e)'
  BY <1>0, <1>1, <1>2, CheckoutUntouched DEF Recorded
<1>6. \A e \in Checkouts : CheckoutStage(e)' = CheckoutStage(e)
  BY <1>1, SameCheckoutStage DEF Recorded
<1> QED BY <1>1, <1>3, <1>4, <1>5, <1>6 DEF CheckoutGoesOn, Advance

\* Verifications write: only one that found a payment credits it.
LEMMA ApplyAdvances ==
    ASSUME CollectionInv, NEW c \in Checkouts, NEW r \in reading[c], ApplyReading(c, r)
    PROVE  CheckoutGoesOn(c)
<1>0. /\ CheckoutTypeOK /\ \A e \in Checkouts : CheckoutInv(e) /\ e \in Sources
      /\ reading \in [Checkouts -> SUBSET Reading] /\ LedgerTypeOK
  BY CheckoutsAreSources DEF CollectionInv, CheckoutTypeOK, AutoPayInv
<1>1. PICK status \in {"SUCCESS", "UNKNOWN", "EXPIRED", "FAILED"} :
         /\ checkout' = checkout \/ SetCheckout(c, status)
         /\ \/ receipt' = receipt
            \/ /\ r.found = "paid"
               /\ ConfirmProviderPayment(c, checkout[c].amount, checkout[c].for)
  BY DEF ApplyReading, SettleCheckout, ReviewCheckout, CloseCheckout, TryCheckout,
     ledgerVars
<1>2. /\ reading' = [reading EXCEPT ![c] = @ \ {r}]
      /\ UNCHANGED <<session, order, tries, crashes>>
  BY DEF ApplyReading
<1>3. status \in CheckoutStatus \ {"NONE"}
  BY DEF CheckoutStatus, ActiveStatus
<1>4. /\ checkout' \in [Checkouts -> CheckoutRow]
      /\ checkout'[c] = NoCheckout => checkout[c] = NoCheckout
      /\ \A e \in Checkouts : checkout'[e].for = checkout[e].for
      /\ \A e \in Checkouts : e # c => checkout'[e] = checkout[e]
  BY <1>0, <1>1, <1>3, CheckoutWrite
<1>5. CheckoutTypeOK'
  BY <1>0, <1>2, <1>4 DEF CheckoutTypeOK
<1>6. CASE receipt' = receipt
  <2>1. CheckoutInv(c)'
    BY <1>0, <1>2, <1>4, <1>6 DEF CheckoutInv, Tried, Recorded
  <2>2. \A e \in Checkouts : e # c => CheckoutInv(e)'
    BY <1>0, <1>2, <1>4, <1>6, CheckoutUntouched DEF Recorded
  <2>3. \A e \in Checkouts : CheckoutStage(e)' = CheckoutStage(e)
    BY <1>2, <1>6, SameCheckoutStage DEF Recorded
  <2> QED BY <1>4, <1>5, <1>6, <2>1, <2>2, <2>3 DEF CheckoutGoesOn, Advance
<1>7. CASE /\ r.found = "paid"
           /\ ConfirmProviderPayment(c, checkout[c].amount, checkout[c].for)
  <2>1. Recorded(c)' /\ \A t \in Sources : t # c => receipt'[t] = receipt[t]
    BY <1>0, <1>7, ConfirmRecords
  <2>2. tries[c].success > 0
    BY <1>0, <1>7 DEF CheckoutInv
  <2>3. session[c] \notin {"none", "send"}
    BY <1>0, <2>2 DEF CheckoutInv, NoTries
  <2>4. CheckoutInv(c)'
    BY <1>0, <1>2, <1>4, <2>3 DEF CheckoutInv, Tried
  <2>5. \A e \in Checkouts : e # c => CheckoutInv(e)' /\ CheckoutStage(e)' = CheckoutStage(e)
    BY <1>0, <1>2, <1>4, <2>1, CheckoutUntouched DEF Recorded
  <2>6. CheckoutStage(c)' = "credited"
    BY <2>1 DEF CheckoutStage
  <2>7. CheckoutStage(c) \in {"captured", "credited"}
    <3>1. tries[c] \in [pending : Nat, success : Nat, declined : Nat]
      BY <1>0, CheckoutAssumption DEF CheckoutTypeOK, Tries
    <3> QED BY <2>2, <3>1 DEF CheckoutStage, Recorded
  <2> QED BY <1>4, <1>5, <2>1, <2>4, <2>5, <2>6, <2>7 DEF CheckoutGoesOn, Advance
<1> QED BY <1>1, <1>6, <1>7

\* The provider and the rider.
LEMMA OrderAdvances ==
    ASSUME CollectionInv, NEW c \in Checkouts,
           \/ AcceptOrder(c) \/ LoseOrder(c) \/ ExpireOrder(c)
           \/ TryToPay(c) \/ PaymentEnds(c)
    PROVE  CheckoutGoesOn(c)
<1>0. /\ CheckoutTypeOK /\ \A e \in Checkouts : CheckoutInv(e)
      /\ order \in [Checkouts -> Order] /\ tries \in [Checkouts -> Tries]
      /\ tries[c] \in [pending : Nat, success : Nat, declined : Nat] /\ MaxTries \in Nat
  BY CheckoutAssumption DEF CollectionInv, CheckoutTypeOK, Tries
<1>1. UNCHANGED <<receipt, checkout, session, reading, crashes>>
  BY DEF AcceptOrder, LoseOrder, ExpireOrder, OrderBecomes, TryToPay, PaymentEnds, ledgerVars
<1>2. CASE AcceptOrder(c) \/ LoseOrder(c) \/ ExpireOrder(c)
  <2>1. PICK state :
           /\ order' = [order EXCEPT ![c] = state] /\ tries' = tries
           /\ \/ order[c] = "REQUESTED" /\ state \in {"ACTIVE", "REFUSED", "ABSENT"}
              \/ order[c] = "ACTIVE" /\ state = "EXPIRED"
    BY <1>2 DEF AcceptOrder, LoseOrder, ExpireOrder, OrderBecomes
  <2>2. session[c] \notin {"none", "send"}
    BY <1>0, <2>1 DEF CheckoutInv
  <2>3. CheckoutTypeOK'
    BY <1>0, <1>1, <2>1 DEF CheckoutTypeOK, Order
  <2>4. CheckoutInv(c)'
    BY <1>0, <1>1, <2>1, <2>2 DEF CheckoutInv, Tried, Recorded
  <2>5. \A e \in Checkouts : e # c => CheckoutInv(e)' /\ CheckoutStage(e)' = CheckoutStage(e)
    BY <1>0, <1>1, <2>1, CheckoutUntouched DEF Recorded
  <2>6. Advance(CheckoutStage(c), CheckoutStage(c)')
    BY <1>0, <1>1, <2>1, <2>2 DEF CheckoutStage, Recorded, Advance
  <2> QED BY <1>1, <2>3, <2>4, <2>5, <2>6 DEF CheckoutGoesOn
<1>3. CASE TryToPay(c) \/ PaymentEnds(c)
  <2>1. PICK new \in [pending : Nat, success : Nat, declined : Nat], state \in Order :
           /\ tries' = [tries EXCEPT ![c] = new]
           /\ order' = [order EXCEPT ![c] = state]
           /\ session[c] \notin {"none", "send"}
           /\ new.pending + new.success + new.declined <= MaxTries
           /\ new.success >= tries[c].success
           /\ \/ /\ order[c] = "ACTIVE" /\ state = order[c]
                 /\ new.pending = tries[c].pending + 1
                 /\ new.success = tries[c].success
              \/ tries[c].pending > 0 /\ new.success > 0
              \/ /\ tries[c].pending > 0 /\ new.pending = tries[c].pending - 1
                 /\ new.success = tries[c].success /\ state = order[c]
    <3>1. CASE TryToPay(c)
      <4> DEFINE new == [tries[c] EXCEPT !.pending = @ + 1]
      <4>1. tries' = [tries EXCEPT ![c] = new] /\ order' = [order EXCEPT ![c] = order[c]]
        BY <1>0, <3>1 DEF TryToPay
      <4>2. /\ new \in [pending : Nat, success : Nat, declined : Nat]
            /\ new.pending = tries[c].pending + 1 /\ new.success = tries[c].success
            /\ new.declined = tries[c].declined
        BY <1>0
      <4>3. new.pending + new.success + new.declined <= MaxTries
        BY <1>0, <3>1, <4>2 DEF TryToPay, Tried
      <4>4. order[c] = "ACTIVE" /\ order[c] \in Order /\ session[c] \notin {"none", "send"}
        BY <1>0, <3>1 DEF TryToPay
      <4>5. new.success >= tries[c].success
        BY <1>0, <4>2
      <4> HIDE DEF new
      <4> QED BY <4>1, <4>2, <4>3, <4>4, <4>5
    <3>2. CASE PaymentEnds(c)
      <4>1. tries[c].pending > 0 /\ session[c] \notin {"none", "send"}
        BY <1>0, <3>2 DEF PaymentEnds, CheckoutInv, NoTries
      <4> DEFINE old == tries[c]
                 paid == [pending |-> old.pending - 1, success |-> old.success + 1,
                          declined |-> old.declined]
                 declined == [pending |-> old.pending - 1, success |-> old.success,
                              declined |-> old.declined + 1]
      <4>2. \/ tries' = [tries EXCEPT ![c] = paid] /\ order' = [order EXCEPT ![c] = "PAID"]
            \/ tries' = [tries EXCEPT ![c] = declined] /\ order' = [order EXCEPT ![c] = order[c]]
        <5>1. tries' = [tries EXCEPT ![c].pending = @ - 1, ![c].success = @ + 1]
                => tries' = [tries EXCEPT ![c] = paid]
          BY <1>0 DEF Tries
        <5>2. tries' = [tries EXCEPT ![c].pending = @ - 1, ![c].declined = @ + 1]
                => tries' = [tries EXCEPT ![c] = declined]
          BY <1>0 DEF Tries
        <5> QED BY <1>0, <3>2, <5>1, <5>2 DEF PaymentEnds
      <4>3. Tried(c) <= MaxTries /\ "PAID" \in Order /\ order[c] \in Order
        BY <1>0 DEF CheckoutInv, Order
      <4>4. \A new \in {paid, declined} :
               /\ new \in [pending : Nat, success : Nat, declined : Nat]
               /\ new.pending = tries[c].pending - 1
               /\ new.pending + new.success + new.declined <= MaxTries
               /\ new.success >= tries[c].success
        BY <1>0, <4>1, <4>3 DEF Tried
      <4>5. paid.success > 0 /\ declined.success = tries[c].success
        BY <1>0
      <4> HIDE DEF paid, declined
      <4> QED BY <4>1, <4>2, <4>3, <4>4, <4>5
    <3> QED BY <1>3, <3>1, <3>2
  <2>2. new \in Tries
    BY <1>0, <2>1 DEF Tries
  <2>3. CheckoutTypeOK'
    BY <1>0, <1>1, <2>1, <2>2 DEF CheckoutTypeOK
  <2>4. tries'[c] = new /\ order'[c] = state
    BY <1>0, <2>1
  <2>5. CheckoutInv(c)'
    BY <1>0, <1>1, <2>1, <2>4 DEF CheckoutInv, Tried, Recorded
  <2>6. \A e \in Checkouts : e # c => CheckoutInv(e)' /\ CheckoutStage(e)' = CheckoutStage(e)
    BY <1>0, <1>1, <2>1, CheckoutUntouched DEF Recorded
  <2>7. Advance(CheckoutStage(c), CheckoutStage(c)')
    BY <1>0, <1>1, <2>1, <2>4 DEF CheckoutStage, Recorded, Advance
  <2> QED BY <1>1, <2>3, <2>5, <2>6, <2>7 DEF CheckoutGoesOn
<1> QED BY <1>2, <1>3


-----------------------------------------------------------------------------
(* Steps of the promise *)

\* The actions of the promise, about the stages here.
LEMMA PromisedActions ==
    /\ \A s, T : Promise!Aim(s, T) <=>
          /\ StageOf[s] = "idle" /\ TargetOf[s] = {}
          /\ TargetOf' = [TargetOf EXCEPT ![s] = T]
          /\ StageOf' = StageOf
    /\ \A s : Promise!Ask(s) <=>
          /\ s \in Debits =>
                \A e \in Debits \ {s} : TargetOf[e] \cap TargetOf[s] # {}
                    => StageOf[e] \in {"idle", "closed"}
          /\ StageOf[s] = "idle" /\ StageOf' = [StageOf EXCEPT ![s] = "asked"]
          /\ TargetOf' = TargetOf
    /\ \A s : Promise!Capture(s) <=>
          /\ StageOf[s] = "asked" /\ StageOf' = [StageOf EXCEPT ![s] = "captured"]
          /\ TargetOf' = TargetOf
    /\ \A s : Promise!Credit(s) <=>
          /\ StageOf[s] = "captured" /\ StageOf' = [StageOf EXCEPT ![s] = "credited"]
          /\ TargetOf' = TargetOf
    /\ \A s : Promise!Close(s) <=>
          /\ StageOf[s] = "asked" /\ StageOf' = [StageOf EXCEPT ![s] = "closed"]
          /\ TargetOf' = TargetOf
    /\ \A S : Promise!GiveUp(S) <=>
          /\ \A s \in S : StageOf[s] = "idle"
          /\ StageOf' = [s \in Debits \cup Checkouts |->
                           IF s \in S THEN "closed" ELSE StageOf[s]]
          /\ TargetOf' = TargetOf
<1>1. \A s, T : Promise!Aim(s, T) <=>
          /\ StageOf[s] = "idle" /\ TargetOf[s] = {}
          /\ TargetOf' = [TargetOf EXCEPT ![s] = T]
          /\ StageOf' = StageOf
  BY DEF Promise!Aim, StageOf, TargetOf
<1>2. \A s : Promise!Ask(s) <=>
          /\ s \in Debits =>
                \A e \in Debits \ {s} : TargetOf[e] \cap TargetOf[s] # {}
                    => StageOf[e] \in {"idle", "closed"}
          /\ StageOf[s] = "idle" /\ StageOf' = [StageOf EXCEPT ![s] = "asked"]
          /\ TargetOf' = TargetOf
  BY DEF Promise!Ask, Promise!Become, StageOf, TargetOf
<1>3. \A s : Promise!Capture(s) <=>
          /\ StageOf[s] = "asked" /\ StageOf' = [StageOf EXCEPT ![s] = "captured"]
          /\ TargetOf' = TargetOf
  BY DEF Promise!Capture, Promise!Become, StageOf, TargetOf
<1>4. \A s : Promise!Credit(s) <=>
          /\ StageOf[s] = "captured" /\ StageOf' = [StageOf EXCEPT ![s] = "credited"]
          /\ TargetOf' = TargetOf
  BY DEF Promise!Credit, Promise!Become, StageOf, TargetOf
<1>5. \A s : Promise!Close(s) <=>
          /\ StageOf[s] = "asked" /\ StageOf' = [StageOf EXCEPT ![s] = "closed"]
          /\ TargetOf' = TargetOf
  BY DEF Promise!Close, Promise!Become, StageOf, TargetOf
<1>6. \A S : Promise!GiveUp(S) <=>
          /\ \A s \in S : StageOf[s] = "idle"
          /\ StageOf' = [s \in Debits \cup Checkouts |->
                           IF s \in S THEN "closed" ELSE StageOf[s]]
          /\ TargetOf' = TargetOf
  BY DEF Promise!GiveUp, Promise!Collections, StageOf, TargetOf
<1> QED BY <1>1, <1>2, <1>3, <1>4, <1>5, <1>6

\* What the two functions say of debits and of checkouts, now and next.
LEMMA StagesAre ==
    /\ \A d \in Debits : /\ StageOf[d] = DebitStage(d) /\ StageOf'[d] = DebitStage(d)'
                         /\ TargetOf[d] = debit[d].for /\ TargetOf'[d] = debit'[d].for
    /\ \A c \in Checkouts : /\ StageOf[c] = CheckoutStage(c)
                            /\ StageOf'[c] = CheckoutStage(c)'
                            /\ TargetOf[c] = checkout[c].for
                            /\ TargetOf'[c] = checkout'[c].for
  BY CheckoutsAreSources DEF StageOf, TargetOf

\* Functions of collections that agree are equal, and a change of one is EXCEPT.
LEMMA StagesAgree ==
    /\ (\A s \in Debits \cup Checkouts : StageOf'[s] = StageOf[s]) => StageOf' = StageOf
    /\ (\A s \in Debits \cup Checkouts : TargetOf'[s] = TargetOf[s]) => TargetOf' = TargetOf
    /\ \A s \in Debits \cup Checkouts :
          (\A t \in Debits \cup Checkouts : t # s => StageOf'[t] = StageOf[t])
              => StageOf' = [StageOf EXCEPT ![s] = StageOf'[s]]
    /\ \A s \in Debits \cup Checkouts :
          (\A t \in Debits \cup Checkouts : t # s => TargetOf'[t] = TargetOf[t])
              => TargetOf' = [TargetOf EXCEPT ![s] = TargetOf'[s]]
<1>1. PICK f, g : /\ StageOf = [s \in Debits \cup Checkouts |-> f[s]]
                  /\ StageOf' = [s \in Debits \cup Checkouts |-> g[s]]
  <2>1. StageOf = [s \in Debits \cup Checkouts |-> StageOf[s]]
    BY DEF StageOf
  <2>2. StageOf' = [s \in Debits \cup Checkouts |-> StageOf'[s]]
    BY DEF StageOf
  <2> QED BY <2>1, <2>2
<1>2. PICK p, q : /\ TargetOf = [s \in Debits \cup Checkouts |-> p[s]]
                  /\ TargetOf' = [s \in Debits \cup Checkouts |-> q[s]]
  <2>1. TargetOf = [s \in Debits \cup Checkouts |-> TargetOf[s]]
    BY DEF TargetOf
  <2>2. TargetOf' = [s \in Debits \cup Checkouts |-> TargetOf'[s]]
    BY DEF TargetOf
  <2> QED BY <2>1, <2>2
<1>3. \A s \in Debits \cup Checkouts :
          (\A t \in Debits \cup Checkouts : t # s => StageOf'[t] = StageOf[t])
              => StageOf' = [StageOf EXCEPT ![s] = StageOf'[s]]
  BY <1>1
<1>4. \A s \in Debits \cup Checkouts :
          (\A t \in Debits \cup Checkouts : t # s => TargetOf'[t] = TargetOf[t])
              => TargetOf' = [TargetOf EXCEPT ![s] = TargetOf'[s]]
  BY <1>2
<1> QED BY <1>1, <1>2, <1>3, <1>4

Promised == [Promise!PromiseNext]_<<StageOf, TargetOf>>

LEMMA AdvanceIsPromised ==
    ASSUME NEW s \in Debits \cup Checkouts,
           Advance(StageOf[s], StageOf'[s]),
           \A t \in Debits \cup Checkouts : t # s => StageOf'[t] = StageOf[t],
           \A t \in Debits \cup Checkouts : TargetOf'[t] = TargetOf[t],
           s \in Debits /\ StageOf[s] = "idle" /\ StageOf'[s] = "asked" =>
              \A e \in Debits \ {s} : TargetOf[e] \cap TargetOf[s] # {}
                  => StageOf[e] \in {"idle", "closed"}
    PROVE  Promised
<1>1. TargetOf' = TargetOf /\ StageOf' = [StageOf EXCEPT ![s] = StageOf'[s]]
  BY StagesAgree
<1>2. CASE StageOf'[s] = StageOf[s]
  BY <1>1, <1>2, StagesAgree DEF Promised
<1>3. CASE StageOf[s] = "idle" /\ StageOf'[s] = "closed"
  <2>1. StageOf' = [t \in Debits \cup Checkouts |->
                      IF t \in {s} THEN "closed" ELSE StageOf[t]]
    <3>1. StageOf' = [t \in Debits \cup Checkouts |-> StageOf'[t]]
      BY DEF StageOf
    <3>2. \A t \in Debits \cup Checkouts :
             StageOf'[t] = IF t \in {s} THEN "closed" ELSE StageOf[t]
      BY <1>3
    <3> QED BY <3>1, <3>2, Zenon
  <2>2. Promise!GiveUp({s})
    BY <1>1, <1>3, <2>1, PromisedActions
  <2>3. {s} \in SUBSET (Debits \cup Checkouts)
    OBVIOUS
  <2> QED BY <2>2, <2>3 DEF Promised, Promise!PromiseNext, Promise!Collections
<1>4. CASE \/ StageOf[s] = "idle" /\ StageOf'[s] = "asked"
           \/ StageOf[s] = "asked" /\ StageOf'[s] \in {"captured", "closed"}
           \/ StageOf[s] = "captured" /\ StageOf'[s] = "credited"
  <2>1. Promise!Ask(s) \/ Promise!Capture(s) \/ Promise!Credit(s) \/ Promise!Close(s)
    BY <1>1, <1>4, PromisedActions
  <2> QED BY <2>1 DEF Promised, Promise!PromiseNext, Promise!Collections
<1> QED BY <1>2, <1>3, <1>4 DEF Advance

LEMMA AimIsPromised ==
    ASSUME NEW s \in Debits \cup Checkouts, NEW T \in SUBSET Invoices, T # {},
           StageOf[s] = "idle", TargetOf[s] = {}, TargetOf'[s] = T,
           \A t \in Debits \cup Checkouts : StageOf'[t] = StageOf[t],
           \A t \in Debits \cup Checkouts : t # s => TargetOf'[t] = TargetOf[t]
    PROVE  Promised
<1>1. StageOf' = StageOf /\ TargetOf' = [TargetOf EXCEPT ![s] = T]
  BY StagesAgree
<1>2. Promise!Aim(s, T)
  BY <1>1, PromisedActions
<1> QED BY <1>2 DEF Promised, Promise!PromiseNext, Promise!Collections


-----------------------------------------------------------------------------
(* Debits and checkouts on one ledger *)

\* What AutoPay does leaves checkouts alone.
LEMMA CheckoutsStay ==
    ASSUME CollectionInv, UNCHANGED checkoutVars, crashes' \in 0..MaxCrashes,
           \A c \in Checkouts : Recorded(c)' <=> Recorded(c)
    PROVE  /\ CheckoutTypeOK'
           /\ \A c \in Checkouts : /\ CheckoutInv(c)'
                                  /\ CheckoutStage(c)' = CheckoutStage(c)
                                  /\ checkout'[c].for = checkout[c].for
<1>1. UNCHANGED <<checkout, session, order, tries, reading>>
  BY DEF checkoutVars
<1>2. CheckoutTypeOK'
  BY <1>1 DEF CollectionInv, CheckoutTypeOK
<1>3. \A c \in Checkouts : CheckoutInv(c)' /\ CheckoutStage(c)' = CheckoutStage(c)
  BY <1>1, CheckoutUntouched DEF CollectionInv
<1> QED BY <1>1, <1>2, <1>3

\* What checkout does leaves debits alone.
LEMMA DebitsStay ==
    ASSUME AutoPayInv, LedgerTypeOK', UNCHANGED <<autoPayVars, crashes>>,
           \A d \in Debits : receipt'[d].status = receipt[d].status
                              /\ receipt'[d].amount = receipt[d].amount
    PROVE  /\ AutoPayInv'
           /\ \A d \in Debits : /\ DebitStage(d)' = DebitStage(d)
                               /\ debit'[d].for = debit[d].for
<1>1. UNCHANGED <<debit, caller, charge, fetched, dunning, noted, crashes>>
  BY DEF autoPayVars
<1>2. AutoPayTypeOK' /\ LiveRowsExclusive'
  BY <1>1 DEF AutoPayInv, AutoPayTypeOK, LiveRowsExclusive
<1>3. \A d \in Debits : DebitInv(d)'
  BY <1>1, Untouched DEF AutoPayInv
<1>4. \A d \in Debits : DebitStage(d)' = DebitStage(d)
  BY <1>1, SameDebitStage DEF Recorded
<1> QED BY <1>1, <1>2, <1>3, <1>4 DEF AutoPayInv

LEMMA DebitStepIsPromised ==
    ASSUME CollectionInv, DebitNext, UNCHANGED checkoutVars
    PROVE  CollectionInv' /\ Promised
<1>0. AutoPayInv /\ AutoPayInv'
  BY AutoPayStep DEF CollectionInv
<1>1. crashes' \in 0..MaxCrashes
  BY <1>0 DEF AutoPayInv, AutoPayTypeOK
<1>2. \A c \in Checkouts : c \in Sources /\ c \notin Debits
  BY CheckoutsAreSources
<1>3. ASSUME receipt' = receipt,
             \A d \in Debits : DebitStage(d)' = DebitStage(d) /\ debit'[d].for = debit[d].for
      PROVE  CollectionInv' /\ Promised
  <2>1. \A c \in Checkouts : Recorded(c)' <=> Recorded(c)
    BY <1>3 DEF Recorded
  <2>2. CollectionInv'
    BY <1>0, <1>1, <2>1, CheckoutsStay DEF CollectionInv
  <2>3. \A s \in Debits \cup Checkouts : StageOf'[s] = StageOf[s] /\ TargetOf'[s] = TargetOf[s]
    BY <1>1, <1>3, <2>1, CheckoutsStay, StagesAre
  <2> QED BY <2>2, <2>3, StagesAgree DEF Promised
<1>4. ASSUME NEW d \in Debits, NEW i \in Invoices, ReserveDebit(d, i)
      PROVE  CollectionInv' /\ Promised
  <2>1. /\ debit[d] = NoDebit
        /\ debit' = [debit EXCEPT ![d] =
              [status |-> "CREATING", for |-> {i},
               amount |-> invoice[i].outstanding, retryable |-> FALSE]]
        /\ caller' = [caller EXCEPT ![d] = "recheck"]
        /\ charge' = charge /\ receipt' = receipt
    BY <1>4 DEF ReserveDebit, ledgerVars
  <2>2. /\ DebitInv(d) /\ debit \in [Debits -> DebitRow] /\ caller \in [Debits -> Caller]
    BY <1>0 DEF AutoPayInv, AutoPayTypeOK
  <2>3. caller[d] = "none" /\ charge[d] = "ABSENT" /\ ~Recorded(d) /\ debit[d].for = {}
    BY <2>1, <2>2 DEF DebitInv, NoDebit
  <2>4. DebitStage(d) = "idle" /\ DebitStage(d)' = "idle" /\ debit'[d].for = {i}
    BY <2>1, <2>2, <2>3 DEF DebitStage, Recorded
  <2>5. \A e \in Debits : e # d => DebitStage(e)' = DebitStage(e) /\ debit'[e].for = debit[e].for
    BY <2>1, <2>2, SameDebitStage DEF Recorded
  <2>6. \A c \in Checkouts : Recorded(c)' <=> Recorded(c)
    BY <2>1 DEF Recorded
  <2>7. CollectionInv'
    BY <1>0, <1>1, <2>6, CheckoutsStay DEF CollectionInv
  <2>8. \A s \in Debits \cup Checkouts :
           StageOf'[s] = StageOf[s] /\ (s # d => TargetOf'[s] = TargetOf[s])
    BY <1>1, <2>4, <2>5, <2>6, CheckoutsStay, StagesAre
  <2>9. StageOf[d] = "idle" /\ TargetOf[d] = {} /\ TargetOf'[d] = {i}
    BY <2>3, <2>4, StagesAre
  <2>10. {i} \in SUBSET Invoices /\ {i} # {}
    OBVIOUS
  <2> QED BY <2>7, <2>8, <2>9, <2>10, AimIsPromised
<1>5. ASSUME NEW d \in Debits,
             \/ RecheckInvoice(d) \/ SendDebit(d)
             \/ ReceiveReply(d) \/ RecordRejected(d) \/ RecordUncertain(d)
             \/ FetchDebit(d)
             \/ \E answer \in Answer : ApplyResult(d, answer)
             \/ AcceptCharge(d) \/ LoseCharge(d) \/ RunCharge(d)
      PROVE  CollectionInv' /\ Promised
  <2>1. /\ Advance(DebitStage(d), DebitStage(d)')
        /\ DebitStage(d)' = "asked" => DebitStage(d) = "asked" \/ SendDebit(d)
        /\ \A e \in Debits : e # d => DebitStage(e)' = DebitStage(e)
        /\ \A e \in Debits : debit'[e].for = debit[e].for
        /\ \A s \in Sources : s # d => receipt'[s] = receipt[s]
    BY <1>0, <1>5, DebitAdvances
  <2>2. \A c \in Checkouts : Recorded(c)' <=> Recorded(c)
    BY <1>2, <2>1 DEF Recorded
  <2>3. CollectionInv'
    BY <1>0, <1>1, <2>2, CheckoutsStay DEF CollectionInv
  <2>4. \A s \in Debits \cup Checkouts :
           /\ s # d => StageOf'[s] = StageOf[s]
           /\ TargetOf'[s] = TargetOf[s]
    BY <1>1, <2>1, <2>2, CheckoutsStay, StagesAre
  <2>5. Advance(StageOf[d], StageOf'[d])
    BY <2>1, StagesAre
  <2>6. ASSUME StageOf[d] = "idle", StageOf'[d] = "asked",
               NEW e \in Debits \ {d}, TargetOf[e] \cap TargetOf[d] # {}
        PROVE  StageOf[e] \in {"idle", "closed"}
    <3>1. caller[d] = "send"
      BY <2>1, <2>6, StagesAre DEF SendDebit
    <3>2. debit[d].status \in Live
      BY <1>0, <3>1 DEF AutoPayInv, DebitInv, Live, ActiveStatus
    <3>3. debit[d].for \cap debit[e].for # {}
      BY <2>6, StagesAre
    <3>4. ~TakesMoney(e)
      BY <1>0, <3>2, <3>3, TakersAreLive, LiveRowsAreApart
    <3>5. charge[e] \notin {"REQUESTED", "PENDING", "SUCCESS"} /\ ~Recorded(e)
      BY <1>0, <3>4 DEF TakesMoney, AutoPayInv, DebitInv
    <3>6. DebitStage(e) \in {"idle", "closed"}
      BY <3>5 DEF DebitStage
    <3> QED BY <3>6, StagesAre
  <2> QED BY <2>3, <2>4, <2>5, <2>6, AdvanceIsPromised
<1>6. ASSUME NEW i \in Invoices,
             NoteDue(i) \/ ActionRequired(i) \/ NoteSettled(i) \/ ReconcileDunning(i)
      PROVE  CollectionInv' /\ Promised
  <2>1. UNCHANGED <<receipt, debit, caller, charge>>
    BY <1>6 DEF NoteDue, ActionRequired, NoteSettled, ReconcileDunning, ledgerVars
  <2>2. \A d \in Debits : DebitStage(d)' = DebitStage(d) /\ debit'[d].for = debit[d].for
    BY <2>1, SameDebitStage DEF Recorded
  <2> QED BY <1>3, <2>1, <2>2
<1> QED BY <1>4, <1>5, <1>6 DEF DebitNext, CollectDue

LEMMA CheckoutStepIsPromised ==
    ASSUME CollectionInv, CheckoutNext, UNCHANGED autoPayVars
    PROVE  CollectionInv' /\ Promised
<1>0. /\ AutoPayInv /\ LedgerTypeOK /\ CheckoutTypeOK
      /\ \A c \in Checkouts : CheckoutInv(c) /\ c \in Sources /\ c \notin Debits
      /\ \A d \in Debits : d \in Sources
      /\ checkout \in [Checkouts -> CheckoutRow]
  BY CheckoutsAreSources, DebitsAreSources DEF CollectionInv, AutoPayInv, CheckoutTypeOK
<1>1. LedgerTypeOK' /\ crashes' = crashes
  <2>1. \/ UNCHANGED ledgerVars
        \/ \E c \in Checkouts : \E T :
              ConfirmProviderPayment(c, checkout[c].amount, T)
    BY DEF CheckoutNext, PayInvoice, PayOutstanding, Reserve, SendOrder, StoreSession,
       RejectOrder, LoseSession, FetchPayments, FetchOrder, ApplyReading, SettleCheckout,
       ReviewCheckout, CloseCheckout, AcceptOrder, LoseOrder, ExpireOrder, OrderBecomes,
       TryToPay, PaymentEnds
  <2>2. crashes' = crashes
    BY DEF CheckoutNext, PayInvoice, PayOutstanding, Reserve, SendOrder, StoreSession,
       RejectOrder, LoseSession, FetchPayments, FetchOrder, ApplyReading,
       AcceptOrder, LoseOrder, ExpireOrder, OrderBecomes, TryToPay, PaymentEnds
  <2>3. \A c \in Checkouts : checkout[c].amount \in Nat
    BY <1>0 DEF CheckoutRow
  <2>4. UNCHANGED ledgerVars => LedgerTypeOK'
    BY <1>0 DEF LedgerTypeOK, ledgerVars
  <2> QED BY <1>0, <2>1, <2>2, <2>3, <2>4, ConfirmProviderPaymentKeeps
<1>2. ASSUME NEW c \in Checkouts, CheckoutGoesOn(c)
      PROVE  CollectionInv' /\ Promised
  <2>1. \A d \in Debits : receipt'[d].status = receipt[d].status
                           /\ receipt'[d].amount = receipt[d].amount
    BY <1>0, <1>2 DEF CheckoutGoesOn
  <2>2. /\ AutoPayInv'
        /\ \A d \in Debits : DebitStage(d)' = DebitStage(d) /\ debit'[d].for = debit[d].for
    BY <1>0, <1>1, <2>1, DebitsStay
  <2>3. CollectionInv'
    BY <1>2, <2>2 DEF CheckoutGoesOn, CollectionInv
  <2>4. \A s \in Debits \cup Checkouts :
           /\ s # c => StageOf'[s] = StageOf[s]
           /\ TargetOf'[s] = TargetOf[s]
    BY <1>2, <2>2, StagesAre DEF CheckoutGoesOn
  <2>5. Advance(StageOf[c], StageOf'[c])
    BY <1>2, StagesAre DEF CheckoutGoesOn
  <2> QED BY <1>0, <2>3, <2>4, <2>5, AdvanceIsPromised
<1>3. ASSUME NEW c \in Checkouts, NEW row \in CheckoutRow, row.status = "CREATING",
             row.for # {}, Reserve(c, row)
      PROVE  CollectionInv' /\ Promised
  <2>1. /\ checkout[c] = NoCheckout
        /\ checkout' = [checkout EXCEPT ![c] = row]
        /\ session' = [session EXCEPT ![c] = "send"]
        /\ UNCHANGED <<receipt, order, tries, reading, crashes>>
    BY <1>3 DEF Reserve, ledgerVars
  <2>2. session[c] = "none" /\ session \in [Checkouts -> Session]
    BY <1>0, <2>1 DEF CheckoutInv, CheckoutTypeOK
  <2>3. order[c] = "ABSENT" /\ tries[c] = NoTries /\ ~Recorded(c) /\ checkout[c].for = {}
    BY <1>0, <2>1, <2>2 DEF CheckoutInv, NoCheckout
  <2>4. CheckoutTypeOK'
    BY <1>0, <2>1, <2>2 DEF CheckoutTypeOK, Session
  <2>5. checkout'[c] = row /\ row # NoCheckout /\ session'[c] = "send"
    BY <1>0, <1>3, <2>1, <2>2 DEF NoCheckout
  <2>6. CheckoutInv(c)'
    BY <1>0, <2>1, <2>3, <2>5 DEF CheckoutInv, Tried, Recorded
  <2>7. \A e \in Checkouts : e # c => /\ CheckoutInv(e)' /\ CheckoutStage(e)' = CheckoutStage(e)
                                     /\ checkout'[e].for = checkout[e].for
    BY <1>0, <2>1, <2>2, CheckoutUntouched DEF Recorded
  <2>8. CheckoutStage(c) = "idle" /\ CheckoutStage(c)' = "idle"
    BY <2>1, <2>2, <2>3, <2>5 DEF CheckoutStage, Recorded, NoTries
  <2>9. /\ AutoPayInv'
        /\ \A d \in Debits : DebitStage(d)' = DebitStage(d) /\ debit'[d].for = debit[d].for
    BY <1>0, <1>1, <2>1, DebitsStay
  <2>10. CollectionInv'
    BY <2>4, <2>6, <2>7, <2>9 DEF CollectionInv
  <2>11. \A s \in Debits \cup Checkouts :
            StageOf'[s] = StageOf[s] /\ (s # c => TargetOf'[s] = TargetOf[s])
    BY <2>7, <2>8, <2>9, StagesAre
  <2>12. StageOf[c] = "idle" /\ TargetOf[c] = {} /\ TargetOf'[c] = row.for
    BY <2>3, <2>5, <2>8, StagesAre
  <2>13. row.for \in SUBSET Invoices
    BY DEF CheckoutRow
  <2> QED BY <1>3, <2>10, <2>11, <2>12, <2>13, AimIsPromised
<1>4. ASSUME NEW c \in Checkouts, NEW i \in Invoices, PayInvoice(c, i)
      PROVE  CollectionInv' /\ Promised
  <2> DEFINE row == [status |-> "CREATING", for |-> {i}, kind |-> "INVOICE_PAYMENT",
                     amount |-> invoice[i].outstanding]
  <2>1. row \in CheckoutRow /\ row.for # {} /\ row.status = "CREATING"
    BY <1>0 DEF CheckoutRow, CheckoutStatus, CheckoutKind, ActiveStatus, LedgerTypeOK, InvoiceRow
  <2>2. Reserve(c, row)
    BY <1>4 DEF PayInvoice
  <2> HIDE DEF row
  <2> QED BY <1>3, <2>1, <2>2
<1>5. ASSUME NEW c \in Checkouts, NEW amount \in 1..MaxReceipt, PayOutstanding(c, amount)
      PROVE  CollectionInv' /\ Promised
  <2> DEFINE row == [status |-> "CREATING", for |-> Invoices, kind |-> "OUTSTANDING_PAYMENT",
                     amount |-> amount]
             owed == [i \in Invoices |-> invoice[i].outstanding]
             open == {i \in Invoices : Payable(i)}
  <2>1. row \in CheckoutRow /\ row.for = Invoices /\ row.status = "CREATING"
    BY LedgerAssumption DEF CheckoutRow, CheckoutStatus, CheckoutKind, ActiveStatus
  <2>2. Reserve(c, row) /\ amount \in 1..SumFunctionOnSet(owed, open)
    BY <1>5 DEF PayOutstanding
  <2> HIDE DEF row, owed
  <2>3. Invoices # {}
    <3>1. ASSUME Invoices = {} PROVE FALSE
      <4>1. open = {}
        BY <3>1
      <4> HIDE DEF open
      <4>2. SumFunctionOnSet(owed, open) = 0
        BY <4>1, SumOfNone
      <4> QED BY <2>2, <4>2
    <3> QED BY <3>1
  <2> QED BY <1>3, <2>1, <2>2, <2>3
<1>6. ASSUME NEW c \in Checkouts,
             \/ SendOrder(c) \/ StoreSession(c) \/ RejectOrder(c) \/ LoseSession(c)
             \/ FetchPayments(c)
             \/ \E r \in reading[c] : FetchOrder(c, r) \/ ApplyReading(c, r)
             \/ AcceptOrder(c) \/ LoseOrder(c) \/ ExpireOrder(c)
             \/ TryToPay(c) \/ PaymentEnds(c)
      PROVE  CollectionInv' /\ Promised
  <2>1. CheckoutGoesOn(c)
    BY <1>6, SessionAdvances, ReadingAdvances, ApplyAdvances, OrderAdvances
  <2> QED BY <1>2, <2>1
<1> QED BY <1>4, <1>5, <1>6 DEF CheckoutNext

\* A restart gives up whatever the provider has not heard of, all at once.
LEMMA RestartIsPromised ==
    ASSUME CollectionInv, Restart, ForgetDebitCalls, ForgetCheckoutCalls,
           UNCHANGED ledgerVars
    PROVE  CollectionInv' /\ Promised
<1>0. /\ AutoPayInv /\ CheckoutTypeOK /\ \A c \in Checkouts : CheckoutInv(c)
      /\ session \in [Checkouts -> Session]
  BY DEF CollectionInv, CheckoutTypeOK
<1>1. /\ UNCHANGED <<receipt, debit, charge, checkout, order, tries>>
      /\ session' = [c \in Checkouts |->
                       IF session[c] \in {"send", "waiting"} THEN "lost" ELSE session[c]]
      /\ reading' = [c \in Checkouts |-> {}]
      /\ caller' = [d \in Debits |-> IF debit[d] = NoDebit THEN "none" ELSE "done"]
  BY DEF ForgetDebitCalls, ForgetCheckoutCalls, ledgerVars
<1>2. AutoPayInv'
  <2>1. DebitCrash
    BY <1>1 DEF DebitCrash
  <2> QED BY <1>0, <2>1, AutoPayStep
<1>3. crashes' \in 0..MaxCrashes
  BY <1>2 DEF AutoPayInv, AutoPayTypeOK
<1>4. CheckoutTypeOK'
  BY <1>0, <1>1, <1>3 DEF CheckoutTypeOK, Session
<1>5. \A c \in Checkouts : CheckoutInv(c)'
  BY <1>0, <1>1 DEF CheckoutInv, Tried, Recorded
<1>6. CollectionInv'
  BY <1>2, <1>4, <1>5 DEF CollectionInv
<1>7. \A d \in Debits : \/ DebitStage(d)' = DebitStage(d)
                        \/ DebitStage(d) = "idle" /\ DebitStage(d)' = "closed"
  <2>1. \A d \in Debits : debit[d] = NoDebit => caller[d] = "none"
    BY <1>0 DEF AutoPayInv, DebitInv, NoDebit
  <2> QED BY <1>1, <2>1 DEF DebitStage, Recorded
<1>8. \A c \in Checkouts : \/ CheckoutStage(c)' = CheckoutStage(c)
                           \/ CheckoutStage(c) = "idle" /\ CheckoutStage(c)' = "closed"
  BY <1>1 DEF CheckoutStage, Recorded
<1>9. PICK S \in SUBSET (Debits \cup Checkouts) :
         \A s \in Debits \cup Checkouts :
            s \in S <=> StageOf[s] = "idle" /\ StageOf'[s] = "closed"
  <2>1. \E S : S = {s \in Debits \cup Checkouts :
                    StageOf[s] = "idle" /\ StageOf'[s] = "closed"}
    OBVIOUS
  <2> QED BY <2>1
<1>10. \A s \in Debits \cup Checkouts :
          /\ StageOf'[s] = IF s \in S THEN "closed" ELSE StageOf[s]
          /\ TargetOf'[s] = TargetOf[s]
  BY <1>1, <1>7, <1>8, <1>9, StagesAre
<1>11. StageOf' = [s \in Debits \cup Checkouts |-> IF s \in S THEN "closed" ELSE StageOf[s]]
  <2>1. StageOf' = [s \in Debits \cup Checkouts |-> StageOf'[s]]
    BY DEF StageOf
  <2> QED BY <1>10, <2>1, Zenon
<1>12. Promise!GiveUp(S)
  <2>1. TargetOf' = TargetOf /\ \A s \in S : StageOf[s] = "idle"
    BY <1>9, <1>10, StagesAgree
  <2> QED BY <1>11, <2>1, PromisedActions
<1> QED BY <1>6, <1>12 DEF Promised, Promise!PromiseNext, Promise!Collections

LEMMA OfficeIsPromised ==
    ASSUME CollectionInv, OfficeNext, UNCHANGED <<autoPayVars, checkoutVars, crashes>>
    PROVE  CollectionInv' /\ Promised
<1>0. AutoPayInv /\ LedgerTypeOK
  BY DEF CollectionInv, AutoPayInv
<1>1. BalanceNext \/ \E t \in Sources, held \in Nat : AllocateNext(t, held)
  <2>1. \A held \in 0..MaxReceipt : held \in Nat
    BY LedgerAssumption
  <2> QED BY <2>1 DEF OfficeNext
<1>2. \A s \in Sources : receipt'[s].status = receipt[s].status
                         /\ receipt'[s].amount = receipt[s].amount
  BY <1>0, <1>1, BalanceKeepsReceipts
<1>3. LedgerTypeOK'
  BY <1>0, OfficeKeeps
<1>4. /\ AutoPayInv'
      /\ \A d \in Debits : DebitStage(d)' = DebitStage(d) /\ debit'[d].for = debit[d].for
  BY <1>0, <1>2, <1>3, DebitsStay, DebitsAreSources
<1>5. crashes' \in 0..MaxCrashes
  BY <1>4 DEF AutoPayInv, AutoPayTypeOK
<1>6. \A c \in Checkouts : Recorded(c)' <=> Recorded(c)
  BY <1>2, CheckoutsAreSources DEF Recorded
<1>7. CollectionInv'
  BY <1>4, <1>5, <1>6, CheckoutsStay DEF CollectionInv
<1>8. \A s \in Debits \cup Checkouts : StageOf'[s] = StageOf[s] /\ TargetOf'[s] = TargetOf[s]
  BY <1>4, <1>5, <1>6, CheckoutsStay, StagesAre
<1> QED BY <1>7, <1>8, StagesAgree DEF Promised

LEMMA CollectionStutters ==
    ASSUME CollectionInv, UNCHANGED collectionVars
    PROVE  CollectionInv' /\ Promised
<1>1. /\ UNCHANGED <<ledgerVars, receipt, autoPayVars, checkoutVars, crashes>>
      /\ AutoPayInv /\ LedgerTypeOK
  BY DEF collectionVars, ledgerVars, CollectionInv, AutoPayInv
<1>2. LedgerTypeOK'
  BY <1>1 DEF LedgerTypeOK, ledgerVars
<1>3. /\ AutoPayInv'
      /\ \A d \in Debits : DebitStage(d)' = DebitStage(d) /\ debit'[d].for = debit[d].for
  BY <1>1, <1>2, DebitsStay
<1>4. crashes' \in 0..MaxCrashes /\ \A c \in Checkouts : Recorded(c)' <=> Recorded(c)
  BY <1>1, <1>3 DEF AutoPayInv, AutoPayTypeOK, Recorded
<1>5. CollectionInv'
  BY <1>1, <1>3, <1>4, CheckoutsStay DEF CollectionInv
<1>6. \A s \in Debits \cup Checkouts : StageOf'[s] = StageOf[s] /\ TargetOf'[s] = TargetOf[s]
  BY <1>1, <1>3, <1>4, CheckoutsStay, StagesAre
<1> QED BY <1>5, <1>6, StagesAgree DEF Promised

LEMMA CollectionInitially ==
    ASSUME CollectionInit
    PROVE  CollectionInv /\ Promise!PromiseInit
<1>1. AutoPayInv
  BY AutoPayInitially DEF CollectionInit, AutoPayInit
<1>2. /\ checkout = [c \in Checkouts |-> NoCheckout]
      /\ session = [c \in Checkouts |-> "none"]
      /\ order = [c \in Checkouts |-> "ABSENT"]
      /\ tries = [c \in Checkouts |-> NoTries]
      /\ reading = [c \in Checkouts |-> {}]
      /\ debit = [d \in Debits |-> NoDebit]
      /\ caller = [d \in Debits |-> "none"] /\ charge = [d \in Debits |-> "ABSENT"]
      /\ \A s \in Sources : ~Recorded(s)
      /\ crashes = 0
  BY DEF CollectionInit, CollectionsInit, OrderInit, DebitInit, LedgerInit, Recorded, NoReceipt
<1>3. CheckoutTypeOK
  <2>1. NoCheckout \in CheckoutRow /\ NoTries \in Tries /\ 0 \in 0..MaxCrashes
    BY CheckoutAssumption, CollectionAssumption DEF NoCheckout, CheckoutRow, CheckoutStatus,
       CheckoutKind, NoTries, Tries
  <2> QED BY <1>2, <2>1 DEF CheckoutTypeOK, Session, Order
<1>4. \A c \in Checkouts : CheckoutInv(c)
  BY <1>2, CheckoutsAreSources, CheckoutAssumption DEF CheckoutInv, NoTries, Tried
<1>5. \A d \in Debits : DebitStage(d) = "idle" /\ debit[d].for = {}
  BY <1>2, DebitsAreSources DEF DebitStage, NoDebit
<1>6. \A c \in Checkouts : CheckoutStage(c) = "idle" /\ checkout[c].for = {}
  BY <1>2, CheckoutsAreSources DEF CheckoutStage, NoCheckout, NoTries
<1>7. Promise!PromiseInit
  BY <1>5, <1>6 DEF Promise!PromiseInit, Promise!Collections
<1> QED BY <1>1, <1>3, <1>4, <1>7 DEF CollectionInv

\* AutoPay and checkout, on one ledger, through restarts and the office's work,
\* implement CollectionPromise: every step is a step of it or a stutter
\* (payment-orchestrator.service.ts lines 341-460, checkout-collection.service.ts).
THEOREM CollectionKeepsThePromise == CollectionSpec => KeepsThePromise
<1>1. CollectionInv /\ [CollectionNext]_collectionVars => CollectionInv' /\ Promised
  <2> SUFFICES ASSUME CollectionInv, [CollectionNext]_collectionVars
               PROVE  CollectionInv' /\ Promised
    OBVIOUS
  <2> QED BY DebitStepIsPromised, CheckoutStepIsPromised, RestartIsPromised,
             OfficeIsPromised, CollectionStutters DEF CollectionNext
<1>2. Promised => [Promise!PromiseNext]_<<StageOf, TargetOf>>
  BY DEF Promised
<1> QED BY <1>1, <1>2, CollectionInitially, PTL
           DEF CollectionSpec, KeepsThePromise, Promise!PromiseSpec, StageOf, TargetOf

\* The steps of collections keep their invariant.
LEMMA CollectionStep ==
    ASSUME CollectionInv, [CollectionNext]_collectionVars
    PROVE  CollectionInv'
  BY DebitStepIsPromised, CheckoutStepIsPromised, RestartIsPromised,
     OfficeIsPromised, CollectionStutters DEF CollectionNext

LEMMA CollectionInvariant == CollectionSpec => []CollectionInv
<1>1. CollectionInit => CollectionInv
  BY CollectionInitially
<1>2. CollectionInv /\ [CollectionNext]_collectionVars => CollectionInv'
  BY CollectionStep
<1> QED BY <1>1, <1>2, PTL DEF CollectionSpec

\* AutoPay and checkout together keep every table, call and reading well-formed.
THEOREM CollectionTypes ==
    CollectionSpec => [](LedgerTypeOK /\ AutoPayTypeOK /\ CheckoutTypeOK)
<1>1. CollectionInv => LedgerTypeOK /\ AutoPayTypeOK /\ CheckoutTypeOK
  BY DEF CollectionInv, AutoPayInv
<1> QED BY <1>1, CollectionInvariant, PTL

\* What AutoPay keeps by itself it keeps with checkouts on the same ledger: no
\* charge is credited that was not collected, no dead row takes money, no invoice
\* is charged twice and no row hides its credit.
THEOREM AutoPayIsSafeWithCheckouts ==
    CollectionSpec =>
        [](CreditIsCaptured /\ DeadRowsTakeNoMoney /\ ChargesExclusive /\ RowTellsCredit)
<1>1. CollectionInv => CreditIsCaptured /\ DeadRowsTakeNoMoney /\ RowTellsCredit
  BY DEF CollectionInv, AutoPayInv, DebitInv, CreditIsCaptured, DeadRowsTakeNoMoney,
     RowTellsCredit
<1>2. CollectionInv => ChargesExclusive
  BY TakersAreLive, LiveRowsAreApart DEF CollectionInv, ChargesExclusive
<1> QED BY <1>1, <1>2, CollectionInvariant, PTL

-----------------------------------------------------------------------------
(* Collected money can be credited *)

\* What the receipt of a checkout and its row know of the order.
CreditInv(c) ==
    /\ checkout[c] # NoCheckout => checkout[c].status # "NONE" /\ checkout[c].amount > 0
    /\ reading[c] # {} => checkout[c] # NoCheckout
    /\ tries[c].success > 0 => order[c] = "PAID"
    /\ checkout[c].status = "SUCCESS" => Recorded(c)
    /\ \A r \in reading[c] : r.settled => Recorded(c)
    /\ Recorded(c) => tries[c].success > 0 /\ receipt[c].amount = checkout[c].amount

DebitsAsk == \A d \in Debits : debit[d].status # "NONE" => debit[d].amount > 0

CreditsInv == DebitsAsk /\ \A c \in Checkouts : CreditInv(c)

\* A receipt of a checkout stands for money the provider collected, in the reserved
\* amount, and a successful request has its receipt.
CheckoutCreditIsCaptured ==
    \A c \in Checkouts :
        /\ Recorded(c) => tries[c].success > 0 /\ receipt[c].amount = checkout[c].amount
        /\ checkout[c].status = "SUCCESS" => Recorded(c)

\* Some waterfall of the amount over the invoices fits the balances.
CanBeSpread(amount, T) ==
    \E applied \in [Invoices -> 0..amount] : IsWaterfall(applied, amount, T, Due)

\* A collected debit without a receipt has a row that the hourly job looks at or its
\* own call still holds, and nothing but a voided invoice stops its settlement.
CapturedDebitFits ==
    \A d \in Debits :
        charge[d] = "SUCCESS" /\ ~Recorded(d) =>
            /\ debit[d].status \in ActiveStatus
            /\ DebitIndexAllows(d, "SUCCESS")
            /\ debit[d].amount > 0
            /\ \E i \in Invoices : /\ debit[d].for = {i}
                                   /\ CanBeSpread(debit[d].amount, {i})

\* A paid order without a receipt has a row that the webhook verifies, a list of
\* payments that says so, and a receipt that can be written.
PaidCheckoutFits ==
    \A c \in Checkouts :
        tries[c].success > 0 /\ ~Recorded(c) =>
            /\ checkout[c].status \notin {"NONE", "SUCCESS"}
            /\ OrderExists(c)
            /\ tries[c].success = 1 => Found(c) = "paid"
            /\ checkout[c].amount > 0
            /\ CanBeSpread(checkout[c].amount, checkout[c].for)

LEMMA MoneyCanBeSpread ==
    ASSUME LedgerTypeOK, NEW amount \in Nat, NEW T \in SUBSET Invoices
    PROVE  CanBeSpread(amount, T)
<1>1. \E a \in [Invoices -> 0..amount] :
         \A b \in [Invoices -> 0..amount] : IsWaterfall(b, amount, T, Due) <=> b = a
  BY WaterfallIsDetermined
<1> QED BY <1>1 DEF CanBeSpread

LEMMA CreditsFit ==
    ASSUME CollectionInv, CreditsInv
    PROVE  CapturedDebitFits /\ PaidCheckoutFits
<1> USE DEF CollectionInv, AutoPayInv
<1>1. ASSUME NEW d \in Debits, charge[d] = "SUCCESS", ~Recorded(d)
      PROVE  /\ debit[d].status \in ActiveStatus
             /\ DebitIndexAllows(d, "SUCCESS")
             /\ debit[d].amount > 0
             /\ \E i \in Invoices : debit[d].for = {i} /\ CanBeSpread(debit[d].amount, {i})
  <2>1. debit[d].status \in Live
    BY <1>1, TakersAreLive DEF TakesMoney
  <2>2. debit[d].status \in ActiveStatus
    BY <1>1, <2>1 DEF Live, DebitInv
  <2>3. DebitIndexAllows(d, "SUCCESS")
    BY <2>1 DEF DebitIndexAllows, LiveRowsExclusive, Live
  <2>4. PICK i \in Invoices : debit[d].for = {i}
    BY <2>2 DEF DebitInv, ActiveStatus
  <2>5. debit[d].amount > 0
    BY <2>2 DEF CreditsInv, DebitsAsk, ActiveStatus
  <2>6. debit[d].amount \in Nat /\ {i} \in SUBSET Invoices
    BY DEF AutoPayTypeOK, DebitRow
  <2>7. CanBeSpread(debit[d].amount, {i})
    BY <2>6, MoneyCanBeSpread
  <2> QED BY <2>2, <2>3, <2>4, <2>5, <2>7
<1>2. ASSUME NEW c \in Checkouts, tries[c].success > 0, ~Recorded(c)
      PROVE  /\ checkout[c].status \notin {"NONE", "SUCCESS"}
             /\ OrderExists(c)
             /\ tries[c].success = 1 => Found(c) = "paid"
             /\ checkout[c].amount > 0
             /\ CanBeSpread(checkout[c].amount, checkout[c].for)
  <2>1. CreditInv(c) /\ CheckoutInv(c)
    BY DEF CreditsInv
  <2>2. checkout[c] # NoCheckout
    BY <1>2, <2>1 DEF CheckoutInv, NoTries
  <2>3. checkout[c].status \notin {"NONE", "SUCCESS"} /\ checkout[c].amount > 0
    BY <1>2, <2>1, <2>2 DEF CreditInv
  <2>4. OrderExists(c)
    BY <1>2, <2>1 DEF CreditInv, OrderExists
  <2>5. tries[c].success = 1 => Found(c) = "paid"
    BY DEF Found
  <2>6. checkout[c].amount \in Nat /\ checkout[c].for \in SUBSET Invoices
    BY DEF CheckoutTypeOK, CheckoutRow
  <2>7. CanBeSpread(checkout[c].amount, checkout[c].for)
    BY <2>6, MoneyCanBeSpread
  <2> QED BY <2>3, <2>4, <2>5, <2>7
<1> QED BY <1>1, <1>2 DEF CapturedDebitFits, PaidCheckoutFits

\* Debits are reserved for what an invoice owes, and no write changes that.
LEMMA DebitsKeepAsking ==
    ASSUME AutoPayInv, DebitsAsk, DebitNext
    PROVE  DebitsAsk'
<1> USE DEF AutoPayInv
<1>1. ASSUME UNCHANGED debit PROVE DebitsAsk'
  BY <1>1 DEF DebitsAsk
<1>2. ASSUME NEW d \in Debits, NEW status, NEW retryable, debit[d].status # "NONE",
             SetDebit(d, status, retryable)
      PROVE  DebitsAsk'
  <2>1. debit' = [debit EXCEPT ![d] = [debit[d] EXCEPT !.status = status, !.retryable = retryable]]
    BY <1>2 DEF SetDebit, AutoPayTypeOK
  <2>2. [debit[d] EXCEPT !.status = status, !.retryable = retryable].amount = debit[d].amount
    BY DEF AutoPayTypeOK, DebitRow
  <2> QED BY <1>2, <2>1, <2>2 DEF DebitsAsk, AutoPayTypeOK
<1>3. ASSUME NEW d \in Debits, NEW i \in Invoices, ReserveDebit(d, i)
      PROVE  DebitsAsk'
  <2>1. /\ debit' = [debit EXCEPT ![d] =
              [status |-> "CREATING", for |-> {i},
               amount |-> invoice[i].outstanding, retryable |-> FALSE]]
        /\ invoice[i].outstanding > 0
    BY <1>3 DEF ReserveDebit, DebitAllowed, Payable
  <2> QED BY <2>1 DEF DebitsAsk, AutoPayTypeOK
<1>4. ASSUME NEW d \in Debits,
             RecheckInvoice(d) \/ RecordRejected(d) \/ RecordUncertain(d)
      PROVE  DebitsAsk'
  <2>1. debit[d].status # "NONE"
    BY <1>4 DEF RecheckInvoice, RecordRejected, RecordUncertain, DebitInv
  <2>2. UNCHANGED debit \/ \E status, retryable : SetDebit(d, status, retryable)
    BY <1>4 DEF RecheckInvoice, RecordRejected, RecordUncertain
  <2> QED BY <1>1, <1>2, <2>1, <2>2
<1>5. ASSUME NEW d \in Debits, NEW answer \in Answer, ApplyResult(d, answer)
      PROVE  DebitsAsk'
  <2>1. debit[d].status # "NONE"
    BY <1>5 DEF ApplyResult, DebitInv, Answer, Outcome
  <2>2. UNCHANGED debit \/ \E status, retryable : SetDebit(d, status, retryable)
    BY <1>5 DEF ApplyResult, SettleDebit, RecordAnswer
  <2> QED BY <1>1, <1>2, <2>1, <2>2
<1>6. ASSUME NEW d \in Debits,
             \/ SendDebit(d) \/ ReceiveReply(d) \/ FetchDebit(d)
             \/ AcceptCharge(d) \/ LoseCharge(d) \/ RunCharge(d)
      PROVE  DebitsAsk'
  BY <1>1, <1>6 DEF SendDebit, ReceiveReply, FetchDebit, AcceptCharge, LoseCharge,
     RunCharge, ChargeBecomes
<1>7. ASSUME NEW i \in Invoices,
             NoteDue(i) \/ ActionRequired(i) \/ NoteSettled(i) \/ ReconcileDunning(i)
      PROVE  DebitsAsk'
  BY <1>1, <1>7 DEF NoteDue, ActionRequired, NoteSettled, ReconcileDunning
<1> QED BY <1>3, <1>4, <1>5, <1>6, <1>7 DEF DebitNext, CollectDue

\* A checkout that a step does not touch; what it was reading may be lost.
LEMMA CreditStays ==
    ASSUME NEW c \in Checkouts, CreditInv(c),
           checkout'[c] = checkout[c], order'[c] = order[c], tries'[c] = tries[c],
           reading'[c] \subseteq reading[c],
           receipt'[c].status = receipt[c].status,
           receipt'[c].amount = receipt[c].amount
    PROVE  CreditInv(c)'
  BY DEF CreditInv, Recorded

\* A request is reserved for something, its order sent, its session stored or lost.
LEMMA SessionKeepsCredits ==
    ASSUME CollectionInv, NEW c \in Checkouts, CreditInv(c),
           \/ \E i \in Invoices : PayInvoice(c, i)
           \/ \E amount \in 1..MaxReceipt : PayOutstanding(c, amount)
           \/ SendOrder(c) \/ StoreSession(c) \/ RejectOrder(c) \/ LoseSession(c)
    PROVE  CreditInv(c)'
<1>0. CheckoutTypeOK /\ CheckoutInv(c) /\ LedgerTypeOK
  BY DEF CollectionInv, AutoPayInv
<1>1. ASSUME NEW row, Reserve(c, row), row.amount > 0, row.status = "CREATING"
      PROVE  CreditInv(c)'
  <2>1. /\ checkout[c] = NoCheckout /\ checkout'[c] = row
        /\ UNCHANGED <<receipt, order, tries, reading>>
    BY <1>0, <1>1 DEF Reserve, CheckoutTypeOK, ledgerVars
  <2>2. ~Recorded(c) /\ tries[c] = NoTries
    BY <1>0, <2>1 DEF CheckoutInv
  <2> QED BY <1>1, <2>1, <2>2 DEF CreditInv, Recorded, NoTries
<1>2. ASSUME NEW i \in Invoices, PayInvoice(c, i) PROVE CreditInv(c)'
  <2>1. invoice[i].outstanding > 0
    BY <1>2 DEF PayInvoice, Payable
  <2> QED BY <1>1, <1>2, <2>1 DEF PayInvoice
<1>3. ASSUME NEW amount \in 1..MaxReceipt, PayOutstanding(c, amount) PROVE CreditInv(c)'
  <2>1. amount > 0
    BY LedgerAssumption
  <2> QED BY <1>1, <1>3, <2>1 DEF PayOutstanding
<1>4. CASE SendOrder(c)
  <2>1. tries[c] = NoTries /\ ~Recorded(c)
    BY <1>0, <1>4 DEF SendOrder, CheckoutInv
  <2>2. UNCHANGED <<receipt, checkout, tries, reading>>
    BY <1>4 DEF SendOrder, ledgerVars
  <2> QED BY <2>1, <2>2 DEF CreditInv, NoTries, Recorded
<1>5. CASE StoreSession(c) \/ RejectOrder(c) \/ LoseSession(c)
  <2>1. PICK status \in {"PENDING", "FAILED", "UNKNOWN"} :
           checkout' = checkout \/ SetCheckout(c, status)
    BY <1>5 DEF StoreSession, RejectOrder, LoseSession, TryCheckout
  <2>2. UNCHANGED <<receipt, order, tries, reading>> /\ session[c] = "waiting"
    BY <1>5 DEF StoreSession, RejectOrder, LoseSession, ledgerVars
  <2>3. checkout[c] # NoCheckout
    BY <1>0, <2>2 DEF CheckoutInv
  <2>4. /\ checkout'[c].status \in {status, checkout[c].status}
        /\ checkout'[c].amount = checkout[c].amount
    BY <1>0, <2>1 DEF SetCheckout, CheckoutTypeOK, CheckoutRow
  <2>5. checkout'[c].status # "NONE"
    BY <2>3, <2>4 DEF CreditInv
  <2>6. checkout'[c] # NoCheckout /\ (checkout'[c].status = "SUCCESS" => checkout[c].status = "SUCCESS")
    BY <2>4, <2>5 DEF NoCheckout
  <2> QED BY <2>2, <2>3, <2>4, <2>5, <2>6 DEF CreditInv, Recorded
<1> QED BY <1>2, <1>3, <1>4, <1>5

\* Verifications read.
LEMMA ReadingKeepsCredits ==
    ASSUME CollectionInv, NEW c \in Checkouts, CreditInv(c),
           FetchPayments(c) \/ \E r \in reading[c] : FetchOrder(c, r)
    PROVE  CreditInv(c)'
<1>0. reading \in [Checkouts -> SUBSET Reading]
  BY DEF CollectionInv, CheckoutTypeOK
<1>1. CASE FetchPayments(c)
  <2>1. /\ UNCHANGED <<receipt, checkout, order, tries>>
        /\ reading'[c] = reading[c] \cup
              {[found |-> Found(c), settled |-> checkout[c].status = "SUCCESS"]}
    BY <1>0, <1>1 DEF FetchPayments, ledgerVars
  <2> DEFINE new == [found |-> Found(c), settled |-> checkout[c].status = "SUCCESS"]
  <2>2. new.settled <=> checkout[c].status = "SUCCESS"
    OBVIOUS
  <2>3. reading'[c] = reading[c] \cup {new}
    BY <2>1
  <2> HIDE DEF new
  <2>4. checkout[c].status # "NONE"
    BY <1>1 DEF FetchPayments
  <2>5. checkout[c] # NoCheckout
    BY <2>4 DEF NoCheckout
  <2>6. \A r \in reading'[c] : r.settled => Recorded(c)
    BY <2>2, <2>3 DEF CreditInv
  <2> QED BY <2>1, <2>5, <2>6 DEF CreditInv, Recorded
<1>2. ASSUME NEW r \in reading[c], FetchOrder(c, r) PROVE CreditInv(c)'
  <2>1. UNCHANGED <<receipt, checkout, order, tries>>
    BY <1>2 DEF FetchOrder, ledgerVars
  <2>2. PICK found :
           \/ reading' = [reading EXCEPT ![c] = @ \ {r}]
           \/ reading' = [reading EXCEPT ![c] = (@ \ {r}) \cup {[r EXCEPT !.found = found]}]
    BY <1>2 DEF FetchOrder
  <2>3. [r EXCEPT !.found = found].settled = r.settled
    BY <1>0 DEF Reading
  <2>4. \A x \in reading'[c] : \E y \in reading[c] : x.settled = y.settled
    BY <1>0, <2>2, <2>3
  <2> QED BY <2>1, <2>4 DEF CreditInv, Recorded
<1> QED BY <1>1, <1>2

\* Verifications write.
LEMMA ApplyKeepsCredits ==
    ASSUME CollectionInv, NEW c \in Checkouts, CreditInv(c), NEW r \in reading[c],
           ApplyReading(c, r)
    PROVE  CreditInv(c)'
<1>0. /\ CheckoutTypeOK /\ CheckoutInv(c) /\ LedgerTypeOK /\ c \in Sources
      /\ reading'[c] = reading[c] \ {r} /\ UNCHANGED <<order, tries>>
  BY CheckoutsAreSources DEF CollectionInv, AutoPayInv, ApplyReading, CheckoutTypeOK
<1>1. checkout[c] # NoCheckout
  BY DEF CreditInv
<1>2. ASSUME NEW status \in CheckoutStatus \ {"NONE"},
             checkout' = checkout \/ SetCheckout(c, status)
      PROVE  /\ checkout'[c] # NoCheckout
             /\ checkout'[c].amount = checkout[c].amount
             /\ checkout'[c].status \in {status, checkout[c].status}
  BY <1>0, <1>1, <1>2 DEF SetCheckout, CheckoutTypeOK, CheckoutRow, NoCheckout
<1>3. CASE r.found = "paid" /\ SettleCheckout(c)
  <2>1. tries[c].success > 0
    BY <1>0, <1>3 DEF CheckoutInv
  <2>2. CASE checkout[c].status = "SUCCESS"
    BY <1>0, <1>1, <1>3, <2>2 DEF CreditInv, SettleCheckout, Recorded, ledgerVars
  <2>3. CASE checkout[c].status # "SUCCESS"
    <3>1. /\ ConfirmProviderPayment(c, checkout[c].amount, checkout[c].for)
          /\ SetCheckout(c, "SUCCESS") /\ "SUCCESS" \in CheckoutStatus \ {"NONE"}
      BY <1>3, <2>3 DEF SettleCheckout, CheckoutStatus
    <3>2. Recorded(c)'
      BY <1>0, <3>1, ConfirmRecords
    <3>3. receipt'[c].amount = checkout[c].amount
      <4>1. CASE Recorded(c)
        BY <3>1, <4>1 DEF ConfirmProviderPayment, ledgerVars, CreditInv
      <4>2. CASE ~Recorded(c)
        <5>1. PICK rest : receipt' = [receipt EXCEPT ![c] =
                 [status |-> "CONFIRMED", amount |-> checkout[c].amount,
                  unallocated |-> rest, refunded |-> 0]]
          BY <3>1, <4>2 DEF ConfirmProviderPayment
        <5> QED BY <1>0, <5>1 DEF LedgerTypeOK
      <4> QED BY <4>1, <4>2
    <3>4. /\ checkout'[c] # NoCheckout
          /\ checkout'[c].amount = checkout[c].amount
          /\ checkout'[c].status # "NONE"
      BY <1>1, <1>2, <3>1 DEF CreditInv
    <3> QED BY <1>0, <1>1, <2>1, <3>2, <3>3, <3>4 DEF CreditInv
  <2> QED BY <2>2, <2>3
<1>4. CASE \/ r.found = "paid twice" /\ ReviewCheckout(c, r)
           \/ r.found = "order expired" /\ CloseCheckout(c, "EXPIRED")
           \/ r.found = "order paid" /\ CloseCheckout(c, "UNKNOWN")
           \/ r.found = "order declined" /\ CloseCheckout(c, "FAILED")
  <2>1. PICK status \in {"SUCCESS", "UNKNOWN", "EXPIRED", "FAILED"} :
           /\ checkout' = checkout \/ SetCheckout(c, status)
           /\ status = "SUCCESS" => r.settled
           /\ receipt' = receipt
    BY <1>4 DEF ReviewCheckout, CloseCheckout, TryCheckout, ledgerVars
  <2>2. status \in CheckoutStatus \ {"NONE"}
    BY DEF CheckoutStatus, ActiveStatus
  <2>3. /\ checkout'[c] # NoCheckout
        /\ checkout'[c].amount = checkout[c].amount
        /\ checkout'[c].status \in {status, checkout[c].status}
    BY <1>2, <2>1, <2>2
  <2>4. r.settled => Recorded(c)
    BY DEF CreditInv
  <2> QED BY <1>0, <1>1, <2>1, <2>2, <2>3, <2>4 DEF CreditInv, Recorded
<1> QED BY <1>3, <1>4 DEF ApplyReading

\* The provider and the rider: only an active order is paid.
LEMMA OrderKeepsCredits ==
    ASSUME CollectionInv, NEW c \in Checkouts, CreditInv(c),
           \/ AcceptOrder(c) \/ LoseOrder(c) \/ ExpireOrder(c)
           \/ TryToPay(c) \/ PaymentEnds(c)
    PROVE  CreditInv(c)'
<1>0. /\ order \in [Checkouts -> Order] /\ tries \in [Checkouts -> Tries]
      /\ tries[c] \in [pending : Nat, success : Nat, declined : Nat]
  BY CheckoutAssumption DEF CollectionInv, CheckoutTypeOK, Tries
<1>1. UNCHANGED <<receipt, checkout, reading>>
  BY DEF AcceptOrder, LoseOrder, ExpireOrder, OrderBecomes, TryToPay, PaymentEnds, ledgerVars
<1>2. CASE AcceptOrder(c) \/ LoseOrder(c) \/ ExpireOrder(c)
  <2>1. order[c] # "PAID" /\ tries' = tries
    BY <1>2 DEF AcceptOrder, LoseOrder, ExpireOrder, OrderBecomes
  <2> QED BY <1>0, <1>1, <2>1 DEF CreditInv, Recorded
<1>3. CASE TryToPay(c)
  <2>1. order' = order /\ tries' = [tries EXCEPT ![c].pending = @ + 1]
    BY <1>3 DEF TryToPay
  <2>2. tries'[c].success = tries[c].success
    BY <1>0, <2>1
  <2> QED BY <1>1, <2>1, <2>2 DEF CreditInv, Recorded
<1>4. CASE PaymentEnds(c)
  <2>1. \/ /\ tries' = [tries EXCEPT ![c].pending = @ - 1, ![c].success = @ + 1]
           /\ order' = [order EXCEPT ![c] = "PAID"]
        \/ /\ tries' = [tries EXCEPT ![c].pending = @ - 1, ![c].declined = @ + 1]
           /\ order' = order
    BY <1>4 DEF PaymentEnds
  <2>2. \/ tries'[c].success = tries[c].success + 1 /\ order'[c] = "PAID"
        \/ tries'[c].success = tries[c].success /\ order'[c] = order[c]
    BY <1>0, <2>1
  <2> QED BY <1>0, <1>1, <2>2 DEF CreditInv, Recorded
<1> QED BY <1>2, <1>3, <1>4

\* What a step of checkout c does to another one.
LEMMA OtherCheckoutsStay ==
    ASSUME CollectionInv, NEW c \in Checkouts, NEW e \in Checkouts, e # c,
           \/ \E i \in Invoices : PayInvoice(c, i)
           \/ \E amount \in 1..MaxReceipt : PayOutstanding(c, amount)
           \/ SendOrder(c) \/ StoreSession(c) \/ RejectOrder(c) \/ LoseSession(c)
           \/ FetchPayments(c)
           \/ \E r \in reading[c] : FetchOrder(c, r) \/ ApplyReading(c, r)
           \/ AcceptOrder(c) \/ LoseOrder(c) \/ ExpireOrder(c)
           \/ TryToPay(c) \/ PaymentEnds(c)
    PROVE  /\ checkout'[e] = checkout[e] /\ order'[e] = order[e] /\ tries'[e] = tries[e]
           /\ reading'[e] = reading[e] /\ receipt'[e] = receipt[e]
<1>0. CheckoutTypeOK /\ LedgerTypeOK /\ c \in Sources /\ e \in Sources
  BY CheckoutsAreSources DEF CollectionInv, AutoPayInv
<1>1. CASE (\E i \in Invoices : PayInvoice(c, i))
           \/ \E amount \in 1..MaxReceipt : PayOutstanding(c, amount)
  BY <1>0, <1>1 DEF PayInvoice, PayOutstanding, Reserve, CheckoutTypeOK, ledgerVars
<1>2. CASE SendOrder(c) \/ StoreSession(c) \/ RejectOrder(c) \/ LoseSession(c)
  BY <1>0, <1>2 DEF SendOrder, StoreSession, RejectOrder, LoseSession, TryCheckout,
     SetCheckout, CheckoutTypeOK, ledgerVars
<1>3. CASE FetchPayments(c) \/ \E r \in reading[c] : FetchOrder(c, r)
  BY <1>0, <1>3 DEF FetchPayments, FetchOrder, CheckoutTypeOK, ledgerVars
<1>4. ASSUME NEW r \in reading[c], ApplyReading(c, r)
      PROVE  /\ checkout'[e] = checkout[e] /\ order'[e] = order[e] /\ tries'[e] = tries[e]
             /\ reading'[e] = reading[e] /\ receipt'[e] = receipt[e]
  <2>1. /\ checkout' = checkout \/ \E status : SetCheckout(c, status)
        /\ receipt' = receipt
           \/ ConfirmProviderPayment(c, checkout[c].amount, checkout[c].for)
    BY <1>4 DEF ApplyReading, SettleCheckout, ReviewCheckout, CloseCheckout, TryCheckout,
       ledgerVars
  <2>2. checkout'[e] = checkout[e]
    BY <1>0, <2>1 DEF SetCheckout, CheckoutTypeOK
  <2>3. receipt'[e] = receipt[e]
    BY <1>0, <2>1, ConfirmRecords
  <2>4. reading'[e] = reading[e] /\ order' = order /\ tries' = tries
    BY <1>0, <1>4 DEF ApplyReading, CheckoutTypeOK
  <2> QED BY <2>2, <2>3, <2>4
<1>5. CASE AcceptOrder(c) \/ LoseOrder(c) \/ ExpireOrder(c) \/ TryToPay(c) \/ PaymentEnds(c)
  BY <1>0, <1>5 DEF AcceptOrder, LoseOrder, ExpireOrder, OrderBecomes, TryToPay,
     PaymentEnds, CheckoutTypeOK, ledgerVars
<1> QED BY <1>1, <1>2, <1>3, <1>4, <1>5

LEMMA CreditsStep ==
    ASSUME CollectionInv, CreditsInv, [CollectionNext]_collectionVars
    PROVE  CreditsInv'
<1> USE DEF CreditsInv
<1>0. AutoPayInv /\ LedgerTypeOK /\ \A c \in Checkouts : c \in Sources
  BY CheckoutsAreSources DEF CollectionInv, AutoPayInv
<1>1. CASE DebitNext /\ UNCHANGED checkoutVars
  <2>1. DebitsAsk'
    BY <1>0, <1>1, DebitsKeepAsking
  <2>2. UNCHANGED <<checkout, order, tries, reading>>
    BY <1>1 DEF checkoutVars
  <2>3. \A c \in Checkouts : receipt'[c] = receipt[c]
    <3>1. receipt' = receipt
          \/ \E d \in Debits, i \in Invoices : ConfirmProviderPayment(d, debit[d].amount, {i})
      <4>1. ASSUME NEW d \in Debits, NEW answer \in Answer, ApplyResult(d, answer)
            PROVE  receipt' = receipt
                   \/ \E i \in Invoices : ConfirmProviderPayment(d, debit[d].amount, {i})
        <5>1. debit[d].for \subseteq Invoices
          BY <1>0 DEF AutoPayInv, AutoPayTypeOK, DebitRow
        <5> QED BY <4>1, <5>1 DEF ApplyResult, SettleDebit, RecordAnswer, ledgerVars
      <4> QED BY <1>1, <4>1 DEF DebitNext, CollectDue, ReserveDebit, RecheckInvoice, SendDebit,
                 ReceiveReply, RecordRejected, RecordUncertain, FetchDebit, AcceptCharge,
                 LoseCharge, RunCharge, ChargeBecomes, NoteDue, ActionRequired, NoteSettled,
                 ReconcileDunning, ledgerVars
    <3> QED BY <1>0, <3>1, ConfirmRecords, CheckoutsAreSources, DebitsAreSources
  <2> QED BY <2>1, <2>2, <2>3, CreditStays
<1>2. CASE CheckoutNext /\ UNCHANGED autoPayVars
  <2>1. DebitsAsk'
    BY <1>2 DEF autoPayVars, DebitsAsk
  <2>2. PICK c \in Checkouts :
           \/ \E i \in Invoices : PayInvoice(c, i)
           \/ \E amount \in 1..MaxReceipt : PayOutstanding(c, amount)
           \/ SendOrder(c) \/ StoreSession(c) \/ RejectOrder(c) \/ LoseSession(c)
           \/ FetchPayments(c)
           \/ \E r \in reading[c] : FetchOrder(c, r) \/ ApplyReading(c, r)
           \/ AcceptOrder(c) \/ LoseOrder(c) \/ ExpireOrder(c)
           \/ TryToPay(c) \/ PaymentEnds(c)
    BY <1>2 DEF CheckoutNext
  <2>3. CreditInv(c)'
    BY <2>2, SessionKeepsCredits, ReadingKeepsCredits, ApplyKeepsCredits, OrderKeepsCredits
  <2>4. \A e \in Checkouts : e # c => CreditInv(e)'
    BY <2>2, OtherCheckoutsStay, CreditStays
  <2> QED BY <2>1, <2>3, <2>4
<1>3. CASE Restart /\ ForgetDebitCalls /\ ForgetCheckoutCalls /\ UNCHANGED ledgerVars
  <2>1. /\ UNCHANGED <<debit, receipt, checkout, order, tries>>
        /\ \A c \in Checkouts : reading'[c] = {}
    BY <1>3 DEF ForgetDebitCalls, ForgetCheckoutCalls, ledgerVars
  <2> QED BY <2>1, CreditStays DEF DebitsAsk
<1>4. CASE OfficeNext /\ UNCHANGED <<autoPayVars, checkoutVars, crashes>>
  <2>1. BalanceNext \/ \E t \in Sources, held \in Nat : AllocateNext(t, held)
    <3>1. \A held \in 0..MaxReceipt : held \in Nat
      BY LedgerAssumption
    <3> QED BY <1>4, <3>1 DEF OfficeNext
  <2>2. \A s \in Sources : receipt'[s].status = receipt[s].status
                           /\ receipt'[s].amount = receipt[s].amount
    BY <1>0, <2>1, BalanceKeepsReceipts
  <2>3. UNCHANGED <<debit, checkout, order, tries, reading>>
    BY <1>4 DEF autoPayVars, checkoutVars
  <2> QED BY <1>0, <2>2, <2>3, CreditStays DEF DebitsAsk
<1>5. CASE UNCHANGED collectionVars
  <2>1. UNCHANGED <<debit, receipt, checkout, order, tries, reading>>
    BY <1>5 DEF collectionVars, autoPayVars, checkoutVars, ledgerVars
  <2> QED BY <2>1, CreditStays DEF DebitsAsk
<1> QED BY <1>1, <1>2, <1>3, <1>4, <1>5 DEF CollectionNext

LEMMA CreditsInvariant == CollectionSpec => []CreditsInv
<1>1. CollectionInit => CreditsInv
  <2> SUFFICES ASSUME CollectionInit PROVE CreditsInv
    OBVIOUS
  <2>1. /\ \A c \in Checkouts : /\ checkout[c] = NoCheckout /\ tries[c] = NoTries
                                 /\ reading[c] = {} /\ ~Recorded(c)
        /\ \A d \in Debits : debit[d] = NoDebit
    BY CheckoutsAreSources DEF CollectionInit, CollectionsInit, OrderInit, LedgerInit,
       Recorded, NoReceipt
  <2> QED BY <2>1 DEF CreditsInv, CreditInv, DebitsAsk, NoDebit, NoCheckout, NoTries
<1>2. CollectionInv /\ CreditsInv /\ [CollectionNext]_collectionVars => CreditsInv'
  BY CreditsStep
<1> QED BY <1>1, <1>2, CollectionInvariant, PTL DEF CollectionSpec

\* A receipt of a checkout stands for money the provider collected, in the reserved
\* amount, and a successful row has its receipt, in whatever order sessions, lists
\* of payments and webhooks are applied (checkout-collection.service.ts).
THEOREM CheckoutCreditsAreCaptured == CollectionSpec => []CheckoutCreditIsCaptured
<1>1. CreditsInv => CheckoutCreditIsCaptured
  BY DEF CreditsInv, CreditInv, CheckoutCreditIsCaptured
<1> QED BY <1>1, CreditsInvariant, PTL

\* Collected money can always be credited: the row is still looked at, the unique
\* index lets it succeed, and the amount goes over the invoices as they are by then
\* (payment-orchestrator.service.ts lines 341-427, checkout-collection.service.ts).
THEOREM CollectedMoneyCanBeCredited ==
    CollectionSpec => [](CapturedDebitFits /\ PaidCheckoutFits)
<1>1. CollectionInv /\ CreditsInv => CapturedDebitFits /\ PaidCheckoutFits
  BY CreditsFit
<1> QED BY <1>1, CollectionInvariant, CreditsInvariant, PTL

-----------------------------------------------------------------------------
(* Refunds *)

\* What a row, its call and the answers in hand say about the refund.
RefundRowInv(r) ==
    /\ refund[r].status = "NONE" => refund[r] = NoRefund /\ asking[r] = "none"
    /\ asking[r] = "none" => refund[r].status = "NONE"
    /\ refund[r].status # "NONE" => \E s \in Sources : refund[r].of = {s} /\ Recorded(s)
    /\ asking[r] \in {"none", "send"} => payout[r] = "ABSENT"
    /\ asking[r] = "send" => refund[r].status = "CREATING"
    /\ answers[r] # {} => payout[r] \in RefundAnswer
    /\ \A answer \in answers[r] : answer # "PENDING" => payout[r] = answer
    /\ refund[r].status = "FAILED" => r \notin PaysOut
    /\ refund[r].status = "SUCCESS" => r \in posted
    /\ r \in posted => payout[r] = "SUCCESS"

RefundInv ==
    /\ LedgerTypeOK
    /\ RefundTypeOK
    /\ \A r \in Refunds : RefundRowInv(r)
    /\ NeverOverpaid
    /\ RefundsAddUp

\* The refunds among R of the source s, by their rows.
Returned(rows, s, R) ==
    SumFunctionOnSet([r \in Refunds |-> rows[r].amount], {r \in R : s \in rows[r].of})

LEMMA TotalIsReturned == \A s, R : RefundTotal(s, R) = Returned(refund, s, R)
  BY DEF RefundTotal, Returned

LEMMA ReturnedType ==
    ASSUME NEW rows, \A r \in Refunds : rows[r].amount \in Nat,
           NEW s, NEW R \in SUBSET Refunds
    PROVE  Returned(rows, s, R) \in Nat
<1> DEFINE amounts == [r \in Refunds |-> rows[r].amount]
           mine == {r \in R : s \in rows[r].of}
<1>1. IsFiniteSet(mine)
  BY RefundAssumption, FS_Subset
<1>2. \A r \in mine : amounts[r] \in Nat
  OBVIOUS
<1> HIDE DEF amounts, mine
<1>3. SumFunctionOnSet(amounts, mine) \in Nat
  BY <1>1, <1>2, SumIsNat
<1> QED BY <1>3 DEF Returned, amounts, mine

\* Fewer refunds, less money.
LEMMA ReturnedLess ==
    ASSUME NEW old, NEW new, \A r \in Refunds : old[r].amount \in Nat,
           NEW s, NEW R \in SUBSET Refunds, NEW Q \in SUBSET R,
           \A r \in Q : new[r].amount = old[r].amount /\ new[r].of = old[r].of
    PROVE  Returned(new, s, Q) <= Returned(old, s, R)
<1> DEFINE was == [r \in Refunds |-> old[r].amount]
           is == [r \in Refunds |-> new[r].amount]
           all == {r \in R : s \in old[r].of}
           some == {r \in Q : s \in new[r].of}
<1>1. IsFiniteSet(all) /\ IsFiniteSet(some) /\ some \in SUBSET all
  BY RefundAssumption, FS_Subset
<1>2. \A r \in all : was[r] \in Nat
  OBVIOUS
<1>3. \A r \in some : is[r] = was[r]
  OBVIOUS
<1> HIDE DEF was, is, all, some
<1>4. SumFunctionOnSet(is, some) = SumFunctionOnSet(was, some)
  BY <1>1, <1>3, SumOfSame
<1>5. SumFunctionOnSet(was, some) <= SumFunctionOnSet(was, all)
  BY <1>1, <1>2, SumOfPart
<1>6. SumFunctionOnSet(is, some) <= SumFunctionOnSet(was, all)
  BY <1>4, <1>5
<1> QED BY <1>6 DEF Returned, was, is, all, some

\* One refund more.
LEMMA ReturnedMore ==
    ASSUME NEW old, NEW new, \A q \in Refunds : old[q].amount \in Nat /\ new[q].amount \in Nat,
           NEW s, NEW R \in SUBSET Refunds, NEW r \in Refunds \ R,
           \A q \in R : new[q].amount = old[q].amount /\ new[q].of = old[q].of
    PROVE  /\ s \in new[r].of =>
                 Returned(new, s, R \cup {r}) = Returned(old, s, R) + new[r].amount
           /\ s \notin new[r].of =>
                 Returned(new, s, R \cup {r}) = Returned(old, s, R)
<1> DEFINE was == [q \in Refunds |-> old[q].amount]
           is == [q \in Refunds |-> new[q].amount]
           mine == {q \in R : s \in old[q].of}
           more == {q \in R \cup {r} : s \in new[q].of}
<1>1. IsFiniteSet(mine) /\ r \notin mine
  BY RefundAssumption, FS_Subset
<1>2. \A q \in mine : was[q] \in Int /\ is[q] = was[q]
  OBVIOUS
<1>3. is[r] \in Int /\ is[r] = new[r].amount
  OBVIOUS
<1>4. more = IF s \in new[r].of THEN mine \cup {r} ELSE mine
  OBVIOUS
<1>5. Returned(new, s, R \cup {r}) = SumFunctionOnSet(is, more)
      /\ Returned(old, s, R) = SumFunctionOnSet(was, mine)
  BY DEF Returned
<1> HIDE DEF was, is, mine, more
<1>6. CASE s \in new[r].of
  <2>1. SumFunctionOnSet(is, mine \cup {r}) = SumFunctionOnSet(was, mine) + is[r]
    BY <1>1, <1>2, <1>3, SumGrows
  <2> QED BY <1>3, <1>4, <1>5, <1>6, <2>1
<1>7. CASE s \notin new[r].of
  <2>1. SumFunctionOnSet(is, mine) = SumFunctionOnSet(was, mine)
    BY <1>1, <1>2, SumOfSame
  <2>2. SumFunctionOnSet(was, mine) \in Int
    BY <1>1, <1>2, SumIsInt
  <2> QED BY <1>4, <1>5, <1>7, <2>1, <2>2
<1> QED BY <1>6, <1>7

\* A receipt that is not recorded has returned nothing.
LEMMA NothingReturned ==
    ASSUME NEW rows, NEW s, NEW R, \A r \in R : s \notin rows[r].of
    PROVE  Returned(rows, s, R) = 0
<1>1. {r \in R : s \in rows[r].of} = {}
  OBVIOUS
<1> QED BY <1>1, SumOfNone DEF Returned

-----------------------------------------------------------------------------
(* Steps of refunds *)

\* Steps that keep what the ledger knows and put no refund at the provider.
LEMMA RefundFrame ==
    ASSUME RefundInv, RefundTypeOK', UNCHANGED <<ledgerVars, posted>>,
           \A r \in Refunds : /\ refund'[r].of = refund[r].of
                              /\ refund'[r].amount = refund[r].amount
                              /\ RefundRowInv(r)',
           PaysOut' \subseteq PaysOut
    PROVE  RefundInv'
<1> USE DEF RefundInv
<1>1. LedgerTypeOK'
  BY DEF LedgerTypeOK, ledgerVars
<1>2. /\ \A r \in Refunds : refund[r].amount \in Nat /\ refund'[r].amount \in Nat
      /\ posted \in SUBSET Refunds
      /\ \A s \in Sources : receipt[s].amount \in Nat
  BY DEF RefundTypeOK, RefundRow, LedgerTypeOK, ReceiptRow
<1>3. PaysOut \in SUBSET Refunds /\ PaysOut' \in SUBSET PaysOut
  BY DEF PaysOut
<1>4. ASSUME NEW s \in Sources
      PROVE  /\ Returned(refund', s, PaysOut') <= Returned(refund, s, PaysOut)
             /\ Returned(refund', s, posted) = Returned(refund, s, posted)
  <2>1. Returned(refund', s, PaysOut') <= Returned(refund, s, PaysOut)
    BY <1>2, <1>3, ReturnedLess
  <2>2. Returned(refund', s, posted) <= Returned(refund, s, posted)
    BY <1>2, ReturnedLess
  <2>3. Returned(refund, s, posted) <= Returned(refund', s, posted)
    BY <1>2, ReturnedLess
  <2>4. Returned(refund, s, posted) \in Nat /\ Returned(refund', s, posted) \in Nat
    BY <1>2, ReturnedType
  <2> QED BY <2>1, <2>2, <2>3, <2>4
<1>5. NeverOverpaid'
  <2> SUFFICES ASSUME NEW s \in Sources
               PROVE  Returned(refund', s, PaysOut') <= receipt'[s].amount
    BY DEF NeverOverpaid, RefundTotal, Returned
  <2>1. Returned(refund, s, PaysOut) <= receipt[s].amount
    BY TotalIsReturned DEF NeverOverpaid
  <2>2. Returned(refund, s, PaysOut) \in Nat /\ Returned(refund', s, PaysOut') \in Nat
    BY <1>2, <1>3, ReturnedType
  <2> QED BY <1>2, <1>4, <2>1, <2>2 DEF ledgerVars
<1>6. RefundsAddUp'
  <2>1. \A s \in Sources : receipt'[s].refunded = RefundTotal(s, posted)'
    <3>1. \A s \in Sources : receipt[s].refunded = Returned(refund, s, posted)
      BY TotalIsReturned DEF RefundsAddUp
    <3>2. \A s \in Sources : receipt'[s].refunded = Returned(refund', s, posted')
      BY <1>4, <3>1 DEF ledgerVars
    <3> QED BY <3>2 DEF RefundTotal, Returned
  <2>2. \A r \in posted' : payout'[r] = "SUCCESS"
    BY <1>2 DEF RefundRowInv
  <2>3. WithStatus({"SUCCESS"})' \subseteq posted'
    BY DEF WithStatus, RefundRowInv
  <2> QED BY <2>1, <2>2, <2>3 DEF RefundsAddUp
<1> QED BY <1>1, <1>5, <1>6

\* A status write changes nothing but the status.
LEMMA RefundWrite ==
    ASSUME RefundTypeOK, NEW r \in Refunds, NEW status \in RefundStatus, SetRefund(r, status)
    PROVE  /\ refund' \in [Refunds -> RefundRow]
           /\ refund'[r].status = status
           /\ \A q \in Refunds : /\ refund'[q].of = refund[q].of
                                 /\ refund'[q].amount = refund[q].amount
                                 /\ q # r => refund'[q] = refund[q]
<1>1. refund' = [refund EXCEPT ![r] = [refund[r] EXCEPT !.status = status]]
  BY DEF SetRefund, RefundTypeOK
<1>2. [refund[r] EXCEPT !.status = status] \in RefundRow
  BY DEF RefundTypeOK, RefundRow
<1> QED BY <1>1, <1>2 DEF RefundTypeOK, RefundRow

\* A refund that a step does not touch keeps its invariant.
LEMMA RefundUntouched ==
    ASSUME NEW r \in Refunds, RefundRowInv(r), UNCHANGED <<receipt, posted>>,
           refund'[r] = refund[r], asking'[r] = asking[r], payout'[r] = payout[r],
           answers'[r] = answers[r]
    PROVE  RefundRowInv(r)' /\ (r \in PaysOut' <=> r \in PaysOut)
  BY DEF RefundRowInv, Recorded, PaysOut

\* The request is sent, its reply read, the refund fetched; the provider acts.
LEMMA RefundRowsStay ==
    ASSUME RefundInv, NEW r \in Refunds,
           \/ SendRefund(r) \/ ReceiveRefund(r) \/ FetchRefund(r)
           \/ AcceptRefund(r) \/ LoseRefund(r) \/ PayRefund(r)
    PROVE  RefundInv'
<1> USE DEF RefundInv, SendRefund, ReceiveRefund, FetchRefund,
            AcceptRefund, LoseRefund, PayRefund, PayoutBecomes
<1>1. UNCHANGED <<ledgerVars, refund, posted, origin, sought, restarts>>
  OBVIOUS
<1>2. RefundTypeOK'
  BY <1>1 DEF RefundTypeOK, Payout, RefundAnswer
<1>3. RefundRowInv(r)' /\ (r \in PaysOut' => r \in PaysOut)
  BY <1>1 DEF RefundRowInv, PaysOut, RefundTypeOK, RefundAnswer, ledgerVars, Recorded
<1>4. \A q \in Refunds : q # r => RefundRowInv(q)' /\ (q \in PaysOut' <=> q \in PaysOut)
  BY <1>1, RefundUntouched DEF RefundTypeOK, ledgerVars
<1>5. PaysOut' \subseteq PaysOut
  BY <1>3, <1>4 DEF PaysOut
<1> QED BY <1>1, <1>2, <1>3, <1>4, <1>5, RefundFrame

LEMMA RefundRefused ==
    ASSUME RefundInv, NEW r \in Refunds, RecordRefused(r) \/ RecordUnclear(r)
    PROVE  RefundInv'
<1> USE DEF RefundInv, RecordRefused, RecordUnclear
<1>1. PICK status \in {"FAILED", "UNKNOWN"} :
         /\ SetRefund(r, status)
         /\ status = "FAILED" => payout[r] = "REFUSED"
  OBVIOUS
<1>2. /\ UNCHANGED <<ledgerVars, payout, answers, posted, origin, sought, restarts>>
      /\ asking[r] = "waiting" /\ asking' = [asking EXCEPT ![r] = "done"]
  OBVIOUS
<1>3. /\ refund' \in [Refunds -> RefundRow] /\ refund'[r].status = status
      /\ \A q \in Refunds : /\ refund'[q].of = refund[q].of
                            /\ refund'[q].amount = refund[q].amount
                            /\ q # r => refund'[q] = refund[q]
  <2>1. status \in RefundStatus
    BY DEF RefundStatus, RefundActive
  <2> QED BY <1>1, <2>1, RefundWrite
<1>4. RefundTypeOK'
  BY <1>2, <1>3 DEF RefundTypeOK
<1>5. RefundRowInv(r)' /\ (r \in PaysOut' => r \in PaysOut)
  BY <1>1, <1>2, <1>3 DEF RefundRowInv, PaysOut, RefundTypeOK, ledgerVars, Recorded, RefundAnswer
<1>6. \A q \in Refunds : q # r => RefundRowInv(q)' /\ (q \in PaysOut' <=> q \in PaysOut)
  BY <1>2, <1>3, RefundUntouched DEF RefundTypeOK, ledgerVars
<1>7. PaysOut' \subseteq PaysOut
  BY <1>5, <1>6 DEF PaysOut
<1> QED BY <1>2, <1>3, <1>4, <1>5, <1>6, <1>7, RefundFrame

\* A refund is reserved from what all that may still be paid leave.
LEMMA RequestKeeps ==
    ASSUME RefundInv, NEW r \in Refunds, NEW s \in Sources, NEW amount \in Nat,
           NEW treatment \in Treatment, RequestRefund(r, s, amount, treatment)
    PROVE  RefundInv'
<1> USE DEF RefundInv
<1> DEFINE row == [status |-> "CREATING", of |-> {s}, amount |-> amount,
                   treatment |-> treatment]
           open == WithStatus(RefundActive \cup {"SUCCESS"})
<1>1. /\ refund[r] = NoRefund /\ receipt[s].status = "CONFIRMED"
      /\ amount > 0 /\ amount <= RefundableAmount(s)
      /\ refund' = [refund EXCEPT ![r] = row]
      /\ asking' = [asking EXCEPT ![r] = "send"]
      /\ UNCHANGED <<ledgerVars, payout, answers, posted, origin, sought, restarts>>
  BY DEF RequestRefund
<1>2. LedgerTypeOK' /\ RefundTypeOK'
  BY <1>1 DEF LedgerTypeOK, ledgerVars, RefundTypeOK, RefundRow, RefundStatus, RefundActive
<1>3. /\ refund'[r] = row /\ asking'[r] = "send"
      /\ \A q \in Refunds : q # r => refund'[q] = refund[q] /\ asking'[q] = asking[q]
      /\ \A q \in Refunds : refund[q].amount \in Nat /\ refund'[q].amount \in Nat
      /\ posted \in SUBSET Refunds /\ \A t \in Sources : receipt[t].amount \in Nat
  BY <1>1, <1>2 DEF RefundTypeOK, RefundRow, LedgerTypeOK, ReceiptRow
<1>4. asking[r] = "none" /\ payout[r] = "ABSENT" /\ answers[r] = {} /\ r \notin posted
  BY <1>1 DEF RefundRowInv, NoRefund, RefundAnswer, RefundTypeOK
<1>5. RefundRowInv(r)'
  BY <1>1, <1>3, <1>4 DEF RefundRowInv, Recorded, ledgerVars
<1>6. \A q \in Refunds : q # r => RefundRowInv(q)' /\ (q \in PaysOut' <=> q \in PaysOut)
  BY <1>1, <1>3, RefundUntouched DEF ledgerVars
<1>7. PaysOut' = PaysOut \cup {r} /\ r \notin PaysOut
  BY <1>1, <1>3, <1>4, <1>6 DEF PaysOut
<1>8. PaysOut \in SUBSET open /\ open \in SUBSET Refunds /\ PaysOut \in SUBSET Refunds
  <2>1. ASSUME NEW q \in PaysOut PROVE q \in open
    <3>1. q \in Refunds /\ refund[q].status # "FAILED" /\ refund[q].status # "NONE"
      BY <2>1 DEF RefundRowInv, PaysOut
    <3> QED BY <3>1 DEF WithStatus, RefundTypeOK, RefundRow, RefundStatus
  <2> QED BY <2>1 DEF WithStatus, PaysOut
<1> HIDE DEF open, row
<1>9. ASSUME NEW t \in Sources
      PROVE  /\ t = s => Returned(refund', t, PaysOut')
                            = Returned(refund, t, PaysOut) + amount
             /\ t # s => Returned(refund', t, PaysOut') = Returned(refund, t, PaysOut)
  <2>1. /\ r \in Refunds \ PaysOut
        /\ \A q \in PaysOut : refund'[q].amount = refund[q].amount
                              /\ refund'[q].of = refund[q].of
    BY <1>3, <1>7, <1>8
  <2>2. \A q \in Refunds : refund[q].amount \in Nat /\ refund'[q].amount \in Nat
    BY <1>3
  <2>3. /\ t \in refund'[r].of =>
              Returned(refund', t, PaysOut \cup {r})
                = Returned(refund, t, PaysOut) + refund'[r].amount
        /\ t \notin refund'[r].of =>
              Returned(refund', t, PaysOut \cup {r}) = Returned(refund, t, PaysOut)
    BY <1>8, <2>1, <2>2, ReturnedMore
  <2>4. refund'[r].of = {s} /\ refund'[r].amount = amount
    BY <1>3 DEF row
  <2> QED BY <1>7, <2>3, <2>4
<1>10. NeverOverpaid'
  <2> SUFFICES ASSUME NEW t \in Sources
               PROVE  Returned(refund', t, PaysOut') <= receipt'[t].amount
    BY DEF NeverOverpaid, RefundTotal, Returned
  <2>1. Returned(refund, t, PaysOut) <= receipt[t].amount /\ receipt' = receipt
    BY <1>1, TotalIsReturned DEF NeverOverpaid, ledgerVars
  <2>2. Returned(refund, t, PaysOut) \in Nat
    BY <1>3, <1>8, ReturnedType
  <2>3. CASE t # s
    BY <1>9, <2>1, <2>3
  <2>4. CASE t = s
    <3>1. Returned(refund, s, PaysOut) <= Returned(refund, s, open)
      BY <1>3, <1>8, ReturnedLess
    <3>2. Returned(refund, s, open) \in Nat
      BY <1>3, <1>8, ReturnedType
    <3>3. amount <= receipt[s].amount - Returned(refund, s, open)
      <4> DEFINE paid == WithStatus({"SUCCESS"})
      <4>1. paid \in SUBSET Refunds
        BY DEF WithStatus
      <4> HIDE DEF paid
      <4>2. Returned(refund, s, paid) \in Nat
        BY <1>3, <4>1, ReturnedType
      <4>3. receipt[s].refunded \in Nat
        BY DEF LedgerTypeOK, ReceiptRow
      <4> DEFINE legacy == receipt[s].refunded - Returned(refund, s, paid)
                 rest == receipt[s].amount - (IF legacy > 0 THEN legacy ELSE 0)
                           - Returned(refund, s, open)
      <4>4. RefundableAmount(s) = IF rest > 0 THEN rest ELSE 0
        BY TotalIsReturned DEF RefundableAmount, open, paid
      <4> QED BY <1>1, <1>3, <3>2, <4>2, <4>3, <4>4
    <3>4. Returned(refund', s, PaysOut') = Returned(refund, s, PaysOut) + amount
      BY <1>9
    <3> QED BY <1>3, <2>1, <2>2, <2>4, <3>1, <3>2, <3>3, <3>4
  <2> QED BY <2>3, <2>4
<1>11. RefundsAddUp'
  <2>1. ASSUME NEW t \in Sources
        PROVE  Returned(refund', t, posted) = Returned(refund, t, posted)
    <3>1. \A q \in posted : refund'[q] = refund[q]
      BY <1>3, <1>4
    <3>2. Returned(refund', t, posted) <= Returned(refund, t, posted)
      BY <1>3, <3>1, ReturnedLess
    <3>3. Returned(refund, t, posted) <= Returned(refund', t, posted)
      BY <1>3, <3>1, ReturnedLess
    <3>4. Returned(refund, t, posted) \in Nat /\ Returned(refund', t, posted) \in Nat
      BY <1>3, ReturnedType
    <3> QED BY <3>2, <3>3, <3>4
  <2>2. \A t \in Sources : receipt[t].refunded = Returned(refund, t, posted)
    BY TotalIsReturned DEF RefundsAddUp
  <2>3. \A t \in Sources : receipt'[t].refunded = Returned(refund', t, posted')
    BY <1>1, <2>1, <2>2 DEF ledgerVars
  <2>4. WithStatus({"SUCCESS"})' \subseteq posted' /\ \A q \in posted' : payout'[q] = "SUCCESS"
    BY <1>5, <1>6, <1>1, <1>3 DEF WithStatus, RefundRowInv
  <2> QED BY <2>3, <2>4 DEF RefundsAddUp, RefundTotal, Returned
<1> QED BY <1>2, <1>5, <1>6, <1>10, <1>11

\* An answer is written; a paid refund leaves the receipt once.
LEMMA ApplyRefundKeeps ==
    ASSUME RefundInv, NEW r \in Refunds, NEW answer \in RefundAnswer, ApplyRefund(r, answer)
    PROVE  RefundInv'
<1> USE DEF RefundInv
<1>1. /\ answer \in answers[r]
      /\ answers' = [answers EXCEPT ![r] = @ \ {answer}]
      /\ UNCHANGED <<asking, payout, origin, sought, restarts>>
  BY DEF ApplyRefund
<1>2. /\ payout[r] \in RefundAnswer
      /\ answer # "PENDING" => payout[r] = answer
      /\ refund[r].status # "NONE" /\ asking[r] \notin {"none", "send"}
  BY <1>1 DEF RefundRowInv, RefundAnswer
<1>3. /\ answers' \in [Refunds -> SUBSET RefundAnswer]
      /\ answers'[r] \subseteq answers[r]
      /\ \A q \in Refunds : q # r => answers'[q] = answers[q]
      /\ PaysOut' = PaysOut
  BY <1>1 DEF RefundTypeOK, PaysOut
<1>4. ASSUME UNCHANGED <<ledgerVars, refund, posted>> PROVE RefundInv'
  <2>1. RefundTypeOK'
    BY <1>1, <1>3, <1>4 DEF RefundTypeOK
  <2>2. \A q \in Refunds : RefundRowInv(q)'
    <3>1. RefundRowInv(r)'
      BY <1>1, <1>3, <1>4 DEF RefundRowInv, Recorded, ledgerVars
    <3> QED BY <1>1, <1>3, <1>4, <3>1, RefundUntouched DEF ledgerVars
  <2> QED BY <1>3, <1>4, <2>1, <2>2, RefundFrame
<1>5. ASSUME NEW status \in {"PENDING", "FAILED", "SUCCESS"}, SetRefund(r, status),
             UNCHANGED <<ledgerVars, posted>>,
             status = "FAILED" => payout[r] = "FAILED",
             status = "SUCCESS" => r \in posted
      PROVE  RefundInv'
  <2>1. /\ refund' \in [Refunds -> RefundRow] /\ refund'[r].status = status
        /\ \A q \in Refunds : /\ refund'[q].of = refund[q].of
                              /\ refund'[q].amount = refund[q].amount
                              /\ q # r => refund'[q] = refund[q]
    <3>1. status \in RefundStatus
      BY DEF RefundStatus, RefundActive
    <3> QED BY <1>5, <3>1, RefundWrite
  <2>2. RefundTypeOK'
    BY <1>1, <1>3, <1>5, <2>1 DEF RefundTypeOK
  <2>3. RefundRowInv(r)'
    <3>1. status = "FAILED" => r \notin PaysOut
      BY <1>2, <1>5 DEF PaysOut
    <3> QED BY <1>1, <1>2, <1>3, <1>5, <2>1, <3>1 DEF RefundRowInv, Recorded, ledgerVars
  <2>4. \A q \in Refunds : RefundRowInv(q)'
    BY <1>1, <1>3, <1>5, <2>1, <2>3, RefundUntouched DEF ledgerVars
  <2> QED BY <1>3, <1>5, <2>1, <2>2, <2>4, RefundFrame
<1>6. ASSUME NEW s \in refund[r].of, r \notin posted, payout[r] = "SUCCESS",
             ConfirmProviderRefund(s, refund[r].amount, refund[r].treatment),
             SetRefund(r, "SUCCESS"), posted' = posted \cup {r}
      PROVE  RefundInv'
  <2> DEFINE amount == refund[r].amount
  <2>1. /\ refund' \in [Refunds -> RefundRow] /\ refund'[r].status = "SUCCESS"
        /\ \A q \in Refunds : /\ refund'[q].of = refund[q].of
                              /\ refund'[q].amount = refund[q].amount
                              /\ q # r => refund'[q] = refund[q]
    <3>1. "SUCCESS" \in RefundStatus
      BY DEF RefundStatus
    <3> QED BY <1>6, <3>1, RefundWrite
  <2>2. refund[r].of = {s} /\ s \in Sources /\ amount \in Nat
    BY <1>2, <1>6 DEF RefundRowInv, RefundTypeOK, RefundRow
  <2>3. LedgerTypeOK'
    BY <1>6, <2>2, ConfirmProviderRefundKeeps
  <2>4. /\ receipt'[s].amount = receipt[s].amount
        /\ receipt'[s].refunded = receipt[s].refunded + amount
        /\ receipt'[s].status # "NONE"
        /\ \A t \in Sources : t # s => receipt'[t] = receipt[t]
    BY <1>6, <2>2 DEF ConfirmProviderRefund, LedgerTypeOK
  <2>5. RefundTypeOK'
    BY <1>1, <1>3, <1>6, <2>1 DEF RefundTypeOK
  <2>6. RefundRowInv(r)'
    BY <1>1, <1>2, <1>3, <1>6, <2>1, <2>2, <2>4 DEF RefundRowInv, Recorded
  <2>7. ASSUME NEW q \in Refunds, q # r PROVE RefundRowInv(q)'
    <3>1. \A t \in Sources : Recorded(t) => Recorded(t)'
      BY <2>4 DEF Recorded
    <3>2. refund'[q] = refund[q] /\ answers'[q] = answers[q] /\ (q \in posted' <=> q \in posted)
      BY <1>3, <1>6, <2>1, <2>7
    <3> QED BY <1>1, <1>3, <3>1, <3>2 DEF RefundRowInv
  <2>8. /\ \A q \in Refunds : refund[q].amount \in Nat /\ refund'[q].amount \in Nat
        /\ posted \in SUBSET Refunds /\ PaysOut \in SUBSET Refunds
        /\ \A t \in Sources : receipt[t].amount \in Nat /\ receipt'[t].amount = receipt[t].amount
    BY <2>1, <2>4 DEF RefundTypeOK, RefundRow, PaysOut, LedgerTypeOK, ReceiptRow
  <2>9. NeverOverpaid'
    <3> SUFFICES ASSUME NEW t \in Sources
                 PROVE  Returned(refund', t, PaysOut') <= receipt'[t].amount
      BY DEF NeverOverpaid, RefundTotal, Returned
    <3>1. Returned(refund, t, PaysOut) <= receipt[t].amount
      BY TotalIsReturned DEF NeverOverpaid
    <3>2. Returned(refund', t, PaysOut) <= Returned(refund, t, PaysOut)
      BY <2>1, <2>8, ReturnedLess
    <3>3. Returned(refund', t, PaysOut) \in Nat /\ Returned(refund, t, PaysOut) \in Nat
      BY <2>8, ReturnedType
    <3> QED BY <1>3, <2>8, <3>1, <3>2, <3>3
  <2>10. ASSUME NEW t \in Sources
         PROVE  receipt'[t].refunded = Returned(refund', t, posted')
    <3>1. /\ t \in refund'[r].of =>
                Returned(refund', t, posted \cup {r})
                  = Returned(refund, t, posted) + refund'[r].amount
          /\ t \notin refund'[r].of =>
                Returned(refund', t, posted \cup {r}) = Returned(refund, t, posted)
      <4>1. r \in Refunds \ posted
        BY <1>6
      <4>2. \A q \in posted : refund'[q].amount = refund[q].amount
                              /\ refund'[q].of = refund[q].of
        BY <2>1, <2>8
      <4>3. posted \in SUBSET Refunds
            /\ \A q \in Refunds : refund[q].amount \in Nat /\ refund'[q].amount \in Nat
        BY <2>8
      <4> QED BY <4>1, <4>2, <4>3, ReturnedMore
    <3>2. receipt[t].refunded = Returned(refund, t, posted)
      BY TotalIsReturned DEF RefundsAddUp
    <3>3. Returned(refund, t, posted) \in Nat
      BY <2>8, ReturnedType
    <3>4. refund'[r].of = {s} /\ refund'[r].amount = amount
      BY <2>1, <2>2
    <3> HIDE DEF amount
    <3>5. CASE t = s
      BY <1>6, <2>2, <2>4, <3>1, <3>2, <3>3, <3>4, <3>5
    <3>6. CASE t # s
      BY <1>6, <2>4, <3>1, <3>2, <3>3, <3>4, <3>6
    <3> QED BY <3>5, <3>6
  <2>11. RefundsAddUp'
    <3>1. WithStatus({"SUCCESS"})' \subseteq posted' /\ \A q \in posted' : payout'[q] = "SUCCESS"
      BY <1>6, <2>5, <2>6, <2>7 DEF WithStatus, RefundRowInv, RefundTypeOK
    <3> QED BY <2>10, <3>1 DEF RefundsAddUp, RefundTotal, Returned
  <2> QED BY <2>3, <2>5, <2>6, <2>7, <2>9, <2>11
<1>7. CASE answer # "SUCCESS"
  <2>1. SetRefund(r, answer) /\ UNCHANGED <<ledgerVars, posted>>
    BY <1>7 DEF ApplyRefund
  <2>2. answer \in {"PENDING", "FAILED", "SUCCESS"} /\ (answer = "FAILED" => payout[r] = "FAILED")
    BY <1>2, <1>7 DEF RefundAnswer
  <2> QED BY <1>5, <1>7, <2>1, <2>2
<1>8. CASE answer = "SUCCESS"
  <2>1. UNCHANGED <<ledgerVars, refund, posted>> \/ PostRefund(r)
    BY <1>8 DEF ApplyRefund
  <2>2. payout[r] = "SUCCESS"
    BY <1>2, <1>8
  <2>3. CASE PostRefund(r)
    <3>1. PICK s \in refund[r].of :
             \/ r \in posted /\ SetRefund(r, "SUCCESS") /\ UNCHANGED <<ledgerVars, posted>>
             \/ /\ r \notin posted
                /\ ConfirmProviderRefund(s, refund[r].amount, refund[r].treatment)
                /\ SetRefund(r, "SUCCESS")
                /\ posted' = posted \cup {r}
             \/ UNCHANGED <<ledgerVars, refund, posted>>
      BY <2>3 DEF PostRefund
    <3> QED BY <1>4, <1>5, <1>6, <2>2, <3>1
  <2> QED BY <1>4, <2>1, <2>3
<1> QED BY <1>7, <1>8

\* A receipt that was recorded before a step keeps its amount and what it
\* returned; no refund is of one that was not.
LEMMA RefundOfficeKeeps ==
    ASSUME RefundInv, RefundOffice \/ OriginSettles
    PROVE  RefundInv'
<1> USE DEF RefundInv
<1>1. UNCHANGED <<refund, asking, payout, answers, posted, sought, restarts>> /\ PaysOut' = PaysOut
  BY DEF RefundOffice, OriginSettles, SettleOrigin, refundVars, PaysOut
<1>2. /\ \A r \in Refunds : refund[r].amount \in Nat
      /\ posted \in SUBSET Refunds /\ PaysOut \in SUBSET Refunds
      /\ \A s \in Sources : receipt[s] \in ReceiptRow
  BY DEF RefundTypeOK, RefundRow, PaysOut, LedgerTypeOK
<1>3. \A s \in Sources : Held(s) \in Nat
  <2>1. WithStatus(RefundActive) \in SUBSET Refunds
    BY DEF WithStatus
  <2> QED BY <1>2, <2>1, ReturnedType, TotalIsReturned DEF Held
<1>4. \A amount \in 1..MaxReceipt : amount \in Nat
  BY LedgerAssumption
<1>5. LedgerTypeOK'
  <2>1. CASE BalanceNext
    BY <2>1, OfficeKeeps DEF OfficeNext
  <2>2. ASSUME NEW s \in Sources, AllocateNext(s, Held(s)) PROVE LedgerTypeOK'
    BY <1>3, <1>4, <2>2, AllocateKeeps DEF AllocateNext
  <2>3. ASSUME NEW s \in Sources, NEW amount \in 1..MaxReceipt, NEW T \in SUBSET Invoices,
               ConfirmProviderPayment(s, amount, T)
        PROVE  LedgerTypeOK'
    BY <1>4, <2>3, ConfirmProviderPaymentKeeps
  <2> QED BY <2>1, <2>2, <2>3 DEF RefundOffice, OriginSettles, SettleOrigin
<1>6. ASSUME NEW s \in Sources
      PROVE  /\ receipt[s].status # "NONE" => /\ receipt'[s].status # "NONE"
                                              /\ receipt'[s].amount = receipt[s].amount
                                              /\ receipt'[s].refunded = receipt[s].refunded
             /\ receipt[s].status = "NONE" => \/ receipt'[s].refunded = receipt[s].refunded
                                              \/ receipt'[s].refunded = 0
  <2>1. CASE BalanceNext \/ \E t \in Sources : AllocateNext(t, Held(t))
    <3>1. BalanceNext \/ \E t \in Sources, held \in Nat : AllocateNext(t, held)
      BY <1>3, <2>1
    <3> QED BY <3>1, BalanceKeepsReceipts
  <2>2. ASSUME NEW t \in Sources, NEW amount \in 1..MaxReceipt, NEW T \in SUBSET Invoices,
               ConfirmProviderPayment(t, amount, T)
        PROVE  \/ receipt' = receipt
               \/ /\ receipt[t].status = "NONE"
                  /\ \A u \in Sources : u # t => receipt'[u] = receipt[u]
                  /\ receipt'[t].refunded = 0
    BY <2>2 DEF ConfirmProviderPayment, ledgerVars, Recorded, LedgerTypeOK
  <2> QED BY <2>1, <2>2 DEF RefundOffice, OriginSettles, SettleOrigin
<1>7. \A r \in Refunds : RefundRowInv(r)'
  <2>1. \A s \in Sources : Recorded(s) => Recorded(s)'
    BY <1>6 DEF Recorded
  <2> QED BY <1>1, <2>1 DEF RefundRowInv
<1>8. ASSUME NEW s \in Sources, ~Recorded(s), NEW R \in SUBSET Refunds
      PROVE  Returned(refund, s, R) = 0
  <2>1. \A r \in R : s \notin refund[r].of
    <3>1. \A r \in Refunds : refund[r].status = "NONE" => refund[r].of = {}
      BY DEF RefundRowInv, NoRefund
    <3> QED BY <1>8, <3>1 DEF RefundRowInv
  <2> QED BY <2>1, NothingReturned
<1>9. NeverOverpaid'
  <2> SUFFICES ASSUME NEW s \in Sources
               PROVE  Returned(refund, s, PaysOut) <= receipt'[s].amount
    BY <1>1 DEF NeverOverpaid, RefundTotal, Returned
  <2>1. CASE Recorded(s)
    BY <1>6, <2>1, TotalIsReturned DEF NeverOverpaid, Recorded
  <2>2. CASE ~Recorded(s)
    <3>1. receipt'[s].amount \in Nat
      BY <1>5 DEF LedgerTypeOK, ReceiptRow
    <3> QED BY <1>2, <1>8, <2>2, <3>1
  <2> QED BY <2>1, <2>2
<1>10. RefundsAddUp'
  <2>1. ASSUME NEW s \in Sources
        PROVE  receipt'[s].refunded = Returned(refund, s, posted)
    <3>1. receipt[s].refunded = Returned(refund, s, posted)
      BY TotalIsReturned DEF RefundsAddUp
    <3>2. CASE Recorded(s)
      BY <1>6, <3>1, <3>2 DEF Recorded
    <3>3. CASE ~Recorded(s)
      BY <1>2, <1>6, <1>8, <3>1, <3>3 DEF Recorded
    <3> QED BY <3>2, <3>3
  <2>2. WithStatus({"SUCCESS"})' = WithStatus({"SUCCESS"})
    BY <1>1 DEF WithStatus
  <2> QED BY <1>1, <2>1, <2>2 DEF RefundsAddUp, RefundTotal, Returned
<1>11. RefundTypeOK'
  <2>1. origin' \in [Sources -> {"NONE", "SUCCESS", "OTHER"}]
    BY DEF RefundOffice, OriginSettles, SettleOrigin, refundVars, RefundTypeOK
  <2> QED BY <1>1, <2>1 DEF RefundTypeOK
<1> QED BY <1>5, <1>7, <1>9, <1>10, <1>11

\* What a request finds, and what becomes of the row of a payment.
LEMMA OriginKeeps ==
    ASSUME RefundInv,
           \/ \E r \in Refunds, s \in Sources : FindSource(r, s)
           \/ \E s \in Sources : HideOrigin(s)
    PROVE  RefundInv'
<1> USE DEF RefundInv
<1>1. UNCHANGED <<ledgerVars, refund, asking, payout, answers, posted, restarts>>
  BY DEF FindSource, HideOrigin
<1>2. RefundTypeOK'
  <2>1. /\ origin' \in [Sources -> {"NONE", "SUCCESS", "OTHER"}]
        /\ sought' \in [Refunds -> SUBSET Sources]
    BY DEF FindSource, HideOrigin, RefundTypeOK
  <2> QED BY <1>1, <2>1 DEF RefundTypeOK
<1>3. PaysOut' = PaysOut
  BY <1>1 DEF PaysOut
<1>4. \A r \in Refunds : RefundRowInv(r)'
  BY <1>1, RefundUntouched DEF ledgerVars
<1> QED BY <1>1, <1>2, <1>3, <1>4, RefundFrame

\* A crash loses what was in hand.
LEMMA RefundCrashKeeps ==
    ASSUME RefundInv, RefundCrash
    PROVE  RefundInv'
<1> USE DEF RefundInv
<1>1. /\ restarts < MaxRestarts /\ restarts' = restarts + 1
      /\ asking' = [r \in Refunds |-> IF refund[r] = NoRefund THEN "none" ELSE "done"]
      /\ answers' = [r \in Refunds |-> {}]
      /\ UNCHANGED <<ledgerVars, refund, payout, posted, origin>>
  BY DEF RefundCrash
<1>2. RefundTypeOK'
  <2>1. restarts' \in 0..MaxRestarts
    BY <1>1, RefundAssumption DEF RefundTypeOK
  <2>2. sought' \in [Refunds -> SUBSET Sources]
    BY DEF RefundCrash, RefundTypeOK, RefundRow
  <2> QED BY <1>1, <2>1, <2>2 DEF RefundTypeOK
<1>3. PaysOut' \subseteq PaysOut
  BY <1>1 DEF PaysOut
<1>4. ASSUME NEW r \in Refunds PROVE RefundRowInv(r)'
  <2>1. asking'[r] # "send" /\ answers'[r] = {}
        /\ (asking'[r] = "none" <=> refund[r] = NoRefund)
    BY <1>1
  <2>2. refund[r] = NoRefund => asking[r] = "none"
    BY DEF RefundRowInv, NoRefund
  <2>3. NoRefund.status = "NONE"
    BY DEF NoRefund
  <2> QED BY <1>1, <1>3, <2>1, <2>2, <2>3 DEF RefundRowInv, Recorded, ledgerVars
<1> QED BY <1>1, <1>2, <1>3, <1>4, RefundFrame

LEMMA RefundInitially == RefundInit => RefundInv
<1> SUFFICES ASSUME RefundInit PROVE RefundInv
  OBVIOUS
<1>1. LedgerTypeOK
  BY LedgerInitially DEF RefundInit
<1>2. RefundTypeOK
  BY RefundAssumption DEF RefundInit, RefundTypeOK, NoRefund, RefundRow, RefundStatus,
     RefundActive, Treatment, Payout, RefundAnswer
<1>3. PaysOut = {} /\ posted = {} /\ WithStatus({"SUCCESS"}) = {}
  BY DEF RefundInit, PaysOut, WithStatus, NoRefund
<1>4. \A r \in Refunds : RefundRowInv(r)
  BY DEF RefundInit, RefundRowInv, NoRefund
<1>5. ASSUME NEW s \in Sources
      PROVE  /\ RefundTotal(s, {}) = 0
             /\ receipt[s].amount = 0 /\ receipt[s].refunded = 0
  <2>1. RefundTotal(s, {}) = 0
    BY NothingReturned, TotalIsReturned
  <2> QED BY <2>1 DEF RefundInit, LedgerInit, NoReceipt
<1> QED BY <1>1, <1>2, <1>3, <1>4, <1>5 DEF RefundInv, NeverOverpaid, RefundsAddUp

LEMMA RefundStep ==
    ASSUME RefundInv, [RefundNext]_refundAllVars
    PROVE  RefundInv'
<1>1. ASSUME NEW r \in Refunds, NEW s \in Sources, NEW amount \in 1..MaxReceipt,
             NEW treatment \in Treatment, RequestRefund(r, s, amount, treatment)
      PROVE  RefundInv'
  <2>1. amount \in Nat
    BY LedgerAssumption
  <2> QED BY <1>1, <2>1, RequestKeeps
<1>2. ASSUME NEW r \in Refunds,
             \/ SendRefund(r) \/ ReceiveRefund(r) \/ FetchRefund(r)
             \/ AcceptRefund(r) \/ LoseRefund(r) \/ PayRefund(r)
      PROVE  RefundInv'
  BY <1>2, RefundRowsStay
<1>3. ASSUME NEW r \in Refunds, RecordRefused(r) \/ RecordUnclear(r)
      PROVE  RefundInv'
  BY <1>3, RefundRefused
<1>4. ASSUME NEW r \in Refunds, NEW answer \in RefundAnswer, ApplyRefund(r, answer)
      PROVE  RefundInv'
  BY <1>4, ApplyRefundKeeps
<1>5. CASE UNCHANGED refundAllVars
  <2>1. RefundTypeOK' /\ \A r \in Refunds : RefundRowInv(r)'
    BY <1>5 DEF RefundInv, refundAllVars, refundVars, ledgerVars, RefundTypeOK, RefundRowInv,
       PaysOut, Recorded
  <2>2. PaysOut' \subseteq PaysOut
    BY <1>5 DEF refundAllVars, refundVars, PaysOut
  <2> QED BY <1>5, <2>1, <2>2, RefundFrame DEF refundAllVars, refundVars
<1> QED BY <1>1, <1>2, <1>3, <1>4, <1>5, RefundOfficeKeeps, OriginKeeps, RefundCrashKeeps
        DEF RefundNext

LEMMA RefundInvariant == RefundSpec => []RefundInv
  BY RefundInitially, RefundStep, PTL DEF RefundSpec

\* Partial refunds, timeouts, retries and stale answers, of any number of refunds,
\* never make the provider pay back more than it collected.
THEOREM ProviderNeverOverpays == RefundSpec => []NeverOverpaid
<1>1. RefundInv => NeverOverpaid
  BY DEF RefundInv
<1> QED BY <1>1, RefundInvariant, PTL

\* The ledger has returned exactly the refunds it posted, each once and each paid,
\* and every successful row is one of them.
THEOREM RefundsArePostedOnce == RefundSpec => []RefundsAddUp
<1>1. RefundInv => RefundsAddUp
  BY DEF RefundInv
<1> QED BY <1>1, RefundInvariant, PTL

\* Refunds keep the rows, calls, refunds at the provider and answers well-formed.
THEOREM RefundTypes == RefundSpec => [](LedgerTypeOK /\ RefundTypeOK)
<1>1. RefundInv => LedgerTypeOK /\ RefundTypeOK
  BY DEF RefundInv
<1> QED BY <1>1, RefundInvariant, PTL

-----------------------------------------------------------------------------
(* Paid reversals can be posted *)

\* What a posted reversal finds: nothing else can have left the receipt meanwhile,
\* because the reversal alone already pays out all of it.
WholeReceipt(r) ==
    \A s \in refund[r].of : /\ receipt[s].status = "CONFIRMED"
                            /\ receipt[s].amount = refund[r].amount
                            /\ receipt[s].refunded = 0

ReversalInv ==
    \A r \in Refunds :
        /\ refund[r].status # "NONE" => refund[r].amount > 0
        /\ r \in PaysOut \ posted /\ refund[r].treatment = "PAYMENT_REVERSAL"
              => WholeReceipt(r)

\* A reversal that the provider has paid and the ledger has not is still among the
\* rows of the hourly job, and the transaction that posts it will not throw.
PaidReversalFits ==
    \A r \in Refunds :
        payout[r] = "SUCCESS" /\ refund[r].treatment = "PAYMENT_REVERSAL" /\ r \notin posted
            => /\ refund[r].status \in RefundActive
               /\ \E s \in Sources :
                     /\ refund[r].of = {s}
                     /\ Refundable(s, refund[r].amount, "PAYMENT_REVERSAL")

LEMMA PaidFits ==
    ASSUME RefundInv, ReversalInv
    PROVE  PaidReversalFits
<1> SUFFICES ASSUME NEW r \in Refunds, payout[r] = "SUCCESS",
                    refund[r].treatment = "PAYMENT_REVERSAL", r \notin posted
             PROVE  /\ refund[r].status \in RefundActive
                    /\ \E s \in Sources :
                          /\ refund[r].of = {s}
                          /\ Refundable(s, refund[r].amount, "PAYMENT_REVERSAL")
  BY DEF PaidReversalFits
<1>1. r \in PaysOut /\ RefundRowInv(r)
  BY DEF PaysOut, RefundInv
<1>2. refund[r].status \in RefundStatus \ {"NONE", "FAILED", "SUCCESS"}
  BY <1>1 DEF RefundRowInv, RefundInv, RefundTypeOK, RefundRow
<1>3. PICK s \in Sources : refund[r].of = {s}
  BY <1>1, <1>2 DEF RefundRowInv
<1>4. /\ refund[r].amount > 0 /\ refund[r].amount \in Nat
      /\ receipt[s].status = "CONFIRMED"
      /\ receipt[s].amount = refund[r].amount /\ receipt[s].refunded = 0
  BY <1>1, <1>2, <1>3 DEF ReversalInv, WholeReceipt, RefundInv, RefundTypeOK, RefundRow
<1>5. Refundable(s, refund[r].amount, "PAYMENT_REVERSAL")
  BY <1>4 DEF Refundable
<1> QED BY <1>2, <1>3, <1>5 DEF RefundStatus, RefundActive

\* Two refunds of one source that both pay out return no more than it was paid with.
LEMMA TwoPayOut ==
    ASSUME RefundInv, NEW q \in PaysOut, NEW r \in PaysOut, q # r,
           NEW s \in Sources, s \in refund[q].of, s \in refund[r].of
    PROVE  refund[q].amount + refund[r].amount <= receipt[s].amount
<1> DEFINE one == {q}
           two == {q, r}
<1>1. /\ PaysOut \in SUBSET Refunds /\ two \in SUBSET PaysOut /\ one \in SUBSET Refunds
      /\ q \in Refunds /\ r \in Refunds \ one
  BY DEF PaysOut
<1>2. \A p \in Refunds : refund[p].amount \in Nat
  BY DEF RefundInv, RefundTypeOK, RefundRow
<1>3. receipt[s].amount \in Nat
  BY DEF RefundInv, LedgerTypeOK, ReceiptRow
<1>4. one \cup {r} = two
  OBVIOUS
<1> HIDE DEF one, two
<1>5. Returned(refund, s, one) = refund[q].amount
  <2> DEFINE amounts == [p \in Refunds |-> refund[p].amount]
  <2>1. {p \in one : s \in refund[p].of} = {q}
    BY DEF one
  <2>2. amounts[q] = refund[q].amount /\ refund[q].amount \in Nat
    BY <1>1, <1>2
  <2>3. Returned(refund, s, one) = SumFunctionOnSet(amounts, {q})
    BY <2>1 DEF Returned
  <2> HIDE DEF amounts
  <2>4. SumFunctionOnSet(amounts, {q}) = amounts[q] + SumFunctionOnSet(amounts, {q} \ {q})
    <3>1. IsFiniteSet({q})
      BY FS_Singleton
    <3>2. \A x \in {q} : amounts[x] \in Int
      BY <2>2
    <3>3. q \in {q}
      OBVIOUS
    <3> QED BY <3>1, <3>2, <3>3, SumTakesOut
  <2>5. {q} \ {q} = {}
    OBVIOUS
  <2>6. SumFunctionOnSet(amounts, {q} \ {q}) = 0
    BY <2>5, SumOfNone
  <2> QED BY <2>2, <2>3, <2>4, <2>6
<1>7. Returned(refund, s, one \cup {r}) = Returned(refund, s, one) + refund[r].amount
  BY <1>1, <1>2, ReturnedMore
<1>8. Returned(refund, s, two) <= Returned(refund, s, PaysOut)
  BY <1>1, <1>2, ReturnedLess
<1>9. Returned(refund, s, PaysOut) <= receipt[s].amount
  BY TotalIsReturned DEF RefundInv, NeverOverpaid
<1>10. Returned(refund, s, PaysOut) \in Nat
  BY <1>1, <1>2, ReturnedType
<1>11. Returned(refund, s, two) = refund[q].amount + refund[r].amount
  BY <1>4, <1>5, <1>7
<1>12. refund[q].amount \in Nat /\ refund[r].amount \in Nat
  BY <1>1, <1>2
<1> HIDE DEF Returned
<1> QED BY <1>3, <1>8, <1>9, <1>10, <1>11, <1>12

\* Steps that leave every receipt of a refund with its status, amount and returns.
LEMMA ReversalFrame ==
    ASSUME RefundInv, ReversalInv,
           \A r \in Refunds : /\ refund'[r].of = refund[r].of
                              /\ refund'[r].amount = refund[r].amount
                              /\ refund'[r].treatment = refund[r].treatment
                              /\ refund[r].status = "NONE" => refund'[r].status = "NONE",
           PaysOut' \subseteq PaysOut, posted' = posted,
           \A s \in Sources : Recorded(s) =>
               /\ receipt'[s].status = receipt[s].status
               /\ receipt'[s].amount = receipt[s].amount
               /\ receipt'[s].refunded = receipt[s].refunded
    PROVE  ReversalInv'
<1> SUFFICES ASSUME NEW r \in Refunds
             PROVE  /\ refund'[r].status # "NONE" => refund'[r].amount > 0
                    /\ r \in PaysOut' \ posted' /\ refund'[r].treatment = "PAYMENT_REVERSAL"
                          => WholeReceipt(r)'
  BY DEF ReversalInv
<1>1. refund'[r].status # "NONE" => refund'[r].amount > 0
  BY DEF ReversalInv
<1>2. ASSUME r \in PaysOut' \ posted', refund'[r].treatment = "PAYMENT_REVERSAL"
      PROVE  WholeReceipt(r)'
  <2>1. WholeReceipt(r)
    BY <1>2 DEF ReversalInv
  <2>2. \A s \in refund[r].of : s \in Sources
    BY DEF RefundInv, RefundTypeOK, RefundRow
  <2> QED BY <2>1, <2>2 DEF WholeReceipt, Recorded
<1> QED BY <1>1, <1>2

\* A new reversal reserves all of a receipt that has returned nothing.
LEMMA RequestKeepsReversals ==
    ASSUME RefundInv, ReversalInv, NEW r \in Refunds, NEW s \in Sources, NEW amount,
           NEW treatment, RequestRefund(r, s, amount, treatment)
    PROVE  ReversalInv'
<1>1. /\ refund[r] = NoRefund /\ receipt[s].status = "CONFIRMED" /\ amount > 0
      /\ TreatmentFits(s, amount, treatment)
      /\ refund' = [refund EXCEPT ![r] = [status |-> "CREATING", of |-> {s},
                       amount |-> amount, treatment |-> treatment]]
      /\ asking' = [asking EXCEPT ![r] = "send"]
      /\ UNCHANGED <<receipt, payout, posted>>
  BY DEF RequestRefund, ledgerVars
<1>2. refund \in [Refunds -> RefundRow] /\ asking \in [Refunds -> {"none", "send", "waiting", "done"}]
  BY DEF RefundInv, RefundTypeOK
<1>3. refund'[r] = [status |-> "CREATING", of |-> {s}, amount |-> amount,
                    treatment |-> treatment]
  BY <1>1, <1>2
<1>4. refund'[r].treatment = "PAYMENT_REVERSAL" => WholeReceipt(r)'
  BY <1>1, <1>3 DEF TreatmentFits, WholeReceipt
<1>5. ASSUME NEW q \in Refunds, q # r
      PROVE  /\ refund'[q].status # "NONE" => refund'[q].amount > 0
             /\ q \in PaysOut' \ posted' /\ refund'[q].treatment = "PAYMENT_REVERSAL"
                   => WholeReceipt(q)'
  <2>1. refund'[q] = refund[q] /\ asking'[q] = asking[q] /\ payout'[q] = payout[q]
    BY <1>1, <1>2, <1>5
  <2>2. (q \in PaysOut' \ posted' <=> q \in PaysOut \ posted) /\ (WholeReceipt(q)' <=> WholeReceipt(q))
    BY <1>1, <2>1 DEF PaysOut, WholeReceipt
  <2> QED BY <2>1, <2>2 DEF ReversalInv
<1> QED BY <1>1, <1>3, <1>4, <1>5 DEF ReversalInv

\* Only a refund that the provider paid is posted: it may share its receipt with
\* no reversal that pays out as well.
LEMMA ApplyKeepsReversals ==
    ASSUME RefundInv, ReversalInv, NEW r \in Refunds, NEW answer \in RefundAnswer,
           ApplyRefund(r, answer)
    PROVE  ReversalInv'
<1>1. answer \in answers[r] /\ UNCHANGED <<asking, payout, restarts>>
  BY DEF ApplyRefund
<1>2. payout[r] \in RefundAnswer /\ (answer # "PENDING" => payout[r] = answer)
      /\ asking[r] \notin {"none", "send"} /\ refund[r].status # "NONE"
  BY <1>1 DEF RefundInv, RefundRowInv, RefundAnswer
<1>3. PaysOut' = PaysOut
  BY <1>1 DEF PaysOut
<1>4. ASSUME NEW status \in RefundStatus, SetRefund(r, status)
      PROVE  /\ \A q \in Refunds : /\ refund'[q].of = refund[q].of
                                   /\ refund'[q].amount = refund[q].amount
                                   /\ refund'[q].treatment = refund[q].treatment
                                   /\ refund[q].status = "NONE" => refund'[q].status = "NONE"
             /\ \A q \in Refunds : q # r => refund'[q] = refund[q]
  BY <1>2, <1>4 DEF SetRefund, RefundInv, RefundTypeOK, RefundRow
<1>5. CASE UNCHANGED <<ledgerVars, refund, posted>>
  BY <1>3, <1>5, ReversalFrame DEF ledgerVars
<1>6. ASSUME NEW status \in RefundStatus, SetRefund(r, status), UNCHANGED <<ledgerVars, posted>>
      PROVE  ReversalInv'
  BY <1>3, <1>4, <1>6, ReversalFrame DEF ledgerVars
<1>7. ASSUME NEW s \in refund[r].of, payout[r] = "SUCCESS",
             ConfirmProviderRefund(s, refund[r].amount, refund[r].treatment),
             SetRefund(r, "SUCCESS"), posted' = posted \cup {r}
      PROVE  ReversalInv'
  <2>1. s \in Sources /\ refund[r].of = {s} /\ r \in PaysOut
    BY <1>2, <1>7 DEF RefundInv, RefundRowInv, PaysOut
  <2>2. /\ \A t \in Sources : t # s => receipt'[t] = receipt[t]
    BY <1>7, <2>1 DEF ConfirmProviderRefund, RefundInv, LedgerTypeOK
  <2>3. "SUCCESS" \in RefundStatus
    BY DEF RefundStatus
  <2>4. /\ \A q \in Refunds : /\ refund'[q].of = refund[q].of
                              /\ refund'[q].amount = refund[q].amount
                              /\ refund'[q].treatment = refund[q].treatment
                              /\ refund[q].status = "NONE" => refund'[q].status = "NONE"
    BY <1>4, <1>7, <2>3
  <2>5. ASSUME NEW q \in Refunds, q \in PaysOut' \ posted',
               refund'[q].treatment = "PAYMENT_REVERSAL"
        PROVE  WholeReceipt(q)'
    <3>1. q \in PaysOut \ posted /\ q # r /\ refund[q].treatment = "PAYMENT_REVERSAL"
      BY <1>3, <1>7, <2>4, <2>5
    <3>2. WholeReceipt(q)
      BY <3>1 DEF ReversalInv
    <3>3. s \notin refund[q].of
      <4> SUFFICES ASSUME s \in refund[q].of PROVE FALSE
        OBVIOUS
      <4>1. refund[q].amount + refund[r].amount <= receipt[s].amount
        BY <2>1, <3>1, TwoPayOut
      <4>2. receipt[s].amount = refund[q].amount
        BY <3>2 DEF WholeReceipt
      <4>3. refund[r].amount > 0 /\ refund[r].amount \in Nat /\ refund[q].amount \in Nat
        BY <1>2 DEF ReversalInv, RefundInv, RefundTypeOK, RefundRow
      <4> QED BY <4>1, <4>2, <4>3
    <3>4. \A t \in refund[q].of : t \in Sources /\ receipt'[t] = receipt[t]
      BY <2>2, <3>3 DEF RefundInv, RefundTypeOK, RefundRow
    <3> QED BY <2>4, <3>2, <3>4 DEF WholeReceipt
  <2>6. \A q \in Refunds : refund'[q].status # "NONE" => refund'[q].amount > 0
    BY <2>4 DEF ReversalInv
  <2> QED BY <2>5, <2>6 DEF ReversalInv
<1>8. CASE answer # "SUCCESS"
  <2>1. SetRefund(r, answer) /\ UNCHANGED <<ledgerVars, posted>>
    BY <1>8 DEF ApplyRefund
  <2>2. answer \in RefundStatus
    BY DEF RefundAnswer, RefundStatus, RefundActive
  <2> QED BY <1>6, <2>1, <2>2
<1>9. CASE answer = "SUCCESS"
  <2>1. UNCHANGED <<ledgerVars, refund, posted>> \/ PostRefund(r)
    BY <1>9 DEF ApplyRefund
  <2>2. payout[r] = "SUCCESS" /\ "SUCCESS" \in RefundStatus
    BY <1>2, <1>9 DEF RefundStatus
  <2>3. CASE PostRefund(r)
    <3>1. PICK s \in refund[r].of :
             \/ SetRefund(r, "SUCCESS") /\ UNCHANGED <<ledgerVars, posted>>
             \/ /\ ConfirmProviderRefund(s, refund[r].amount, refund[r].treatment)
                /\ SetRefund(r, "SUCCESS")
                /\ posted' = posted \cup {r}
             \/ UNCHANGED <<ledgerVars, refund, posted>>
      BY <2>3 DEF PostRefund
    <3> QED BY <1>5, <1>6, <1>7, <2>2, <3>1
  <2> QED BY <1>5, <2>1, <2>3
<1> QED BY <1>8, <1>9

\* Every other step.
LEMMA OthersKeepReversals ==
    ASSUME RefundInv, ReversalInv,
           \/ \E r \in Refunds :
                 \/ SendRefund(r) \/ ReceiveRefund(r) \/ FetchRefund(r)
                 \/ AcceptRefund(r) \/ LoseRefund(r) \/ PayRefund(r)
                 \/ RecordRefused(r) \/ RecordUnclear(r)
                 \/ \E s \in Sources : FindSource(r, s)
           \/ OriginSettles \/ \E s \in Sources : HideOrigin(s)
           \/ RefundOffice
           \/ RefundCrash
    PROVE  ReversalInv'
<1> USE DEF RefundInv
<1>1. ASSUME NEW r \in Refunds,
             \/ SendRefund(r) \/ ReceiveRefund(r) \/ FetchRefund(r)
             \/ AcceptRefund(r) \/ LoseRefund(r) \/ PayRefund(r)
      PROVE  ReversalInv'
  <2> USE <1>1 DEF SendRefund, ReceiveRefund, FetchRefund,
                   AcceptRefund, LoseRefund, PayRefund, PayoutBecomes
  <2>1. UNCHANGED <<receipt, refund, posted>>
    BY DEF ledgerVars
  <2>2. PaysOut' \subseteq PaysOut
    BY DEF PaysOut, RefundTypeOK, RefundRowInv
  <2> QED BY <2>1, <2>2, ReversalFrame
<1>2. ASSUME NEW r \in Refunds, RecordRefused(r) \/ RecordUnclear(r)
      PROVE  ReversalInv'
  <2> USE <1>2 DEF RecordRefused, RecordUnclear
  <2>1. PICK status : SetRefund(r, status)
    OBVIOUS
  <2>2. UNCHANGED <<receipt, payout, posted>> /\ refund[r].status # "NONE"
        /\ asking' = [asking EXCEPT ![r] = "done"]
    BY DEF ledgerVars, RefundRowInv
  <2>3. \A q \in Refunds : /\ refund'[q].of = refund[q].of
                           /\ refund'[q].amount = refund[q].amount
                           /\ refund'[q].treatment = refund[q].treatment
                           /\ refund[q].status = "NONE" => refund'[q].status = "NONE"
    BY <2>1, <2>2 DEF SetRefund, RefundTypeOK, RefundRow
  <2>4. PaysOut' \subseteq PaysOut
    BY <2>2 DEF PaysOut, RefundTypeOK
  <2> QED BY <2>2, <2>3, <2>4, ReversalFrame
<1>3. CASE RefundOffice \/ OriginSettles
  <2>1. UNCHANGED <<refund, asking, payout, posted>> /\ PaysOut' = PaysOut
    BY <1>3 DEF RefundOffice, OriginSettles, SettleOrigin, refundVars, PaysOut
  <2>2. ASSUME NEW s \in Sources, Recorded(s)
        PROVE  /\ receipt'[s].status = receipt[s].status
               /\ receipt'[s].amount = receipt[s].amount
               /\ receipt'[s].refunded = receipt[s].refunded
    <3>1. \A t \in Sources : Held(t) \in Nat
      <4>1. WithStatus(RefundActive) \in SUBSET Refunds
            /\ \A r \in Refunds : refund[r].amount \in Nat
        BY DEF WithStatus, RefundTypeOK, RefundRow
      <4> QED BY <4>1, ReturnedType, TotalIsReturned DEF Held
    <3>2. CASE BalanceNext \/ \E t \in Sources : AllocateNext(t, Held(t))
      <4>1. BalanceNext \/ \E t \in Sources, held \in Nat : AllocateNext(t, held)
        BY <3>1, <3>2
      <4> QED BY <4>1, BalanceKeepsReceipts
    <3>3. ASSUME NEW t \in Sources, NEW amount \in 1..MaxReceipt, NEW T \in SUBSET Invoices,
                 ConfirmProviderPayment(t, amount, T)
          PROVE  receipt'[s] = receipt[s]
      BY <2>2, <3>3 DEF ConfirmProviderPayment, ledgerVars, Recorded, LedgerTypeOK
    <3> QED BY <1>3, <3>2, <3>3 DEF RefundOffice, OriginSettles, SettleOrigin
  <2> QED BY <2>1, <2>2, ReversalFrame
<1>4. CASE RefundCrash
  <2>1. UNCHANGED <<receipt, refund, payout, posted>>
        /\ asking' = [r \in Refunds |-> IF refund[r] = NoRefund THEN "none" ELSE "done"]
    BY <1>4 DEF RefundCrash, ledgerVars
  <2>2. PaysOut' \subseteq PaysOut
    BY <2>1 DEF PaysOut
  <2> QED BY <2>1, <2>2, ReversalFrame
<1>5. CASE \/ \E r \in Refunds, s \in Sources : FindSource(r, s)
           \/ \E s \in Sources : HideOrigin(s)
  <2>1. UNCHANGED <<receipt, refund, posted>> /\ PaysOut' = PaysOut
    BY <1>5 DEF FindSource, HideOrigin, PaysOut, ledgerVars
  <2> QED BY <2>1, ReversalFrame
<1> QED BY <1>1, <1>2, <1>3, <1>4, <1>5

LEMMA ReversalStep ==
    ASSUME RefundInv, ReversalInv, [RefundNext]_refundAllVars
    PROVE  ReversalInv'
<1>1. CASE UNCHANGED refundAllVars
  <2>1. UNCHANGED <<receipt, refund, posted>> /\ PaysOut' = PaysOut
    BY <1>1 DEF refundAllVars, refundVars, ledgerVars, PaysOut
  <2> QED BY <2>1, ReversalFrame
<1> QED BY <1>1, RequestKeepsReversals, ApplyKeepsReversals, OthersKeepReversals DEF RefundNext

\* The ledger can always take a paid reversal: whatever calls overlapped, answers
\* were late and restarts forgot, its row is among those the hourly job verifies, its
\* receipt is whole and confirmed, and the transaction of verify does not throw
\* (payment-refund.service.ts lines 167-203, 347-364).  The verification itself needs
\* the row the receipt came from (source, lines 80-120).
THEOREM PaidReversalsCanBePosted == RefundSpec => []PaidReversalFits
<1>1. RefundInit => ReversalInv
  BY DEF RefundInit, ReversalInv, NoRefund, PaysOut
<1>2. RefundInv /\ ReversalInv /\ [RefundNext]_refundAllVars => ReversalInv'
  BY ReversalStep
<1>3. RefundInv /\ ReversalInv => PaidReversalFits
  BY PaidFits
<1> QED BY <1>1, <1>2, <1>3, RefundInvariant, PTL DEF RefundSpec

-----------------------------------------------------------------------------
(* The ledger under collections and refunds *)

LEMMA OfficeIsLedgerOperation ==
    ASSUME OfficeNext
    PROVE  LedgerOperation
<1>1. \A held \in 0..MaxReceipt : held \in Nat
  BY LedgerAssumption
<1>2. BalanceNext => LedgerOperation
  BY DEF LedgerOperation
<1> QED BY <1>1, <1>2, AllocateNextIsOperation DEF OfficeNext

\* A payment that a provider confirmed, whatever it is for.
LEMMA ConfirmIsLedgerOperation ==
    ASSUME NEW s \in Sources, NEW amount \in Nat, NEW T \in SUBSET Invoices,
           ConfirmProviderPayment(s, amount, T)
    PROVE  LedgerOperation
  BY DEF LedgerOperation

LEMMA DebitUsesTheLedger ==
    ASSUME debit \in [Debits -> DebitRow], DebitNext
    PROVE  [LedgerOperation]_ledgerVars
<1>1. ASSUME NEW d \in Debits, NEW answer \in Answer, ApplyResult(d, answer)
      PROVE  [LedgerOperation]_ledgerVars
  <2>1. debit[d].amount \in Nat /\ debit[d].for \in SUBSET Invoices /\ d \in Sources
    BY DebitsAreSources DEF DebitRow
  <2>2. ASSUME SettleDebit(d) PROVE [LedgerOperation]_ledgerVars
    <3>1. UNCHANGED ledgerVars
          \/ \E i \in debit[d].for : ConfirmProviderPayment(d, debit[d].amount, {i})
      BY <2>2 DEF SettleDebit
    <3>2. \A i \in debit[d].for : {i} \in SUBSET Invoices
      BY <2>1
    <3> QED BY <2>1, <3>1, <3>2, ConfirmIsLedgerOperation
  <2>3. ASSUME RecordAnswer(d, answer) PROVE UNCHANGED ledgerVars
    BY <2>3 DEF RecordAnswer
  <2> QED BY <1>1, <2>2, <2>3 DEF ApplyResult
<1>2. ASSUME NEW d \in Debits,
             \/ \E i \in Invoices : ReserveDebit(d, i) \/ CollectDue(d, i)
             \/ RecheckInvoice(d) \/ SendDebit(d)
             \/ ReceiveReply(d) \/ RecordRejected(d) \/ RecordUncertain(d)
             \/ FetchDebit(d)
      PROVE  UNCHANGED ledgerVars
  BY <1>2 DEF ReserveDebit, CollectDue, RecheckInvoice, SendDebit, ReceiveReply,
     RecordRejected, RecordUncertain, FetchDebit
<1>3. ASSUME NEW d \in Debits, AcceptCharge(d) \/ LoseCharge(d) \/ RunCharge(d)
      PROVE  UNCHANGED ledgerVars
  BY <1>3 DEF AcceptCharge, LoseCharge, RunCharge, ChargeBecomes
<1>4. ASSUME NEW i \in Invoices,
             NoteDue(i) \/ ActionRequired(i) \/ NoteSettled(i) \/ ReconcileDunning(i)
      PROVE  UNCHANGED ledgerVars
  BY <1>4 DEF NoteDue, ActionRequired, NoteSettled, ReconcileDunning
<1> QED BY <1>1, <1>2, <1>3, <1>4 DEF DebitNext

LEMMA CheckoutUsesTheLedger ==
    ASSUME checkout \in [Checkouts -> CheckoutRow], CheckoutNext
    PROVE  [LedgerOperation]_ledgerVars
<1>1. ASSUME NEW c \in Checkouts, NEW r \in reading[c], ApplyReading(c, r)
      PROVE  [LedgerOperation]_ledgerVars
  <2>1. /\ checkout[c].amount \in Nat /\ checkout[c].for \in SUBSET Invoices
        /\ c \in Sources
    BY CheckoutsAreSources DEF CheckoutRow
  <2>2. UNCHANGED ledgerVars
        \/ ConfirmProviderPayment(c, checkout[c].amount, checkout[c].for)
    BY <1>1 DEF ApplyReading, SettleCheckout, ReviewCheckout, CloseCheckout
  <2> QED BY <2>1, <2>2, ConfirmIsLedgerOperation
<1>2. ASSUME NEW c \in Checkouts,
             \/ \E i \in Invoices : PayInvoice(c, i)
             \/ \E amount \in 1..MaxReceipt : PayOutstanding(c, amount)
             \/ SendOrder(c) \/ StoreSession(c) \/ RejectOrder(c) \/ LoseSession(c)
             \/ FetchPayments(c)
             \/ \E r \in reading[c] : FetchOrder(c, r)
             \/ TryToPay(c) \/ PaymentEnds(c)
      PROVE  UNCHANGED ledgerVars
  BY <1>2 DEF PayInvoice, PayOutstanding, Reserve, SendOrder, StoreSession, RejectOrder,
     LoseSession, FetchPayments, FetchOrder, TryToPay, PaymentEnds
<1>3. ASSUME NEW c \in Checkouts, AcceptOrder(c) \/ LoseOrder(c) \/ ExpireOrder(c)
      PROVE  UNCHANGED ledgerVars
  BY <1>3 DEF AcceptOrder, LoseOrder, ExpireOrder, OrderBecomes
<1> QED BY <1>1, <1>2, <1>3 DEF CheckoutNext

\* AutoPay and checkout change the ledger by its own operations only, so that with
\* overlapping calls and restarts it stays as sound as LedgerIsSoundInUse says.
THEOREM CollectionsUseTheLedger == CollectionSpec => LedgerUse
<1>1. CollectionInv /\ [CollectionNext]_collectionVars => [LedgerOperation]_ledgerVars
  <2> SUFFICES ASSUME CollectionInv, [CollectionNext]_collectionVars
               PROVE  [LedgerOperation]_ledgerVars
    OBVIOUS
  <2>1. debit \in [Debits -> DebitRow] /\ checkout \in [Checkouts -> CheckoutRow]
    BY DEF CollectionInv, AutoPayInv, AutoPayTypeOK, CheckoutTypeOK
  <2>2. CASE UNCHANGED collectionVars
    BY <2>2 DEF collectionVars
  <2> QED BY <2>1, <2>2, DebitUsesTheLedger, CheckoutUsesTheLedger, OfficeIsLedgerOperation
          DEF CollectionNext
<1>2. CollectionInit => LedgerInit
  BY DEF CollectionInit, CollectionsInit
<1> QED BY <1>1, <1>2, CollectionInvariant, PTL DEF CollectionSpec, LedgerUse

\* So do refunds: what is allocated leaves what they hold, and a posted refund is
\* confirmProviderRefund (provider-refunds.service.ts).
THEOREM RefundsUseTheLedger == RefundSpec => LedgerUse
<1>1. RefundInv /\ [RefundNext]_refundAllVars => [LedgerOperation]_ledgerVars
  <2> SUFFICES ASSUME RefundInv, [RefundNext]_refundAllVars
               PROVE  [LedgerOperation]_ledgerVars
    OBVIOUS
  <2>1. \A r \in Refunds : /\ refund[r].amount \in Nat /\ refund[r].of \in SUBSET Sources
                           /\ refund[r].treatment \in Treatment
    BY DEF RefundInv, RefundTypeOK, RefundRow
  <2>2. \A s \in Sources : Held(s) \in Nat
    <3>1. WithStatus(RefundActive) \in SUBSET Refunds
      BY DEF WithStatus
    <3> QED BY <2>1, <3>1, ReturnedType, TotalIsReturned DEF Held
  <2>3. ASSUME NEW r \in Refunds, NEW answer \in RefundAnswer, ApplyRefund(r, answer)
        PROVE  [LedgerOperation]_ledgerVars
    <3>1. \/ UNCHANGED ledgerVars
          \/ \E s \in refund[r].of :
                ConfirmProviderRefund(s, refund[r].amount, refund[r].treatment)
      BY <2>3 DEF ApplyRefund, PostRefund
    <3> QED BY <2>1, <3>1 DEF LedgerOperation, Treatment
  <2>4. ASSUME NEW r \in Refunds,
               \/ \E s \in Sources, amount \in 1..MaxReceipt, treatment \in Treatment :
                     RequestRefund(r, s, amount, treatment)
               \/ SendRefund(r) \/ ReceiveRefund(r) \/ RecordRefused(r) \/ RecordUnclear(r)
               \/ FetchRefund(r) \/ \E s \in Sources : FindSource(r, s)
               \/ AcceptRefund(r) \/ LoseRefund(r) \/ PayRefund(r)
        PROVE  UNCHANGED ledgerVars
    BY <2>4 DEF FindSource, RequestRefund, SendRefund, ReceiveRefund, RecordRefused, RecordUnclear,
       FetchRefund, AcceptRefund, LoseRefund, PayRefund, PayoutBecomes
  <2>5. CASE RefundOffice \/ OriginSettles
    <3>1. \A amount \in 1..MaxReceipt : amount \in Nat
      BY LedgerAssumption
    <3>2. BalanceNext => LedgerOperation
      BY DEF LedgerOperation
    <3> QED BY <2>2, <2>5, <3>1, <3>2, AllocateNextIsOperation, ConfirmIsLedgerOperation
            DEF RefundOffice, OriginSettles, SettleOrigin
  <2>6. CASE \/ \E s \in Sources : HideOrigin(s)
             \/ RefundCrash \/ UNCHANGED refundAllVars
    BY <2>6 DEF HideOrigin, RefundCrash, refundAllVars
  <2> QED BY <2>3, <2>4, <2>5, <2>6 DEF RefundNext
<1>2. RefundInit => LedgerInit
  BY DEF RefundInit
<1> QED BY <1>1, <1>2, RefundInvariant, PTL DEF RefundSpec, LedgerUse

LEMMA AutoPayUsesTheLedger == AutoPaySpec => LedgerUse
<1>1. AutoPayInv /\ [DebitNext \/ DebitCrash \/ DebitOffice]_autoPayAllVars
        => [LedgerOperation]_ledgerVars
  <2> SUFFICES ASSUME AutoPayInv, [DebitNext \/ DebitCrash \/ DebitOffice]_autoPayAllVars
               PROVE  [LedgerOperation]_ledgerVars
    OBVIOUS
  <2>1. debit \in [Debits -> DebitRow]
    BY DEF AutoPayInv, AutoPayTypeOK
  <2>2. CASE DebitCrash \/ UNCHANGED autoPayAllVars
    BY <2>2 DEF DebitCrash, autoPayAllVars
  <2> QED BY <2>1, <2>2, DebitUsesTheLedger, OfficeIsLedgerOperation DEF DebitOffice
<1>2. AutoPayInit => LedgerInit
  BY DEF AutoPayInit, CollectionsInit
<1> QED BY <1>1, <1>2, AutoPayInvariant, PTL DEF AutoPaySpec, LedgerUse

\* Without AutoPay, the rows of checkouts need the ledger's types for what an
\* invoice owes.
LEMMA CheckoutRowsStay ==
    ASSUME LedgerTypeOK, checkout \in [Checkouts -> CheckoutRow], CheckoutNext
    PROVE  checkout' \in [Checkouts -> CheckoutRow]
<1>1. ASSUME NEW c \in Checkouts, NEW status \in CheckoutStatus,
             SetCheckout(c, status) \/ TryCheckout(c, status)
      PROVE  checkout' \in [Checkouts -> CheckoutRow]
  BY <1>1 DEF SetCheckout, TryCheckout, CheckoutRow
<1>2. ASSUME NEW c \in Checkouts, NEW row \in CheckoutRow, Reserve(c, row)
      PROVE  checkout' \in [Checkouts -> CheckoutRow]
  BY <1>2 DEF Reserve
<1>3. ASSUME NEW c \in Checkouts, NEW i \in Invoices, PayInvoice(c, i)
      PROVE  checkout' \in [Checkouts -> CheckoutRow]
  <2>1. [status |-> "CREATING", for |-> {i}, kind |-> "INVOICE_PAYMENT",
         amount |-> invoice[i].outstanding] \in CheckoutRow
    BY DEF LedgerTypeOK, InvoiceRow, CheckoutRow, CheckoutStatus, ActiveStatus, CheckoutKind
  <2> QED BY <1>2, <1>3, <2>1 DEF PayInvoice
<1>4. ASSUME NEW c \in Checkouts, NEW amount \in 1..MaxReceipt, PayOutstanding(c, amount)
      PROVE  checkout' \in [Checkouts -> CheckoutRow]
  <2>1. [status |-> "CREATING", for |-> Invoices, kind |-> "OUTSTANDING_PAYMENT",
         amount |-> amount] \in CheckoutRow
    BY LedgerAssumption DEF CheckoutRow, CheckoutStatus, ActiveStatus, CheckoutKind
  <2> QED BY <1>2, <1>4, <2>1 DEF PayOutstanding
<1>5. ASSUME NEW c \in Checkouts, StoreSession(c) \/ RejectOrder(c) \/ LoseSession(c)
      PROVE  checkout' \in [Checkouts -> CheckoutRow]
  BY <1>1, <1>5 DEF StoreSession, RejectOrder, LoseSession, CheckoutStatus, ActiveStatus
<1>6. ASSUME NEW c \in Checkouts, NEW r \in reading[c], ApplyReading(c, r)
      PROVE  checkout' \in [Checkouts -> CheckoutRow]
  <2>1. ASSUME UNCHANGED checkout PROVE checkout' \in [Checkouts -> CheckoutRow]
    BY <2>1
  <2>2. \A status \in {"SUCCESS", "UNKNOWN", "EXPIRED", "FAILED"} : status \in CheckoutStatus
    BY DEF CheckoutStatus, ActiveStatus
  <2> QED BY <1>1, <1>6, <2>1, <2>2
          DEF ApplyReading, SettleCheckout, ReviewCheckout, CloseCheckout
<1>7. ASSUME NEW c \in Checkouts,
             \/ SendOrder(c) \/ FetchPayments(c) \/ \E r \in reading[c] : FetchOrder(c, r)
             \/ AcceptOrder(c) \/ LoseOrder(c) \/ ExpireOrder(c)
             \/ TryToPay(c) \/ PaymentEnds(c)
      PROVE  checkout' = checkout
  BY <1>7 DEF SendOrder, FetchPayments, FetchOrder, AcceptOrder, LoseOrder, ExpireOrder,
     OrderBecomes, TryToPay, PaymentEnds
<1> QED BY <1>3, <1>4, <1>5, <1>6, <1>7 DEF CheckoutNext

LEMMA CheckoutAloneUsesTheLedger == CheckoutSpec => LedgerUse
<1> DEFINE Inv == LedgerInv /\ checkout \in [Checkouts -> CheckoutRow]
           Next == CheckoutNext \/ CheckoutCrash \/ CheckoutOffice
<1>1. Inv /\ [Next]_checkoutAllVars => Inv' /\ [LedgerOperation]_ledgerVars
  <2> SUFFICES ASSUME Inv, [Next]_checkoutAllVars
               PROVE  Inv' /\ [LedgerOperation]_ledgerVars
    OBVIOUS
  <2>1. CASE CheckoutNext
    <3>1. [LedgerOperation]_ledgerVars
      BY <2>1, CheckoutUsesTheLedger
    <3>2. checkout' \in [Checkouts -> CheckoutRow]
      BY <2>1, CheckoutRowsStay DEF LedgerInv
    <3> QED BY <3>1, <3>2, LedgerOperationKeeps
  <2>2. CASE CheckoutCrash \/ CheckoutOffice \/ UNCHANGED checkoutAllVars
    <3>1. [LedgerOperation]_ledgerVars /\ checkout' = checkout
      BY <2>2, OfficeIsLedgerOperation
         DEF CheckoutCrash, ForgetCheckoutCalls, CheckoutOffice, checkoutAllVars, checkoutVars
    <3> QED BY <3>1, LedgerOperationKeeps
  <2> QED BY <2>1, <2>2
<1>2. CheckoutInit => LedgerInit /\ Inv
  <2>1. NoCheckout \in CheckoutRow
    BY DEF NoCheckout, CheckoutRow, CheckoutStatus, CheckoutKind
  <2> QED BY <2>1, LedgerInitially, BalancedInitially, AddsUpInitially
          DEF CheckoutInit, CollectionsInit, LedgerInv
<1> HIDE DEF Inv
<1> QED BY <1>1, <1>2, PTL DEF CheckoutSpec, LedgerUse

\* Under AutoPay, under checkouts, under both on one ledger, and under refunds:
\* whatever overlaps, crashes or is answered late, every invoice and receipt adds
\* up and every payment is spread as the loop of the code spreads it.
THEOREM CallersKeepTheLedgerSound ==
    /\ AutoPaySpec => []LedgerSound
    /\ CheckoutSpec => []LedgerSound
    /\ CollectionSpec => []LedgerSound
    /\ RefundSpec => []LedgerSound
BY LedgerIsSoundInUse, AutoPayUsesTheLedger, CheckoutAloneUsesTheLedger,
   CollectionsUseTheLedger, RefundsUseTheLedger, PTL

-----------------------------------------------------------------------------
(* Mandates: what the rider has approved at the bank *)

Known == Expirable \cup Terminal

\* A reason to close a row, and one that never goes away.
ClosedAtBank(m) == m \in past \/ remote[m] \in Terminal

\* How the row of m, its creation and its mandate at the provider fit together.
RowInv(m) ==
    /\ mandate[m].status = "NONE" <=> creating[m] = "none"
    /\ creating[m] \in {"none", "send"} => remote[m] = "ABSENT"
    /\ creating[m] = "send" => mandate[m].status = "CREATING"
    /\ mandate[m].status \in Expirable => remote[m] \in Known
    /\ mandate[m].status \in Terminal => ClosedAtBank(m) \/ remote[m] = "REFUSED"
    /\ mandate[m].status \in {"ACTIVE", "PAUSED"} => m \in granted
    /\ remote[m] \in {"ACTIVE", "PAUSED"} => m \in granted

\* What a call on m may hold in hand.
CallInv(k, m) ==
    /\ call[k].of = {m}
    /\ remote[m] \in Known
    /\ call[k].status \in Terminal => ClosedAtBank(m)
    /\ call[k].status \in {"ACTIVE", "PAUSED"} => m \in granted

RowsInv == \A m \in Mandates : RowInv(m)
CallsInv == \A k \in Calls : \A m \in call[k].of : CallInv(k, m)
OneOpen == \A m, n \in Mandates : Open(m) /\ Open(n) => m = n

MandateInv ==
    /\ MandateTypeOK
    /\ RowsInv
    /\ CallsInv
    /\ OneOpen

-----------------------------------------------------------------------------
(* Lemmas *)

\* A step at the bank that keeps rows and calls keeps the invariant if what was
\* approved, over, closed or known stays so.
LEMMA BankStep ==
    ASSUME MandateInv, UNCHANGED <<rowVars, creating, call>>,
           remote' \in [Mandates -> Remote],
           granted' \in SUBSET Mandates, past' \in SUBSET Mandates,
           granted \subseteq granted', past \subseteq past',
           \A m \in Mandates :
              /\ remote[m] \in Terminal => remote'[m] = remote[m]
              /\ remote[m] \in Known => remote'[m] \in Known
              /\ remote[m] \in {"ABSENT", "REFUSED"} => remote'[m] = remote[m]
              /\ remote'[m] \in {"ACTIVE", "PAUSED"} => m \in granted'
    PROVE  MandateInv'
<1>1. MandateTypeOK'
  BY DEF MandateInv, MandateTypeOK, rowVars
<1>2. \A m \in Mandates : ClosedAtBank(m) => ClosedAtBank(m)'
  BY DEF ClosedAtBank
<1>3. RowsInv'
  BY <1>2 DEF MandateInv, RowsInv, RowInv, rowVars
<1>4. CallsInv'
  BY <1>2 DEF MandateInv, MandateTypeOK, Call, CallsInv, CallInv, rowVars
<1>5. OneOpen'
  BY DEF MandateInv, OneOpen, Open, rowVars
<1> QED BY <1>1, <1>3, <1>4, <1>5 DEF MandateInv

\* A step of calls that keeps everything else keeps the invariant if each call
\* holds what it may.
LEMMA CallStep ==
    ASSUME MandateInv, UNCHANGED <<rowVars, creating, bankVars>>,
           NEW k \in Calls, NEW c \in Call, SetCall(k, c),
           \A m \in c.of : /\ c.of = {m}
                           /\ remote[m] \in Known
                           /\ c.status \in Terminal => ClosedAtBank(m)
                           /\ c.status \in {"ACTIVE", "PAUSED"} => m \in granted
    PROVE  MandateInv'
<1>1. call' \in [Calls -> Call] /\ call'[k] = c /\ \A j \in Calls \ {k} : call'[j] = call[j]
  BY DEF MandateInv, MandateTypeOK, SetCall
<1>2. MandateTypeOK'
  BY <1>1 DEF MandateInv, MandateTypeOK, rowVars, bankVars
<1>3. \A m \in Mandates : ClosedAtBank(m)' <=> ClosedAtBank(m)
  BY DEF ClosedAtBank, bankVars
<1>4. RowsInv'
  BY <1>3 DEF MandateInv, RowsInv, RowInv, rowVars, bankVars
<1>5. CallsInv'
  BY <1>1, <1>3 DEF MandateInv, CallsInv, CallInv, bankVars, Call
<1>6. OneOpen'
  BY DEF MandateInv, OneOpen, Open, rowVars
<1> QED BY <1>2, <1>4, <1>5, <1>6 DEF MandateInv

\* A write of one row, by a call that ends or by none, keeps the invariant if
\* the status is justified and the row is not a second open one.
LEMMA RowStep ==
    ASSUME MandateInv, UNCHANGED bankVars, NEW m \in Mandates,
           NEW row \in [status : MandateStatus, autoDebit : BOOLEAN],
           mandate' = [mandate EXCEPT ![m] = row],
           profile' \in BOOLEAN,
           NEW at \in {"send", "waiting", "done"},
           creating' = [creating EXCEPT ![m] = at],
           UNCHANGED call \/ \E k \in Calls : SetCall(k, Idle),
           row.status \in openStatuses => ~OtherOpen(m),
           at = "send" => remote[m] = "ABSENT" /\ row.status = "CREATING",
           row.status \in Expirable => remote[m] \in Known,
           row.status \in Terminal => ClosedAtBank(m) \/ remote[m] = "REFUSED",
           row.status \in {"ACTIVE", "PAUSED"} => m \in granted
    PROVE  MandateInv'
<1>1. /\ mandate' \in [Mandates -> [status : MandateStatus \cup {"NONE"}, autoDebit : BOOLEAN]]
      /\ mandate'[m] = row
      /\ \A n \in Mandates \ {m} : mandate'[n] = mandate[n]
  BY DEF MandateInv, MandateTypeOK
<1>2. /\ call' \in [Calls -> Call]
      /\ \A k \in Calls : call'[k] = call[k] \/ call'[k].of = {}
  <2>1. Idle \in Call /\ Idle.of = {}
    BY DEF Idle, Call, Step, MandateStatus, openStatuses
  <2> QED BY <2>1 DEF MandateInv, MandateTypeOK, SetCall
<1>3. /\ creating' \in [Mandates -> {"none", "send", "waiting", "done"}]
      /\ creating'[m] = at
      /\ \A n \in Mandates \ {m} : creating'[n] = creating[n]
  BY DEF MandateInv, MandateTypeOK
<1>4. MandateTypeOK'
  BY <1>1, <1>2, <1>3 DEF MandateInv, MandateTypeOK, bankVars
<1>5. \A n \in Mandates : ClosedAtBank(n)' <=> ClosedAtBank(n)
  BY DEF ClosedAtBank, bankVars
<1>6. RowsInv'
  <2>1. ASSUME NEW n \in Mandates, n # m PROVE RowInv(n)'
    BY <1>1, <1>3, <1>5, <2>1 DEF MandateInv, RowsInv, RowInv, bankVars
  <2>2. row.status # "NONE"
    BY DEF MandateStatus, openStatuses, Expirable, Terminal
  <2>3. RowInv(m)'
    BY <1>1, <1>3, <1>5, <2>2 DEF MandateInv, RowsInv, RowInv, bankVars
  <2> QED BY <2>1, <2>3 DEF RowsInv
<1>7. CallsInv'
  BY <1>2, <1>5 DEF MandateInv, CallsInv, CallInv, bankVars, Call, MandateTypeOK
<1>8. OneOpen'
  BY <1>1 DEF MandateInv, OneOpen, Open, OtherOpen
<1> QED BY <1>4, <1>6, <1>7, <1>8 DEF MandateInv

\* The fields of a row.
LEMMA Rows ==
    ASSUME MandateTypeOK, NEW m \in Mandates
    PROVE  /\ mandate[m].status \in MandateStatus \cup {"NONE"}
           /\ mandate[m].autoDebit \in BOOLEAN
           /\ mandate[m].status # "NONE"
                => mandate[m] \in [status : MandateStatus, autoDebit : BOOLEAN]
<1>1. mandate[m] \in [status : MandateStatus \cup {"NONE"}, autoDebit : BOOLEAN]
  BY DEF MandateTypeOK
<1> QED BY <1>1

\* A status write is a write of the row.
LEMMA MandateWrite ==
    ASSUME MandateTypeOK, NEW m \in Mandates, NEW status, SetStatus(m, status)
    PROVE  mandate' = [mandate EXCEPT ![m] =
                          [status |-> status, autoDebit |-> mandate[m].autoDebit]]
<1>1. mandate' = [mandate EXCEPT ![m] = [mandate[m] EXCEPT !.status = status]]
  BY DEF SetStatus
<1>2. [mandate[m] EXCEPT !.status = status]
         = [status |-> status, autoDebit |-> mandate[m].autoDebit]
  BY DEF MandateTypeOK
<1> QED BY <1>1, <1>2

-----------------------------------------------------------------------------
(* Creation *)

LEMMA CreateKeeps ==
    ASSUME MandateInv, NEW m \in Mandates, CreateMandate(m)
    PROVE  MandateInv'
<1> DEFINE row == [status |-> "CREATING", autoDebit |-> mandate[m].autoDebit]
<1>1. row \in [status : MandateStatus, autoDebit : BOOLEAN]
  BY Rows DEF MandateInv, MandateStatus, openStatuses
<1>2. mandate' = [mandate EXCEPT ![m] = row]
  BY MandateWrite DEF MandateInv, CreateMandate
<1>3. remote[m] = "ABSENT"
  BY DEF CreateMandate, MandateInv, RowsInv, RowInv
<1> HIDE DEF row
<1>4. row.status = "CREATING"
  BY DEF row
<1> QED
  BY <1>1, <1>2, <1>3, <1>4, RowStep
     DEF CreateMandate, MandateInv, MandateTypeOK, OtherOpen, Expirable, Terminal

LEMMA SendCreateKeeps ==
    ASSUME MandateInv, NEW m \in Mandates, SendCreate(m)
    PROVE  MandateInv'
<1>1. /\ remote[m] = "ABSENT" /\ remote' = [remote EXCEPT ![m] = "REQUESTED"]
      /\ mandate[m].status = "CREATING"
      /\ creating' = [creating EXCEPT ![m] = "waiting"]
      /\ UNCHANGED <<rowVars, granted, past, call>>
  BY DEF SendCreate, MandateInv, RowsInv, RowInv
<1>2. \A k \in Calls : m \notin call[k].of
  BY <1>1 DEF MandateInv, CallsInv, CallInv, Known, Expirable, Terminal
<1>3. MandateTypeOK'
  BY <1>1 DEF MandateInv, MandateTypeOK, rowVars, Remote
<1>4. \A n \in Mandates \ {m} : remote'[n] = remote[n] /\ creating'[n] = creating[n]
  BY <1>1 DEF MandateInv, MandateTypeOK
<1>5. RowsInv'
  <2>1. ASSUME NEW n \in Mandates, n # m PROVE RowInv(n)'
    BY <1>1, <1>4, <2>1 DEF MandateInv, RowsInv, RowInv, ClosedAtBank, rowVars
  <2>2. remote'[m] = "REQUESTED" /\ creating'[m] = "waiting"
    BY <1>1 DEF MandateInv, MandateTypeOK
  <2>3. RowInv(m)'
    BY <1>1, <2>2 DEF RowInv, rowVars, Expirable, Terminal
  <2> QED BY <2>1, <2>3 DEF RowsInv
<1>6. CallsInv'
  BY <1>1, <1>2, <1>4
     DEF MandateInv, MandateTypeOK, Call, CallsInv, CallInv, ClosedAtBank
<1>7. OneOpen'
  BY <1>1 DEF MandateInv, OneOpen, Open, rowVars
<1> QED BY <1>3, <1>5, <1>6, <1>7 DEF MandateInv

\* A row is written UNKNOWN or, because of the index, not at all.
LEMMA UnknownKeeps ==
    ASSUME MandateInv, NEW m \in Mandates, SetUnknown(m), UNCHANGED <<profile, bankVars>>,
           creating[m] \notin {"none", "send"},
           NEW at \in {"waiting", "done"}, creating' = [creating EXCEPT ![m] = at],
           UNCHANGED call \/ \E k \in Calls : SetCall(k, Idle)
    PROVE  MandateInv'
<1>1. mandate[m].status # "NONE"
  BY Rows DEF MandateInv, MandateTypeOK, RowsInv, RowInv
<1>2. CASE OtherOpen(m)
  <2> DEFINE row == mandate[m]
  <2>1. row \in [status : MandateStatus, autoDebit : BOOLEAN]
    BY <1>1, Rows DEF MandateInv
  <2>2. mandate' = [mandate EXCEPT ![m] = row]
    BY <1>2 DEF MandateInv, MandateTypeOK, SetUnknown
  <2>3. RowInv(m) /\ ~Open(m)
    BY <1>2 DEF MandateInv, RowsInv, OneOpen, OtherOpen
  <2> QED
    BY <2>1, <2>2, <2>3, RowStep DEF MandateInv, MandateTypeOK, RowInv, Open
<1>3. CASE ~OtherOpen(m)
  <2> DEFINE row == [status |-> "UNKNOWN", autoDebit |-> mandate[m].autoDebit]
  <2>1. row \in [status : MandateStatus, autoDebit : BOOLEAN]
    BY Rows DEF MandateInv, MandateStatus, openStatuses
  <2>2. mandate' = [mandate EXCEPT ![m] = row]
    BY <1>3, MandateWrite DEF MandateInv, SetUnknown
  <2> HIDE DEF row
  <2>3. row.status = "UNKNOWN"
    BY DEF row
  <2> QED
    BY <1>3, <2>1, <2>2, <2>3, RowStep DEF MandateInv, MandateTypeOK, Expirable, Terminal
<1> QED BY <1>2, <1>3

LEMMA CreateRejectedKeeps ==
    ASSUME MandateInv, NEW m \in Mandates, RecordCreateRejected(m)
    PROVE  MandateInv'
<1> DEFINE row == [status |-> "FAILED", autoDebit |-> mandate[m].autoDebit]
<1>1. row \in [status : MandateStatus, autoDebit : BOOLEAN]
  BY Rows DEF MandateInv, MandateStatus, Terminal
<1>2. mandate' = [mandate EXCEPT ![m] = row]
  BY MandateWrite DEF MandateInv, RecordCreateRejected
<1> HIDE DEF row
<1>3. row.status = "FAILED"
  BY DEF row
<1> QED
  BY <1>1, <1>2, <1>3, RowStep
     DEF RecordCreateRejected, MandateInv, MandateTypeOK, Expirable, openStatuses

LEMMA CreateUncertainKeeps ==
    ASSUME MandateInv, NEW m \in Mandates, RecordCreateUncertain(m)
    PROVE  MandateInv'
  BY UnknownKeeps DEF RecordCreateUncertain

LEMMA FailApplyKeeps ==
    ASSUME MandateInv, NEW k \in Calls, FailApply(k)
    PROVE  MandateInv'
<1>1. PICK m \in call[k].of : SetUnknown(m)
  BY DEF FailApply
<1>2. m \in Mandates /\ creating[m] \notin {"none", "send"}
  BY <1>1 DEF MandateInv, MandateTypeOK, Call, CallsInv, CallInv, RowsInv, RowInv,
              Known, Expirable, Terminal
<1>3. creating[m] \in {"waiting", "done"} /\ creating' = [creating EXCEPT ![m] = creating[m]]
  BY <1>2 DEF MandateInv, MandateTypeOK, FailApply
<1> QED BY <1>1, <1>2, <1>3, UnknownKeeps DEF FailApply

LEMMA LoseCreateKeeps ==
    ASSUME MandateInv, NEW m \in Mandates, LoseCreate(m)
    PROVE  MandateInv'
<1>1. /\ creating' \in [Mandates -> {"none", "send", "waiting", "done"}]
      /\ creating'[m] = "done"
      /\ \A n \in Mandates \ {m} : creating'[n] = creating[n]
  BY DEF MandateInv, MandateTypeOK, LoseCreate
<1>2. MandateTypeOK'
  BY <1>1 DEF MandateInv, MandateTypeOK, LoseCreate, rowVars, bankVars
<1>3. RowsInv'
  BY <1>1 DEF MandateInv, RowsInv, RowInv, ClosedAtBank, LoseCreate, rowVars, bankVars
<1>4. CallsInv' /\ OneOpen'
  BY DEF MandateInv, CallsInv, CallInv, ClosedAtBank, OneOpen, Open, LoseCreate,
         rowVars, bankVars
<1> QED BY <1>2, <1>3, <1>4 DEF MandateInv

-----------------------------------------------------------------------------
(* Calls *)

\* What a provider answers may be taken in hand.
LEMMA FetchedKeeps ==
    ASSUME MandateInv, NEW k \in Calls, NEW m \in Mandates, NEW answer \in MandateStatus,
           NEW create \in BOOLEAN, Fetched(k, m, answer, create),
           UNCHANGED <<rowVars, creating, bankVars>>, remote[m] \in Known,
           answer \in Terminal => remote[m] = answer,
           answer \in {"ACTIVE", "PAUSED"} => remote[m] = answer
    PROVE  MandateInv'
<1> DEFINE c == [step |-> "fetched", of |-> {m}, status |-> answer, active |-> FALSE,
                 create |-> create]
<1>1. c \in Call /\ c.of = {m} /\ c.status = answer
  BY DEF Call, Step
<1>2. SetCall(k, c)
  BY DEF Fetched
<1>3. RowInv(m)
  BY DEF MandateInv, RowsInv
<1> HIDE DEF c
<1> QED BY <1>1, <1>2, <1>3, CallStep DEF RowInv, ClosedAtBank

LEMMA RepliesAreTrue ==
    ASSUME NEW m \in Mandates, NEW answer \in Replies(m)
    PROVE  /\ remote[m] \in Known /\ answer \in MandateStatus
           /\ answer = remote[m] \/ answer = "UNKNOWN"
<1>1. CASE remote[m] \in Expirable
  BY <1>1 DEF Replies, Known, MandateStatus, openStatuses
<1>2. CASE remote[m] \in Terminal
  BY <1>2 DEF Replies, Known, MandateStatus, openStatuses, Expirable, Terminal
<1>3. CASE remote[m] \notin Expirable \cup Terminal
  BY <1>3 DEF Replies
<1> QED BY <1>1, <1>2, <1>3

LEMMA FetchKeeps ==
    ASSUME MandateInv, NEW m \in Mandates, NEW k \in Calls, Fetch(m, k)
    PROVE  MandateInv'
<1>1. PICK answer \in Replies(m) : Fetched(k, m, answer, FALSE)
  BY DEF Fetch
<1> QED BY <1>1, RepliesAreTrue, FetchedKeeps DEF Fetch, Terminal

\* ReceiveCreate also ends the request.
LEMMA ReceiveKeeps ==
    ASSUME MandateInv, NEW m \in Mandates, NEW k \in Calls, ReceiveCreate(m, k)
    PROVE  MandateInv'
<1>1. PICK answer \in {"CREATED"} \cup Replies(m) : Fetched(k, m, answer, TRUE)
  BY DEF ReceiveCreate
<1>2. /\ answer \in MandateStatus /\ remote[m] \in Known
      /\ answer = remote[m] \/ answer \in {"UNKNOWN", "CREATED"}
  BY <1>1, RepliesAreTrue
     DEF ReceiveCreate, Known, MandateStatus, openStatuses, Expirable
<1> DEFINE c == [step |-> "fetched", of |-> {m}, status |-> answer, active |-> FALSE,
                 create |-> TRUE]
<1>3. call' = [call EXCEPT ![k] = c]
  BY <1>1 DEF Fetched, SetCall
<1>4. c \in Call
  BY <1>2 DEF Call, Step
<1>5. RowInv(m)
  BY DEF MandateInv, RowsInv
<1>6. /\ creating' \in [Mandates -> {"none", "send", "waiting", "done"}]
      /\ creating[m] = "waiting" /\ creating'[m] = "done"
      /\ \A n \in Mandates \ {m} : creating'[n] = creating[n]
  BY DEF MandateInv, MandateTypeOK, ReceiveCreate
<1>7. MandateTypeOK'
  BY <1>3, <1>4, <1>6 DEF MandateInv, MandateTypeOK, ReceiveCreate, rowVars, bankVars
<1>8. RowsInv'
  BY <1>6 DEF MandateInv, RowsInv, RowInv, ClosedAtBank, ReceiveCreate, rowVars, bankVars
<1>9. CallsInv'
  <2>1. CallInv(k, m)' /\ call'[k].of = {m}
    BY <1>2, <1>3, <1>5 DEF CallInv, RowInv, ClosedAtBank, ReceiveCreate, bankVars,
       MandateInv, MandateTypeOK, Terminal
  <2>2. \A j \in Calls \ {k} : call'[j] = call[j]
    BY <1>3 DEF MandateInv, MandateTypeOK
  <2> QED
    BY <2>1, <2>2 DEF MandateInv, CallsInv, CallInv, ClosedAtBank, ReceiveCreate, bankVars
<1>10. OneOpen'
  BY DEF MandateInv, OneOpen, Open, ReceiveCreate, rowVars
<1> QED BY <1>7, <1>8, <1>9, <1>10 DEF MandateInv

\* The provider is told to change the mandate and answers that it did.
LEMMA TellKeeps ==
    ASSUME MandateInv, NEW m \in Mandates, NEW k \in Calls, NEW from, NEW to,
           from \subseteq Expirable, to \in {"CANCELLED", "PAUSED", "ACTIVE"},
           to # "CANCELLED" => m \in granted, Tell(m, k, from, to)
    PROVE  MandateInv'
<1> DEFINE c == [step |-> "fetched", of |-> {m}, status |-> to, active |-> FALSE,
                 create |-> FALSE]
<1>1. call' = [call EXCEPT ![k] = c]
  BY DEF Tell, Fetched, SetCall
<1>2. c \in Call
  BY DEF Call, Step, MandateStatus, openStatuses, Expirable, Terminal
<1>3. /\ remote' \in [Mandates -> Remote]
      /\ remote[m] \in Expirable /\ remote'[m] = to /\ to \in Known
      /\ \A n \in Mandates \ {m} : remote'[n] = remote[n]
  BY DEF Tell, MandateInv, MandateTypeOK, Remote, Known, Expirable, Terminal
<1>4. MandateTypeOK'
  BY <1>1, <1>2, <1>3 DEF MandateInv, MandateTypeOK, Tell, rowVars
<1>5. \A n \in Mandates : ClosedAtBank(n) => ClosedAtBank(n)'
  BY <1>3 DEF ClosedAtBank, Tell, Expirable, Terminal
<1>6. RowsInv'
  <2>1. ASSUME NEW n \in Mandates, n # m PROVE RowInv(n)'
    BY <1>3, <1>5, <2>1 DEF MandateInv, RowsInv, RowInv, Tell, rowVars
  <2>2. RowInv(m)'
    BY <1>3, <1>5 DEF MandateInv, RowsInv, RowInv, Tell, rowVars, Expirable
  <2> QED BY <2>1, <2>2 DEF RowsInv
<1>7. CallsInv'
  <2>1. CallInv(k, m)' /\ call'[k].of = {m}
    BY <1>1, <1>3 DEF CallInv, ClosedAtBank, Tell, MandateInv, MandateTypeOK, Terminal
  <2>2. ASSUME NEW j \in Calls, j # k, NEW n \in call'[j].of
        PROVE  CallInv(j, n)'
    <3>1. call'[j] = call[j]
      BY <1>1, <2>2 DEF MandateInv, MandateTypeOK
    <3>2. CallInv(j, n) /\ n \in Mandates
      BY <2>2, <3>1 DEF MandateInv, MandateTypeOK, CallsInv, Call
    <3> QED BY <1>3, <1>5, <3>1, <3>2 DEF CallInv, Tell
  <2> QED BY <2>1, <2>2 DEF CallsInv
<1>8. OneOpen'
  BY DEF MandateInv, OneOpen, Open, Tell, rowVars
<1> QED BY <1>4, <1>6, <1>7, <1>8 DEF MandateInv

LEMMA ManageKeeps ==
    ASSUME MandateInv, NEW m \in Mandates, NEW k \in Calls,
           Cancel(m, k) \/ Pause(m, k) \/ Resume(m, k)
    PROVE  MandateInv'
<1>1. CASE Cancel(m, k)
  BY <1>1, TellKeeps DEF Cancel
<1>2. CASE Pause(m, k) \/ Resume(m, k)
  <2>1. m \in granted
    BY <1>2 DEF Pause, Resume, MandateInv, RowsInv, RowInv
  <2> QED BY <1>2, <2>1, TellKeeps DEF Pause, Resume, Expirable
<1> QED BY <1>1, <1>2

\* A call that ends leaves nothing behind.
LEMMA LoseCallKeeps ==
    ASSUME MandateInv, NEW k \in Calls, LoseCall(k)
    PROVE  MandateInv'
<1>1. Idle \in Call /\ Idle.of = {}
  BY DEF Idle, Call, Step, MandateStatus, openStatuses
<1> QED BY <1>1, CallStep DEF LoseCall

LEMMA ReadToggleKeeps ==
    ASSUME MandateInv, NEW m \in Mandates, NEW k \in Calls, NEW enabled \in BOOLEAN,
           ReadToggle(m, k, enabled)
    PROVE  MandateInv'
<1> DEFINE c == [step |-> "toggle", of |-> {m}, status |-> "UNKNOWN",
                 active |-> enabled, create |-> FALSE]
<1>1. c \in Call /\ c.of = {m} /\ c.status = "UNKNOWN"
  BY DEF Call, Step, MandateStatus, openStatuses
<1>2. SetCall(k, c) /\ UNCHANGED <<rowVars, creating, bankVars>>
  BY DEF ReadToggle
<1>3. remote[m] \in Known
  BY DEF ReadToggle, MandateInv, RowsInv, RowInv, Expirable
<1> HIDE DEF c
<1> QED BY <1>1, <1>2, <1>3, CallStep DEF Terminal

\* The status that a transaction decides on is justified by the row it read or
\* by the answer it holds.
LEMMA ReadRowKeeps ==
    ASSUME MandateInv, NEW k \in Calls, ReadRow(k)
    PROVE  MandateInv'
<1>1. PICK m \in call[k].of :
         SetCall(k, [call[k] EXCEPT !.step = "read",
                                    !.status = Accepted(mandate[m].status, @)])
  BY DEF ReadRow
<1> DEFINE status == Accepted(mandate[m].status, call[k].status)
           c == [call[k] EXCEPT !.step = "read", !.status = status]
<1>2. m \in Mandates /\ call[k] \in Call /\ CallInv(k, m)
  BY <1>1 DEF MandateInv, MandateTypeOK, Call, CallsInv
<1>3. RowInv(m) /\ mandate[m].status \in MandateStatus
  BY <1>2, Rows DEF MandateInv, RowsInv, RowInv, CallInv, Known, Expirable, Terminal
<1>4. status = mandate[m].status \/ status = call[k].status
  BY DEF Accepted
<1>5. status \in MandateStatus
  BY <1>2, <1>3, <1>4 DEF Call
<1>6. status \in Terminal => ClosedAtBank(m)
  BY <1>2, <1>3, <1>4 DEF RowInv, CallInv, Known, Expirable, Terminal
<1>7. status \in {"ACTIVE", "PAUSED"} => m \in granted
  BY <1>2, <1>3, <1>4 DEF RowInv, CallInv
<1> HIDE DEF status
<1>8. c \in Call /\ c.of = {m} /\ c.status = status
  BY <1>2, <1>5 DEF Call, Step, CallInv
<1>9. SetCall(k, c)
  BY <1>1 DEF status
<1> HIDE DEF c
<1> QED BY <1>2, <1>6, <1>7, <1>8, <1>9, CallStep DEF ReadRow, CallInv

LEMMA LockRowKeeps ==
    ASSUME MandateInv, NEW k \in Calls, LockRow(k)
    PROVE  MandateInv'
<1>1. PICK m \in call[k].of, active \in BOOLEAN :
         SetCall(k, [call[k] EXCEPT !.step = "locked", !.active = active])
  BY DEF LockRow
<1> DEFINE c == [call[k] EXCEPT !.step = "locked", !.active = active]
<1>2. m \in Mandates /\ call[k] \in Call /\ CallInv(k, m)
  BY <1>1 DEF MandateInv, MandateTypeOK, Call, CallsInv
<1>3. c \in Call /\ c.of = {m} /\ c.status = call[k].status
  BY <1>2 DEF Call, Step, CallInv
<1>4. SetCall(k, c)
  BY <1>1
<1> HIDE DEF c
<1> QED BY <1>2, <1>3, <1>4, CallStep DEF LockRow, CallInv

\* Idle is a call on nothing.
LEMMA CommitRowKeeps ==
    ASSUME MandateInv, NEW k \in Calls, CommitRow(k)
    PROVE  MandateInv'
<1> DEFINE status == call[k].status
<1>1. PICK m \in call[k].of :
         IF status \in openStatuses /\ OtherOpen(m)
         THEN UNCHANGED rowVars
         ELSE /\ mandate' = [mandate EXCEPT ![m] =
                    [status |-> status, autoDebit |-> KeepsDebit(m, status)]]
              /\ profile' = call[k].active
  BY DEF CommitRow
<1>2. /\ m \in Mandates /\ call[k] \in Call /\ CallInv(k, m) /\ RowInv(m)
      /\ SetCall(k, Idle) /\ UNCHANGED <<creating, bankVars>>
  BY <1>1 DEF MandateInv, MandateTypeOK, Call, CallsInv, RowsInv, CommitRow
<1>3. CASE UNCHANGED rowVars
  <2>1. Idle \in Call /\ Idle.of = {}
    BY DEF Idle, Call, Step, MandateStatus, openStatuses
  <2> QED BY <1>2, <1>3, <2>1, CallStep
<1>4. CASE ~(status \in openStatuses /\ OtherOpen(m))
  <2> DEFINE row == [status |-> status, autoDebit |-> KeepsDebit(m, status)]
  <2>1. mandate' = [mandate EXCEPT ![m] = row] /\ profile' = call[k].active
    BY <1>1, <1>4
  <2>2. row \in [status : MandateStatus, autoDebit : BOOLEAN] /\ row.status = call[k].status
    <3>1. KeepsDebit(m, status) \in BOOLEAN
      BY DEF KeepsDebit
    <3>2. status \in MandateStatus
      BY <1>2 DEF Call
    <3> QED BY <3>1, <3>2
  <2>3. creating[m] \in {"waiting", "done"} /\ creating' = [creating EXCEPT ![m] = creating[m]]
    BY <1>2 DEF MandateInv, MandateTypeOK, CallInv, RowInv, Known, Expirable, Terminal
  <2>4. profile' \in BOOLEAN
    BY <1>2, <2>1 DEF Call
  <2>5. row.status \in openStatuses => ~OtherOpen(m)
    BY <1>4, <2>2
  <2> HIDE DEF row
  <2> QED
    BY <1>2, <2>1, <2>2, <2>3, <2>4, <2>5, RowStep DEF CallInv
<1> QED BY <1>1, <1>3, <1>4

LEMMA WriteToggleKeeps ==
    ASSUME MandateInv, NEW k \in Calls, WriteToggle(k)
    PROVE  MandateInv'
<1>1. PICK m \in call[k].of : mandate' = [mandate EXCEPT ![m].autoDebit = call[k].active]
  BY DEF WriteToggle
<1>2. /\ m \in Mandates /\ call[k] \in Call /\ CallInv(k, m) /\ RowInv(m)
      /\ creating[m] \in {"waiting", "done"}
  BY <1>1 DEF MandateInv, MandateTypeOK, Call, CallsInv, CallInv, RowsInv, RowInv,
              Known, Expirable, Terminal
<1> DEFINE row == [status |-> mandate[m].status, autoDebit |-> call[k].active]
<1>3. mandate' = [mandate EXCEPT ![m] = row]
  <2>1. mandate' = [mandate EXCEPT ![m] = [mandate[m] EXCEPT !.autoDebit = call[k].active]]
    BY <1>1
  <2>2. [mandate[m] EXCEPT !.autoDebit = call[k].active] = row
    BY <1>2 DEF MandateInv, MandateTypeOK
  <2> QED BY <2>1, <2>2
<1>4. mandate[m].status \in MandateStatus
  BY <1>2, Rows DEF MandateInv, RowInv
<1>5. row \in [status : MandateStatus, autoDebit : BOOLEAN] /\ row.status = mandate[m].status
  BY <1>2, <1>4 DEF Call
<1>6. /\ profile' \in BOOLEAN /\ UNCHANGED bankVars /\ SetCall(k, Idle)
      /\ creating' = [creating EXCEPT ![m] = creating[m]]
  BY <1>2 DEF WriteToggle, MandateInv, MandateTypeOK, Call
<1>7. row.status \in openStatuses => ~OtherOpen(m)
  BY <1>2, <1>5 DEF MandateInv, OneOpen, OtherOpen, Open
<1> HIDE DEF row
<1> QED
  BY <1>2, <1>3, <1>5, <1>6, <1>7, RowStep DEF RowInv

LEMMA ExpireKeeps ==
    ASSUME MandateInv, NEW m \in Mandates, ExpireMandate(m)
    PROVE  MandateInv'
<1> DEFINE row == [status |-> "EXPIRED", autoDebit |-> FALSE]
<1>1. row \in [status : MandateStatus, autoDebit : BOOLEAN] /\ row.status = "EXPIRED"
  BY DEF MandateStatus, Terminal
<1>2. creating[m] \in {"waiting", "done"} /\ creating' = [creating EXCEPT ![m] = creating[m]]
  BY DEF ExpireMandate, MandateInv, MandateTypeOK, RowsInv, RowInv, Expirable
<1>3. mandate' = [mandate EXCEPT ![m] = row]
  BY DEF ExpireMandate
<1> HIDE DEF row
<1> QED
  BY <1>1, <1>2, <1>3, RowStep
     DEF ExpireMandate, ClosedAtBank, openStatuses, Expirable

-----------------------------------------------------------------------------
(* The bank *)

LEMMA BankKeeps ==
    ASSUME MandateInv, NEW m \in Mandates,
           \/ AcceptCreate(m) \/ LoseRequest(m) \/ Authorize(m)
           \/ ManageAtBank(m) \/ RunOut(m) \/ ExpireRemote(m)
    PROVE  MandateInv'
<1>1. RowInv(m) /\ remote \in [Mandates -> Remote]
  BY DEF MandateInv, MandateTypeOK, RowsInv
<1>2. CASE RunOut(m)
  BY <1>1, <1>2, BankStep DEF RunOut, MandateInv, MandateTypeOK, RowsInv, RowInv
<1>3. ASSUME NEW from \in SUBSET (Expirable \cup {"REQUESTED"}), NEW to \in SUBSET Remote,
             Becomes(m, from, to),
             from = {"REQUESTED"} \/ (from \subseteq Expirable /\ to \subseteq Known),
             to \cap {"ACTIVE", "PAUSED"} # {} => from \subseteq {"ACTIVE", "PAUSED"}
      PROVE  MandateInv'
  <2>1. PICK state \in to : remote' = [remote EXCEPT ![m] = state]
    BY <1>3 DEF Becomes
  <2>2. /\ remote' \in [Mandates -> Remote] /\ remote'[m] = state
        /\ \A n \in Mandates \ {m} : remote'[n] = remote[n]
    BY <1>1, <1>3, <2>1
  <2>3. remote[m] \in from /\ UNCHANGED <<rowVars, creating, granted, past, call>>
    BY <1>3 DEF Becomes
  <2>4. remote[m] \notin Terminal \cup {"ABSENT", "REFUSED"}
    BY <1>3, <2>3 DEF Expirable, Terminal
  <2>5. remote[m] \in Known => state \in Known
    BY <1>3, <2>3 DEF Known, Expirable, Terminal
  <2>6. state \in {"ACTIVE", "PAUSED"} => m \in granted
    BY <1>1, <1>3, <2>3 DEF RowInv
  <2> QED
    BY <2>2, <2>3, <2>4, <2>5, <2>6, BankStep DEF MandateInv, MandateTypeOK, RowsInv, RowInv
<1>4. CASE AcceptCreate(m) \/ LoseRequest(m)
  BY <1>3, <1>4 DEF AcceptCreate, LoseRequest, Remote, Expirable
<1>5. CASE Authorize(m)
  <2>1. CASE Becomes(m, {"CREATED"}, {"FAILED"})
    BY <1>3, <2>1 DEF Remote, Known, Expirable, Terminal
  <2>2. CASE /\ remote[m] = "CREATED"
             /\ remote' = [remote EXCEPT ![m] = "ACTIVE"]
             /\ granted' = granted \cup {m}
             /\ UNCHANGED <<rowVars, creating, past, call>>
    <3>1. /\ remote' \in [Mandates -> Remote] /\ remote'[m] = "ACTIVE"
          /\ \A n \in Mandates \ {m} : remote'[n] = remote[n]
      BY <1>1, <2>2 DEF Remote, Expirable
    <3>2. "ACTIVE" \in Known /\ remote[m] \notin Terminal \cup {"ABSENT", "REFUSED"}
      BY <2>2 DEF Known, Expirable, Terminal
    <3> QED
      BY <2>2, <3>1, <3>2, BankStep DEF MandateInv, MandateTypeOK, RowsInv, RowInv
  <2> QED BY <1>5, <2>1, <2>2 DEF Authorize
<1>6. CASE ManageAtBank(m)
  BY <1>3, <1>6 DEF ManageAtBank, Remote, Known, Expirable, Terminal
<1>7. CASE ExpireRemote(m)
  BY <1>3, <1>7 DEF ExpireRemote, Remote, Known, Expirable, Terminal
<1> QED BY <1>2, <1>4, <1>5, <1>6, <1>7

-----------------------------------------------------------------------------
LEMMA MandateInitially == MandateInit => MandateInv
<1> SUFFICES ASSUME MandateInit PROVE MandateInv
  OBVIOUS
<1>1. MandateTypeOK
  BY DEF MandateInit, MandateTypeOK, Remote, Idle, Call, Step, MandateStatus, openStatuses
<1>2. RowsInv
  BY DEF MandateInit, RowsInv, RowInv, Expirable, Terminal
<1>3. CallsInv
  BY DEF MandateInit, CallsInv, Idle
<1>4. OneOpen
  BY DEF MandateInit, OneOpen, Open, openStatuses, Expirable
<1> QED BY <1>1, <1>2, <1>3, <1>4 DEF MandateInv

LEMMA MandateStep == MandateInv /\ [MandateNext]_mandateVars => MandateInv'
<1> SUFFICES ASSUME MandateInv, [MandateNext]_mandateVars PROVE MandateInv'
  OBVIOUS
<1>1. ASSUME NEW m \in Mandates,
             \/ CreateMandate(m) \/ SendCreate(m) \/ RecordCreateRejected(m)
             \/ RecordCreateUncertain(m) \/ LoseCreate(m) \/ ExpireMandate(m)
             \/ AcceptCreate(m) \/ LoseRequest(m) \/ Authorize(m) \/ ManageAtBank(m)
             \/ RunOut(m) \/ ExpireRemote(m)
      PROVE  MandateInv'
  BY <1>1, CreateKeeps, SendCreateKeeps, CreateRejectedKeeps, CreateUncertainKeeps, LoseCreateKeeps,
     ExpireKeeps, BankKeeps
<1>2. ASSUME NEW m \in Mandates, NEW k \in Calls,
             \/ ReceiveCreate(m, k) \/ Fetch(m, k)
             \/ Cancel(m, k) \/ Pause(m, k) \/ Resume(m, k)
             \/ \E enabled \in BOOLEAN : ReadToggle(m, k, enabled)
      PROVE  MandateInv'
  BY <1>2, ReceiveKeeps, FetchKeeps, ManageKeeps, ReadToggleKeeps
<1>3. ASSUME NEW k \in Calls,
             \/ ReadRow(k) \/ LockRow(k) \/ CommitRow(k) \/ WriteToggle(k)
             \/ FailApply(k) \/ LoseCall(k)
      PROVE  MandateInv'
  BY <1>3, ReadRowKeeps, LockRowKeeps, CommitRowKeeps, WriteToggleKeeps, FailApplyKeeps,
     LoseCallKeeps
<1>4. CASE UNCHANGED mandateVars
  BY <1>4 DEF mandateVars, rowVars, bankVars, MandateInv, MandateTypeOK, RowsInv, RowInv,
              CallsInv, CallInv, ClosedAtBank, OneOpen, Open
<1> QED BY <1>1, <1>2, <1>3, <1>4 DEF MandateNext

LEMMA MandateInvariant == MandateSpec => []MandateInv
  BY MandateInitially, MandateStep, PTL DEF MandateSpec

\* Mandates, their calls and the provider keep their types.
THEOREM MandateTypes == MandateSpec => []MandateTypeOK
<1>1. MandateInv => MandateTypeOK
  BY DEF MandateInv
<1> QED BY <1>1, MandateInvariant, PTL

\* A rider never has two mandates in force, however many requests, answers and
\* transactions overlap (mandate.service.ts lines 288-477).
THEOREM OneInForce == MandateSpec => []OneMandateInForce
<1>1. ASSUME MandateInv, NEW m \in Mandates \ past, MayCharge(m)
      PROVE  Open(m)
  <2>1. RowInv(m) /\ mandate[m].status \in MandateStatus \cup {"NONE"}
    BY <1>1, Rows DEF MandateInv, RowsInv
  <2>2. mandate[m].status # "NONE"
    BY <1>1, <2>1 DEF RowInv, MayCharge, Expirable
  <2>3. mandate[m].status \notin Terminal
    BY <1>1, <2>1 DEF RowInv, MayCharge, ClosedAtBank, Expirable, Terminal
  <2> QED BY <2>1, <2>2, <2>3 DEF Open, MandateStatus
<1>2. MandateInv => OneMandateInForce
  BY <1>1 DEF OneMandateInForce, MandateInv, OneOpen
<1> QED BY <1>2, MandateInvariant, PTL

\* A row is ACTIVE or PAUSED only after the rider's approval at the bank
\* (mandate.service.ts lines 343-351 and 384-411).
THEOREM ActivesAreGranted == MandateSpec => []ActiveIsGranted
<1>1. MandateInv => ActiveIsGranted
  BY DEF MandateInv, RowsInv, RowInv, ActiveIsGranted
<1> QED BY <1>1, MandateInvariant, PTL
-----------------------------------------------------------------------------
(* Mandates that are over *)

\* The provider has ended m, its row is not chargeable, its creation is decided
\* and no call has an answer in hand that would make the row chargeable.
Settled(m) ==
    /\ remote[m] \in Terminal
    /\ creating[m] = "done"
    /\ mandate[m].status \notin Expirable
    /\ \A k \in Calls : m \in call[k].of => call[k].status \notin Expirable

SettledForGood == \A m \in Mandates : [](Settled(m) => []Settled(m))

\* Nothing the bank or the clock does touches a mandate that has ended.
LEMMA BankKeepsSettled ==
    ASSUME MandateInv, NEW m \in Mandates, Settled(m), NEW n \in Mandates,
           \/ AcceptCreate(n) \/ LoseRequest(n) \/ Authorize(n) \/ ManageAtBank(n)
           \/ RunOut(n) \/ ExpireRemote(n)
    PROVE  Settled(m)'
<1>1. UNCHANGED <<mandate, creating, call>>
  BY DEF AcceptCreate, LoseRequest, Authorize, ManageAtBank, RunOut, ExpireRemote,
         Becomes, rowVars
<1>2. remote'[m] = remote[m]
  <2>1. remote[m] \in Terminal /\ remote \in [Mandates -> Remote]
    BY DEF Settled, MandateInv, MandateTypeOK
  <2>2. CASE AcceptCreate(n) \/ LoseRequest(n)
    BY <2>1, <2>2 DEF AcceptCreate, LoseRequest, Becomes, Terminal
  <2>3. CASE Authorize(n)
    BY <2>1, <2>3 DEF Authorize, Becomes, Terminal
  <2>4. CASE ManageAtBank(n)
    BY <2>1, <2>4 DEF ManageAtBank, Becomes, Terminal
  <2>5. CASE ExpireRemote(n)
    BY <2>1, <2>5 DEF ExpireRemote, Becomes, Terminal, Expirable
  <2>6. CASE RunOut(n)
    BY <2>6 DEF RunOut
  <2> QED BY <2>2, <2>3, <2>4, <2>5, <2>6
<1> QED BY <1>1, <1>2 DEF Settled

\* The requests that create another mandate, and the job, leave it settled.
LEMMA RequestKeepsSettled ==
    ASSUME MandateInv, NEW m \in Mandates, Settled(m), NEW n \in Mandates,
           \/ CreateMandate(n) \/ SendCreate(n) \/ RecordCreateRejected(n)
           \/ RecordCreateUncertain(n) \/ LoseCreate(n) \/ ExpireMandate(n)
    PROVE  Settled(m)'
<1>1. /\ creating[m] = "done" /\ mandate[m].status \notin Expirable
      /\ creating \in [Mandates -> {"none", "send", "waiting", "done"}]
      /\ mandate \in [Mandates -> [status : MandateStatus \cup {"NONE"}, autoDebit : BOOLEAN]]
  BY DEF Settled, MandateInv, MandateTypeOK
<1>2. mandate[m].status # "NONE"
  BY <1>1 DEF MandateInv, RowsInv, RowInv
<1>3. CASE CreateMandate(n) \/ SendCreate(n)
  <2>1. n # m
    BY <1>1, <1>2, <1>3 DEF CreateMandate, SendCreate
  <2>2. /\ mandate'[m] = mandate[m] /\ creating'[m] = creating[m]
        /\ remote'[m] = remote[m] /\ UNCHANGED call
    BY <1>1, <1>3, <2>1
       DEF CreateMandate, SendCreate, SetStatus, rowVars, bankVars, MandateInv, MandateTypeOK
  <2> QED BY <2>2 DEF Settled
<1>4. CASE RecordCreateRejected(n) \/ RecordCreateUncertain(n)
  <2>1. n # m
    BY <1>1, <1>4 DEF RecordCreateRejected, RecordCreateUncertain
  <2>2. /\ mandate'[m] = mandate[m] /\ creating'[m] = creating[m]
        /\ UNCHANGED <<remote, call>>
    BY <1>1, <1>4, <2>1
       DEF RecordCreateRejected, RecordCreateUncertain, SetUnknown, SetStatus, bankVars
  <2> QED BY <2>2 DEF Settled
<1>5. CASE LoseCreate(n)
  <2>1. UNCHANGED <<mandate, remote, call>> /\ creating'[m] = "done"
    BY <1>1, <1>5 DEF LoseCreate, rowVars, bankVars
  <2> QED BY <2>1 DEF Settled
<1>6. CASE ExpireMandate(n)
  <2>1. UNCHANGED <<creating, remote, call>> /\ n # m
    BY <1>1, <1>6 DEF ExpireMandate, bankVars
  <2>2. mandate'[m] = mandate[m]
    BY <1>1, <1>6, <2>1 DEF ExpireMandate
  <2> QED BY <2>1, <2>2 DEF Settled
<1> QED BY <1>3, <1>4, <1>5, <1>6

\* A new call on a mandate that has ended can only learn that it has.
LEMMA FetchKeepsSettled ==
    ASSUME MandateInv, NEW m \in Mandates, Settled(m), NEW n \in Mandates,
           NEW k \in Calls,
           \/ ReceiveCreate(n, k) \/ Fetch(n, k)
           \/ Cancel(n, k) \/ Pause(n, k) \/ Resume(n, k)
           \/ \E enabled \in BOOLEAN : ReadToggle(n, k, enabled)
    PROVE  Settled(m)'
<1>1. /\ remote[m] \in Terminal /\ creating[m] = "done"
      /\ mandate[m].status \notin Expirable
      /\ creating \in [Mandates -> {"none", "send", "waiting", "done"}]
      /\ remote \in [Mandates -> Remote] /\ call \in [Calls -> Call]
  BY DEF Settled, MandateInv, MandateTypeOK
<1>2. \A j \in Calls : m \in call[j].of => call[j].status \notin Expirable
  BY DEF Settled
<1>3. ASSUME UNCHANGED mandate, creating'[m] = "done", remote'[m] = remote[m],
             NEW c, c.of = {n}, n = m => c.status \notin Expirable, SetCall(k, c)
      PROVE  Settled(m)'
  <2>1. ASSUME NEW j \in Calls, m \in call'[j].of
        PROVE  call'[j].status \notin Expirable
    <3>1. CASE j = k
      BY <1>1, <1>3, <2>1, <3>1 DEF SetCall
    <3>2. CASE j # k
      BY <1>1, <1>2, <1>3, <2>1, <3>2 DEF SetCall
    <3> QED BY <3>1, <3>2
  <2> QED BY <1>1, <1>3, <2>1 DEF Settled
<1>4. CASE ReceiveCreate(n, k)
  <2>1. n # m
    BY <1>1, <1>4 DEF ReceiveCreate
  <2>2. PICK answer : Fetched(k, n, answer, TRUE)
    BY <1>4 DEF ReceiveCreate
  <2>3. UNCHANGED <<mandate, remote>> /\ creating'[m] = "done"
    BY <1>1, <1>4, <2>1 DEF ReceiveCreate, rowVars, bankVars
  <2> QED BY <1>3, <2>1, <2>2, <2>3 DEF Fetched
<1>5. CASE Fetch(n, k)
  <2>1. PICK answer \in Replies(n) : Fetched(k, n, answer, FALSE)
    BY <1>5 DEF Fetch
  <2>2. n = m => answer \notin Expirable
    BY <1>1, <2>1 DEF Replies, Expirable, Terminal
  <2>3. UNCHANGED <<mandate, creating, remote>>
    BY <1>5 DEF Fetch, rowVars, bankVars
  <2> QED BY <1>1, <1>3, <2>1, <2>2, <2>3 DEF Fetched
<1>6. CASE Cancel(n, k) \/ Pause(n, k) \/ Resume(n, k)
  <2>1. PICK from \in {Expirable, {"ACTIVE"}, {"PAUSED"}},
             to \in {"CANCELLED", "PAUSED", "ACTIVE"} : Tell(n, k, from, to)
    BY <1>6 DEF Cancel, Pause, Resume
  <2>2. n # m
    BY <1>1, <2>1 DEF Tell, Expirable, Terminal
  <2>3. UNCHANGED <<mandate, creating>> /\ remote'[m] = remote[m]
    BY <1>1, <2>1, <2>2 DEF Tell, rowVars
  <2> QED BY <1>1, <1>3, <2>1, <2>2, <2>3 DEF Tell, Fetched
<1>7. CASE \E enabled \in BOOLEAN : ReadToggle(n, k, enabled)
  <2>1. PICK enabled \in BOOLEAN : ReadToggle(n, k, enabled)
    BY <1>7
  <2>2. "UNKNOWN" \notin Expirable
    BY DEF Expirable
  <2>3. UNCHANGED <<mandate, creating, remote>>
    BY <2>1 DEF ReadToggle, rowVars, bankVars
  <2> QED BY <1>1, <1>3, <2>1, <2>2, <2>3 DEF ReadToggle
<1> QED BY <1>4, <1>5, <1>6, <1>7

\* A call that is under way writes nothing chargeable to it.
LEMMA CallKeepsSettled ==
    ASSUME MandateInv, NEW m \in Mandates, Settled(m), NEW k \in Calls,
           \/ ReadRow(k) \/ LockRow(k) \/ CommitRow(k) \/ WriteToggle(k)
           \/ FailApply(k) \/ LoseCall(k)
    PROVE  Settled(m)'
<1>1. /\ remote[m] \in Terminal /\ creating[m] = "done"
      /\ mandate[m].status \notin Expirable
      /\ mandate \in [Mandates -> [status : MandateStatus \cup {"NONE"}, autoDebit : BOOLEAN]]
      /\ call \in [Calls -> Call]
      /\ \A j \in Calls : m \in call[j].of => call[j].status \notin Expirable
  BY DEF Settled, MandateInv, MandateTypeOK
<1>2. UNCHANGED <<creating, remote>>
  BY DEF ReadRow, LockRow, CommitRow, WriteToggle, FailApply, LoseCall, bankVars
<1>3. ASSUME NEW c, SetCall(k, c), c.of \subseteq call[k].of,
             m \in c.of => c.status \notin Expirable
      PROVE  \A j \in Calls : m \in call'[j].of => call'[j].status \notin Expirable
  BY <1>1, <1>3 DEF SetCall
<1>4. Idle.of = {} /\ (SetCall(k, Idle) =>
         \A j \in Calls : m \in call'[j].of => call'[j].status \notin Expirable)
  <2>1. Idle.of = {}
    BY DEF Idle
  <2> QED BY <1>3, <2>1
<1>5. CASE ReadRow(k)
  <2>1. PICK n \in call[k].of :
           SetCall(k, [call[k] EXCEPT !.step = "read",
                          !.status = Accepted(mandate[n].status, call[k].status)])
    BY <1>5 DEF ReadRow
  <2>2. call[k] \in Call /\ call[k].of = {n}
    BY <1>1, <2>1 DEF MandateInv, CallsInv, CallInv
  <2> DEFINE c == [call[k] EXCEPT !.step = "read",
                       !.status = Accepted(mandate[n].status, call[k].status)]
  <2>3. c.of = call[k].of /\ c.status = Accepted(mandate[n].status, call[k].status)
    BY <2>2 DEF Call
  <2>4. m \in c.of => c.status \notin Expirable
    BY <1>1, <2>2, <2>3 DEF Accepted
  <2> HIDE DEF c
  <2>5. SetCall(k, c)
    BY <2>1 DEF c
  <2>6. UNCHANGED mandate
    BY <1>5 DEF ReadRow, rowVars
  <2> QED BY <1>1, <1>2, <1>3, <2>3, <2>4, <2>5, <2>6 DEF Settled
<1>6. CASE LockRow(k)
  <2>1. PICK active \in BOOLEAN :
           SetCall(k, [call[k] EXCEPT !.step = "locked", !.active = active])
    BY <1>6 DEF LockRow
  <2>2. call[k] \in Call
    BY <1>1
  <2> DEFINE c == [call[k] EXCEPT !.step = "locked", !.active = active]
  <2>3. c.of = call[k].of /\ c.status = call[k].status
    BY <2>2 DEF Call
  <2> HIDE DEF c
  <2>4. SetCall(k, c)
    BY <2>1 DEF c
  <2>5. UNCHANGED mandate
    BY <1>6 DEF LockRow, rowVars
  <2> QED BY <1>1, <1>2, <1>3, <2>3, <2>4, <2>5 DEF Settled
<1>7. CASE CommitRow(k)
  <2>1. PICK n \in call[k].of :
           IF call[k].status \in openStatuses /\ OtherOpen(n)
           THEN UNCHANGED rowVars
           ELSE mandate' = [mandate EXCEPT ![n] =
                   [status |-> call[k].status, autoDebit |-> KeepsDebit(n, call[k].status)]]
    BY <1>7 DEF CommitRow
  <2>2. mandate'[m].status \notin Expirable
    <3>1. CASE n = m
      BY <1>1, <2>1, <3>1 DEF rowVars
    <3>2. CASE n # m
      BY <1>1, <2>1, <3>2 DEF rowVars
    <3> QED BY <3>1, <3>2
  <2>3. SetCall(k, Idle)
    BY <1>7 DEF CommitRow
  <2> QED BY <1>1, <1>2, <1>4, <2>2, <2>3 DEF Settled
<1>8. CASE WriteToggle(k)
  <2>1. PICK n \in call[k].of : mandate' = [mandate EXCEPT ![n].autoDebit = call[k].active]
    BY <1>8 DEF WriteToggle
  <2>2. mandate'[m].status = mandate[m].status
    BY <1>1, <2>1
  <2>3. SetCall(k, Idle)
    BY <1>8 DEF WriteToggle
  <2> QED BY <1>1, <1>2, <1>4, <2>2, <2>3 DEF Settled
<1>9. CASE FailApply(k)
  <2>1. PICK n \in call[k].of : SetUnknown(n)
    BY <1>9 DEF FailApply
  <2>2. mandate'[m].status \notin Expirable
    <3>1. CASE UNCHANGED mandate
      BY <1>1, <3>1
    <3>2. CASE SetStatus(n, "UNKNOWN")
      BY <1>1, <3>2 DEF SetStatus, Expirable
    <3> QED BY <2>1, <3>1, <3>2 DEF SetUnknown
  <2>3. SetCall(k, Idle)
    BY <1>9 DEF FailApply
  <2> QED BY <1>1, <1>2, <1>4, <2>2, <2>3 DEF Settled
<1>10. CASE LoseCall(k)
  <2>1. SetCall(k, Idle) /\ UNCHANGED mandate
    BY <1>10 DEF LoseCall, rowVars
  <2> QED BY <1>1, <1>2, <1>4, <2>1 DEF Settled
<1> QED BY <1>5, <1>6, <1>7, <1>8, <1>9, <1>10

\* Whatever stale answers were on their way: once the provider has ended a
\* mandate, its row is closed and none of them is left, no webhook, retry, toggle
\* or job ever makes the row chargeable again (applyProviderResult, lines
\* 384-477).  That it comes to this is what ExpiredMandateEnds adds.
THEOREM EndedMandatesStay == MandateSpec => SettledForGood
<1> SUFFICES ASSUME NEW m \in Mandates
             PROVE  MandateSpec => [](Settled(m) => []Settled(m))
  BY DEF SettledForGood
<1>1. ASSUME MandateInv, Settled(m), [MandateNext]_mandateVars
      PROVE  Settled(m)'
  <2>1. CASE UNCHANGED mandateVars
    BY <1>1, <2>1 DEF mandateVars, rowVars, bankVars, Settled
  <2>2. CASE MandateNext
    BY <1>1, <2>2, BankKeepsSettled, RequestKeepsSettled, FetchKeepsSettled,
       CallKeepsSettled DEF MandateNext
  <2> QED BY <1>1, <2>1, <2>2
<1> QED BY <1>1, MandateInvariant, PTL DEF MandateSpec
=============================================================================

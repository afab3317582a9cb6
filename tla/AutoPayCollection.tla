-------------------------- MODULE AutoPayCollection --------------------------
(***************************************************************************)
(* AutoPay: an invoice is charged to the rider's mandate.  The service     *)
(* reserves a transaction row, reads the invoice again, asks the provider  *)
(* for the charge and writes what came of it; rider, back office, webhook  *)
(* and the hourly job verify rows by fetching the charge and applying the  *)
(* answer in a later transaction.  Every await is a step boundary here:    *)
(*                                                                         *)
(*   caller[d]   where the one call of collect() that created d stands;    *)
(*   charge[d]   the charge at the provider;                               *)
(*   fetched[d]  answers read from the provider and not applied yet;       *)
(*   dunning[i]  the AutoPayDunningCase of the invoice;                    *)
(*   noted[i]    what a job has read of the invoice and not acted on yet.  *)
(***************************************************************************)
EXTENDS PaymentCollections

CONSTANTS
    MandateLimit,      \* maxAmount of the rider's active mandate
    MaximumAttempts    \* PaymentCollectionPolicy.maximumAttempts

ASSUME AutoPayAssumption ==
    MandateLimit \in Nat /\ MaximumAttempts \in Nat

VARIABLES caller, charge, fetched, dunning, noted

autoPayVars == <<debit, caller, charge, fetched, dunning, noted>>

Caller == {"none", "recheck", "send", "waiting", "done"}

\* What the provider knows of a charge.  REQUESTED: the request is on its way.
\* REFUSED: it was answered INVALID_REQUEST and nothing exists.
Outcome == {"SUCCESS", "FAILED", "FAILED_RETRYABLE", "CANCELLED"}
Answer == Outcome \cup {"PENDING"}
Charge == Answer \cup {"ABSENT", "REQUESTED", "REFUSED"}

\* The status a row takes from an answer.
StatusOf(answer) == IF answer = "FAILED_RETRYABLE" THEN "FAILED" ELSE answer

DunningStatus == {"NONE", "RETRY_SCHEDULED", "RIDER_ACTION_REQUIRED", "RESOLVED"}
DunningOpen(i) == dunning[i] \in {"RETRY_SCHEDULED", "RIDER_ACTION_REQUIRED"}

DebitInit ==
    /\ caller = [d \in Debits |-> "none"]
    /\ charge = [d \in Debits |-> "ABSENT"]
    /\ fetched = [d \in Debits |-> {}]
    /\ dunning = [i \in Invoices |-> "NONE"]
    /\ noted = [i \in Invoices |-> {}]

SetDebit(d, status, retryable) ==
    debit' = [debit EXCEPT ![d].status = status, ![d].retryable = retryable]

-----------------------------------------------------------------------------
(* collect() *)

\* Faulty: an uncertain debit does not keep the next one off.
DebitAllowedPastUnknown(i) ==
    /\ DebitsOf(i, {"CREATING", "PENDING", "SUCCESS"}) = {}
    /\ Payable(i)
    /\ invoice[i].outstanding <= MandateLimit

\* What the reservation of collect asks of the invoice and of the other rows.
DebitAllowed(i) ==
    /\ DebitsOf(i, ActiveStatus \cup {"SUCCESS"}) = {}
    /\ ~CheckoutInProgress(i)
    /\ Payable(i)
    /\ invoice[i].outstanding <= MandateLimit

\* The reservation transaction of collect.
ReserveDebit(d, i) ==
    /\ debit[d] = NoDebit
    /\ \A e \in Debits : e < d => debit[e] # NoDebit
    /\ DebitAllowed(i)
    /\ debit' = [debit EXCEPT ![d] =
          [status |-> "CREATING", for |-> {i},
           amount |-> invoice[i].outstanding, retryable |-> FALSE]]
    /\ caller' = [caller EXCEPT ![d] = "recheck"]
    /\ UNCHANGED <<ledgerVars, checkout, charge, fetched, dunning, noted, crashes>>

\* processDue calls collect for an invoice without a live or successful debit
\* while the retry policy has attempts left and the last failure is retryable.
RetryPolicyAllows(i) ==
    LET attempts == {d \in Debits : i \in debit[d].for} IN
    attempts # {} =>
        /\ Cardinality(attempts) < MaximumAttempts
        /\ \E last \in attempts : /\ \A d \in attempts : d <= last
                                  /\ debit[last].retryable

CollectDue(d, i) == RetryPolicyAllows(i) /\ ReserveDebit(d, i)

\* processDue reads an invoice that is due.
NoteDue(i) ==
    /\ Payable(i)
    /\ DebitsOf(i, ActiveStatus \cup {"SUCCESS"}) = {}
    /\ RetryPolicyAllows(i)
    /\ noted' = [noted EXCEPT ![i] = @ \cup {"due"}]
    /\ UNCHANGED <<ledgerVars, debit, checkout, caller, charge, fetched, dunning, crashes>>

\* ... and, without an active mandate or above a limit, calls actionRequired.
ActionRequired(i) ==
    /\ "due" \in noted[i]
    /\ noted' = [noted EXCEPT ![i] = @ \ {"due"}]
    /\ dunning' = [dunning EXCEPT ![i] = "RIDER_ACTION_REQUIRED"]
    /\ UNCHANGED <<ledgerVars, debit, checkout, caller, charge, fetched, crashes>>

\* Back outside the transaction the invoice is read again: a debit whose
\* invoice changed meanwhile is cancelled before the provider hears of it.
RecheckInvoice(d) ==
    /\ caller[d] = "recheck"
    /\ \E i \in debit[d].for :
         IF invoice[i].status \in OpenStatus /\ invoice[i].outstanding = debit[d].amount
         THEN caller' = [caller EXCEPT ![d] = "send"] /\ UNCHANGED debit
         ELSE /\ caller' = [caller EXCEPT ![d] = "done"]
              /\ SetDebit(d, "CANCELLED", debit[d].retryable)
    /\ UNCHANGED <<ledgerVars, checkout, charge, fetched, dunning, noted, crashes>>

\* createPayment is called: the request leaves the process.
SendDebit(d) ==
    /\ caller[d] = "send"
    /\ caller' = [caller EXCEPT ![d] = "waiting"]
    /\ charge' = [charge EXCEPT ![d] = "REQUESTED"]
    /\ UNCHANGED <<ledgerVars, debit, checkout, fetched, dunning, noted, crashes>>

\* createPayment returns the charge.  The answer is applied in a transaction of
\* its own; a reported success is fetched once more before that.
ReceiveReply(d) ==
    /\ caller[d] = "waiting"
    /\ charge[d] \in Answer
    /\ caller' = [caller EXCEPT ![d] = "done"]
    /\ fetched' = [fetched EXCEPT ![d] = @ \cup {charge[d]}]
    /\ UNCHANGED <<ledgerVars, debit, checkout, charge, dunning, noted, crashes>>

\* createPayment is answered INVALID_REQUEST: the row fails for good.
RecordRejected(d) ==
    /\ caller[d] = "waiting"
    /\ charge[d] = "REFUSED"
    /\ caller' = [caller EXCEPT ![d] = "done"]
    /\ SetDebit(d, "FAILED", FALSE)
    /\ UNCHANGED <<ledgerVars, checkout, charge, fetched, dunning, noted, crashes>>

\* Faulty: a timeout counts as a failure.
RecordUncertainAsFailed(d) ==
    /\ caller[d] = "waiting"
    /\ caller' = [caller EXCEPT ![d] = "done"]
    /\ SetDebit(d, "FAILED", FALSE)
    /\ UNCHANGED <<ledgerVars, checkout, charge, fetched, dunning, noted, crashes>>

\* createPayment times out or fails otherwise, whatever the provider did: the
\* row becomes UNKNOWN, over anything a verification wrote meanwhile, unless the
\* unique index refuses.
RecordUncertain(d) ==
    /\ caller[d] = "waiting"
    /\ caller' = [caller EXCEPT ![d] = "done"]
    /\ IF DebitIndexAllows(d, "UNKNOWN") THEN SetDebit(d, "UNKNOWN", FALSE)
                                         ELSE UNCHANGED debit
    /\ UNCHANGED <<ledgerVars, checkout, charge, fetched, dunning, noted, crashes>>

-----------------------------------------------------------------------------
(* verify() and applyResult() *)

\* Faulty: a notification of success is believed without fetching the charge.
FetchDebitTrusting(d) ==
    /\ debit[d].status \notin {"NONE", "SUCCESS"}
    /\ charge[d] \in Answer
    /\ fetched' = [fetched EXCEPT ![d] = @ \cup {"SUCCESS"}]
    /\ UNCHANGED <<ledgerVars, debit, checkout, caller, charge, dunning, noted, crashes>>

\* verify reads the row and fetches the charge; a provider that knows no such
\* charge answers with an error and nothing changes.
FetchDebit(d) ==
    /\ debit[d].status \notin {"NONE", "SUCCESS"}
    /\ charge[d] \in Answer
    /\ fetched' = [fetched EXCEPT ![d] = @ \cup {charge[d]}]
    /\ UNCHANGED <<ledgerVars, debit, checkout, caller, charge, dunning, noted, crashes>>

\* Faulty: uncertain debits are not looked at.
ReconcilePendingDebit(d) == debit[d].status = "PENDING" /\ FetchDebit(d)

\* What reconcileOpen verifies on its own: UNKNOWN and PENDING, not CREATING.
ReconcileDebit(d) == debit[d].status \in {"UNKNOWN", "PENDING"} /\ FetchDebit(d)

\* Dunning status after the failure of d on invoice i.
AfterFailure(d, i, answer) ==
    LET failed == DebitsOf(i, {"FAILED"}) \cup {d} IN
    IF answer = "FAILED_RETRYABLE" /\ Cardinality(failed) < MaximumAttempts
    THEN "RETRY_SCHEDULED" ELSE "RIDER_ACTION_REQUIRED"

\* Faulty: the debit of a voided invoice succeeds without a receipt.
SettleVoidedDebit(d) ==
    \E i \in debit[d].for :
      /\ IF invoice[i].status = "VOID" THEN UNCHANGED ledgerVars
         ELSE ConfirmProviderPayment(d, debit[d].amount, {i})
      /\ SetDebit(d, "SUCCESS", debit[d].retryable)
      /\ UNCHANGED dunning

\* A charge that the provider collected is settled: the invoice is credited
\* unless it was voided, when the transaction throws and nothing is written.
SettleDebit(d) ==
    \E i \in debit[d].for :
      IF invoice[i].status = "VOID" \/ ~DebitIndexAllows(d, "SUCCESS")
      THEN UNCHANGED <<ledgerVars, debit, dunning>>
      ELSE /\ ConfirmProviderPayment(d, debit[d].amount, {i})
           /\ SetDebit(d, "SUCCESS", debit[d].retryable)
           /\ dunning' = [dunning EXCEPT ![i] = IF DunningOpen(i) THEN "RESOLVED" ELSE @]

\* A charge without money: the row takes the status of the answer, even one that
\* is older than what the row says, unless the unique index refuses.
RecordAnswer(d, answer) ==
    \E i \in debit[d].for :
      IF ~DebitIndexAllows(d, StatusOf(answer))
      THEN UNCHANGED <<ledgerVars, debit, dunning>>
      ELSE /\ UNCHANGED ledgerVars
           /\ SetDebit(d, StatusOf(answer),
                 IF StatusOf(answer) = "FAILED" THEN answer = "FAILED_RETRYABLE"
                                                ELSE debit[d].retryable)
           /\ dunning' = IF StatusOf(answer) = "FAILED"
                         THEN [dunning EXCEPT ![i] = AfterFailure(d, i, answer)]
                         ELSE dunning

\* applyResult, for an answer read earlier.
ApplyResult(d, answer) ==
    /\ answer \in fetched[d]
    /\ fetched' = [fetched EXCEPT ![d] = @ \ {answer}]
    /\ CASE debit[d].status = "SUCCESS" -> UNCHANGED <<ledgerVars, debit, dunning>>
         [] debit[d].status # "SUCCESS" /\ answer = "SUCCESS" -> SettleDebit(d)
         [] OTHER -> RecordAnswer(d, answer)
    /\ UNCHANGED <<checkout, caller, charge, noted, crashes>>

\* Faulty: only voided invoices count as settled.
NoteVoided(i) ==
    /\ DunningOpen(i)
    /\ invoice[i].status = "VOID"
    /\ noted' = [noted EXCEPT ![i] = @ \cup {"settled"}]
    /\ UNCHANGED <<ledgerVars, debit, checkout, caller, charge, fetched, dunning, crashes>>

\* reconcileDunning reads an invoice that owes nothing any more while its case
\* is open ...
NoteSettled(i) ==
    /\ DunningOpen(i)
    /\ invoice[i].outstanding <= 0 \/ invoice[i].status = "VOID"
    /\ noted' = [noted EXCEPT ![i] = @ \cup {"settled"}]
    /\ UNCHANGED <<ledgerVars, debit, checkout, caller, charge, fetched, dunning, crashes>>

\* ... and closes the case, whatever happened since.
ReconcileDunning(i) ==
    /\ "settled" \in noted[i]
    /\ noted' = [noted EXCEPT ![i] = @ \ {"settled"}]
    /\ dunning' = [dunning EXCEPT ![i] = "RESOLVED"]
    /\ UNCHANGED <<ledgerVars, debit, checkout, caller, charge, fetched, crashes>>

-----------------------------------------------------------------------------
(* The provider, and crashes *)

ChargeBecomes(d, from, to) ==
    /\ charge[d] \in from
    /\ \E state \in to : charge' = [charge EXCEPT ![d] = state]
    /\ UNCHANGED <<ledgerVars, debit, checkout, caller, fetched, dunning, noted, crashes>>

\* The provider receives the request and schedules or refuses the charge.
AcceptCharge(d) == ChargeBecomes(d, {"REQUESTED"}, {"PENDING", "REFUSED"})

\* The request is lost on its way.
LoseCharge(d) == ChargeBecomes(d, {"REQUESTED"}, {"ABSENT"})

\* The provider runs the scheduled charge.
RunCharge(d) == ChargeBecomes(d, {"PENDING"}, Outcome)

\* A restart: calls in progress and answers not yet applied are gone, rows and
\* charges stay.
ForgetDebitCalls ==
    /\ caller' = [d \in Debits |-> IF debit[d] = NoDebit THEN "none" ELSE "done"]
    /\ fetched' = [d \in Debits |-> {}]
    /\ noted' = [i \in Invoices |-> {}]
    /\ UNCHANGED <<debit, charge, dunning>>

-----------------------------------------------------------------------------
DebitNext ==
    \/ \E d \in Debits :
          \/ \E i \in Invoices : ReserveDebit(d, i) \/ CollectDue(d, i)
          \/ RecheckInvoice(d) \/ SendDebit(d)
          \/ ReceiveReply(d) \/ RecordRejected(d) \/ RecordUncertain(d)
          \/ FetchDebit(d)
          \/ \E answer \in Answer : ApplyResult(d, answer)
          \/ AcceptCharge(d) \/ LoseCharge(d) \/ RunCharge(d)
    \/ \E i \in Invoices : \/ NoteDue(i) \/ ActionRequired(i)
                           \/ NoteSettled(i) \/ ReconcileDunning(i)

DebitCrash == Restart /\ ForgetDebitCalls /\ UNCHANGED <<ledgerVars, checkout>>

\* The ledger's own operations, which know nothing of collections.
DebitOffice == OfficeNext /\ UNCHANGED <<autoPayVars, checkout, crashes>>

autoPayAllVars == <<ledgerVars, checkout, autoPayVars, crashes>>

AutoPayInit == CollectionsInit /\ DebitInit

AutoPaySpec == AutoPayInit /\ [][DebitNext \/ DebitCrash \/ DebitOffice]_autoPayAllVars

\* The hourly job verifies open rows and closes dunning cases; an answer in hand
\* is applied; the provider gets to every request and runs every charge.
AutoPayFairness ==
    /\ \A d \in Debits :
          /\ WF_autoPayAllVars(ReconcileDebit(d))
          /\ \A answer \in Answer : WF_autoPayAllVars(ApplyResult(d, answer))
          /\ WF_autoPayAllVars(AcceptCharge(d) \/ LoseCharge(d))
          /\ WF_autoPayAllVars(RunCharge(d))
    /\ \A i \in Invoices : /\ WF_autoPayAllVars(NoteSettled(i))
                           /\ WF_autoPayAllVars(ReconcileDunning(i))

FairAutoPaySpec == AutoPaySpec /\ AutoPayFairness

-----------------------------------------------------------------------------
(* Properties *)

\* Types of the AutoPay state.
AutoPayTypeOK ==
    /\ debit \in [Debits -> DebitRow]
    /\ caller \in [Debits -> Caller]
    /\ charge \in [Debits -> Charge]
    /\ fetched \in [Debits -> SUBSET Answer]
    /\ dunning \in [Invoices -> DunningStatus]
    /\ noted \in [Invoices -> SUBSET {"due", "settled"}]
    /\ crashes \in 0..MaxCrashes

\* The provider took the money, may take it, or is about to be asked for it.
TakesMoney(d) == charge[d] \in {"REQUESTED", "PENDING", "SUCCESS"}

\* A receipt is only ever written for money the provider has collected, and for
\* exactly the reserved amount (applyResult lines 358-394), whatever order
\* replies, timeouts, webhooks and hourly verifications are applied in.
CreditIsCaptured ==
    \A d \in Debits : Recorded(d) =>
        charge[d] = "SUCCESS" /\ receipt[d].amount = debit[d].amount

\* A row that lets the next collection through is a row whose charge can never
\* take money: not even when it was cancelled, rejected or failed by a call that
\* raced a verification (lines 126-138, 240-263, 279-308).
DeadRowsTakeNoMoney ==
    \A d \in Debits : debit[d].status \in {"FAILED", "CANCELLED"} => ~TakesMoney(d)

\* The provider never holds two charges of one invoice that took or may take
\* money: retries, crashes and stale answers included.
ChargesExclusive ==
    \A d, e \in Debits :
        d # e /\ debit[d].for \cap debit[e].for # {} => ~(TakesMoney(d) /\ TakesMoney(e))

\* A successful row has its receipt, and a row with a receipt never looks as if
\* nothing had been collected: a timeout may hide the success behind UNKNOWN,
\* and a stale answer behind PENDING, but never behind FAILED or CANCELLED.
RowTellsCredit ==
    \A d \in Debits :
        /\ debit[d].status = "SUCCESS" => Recorded(d)
        /\ Recorded(d) => debit[d].status \in {"SUCCESS", "UNKNOWN", "PENDING"}

\* Collected money of a row that the hourly job looks at is credited in the end
\* or its invoice was voided, whatever replies were lost (lines 341-364).
CapturedIsCredited ==
    \A d \in Debits :
        (charge[d] = "SUCCESS" /\ debit[d].status \in {"UNKNOWN", "PENDING"})
            ~> (Recorded(d) \/ \E i \in debit[d].for : invoice[i].status = "VOID")

\* A dunning case does not outlive the debt it is about (lines 316-325), even
\* when a late failure reopens it after the invoice was paid.
DunningCloses ==
    \A i \in Invoices :
        (DunningOpen(i) /\ invoice[i].outstanding = 0)
            ~> (dunning[i] = "RESOLVED" \/ invoice[i].outstanding > 0)

=============================================================================

--------------------------- MODULE FinalSettlement ---------------------------
(***************************************************************************)
(* The final settlement of a terminated agreement (final-settlement/       *)
(* final-settlement.service.ts) on the ledger and the deposits it moves.   *)
(*                                                                         *)
(* Most operations are several transactions, and what they read at the     *)
(* start is used at the end.  call[c] is such an operation in progress:    *)
(* where it stands and what it has read.  A call may stop at any point; a  *)
(* repeated one starts from the top.                                       *)
(*                                                                         *)
(*   stage           RiderFinalSettlement.status;                          *)
(*   application[d]  the SettlementDepositApplication row of deposit d;    *)
(*   payback[q]      the SettlementRefundRequest row of deposit refund q;  *)
(*   excess[x]       the SettlementRefundRequest row x of a receipt that   *)
(*                   is paid back by bank transfer.                        *)
(*                                                                         *)
(* The receipt of a deposit that is applied has the source <<"settlement", *)
(* d>>.  The rider has no credits, and the invoices of the last period,    *)
(* with charges and notes, are issued.  What close counts it counts at     *)
(* once.  A refund request of a deposit has one name for its row and for   *)
(* the key it was asked under.                                             *)
(***************************************************************************)
EXTENDS RiderInvoices, RiderDeposits

CONSTANTS Excesses, Calls

SettlementSources == {"settlement"} \X Deposits

ASSUME SettlementAssumption ==
    /\ SettlementSources \subseteq Sources
    /\ IsFiniteSet(Excesses)

VARIABLES stage, application, payback, excess, call

exitVars == <<stage, application, payback, excess, call>>
exitAllVars == <<ledgerVars, depositVars, exitVars>>

Draft == {"DRAFT", "UNDER_REVIEW", "APPROVAL_PENDING"}
Approved == {"APPROVED", "PAYMENT_PENDING", "REFUND_PENDING"}
Stage == {"NONE", "SETTLED"} \cup Draft \cup Approved

NoExcess == [status |-> "NONE", of |-> {}, amount |-> 0]
ExcessRow == [status : {"NONE", "REQUESTED", "COMPLETED"},
              of : SUBSET Sources, amount : Nat]
CallStep == Approved \cup
    {"none", "approve-allocating", "apply-checked", "apply-deducted",
     "apply-allocating", "hold-read", "payback-checked", "payback-requested",
     "complete-checked", "complete-paid", "excess-checked", "close-counted",
     "close-reconciled"}
CallRow == [at : CallStep, of : SUBSET Deposits, amount : Nat, for : SUBSET Requests,
            queue : SUBSET Sources, todo : SUBSET (Sources \X Invoices \X Nat)]
NoCall == [at |-> "none", of |-> {}, amount |-> 0, for |-> {},
           queue |-> {}, todo |-> {}]

ExitInit ==
    /\ LedgerInit
    /\ DepositInit
    /\ stage = "NONE"
    /\ application = [d \in Deposits |-> 0]
    /\ payback = [q \in Requests |-> "NONE"]
    /\ excess = [x \in Excesses |-> NoExcess]
    /\ call = [c \in Calls |-> NoCall]

-----------------------------------------------------------------------------
(* What the service sums up *)

Outstanding == {i \in Invoices : invoice[i].status \in OpenStatus}
DueTotal == SumFunctionOnSet([i \in Invoices |-> invoice[i].outstanding], Outstanding)
DepositTotal == SumFunctionOnSet([d \in Deposits |-> deposit[d].available], Deposits)

\* Money of receipt s that manual refunds wait for.
ReservedOf(s) ==
    SumFunctionOnSet([x \in Excesses |-> excess[x].amount],
        {x \in Excesses : excess[x].status = "REQUESTED" /\ s \in excess[x].of})

Idle(c) == call[c] = NoCall
Begin(c, at, of, amount) ==
    /\ Idle(c)
    /\ call' = [call EXCEPT ![c] = [NoCall EXCEPT !.at = at, !.of = of,
                                                  !.amount = amount]]
Goes(c, at) == call' = [call EXCEPT ![c].at = at]
Ends(c) == call' = [call EXCEPT ![c] = NoCall]

\* An exception or a restart.
Stop(c) ==
    /\ ~Idle(c)
    /\ Ends(c)
    /\ UNCHANGED <<ledgerVars, depositVars, stage, application, payback, excess>>

-----------------------------------------------------------------------------
(* Draft and approval *)

\* create, submitReview and requestApproval
MoveStage ==
    /\ stage' \in CASE stage = "NONE" -> {"DRAFT"}
                    [] stage = "DRAFT" -> {"UNDER_REVIEW"}
                    [] stage = "UNDER_REVIEW" -> {"APPROVAL_PENDING"}
                    [] OTHER -> {}
    /\ UNCHANGED <<ledgerVars, depositVars, application, payback, excess, call>>

Unspent == {s \in Sources : receipt[s].status = "CONFIRMED"
                             /\ receipt[s].unallocated > 0}
Wanting == {i \in Invoices : Payable(i)}

\* approve begins with the receipts that have money left.
BeginApprove(c) ==
    /\ stage \in Draft
    /\ Idle(c)
    /\ call' = [call EXCEPT ![c] = [NoCall EXCEPT !.at = "approve-allocating",
                                                  !.queue = Unspent]]
    /\ UNCHANGED <<ledgerVars, depositVars, stage, application, payback, excess>>

\* allocateToAgreement reads the invoices that want money, and what each wants.
TakeReceipt(c) ==
    /\ call[c].at \in {"approve-allocating", "apply-allocating"}
    /\ call[c].todo = {}
    /\ \E s \in call[c].queue :
         call' = [call EXCEPT ![c].queue = @ \ {s},
                    ![c].todo = {<<s, i, invoice[i].outstanding>> : i \in Wanting}]
    /\ UNCHANGED <<ledgerVars, depositVars, stage, application, payback, excess>>

\* Allocations take nothing that a manual refund waits for.
Spend(s, amount, i) ==
    \E held \in 0..receipt[s].unallocated :
        held = ReservedOf(s) /\ Allocate(s, amount, {i}, Due, held)

FirstDue(todo) == {p \in todo : \A r \in todo : Due[p[2]] <= Due[r[2]]}

\* The next invoice in the order of the due dates gets the smaller of what the
\* receipt has and of what the invoice wanted when the list was read.
AllocateNextInvoice(c) ==
    /\ \E p \in FirstDue(call[c].todo) :
         LET left == receipt[p[1]].unallocated IN
         IF left = 0
         THEN call' = [call EXCEPT ![c].todo = {}] /\ UNCHANGED ledgerVars
         ELSE /\ Spend(p[1], IF left < p[3] THEN left ELSE p[3], p[2])
              /\ call' = [call EXCEPT ![c].todo = @ \ {p}]
    /\ UNCHANGED <<depositVars, stage, application, payback, excess>>

Allocated(c) == call[c].queue = {} /\ call[c].todo = {}

\* The stage that the sums call for.
StageOfSums == IF DueTotal > 0 THEN "PAYMENT_PENDING"
               ELSE IF DepositTotal > 0 THEN "REFUND_PENDING"
               ELSE "APPROVED"

\* approve reads the preview; the call stands at the stage it will write.
ReadPreview(c) ==
    /\ call[c].at = "approve-allocating"
    /\ Allocated(c)
    /\ Goes(c, StageOfSums)
    /\ UNCHANGED <<ledgerVars, depositVars, stage, application, payback, excess>>

CommitApprove(c) ==
    /\ call[c].at \in Approved
    /\ stage \in Draft
    /\ stage' = call[c].at
    /\ Ends(c)
    /\ UNCHANGED <<ledgerVars, depositVars, application, payback, excess>>

-----------------------------------------------------------------------------
(* A deposit pays what is due *)

\* applyDeposit: its checks.
BeginApply(c, d, amount) ==
    /\ stage \in Approved
    /\ application[d] = 0
    /\ amount <= deposit[d].available - HeldOf(d)
    /\ amount <= DueTotal
    /\ Begin(c, "apply-checked", {d}, amount)
    /\ UNCHANGED <<ledgerVars, depositVars, stage, application, payback, excess>>

\* deposits.move under the key of this settlement and deposit.  What an earlier
\* call posted is found again, if it was the same amount.
Deduct(c) ==
    /\ call[c].at = "apply-checked"
    /\ \E d \in call[c].of :
         LET k == <<"settlement", d>> IN
         IF Posted(k)
         THEN movement[k].amount = call[c].amount /\ UNCHANGED depositVars
         ELSE Move(k, d, "DEDUCTION", call[c].amount)
    /\ Goes(c, "apply-deducted")
    /\ UNCHANGED <<ledgerVars, stage, application, payback, excess>>

\* payments.record, under the key of this settlement and deposit as well; a
\* receipt that is spent is not allocated again.
RecordDeduction(c) ==
    /\ call[c].at = "apply-deducted"
    /\ \E d \in call[c].of :
         LET s == <<"settlement", d>> IN
         /\ IF Recorded(s)
            THEN receipt[s].amount = call[c].amount /\ UNCHANGED ledgerVars
            ELSE RecordPayment(s, call[c].amount)
         /\ call' = [call EXCEPT ![c].at = "apply-allocating",
               ![c].queue = IF Recorded(s) /\ receipt[s].unallocated = 0
                            THEN {} ELSE {s}]
    /\ UNCHANGED <<depositVars, stage, application, payback, excess>>

\* Faulty: the application is noted before its payment exists.
CommitApplicationEarly(c) ==
    /\ call[c].at \in {"apply-deducted", "apply-allocating"}
    /\ \E d \in call[c].of :
         /\ application' = [application EXCEPT ![d] = call[c].amount]
         /\ stage' = "PAYMENT_PENDING"
    /\ Ends(c)
    /\ UNCHANGED <<ledgerVars, depositVars, payback, excess>>

\* The application row, and the status that follows from the sums, whatever the
\* status was.
CommitApplication(c) ==
    /\ call[c].at = "apply-allocating"
    /\ Allocated(c)
    /\ \E d \in call[c].of :
         IF application[d] # 0
         THEN UNCHANGED <<stage, application>>
         ELSE /\ application' = [application EXCEPT ![d] = call[c].amount]
              /\ stage' = StageOfSums
    /\ Ends(c)
    /\ UNCHANGED <<ledgerVars, depositVars, payback, excess>>

-----------------------------------------------------------------------------
(* Holds *)

\* hold: the balance is read before the transaction.
BeginHold(c, d) ==
    /\ stage \in {"DRAFT", "APPROVED"}
    /\ Begin(c, "hold-read", {d}, deposit[d].available)
    /\ UNCHANGED <<ledgerVars, depositVars, stage, application, payback, excess>>

CommitHold(c, h, amount) ==
    /\ call[c].at = "hold-read"
    /\ hold[h] = NoHold
    /\ \E d \in call[c].of :
         /\ amount + HeldOf(d) + PendingOf(d) <= call[c].amount
         /\ hold' = [hold EXCEPT ![h] =
                        [status |-> "ACTIVE", of |-> {d}, amount |-> amount]]
    /\ Ends(c)
    /\ UNCHANGED <<ledgerVars, deposit, movement, request,
                   stage, application, payback, excess>>

ReleaseHold(h) ==
    /\ hold[h].status = "ACTIVE"
    /\ hold' = [hold EXCEPT ![h].status = "RELEASED"]
    /\ UNCHANGED <<ledgerVars, deposit, movement, request, exitVars>>

-----------------------------------------------------------------------------
(* What is left goes back *)

\* requestRefund: everything that is neither held nor asked for already.
BeginPayback(c, q, d) ==
    /\ stage \in Approved
    /\ payback[q] = "NONE"
    /\ DueTotal = 0
    /\ \E amount \in 1..deposit[d].available :
       /\ amount = deposit[d].available - HeldOf(d) - PendingOf(d)
       /\ Idle(c)
       /\ call' = [call EXCEPT ![c] = [NoCall EXCEPT !.at = "payback-checked",
                       !.of = {d}, !.amount = amount, !.for = {q}]]
    /\ UNCHANGED <<ledgerVars, depositVars, stage, application, payback, excess>>

\* deposits.requestRefund under the key of the call.
RequestPayback(c) ==
    /\ call[c].at = "payback-checked"
    /\ \E q \in call[c].for, d \in call[c].of :
         IF request[q] # NoRequest
         THEN /\ request[q].of = {d} /\ request[q].amount = call[c].amount
              /\ UNCHANGED depositVars
         ELSE RequestRefund(q, d, call[c].amount)
    /\ Goes(c, "payback-requested")
    /\ UNCHANGED <<ledgerVars, stage, application, payback, excess>>

CommitPayback(c) ==
    /\ call[c].at = "payback-requested"
    /\ \E q \in call[c].for :
         IF payback[q] # "NONE"
         THEN UNCHANGED <<stage, payback>>
         ELSE /\ payback' = [payback EXCEPT ![q] = "REQUESTED"]
              /\ stage' = "REFUND_PENDING"
    /\ Ends(c)
    /\ UNCHANGED <<ledgerVars, depositVars, application, excess>>

\* completeRefund: the deposit's own transaction, then the row here.
BeginComplete(c, q) ==
    /\ payback[q] = "REQUESTED"
    /\ Idle(c)
    /\ call' = [call EXCEPT ![c] = [NoCall EXCEPT !.at = "complete-checked",
                                                  !.for = {q}]]
    /\ UNCHANGED <<ledgerVars, depositVars, stage, application, payback, excess>>

PayBack(c) ==
    /\ call[c].at = "complete-checked"
    /\ \E q \in call[c].for :
         IF request[q].status = "COMPLETED"
         THEN UNCHANGED depositVars
         ELSE CompleteRefund(q)
    /\ Goes(c, "complete-paid")
    /\ UNCHANGED <<ledgerVars, stage, application, payback, excess>>

CommitComplete(c) ==
    /\ call[c].at = "complete-paid"
    /\ \E q \in call[c].for : payback' = [payback EXCEPT ![q] = "COMPLETED"]
    /\ Ends(c)
    /\ UNCHANGED <<ledgerVars, depositVars, stage, application, excess>>

\* Faulty: a deposit refund that was paid meanwhile is failed too.
FailPaybackAnyway(q) ==
    /\ payback[q] = "REQUESTED"
    /\ payback' = [payback EXCEPT ![q] = "FAILED"]
    /\ request' = [request EXCEPT ![q].status = "FAILED"]
    /\ UNCHANGED <<ledgerVars, deposit, movement, hold,
                   stage, application, excess, call>>

\* failDepositRefund
FailPayback(q) ==
    /\ payback[q] = "REQUESTED"
    /\ payback' = [payback EXCEPT ![q] = "FAILED"]
    /\ request' = [request EXCEPT ![q].status = IF @ = "REQUESTED" THEN "FAILED" ELSE @]
    /\ UNCHANGED <<ledgerVars, deposit, movement, hold,
                   stage, application, excess, call>>

-----------------------------------------------------------------------------
(* Receipts that are paid back by bank transfer *)

\* requestManualExcessRefund: the stage is read before the transaction.
BeginExcess(c) ==
    /\ stage \in Approved
    /\ Begin(c, "excess-checked", {}, 0)
    /\ UNCHANGED <<ledgerVars, depositVars, stage, application, payback, excess>>

RequestExcess(c, x, s, amount) ==
    /\ call[c].at = "excess-checked"
    /\ excess[x] = NoExcess
    /\ receipt[s].status = "CONFIRMED"
    /\ DueTotal = 0
    /\ amount + ReservedOf(s) <= receipt[s].unallocated
    /\ excess' = [excess EXCEPT ![x] =
                    [status |-> "REQUESTED", of |-> {s}, amount |-> amount]]
    /\ stage' = "REFUND_PENDING"
    /\ Ends(c)
    /\ UNCHANGED <<ledgerVars, depositVars, application, payback>>

\* completeManualExcessRefund
CompleteExcess(x) ==
    /\ excess[x].status = "REQUESTED"
    /\ \E s \in excess[x].of :
          ConfirmProviderRefund(s, excess[x].amount, "UNALLOCATED_RETURN")
    /\ excess' = [excess EXCEPT ![x].status = "COMPLETED"]
    /\ UNCHANGED <<depositVars, stage, application, payback, call>>

-----------------------------------------------------------------------------
(* The end *)

\* What close counts before it reconciles.
NothingLeft ==
    /\ DueTotal = 0
    /\ DepositTotal = 0
    /\ \A q \in Requests : payback[q] # "REQUESTED"
    /\ \A x \in Excesses : excess[x].status # "REQUESTED"
    /\ \A h \in HoldIds : hold[h].status # "ACTIVE"
    /\ \A s \in Sources : receipt[s].status = "CONFIRMED" => receipt[s].unallocated = 0

BeginClose(c) ==
    /\ stage \in Approved
    /\ NothingLeft
    /\ Begin(c, "close-counted", {}, 0)
    /\ UNCHANGED <<ledgerVars, depositVars, stage, application, payback, excess>>

ApplicationsReconcile ==
    \A d \in Deposits : application[d] > 0 =>
        LET s == <<"settlement", d>> IN
        /\ movement[s].type = "DEDUCTION" /\ movement[s].amount = application[d]
        /\ receipt[s].amount = application[d] /\ AllocatedFrom(s) = application[d]

Reconcile(c) ==
    /\ call[c].at = "close-counted"
    /\ InvoicesReconcile
    /\ ApplicationsReconcile
    /\ Goes(c, "close-reconciled")
    /\ UNCHANGED <<ledgerVars, depositVars, stage, application, payback, excess>>

CommitClose(c) ==
    /\ call[c].at = "close-reconciled"
    /\ stage' = "SETTLED"
    /\ Ends(c)
    /\ UNCHANGED <<ledgerVars, depositVars, application, payback, excess>>

-----------------------------------------------------------------------------
\* Meanwhile the office allocates receipts and takes allocations back.  All
\* receipts come from deposits: other payments, due dates and the wallet are
\* left to the ledger's own module.
ReceiptOffice ==
    \/ \E s \in Sources, i \in Invoices, amount \in 1..MaxReceipt :
          Spend(s, amount, i)
    \/ \E s \in Sources, i \in Invoices : \E k \in DOMAIN allocation[s][i] :
          ReverseAllocation(s, i, k)

ExitNext ==
    \/ ReceiptOffice /\ UNCHANGED <<depositVars, exitVars>>
    \/ DepositOffice /\ UNCHANGED <<ledgerVars, exitVars>>
    \/ MoveStage
    \/ \E h \in HoldIds : ReleaseHold(h)
    \/ \E q \in Requests : FailPayback(q)
    \/ \E x \in Excesses : CompleteExcess(x)
    \/ \E c \in Calls :
          \/ BeginApprove(c) \/ TakeReceipt(c) \/ AllocateNextInvoice(c)
          \/ ReadPreview(c) \/ CommitApprove(c)
          \/ \E d \in Deposits : \/ BeginHold(c, d)
                                 \/ \E amount \in 1..MaxMove : BeginApply(c, d, amount)
                                 \/ \E q \in Requests : BeginPayback(c, q, d)
          \/ Deduct(c) \/ RecordDeduction(c) \/ CommitApplication(c)
          \/ \E h \in HoldIds, amount \in 1..MaxMove : CommitHold(c, h, amount)
          \/ RequestPayback(c) \/ CommitPayback(c)
          \/ \E q \in Requests : BeginComplete(c, q)
          \/ PayBack(c) \/ CommitComplete(c)
          \/ BeginExcess(c)
          \/ \E x \in Excesses, s \in Sources, amount \in 1..MaxReceipt :
                RequestExcess(c, x, s, amount)
          \/ BeginClose(c) \/ Reconcile(c) \/ CommitClose(c)
          \/ Stop(c)

ExitSpec == ExitInit /\ [][ExitNext]_exitAllVars

-----------------------------------------------------------------------------
(* Properties *)

ExitTypeOK ==
    /\ stage \in Stage
    /\ application \in [Deposits -> Nat]
    /\ payback \in [Requests -> {"NONE", "REQUESTED", "COMPLETED", "FAILED"}]
    /\ excess \in [Excesses -> ExcessRow]
    /\ call \in [Calls -> CallRow]

\* A deposit pays for the rider once and in the order deduction, receipt,
\* application, each with the same amount, although each is a transaction of its
\* own, any of them may be the last, and calls are repeated and overlap
\* (final-settlement.service.ts lines 837-966).
AppliedAsDeducted ==
    \A d \in Deposits :
        LET s == <<"settlement", d>> IN
        /\ Recorded(s) => /\ movement[s].type = "DEDUCTION" /\ movement[s].of = {d}
                          /\ movement[s].amount = receipt[s].amount
        /\ application[d] > 0 => /\ Recorded(s)
                                 /\ receipt[s].amount = application[d]

\* A payout that was accepted for a receipt can be made: allocations spare what
\* manual refunds reserve, and refunds of one receipt do not overlap (lines
\* 1584-1760, rider-payments lines 458-475).
ExcessStaysPayable ==
    \A s \in Sources :
        ReservedOf(s) > 0 => /\ receipt[s].status = "CONFIRMED"
                             /\ ReservedOf(s) <= receipt[s].unallocated

\* A deposit refund that the settlement calls completed was paid from the deposit,
\* and a deposit knows what it paid, although paying and noting it are two
\* transactions and failDepositRefund may come between them (lines 1159-1245).
CompletedWasPaid ==
    \A q \in Requests :
        /\ payback[q] = "COMPLETED" => request[q].status = "COMPLETED"
        /\ request[q].status = "COMPLETED" <=> Posted(<<"refund", q>>)

=============================================================================

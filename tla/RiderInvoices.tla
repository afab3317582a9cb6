---------------------------- MODULE RiderInvoices ----------------------------
(***************************************************************************)
(* The rider's billing ledger: what may happen to the balances of issued   *)
(* invoices and to the receipts (RiderPayment rows) that pay them.         *)
(*                                                                         *)
(* Every action is one database transaction of rider-billing/              *)
(* rider-payments.service.ts, rider-billing.service.ts or                  *)
(* wallet/wallet-billing.service.ts.  The transactions are SERIALIZABLE    *)
(* or hold the row locks they need, so each is one atomic step.  Amounts   *)
(* are natural numbers of the smallest currency unit.                      *)
(***************************************************************************)
EXTENDS Integers, Sequences, FiniteSets, Functions, SequencesExt

CONSTANTS
    Invoices,      \* issued invoices of one rider, all in one currency
    Total,         \* Total[i]: the immutable totalAmount of invoice i
    Due,           \* Due[i]: rank of i in the order by (dueDate, id)
    Issued,        \* Issued[i]: rank of i in the order by (createdAt, id)
    OneTime,       \* the ONBOARDING and SECURITY_DEPOSIT invoices
    Sources,       \* idempotency identities under which a receipt is created
    OpeningCash,   \* spendable wallet balance at the start
    MaxReceipt     \* bound on the amounts of the receipts of LedgerNext

ASSUME LedgerAssumption ==
    /\ Total \in [Invoices -> Nat \ {0}]
    /\ Due \in [Invoices -> Nat] /\ IsInjective(Due)
    /\ Issued \in [Invoices -> Nat] /\ IsInjective(Issued)
    /\ OneTime \subseteq Invoices
    /\ IsFiniteSet(Invoices) /\ IsFiniteSet(Sources)
    /\ OpeningCash \in Nat
    /\ MaxReceipt \in Nat

VARIABLES
    invoice,       \* invoice[i]: status, paidAmount, outstandingAmount
    receipt,       \* receipt[s]: the RiderPayment row of source s
    allocation,    \* allocation[s][i]: unreversed allocation rows of s on i
    settlement,    \* settlement[i]: unreversed wallet settlements of i
    cash           \* spendable wallet balance

ledgerVars == <<invoice, receipt, allocation, settlement, cash>>

-----------------------------------------------------------------------------
OpenStatus == {"FINALIZED", "PARTIALLY_PAID", "OVERDUE"}
InvoiceStatus == OpenStatus \cup {"PAID", "VOID"}
InvoiceRow == [status : InvoiceStatus, paid : Int, outstanding : Nat]

NoReceipt == [status |-> "NONE", amount |-> 0, unallocated |-> 0, refunded |-> 0]
ReceiptRow == [status : {"NONE", "CONFIRMED", "REFUNDED"},
               amount : Nat, unallocated : Nat, refunded : Nat]

\* The amount of money in a sequence of rows.
RowTotal(rows) == SumFunction(rows)

\* The unreversed allocation rows of an invoice and of a receipt.
AllocatedTo(i) == SumFunction([s \in Sources |-> RowTotal(allocation[s][i])])
AllocatedFrom(s) == SumFunction([i \in Invoices |-> RowTotal(allocation[s][i])])

Recorded(s) == receipt[s].status # "NONE"
Payable(i) == invoice[i].status \in OpenStatus /\ invoice[i].outstanding > 0

LedgerInit ==
    /\ invoice = [i \in Invoices |->
                    [status |-> "FINALIZED", paid |-> 0, outstanding |-> Total[i]]]
    /\ receipt = [s \in Sources |-> NoReceipt]
    /\ allocation = [s \in Sources |-> [i \in Invoices |-> << >>]]
    /\ settlement = [i \in Invoices |-> << >>]
    /\ cash = OpeningCash

-----------------------------------------------------------------------------
(* Balances *)

\* Faulty: an overdue invoice stays overdue when it is paid off.
AfterPaymentKeepsOverdue(row, a) ==
    IF a = 0 THEN row
    ELSE [status |-> IF row.status = "OVERDUE" THEN "OVERDUE"
                     ELSE IF row.outstanding = a THEN "PAID" ELSE "PARTIALLY_PAID",
          paid |-> row.paid + a,
          outstanding |-> row.outstanding - a]

\* Invoice row after a payment of a.
AfterPayment(row, a) ==
    IF a = 0 THEN row
    ELSE [status |-> IF row.outstanding = a THEN "PAID"
                     ELSE IF row.status = "OVERDUE" THEN "OVERDUE"
                     ELSE "PARTIALLY_PAID",
          paid |-> row.paid + a,
          outstanding |-> row.outstanding - a]

\* Invoice row after a payment of a is taken back.
AfterReversal(row, a) ==
    [status |-> IF row.status = "OVERDUE" THEN "OVERDUE"
                ELSE IF row.paid = a THEN "FINALIZED"
                ELSE "PARTIALLY_PAID",
     paid |-> row.paid - a,
     outstanding |-> row.outstanding + a]

\* Faulty: the oldest invoice is not paid off before the next one.
IsWaterfallUnordered(applied, amount, T, rank) ==
    LET targets == {i \in T : Payable(i)} IN
    /\ \A i \in Invoices : applied[i] <= IF i \in targets
                                         THEN invoice[i].outstanding ELSE 0
    /\ SumFunction(applied) <= amount
    /\ SumFunction(applied) < amount
          => \A i \in targets : applied[i] = invoice[i].outstanding

\* The loop over the payable invoices among T, ordered by rank, spreads amount
\* over them oldest first: applied[i] is what i receives.
IsWaterfall(applied, amount, T, rank) ==
    LET targets == {i \in T : Payable(i)} IN
    /\ \A i \in Invoices : applied[i] <= IF i \in targets
                                         THEN invoice[i].outstanding ELSE 0
    /\ SumFunction(applied) <= amount
    /\ \A i, j \in targets : applied[j] > 0 /\ rank[i] < rank[j]
                                => applied[i] = invoice[i].outstanding
    /\ SumFunction(applied) < amount
          => \A i \in targets : applied[i] = invoice[i].outstanding

\* The same as the code's loop: the payable invoices among T as a query lists
\* them, and one pass over the list in which each takes what is left, up to what it
\* owes.  Once nothing is left the rest take nothing.
Listed(T, rank) ==
    LET targets == {i \in T : Payable(i)} IN
    CHOOSE list \in [1..Cardinality(targets) -> targets] :
        /\ \A i \in targets : \E n \in DOMAIN list : list[n] = i
        /\ \A m, n \in DOMAIN list : m < n => rank[list[m]] < rank[list[n]]

Take(state, i) ==
    LET used == IF state.remaining < invoice[i].outstanding
                THEN state.remaining ELSE invoice[i].outstanding IN
    [remaining |-> state.remaining - used, applied |-> [state.applied EXCEPT ![i] = used]]

Pass(amount, list) ==
    LET pass[n \in 0..Len(list)] ==
          IF n = 0 THEN [remaining |-> amount, applied |-> [i \in Invoices |-> 0]]
                   ELSE Take(pass[n - 1], list[n])
    IN pass

Spread(amount, T, rank) ==
    LET list == Listed(T, rank) IN Pass(amount, list)[Len(list)].applied

\* New allocation rows of source s and the invoice balances they change.
Apply(s, applied) ==
    /\ invoice' = [i \in Invoices |-> AfterPayment(invoice[i], applied[i])]
    /\ allocation' = [allocation EXCEPT ![s] = [i \in Invoices |->
                        IF applied[i] = 0 THEN @[i] ELSE Append(@[i], applied[i])]]

-----------------------------------------------------------------------------
(* Receipts *)

\* confirmProviderPaymentInTransaction: the receipt of a verified provider
\* payment, allocated oldest first over the payable invoices among T.  A source
\* that has its receipt already is left alone.
ConfirmProviderPayment(s, amount, T) ==
    \/ /\ Recorded(s)
       /\ UNCHANGED ledgerVars
    \/ /\ ~Recorded(s)
       /\ amount > 0
       /\ \E applied \in [Invoices -> 0..amount], rest \in 0..amount :
            /\ IsWaterfall(applied, amount, T, Due)
            /\ rest = amount - SumFunction(applied)
            /\ Apply(s, applied)
            /\ receipt' = [receipt EXCEPT ![s] =
                  [status |-> "CONFIRMED", amount |-> amount,
                   unallocated |-> rest, refunded |-> 0]]
       /\ UNCHANGED <<settlement, cash>>

\* record: a payment received by hand; it waits unallocated.
RecordPayment(s, amount) ==
    /\ ~Recorded(s)
    /\ amount > 0
    /\ receipt' = [receipt EXCEPT ![s] =
          [status |-> "CONFIRMED", amount |-> amount,
           unallocated |-> amount, refunded |-> 0]]
    /\ UNCHANGED <<invoice, allocation, settlement, cash>>

\* Faulty: what refunds reserve is spent too.
AllocateReserved(s, amount, T, rank, held) ==
    /\ receipt[s].status = "CONFIRMED"
    /\ amount > 0 /\ amount <= receipt[s].unallocated
    /\ \E applied \in [Invoices -> 0..amount], spent \in 1..amount :
         /\ IsWaterfall(applied, amount, T, rank)
         /\ spent = SumFunction(applied)
         /\ Apply(s, applied)
         /\ receipt' = [receipt EXCEPT ![s].unallocated = @ - spent]
    /\ UNCHANGED <<settlement, cash>>

\* allocateInTransaction: spends amount of the receipt's unallocated money that
\* no refund reserves (held) over the payable invoices among T.
Allocate(s, amount, T, rank, held) ==
    /\ receipt[s].status = "CONFIRMED"
    /\ amount > 0 /\ amount <= receipt[s].unallocated - held
    /\ \E applied \in [Invoices -> 0..amount], spent \in 1..amount :
         /\ IsWaterfall(applied, amount, T, rank)
         /\ spent = SumFunction(applied)
         /\ Apply(s, applied)
         /\ receipt' = [receipt EXCEPT ![s].unallocated = @ - spent]
    /\ UNCHANGED <<settlement, cash>>

\* reverseAllocation: row k of source s on invoice i is taken back.
ReverseAllocation(s, i, k) ==
    /\ k \in DOMAIN allocation[s][i]
    /\ invoice[i].status # "VOID"
    /\ LET a == allocation[s][i][k] IN
       /\ invoice' = [invoice EXCEPT ![i] = AfterReversal(@, a)]
       /\ receipt' = [receipt EXCEPT ![s].unallocated = @ + a]
    /\ allocation' = [allocation EXCEPT ![s][i] = RemoveAt(@, k)]
    /\ UNCHANGED <<settlement, cash>>

\* Whether confirmProviderRefundInTransaction accepts the refund.
Refundable(s, amount, treatment) ==
    /\ receipt[s].status = "CONFIRMED"
    /\ amount > 0
    /\ amount <= receipt[s].amount - receipt[s].refunded
    /\ IF treatment = "PAYMENT_REVERSAL"
       THEN amount = receipt[s].amount /\ receipt[s].refunded = 0
       ELSE amount <= receipt[s].unallocated

\* confirmProviderRefundInTransaction: money that the provider returned leaves
\* the receipt.  A reversal of the whole payment reopens what it paid for, which
\* is no more than the payment.
ConfirmProviderRefund(s, amount, treatment) ==
    /\ Refundable(s, amount, treatment)
    /\ receipt' = [receipt EXCEPT ![s] =
          [status |-> IF @.refunded + amount = @.amount
                      THEN "REFUNDED" ELSE "CONFIRMED",
           amount |-> @.amount,
           unallocated |-> IF treatment = "PAYMENT_REVERSAL"
                           THEN 0 ELSE @.unallocated - amount,
           refunded |-> @.refunded + amount]]
    /\ IF treatment = "PAYMENT_REVERSAL"
       THEN \E back \in [Invoices -> 0..amount] :
             /\ \A i \in Invoices : back[i] = RowTotal(allocation[s][i])
             /\ invoice' = [i \in Invoices |->
                   IF back[i] = 0 \/ invoice[i].status = "VOID"
                   THEN invoice[i] ELSE AfterReversal(invoice[i], back[i])]
             /\ allocation' = [allocation EXCEPT ![s] = [i \in Invoices |-> << >>]]
       ELSE UNCHANGED <<invoice, allocation>>
    /\ UNCHANGED <<settlement, cash>>

-----------------------------------------------------------------------------
(* Wallet settlements and the invoice's own life *)

\* settleInTransaction: the wallet pays what it can of the invoice.
SettleFromWallet(i) ==
    /\ Payable(i)
    /\ cash > 0
    /\ LET used == IF cash < invoice[i].outstanding
                   THEN cash ELSE invoice[i].outstanding IN
       /\ invoice' = [invoice EXCEPT ![i] = AfterPayment(@, used)]
       /\ settlement' = [settlement EXCEPT ![i] = Append(@, used)]
       /\ cash' = cash - used
    /\ UNCHANGED <<receipt, allocation>>

\* reverse: settlement k of invoice i goes back to the wallet; whether the
\* invoice is past its grace period by now is the clock's choice.
ReverseSettlement(i, k, late) ==
    /\ k \in DOMAIN settlement[i]
    /\ LET a == settlement[i][k] IN
       /\ invoice' = [invoice EXCEPT ![i] =
             [status |-> IF late THEN "OVERDUE"
                         ELSE IF @.paid = a THEN "FINALIZED" ELSE "PARTIALLY_PAID",
              paid |-> @.paid - a,
              outstanding |-> @.outstanding + a]]
       /\ cash' = cash + a
    /\ settlement' = [settlement EXCEPT ![i] = RemoveAt(@, k)]
    /\ UNCHANGED <<receipt, allocation>>

\* voidUnpaidOneTime: an untouched one-time invoice is withdrawn.
VoidUnpaid(i) ==
    /\ i \in OneTime
    /\ invoice[i].status # "VOID"
    /\ invoice[i].paid <= 0 /\ invoice[i].outstanding >= Total[i]
    /\ invoice' = [invoice EXCEPT ![i].status = "VOID"]
    /\ UNCHANGED <<receipt, allocation, settlement, cash>>

\* markOverdue, for an invoice past its due date and grace period.
MarkOverdue(i) ==
    /\ invoice[i].status \in {"FINALIZED", "PARTIALLY_PAID"}
    /\ invoice[i].outstanding > 0
    /\ invoice' = [invoice EXCEPT ![i].status = "OVERDUE"]
    /\ UNCHANGED <<receipt, allocation, settlement, cash>>

-----------------------------------------------------------------------------
\* Invoices change hands between wallet, receipts and the calendar.
BalanceNext ==
    \E i \in Invoices :
       \/ SettleFromWallet(i)
       \/ \E k \in DOMAIN settlement[i], late \in BOOLEAN :
             ReverseSettlement(i, k, late)
       \/ VoidUnpaid(i)
       \/ MarkOverdue(i)
       \/ \E s \in Sources : \E k \in DOMAIN allocation[s][i] :
             ReverseAllocation(s, i, k)

\* An allocation to one invoice, or over all of them by due or creation date.
AllocateNext(s, held) ==
    \E amount \in 1..MaxReceipt, T \in {{i} : i \in Invoices} \cup {Invoices},
       rank \in {Due, Issued} :
       Allocate(s, amount, T, rank, held)

\* What the back office and the rider do to the ledger without a provider.
OfficeNext ==
    \/ BalanceNext
    \/ \E s \in Sources, held \in 0..MaxReceipt : AllocateNext(s, held)

LedgerNext ==
    \/ OfficeNext
    \/ \E s \in Sources, amount \in 1..MaxReceipt :
          \/ \E T \in SUBSET Invoices : ConfirmProviderPayment(s, amount, T)
          \/ RecordPayment(s, amount)
          \/ \E treatment \in {"UNALLOCATED_RETURN", "PAYMENT_REVERSAL"} :
                ConfirmProviderRefund(s, amount, treatment)

LedgerSpec == LedgerInit /\ [][LedgerNext]_ledgerVars

-----------------------------------------------------------------------------
(* Properties *)

\* Types of the ledger's tables.  The paid amount is only known to be a natural
\* number through InvoiceBalanced.
LedgerTypeOK ==
    /\ invoice \in [Invoices -> InvoiceRow]
    /\ receipt \in [Sources -> ReceiptRow]
    /\ allocation \in [Sources -> [Invoices -> Seq(Nat \ {0})]]
    /\ settlement \in [Invoices -> Seq(Nat \ {0})]
    /\ cash \in Nat

\* What an invoice owes and what was paid for it make up its issued total:
\* no transaction creates or loses a part of an invoice (rider-payments
\* lines 114-145, 233-250, 568-585; wallet-billing lines 154-155, 217-221).
BalanceKept ==
    \A i \in Invoices : invoice[i].paid + invoice[i].outstanding = Total[i]

\* The paid amount of an invoice is exactly the unreversed rows that pay it,
\* and its status says how much that is.
InvoiceBalanced ==
    \A i \in Invoices :
        LET row == invoice[i] IN
        /\ row.paid = AllocatedTo(i) + RowTotal(settlement[i])
        /\ row.status = "PAID" <=> row.outstanding = 0
        /\ row.status \in {"FINALIZED", "VOID"} => row.paid = 0
        /\ row.status = "PARTIALLY_PAID" => row.paid > 0

\* The amount of a receipt is what it paid, what waits and what was returned: no
\* allocation, reversal or refund creates or loses a part of it (rider-payments
\* lines 76-77, 149, 268-274, 356, 540, 588-590).
ReceiptsAddUp ==
    \A s \in Sources :
        receipt[s].amount =
            receipt[s].unallocated + AllocatedFrom(s) + receipt[s].refunded

\* What reconcile demands before an agreement is closed: an invoice was paid by
\* the allocations of receipts, and nothing else, and they and what is due make
\* up its total (rider-billing lines 681-701, final-settlement lines 1809-1825;
\* a provider payment always has its receipt here).
InvoicesReconcile ==
    \A i \in Invoices : invoice[i].status # "VOID" =>
        /\ invoice[i].paid = AllocatedTo(i)
        /\ Total[i] = invoice[i].outstanding + AllocatedTo(i)

\* The relation that the actions use describes the result of the code's loop
\* and nothing else, in every state, for every choice of invoices and either order
\* (rider-payments lines 114-145, 489-532).
WaterfallIsTheLoop ==
    \A amount \in 0..MaxReceipt, T \in SUBSET Invoices, rank \in {Due, Issued} :
        {applied \in [Invoices -> 0..amount] : IsWaterfall(applied, amount, T, rank)}
            = {Spread(amount, T, rank)}

=============================================================================

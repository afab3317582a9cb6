------------------------- MODULE RiderInvoicesProofs -------------------------
(***************************************************************************)
(* Theorems about the billing ledger, for any set of invoices and any      *)
(* amounts.  The invariant LedgerTypeOK is inductive as it stands: what a  *)
(* payment takes from an invoice is bounded by IsWaterfall or by a guard.  *)
(* There is one lemma for each transaction, stated for all its parameters, *)
(* so that the modules which use the transactions can cite it.             *)
(*                                                                         *)
(* IsWaterfall describes one result: two that differ would differ first at *)
(* some invoice, and the one that takes less there leaves money unspent.   *)
(*                                                                         *)
(* LedgerUse describes every program that changes ledger rows only by the  *)
(* transactions of RiderInvoices.  What is proved of it holds of AutoPay,  *)
(* checkout, refunds and the final settlement alike: their own modules     *)
(* show that each step is one transaction or leaves the rows alone.        *)
(***************************************************************************)
EXTENDS RiderInvoices, SumTheorems, SequenceTheorems, TLAPS

Balanced(row, i) == row.paid + row.outstanding = Total[i]

\* A payment of no more than is owed leaves a well-formed invoice row with the
\* same total.
LEMMA PaymentKeepsRow ==
    ASSUME NEW row \in InvoiceRow, NEW a \in Nat, a <= row.outstanding
    PROVE  /\ AfterPayment(row, a) \in InvoiceRow
           /\ AfterPayment(row, a).paid + AfterPayment(row, a).outstanding
                = row.paid + row.outstanding
  BY DEF AfterPayment, InvoiceRow, InvoiceStatus, OpenStatus

\* Taking a payment back does, too.
LEMMA ReversalKeepsRow ==
    ASSUME NEW row \in InvoiceRow, NEW a \in Nat
    PROVE  /\ AfterReversal(row, a) \in InvoiceRow
           /\ AfterReversal(row, a).paid + AfterReversal(row, a).outstanding
                = row.paid + row.outstanding
  BY DEF AfterReversal, InvoiceRow, InvoiceStatus, OpenStatus

-----------------------------------------------------------------------------
(* The money in rows *)

LEMMA RowTotalType ==
    ASSUME NEW rows \in Seq(Nat \ {0})
    PROVE  /\ RowTotal(rows) \in Nat
           /\ RowTotal(rows) = 0 <=> rows = << >>
           /\ \A k \in DOMAIN rows : rows[k] <= RowTotal(rows)
<1>1. /\ DOMAIN rows = 1..Len(rows) /\ Len(rows) \in Nat
      /\ \A k \in DOMAIN rows : rows[k] \in Nat \ {0}
  OBVIOUS
<1>2. IsFiniteSet(DOMAIN rows)
  BY <1>1, FS_Interval
<1>3. RowTotal(rows) \in Nat
  BY <1>1, <1>2, SumIsNat DEF RowTotal, SumFunction
<1>4. \A k \in DOMAIN rows : rows[k] <= RowTotal(rows)
  BY <1>1, <1>2, SumBoundsParts DEF RowTotal, SumFunction
<1>5. CASE rows = << >>
  <2>1. DOMAIN rows = {}
    BY <1>5
  <2> QED BY <1>3, <1>4, <1>5, <2>1, SumOfNone DEF RowTotal, SumFunction
<1>6. CASE rows # << >>
  <2>1. 1 \in DOMAIN rows
    BY <1>1, <1>6
  <2>2. RowTotal(rows) # 0
    BY <1>1, <1>3, <1>4, <2>1
  <2> QED BY <1>3, <1>4, <1>6, <2>2
<1> QED BY <1>5, <1>6

\* A row more.
LEMMA AppendTotal ==
    ASSUME NEW rows \in Seq(Nat \ {0}), NEW a \in Nat
    PROVE  RowTotal(Append(rows, a)) = RowTotal(rows) + a
<1> DEFINE n == Len(rows)
           more == Append(rows, a)
<1>1. /\ n \in Nat /\ DOMAIN rows = 1..n /\ DOMAIN more = (1..n) \cup {n + 1}
      /\ n + 1 \notin 1..n /\ more[n + 1] = a
      /\ \A k \in 1..n : more[k] = rows[k] /\ rows[k] \in Nat
  OBVIOUS
<1>2. IsFiniteSet(1..n)
  BY <1>1, FS_Interval
<1> HIDE DEF n, more
<1>3. SumFunctionOnSet(more, (1..n) \cup {n + 1}) = a + SumFunctionOnSet(more, 1..n)
  <2>1. \A k \in (1..n) \cup {n + 1} : more[k] \in Int
    BY <1>1
  <2>2. SumFunctionOnSet(more, (1..n) \cup {n + 1})
          = more[n + 1] + SumFunctionOnSet(more, 1..n)
    BY <1>1, <1>2, <2>1, SumPutsIn
  <2> QED BY <1>1, <2>2
<1>4. SumFunctionOnSet(more, 1..n) = SumFunctionOnSet(rows, 1..n)
  BY <1>1, <1>2, SumOfSame
<1>5. SumFunctionOnSet(rows, 1..n) \in Nat
  BY <1>1, <1>2, SumIsNat
<1>6. RowTotal(more) = a + RowTotal(rows)
  BY <1>1, <1>3, <1>4 DEF RowTotal, SumFunction
<1>7. RowTotal(rows) \in Nat
  BY <1>1, <1>5 DEF RowTotal, SumFunction
<1> QED BY <1>6, <1>7 DEF more

\* A row less.
LEMMA RemoveAtTotal ==
    ASSUME NEW rows \in Seq(Nat \ {0}), NEW k \in DOMAIN rows
    PROVE  /\ RemoveAt(rows, k) \in Seq(Nat \ {0})
           /\ RowTotal(RemoveAt(rows, k)) = RowTotal(rows) - rows[k]
<1> DEFINE n == Len(rows)
           less == RemoveAt(rows, k)
           name == [j \in 1..(n - 1) |-> IF j < k THEN j ELSE j + 1]
           others == (1..n) \ {k}
<1>1. n \in Nat /\ DOMAIN rows = 1..n /\ k \in 1..n
      /\ \A j \in 1..n : rows[j] \in Nat \ {0}
  OBVIOUS
<1> DEFINE head == SubSeq(rows, 1, k - 1)
           tail == SubSeq(rows, k + 1, n)
<1>2. /\ head \in Seq(Nat \ {0}) /\ Len(head) = k - 1
      /\ \A j \in 1..(k - 1) : head[j] = rows[j]
      /\ tail \in Seq(Nat \ {0}) /\ Len(tail) = n - k
      /\ \A j \in 1..(n - k) : tail[j] = rows[k + j]
  <2>1. /\ \A j \in 1..(k - 1) : rows[j] \in Nat \ {0}
        /\ \A j \in (k + 1)..n : rows[j] \in Nat \ {0}
    BY <1>1
  <2>2. k \in Int /\ n \in Int /\ k >= 1 /\ k <= n
    BY <1>1
  <2> HIDE DEF n
  <2>3. /\ head \in Seq(Nat \ {0}) /\ Len(head) = IF 1 <= k - 1 THEN (k - 1) - 1 + 1 ELSE 0
        /\ \A j \in 1..((k - 1) - 1 + 1) : head[j] = rows[1 + j - 1]
    BY <2>1, <2>2, SubSeqProperties
  <2>4. /\ tail \in Seq(Nat \ {0})
        /\ Len(tail) = IF k + 1 <= n THEN n - (k + 1) + 1 ELSE 0
        /\ \A j \in 1..(n - (k + 1) + 1) : tail[j] = rows[(k + 1) + j - 1]
    <3> DEFINE m == k + 1
    <3>1. m \in Int /\ \A j \in m..n : rows[j] \in Nat \ {0}
      BY <2>1, <2>2
    <3> HIDE DEF m
    <3>2. LET t == SubSeq(rows, m, n)
          IN  /\ t \in Seq(Nat \ {0})
              /\ Len(t) = IF m <= n THEN n - m + 1 ELSE 0
              /\ \A j \in 1..(n - m + 1) : t[j] = rows[m + j - 1]
      BY <2>2, <3>1, SubSeqProperties
    <3> QED BY <3>2 DEF m
  <2> HIDE DEF head, tail
  <2>5. Len(head) = k - 1 /\ Len(tail) = n - k
    BY <2>2, <2>3, <2>4
  <2>6. ASSUME NEW j \in 1..(k - 1) PROVE head[j] = rows[j]
    <3>1. 1 + j - 1 = j /\ j \in 1..((k - 1) - 1 + 1)
      BY <2>2
    <3> QED BY <2>3, <3>1
  <2>7. ASSUME NEW j \in 1..(n - k) PROVE tail[j] = rows[k + j]
    <3>1. (k + 1) + j - 1 = k + j /\ j \in 1..(n - (k + 1) + 1)
      BY <2>2
    <3> QED BY <2>4, <3>1
  <2> QED BY <2>3, <2>4, <2>5, <2>6, <2>7
<1>3. less = head \o tail
  BY DEF RemoveAt
<1> HIDE DEF n, less, head, tail
<1>12. /\ less \in Seq(Nat \ {0}) /\ Len(less) = (k - 1) + (n - k)
       /\ \A j \in 1..((k - 1) + (n - k)) :
             less[j] = IF j <= k - 1 THEN head[j] ELSE tail[j - (k - 1)]
  <2>1. /\ less \in Seq(Nat \ {0}) /\ Len(less) = Len(head) + Len(tail)
        /\ \A j \in 1..(Len(head) + Len(tail)) :
              less[j] = IF j <= Len(head) THEN head[j] ELSE tail[j - Len(head)]
    BY <1>2, <1>3, ConcatProperties
  <2> QED BY <1>2, <2>1
<1>13. Len(less) = n - 1 /\ DOMAIN less = 1..(n - 1)
  BY <1>1, <1>12
<1>14. ASSUME NEW j \in 1..(n - 1) PROVE less[j] = rows[name[j]]
  <2>1. j \in 1..((k - 1) + (n - k))
    BY <1>1
  <2>2. CASE j < k
    BY <1>1, <1>2, <1>12, <2>1, <2>2
  <2>3. CASE ~(j < k)
    <3>1. less[j] = tail[j - (k - 1)]
      BY <1>1, <1>12, <2>1, <2>3
    <3>2. j - (k - 1) \in 1..(n - k) /\ k + (j - (k - 1)) = j + 1
      BY <1>1, <2>3
    <3> QED BY <1>2, <2>3, <3>1, <3>2
  <2> QED BY <2>2, <2>3
<1>4. IsFiniteSet(1..n) /\ IsFiniteSet(1..(n - 1))
  BY <1>1, FS_Interval
<1>5. /\ name \in [1..(n - 1) -> others]
      /\ \A x, y \in 1..(n - 1) : name[x] = name[y] => x = y
  BY <1>1
<1>6. ASSUME NEW t \in others PROVE \E x \in 1..(n - 1) : name[x] = t
  <2>1. CASE t < k
    <3>1. t \in 1..(n - 1) /\ name[t] = t
      BY <1>1, <2>1
    <3> QED BY <3>1
  <2>2. CASE ~(t < k)
    <3>1. t - 1 \in 1..(n - 1) /\ name[t - 1] = t
      BY <1>1, <2>2
    <3> QED BY <3>1
  <2> QED BY <2>1, <2>2
<1>7. \A x \in 1..(n - 1) : less[x] \in Int /\ rows[name[x]] = less[x]
  BY <1>1, <1>14, <1>5
<1> HIDE DEF name, others
<1>8. SumFunctionOnSet(rows, others) = SumFunctionOnSet(less, 1..(n - 1))
  <2> DEFINE left == 1..(n - 1)
  <2>1. /\ \A t \in others : \E x \in left : name[x] = t
        /\ IsFiniteSet(left) /\ name \in [left -> others]
        /\ \A x, y \in left : name[x] = name[y] => x = y
        /\ \A x \in left : less[x] \in Int /\ rows[name[x]] = less[x]
    BY <1>4, <1>5, <1>6, <1>7
  <2> HIDE DEF left
  <2>2. SumFunctionOnSet(rows, others) = SumFunctionOnSet(less, left)
    BY <2>1, SumRenamed
  <2> QED BY <2>2 DEF left
<1>9. SumFunctionOnSet(rows, 1..n) = rows[k] + SumFunctionOnSet(rows, others)
  BY <1>1, <1>4, SumTakesOut DEF others
<1>10. SumFunctionOnSet(less, 1..(n - 1)) \in Int
  BY <1>4, <1>7, SumIsInt
<1>11. RowTotal(less) = RowTotal(rows) - rows[k]
  BY <1>1, <1>13, <1>8, <1>9, <1>10 DEF RowTotal, SumFunction
<1> QED BY <1>12, <1>11 DEF less

-----------------------------------------------------------------------------
(* Types and totals *)

\* Spreading money over invoices keeps the tables well-formed and every total.
LEMMA ApplyKeeps ==
    ASSUME LedgerTypeOK, NEW s \in Sources, NEW amount \in Nat, NEW T, NEW rank,
           NEW applied \in [Invoices -> 0..amount],
           IsWaterfall(applied, amount, T, rank), Apply(s, applied)
    PROVE  /\ invoice' \in [Invoices -> InvoiceRow]
           /\ allocation' \in [Sources -> [Invoices -> Seq(Nat \ {0})]]
           /\ BalanceKept => BalanceKept'
<1>1. \A i \in Invoices : applied[i] \in Nat /\ applied[i] <= invoice[i].outstanding
  BY DEF IsWaterfall, LedgerTypeOK, InvoiceRow
<1>2. \A i \in Invoices :
         /\ AfterPayment(invoice[i], applied[i]) \in InvoiceRow
         /\ AfterPayment(invoice[i], applied[i]).paid
              + AfterPayment(invoice[i], applied[i]).outstanding
            = invoice[i].paid + invoice[i].outstanding
  BY <1>1, PaymentKeepsRow DEF LedgerTypeOK
<1>3. \A i \in Invoices : invoice'[i] = AfterPayment(invoice[i], applied[i])
  BY DEF Apply
<1>4. invoice' \in [Invoices -> InvoiceRow]
  BY <1>2 DEF Apply
<1>5. allocation' \in [Sources -> [Invoices -> Seq(Nat \ {0})]]
  <2>1. \A i \in Invoices :
          (IF applied[i] = 0 THEN allocation[s][i]
                             ELSE Append(allocation[s][i], applied[i])) \in Seq(Nat \ {0})
    BY <1>1 DEF LedgerTypeOK
  <2> QED BY <2>1 DEF Apply, LedgerTypeOK
<1>6. BalanceKept => BalanceKept'
  BY <1>2, <1>3 DEF BalanceKept
<1> QED BY <1>4, <1>5, <1>6

\* The receipt of a provider payment.
LEMMA ConfirmProviderPaymentKeeps ==
    ASSUME LedgerTypeOK, NEW s \in Sources, NEW amount \in Nat, NEW T,
           ConfirmProviderPayment(s, amount, T)
    PROVE  LedgerTypeOK' /\ (BalanceKept => BalanceKept')
<1>1. CASE UNCHANGED ledgerVars
  BY <1>1 DEF ledgerVars, LedgerTypeOK, BalanceKept
<1>2. CASE ~Recorded(s)
  <2>1. PICK applied \in [Invoices -> 0..amount], rest \in 0..amount :
           /\ IsWaterfall(applied, amount, T, Due)
           /\ Apply(s, applied)
           /\ receipt' = [receipt EXCEPT ![s] =
                 [status |-> "CONFIRMED", amount |-> amount,
                  unallocated |-> rest, refunded |-> 0]]
    BY <1>2 DEF ConfirmProviderPayment
  <2>2. receipt' \in [Sources -> ReceiptRow]
    BY <2>1 DEF LedgerTypeOK, ReceiptRow
  <2>3. settlement' = settlement /\ cash' = cash
    BY <1>2 DEF ConfirmProviderPayment
  <2> QED BY <2>1, <2>2, <2>3, ApplyKeeps DEF LedgerTypeOK
<1> QED BY <1>1, <1>2 DEF ConfirmProviderPayment

LEMMA RecordPaymentKeeps ==
    ASSUME LedgerTypeOK, NEW s \in Sources, NEW amount \in Nat,
           RecordPayment(s, amount)
    PROVE  LedgerTypeOK' /\ (BalanceKept => BalanceKept')
  BY DEF RecordPayment, LedgerTypeOK, ReceiptRow, BalanceKept

LEMMA AllocateKeeps ==
    ASSUME LedgerTypeOK, NEW s \in Sources, NEW amount \in Nat, NEW T, NEW rank,
           NEW held \in Nat, Allocate(s, amount, T, rank, held)
    PROVE  LedgerTypeOK' /\ (BalanceKept => BalanceKept')
<1>1. PICK applied \in [Invoices -> 0..amount], spent \in 1..amount :
         /\ IsWaterfall(applied, amount, T, rank)
         /\ Apply(s, applied)
         /\ receipt' = [receipt EXCEPT ![s].unallocated = @ - spent]
  BY DEF Allocate
<1>2. receipt[s].unallocated - spent \in Nat
  BY DEF Allocate, LedgerTypeOK, ReceiptRow
<1>3. receipt' \in [Sources -> ReceiptRow]
  BY <1>1, <1>2 DEF LedgerTypeOK, ReceiptRow
<1>4. settlement' = settlement /\ cash' = cash
  BY DEF Allocate
<1> QED BY <1>1, <1>3, <1>4, ApplyKeeps DEF LedgerTypeOK

LEMMA ReverseAllocationKeeps ==
    ASSUME LedgerTypeOK, NEW s \in Sources, NEW i \in Invoices, NEW k,
           ReverseAllocation(s, i, k)
    PROVE  LedgerTypeOK' /\ (BalanceKept => BalanceKept')
<1> DEFINE a == allocation[s][i][k]
<1>1. allocation[s][i] \in Seq(Nat \ {0}) /\ k \in DOMAIN allocation[s][i]
  BY DEF LedgerTypeOK, ReverseAllocation
<1>2. a \in Nat
  BY <1>1
<1>3. RemoveAt(allocation[s][i], k) \in Seq(Nat \ {0})
  BY <1>1, RemoveAtTotal
<1>4. /\ AfterReversal(invoice[i], a) \in InvoiceRow
      /\ AfterReversal(invoice[i], a).paid + AfterReversal(invoice[i], a).outstanding
           = invoice[i].paid + invoice[i].outstanding
  BY <1>2, ReversalKeepsRow DEF LedgerTypeOK
<1>5. invoice' = [invoice EXCEPT ![i] = AfterReversal(@, a)]
  BY DEF ReverseAllocation
<1>6. invoice' \in [Invoices -> InvoiceRow]
  BY <1>4, <1>5 DEF LedgerTypeOK
<1>7. receipt' \in [Sources -> ReceiptRow]
  <2>1. receipt' = [receipt EXCEPT ![s].unallocated = @ + a]
    BY DEF ReverseAllocation
  <2>2. receipt[s].unallocated + a \in Nat
    BY <1>2 DEF LedgerTypeOK, ReceiptRow
  <2> HIDE DEF a
  <2> QED BY <2>1, <2>2 DEF LedgerTypeOK, ReceiptRow
<1>8. allocation' \in [Sources -> [Invoices -> Seq(Nat \ {0})]]
  BY <1>3 DEF ReverseAllocation, LedgerTypeOK
<1>9. BalanceKept => BalanceKept'
  BY <1>4, <1>5 DEF BalanceKept, LedgerTypeOK
<1> QED BY <1>6, <1>7, <1>8, <1>9 DEF LedgerTypeOK, ReverseAllocation

LEMMA ConfirmProviderRefundKeeps ==
    ASSUME LedgerTypeOK, NEW s \in Sources, NEW amount \in Nat, NEW treatment,
           ConfirmProviderRefund(s, amount, treatment)
    PROVE  LedgerTypeOK' /\ (BalanceKept => BalanceKept')
<1>1. receipt' \in [Sources -> ReceiptRow]
  BY DEF ConfirmProviderRefund, Refundable, LedgerTypeOK, ReceiptRow
<1>2. /\ invoice' \in [Invoices -> InvoiceRow]
      /\ allocation' \in [Sources -> [Invoices -> Seq(Nat \ {0})]]
      /\ BalanceKept => BalanceKept'
  <2>1. CASE treatment # "PAYMENT_REVERSAL"
    BY <2>1 DEF ConfirmProviderRefund, LedgerTypeOK, BalanceKept
  <2>2. CASE treatment = "PAYMENT_REVERSAL"
    <3>1. PICK back \in [Invoices -> 0..amount] :
             /\ invoice' = [i \in Invoices |->
                   IF back[i] = 0 \/ invoice[i].status = "VOID"
                   THEN invoice[i] ELSE AfterReversal(invoice[i], back[i])]
             /\ allocation' = [allocation EXCEPT ![s] = [i \in Invoices |-> << >>]]
      BY <2>2 DEF ConfirmProviderRefund
    <3>2. \A i \in Invoices :
             /\ AfterReversal(invoice[i], back[i]) \in InvoiceRow
             /\ AfterReversal(invoice[i], back[i]).paid
                  + AfterReversal(invoice[i], back[i]).outstanding
                = invoice[i].paid + invoice[i].outstanding
      <4>1. \A i \in Invoices : invoice[i] \in InvoiceRow /\ back[i] \in Nat
        BY DEF LedgerTypeOK
      <4> QED BY <4>1, ReversalKeepsRow
    <3>3. invoice' \in [Invoices -> InvoiceRow]
      BY <3>1, <3>2 DEF LedgerTypeOK
    <3>4. allocation' \in [Sources -> [Invoices -> Seq(Nat \ {0})]]
      BY <3>1 DEF LedgerTypeOK
    <3>5. BalanceKept => BalanceKept'
      BY <3>1, <3>2 DEF BalanceKept
    <3> QED BY <3>3, <3>4, <3>5
  <2> QED BY <2>1, <2>2
<1> QED BY <1>1, <1>2 DEF ConfirmProviderRefund, LedgerTypeOK

LEMMA SettleFromWalletKeeps ==
    ASSUME LedgerTypeOK, NEW i \in Invoices, SettleFromWallet(i)
    PROVE  LedgerTypeOK' /\ (BalanceKept => BalanceKept')
<1> DEFINE used == IF cash < invoice[i].outstanding
                   THEN cash ELSE invoice[i].outstanding
<1>1. /\ used \in Nat \ {0} /\ used <= invoice[i].outstanding /\ cash - used \in Nat
      /\ invoice[i] \in InvoiceRow
  BY DEF SettleFromWallet, Payable, LedgerTypeOK, InvoiceRow
<1>2. /\ AfterPayment(invoice[i], used) \in InvoiceRow
      /\ AfterPayment(invoice[i], used).paid + AfterPayment(invoice[i], used).outstanding
           = invoice[i].paid + invoice[i].outstanding
  BY <1>1, PaymentKeepsRow
<1>3. /\ invoice' = [invoice EXCEPT ![i] = AfterPayment(@, used)]
      /\ settlement' = [settlement EXCEPT ![i] = Append(@, used)]
      /\ cash' = cash - used
      /\ UNCHANGED <<receipt, allocation>>
  BY DEF SettleFromWallet
<1> HIDE DEF used
<1>4. LedgerTypeOK'
  BY <1>1, <1>2, <1>3 DEF LedgerTypeOK
<1>5. BalanceKept => BalanceKept'
  BY <1>2, <1>3 DEF BalanceKept, LedgerTypeOK
<1> QED BY <1>4, <1>5

LEMMA ReverseSettlementKeeps ==
    ASSUME LedgerTypeOK, NEW i \in Invoices, NEW k, NEW late \in BOOLEAN,
           ReverseSettlement(i, k, late)
    PROVE  LedgerTypeOK' /\ (BalanceKept => BalanceKept')
<1>1. settlement[i] \in Seq(Nat \ {0}) /\ k \in DOMAIN settlement[i]
  BY DEF LedgerTypeOK, ReverseSettlement
<1>2. settlement[i][k] \in Nat
  BY <1>1
<1>3. RemoveAt(settlement[i], k) \in Seq(Nat \ {0})
  BY <1>1, RemoveAtTotal
<1>4. invoice' \in [Invoices -> InvoiceRow]
  BY <1>2 DEF ReverseSettlement, LedgerTypeOK, InvoiceRow, InvoiceStatus, OpenStatus
<1>5. settlement' \in [Invoices -> Seq(Nat \ {0})]
  BY <1>3 DEF ReverseSettlement, LedgerTypeOK
<1>6. cash' \in Nat
  BY <1>2 DEF ReverseSettlement, LedgerTypeOK
<1>7. BalanceKept => BalanceKept'
  BY <1>2 DEF ReverseSettlement, LedgerTypeOK, InvoiceRow, BalanceKept
<1> QED BY <1>4, <1>5, <1>6, <1>7 DEF ReverseSettlement, LedgerTypeOK

\* Withdrawing an invoice and marking it overdue change a status only.
LEMMA StatusKeeps ==
    ASSUME LedgerTypeOK, NEW i \in Invoices, VoidUnpaid(i) \/ MarkOverdue(i)
    PROVE  LedgerTypeOK' /\ (BalanceKept => BalanceKept')
  BY DEF VoidUnpaid, MarkOverdue, LedgerTypeOK, BalanceKept,
         InvoiceRow, InvoiceStatus, OpenStatus

LEMMA OfficeKeeps ==
    ASSUME LedgerTypeOK, OfficeNext
    PROVE  LedgerTypeOK' /\ (BalanceKept => BalanceKept')
<1>1. CASE BalanceNext
  BY <1>1, SettleFromWalletKeeps, ReverseSettlementKeeps, StatusKeeps,
     ReverseAllocationKeeps DEF BalanceNext
<1>2. ASSUME NEW s \in Sources, NEW held \in 0..MaxReceipt, AllocateNext(s, held)
      PROVE  LedgerTypeOK' /\ (BalanceKept => BalanceKept')
  <2>1. \A amount \in 1..MaxReceipt : amount \in Nat
    BY LedgerAssumption
  <2>2. held \in Nat
    BY LedgerAssumption
  <2> QED BY <1>2, <2>1, <2>2, AllocateKeeps DEF AllocateNext
<1> QED BY <1>1, <1>2 DEF OfficeNext

LEMMA LedgerNextKeeps ==
    ASSUME LedgerTypeOK, [LedgerNext]_ledgerVars
    PROVE  LedgerTypeOK' /\ (BalanceKept => BalanceKept')
<1>1. CASE OfficeNext
  BY <1>1, OfficeKeeps
<1>2. ASSUME NEW s \in Sources, NEW amount \in 1..MaxReceipt,
             \/ \E T \in SUBSET Invoices : ConfirmProviderPayment(s, amount, T)
             \/ RecordPayment(s, amount)
             \/ \E treatment \in {"UNALLOCATED_RETURN", "PAYMENT_REVERSAL"} :
                   ConfirmProviderRefund(s, amount, treatment)
      PROVE  LedgerTypeOK' /\ (BalanceKept => BalanceKept')
  <2>1. amount \in Nat
    BY LedgerAssumption
  <2> QED BY <1>2, <2>1, ConfirmProviderPaymentKeeps, RecordPaymentKeeps,
             ConfirmProviderRefundKeeps
<1>3. CASE UNCHANGED ledgerVars
  BY <1>3 DEF ledgerVars, LedgerTypeOK, BalanceKept
<1> QED BY <1>1, <1>2, <1>3 DEF LedgerNext

LEMMA LedgerInitially ==
    ASSUME LedgerInit
    PROVE  LedgerTypeOK /\ BalanceKept
  BY LedgerAssumption DEF LedgerInit, LedgerTypeOK, BalanceKept, InvoiceRow,
     InvoiceStatus, OpenStatus, ReceiptRow, NoReceipt

\* The tables stay well-formed: in particular no outstanding amount, no
\* unallocated or refunded amount and no wallet balance ever becomes negative,
\* whatever the invoices, receipts and amounts.
THEOREM LedgerTypes == LedgerSpec => []LedgerTypeOK
<1>1. LedgerInit => LedgerTypeOK
  BY LedgerInitially
<1>2. LedgerTypeOK /\ [LedgerNext]_ledgerVars => LedgerTypeOK'
  BY LedgerNextKeeps
<1> QED BY <1>1, <1>2, PTL DEF LedgerSpec

\* Paid and outstanding amount of every invoice always make up its issued total
\* (rider-payments.service.ts lines 114-145, 233-250, 489-532, 568-585 and
\* wallet-billing.service.ts lines 154-155, 217-221).
THEOREM BalancesKept == LedgerSpec => []BalanceKept
<1>1. LedgerInit => LedgerTypeOK /\ BalanceKept
  BY LedgerInitially
<1>2. LedgerTypeOK /\ BalanceKept /\ [LedgerNext]_ledgerVars
        => LedgerTypeOK' /\ BalanceKept'
  BY LedgerNextKeeps
<1> QED BY <1>1, <1>2, PTL DEF LedgerSpec

-----------------------------------------------------------------------------
(* Paid amounts, rows and receipts *)

RowTable == [Sources -> [Invoices -> Seq(Nat \ {0})]]
PaidTo(rows, i) == SumFunction([s \in Sources |-> RowTotal(rows[s][i])])
SpentOf(rows, s) == SumFunction([i \in Invoices |-> RowTotal(rows[s][i])])

\* What the status says of the amounts.
StatusFits(row) ==
    /\ row.status = "PAID" <=> row.outstanding = 0
    /\ row.status \in {"FINALIZED", "VOID"} => row.paid = 0
    /\ row.status = "PARTIALLY_PAID" => row.paid > 0

LEMMA PaidToType ==
    ASSUME NEW rows \in RowTable, NEW i \in Invoices
    PROVE  /\ PaidTo(rows, i) \in Nat
           /\ \A s \in Sources : RowTotal(rows[s][i]) <= PaidTo(rows, i)
<1> DEFINE f == [s \in Sources |-> RowTotal(rows[s][i])]
<1>1. \A s \in Sources : f[s] \in Nat
  <2>1. \A s \in Sources : rows[s][i] \in Seq(Nat \ {0})
    BY DEF RowTable
  <2> QED BY <2>1, RowTotalType
<1>2. DOMAIN f = Sources /\ IsFiniteSet(Sources)
  BY LedgerAssumption
<1>3. \A s \in Sources : f[s] = RowTotal(rows[s][i])
  OBVIOUS
<1>4. PaidTo(rows, i) = SumFunctionOnSet(f, Sources)
  BY <1>2 DEF PaidTo, SumFunction
<1> HIDE DEF f
<1>5. SumFunctionOnSet(f, Sources) \in Nat
  BY <1>1, <1>2, SumIsNat
<1>6. \A s \in Sources : f[s] <= SumFunctionOnSet(f, Sources)
  BY <1>1, <1>2, SumBoundsParts
<1> QED BY <1>3, <1>4, <1>5, <1>6

\* The rows of one source change.
LEMMA PaidToMoves ==
    ASSUME NEW rows \in RowTable, NEW after \in RowTable, NEW s \in Sources,
           NEW i \in Invoices, \A t \in Sources \ {s} : after[t][i] = rows[t][i]
    PROVE  PaidTo(after, i)
             = PaidTo(rows, i) + RowTotal(after[s][i]) - RowTotal(rows[s][i])
<1> DEFINE f == [t \in Sources |-> RowTotal(rows[t][i])]
           g == [t \in Sources |-> RowTotal(after[t][i])]
<1>1. \A t \in Sources : f[t] \in Int /\ g[t] \in Int
  <2>1. \A t \in Sources : rows[t][i] \in Seq(Nat \ {0}) /\ after[t][i] \in Seq(Nat \ {0})
    BY DEF RowTable
  <2> QED BY <2>1, RowTotalType
<1>2. \A t \in Sources \ {s} : f[t] = g[t]
  OBVIOUS
<1>3. IsFiniteSet(Sources)
  BY LedgerAssumption
<1>4. /\ PaidTo(rows, i) = SumFunctionOnSet(f, Sources) /\ f[s] = RowTotal(rows[s][i])
      /\ PaidTo(after, i) = SumFunctionOnSet(g, Sources) /\ g[s] = RowTotal(after[s][i])
  BY DEF PaidTo, SumFunction
<1> HIDE DEF f, g
<1>5. SumFunctionOnSet(g, Sources) = SumFunctionOnSet(f, Sources) + g[s] - f[s]
  BY <1>1, <1>2, <1>3, SumOneChanges
<1> QED BY <1>4, <1>5

LEMMA PaymentFits ==
    ASSUME NEW row \in InvoiceRow, row.paid \in Nat, StatusFits(row),
           NEW a \in Nat, a <= row.outstanding, a > 0 => row.status # "VOID"
    PROVE  /\ StatusFits(AfterPayment(row, a))
           /\ AfterPayment(row, a).paid = row.paid + a
  BY DEF AfterPayment, StatusFits, InvoiceRow, InvoiceStatus, OpenStatus

LEMMA ReversalFits ==
    ASSUME NEW row \in InvoiceRow, StatusFits(row), row.status # "VOID",
           NEW a \in Nat \ {0}, a <= row.paid
    PROVE  /\ StatusFits(AfterReversal(row, a))
           /\ AfterReversal(row, a).paid = row.paid - a
  BY DEF AfterReversal, StatusFits, InvoiceRow, InvoiceStatus, OpenStatus

\* InvoiceBalanced, with the rows named.
Fits(row, rows, settled, i) ==
    /\ row.paid = PaidTo(rows, i) + RowTotal(settled)
    /\ StatusFits(row)

LEMMA BalancedIsFitting ==
    InvoiceBalanced <=> \A i \in Invoices : Fits(invoice[i], allocation, settlement[i], i)
BY DEF InvoiceBalanced, Fits, StatusFits, AllocatedTo, PaidTo

LEMMA BalancedIsFittingNext ==
    InvoiceBalanced'
      <=> \A i \in Invoices : Fits(invoice'[i], allocation', settlement'[i], i)
BY DEF InvoiceBalanced, Fits, StatusFits, AllocatedTo, PaidTo

\* The amounts behind an invoice are natural numbers, of which each row is a part.
LEMMA PaidIsNatural ==
    ASSUME LedgerTypeOK, InvoiceBalanced, NEW i \in Invoices
    PROVE  /\ invoice[i].paid \in Nat /\ RowTotal(settlement[i]) \in Nat
           /\ PaidTo(allocation, i) \in Nat
           /\ \A s \in Sources : RowTotal(allocation[s][i]) <= invoice[i].paid
           /\ RowTotal(settlement[i]) <= invoice[i].paid
<1>1. RowTotal(settlement[i]) \in Nat
  BY RowTotalType DEF LedgerTypeOK
<1>2. /\ PaidTo(allocation, i) \in Nat
      /\ \A s \in Sources : RowTotal(allocation[s][i]) <= PaidTo(allocation, i)
  BY PaidToType DEF LedgerTypeOK, RowTable
<1>3. invoice[i].paid = PaidTo(allocation, i) + RowTotal(settlement[i])
  BY BalancedIsFitting DEF Fits
<1>4. \A s \in Sources : RowTotal(allocation[s][i]) \in Nat
  BY RowTotalType DEF LedgerTypeOK
<1> QED BY <1>1, <1>2, <1>3, <1>4

\* Spreading money over invoices.
LEMMA ApplyBalances ==
    ASSUME LedgerTypeOK, InvoiceBalanced, NEW s \in Sources, NEW amount \in Nat,
           NEW T, NEW rank, NEW applied \in [Invoices -> 0..amount],
           IsWaterfall(applied, amount, T, rank), Apply(s, applied),
           settlement' = settlement
    PROVE  InvoiceBalanced'
<1>1. allocation \in RowTable /\ allocation' \in RowTable
  BY ApplyKeeps DEF LedgerTypeOK, RowTable
<1>2. SUFFICES ASSUME NEW i \in Invoices
               PROVE  Fits(invoice'[i], allocation', settlement'[i], i)
  BY BalancedIsFittingNext
<1>3. /\ applied[i] \in Nat /\ applied[i] <= invoice[i].outstanding
      /\ applied[i] > 0 => invoice[i].status # "VOID"
  <2>1. invoice[i].outstanding \in Nat /\ applied[i] \in Nat
    BY DEF LedgerTypeOK, InvoiceRow
  <2>2. applied[i] <= IF i \in T /\ Payable(i) THEN invoice[i].outstanding ELSE 0
    BY DEF IsWaterfall
  <2>3. Payable(i) => invoice[i].status # "VOID"
    BY DEF Payable, OpenStatus
  <2> QED BY <2>1, <2>2, <2>3
<1>4. /\ invoice[i] \in InvoiceRow /\ invoice[i].paid \in Nat
      /\ Fits(invoice[i], allocation, settlement[i], i)
  BY PaidIsNatural, BalancedIsFitting DEF LedgerTypeOK
<1>5. /\ invoice'[i] = AfterPayment(invoice[i], applied[i])
      /\ StatusFits(AfterPayment(invoice[i], applied[i]))
      /\ AfterPayment(invoice[i], applied[i]).paid = invoice[i].paid + applied[i]
  BY <1>3, <1>4, PaymentFits DEF Apply, Fits
<1>6. \A t \in Sources \ {s} : allocation'[t][i] = allocation[t][i]
  BY DEF Apply, LedgerTypeOK
<1>7. RowTotal(allocation'[s][i]) = RowTotal(allocation[s][i]) + applied[i]
  <2>1. allocation'[s][i] = IF applied[i] = 0 THEN allocation[s][i]
                            ELSE Append(allocation[s][i], applied[i])
    BY DEF Apply, LedgerTypeOK
  <2>2. allocation[s][i] \in Seq(Nat \ {0})
    BY DEF LedgerTypeOK
  <2> QED BY <1>3, <2>1, <2>2, AppendTotal, RowTotalType
<1>8. PaidTo(allocation', i) = PaidTo(allocation, i) + applied[i]
  <2>1. RowTotal(allocation[s][i]) \in Nat /\ PaidTo(allocation, i) \in Nat
    BY <1>1, RowTotalType, PaidToType DEF RowTable
  <2>2. PaidTo(allocation', i) = PaidTo(allocation, i)
          + RowTotal(allocation'[s][i]) - RowTotal(allocation[s][i])
    BY <1>1, <1>6, PaidToMoves
  <2> QED BY <1>3, <1>7, <2>1, <2>2
<1>9. RowTotal(settlement[i]) \in Nat /\ PaidTo(allocation, i) \in Nat
  BY PaidIsNatural
<1> QED BY <1>3, <1>4, <1>5, <1>8, <1>9 DEF Fits

\* Row k of source s is taken back.
LEMMA ReverseAllocationBalances ==
    ASSUME LedgerTypeOK, InvoiceBalanced, NEW s \in Sources, NEW i \in Invoices,
           NEW k, ReverseAllocation(s, i, k)
    PROVE  InvoiceBalanced'
<1> DEFINE a == allocation[s][i][k]
           rows == allocation[s][i]
<1>1. rows \in Seq(Nat \ {0}) /\ k \in DOMAIN rows /\ a \in Nat \ {0}
  BY DEF LedgerTypeOK, ReverseAllocation
<1>2. /\ RemoveAt(rows, k) \in Seq(Nat \ {0})
      /\ RowTotal(RemoveAt(rows, k)) = RowTotal(rows) - a
      /\ a <= RowTotal(rows) /\ RowTotal(rows) \in Nat
  BY <1>1, RemoveAtTotal, RowTotalType
<1>3. /\ allocation' = [allocation EXCEPT ![s][i] = RemoveAt(rows, k)]
      /\ invoice' = [invoice EXCEPT ![i] = AfterReversal(@, a)]
      /\ settlement' = settlement /\ invoice[i].status # "VOID"
  BY DEF ReverseAllocation
<1>4. allocation \in RowTable /\ allocation' \in RowTable
  BY <1>2, <1>3 DEF LedgerTypeOK, RowTable
<1>5. SUFFICES ASSUME NEW j \in Invoices
               PROVE  Fits(invoice'[j], allocation', settlement'[j], j)
  BY BalancedIsFittingNext
<1>6. /\ invoice[j] \in InvoiceRow /\ invoice[j].paid \in Nat
      /\ Fits(invoice[j], allocation, settlement[j], j)
      /\ RowTotal(allocation[s][j]) <= invoice[j].paid
      /\ RowTotal(settlement[j]) \in Nat /\ PaidTo(allocation, j) \in Nat
      /\ RowTotal(allocation[s][j]) \in Nat
  BY PaidIsNatural, BalancedIsFitting, RowTotalType DEF LedgerTypeOK
<1>7. \A t \in Sources \ {s} : allocation'[t][j] = allocation[t][j]
  BY <1>3 DEF LedgerTypeOK
<1>8. PaidTo(allocation', j) = PaidTo(allocation, j)
        + RowTotal(allocation'[s][j]) - RowTotal(allocation[s][j])
  BY <1>4, <1>7, PaidToMoves
<1>9. CASE j = i
  <2>1. allocation'[s][j] = RemoveAt(rows, k) /\ rows = allocation[s][j]
    BY <1>3, <1>9 DEF LedgerTypeOK
  <2>2. invoice'[j] = AfterReversal(invoice[j], a) /\ settlement'[j] = settlement[j]
    BY <1>3, <1>9 DEF LedgerTypeOK
  <2>3. a <= invoice[j].paid
    BY <1>1, <1>2, <1>6, <2>1
  <2>4. StatusFits(invoice'[j]) /\ invoice'[j].paid = invoice[j].paid - a
    BY <1>1, <1>3, <1>6, <1>9, <2>2, <2>3, ReversalFits DEF Fits
  <2> HIDE DEF a, rows
  <2>5. PaidTo(allocation', j) = PaidTo(allocation, j) - a
    BY <1>1, <1>2, <1>6, <1>8, <2>1
  <2> QED BY <1>1, <1>6, <2>2, <2>4, <2>5 DEF Fits
<1>10. CASE j # i
  <2>1. /\ allocation'[s][j] = allocation[s][j] /\ invoice'[j] = invoice[j]
        /\ settlement'[j] = settlement[j]
    BY <1>3, <1>10 DEF LedgerTypeOK
  <2>2. PaidTo(allocation', j) = PaidTo(allocation, j)
    BY <1>6, <1>8, <2>1
  <2> QED BY <1>6, <2>1, <2>2 DEF Fits
<1> QED BY <1>9, <1>10

\* A reversed payment takes all of its rows back.
LEMMA RefundBalances ==
    ASSUME LedgerTypeOK, InvoiceBalanced, NEW s \in Sources, NEW amount \in Nat,
           NEW treatment, ConfirmProviderRefund(s, amount, treatment)
    PROVE  InvoiceBalanced'
<1>1. CASE treatment # "PAYMENT_REVERSAL"
  <2>1. UNCHANGED <<invoice, allocation, settlement>>
    BY <1>1 DEF ConfirmProviderRefund
  <2> QED BY <2>1, BalancedIsFitting, BalancedIsFittingNext
<1>2. CASE treatment = "PAYMENT_REVERSAL"
  <2>1. PICK back \in [Invoices -> 0..amount] :
           /\ \A i \in Invoices : back[i] = RowTotal(allocation[s][i])
           /\ invoice' = [i \in Invoices |->
                 IF back[i] = 0 \/ invoice[i].status = "VOID"
                 THEN invoice[i] ELSE AfterReversal(invoice[i], back[i])]
           /\ allocation' = [allocation EXCEPT ![s] = [i \in Invoices |-> << >>]]
    BY <1>2 DEF ConfirmProviderRefund
  <2>2. allocation \in RowTable /\ allocation' \in RowTable /\ settlement' = settlement
    BY <2>1 DEF LedgerTypeOK, RowTable, ConfirmProviderRefund
  <2>3. SUFFICES ASSUME NEW j \in Invoices
                 PROVE  Fits(invoice'[j], allocation', settlement'[j], j)
    BY BalancedIsFittingNext
  <2>4. /\ invoice[j] \in InvoiceRow /\ invoice[j].paid \in Nat
        /\ Fits(invoice[j], allocation, settlement[j], j)
        /\ back[j] <= invoice[j].paid /\ back[j] \in Nat
        /\ RowTotal(settlement[j]) \in Nat /\ PaidTo(allocation, j) \in Nat
    BY <2>1, PaidIsNatural, BalancedIsFitting, RowTotalType DEF LedgerTypeOK
  <2>5. PaidTo(allocation', j) = PaidTo(allocation, j) - back[j]
    <3>1. /\ \A t \in Sources \ {s} : allocation'[t][j] = allocation[t][j]
          /\ allocation'[s][j] = << >>
      BY <2>1 DEF LedgerTypeOK
    <3>2. RowTotal(allocation'[s][j]) = 0
      BY <3>1, <2>2, RowTotalType DEF RowTable
    <3>3. PaidTo(allocation', j) = PaidTo(allocation, j)
            + RowTotal(allocation'[s][j]) - RowTotal(allocation[s][j])
      BY <2>2, <3>1, PaidToMoves
    <3> QED BY <2>1, <2>4, <3>2, <3>3
  <2>6. invoice'[j] = IF back[j] = 0 \/ invoice[j].status = "VOID"
                      THEN invoice[j] ELSE AfterReversal(invoice[j], back[j])
    BY <2>1
  <2>7. CASE back[j] = 0 \/ invoice[j].status = "VOID"
    <3>1. back[j] = 0
      BY <2>4, <2>7 DEF Fits, StatusFits
    <3> QED BY <2>2, <2>4, <2>5, <2>6, <3>1 DEF Fits
  <2>8. CASE ~(back[j] = 0 \/ invoice[j].status = "VOID")
    <3>1. StatusFits(invoice'[j]) /\ invoice'[j].paid = invoice[j].paid - back[j]
      BY <2>4, <2>6, <2>8, ReversalFits DEF Fits
    <3> QED BY <2>2, <2>4, <2>5, <3>1 DEF Fits
  <2> QED BY <2>7, <2>8
<1> QED BY <1>1, <1>2

LEMMA SettleFromWalletBalances ==
    ASSUME LedgerTypeOK, InvoiceBalanced, NEW i \in Invoices, SettleFromWallet(i)
    PROVE  InvoiceBalanced'
<1> DEFINE used == IF cash < invoice[i].outstanding
                   THEN cash ELSE invoice[i].outstanding
<1>1. /\ used \in Nat \ {0} /\ used <= invoice[i].outstanding
      /\ invoice[i].status # "VOID"
  BY DEF SettleFromWallet, Payable, OpenStatus, LedgerTypeOK, InvoiceRow
<1>2. /\ invoice' = [invoice EXCEPT ![i] = AfterPayment(@, used)]
      /\ settlement' = [settlement EXCEPT ![i] = Append(@, used)]
      /\ allocation' = allocation
  BY DEF SettleFromWallet
<1> HIDE DEF used
<1>3. SUFFICES ASSUME NEW j \in Invoices
               PROVE  Fits(invoice'[j], allocation', settlement'[j], j)
  BY BalancedIsFittingNext
<1>4. /\ invoice[j] \in InvoiceRow /\ invoice[j].paid \in Nat
      /\ Fits(invoice[j], allocation, settlement[j], j)
      /\ RowTotal(settlement[j]) \in Nat /\ PaidTo(allocation, j) \in Nat
      /\ settlement[j] \in Seq(Nat \ {0})
  BY PaidIsNatural, BalancedIsFitting DEF LedgerTypeOK
<1>5. CASE j = i
  <2>1. /\ invoice'[j] = AfterPayment(invoice[j], used)
        /\ settlement'[j] = Append(settlement[j], used)
    BY <1>2, <1>5 DEF LedgerTypeOK
  <2>2. RowTotal(settlement'[j]) = RowTotal(settlement[j]) + used
    BY <1>1, <1>4, <2>1, AppendTotal
  <2>3. StatusFits(invoice'[j]) /\ invoice'[j].paid = invoice[j].paid + used
    BY <1>1, <1>4, <1>5, <2>1, PaymentFits DEF Fits
  <2> QED BY <1>1, <1>2, <1>4, <2>2, <2>3 DEF Fits
<1>6. CASE j # i
  <2>1. invoice'[j] = invoice[j] /\ settlement'[j] = settlement[j]
    BY <1>2, <1>6 DEF LedgerTypeOK
  <2> QED BY <1>2, <1>4, <2>1 DEF Fits
<1> QED BY <1>5, <1>6

LEMMA ReverseSettlementBalances ==
    ASSUME LedgerTypeOK, InvoiceBalanced, NEW i \in Invoices, NEW k,
           NEW late \in BOOLEAN, ReverseSettlement(i, k, late)
    PROVE  InvoiceBalanced'
<1> DEFINE a == settlement[i][k]
<1>1. settlement[i] \in Seq(Nat \ {0}) /\ k \in DOMAIN settlement[i] /\ a \in Nat \ {0}
  BY DEF LedgerTypeOK, ReverseSettlement
<1>2. /\ RowTotal(RemoveAt(settlement[i], k)) = RowTotal(settlement[i]) - a
      /\ a <= RowTotal(settlement[i]) /\ RowTotal(settlement[i]) \in Nat
  BY <1>1, RemoveAtTotal, RowTotalType
<1>3. /\ invoice' = [invoice EXCEPT ![i] =
             [status |-> IF late THEN "OVERDUE"
                         ELSE IF @.paid = a THEN "FINALIZED" ELSE "PARTIALLY_PAID",
              paid |-> @.paid - a,
              outstanding |-> @.outstanding + a]]
      /\ settlement' = [settlement EXCEPT ![i] = RemoveAt(@, k)]
      /\ allocation' = allocation
  BY DEF ReverseSettlement
<1>4. SUFFICES ASSUME NEW j \in Invoices
               PROVE  Fits(invoice'[j], allocation', settlement'[j], j)
  BY BalancedIsFittingNext
<1>5. /\ invoice[j] \in InvoiceRow /\ invoice[j].paid \in Nat
      /\ Fits(invoice[j], allocation, settlement[j], j)
      /\ RowTotal(settlement[j]) <= invoice[j].paid
      /\ RowTotal(settlement[j]) \in Nat /\ PaidTo(allocation, j) \in Nat
  BY PaidIsNatural, BalancedIsFitting DEF LedgerTypeOK
<1>6. CASE j = i
  <2>1. /\ invoice'[j] = [status |-> IF late THEN "OVERDUE"
                               ELSE IF invoice[j].paid = a
                               THEN "FINALIZED" ELSE "PARTIALLY_PAID",
                          paid |-> invoice[j].paid - a,
                          outstanding |-> invoice[j].outstanding + a]
        /\ settlement'[j] = RemoveAt(settlement[i], k)
    BY <1>3, <1>6 DEF LedgerTypeOK
  <2>2. a <= invoice[j].paid /\ invoice[j].outstanding \in Nat
    BY <1>1, <1>2, <1>5, <1>6 DEF InvoiceRow
  <2> HIDE DEF a
  <2>3. StatusFits(invoice'[j]) /\ invoice'[j].paid = invoice[j].paid - a
    BY <1>1, <1>5, <2>1, <2>2 DEF StatusFits
  <2>4. RowTotal(settlement'[j]) = RowTotal(settlement[j]) - a
    BY <1>2, <1>6, <2>1
  <2> QED BY <1>1, <1>3, <1>5, <2>3, <2>4 DEF Fits
<1>7. CASE j # i
  <2>1. invoice'[j] = invoice[j] /\ settlement'[j] = settlement[j]
    BY <1>3, <1>7 DEF LedgerTypeOK
  <2> QED BY <1>3, <1>5, <2>1 DEF Fits
<1> QED BY <1>6, <1>7

\* An invoice is withdrawn before anything is paid, and overdue only while
\* something is owed.
LEMMA StatusBalances ==
    ASSUME LedgerTypeOK, InvoiceBalanced, BalanceKept, NEW i \in Invoices,
           VoidUnpaid(i) \/ MarkOverdue(i)
    PROVE  InvoiceBalanced'
<1>1. SUFFICES ASSUME NEW j \in Invoices
               PROVE  Fits(invoice'[j], allocation', settlement'[j], j)
  BY BalancedIsFittingNext
<1>2. /\ invoice[j] \in InvoiceRow /\ invoice[j].paid \in Nat
      /\ Fits(invoice[j], allocation, settlement[j], j)
      /\ Total[i] \in Nat \ {0}
  BY PaidIsNatural, BalancedIsFitting, LedgerAssumption DEF LedgerTypeOK
<1>3. allocation' = allocation /\ settlement' = settlement
  BY DEF VoidUnpaid, MarkOverdue
<1>4. CASE VoidUnpaid(i)
  <2>1. /\ invoice' = [invoice EXCEPT ![i].status = "VOID"]
        /\ invoice[i].paid <= 0 /\ invoice[i].outstanding >= Total[i]
    BY <1>4 DEF VoidUnpaid
  <2>2. /\ invoice'[j].paid = invoice[j].paid
        /\ StatusFits(invoice'[j])
    <3>1. CASE j = i
      <4>1. /\ invoice'[j].status = "VOID" /\ invoice'[j].paid = invoice[j].paid
            /\ invoice'[j].outstanding = invoice[j].outstanding
        BY <2>1, <3>1 DEF LedgerTypeOK, InvoiceRow
      <4> QED BY <1>2, <2>1, <3>1, <4>1 DEF StatusFits, InvoiceRow
    <3>2. CASE j # i
      BY <1>2, <2>1, <3>2 DEF Fits, LedgerTypeOK
    <3> QED BY <3>1, <3>2
  <2> QED BY <1>2, <1>3, <2>2 DEF Fits
<1>5. CASE MarkOverdue(i)
  <2>1. /\ invoice' = [invoice EXCEPT ![i].status = "OVERDUE"]
        /\ invoice[i].outstanding > 0
    BY <1>5 DEF MarkOverdue
  <2>2. /\ invoice'[j].paid = invoice[j].paid
        /\ StatusFits(invoice'[j])
    <3>1. CASE j = i
      <4>1. /\ invoice'[j].status = "OVERDUE" /\ invoice'[j].paid = invoice[j].paid
            /\ invoice'[j].outstanding = invoice[j].outstanding
        BY <2>1, <3>1 DEF LedgerTypeOK, InvoiceRow
      <4> QED BY <1>2, <2>1, <3>1, <4>1 DEF StatusFits, InvoiceRow
    <3>2. CASE j # i
      BY <1>2, <2>1, <3>2 DEF Fits, LedgerTypeOK
    <3> QED BY <3>1, <3>2
  <2> QED BY <1>2, <1>3, <2>2 DEF Fits
<1> QED BY <1>4, <1>5

LEMMA ConfirmProviderPaymentBalances ==
    ASSUME LedgerTypeOK, InvoiceBalanced, NEW s \in Sources, NEW amount \in Nat,
           NEW T, ConfirmProviderPayment(s, amount, T)
    PROVE  InvoiceBalanced'
<1>1. CASE UNCHANGED ledgerVars
  BY <1>1, BalancedIsFitting, BalancedIsFittingNext DEF ledgerVars
<1>2. CASE ~Recorded(s)
  <2>1. PICK applied \in [Invoices -> 0..amount] :
           /\ IsWaterfall(applied, amount, T, Due)
           /\ Apply(s, applied)
    BY <1>2 DEF ConfirmProviderPayment
  <2>2. settlement' = settlement
    BY <1>2 DEF ConfirmProviderPayment
  <2> QED BY <2>1, <2>2, ApplyBalances
<1> QED BY <1>1, <1>2 DEF ConfirmProviderPayment

LEMMA AllocateBalances ==
    ASSUME LedgerTypeOK, InvoiceBalanced, NEW s \in Sources, NEW amount \in Nat,
           NEW T, NEW rank, NEW held, Allocate(s, amount, T, rank, held)
    PROVE  InvoiceBalanced'
<1>1. PICK applied \in [Invoices -> 0..amount] :
         /\ IsWaterfall(applied, amount, T, rank)
         /\ Apply(s, applied)
  BY DEF Allocate
<1>2. settlement' = settlement
  BY DEF Allocate
<1> QED BY <1>1, <1>2, ApplyBalances

LEMMA FrameBalances ==
    ASSUME InvoiceBalanced, UNCHANGED <<invoice, allocation, settlement>>
    PROVE  InvoiceBalanced'
  BY BalancedIsFitting, BalancedIsFittingNext

LEMMA OfficeBalances ==
    ASSUME LedgerTypeOK, BalanceKept, InvoiceBalanced, OfficeNext
    PROVE  InvoiceBalanced'
<1>1. CASE BalanceNext
  BY <1>1, SettleFromWalletBalances, ReverseSettlementBalances, StatusBalances,
     ReverseAllocationBalances DEF BalanceNext
<1>2. ASSUME NEW s \in Sources, NEW held \in 0..MaxReceipt, AllocateNext(s, held)
      PROVE  InvoiceBalanced'
  <2>1. \A amount \in 1..MaxReceipt : amount \in Nat
    BY LedgerAssumption
  <2> QED BY <1>2, <2>1, AllocateBalances DEF AllocateNext
<1> QED BY <1>1, <1>2 DEF OfficeNext

LEMMA LedgerNextBalances ==
    ASSUME LedgerTypeOK, BalanceKept, InvoiceBalanced, [LedgerNext]_ledgerVars
    PROVE  InvoiceBalanced'
<1>1. CASE OfficeNext
  BY <1>1, OfficeBalances
<1>2. ASSUME NEW s \in Sources, NEW amount \in 1..MaxReceipt,
             \/ \E T \in SUBSET Invoices : ConfirmProviderPayment(s, amount, T)
             \/ RecordPayment(s, amount)
             \/ \E treatment \in {"UNALLOCATED_RETURN", "PAYMENT_REVERSAL"} :
                   ConfirmProviderRefund(s, amount, treatment)
      PROVE  InvoiceBalanced'
  <2>1. amount \in Nat
    BY LedgerAssumption
  <2>2. RecordPayment(s, amount) => UNCHANGED <<invoice, allocation, settlement>>
    BY DEF RecordPayment
  <2> QED BY <1>2, <2>1, <2>2, ConfirmProviderPaymentBalances, RefundBalances,
             FrameBalances
<1>3. CASE UNCHANGED ledgerVars
  BY <1>3, FrameBalances DEF ledgerVars
<1> QED BY <1>1, <1>2, <1>3 DEF LedgerNext

LEMMA BalancedInitially ==
    ASSUME LedgerInit
    PROVE  InvoiceBalanced
<1>1. SUFFICES ASSUME NEW i \in Invoices
               PROVE  Fits(invoice[i], allocation, settlement[i], i)
  BY BalancedIsFitting
<1>2. /\ invoice[i] = [status |-> "FINALIZED", paid |-> 0, outstanding |-> Total[i]]
      /\ settlement[i] = << >> /\ \A s \in Sources : allocation[s][i] = << >>
      /\ Total[i] \in Nat \ {0}
  BY LedgerAssumption DEF LedgerInit
<1>3. RowTotal(<< >>) = 0
  <2>1. << >> \in Seq(Nat \ {0})
    OBVIOUS
  <2> QED BY <2>1, RowTotalType
<1>4. PaidTo(allocation, i) = 0
  <2> DEFINE f == [s \in Sources |-> RowTotal(allocation[s][i])]
  <2>1. DOMAIN f = Sources /\ IsFiniteSet(Sources) /\ \A s \in Sources : f[s] = 0
    BY <1>2, <1>3, LedgerAssumption
  <2>2. PaidTo(allocation, i) = SumFunctionOnSet(f, Sources)
    BY <2>1 DEF PaidTo, SumFunction
  <2> HIDE DEF f
  <2> QED BY <2>1, <2>2, SumOfZeros
<1> QED BY <1>2, <1>3, <1>4 DEF Fits, StatusFits

\* The paid amount of every invoice is exactly the unreversed rows that pay it,
\* for any number of receipts, and its status says how much that is
\* (rider-payments.service.ts lines 114-145, 233-250, 489-532, 568-585 and
\* wallet-billing.service.ts lines 154-155, 217-221).
THEOREM InvoicesBalance == LedgerSpec => []InvoiceBalanced
<1>1. LedgerInit => LedgerTypeOK /\ BalanceKept /\ InvoiceBalanced
  BY LedgerInitially, BalancedInitially
<1>2. LedgerTypeOK /\ BalanceKept /\ InvoiceBalanced /\ [LedgerNext]_ledgerVars
        => LedgerTypeOK' /\ BalanceKept' /\ InvoiceBalanced'
  BY LedgerNextKeeps, LedgerNextBalances
<1> QED BY <1>1, <1>2, PTL DEF LedgerSpec

-----------------------------------------------------------------------------
(* Receipts *)

LEMMA SpentOfType ==
    ASSUME NEW rows \in RowTable, NEW s \in Sources
    PROVE  /\ SpentOf(rows, s) \in Nat
           /\ (\A i \in Invoices : rows[s][i] = << >>) => SpentOf(rows, s) = 0
<1> DEFINE f == [i \in Invoices |-> RowTotal(rows[s][i])]
<1>1. \A i \in Invoices : f[i] \in Nat /\ (rows[s][i] = << >> => f[i] = 0)
  <2>1. \A i \in Invoices : rows[s][i] \in Seq(Nat \ {0})
    BY DEF RowTable
  <2> QED BY <2>1, RowTotalType
<1>2. SpentOf(rows, s) = SumFunctionOnSet(f, Invoices) /\ IsFiniteSet(Invoices)
  BY LedgerAssumption DEF SpentOf, SumFunction
<1> HIDE DEF f
<1>3. SumFunctionOnSet(f, Invoices) \in Nat
  BY <1>1, <1>2, SumIsNat
<1>4. (\A i \in Invoices : rows[s][i] = << >>) => SumFunctionOnSet(f, Invoices) = 0
  BY <1>1, <1>2, SumOfZeros
<1> QED BY <1>2, <1>3, <1>4

\* The rows of a source grow by what is applied.
LEMMA SpentOfGrows ==
    ASSUME NEW rows \in RowTable, NEW after \in RowTable, NEW s \in Sources,
           NEW applied \in [Invoices -> Nat],
           \A i \in Invoices : RowTotal(after[s][i]) = RowTotal(rows[s][i]) + applied[i]
    PROVE  /\ SumFunction(applied) \in Nat
           /\ SpentOf(after, s) = SpentOf(rows, s) + SumFunction(applied)
<1> DEFINE f == [i \in Invoices |-> RowTotal(rows[s][i])]
           g == [i \in Invoices |-> RowTotal(after[s][i])]
<1>1. \A i \in Invoices : /\ f[i] \in Int /\ g[i] \in Int /\ applied[i] \in Nat
                          /\ applied[i] = g[i] - f[i]
  <2>1. \A i \in Invoices : rows[s][i] \in Seq(Nat \ {0}) /\ after[s][i] \in Seq(Nat \ {0})
    BY DEF RowTable
  <2>2. \A i \in Invoices : RowTotal(rows[s][i]) \in Nat /\ RowTotal(after[s][i]) \in Nat
    BY <2>1, RowTotalType
  <2> QED BY <2>2
<1>2. /\ SpentOf(rows, s) = SumFunctionOnSet(f, Invoices)
      /\ SpentOf(after, s) = SumFunctionOnSet(g, Invoices)
      /\ SumFunction(applied) = SumFunctionOnSet(applied, Invoices)
      /\ IsFiniteSet(Invoices)
  BY LedgerAssumption DEF SpentOf, SumFunction
<1> HIDE DEF f, g
<1>3. SumFunctionOnSet(applied, Invoices)
        = SumFunctionOnSet(g, Invoices) - SumFunctionOnSet(f, Invoices)
  BY <1>1, <1>2, SumOfDifferences
<1>4. /\ SumFunctionOnSet(g, Invoices) \in Int /\ SumFunctionOnSet(f, Invoices) \in Int
  BY <1>1, <1>2, SumIsInt
<1>5. SumFunctionOnSet(applied, Invoices) \in Nat
  BY <1>1, <1>2, SumIsNat
<1> QED BY <1>2, <1>3, <1>4, <1>5

\* One row of a source is taken out.
LEMMA SpentOfShrinks ==
    ASSUME NEW rows \in RowTable, NEW after \in RowTable, NEW s \in Sources,
           NEW i \in Invoices, \A j \in Invoices \ {i} : after[s][j] = rows[s][j]
    PROVE  SpentOf(after, s)
             = SpentOf(rows, s) + RowTotal(after[s][i]) - RowTotal(rows[s][i])
<1> DEFINE f == [j \in Invoices |-> RowTotal(rows[s][j])]
           g == [j \in Invoices |-> RowTotal(after[s][j])]
<1>1. \A j \in Invoices : f[j] \in Int /\ g[j] \in Int
  <2>1. \A j \in Invoices : rows[s][j] \in Seq(Nat \ {0}) /\ after[s][j] \in Seq(Nat \ {0})
    BY DEF RowTable
  <2> QED BY <2>1, RowTotalType
<1>2. \A j \in Invoices \ {i} : f[j] = g[j]
  OBVIOUS
<1>3. IsFiniteSet(Invoices)
  BY LedgerAssumption
<1>4. /\ SpentOf(rows, s) = SumFunctionOnSet(f, Invoices) /\ f[i] = RowTotal(rows[s][i])
      /\ SpentOf(after, s) = SumFunctionOnSet(g, Invoices) /\ g[i] = RowTotal(after[s][i])
  BY DEF SpentOf, SumFunction
<1> HIDE DEF f, g
<1>5. SumFunctionOnSet(g, Invoices) = SumFunctionOnSet(f, Invoices) + g[i] - f[i]
  BY <1>1, <1>2, <1>3, SumOneChanges
<1> QED BY <1>4, <1>5

AddsUp(row, rows, s) == row.amount = row.unallocated + SpentOf(rows, s) + row.refunded

\* A receipt that is not recorded has no rows.
Unrecorded(row, rows, s) ==
    row.status = "NONE" => row = NoReceipt /\ \A i \in Invoices : rows[s][i] = << >>

ReceiptsInv ==
    \A s \in Sources :
        AddsUp(receipt[s], allocation, s) /\ Unrecorded(receipt[s], allocation, s)

LEMMA ReceiptsInvNext ==
    ReceiptsInv' <=> \A s \in Sources : /\ AddsUp(receipt'[s], allocation', s)
                                        /\ Unrecorded(receipt'[s], allocation', s)
BY DEF ReceiptsInv, AddsUp, Unrecorded, SpentOf

\* A source whose receipt and rows a transaction leaves alone.
LEMMA UntouchedSource ==
    ASSUME ReceiptsInv, NEW t \in Sources, receipt'[t] = receipt[t],
           allocation'[t] = allocation[t]
    PROVE  AddsUp(receipt'[t], allocation', t) /\ Unrecorded(receipt'[t], allocation', t)
BY DEF ReceiptsInv, AddsUp, Unrecorded, SpentOf

LEMMA ApplySpends ==
    ASSUME LedgerTypeOK, NEW s \in Sources, NEW amount \in Nat, NEW T, NEW rank,
           NEW applied \in [Invoices -> 0..amount],
           IsWaterfall(applied, amount, T, rank), Apply(s, applied)
    PROVE  /\ allocation \in RowTable /\ allocation' \in RowTable
           /\ SumFunction(applied) \in Nat
           /\ SpentOf(allocation', s) = SpentOf(allocation, s) + SumFunction(applied)
           /\ \A t \in Sources \ {s} : allocation'[t] = allocation[t]
<1>1. allocation \in RowTable /\ allocation' \in RowTable
  BY ApplyKeeps DEF LedgerTypeOK, RowTable
<1>2. ASSUME NEW i \in Invoices
      PROVE  RowTotal(allocation'[s][i]) = RowTotal(allocation[s][i]) + applied[i]
  <2>1. allocation'[s][i] = IF applied[i] = 0 THEN allocation[s][i]
                            ELSE Append(allocation[s][i], applied[i])
    BY DEF Apply, LedgerTypeOK
  <2>2. allocation[s][i] \in Seq(Nat \ {0}) /\ applied[i] \in Nat
    BY DEF LedgerTypeOK
  <2> QED BY <2>1, <2>2, AppendTotal, RowTotalType
<1>3. applied \in [Invoices -> Nat]
  OBVIOUS
<1>4. /\ SumFunction(applied) \in Nat
      /\ SpentOf(allocation', s) = SpentOf(allocation, s) + SumFunction(applied)
  BY <1>1, <1>2, <1>3, SpentOfGrows
<1>5. \A t \in Sources \ {s} : allocation'[t] = allocation[t]
  BY DEF Apply, LedgerTypeOK
<1> QED BY <1>1, <1>4, <1>5

LEMMA ConfirmProviderPaymentAddsUp ==
    ASSUME LedgerTypeOK, ReceiptsInv, NEW s \in Sources, NEW amount \in Nat, NEW T,
           ConfirmProviderPayment(s, amount, T)
    PROVE  ReceiptsInv'
<1>1. CASE UNCHANGED ledgerVars
  BY <1>1, ReceiptsInvNext, UntouchedSource DEF ledgerVars
<1>2. CASE ~Recorded(s)
  <2>1. PICK applied \in [Invoices -> 0..amount], rest \in 0..amount :
           /\ IsWaterfall(applied, amount, T, Due)
           /\ rest = amount - SumFunction(applied)
           /\ Apply(s, applied)
           /\ receipt' = [receipt EXCEPT ![s] =
                 [status |-> "CONFIRMED", amount |-> amount,
                  unallocated |-> rest, refunded |-> 0]]
    BY <1>2 DEF ConfirmProviderPayment
  <2>2. SpentOf(allocation, s) = 0
    BY <1>2, SpentOfType DEF LedgerTypeOK, RowTable, Recorded, ReceiptsInv, Unrecorded
  <2>3. /\ SumFunction(applied) \in Nat
        /\ SpentOf(allocation', s) = SpentOf(allocation, s) + SumFunction(applied)
        /\ \A t \in Sources \ {s} : allocation'[t] = allocation[t]
    BY <2>1, ApplySpends
  <2>4. receipt'[s] = [status |-> "CONFIRMED", amount |-> amount,
                       unallocated |-> rest, refunded |-> 0]
    BY <2>1 DEF LedgerTypeOK
  <2>5. AddsUp(receipt'[s], allocation', s) /\ Unrecorded(receipt'[s], allocation', s)
    BY <2>1, <2>2, <2>3, <2>4 DEF AddsUp, Unrecorded
  <2>6. \A t \in Sources \ {s} : receipt'[t] = receipt[t]
    BY <2>1 DEF LedgerTypeOK
  <2> QED BY <2>3, <2>5, <2>6, ReceiptsInvNext, UntouchedSource
<1> QED BY <1>1, <1>2 DEF ConfirmProviderPayment

LEMMA RecordPaymentAddsUp ==
    ASSUME LedgerTypeOK, ReceiptsInv, NEW s \in Sources, NEW amount \in Nat,
           RecordPayment(s, amount)
    PROVE  ReceiptsInv'
<1>1. SpentOf(allocation, s) = 0
  BY SpentOfType DEF LedgerTypeOK, RowTable, RecordPayment, Recorded, ReceiptsInv, Unrecorded
<1>2. /\ allocation' = allocation
      /\ receipt'[s] = [status |-> "CONFIRMED", amount |-> amount,
                        unallocated |-> amount, refunded |-> 0]
      /\ \A t \in Sources \ {s} : receipt'[t] = receipt[t]
  BY DEF RecordPayment, LedgerTypeOK
<1>3. AddsUp(receipt'[s], allocation', s) /\ Unrecorded(receipt'[s], allocation', s)
  BY <1>1, <1>2 DEF AddsUp, Unrecorded
<1> QED BY <1>2, <1>3, ReceiptsInvNext, UntouchedSource

LEMMA AllocateAddsUp ==
    ASSUME LedgerTypeOK, ReceiptsInv, NEW s \in Sources, NEW amount \in Nat, NEW T,
           NEW rank, NEW held, Allocate(s, amount, T, rank, held)
    PROVE  ReceiptsInv'
<1>1. PICK applied \in [Invoices -> 0..amount], spent \in 1..amount :
         /\ IsWaterfall(applied, amount, T, rank)
         /\ spent = SumFunction(applied)
         /\ Apply(s, applied)
         /\ receipt' = [receipt EXCEPT ![s].unallocated = @ - spent]
  BY DEF Allocate
<1>2. /\ SpentOf(allocation', s) = SpentOf(allocation, s) + spent
      /\ SpentOf(allocation, s) \in Nat
      /\ \A t \in Sources \ {s} : allocation'[t] = allocation[t]
  BY <1>1, ApplySpends, SpentOfType
<1>3. /\ receipt'[s].unallocated = receipt[s].unallocated - spent
      /\ receipt'[s].status = receipt[s].status /\ receipt'[s].amount = receipt[s].amount
      /\ receipt'[s].refunded = receipt[s].refunded
      /\ \A t \in Sources \ {s} : receipt'[t] = receipt[t]
      /\ receipt[s].status = "CONFIRMED" /\ receipt[s] \in ReceiptRow
  BY <1>1 DEF LedgerTypeOK, ReceiptRow, Allocate
<1>4. AddsUp(receipt'[s], allocation', s)
  BY <1>2, <1>3 DEF AddsUp, ReceiptsInv, ReceiptRow
<1>5. Unrecorded(receipt'[s], allocation', s)
  BY <1>3 DEF Unrecorded
<1> QED BY <1>2, <1>3, <1>4, <1>5, ReceiptsInvNext, UntouchedSource

LEMMA ReverseAllocationAddsUp ==
    ASSUME LedgerTypeOK, ReceiptsInv, NEW s \in Sources, NEW i \in Invoices, NEW k,
           ReverseAllocation(s, i, k)
    PROVE  ReceiptsInv'
<1> DEFINE rows == allocation[s][i]
           a == rows[k]
<1>1. rows \in Seq(Nat \ {0}) /\ k \in DOMAIN rows /\ a \in Nat \ {0} /\ rows # << >>
  BY DEF LedgerTypeOK, ReverseAllocation
<1>2. /\ RemoveAt(rows, k) \in Seq(Nat \ {0}) /\ RowTotal(rows) \in Nat
      /\ RowTotal(RemoveAt(rows, k)) = RowTotal(rows) - a
  BY <1>1, RemoveAtTotal, RowTotalType
<1>3. /\ allocation' = [allocation EXCEPT ![s][i] = RemoveAt(rows, k)]
      /\ receipt' = [receipt EXCEPT ![s].unallocated = @ + a]
  BY DEF ReverseAllocation
<1>4. /\ allocation \in RowTable /\ allocation' \in RowTable
      /\ allocation'[s][i] = RemoveAt(rows, k)
      /\ \A j \in Invoices \ {i} : allocation'[s][j] = allocation[s][j]
      /\ \A t \in Sources \ {s} : allocation'[t] = allocation[t]
  BY <1>2, <1>3 DEF LedgerTypeOK, RowTable
<1>5. SpentOf(allocation', s) = SpentOf(allocation, s)
        + RowTotal(allocation'[s][i]) - RowTotal(allocation[s][i])
  BY <1>4, SpentOfShrinks
<1>6. SpentOf(allocation, s) \in Nat
  BY <1>4, SpentOfType
<1>7. receipt[s].status # "NONE"
  BY <1>1 DEF ReceiptsInv, Unrecorded
<1> HIDE DEF a
<1>8. /\ receipt'[s].unallocated = receipt[s].unallocated + a
      /\ receipt'[s].status = receipt[s].status /\ receipt'[s].amount = receipt[s].amount
      /\ receipt'[s].refunded = receipt[s].refunded
      /\ \A t \in Sources \ {s} : receipt'[t] = receipt[t]
      /\ receipt[s] \in ReceiptRow
  BY <1>3 DEF LedgerTypeOK, ReceiptRow
<1>9. SpentOf(allocation', s) = SpentOf(allocation, s) - a
  BY <1>1, <1>2, <1>4, <1>5, <1>6
<1>10. AddsUp(receipt'[s], allocation', s)
  BY <1>1, <1>6, <1>8, <1>9 DEF AddsUp, ReceiptsInv, ReceiptRow
<1>11. Unrecorded(receipt'[s], allocation', s)
  BY <1>7, <1>8 DEF Unrecorded
<1> QED BY <1>4, <1>8, <1>10, <1>11, ReceiptsInvNext, UntouchedSource

LEMMA ConfirmProviderRefundAddsUp ==
    ASSUME LedgerTypeOK, ReceiptsInv, NEW s \in Sources, NEW amount \in Nat,
           NEW treatment, ConfirmProviderRefund(s, amount, treatment)
    PROVE  ReceiptsInv'
<1>1. /\ receipt'[s].status # "NONE"
      /\ receipt'[s].amount = receipt[s].amount
      /\ receipt'[s].unallocated = IF treatment = "PAYMENT_REVERSAL"
                                   THEN 0 ELSE receipt[s].unallocated - amount
      /\ receipt'[s].refunded = receipt[s].refunded + amount
      /\ \A t \in Sources \ {s} : receipt'[t] = receipt[t]
      /\ receipt[s] \in ReceiptRow
  BY DEF ConfirmProviderRefund, LedgerTypeOK, ReceiptRow
<1>2. AddsUp(receipt[s], allocation, s) /\ SpentOf(allocation, s) \in Nat
  BY SpentOfType DEF ReceiptsInv, LedgerTypeOK, RowTable
<1>3. Unrecorded(receipt'[s], allocation', s)
  BY <1>1 DEF Unrecorded
<1>4. CASE treatment # "PAYMENT_REVERSAL"
  <2>1. allocation' = allocation
    BY <1>4 DEF ConfirmProviderRefund
  <2>2. AddsUp(receipt'[s], allocation', s)
    BY <1>1, <1>2, <1>4, <2>1 DEF AddsUp, ReceiptRow
  <2> QED BY <1>1, <1>3, <2>1, <2>2, ReceiptsInvNext, UntouchedSource
<1>5. CASE treatment = "PAYMENT_REVERSAL"
  <2>1. allocation' = [allocation EXCEPT ![s] = [i \in Invoices |-> << >>]]
    BY <1>5 DEF ConfirmProviderRefund
  <2>2. /\ allocation' \in RowTable /\ \A i \in Invoices : allocation'[s][i] = << >>
        /\ \A t \in Sources \ {s} : allocation'[t] = allocation[t]
    BY <2>1 DEF LedgerTypeOK, RowTable
  <2>3. SpentOf(allocation', s) = 0
    BY <2>2, SpentOfType
  <2>4. amount = receipt[s].amount /\ receipt[s].refunded = 0
    BY <1>5 DEF ConfirmProviderRefund, Refundable
  <2>5. AddsUp(receipt'[s], allocation', s)
    BY <1>1, <1>5, <2>3, <2>4 DEF AddsUp, ReceiptRow
  <2> QED BY <1>1, <1>3, <2>2, <2>5, ReceiptsInvNext, UntouchedSource
<1> QED BY <1>4, <1>5

LEMMA LedgerNextAddsUp ==
    ASSUME LedgerTypeOK, ReceiptsInv, [LedgerNext]_ledgerVars
    PROVE  ReceiptsInv'
<1>1. ASSUME UNCHANGED <<receipt, allocation>> PROVE ReceiptsInv'
  BY <1>1, ReceiptsInvNext, UntouchedSource
<1>2. CASE BalanceNext
  <2>1. \A i \in Invoices : SettleFromWallet(i) \/ VoidUnpaid(i) \/ MarkOverdue(i)
          => UNCHANGED <<receipt, allocation>>
    BY DEF SettleFromWallet, VoidUnpaid, MarkOverdue
  <2>2. \A i \in Invoices : \A k \in DOMAIN settlement[i], late \in BOOLEAN :
          ReverseSettlement(i, k, late) => UNCHANGED <<receipt, allocation>>
    BY DEF ReverseSettlement
  <2> QED BY <1>1, <1>2, <2>1, <2>2, ReverseAllocationAddsUp DEF BalanceNext
<1>3. ASSUME NEW s \in Sources, NEW held \in 0..MaxReceipt, AllocateNext(s, held)
      PROVE  ReceiptsInv'
  <2>1. \A amount \in 1..MaxReceipt : amount \in Nat
    BY LedgerAssumption
  <2> QED BY <1>3, <2>1, AllocateAddsUp DEF AllocateNext
<1>4. ASSUME NEW s \in Sources, NEW amount \in 1..MaxReceipt,
             \/ \E T \in SUBSET Invoices : ConfirmProviderPayment(s, amount, T)
             \/ RecordPayment(s, amount)
             \/ \E treatment \in {"UNALLOCATED_RETURN", "PAYMENT_REVERSAL"} :
                   ConfirmProviderRefund(s, amount, treatment)
      PROVE  ReceiptsInv'
  <2>1. amount \in Nat
    BY LedgerAssumption
  <2> QED BY <1>4, <2>1, ConfirmProviderPaymentAddsUp, RecordPaymentAddsUp,
             ConfirmProviderRefundAddsUp
<1>5. CASE UNCHANGED ledgerVars
  BY <1>1, <1>5 DEF ledgerVars
<1> QED BY <1>2, <1>3, <1>4, <1>5 DEF LedgerNext, OfficeNext

LEMMA AddsUpInitially ==
    ASSUME LedgerInit
    PROVE  ReceiptsInv
<1>1. LedgerTypeOK
  BY LedgerInitially
<1>2. ASSUME NEW s \in Sources
      PROVE  AddsUp(receipt[s], allocation, s) /\ Unrecorded(receipt[s], allocation, s)
  <2>1. receipt[s] = NoReceipt /\ \A i \in Invoices : allocation[s][i] = << >>
    BY DEF LedgerInit
  <2>2. SpentOf(allocation, s) = 0
    BY <1>1, <2>1, SpentOfType DEF LedgerTypeOK, RowTable
  <2> QED BY <2>1, <2>2 DEF AddsUp, Unrecorded, NoReceipt
<1> QED BY <1>2 DEF ReceiptsInv

\* The amount of every receipt is what its unreversed rows pay, what waits on it
\* and what was returned (rider-payments.service.ts lines 76-77, 149, 268-274, 356,
\* 540, 588-590), for any number of invoices.
THEOREM ReceiptMoneyIsConserved == LedgerSpec => []ReceiptsAddUp
<1>1. LedgerInit => LedgerTypeOK /\ ReceiptsInv
  BY LedgerInitially, AddsUpInitially
<1>2. LedgerTypeOK /\ ReceiptsInv /\ [LedgerNext]_ledgerVars
        => LedgerTypeOK' /\ ReceiptsInv'
  BY LedgerNextKeeps, LedgerNextAddsUp
<1>3. ReceiptsInv => ReceiptsAddUp
  BY DEF ReceiptsInv, ReceiptsAddUp, AddsUp, AllocatedFrom, SpentOf
<1> QED BY <1>1, <1>2, <1>3, PTL DEF LedgerSpec

-----------------------------------------------------------------------------
(* The loop over the payable invoices *)

\* Two results of the loop do not differ first at an invoice where one takes less.
LEMMA WaterfallTakesMost ==
    ASSUME LedgerTypeOK, NEW amount \in Nat, NEW T \in SUBSET Invoices,
           NEW rank \in [Invoices -> Nat], IsInjective(rank),
           NEW a \in [Invoices -> Nat], IsWaterfall(a, amount, T, rank),
           NEW b \in [Invoices -> Nat], IsWaterfall(b, amount, T, rank),
           NEW i \in Invoices, a[i] < b[i],
           \A j \in Invoices : rank[j] < rank[i] => a[j] = b[j]
    PROVE  FALSE
<1> DEFINE targets == {j \in T : Payable(j)}
           more == [a EXCEPT ![i] = b[i]]
<1>1. /\ \A j \in Invoices : a[j] <= IF j \in targets THEN invoice[j].outstanding ELSE 0
      /\ \A j \in Invoices : b[j] <= IF j \in targets THEN invoice[j].outstanding ELSE 0
      /\ \A j, k \in targets : a[k] > 0 /\ rank[j] < rank[k] => a[j] = invoice[j].outstanding
      /\ SumFunction(a) < amount => \A j \in targets : a[j] = invoice[j].outstanding
      /\ SumFunction(b) <= amount
  BY DEF IsWaterfall
<1>2. \A j \in Invoices : invoice[j].outstanding \in Nat /\ a[j] \in Nat /\ b[j] \in Nat
  BY DEF LedgerTypeOK, InvoiceRow
<1>3. i \in targets
  BY <1>1, <1>2
<1>4. ASSUME NEW j \in Invoices, j # i PROVE a[j] <= b[j]
  <2>1. rank[i] \in Nat /\ rank[j] \in Nat /\ rank[j] # rank[i]
    BY <1>4 DEF IsInjective
  <2>2. CASE rank[i] < rank[j]
    <3>1. CASE j \in targets
      BY <1>1, <1>2, <1>3, <2>2, <3>1
    <3>2. CASE j \notin targets
      BY <1>1, <1>2, <3>2
    <3> QED BY <3>1, <3>2
  <2>3. CASE rank[j] < rank[i]
    BY <1>2, <2>3
  <2> QED BY <2>1, <2>2, <2>3
<1> HIDE DEF targets
<1>5. /\ DOMAIN a = Invoices /\ DOMAIN b = Invoices /\ IsFiniteSet(Invoices)
      /\ \A j \in Invoices : more[j] = IF j = i THEN b[i] ELSE a[j]
  BY LedgerAssumption
<1> HIDE DEF more
<1>6. SumFunctionOnSet(more, Invoices) = SumFunctionOnSet(a, Invoices) + b[i] - a[i]
  <2>1. /\ \A j \in Invoices : a[j] \in Int /\ more[j] \in Int
        /\ \A j \in Invoices \ {i} : a[j] = more[j]
        /\ more[i] = b[i]
    BY <1>2, <1>5
  <2> QED BY <1>5, <2>1, SumOneChanges
<1>7. SumFunctionOnSet(more, Invoices) <= SumFunctionOnSet(b, Invoices)
  <2>1. \A j \in Invoices : more[j] \in Int /\ b[j] \in Int /\ more[j] <= b[j]
    BY <1>2, <1>4, <1>5
  <2> QED BY <1>5, <2>1, SumIsMonotone
<1>8. /\ SumFunctionOnSet(a, Invoices) \in Nat
      /\ SumFunctionOnSet(b, Invoices) \in Nat
  BY <1>2, <1>5, SumIsNat
<1>9. SumFunction(a) < amount
  BY <1>1, <1>2, <1>5, <1>6, <1>7, <1>8 DEF SumFunction
<1> QED BY <1>1, <1>2, <1>3, <1>9

LEMMA WaterfallsAgree ==
    ASSUME LedgerTypeOK, NEW amount \in Nat, NEW T \in SUBSET Invoices,
           NEW rank \in [Invoices -> Nat], IsInjective(rank),
           NEW a \in [Invoices -> Nat], IsWaterfall(a, amount, T, rank),
           NEW b \in [Invoices -> Nat], IsWaterfall(b, amount, T, rank)
    PROVE  a = b
<1> SUFFICES ASSUME a # b PROVE FALSE
  OBVIOUS
<1> DEFINE differ == {n \in Nat : \E j \in Invoices : rank[j] = n /\ a[j] # b[j]}
<1>1. differ # {}
  <2>1. PICK j \in Invoices : a[j] # b[j]
    OBVIOUS
  <2> QED BY <2>1
<1>2. PICK n \in differ : \A m \in differ : n <= m
  <2> HIDE DEF differ
  <2>1. differ \in SUBSET Nat
    BY DEF differ
  <2> QED BY <1>1, <2>1, LeastNatural
<1>3. PICK i \in Invoices : rank[i] = n /\ a[i] # b[i]
  OBVIOUS
<1>4. \A j \in Invoices : rank[j] < rank[i] => a[j] = b[j]
  <2> SUFFICES ASSUME NEW j \in Invoices, rank[j] < rank[i], a[j] # b[j] PROVE FALSE
    OBVIOUS
  <2>1. rank[j] \in Nat /\ rank[i] \in Nat
    OBVIOUS
  <2>2. rank[j] \in differ
    BY <2>1
  <2>3. rank[i] <= rank[j]
    BY <1>2, <1>3, <2>2
  <2> QED BY <2>1, <2>3
<1>5. a[i] < b[i] \/ b[i] < a[i]
  <2>1. a[i] \in Nat /\ b[i] \in Nat
    OBVIOUS
  <2> QED BY <1>3, <2>1
<1>6. CASE a[i] < b[i]
  BY <1>4, <1>6, WaterfallTakesMost
<1>7. CASE b[i] < a[i]
  BY <1>4, <1>7, WaterfallTakesMost
<1> QED BY <1>5, <1>6, <1>7

\* One more unit goes to the first invoice that is not full.
LEMMA WaterfallGoesOn ==
    ASSUME LedgerTypeOK, NEW amount \in Nat, NEW T \in SUBSET Invoices,
           NEW rank \in [Invoices -> Nat], IsInjective(rank),
           NEW a \in [Invoices -> Nat], IsWaterfall(a, amount, T, rank)
    PROVE  \E b \in [Invoices -> Nat] : IsWaterfall(b, amount + 1, T, rank)
<1> DEFINE targets == {j \in T : Payable(j)}
           open == {n \in Nat : \E j \in targets :
                                   rank[j] = n /\ a[j] # invoice[j].outstanding}
<1>1. /\ \A j \in Invoices : a[j] <= IF j \in targets THEN invoice[j].outstanding ELSE 0
      /\ \A j, k \in targets : a[k] > 0 /\ rank[j] < rank[k] => a[j] = invoice[j].outstanding
      /\ SumFunction(a) < amount => \A j \in targets : a[j] = invoice[j].outstanding
      /\ SumFunction(a) <= amount
  BY DEF IsWaterfall
<1>2. \A j \in Invoices : invoice[j].outstanding \in Nat /\ a[j] \in Nat /\ rank[j] \in Nat
  BY DEF LedgerTypeOK, InvoiceRow
<1>3. DOMAIN a = Invoices /\ IsFiniteSet(Invoices) /\ targets \subseteq Invoices
  BY LedgerAssumption
<1>4. SumFunctionOnSet(a, Invoices) \in Nat
  BY <1>2, <1>3, SumIsNat
<1>5. CASE open = {}
  <2>1. \A j \in targets : a[j] = invoice[j].outstanding
    BY <1>2, <1>3, <1>5
  <2>2. SumFunction(a) <= amount + 1
    BY <1>1, <1>3, <1>4 DEF SumFunction
  <2> QED BY <1>1, <2>1, <2>2 DEF IsWaterfall
<1>6. CASE open # {}
  <2>1. PICK n \in open : \A m \in open : n <= m
    <3>1. open \in SUBSET Nat
      OBVIOUS
    <3> HIDE DEF open
    <3> QED BY <1>6, <3>1, LeastNatural
  <2>2. PICK i \in targets : rank[i] = n /\ a[i] # invoice[i].outstanding
    OBVIOUS
  <2>3. \A j \in targets : rank[j] < rank[i] => a[j] = invoice[j].outstanding
    <3> SUFFICES ASSUME NEW j \in targets, rank[j] < rank[i], a[j] # invoice[j].outstanding
                 PROVE  FALSE
      OBVIOUS
    <3>1. rank[j] \in open
      BY <1>2, <1>3
    <3> QED BY <1>2, <1>3, <2>1, <2>2, <3>1
  <2> DEFINE b == [a EXCEPT ![i] = a[i] + 1]
  <2>4. /\ \A j \in Invoices : b[j] = IF j = i THEN a[i] + 1 ELSE a[j]
        /\ b \in [Invoices -> Nat] /\ DOMAIN b = Invoices
    BY <1>2, <1>3
  <2> HIDE DEF b, open
  <2>5. SumFunctionOnSet(b, Invoices) = SumFunctionOnSet(a, Invoices) + 1
    <3>1. /\ \A j \in Invoices : a[j] \in Int /\ b[j] \in Int
          /\ \A j \in Invoices \ {i} : a[j] = b[j]
          /\ b[i] = a[i] + 1 /\ i \in Invoices
      BY <1>2, <1>3, <2>4
    <3>2. SumFunctionOnSet(b, Invoices) = SumFunctionOnSet(a, Invoices) + b[i] - a[i]
      BY <1>3, <3>1, SumOneChanges
    <3> QED BY <1>2, <1>4, <3>1, <3>2
  <2>6. SumFunctionOnSet(a, Invoices) = amount
    BY <1>1, <1>3, <1>4, <2>2 DEF SumFunction
  <2>7. SumFunction(b) = amount + 1
    BY <2>4, <2>5, <2>6 DEF SumFunction
  <2>8. a[i] < invoice[i].outstanding /\ i \in Invoices
    BY <1>1, <1>2, <1>3, <2>2
  <2>9. \A j \in Invoices : b[j] <= IF j \in targets THEN invoice[j].outstanding ELSE 0
    BY <1>1, <1>2, <2>4, <2>8
  <2>10. \A j, k \in targets : b[k] > 0 /\ rank[j] < rank[k] => b[j] = invoice[j].outstanding
    <3> SUFFICES ASSUME NEW j \in targets, NEW k \in targets, b[k] > 0, rank[j] < rank[k]
                 PROVE  b[j] = invoice[j].outstanding
      OBVIOUS
    <3>1. CASE k = i
      <4>1. j # i /\ a[j] = invoice[j].outstanding
        BY <1>2, <1>3, <2>3, <3>1
      <4> QED BY <1>3, <2>4, <4>1
    <3>2. CASE k # i
      <4>1. a[j] = invoice[j].outstanding
        BY <1>1, <1>3, <2>4, <3>2
      <4> QED BY <1>3, <2>2, <2>4, <4>1
    <3> QED BY <3>1, <3>2
  <2>11. SumFunction(b) <= amount + 1 /\ ~(SumFunction(b) < amount + 1)
    BY <2>7
  <2> QED BY <2>4, <2>9, <2>10, <2>11 DEF IsWaterfall
<1> QED BY <1>5, <1>6

LEMMA WaterfallExists ==
    ASSUME LedgerTypeOK, NEW amount \in Nat, NEW T \in SUBSET Invoices,
           NEW rank \in [Invoices -> Nat], IsInjective(rank)
    PROVE  \E a \in [Invoices -> Nat] : IsWaterfall(a, amount, T, rank)
<1> DEFINE Good == {n \in Nat : \E a \in [Invoices -> Nat] : IsWaterfall(a, n, T, rank)}
<1>1. 0 \in Good
  <2> DEFINE none == [i \in Invoices |-> 0]
  <2>1. /\ DOMAIN none = Invoices /\ IsFiniteSet(Invoices)
        /\ \A i \in Invoices : none[i] = 0 /\ invoice[i].outstanding \in Nat
    BY LedgerAssumption DEF LedgerTypeOK, InvoiceRow
  <2>2. none \in [Invoices -> Nat]
    OBVIOUS
  <2> HIDE DEF none
  <2>3. SumFunction(none) = 0
    BY <2>1, SumOfZeros DEF SumFunction
  <2>4. \A i \in {j \in T : Payable(j)} : i \in Invoices
    OBVIOUS
  <2>5. IsWaterfall(none, 0, T, rank)
    BY <2>1, <2>3, <2>4 DEF IsWaterfall
  <2> QED BY <2>2, <2>5
<1>2. ASSUME NEW n \in Nat, n \in Good PROVE n + 1 \in Good
  BY <1>2, WaterfallGoesOn
<1>3. \A n \in Nat : n \in Good
  <2>1. Good \in SUBSET Nat
    OBVIOUS
  <2> HIDE DEF Good
  <2> QED BY <1>1, <1>2, <2>1, NaturalInduction
<1> QED BY <1>3

\* A payment always finds a way over the invoices and never has a choice: in every
\* state of the ledger the relation that stands for the loop has exactly one result,
\* for any invoices and amount (rider-payments.service.ts lines 114-145, 489-532).
THEOREM WaterfallIsDetermined ==
    ASSUME LedgerTypeOK, NEW amount \in Nat, NEW T \in SUBSET Invoices,
           NEW rank \in {Due, Issued}
    PROVE  \E a \in [Invoices -> 0..amount] :
              \A b \in [Invoices -> 0..amount] : IsWaterfall(b, amount, T, rank) <=> b = a
<1>1. rank \in [Invoices -> Nat] /\ IsInjective(rank)
  BY LedgerAssumption
<1>2. PICK a \in [Invoices -> Nat] : IsWaterfall(a, amount, T, rank)
  BY <1>1, WaterfallExists
<1>3. a \in [Invoices -> 0..amount]
  <2>1. DOMAIN a = Invoices /\ IsFiniteSet(Invoices) /\ \A i \in Invoices : a[i] \in Nat
    BY LedgerAssumption
  <2>2. \A i \in Invoices : a[i] <= SumFunctionOnSet(a, Invoices)
    BY <2>1, SumBoundsParts
  <2>3. SumFunctionOnSet(a, Invoices) \in Nat
    BY <2>1, SumIsNat
  <2>4. SumFunctionOnSet(a, Invoices) <= amount
    BY <1>2, <2>1 DEF IsWaterfall, SumFunction
  <2>5. \A i \in Invoices : a[i] \in 0..amount
    BY <2>1, <2>2, <2>3, <2>4
  <2> QED BY <2>5
<1>4. ASSUME NEW b \in [Invoices -> 0..amount], IsWaterfall(b, amount, T, rank)
      PROVE  b = a
  <2>1. b \in [Invoices -> Nat]
    OBVIOUS
  <2> QED BY <1>1, <1>2, <1>4, <2>1, WaterfallsAgree
<1> QED BY <1>2, <1>3, <1>4

-----------------------------------------------------------------------------
(* The loop itself *)

Lists(list, S, rank) ==
    /\ list \in [1..Cardinality(S) -> S]
    /\ \A i \in S : \E n \in DOMAIN list : list[n] = i
    /\ \A m, n \in DOMAIN list : m < n => rank[list[m]] < rank[list[n]]

\* Every set of invoices can be listed: the one with the least rank comes first.
LEMMA ListingExists ==
    ASSUME NEW T \in SUBSET Invoices, NEW rank \in [Invoices -> Nat], IsInjective(rank)
    PROVE  \E list : Lists(list, T, rank)
<1> DEFINE Good == {s \in SUBSET Invoices : \E list : Lists(list, s, rank)}
<1>1. \A s \in SUBSET Invoices : IsFiniteSet(s) /\ Cardinality(s) \in Nat
  BY LedgerAssumption, FS_Subset, FS_CardinalityType
<1>2. ASSUME NEW s \in SUBSET Invoices, \A x \in s : s \ {x} \in Good
      PROVE  s \in Good
  <2>1. CASE s = {}
    <3> DEFINE empty == [n \in 1..0 |-> CHOOSE x : x \in s]
    <3>1. Cardinality(s) = 0
      BY <2>1, FS_EmptySet
    <3>2. Lists(empty, s, rank)
      BY <2>1, <3>1 DEF Lists
    <3> QED BY <3>2
  <2>2. CASE s # {}
    <3> DEFINE ranks == {n \in Nat : \E j \in s : rank[j] = n}
    <3>1. PICK n \in ranks : \A m \in ranks : n <= m
      <4>1. ranks \in SUBSET Nat /\ ranks # {}
        BY <2>2
      <4> HIDE DEF ranks
      <4> QED BY <4>1, LeastNatural
    <3>2. PICK x \in s : rank[x] = n
      OBVIOUS
    <3>3. \A j \in s \ {x} : rank[x] < rank[j]
      <4> SUFFICES ASSUME NEW j \in s \ {x} PROVE rank[x] < rank[j]
        OBVIOUS
      <4>1. rank[x] \in Nat /\ rank[j] \in Nat /\ rank[x] # rank[j]
        BY DEF IsInjective
      <4>2. rank[j] \in ranks
        BY <4>1
      <4> QED BY <3>1, <3>2, <4>1, <4>2
    <3> DEFINE k == Cardinality(s \ {x})
    <3>4. k \in Nat /\ Cardinality(s) = k + 1
      BY <1>1, FS_RemoveElement
    <3>5. PICK rest : Lists(rest, s \ {x}, rank)
      BY <1>2
    <3> HIDE DEF ranks, k
    <3>6. /\ rest \in [1..k -> s \ {x}]
          /\ \A i \in s \ {x} : \E m \in 1..k : rest[m] = i
          /\ \A l, m \in 1..k : l < m => rank[rest[l]] < rank[rest[m]]
      BY <3>5 DEF Lists, k
    <3> DEFINE list == [m \in 1..(k + 1) |-> IF m = 1 THEN x ELSE rest[m - 1]]
    <3>7. \A m \in 1..(k + 1) : m # 1 => m - 1 \in 1..k /\ list[m] = rest[m - 1]
      BY <3>4
    <3>8. list[1] = x /\ 1 \in 1..(k + 1)
      BY <3>4
    <3>9. list \in [1..(k + 1) -> s]
      BY <3>4, <3>6
    <3>10. \A i \in s : \E m \in 1..(k + 1) : list[m] = i
      <4> SUFFICES ASSUME NEW i \in s PROVE \E m \in 1..(k + 1) : list[m] = i
        OBVIOUS
      <4>1. CASE i = x
        BY <3>8, <4>1
      <4>2. CASE i # x
        <5>1. PICK m \in 1..k : rest[m] = i
          BY <3>6, <4>2
        <5>2. m + 1 \in 1..(k + 1) /\ m + 1 # 1 /\ (m + 1) - 1 = m
          BY <3>4
        <5> QED BY <5>1, <5>2
      <4> QED BY <4>1, <4>2
    <3>11. ASSUME NEW l \in 1..(k + 1), NEW m \in 1..(k + 1), l < m
           PROVE  rank[list[l]] < rank[list[m]]
      <4>1. m # 1 /\ list[m] = rest[m - 1] /\ m - 1 \in 1..k
        BY <3>4, <3>7, <3>11
      <4>2. CASE l = 1
        <5>1. rest[m - 1] \in s \ {x}
          BY <3>6, <4>1
        <5> QED BY <3>3, <3>8, <4>1, <4>2, <5>1
      <4>3. CASE l # 1
        <5>1. list[l] = rest[l - 1] /\ l - 1 \in 1..k /\ l - 1 < m - 1
          BY <3>4, <3>7, <3>11, <4>3
        <5> HIDE DEF list
        <5> QED BY <3>6, <4>1, <5>1
      <4> QED BY <4>2, <4>3
    <3> HIDE DEF list
    <3>12. DOMAIN list = 1..(k + 1)
      BY <3>9
    <3>13. Lists(list, s, rank)
      BY <3>4, <3>9, <3>10, <3>11, <3>12 DEF Lists
    <3> QED BY <3>13
  <2> QED BY <2>1, <2>2
<1>3. T \in Good
  <2>1. Good \in SUBSET SUBSET Invoices /\ IsFiniteSet(Invoices)
    BY LedgerAssumption
  <2> HIDE DEF Good
  <2> QED BY <1>2, <2>1, SubsetInduction
<1> QED BY <1>3

\* One step of the pass.
Passed(pass, amount, list, n) ==
    IF n = 0 THEN [remaining |-> amount, applied |-> [i \in Invoices |-> 0]]
             ELSE Take(pass[n - 1], list[n])

\* The pass over a list is what its steps say.
LEMMA PassGoesOn ==
    ASSUME NEW amount, NEW list, Len(list) \in Nat
    PROVE  \A n \in 0..Len(list) :
              Pass(amount, list)[n] = Passed(Pass(amount, list), amount, list, n)
<1> DEFINE k == Len(list)
           Runs(p) == p = [n \in 0..k |-> Passed(p, amount, list, n)]
           Up(p, m) == \A n \in 0..m : p[n] = Passed(p, amount, list, n)
           Good == {m \in Nat : \E p : Up(p, m)}
<1>1. 0 \in Good
  <2> DEFINE p == [n \in {0} |-> Passed({}, amount, list, 0)]
  <2>1. Up(p, 0)
    BY DEF Passed
  <2> HIDE DEF p, Up
  <2> QED BY <2>1
<1>2. ASSUME NEW m \in Nat, m \in Good PROVE m + 1 \in Good
  <2>1. PICK p : Up(p, m)
    BY <1>2
  <2> DEFINE q == [n \in 0..(m + 1) |-> Passed(p, amount, list, n)]
  <2>2. \A n \in 0..m : q[n] = p[n]
    BY <2>1
  <2>3. ASSUME NEW n \in 0..(m + 1) PROVE q[n] = Passed(q, amount, list, n)
    <3>1. CASE n = 0
      BY <3>1 DEF Passed
    <3>2. CASE n # 0
      <4>1. n - 1 \in 0..m
        BY <3>2
      <4>2. q[n - 1] = p[n - 1] /\ q[n] = Passed(p, amount, list, n)
        BY <2>2, <4>1
      <4> HIDE DEF q
      <4> QED BY <3>2, <4>2 DEF Passed
    <3> QED BY <3>1, <3>2
  <2> HIDE DEF q
  <2>4. Up(q, m + 1)
    BY <2>3
  <2> HIDE DEF Up
  <2> QED BY <2>4
<1>3. PICK p : Up(p, k)
  <2>1. Good \in SUBSET Nat
    OBVIOUS
  <2> HIDE DEF Good, Up
  <2>2. k \in Good
    BY <1>1, <1>2, <2>1, NaturalInduction
  <2> QED BY <2>2 DEF Good
<1> DEFINE r == [n \in 0..k |-> p[n]]
<1>4. ASSUME NEW n \in 0..k PROVE p[n] = Passed(r, amount, list, n)
  <2>1. CASE n = 0
    BY <1>3, <2>1 DEF Passed
  <2>2. CASE n # 0
    <3>1. n - 1 \in 0..k
      BY <2>2
    <3>2. r[n - 1] = p[n - 1] /\ p[n] = Passed(p, amount, list, n)
      BY <1>3, <3>1
    <3> HIDE DEF r
    <3> QED BY <2>2, <3>2 DEF Passed
  <2> QED BY <2>1, <2>2
<1>5. Runs(r)
  <2>1. \A n \in 0..k : p[n] = Passed(r, amount, list, n)
    BY <1>4
  <2>2. r = [n \in 0..k |-> p[n]]
    OBVIOUS
  <2> HIDE DEF r
  <2>3. [n \in 0..k |-> p[n]] = [n \in 0..k |-> Passed(r, amount, list, n)]
    BY <2>1
  <2> QED BY <2>2, <2>3
<1> DEFINE f == CHOOSE g : Runs(g)
<1>6. Runs(f)
  <2> HIDE DEF r, Runs
  <2> QED BY <1>5
<1>7. Pass(amount, list) = f
  BY DEF Pass, Passed
<1> HIDE DEF f
<1> QED BY <1>6, <1>7

\* What the pass has done after the first n invoices of its list: it has given away
\* what is missing, nothing to the invoices behind, and as long as anything is left
\* everything the invoices before it owe.
PassedThrough(state, amount, S, list, n) ==
    /\ state = [remaining |-> state.remaining, applied |-> state.applied]
    /\ state.remaining \in Nat
    /\ state.applied \in [Invoices -> Nat]
    /\ SumFunctionOnSet(state.applied, Invoices) + state.remaining = amount
    /\ \A i \in Invoices \ S : state.applied[i] = 0
    /\ \A m \in DOMAIN list : m > n => state.applied[list[m]] = 0
    /\ \A m \in DOMAIN list : state.applied[list[m]] <= invoice[list[m]].outstanding
    /\ \A m \in DOMAIN list : m <= n /\ state.remaining > 0
          => state.applied[list[m]] = invoice[list[m]].outstanding
    /\ \A l, m \in DOMAIN list : l < m /\ state.applied[list[m]] > 0
          => state.applied[list[l]] = invoice[list[l]].outstanding

LEMMA TakeGoesOn ==
    ASSUME LedgerTypeOK, NEW amount \in Nat, NEW S \in SUBSET Invoices,
           NEW rank \in [Invoices -> Nat], NEW list, Lists(list, S, rank),
           NEW n \in DOMAIN list, NEW state,
           PassedThrough(state, amount, S, list, n - 1)
    PROVE  PassedThrough(Take(state, list[n]), amount, S, list, n)
<1> DEFINE k == Cardinality(S)
           i == list[n]
           owed == invoice[i].outstanding
           used == IF state.remaining < owed THEN state.remaining ELSE owed
           after == [state.applied EXCEPT ![i] = used]
<1>1. /\ list \in [1..k -> S] /\ DOMAIN list = 1..k
      /\ \A m \in 1..k : list[m] \in Invoices
      /\ \A j, m \in 1..k : j < m => rank[list[j]] < rank[list[m]]
  BY DEF Lists
<1>2. n \in Int /\ n \in 1..k /\ (\A m \in 1..k : m \in Int)
  <2>1. k \in Nat
    BY LedgerAssumption, FS_Subset, FS_CardinalityType
  <2> QED BY <1>1, <2>1
<1>3. \A m \in 1..k : m # n => list[m] # i
  <2> SUFFICES ASSUME NEW m \in 1..k, m # n, list[m] = i PROVE FALSE
    OBVIOUS
  <2>1. m < n \/ n < m
    BY <1>2
  <2>2. rank[i] \in Nat
    BY <1>1, <1>2
  <2> QED BY <1>1, <1>2, <2>1, <2>2
<1>4. \A j \in Invoices : invoice[j].outstanding \in Nat
  BY DEF LedgerTypeOK, InvoiceRow
<1>5. i \in S /\ i \in Invoices /\ owed \in Nat
  BY <1>1, <1>2, <1>4
<1>6. /\ state.remaining \in Nat
      /\ state.applied \in [Invoices -> Nat]
      /\ SumFunctionOnSet(state.applied, Invoices) + state.remaining = amount
      /\ \A j \in Invoices \ S : state.applied[j] = 0
      /\ \A m \in 1..k : m > n - 1 => state.applied[list[m]] = 0
      /\ \A m \in 1..k : state.applied[list[m]] <= invoice[list[m]].outstanding
      /\ \A m \in 1..k : m <= n - 1 /\ state.remaining > 0
            => state.applied[list[m]] = invoice[list[m]].outstanding
      /\ \A l, m \in 1..k : l < m /\ state.applied[list[m]] > 0
            => state.applied[list[l]] = invoice[list[l]].outstanding
  BY <1>1 DEF PassedThrough
<1>7. state.applied[i] = 0
  BY <1>2, <1>6
<1>8. used \in Nat /\ used <= owed /\ used <= state.remaining
  BY <1>5, <1>6
<1> HIDE DEF k, i, owed
<1>9. /\ after \in [Invoices -> Nat] /\ after[i] = used
      /\ \A j \in Invoices : j # i => after[j] = state.applied[j]
  BY <1>5, <1>6, <1>8
<1>10. SumFunctionOnSet(after, Invoices) = SumFunctionOnSet(state.applied, Invoices) + used
  <2>1. /\ DOMAIN after = Invoices /\ DOMAIN state.applied = Invoices
        /\ \A j \in Invoices : state.applied[j] \in Int /\ after[j] \in Int
        /\ \A j \in Invoices \ {i} : state.applied[j] = after[j]
    BY <1>6, <1>9
  <2> DEFINE before == state.applied
  <2> HIDE DEF before, after
  <2>2. SumFunctionOnSet(after, Invoices)
           = SumFunctionOnSet(before, Invoices) + after[i] - before[i]
    BY <1>5, <2>1, LedgerAssumption, SumOneChanges DEF before
  <2>3. SumFunctionOnSet(before, Invoices) \in Nat
    BY <2>1, <1>6, LedgerAssumption, SumIsNat DEF before
  <2> QED BY <1>7, <1>8, <1>9, <2>2, <2>3 DEF before
<1> DEFINE next == Take(state, list[n])
<1>11. next = [remaining |-> state.remaining - used, applied |-> after]
  BY DEF Take, i, owed
<1>12. next.remaining = state.remaining - used /\ next.applied = after
  BY <1>11
<1>13. SumFunctionOnSet(state.applied, Invoices) \in Nat
  BY <1>6, LedgerAssumption, SumIsNat
<1>14. SumFunctionOnSet(after, Invoices) + (state.remaining - used) = amount
  BY <1>6, <1>8, <1>10, <1>13
<1>15. \A m \in 1..k : m # n => after[list[m]] = state.applied[list[m]]
  BY <1>1, <1>3, <1>9
<1> HIDE DEF after, used
<1>16. \A j \in Invoices \ S : after[j] = 0
  BY <1>5, <1>6, <1>9
<1>17. \A m \in 1..k : m > n => after[list[m]] = 0
  BY <1>2, <1>6, <1>15
<1>18. \A m \in 1..k : after[list[m]] <= invoice[list[m]].outstanding
  <2> SUFFICES ASSUME NEW m \in 1..k PROVE after[list[m]] <= invoice[list[m]].outstanding
    OBVIOUS
  <2>1. CASE m = n
    BY <1>8, <1>9, <2>1 DEF i, owed
  <2>2. CASE m # n
    BY <1>6, <1>15, <2>2
  <2> QED BY <2>1, <2>2
<1>19. ASSUME NEW m \in 1..k, m <= n, state.remaining - used > 0
       PROVE  after[list[m]] = invoice[list[m]].outstanding
  <2>1. CASE m = n
    <3>1. used = owed
      BY <1>5, <1>6, <1>19 DEF used
    <3> QED BY <1>9, <2>1, <3>1 DEF i, owed
  <2>2. CASE m # n
    <3>1. m <= n - 1 /\ state.remaining > 0
      BY <1>2, <1>6, <1>8, <1>19, <2>2
    <3> QED BY <1>6, <1>15, <2>2, <3>1
  <2> QED BY <2>1, <2>2
<1>20. ASSUME NEW l \in 1..k, NEW m \in 1..k, l < m, after[list[m]] > 0
       PROVE  after[list[l]] = invoice[list[l]].outstanding
  <2>1. CASE m = n
    <3>1. l <= n - 1 /\ l # n
      BY <1>2, <1>20, <2>1
    <3>2. used > 0
      BY <1>9, <1>20, <2>1 DEF i
    <3>3. state.remaining > 0
      BY <1>6, <1>8, <3>2
    <3> QED BY <1>6, <1>15, <3>1, <3>3
  <2>2. CASE m # n
    <3>1. m < n
      BY <1>2, <1>6, <1>15, <1>20, <2>2
    <3>2. l # n /\ state.applied[list[m]] > 0
      BY <1>2, <1>15, <1>20, <2>2, <3>1
    <3> QED BY <1>6, <1>15, <1>20, <3>2
  <2> QED BY <2>1, <2>2
<1>21. state.remaining - used \in Nat
  BY <1>6, <1>8
<1> HIDE DEF next
<1> QED BY <1>1, <1>9, <1>11, <1>12, <1>14, <1>16, <1>17, <1>18, <1>19, <1>20, <1>21
        DEF PassedThrough, next

\* The pass ends with a result that the relation allows.
LEMMA SpreadIsWaterfall ==
    ASSUME LedgerTypeOK, NEW amount \in Nat, NEW T \in SUBSET Invoices,
           NEW rank \in [Invoices -> Nat], IsInjective(rank)
    PROVE  /\ Spread(amount, T, rank) \in [Invoices -> Nat]
           /\ IsWaterfall(Spread(amount, T, rank), amount, T, rank)
<1> DEFINE targets == {i \in T : Payable(i)}
           k == Cardinality(targets)
           list == Listed(T, rank)
           pass == Pass(amount, list)
<1>1. targets \in SUBSET Invoices
  OBVIOUS
<1>2. IsFiniteSet(Invoices) /\ k \in Nat
  BY <1>1, LedgerAssumption, FS_Subset, FS_CardinalityType
<1>3. Lists(list, targets, rank)
  <2> DEFINE Fit(l) == /\ \A i \in targets : \E n \in DOMAIN l : l[n] = i
                       /\ \A m, n \in DOMAIN l : m < n => rank[l[m]] < rank[l[n]]
  <2>1. PICK l : Lists(l, targets, rank)
    BY <1>1, ListingExists
  <2>2. l \in [1..k -> targets] /\ Fit(l)
    BY <2>1 DEF Lists
  <2>3. list = CHOOSE g \in [1..k -> targets] : Fit(g)
    BY DEF Listed
  <2> HIDE DEF Fit, targets, k, list
  <2>4. list \in [1..k -> targets] /\ Fit(list)
    BY <2>2, <2>3
  <2> QED BY <2>4 DEF Lists, Fit, k
<1> HIDE DEF targets, k, list
<1>4. list \in [1..k -> targets] /\ DOMAIN list = 1..k /\ Len(list) = k
  BY <1>2, <1>3 DEF Lists, k
<1>5. \A n \in 0..k : pass[n] = Passed(pass, amount, list, n)
  BY <1>2, <1>4, PassGoesOn
<1> HIDE DEF pass
<1>6. PassedThrough(pass[0], amount, targets, list, 0)
  <2> DEFINE none == [i \in Invoices |-> 0]
  <2>1. pass[0] = [remaining |-> amount, applied |-> none]
    BY <1>2, <1>5 DEF Passed
  <2>2. none \in [Invoices -> Nat] /\ DOMAIN none = Invoices /\ \A i \in Invoices : none[i] = 0
    OBVIOUS
  <2>3. \A m \in 1..k : list[m] \in Invoices
    BY <1>1, <1>4
  <2>4. \A i \in Invoices : invoice[i].outstanding \in Nat
    BY DEF LedgerTypeOK, InvoiceRow
  <2>5. \A m \in 1..k : ~(m <= 0)
    BY <1>2
  <2> HIDE DEF none
  <2>6. SumFunctionOnSet(none, Invoices) = 0
    BY <1>2, <2>2, SumOfZeros
  <2>7. pass[0].remaining = amount /\ pass[0].applied = none
    BY <2>1
  <2>8. SumFunctionOnSet(none, Invoices) + amount = amount
    BY <2>6
  <2>9. \A m \in 1..k : none[list[m]] = 0 /\ none[list[m]] <= invoice[list[m]].outstanding
    BY <2>2, <2>3, <2>4
  <2> QED BY <1>1, <1>4, <2>1, <2>2, <2>5, <2>7, <2>8, <2>9 DEF PassedThrough
<1>7. PassedThrough(pass[k], amount, targets, list, k)
  <2> DEFINE Good == {n \in Nat : n <= k => PassedThrough(pass[n], amount, targets, list, n)}
  <2>1. 0 \in Good
    BY <1>6
  <2>2. ASSUME NEW n \in Nat, n \in Good PROVE n + 1 \in Good
    <3> SUFFICES ASSUME n + 1 <= k
                 PROVE  PassedThrough(pass[n + 1], amount, targets, list, n + 1)
      OBVIOUS
    <3>1. n + 1 \in 1..k /\ n + 1 # 0 /\ (n + 1) - 1 = n /\ n <= k /\ n + 1 \in 0..k
      BY <1>2
    <3>2. PassedThrough(pass[n], amount, targets, list, (n + 1) - 1)
      BY <2>2, <3>1
    <3>3. pass[n + 1] = Take(pass[n], list[n + 1])
      BY <1>5, <3>1 DEF Passed
    <3> QED BY <1>1, <1>3, <1>4, <3>1, <3>2, <3>3, TakeGoesOn
  <2>3. Good \in SUBSET Nat
    OBVIOUS
  <2> HIDE DEF Good
  <2>4. k \in Good
    BY <1>2, <2>1, <2>2, <2>3, NaturalInduction
  <2> QED BY <1>2, <2>4 DEF Good
<1> DEFINE spread == pass[k].applied
<1>8. Spread(amount, T, rank) = spread
  BY <1>4 DEF Spread, list, pass
<1> HIDE DEF spread
<1>9. /\ spread \in [Invoices -> Nat] /\ DOMAIN spread = Invoices
      /\ pass[k].remaining \in Nat
      /\ SumFunctionOnSet(spread, Invoices) + pass[k].remaining = amount
      /\ \A i \in Invoices \ targets : spread[i] = 0
      /\ \A m \in 1..k : spread[list[m]] <= invoice[list[m]].outstanding
      /\ \A m \in 1..k : m <= k /\ pass[k].remaining > 0
            => spread[list[m]] = invoice[list[m]].outstanding
      /\ \A l, m \in 1..k : l < m /\ spread[list[m]] > 0
            => spread[list[l]] = invoice[list[l]].outstanding
  BY <1>4, <1>7 DEF PassedThrough, spread
<1>10. \A i \in targets : \E m \in 1..k : list[m] = i
  BY <1>3, <1>4 DEF Lists
<1>11. \A i \in Invoices : spread[i] <= IF i \in targets THEN invoice[i].outstanding ELSE 0
  BY <1>9, <1>10
<1>12. SumFunction(spread) \in Nat /\ SumFunction(spread) + pass[k].remaining = amount
  BY <1>2, <1>9, SumIsNat DEF SumFunction
<1>13. SumFunction(spread) <= amount
  BY <1>9, <1>12
<1>14. ASSUME NEW i \in targets, NEW j \in targets, spread[j] > 0, rank[i] < rank[j]
       PROVE  spread[i] = invoice[i].outstanding
  <2>1. PICK l \in 1..k : list[l] = i
    BY <1>10
  <2>2. PICK m \in 1..k : list[m] = j
    BY <1>10
  <2>3. rank[i] \in Nat /\ rank[j] \in Nat
    BY <1>1
  <2>4. l < m
    <3>1. m < l => rank[j] < rank[i]
      BY <1>3, <1>4, <2>1, <2>2 DEF Lists
    <3>2. m # l
      BY <1>14, <2>1, <2>2, <2>3
    <3> QED BY <1>2, <1>14, <2>3, <3>1, <3>2
  <2> QED BY <1>9, <1>14, <2>1, <2>2, <2>4
<1>15. ASSUME SumFunction(spread) < amount, NEW i \in targets
       PROVE  spread[i] = invoice[i].outstanding
  <2>1. pass[k].remaining > 0
    BY <1>9, <1>12, <1>15
  <2>2. PICK m \in 1..k : list[m] = i
    BY <1>10
  <2>3. m <= k
    BY <1>2
  <2> QED BY <1>9, <2>1, <2>2, <2>3
<1> QED BY <1>8, <1>9, <1>11, <1>13, <1>14, <1>15 DEF IsWaterfall, targets

LEMMA LoopAgrees ==
    ASSUME LedgerTypeOK
    PROVE  WaterfallIsTheLoop
<1> SUFFICES ASSUME NEW amount \in 0..MaxReceipt, NEW T \in SUBSET Invoices,
                    NEW rank \in {Due, Issued}
             PROVE  {applied \in [Invoices -> 0..amount] :
                        IsWaterfall(applied, amount, T, rank)} = {Spread(amount, T, rank)}
  BY DEF WaterfallIsTheLoop
<1>1. amount \in Nat /\ rank \in [Invoices -> Nat] /\ IsInjective(rank)
  BY LedgerAssumption
<1> DEFINE spread == Spread(amount, T, rank)
<1>2. spread \in [Invoices -> Nat] /\ IsWaterfall(spread, amount, T, rank)
  BY <1>1, SpreadIsWaterfall
<1> HIDE DEF spread
<1>3. PICK a \in [Invoices -> 0..amount] :
         \A b \in [Invoices -> 0..amount] : IsWaterfall(b, amount, T, rank) <=> b = a
  BY <1>1, WaterfallIsDetermined
<1>4. a \in [Invoices -> Nat] /\ IsWaterfall(a, amount, T, rank)
  BY <1>3
<1>5. a = spread
  BY <1>1, <1>2, <1>4, WaterfallsAgree
<1> QED BY <1>3, <1>5 DEF spread

\* For every set of invoices and receipts the relation that the actions use and the
\* loop of the code agree in every reachable state, whatever is paid, in either order
\* of the invoices (rider-payments.service.ts lines 114-145, 489-532).
THEOREM WaterfallsAreTheLoop == LedgerSpec => []WaterfallIsTheLoop
  BY LoopAgrees, LedgerTypes, PTL

-----------------------------------------------------------------------------
(* The ledger in use *)

\* One operation of the ledger, whoever calls it and with any amount.
LedgerOperation ==
    \/ BalanceNext
    \/ \E s \in Sources, amount \in Nat :
          \/ \E T \in SUBSET Invoices, rank \in {Due, Issued}, held \in Nat :
                Allocate(s, amount, T, rank, held)
          \/ \E T \in SUBSET Invoices : ConfirmProviderPayment(s, amount, T)
          \/ RecordPayment(s, amount)
          \/ \E treatment \in {"UNALLOCATED_RETURN", "PAYMENT_REVERSAL"} :
                ConfirmProviderRefund(s, amount, treatment)

\* What a system that has a ledger does to it.
LedgerUse == LedgerInit /\ [][LedgerOperation]_ledgerVars

LedgerInv == LedgerTypeOK /\ BalanceKept /\ InvoiceBalanced /\ ReceiptsInv

LedgerSound ==
    /\ LedgerTypeOK /\ WaterfallIsTheLoop
    /\ BalanceKept /\ InvoiceBalanced /\ ReceiptsAddUp

LEMMA AllocateNextIsOperation ==
    ASSUME NEW s \in Sources, NEW held \in Nat, AllocateNext(s, held)
    PROVE  LedgerOperation
<1>1. \A amount \in 1..MaxReceipt : amount \in Nat
  BY LedgerAssumption
<1>2. \A T \in {{i} : i \in Invoices} \cup {Invoices} : T \in SUBSET Invoices
  OBVIOUS
<1> QED BY <1>1, <1>2 DEF AllocateNext, LedgerOperation

LEMMA LedgerOperationKeeps ==
    ASSUME LedgerInv, [LedgerOperation]_ledgerVars
    PROVE  LedgerInv'
<1> USE DEF LedgerInv
<1>1. CASE BalanceNext
  <2>1. OfficeNext /\ [LedgerNext]_ledgerVars
    BY <1>1 DEF OfficeNext, LedgerNext
  <2> QED BY <2>1, OfficeKeeps, OfficeBalances, LedgerNextAddsUp
<1>2. ASSUME NEW s \in Sources, NEW amount \in Nat, NEW T \in SUBSET Invoices,
             NEW rank \in {Due, Issued}, NEW held \in Nat, Allocate(s, amount, T, rank, held)
      PROVE  LedgerInv'
  BY <1>2, AllocateKeeps, AllocateBalances, AllocateAddsUp
<1>3. ASSUME NEW s \in Sources, NEW amount \in Nat, NEW T \in SUBSET Invoices,
             ConfirmProviderPayment(s, amount, T)
      PROVE  LedgerInv'
  BY <1>3, ConfirmProviderPaymentKeeps, ConfirmProviderPaymentBalances,
     ConfirmProviderPaymentAddsUp
<1>4. ASSUME NEW s \in Sources, NEW amount \in Nat, RecordPayment(s, amount)
      PROVE  LedgerInv'
  <2>1. UNCHANGED <<invoice, allocation, settlement>>
    BY <1>4 DEF RecordPayment
  <2> QED BY <1>4, <2>1, RecordPaymentKeeps, FrameBalances, RecordPaymentAddsUp
<1>5. ASSUME NEW s \in Sources, NEW amount \in Nat,
             NEW treatment \in {"UNALLOCATED_RETURN", "PAYMENT_REVERSAL"},
             ConfirmProviderRefund(s, amount, treatment)
      PROVE  LedgerInv'
  BY <1>5, ConfirmProviderRefundKeeps, RefundBalances, ConfirmProviderRefundAddsUp
<1>6. CASE UNCHANGED ledgerVars
  <2>1. [LedgerNext]_ledgerVars
    BY <1>6
  <2> QED BY <2>1, LedgerNextKeeps, LedgerNextBalances, LedgerNextAddsUp
<1> QED BY <1>1, <1>2, <1>3, <1>4, <1>5, <1>6 DEF LedgerOperation

LEMMA LedgerInvariant == LedgerUse => []LedgerInv
<1>1. LedgerInit => LedgerInv
  BY LedgerInitially, BalancedInitially, AddsUpInitially DEF LedgerInv
<1>2. LedgerInv /\ [LedgerOperation]_ledgerVars => LedgerInv'
  BY LedgerOperationKeeps
<1> QED BY <1>1, <1>2, PTL DEF LedgerUse

\* Whatever system calls the operations of the ledger, in whatever order and with
\* whatever amounts, every invoice and every receipt adds up and every spreading is
\* the loop of the code: the ledger does not depend on its callers.
THEOREM LedgerIsSoundInUse == LedgerUse => []LedgerSound
<1>1. ReceiptsInv => ReceiptsAddUp
  BY DEF ReceiptsInv, ReceiptsAddUp, AddsUp, AllocatedFrom, SpentOf
<1>2. LedgerInv => LedgerSound
  BY <1>1, LoopAgrees DEF LedgerInv, LedgerSound
<1> QED BY <1>2, LedgerInvariant, PTL

NoWalletRows == \A i \in Invoices : settlement[i] = << >>

LEMMA WalletRowsBreakReconcile ==
    ASSUME LedgerInv
    PROVE  InvoicesReconcile <=> NoWalletRows
<1> USE DEF LedgerInv
<1>1. ASSUME NEW i \in Invoices
      PROVE  /\ invoice[i].paid = AllocatedTo(i) + RowTotal(settlement[i])
             /\ AllocatedTo(i) \in Nat /\ RowTotal(settlement[i]) \in Nat
             /\ invoice[i].outstanding \in Int /\ invoice[i].paid \in Int
             /\ Total[i] = invoice[i].paid + invoice[i].outstanding
             /\ RowTotal(settlement[i]) = 0 <=> settlement[i] = << >>
             /\ invoice[i].status = "VOID" => settlement[i] = << >>
  <2>1. settlement[i] \in Seq(Nat \ {0})
    BY DEF LedgerTypeOK
  <2>2. /\ RowTotal(settlement[i]) \in Nat
        /\ RowTotal(settlement[i]) = 0 <=> settlement[i] = << >>
    BY <2>1, RowTotalType
  <2>3. /\ invoice[i].paid \in Nat /\ RowTotal(settlement[i]) <= invoice[i].paid
        /\ PaidTo(allocation, i) \in Nat
    BY PaidIsNatural
  <2>4. AllocatedTo(i) = PaidTo(allocation, i)
    BY DEF AllocatedTo, PaidTo
  <2>5. invoice[i].paid = AllocatedTo(i) + RowTotal(settlement[i])
    BY DEF InvoiceBalanced
  <2>6. invoice[i].status = "VOID" => invoice[i].paid = 0
    BY DEF InvoiceBalanced
  <2>7. /\ invoice[i].outstanding \in Int
        /\ Total[i] = invoice[i].paid + invoice[i].outstanding
    BY DEF LedgerTypeOK, InvoiceRow, BalanceKept
  <2>8. invoice[i].status = "VOID" => settlement[i] = << >>
    BY <2>2, <2>3, <2>6
  <2> QED BY <2>2, <2>3, <2>4, <2>5, <2>7, <2>8
<1> QED BY <1>1 DEF InvoicesReconcile, NoWalletRows

\* The invoice part of reconcile refuses an agreement exactly while an unreversed
\* wallet row pays one of its invoices; receipts, reversals, refunds and withdrawn
\* invoices never make it refuse (final-settlement.service.ts lines 1809-1825).
THEOREM OnlyWalletRowsBreakReconcile == LedgerUse => [](InvoicesReconcile <=> NoWalletRows)
  BY LedgerInvariant, WalletRowsBreakReconcile, PTL
=============================================================================

------------------------ MODULE FinalSettlementProofs ------------------------
(***************************************************************************)
(* Theorems about deposits and the final settlement, for any deposits,     *)
(* requests, calls that overlap and amounts.                               *)
(*                                                                         *)
(* A closed deposit stays empty because whatever puts money into it or     *)
(* asks for it opens it.  That a deposit pays once and as deducted, and    *)
(* that a completed refund was paid, needs what a call knows: the rows     *)
(* under the keys of a settlement and of a refund never change once they   *)
(* are there, so what a call has seen is still true when it goes on        *)
(* (CallsKnow).                                                            *)
(*                                                                         *)
(* What was collected and is gone was deducted (GapIsDeducted): it suffices*)
(* that rows say what they did and that one is taken back at most once     *)
(* (MovementsFit).  What refunds of receipts reserve stays there: a receipt*)
(* leaves CONFIRMED when it is returned in full, and because receipts add  *)
(* up nothing is left of it then that another refund could wait for        *)
(* (ReceiptsFit).                                                          *)
(*                                                                         *)
(* Every step is one transaction of the ledger or leaves its rows alone;   *)
(* the theorems about LedgerUse then hold while a settlement goes on.      *)
(***************************************************************************)
EXTENDS FinalSettlement, RiderInvoicesProofs

SettlementKey(d) == <<"settlement", d>>
RefundKey(q) == <<"refund", q>>

PaidAsPosted ==
    \A q \in Requests : request[q].status = "COMPLETED" <=> Posted(RefundKey(q))

\* What is written under the key of a settlement.
SettlementRow(d) ==
    Posted(SettlementKey(d)) => /\ movement[SettlementKey(d)].type = "DEDUCTION"
                                /\ movement[SettlementKey(d)].of = {d}

\* What a call has seen or done and relies on.
Knows(row) ==
    /\ \A d, e \in row.of : d = e
    /\ \A q, r \in row.for : q = r
    /\ row.at \in {"apply-checked", "apply-deducted", "apply-allocating",
                  "payback-checked"} => row.amount > 0
    /\ row.at \in {"apply-deducted", "apply-allocating"} =>
          \A d \in row.of : /\ Posted(SettlementKey(d))
                            /\ movement[SettlementKey(d)].amount = row.amount
    /\ row.at = "apply-allocating" =>
          \A d \in row.of : /\ Recorded(SettlementKey(d))
                            /\ receipt[SettlementKey(d)].amount = row.amount
    /\ row.at = "complete-paid" =>
          \A q \in row.for : request[q].status = "COMPLETED"

CallsKnow == \A c \in Calls : Knows(call[c])

DepositInv == DepositTypeOK /\ ClosedHoldsNothing /\ PaidAsPosted

\* The row of a settlement is written once, and what is done is done.
Kept ==
    /\ \A d \in Deposits :
          \/ movement'[SettlementKey(d)] = movement[SettlementKey(d)]
          \/ /\ ~Posted(SettlementKey(d))
             /\ movement'[SettlementKey(d)].type = "DEDUCTION"
             /\ movement'[SettlementKey(d)].of = {d}
    /\ \A q \in Requests : request[q].status = "COMPLETED" => request'[q].status = "COMPLETED"

\* Receipts keep their amounts; a new one is that of a deduction.
ReceiptsKept ==
    \A s \in Sources :
        \/ /\ Recorded(s)' <=> Recorded(s)
           /\ receipt'[s].amount = receipt[s].amount
        \/ /\ ~Recorded(s)
           /\ \E d \in Deposits : /\ s = SettlementKey(d)
                                 /\ movement[s].type = "DEDUCTION"
                                 /\ movement[s].of = {d}
                                 /\ movement[s].amount = receipt'[s].amount

ExitInv ==
    /\ LedgerTypeOK /\ DepositInv /\ ExitTypeOK
    /\ \A d \in Deposits : SettlementRow(d)
    /\ AppliedAsDeducted /\ CompletedWasPaid
    /\ CallsKnow

-----------------------------------------------------------------------------
(* Deposits *)

\* The keys that the code derives are told apart by their first part.
LEMMA KeysDiffer ==
    /\ \A d \in Deposits : SettlementKey(d) \in MovementIds /\ SettlementKey(d) \notin DepositKeys
    /\ \A q \in Requests : RefundKey(q) \in MovementIds /\ RefundKey(q) \notin DepositKeys
    /\ \A d \in Deposits, q \in Requests : SettlementKey(d) # RefundKey(q)
    /\ \A k \in DepositKeys : <<"in", k>> \in MovementIds /\ <<"out", k>> \in MovementIds
    /\ \A k \in DepositKeys, d \in Deposits :
          <<"in", k>> # SettlementKey(d) /\ <<"out", k>> # SettlementKey(d)
    /\ \A k \in DepositKeys, q \in Requests :
          <<"in", k>> # RefundKey(q) /\ <<"out", k>> # RefundKey(q)
    /\ \A d, e \in Deposits : SettlementKey(d) = SettlementKey(e) => d = e
    /\ \A q, r \in Requests : RefundKey(q) = RefundKey(r) => q = r
  BY DepositAssumption DEF SettlementKey, RefundKey, MovementIds, DerivedKeys

\* A transaction changes the row of its key and of its deposit and opens it.
LEMMA PostEffect ==
    ASSUME DepositTypeOK, NEW k \in MovementIds, NEW d \in Deposits,
           NEW type \in MovementType, NEW amount \in Nat \ {0}, NEW delta \in Int,
           NEW funding \in Int, NEW undoes \in SUBSET MovementIds,
           Post(k, d, type, amount, delta, funding, undoes)
    PROVE  /\ deposit' \in [Deposits -> DepositRow]
           /\ movement' \in [MovementIds -> MovementRow \cup {NoMovement}]
           /\ deposit'[d].status = "OPEN"
           /\ \A e \in Deposits : e # d => deposit'[e] = deposit[e]
           /\ movement'[k] = Row(d, type, amount, delta, funding, undoes)
           /\ movement'[k] # NoMovement
           /\ \A l \in MovementIds : l # k => movement'[l] = movement[l]
<1> USE DEF DepositTypeOK
<1>1. DepositAfter(d, delta, funding) \in DepositRow
      /\ DepositAfter(d, delta, funding).status = "OPEN"
  BY DEF Post, Affordable, DepositAfter, DepositRow
<1>2. Row(d, type, amount, delta, funding, undoes) \in MovementRow
      /\ Row(d, type, amount, delta, funding, undoes) # NoMovement
  BY DEF Row, MovementRow, NoMovement
<1> QED BY <1>1, <1>2 DEF Post

\* Under another key than those of refunds, on an unused key.
LEMMA PostKeeps ==
    ASSUME DepositInv, NEW k \in MovementIds, NEW d \in Deposits,
           NEW type \in MovementType, NEW amount \in Nat \ {0}, NEW delta \in Int,
           NEW funding \in Int, NEW undoes \in SUBSET MovementIds,
           \A q \in Requests : k # RefundKey(q),
           Post(k, d, type, amount, delta, funding, undoes),
           UNCHANGED <<request, hold>>
    PROVE  DepositInv'
<1>1. DepositTypeOK'
  BY PostEffect DEF DepositInv, DepositTypeOK
<1>2. ClosedHoldsNothing'
  BY PostEffect DEF DepositInv, ClosedHoldsNothing, Awaited
<1>3. PaidAsPosted'
  BY PostEffect, KeysDiffer DEF DepositInv, PaidAsPosted, Posted
<1> QED BY <1>1, <1>2, <1>3 DEF DepositInv

LEMMA MoveKeeps ==
    ASSUME DepositInv, NEW k \in MovementIds, NEW d \in Deposits, NEW type \in MoveType,
           NEW amount \in Nat \ {0}, \A q \in Requests : k # RefundKey(q),
           Move(k, d, type, amount)
    PROVE  /\ DepositInv'
           /\ movement'[k].type = type /\ movement'[k].of = {d}
           /\ movement'[k].amount = amount
           /\ \A l \in MovementIds : l # k => movement'[l] = movement[l]
           /\ request' = request
<1> DEFINE delta == IF type \in Inflow THEN amount ELSE -amount
           funding == IF type = "DEDUCTION" THEN 0 ELSE delta
<1>1. delta \in Int /\ funding \in Int /\ type \in MovementType
  BY DEF MovementType
<1>2. Post(k, d, type, amount, delta, funding, {}) /\ UNCHANGED <<request, hold>>
  BY DEF Move
<1> HIDE DEF delta, funding
<1>3. DepositInv'
  BY <1>1, <1>2, PostKeeps
<1>4. DepositTypeOK /\ {} \in SUBSET MovementIds
  BY DEF DepositInv
<1>5. /\ movement'[k] = Row(d, type, amount, delta, funding, {})
      /\ \A l \in MovementIds : l # k => movement'[l] = movement[l]
  BY <1>1, <1>2, <1>4, PostEffect
<1> QED BY <1>2, <1>3, <1>5 DEF Row

LEMMA OfficeMoveKeeps ==
    ASSUME DepositInv, NEW k \in DepositKeys, NEW d \in Deposits, NEW type \in MoveType,
           NEW amount \in Nat \ {0}, Move(k, d, type, amount)
    PROVE  DepositInv' /\ Kept
<1>1. k \in MovementIds /\ \A q \in Requests : k # RefundKey(q)
  BY KeysDiffer DEF MovementIds
<1> QED BY <1>1, KeysDiffer, MoveKeeps DEF Kept

LEMMA ReverseKeeps ==
    ASSUME DepositInv, NEW k \in DepositKeys, NEW o \in MovementIds,
           ReverseMovement(k, o)
    PROVE  DepositInv' /\ Kept
<1>1. PICK d \in movement[o].of :
         Post(k, d, "REVERSAL", movement[o].amount,
              -movement[o].delta, -movement[o].funding, {o})
  BY DEF ReverseMovement
<1>2. movement[o] \in MovementRow
  BY DEF ReverseMovement, Posted, DepositInv, DepositTypeOK
<1>3. /\ d \in Deposits /\ movement[o].amount \in Nat \ {0}
      /\ -movement[o].delta \in Int /\ -movement[o].funding \in Int
      /\ "REVERSAL" \in MovementType /\ {o} \in SUBSET MovementIds
  BY <1>2 DEF MovementRow, MovementType
<1>4. k \in MovementIds /\ \A q \in Requests : k # RefundKey(q)
  BY KeysDiffer DEF MovementIds
<1>5. UNCHANGED <<request, hold>>
  BY DEF ReverseMovement
<1>6. DepositTypeOK
  BY DEF DepositInv
<1>7. DepositInv'
  BY <1>1, <1>3, <1>4, <1>5, PostKeeps
<1>8. \A l \in MovementIds : l # k => movement'[l] = movement[l]
  BY <1>1, <1>3, <1>4, <1>6, PostEffect
<1> QED BY <1>5, <1>7, <1>8, KeysDiffer DEF Kept

LEMMA TransferKeeps ==
    ASSUME DepositInv, NEW k \in DepositKeys, NEW from \in Deposits, NEW to \in Deposits,
           NEW amount \in Nat \ {0}, Transfer(k, from, to, amount)
    PROVE  DepositInv' /\ Kept
<1>1. /\ DepositAfter(from, -amount, -amount) \in DepositRow
      /\ DepositAfter(to, amount, amount) \in DepositRow
      /\ DepositAfter(from, -amount, -amount).status = "OPEN"
      /\ DepositAfter(to, amount, amount).status = "OPEN"
  BY DEF Transfer, Affordable, DepositAfter, DepositRow, DepositInv, DepositTypeOK
<1>2. /\ deposit' = [deposit EXCEPT
            ![from] = DepositAfter(from, -amount, -amount),
            ![to] = DepositAfter(to, amount, amount)]
      /\ from # to /\ UNCHANGED <<request, hold>>
  BY DEF Transfer
<1>3. /\ deposit' \in [Deposits -> DepositRow]
      /\ \A d \in Deposits : deposit'[d].status = "CLOSED" => deposit'[d] = deposit[d]
  BY <1>1, <1>2 DEF DepositInv, DepositTypeOK
<1>4. /\ Row(from, "TRANSFER_OUT", amount, -amount, -amount, {}) \in MovementRow
      /\ Row(to, "TRANSFER_IN", amount, amount, amount, {}) \in MovementRow
  BY DEF Row, MovementRow, MovementType, Paired
<1>5. /\ movement' = [movement EXCEPT
            ![<<"out", k>>] = Row(from, "TRANSFER_OUT", amount, -amount, -amount, {}),
            ![<<"in", k>>] = Row(to, "TRANSFER_IN", amount, amount, amount, {})]
  BY DEF Transfer
<1>6. movement' \in [MovementIds -> MovementRow \cup {NoMovement}]
  BY <1>4, <1>5 DEF DepositInv, DepositTypeOK
<1>7. /\ \A d \in Deposits : movement'[SettlementKey(d)] = movement[SettlementKey(d)]
      /\ \A q \in Requests : movement'[RefundKey(q)] = movement[RefundKey(q)]
  BY <1>5, KeysDiffer DEF DepositInv, DepositTypeOK
<1>8. DepositTypeOK'
  BY <1>2, <1>3, <1>6 DEF DepositInv, DepositTypeOK
<1>9. ClosedHoldsNothing' /\ PaidAsPosted'
  BY <1>2, <1>3, <1>7 DEF DepositInv, ClosedHoldsNothing, Awaited, PaidAsPosted, Posted
<1> QED BY <1>2, <1>7, <1>8, <1>9 DEF DepositInv, Kept

LEMMA RequestRefundKeeps ==
    ASSUME DepositInv, NEW q \in Requests, NEW d \in Deposits, NEW amount \in Nat \ {0},
           RequestRefund(q, d, amount)
    PROVE  DepositInv' /\ Kept
<1>1. /\ request[q] = NoRequest
      /\ request' = [request EXCEPT ![q] =
                        [status |-> "REQUESTED", of |-> {d}, amount |-> amount]]
      /\ deposit' = [deposit EXCEPT ![d].status = "OPEN"]
      /\ UNCHANGED <<movement, hold>>
  BY DEF RequestRefund
<1>2. DepositTypeOK'
  BY <1>1 DEF DepositInv, DepositTypeOK, RequestRow, DepositRow
<1>3. ClosedHoldsNothing'
  BY <1>1 DEF DepositInv, DepositTypeOK, DepositRow, ClosedHoldsNothing, Awaited
<1>4. PaidAsPosted' /\ Kept
  BY <1>1 DEF DepositInv, DepositTypeOK, PaidAsPosted, Posted, NoRequest, Kept
<1> QED BY <1>2, <1>3, <1>4 DEF DepositInv

LEMMA CompleteRefundKeeps ==
    ASSUME DepositInv, NEW q \in Requests, CompleteRefund(q)
    PROVE  DepositInv' /\ Kept /\ request'[q].status = "COMPLETED"
<1>1. PICK d \in request[q].of :
         Post(RefundKey(q), d, "REFUND", request[q].amount,
              -request[q].amount, -request[q].amount, {})
  BY DEF CompleteRefund, RefundKey
<1>2. request[q] \in RequestRow
  BY DEF CompleteRefund, DepositInv, DepositTypeOK, NoRequest
<1>3. /\ d \in Deposits /\ request[q].amount \in Nat \ {0} /\ -request[q].amount \in Int
      /\ "REFUND" \in MovementType /\ {} \in SUBSET MovementIds
      /\ RefundKey(q) \in MovementIds
  BY <1>2, KeysDiffer DEF RequestRow, MovementType, MoveType
<1>4. /\ request' = [request EXCEPT ![q].status = "COMPLETED"]
      /\ hold' = hold
  BY DEF CompleteRefund
<1>5. DepositTypeOK
  BY DEF DepositInv
<1>6. /\ deposit' \in [Deposits -> DepositRow]
      /\ movement' \in [MovementIds -> MovementRow \cup {NoMovement}]
      /\ deposit'[d].status = "OPEN"
      /\ \A e \in Deposits : e # d => deposit'[e] = deposit[e]
      /\ movement'[RefundKey(q)] # NoMovement
      /\ \A l \in MovementIds : l # RefundKey(q) => movement'[l] = movement[l]
  BY <1>1, <1>3, <1>5, PostEffect
<1>7. /\ request' \in [Requests -> RequestRow \cup {NoRequest}]
      /\ request'[q].status = "COMPLETED"
      /\ \A r \in Requests : r # q => request'[r] = request[r]
  BY <1>2, <1>4, <1>5 DEF DepositTypeOK, RequestRow
<1>8. DepositTypeOK'
  BY <1>4, <1>5, <1>6, <1>7 DEF DepositTypeOK
<1>9. ClosedHoldsNothing'
  BY <1>6, <1>7 DEF DepositInv, ClosedHoldsNothing, Awaited
<1>10. PaidAsPosted' /\ Kept
  BY <1>6, <1>7, KeysDiffer DEF DepositInv, PaidAsPosted, Posted, Kept
<1> QED BY <1>7, <1>8, <1>9, <1>10 DEF DepositInv

LEMMA CloseDepositKeeps ==
    ASSUME DepositInv, NEW d \in Deposits, CloseDeposit(d)
    PROVE  DepositInv' /\ Kept
<1>1. DepositTypeOK'
  BY DEF CloseDeposit, DepositInv, DepositTypeOK, DepositRow
<1>2. ClosedHoldsNothing'
  BY DEF CloseDeposit, DepositInv, DepositTypeOK, DepositRow, ClosedHoldsNothing, Awaited
<1>3. PaidAsPosted' /\ Kept
  BY DEF CloseDeposit, DepositInv, PaidAsPosted, Posted, Kept
<1> QED BY <1>1, <1>2, <1>3 DEF DepositInv

LEMMA DepositOfficeKeeps ==
    ASSUME DepositInv, DepositOffice
    PROVE  DepositInv' /\ Kept
<1>1. MaxMove \in Nat
  BY DepositAssumption
<1>2. CASE \E k \in DepositKeys, d \in Deposits, amount \in 1..MaxMove :
             \/ \E type \in MoveType : Move(k, d, type, amount)
             \/ \E to \in Deposits : Transfer(k, d, to, amount)
  <2>1. PICK k \in DepositKeys, d \in Deposits, amount \in 1..MaxMove :
             \/ \E type \in MoveType : Move(k, d, type, amount)
             \/ \E to \in Deposits : Transfer(k, d, to, amount)
    BY <1>2
  <2>2. amount \in Nat \ {0}
    BY <1>1
  <2> QED BY <2>1, <2>2, OfficeMoveKeeps, TransferKeeps
<1>3. CASE \E k \in DepositKeys, o \in MovementIds : ReverseMovement(k, o)
  BY <1>3, ReverseKeeps
<1>4. CASE \E q \in Requests :
             \/ \E d \in Deposits, amount \in 1..MaxMove : RequestRefund(q, d, amount)
             \/ CompleteRefund(q)
  <2>1. \A amount \in 1..MaxMove : amount \in Nat \ {0}
    BY <1>1
  <2> QED BY <1>4, <2>1, RequestRefundKeeps, CompleteRefundKeeps
<1>5. CASE \E d \in Deposits : CloseDeposit(d)
  BY <1>5, CloseDepositKeeps
<1> QED BY <1>2, <1>3, <1>4, <1>5 DEF DepositOffice
-----------------------------------------------------------------------------
(* The ledger *)

LEMMA SpendKeeps ==
    ASSUME LedgerTypeOK, NEW s \in Sources, NEW amount \in Nat, NEW i \in Invoices,
           Spend(s, amount, i)
    PROVE  LedgerTypeOK' /\ ReceiptsKept
<1>1. PICK held \in 0..receipt[s].unallocated : Allocate(s, amount, {i}, Due, held)
  BY DEF Spend
<1>2. held \in Nat
  BY DEF LedgerTypeOK, ReceiptRow
<1>3. LedgerTypeOK'
  BY <1>1, <1>2, AllocateKeeps
<1>4. PICK spent : receipt' = [receipt EXCEPT ![s].unallocated = @ - spent]
  BY <1>1 DEF Allocate
<1>5. ReceiptsKept
  BY <1>4 DEF ReceiptsKept, Recorded, LedgerTypeOK, ReceiptRow
<1> QED BY <1>3, <1>5

LEMMA ReverseAllocationKeepsReceipts ==
    ASSUME LedgerTypeOK, NEW s \in Sources, NEW i \in Invoices, NEW k,
           ReverseAllocation(s, i, k)
    PROVE  ReceiptsKept
  BY DEF ReverseAllocation, ReceiptsKept, Recorded, LedgerTypeOK, ReceiptRow

LEMMA ReturnKeepsReceipts ==
    ASSUME LedgerTypeOK, NEW s \in Sources, NEW amount \in Nat, NEW treatment,
           ConfirmProviderRefund(s, amount, treatment)
    PROVE  ReceiptsKept
  BY DEF ConfirmProviderRefund, Refundable, ReceiptsKept, Recorded, LedgerTypeOK, ReceiptRow

LEMMA ReceiptOfficeKeeps ==
    ASSUME LedgerTypeOK, ReceiptOffice
    PROVE  LedgerTypeOK' /\ ReceiptsKept
<1>1. \A amount \in 1..MaxReceipt : amount \in Nat
  BY LedgerAssumption
<1> QED BY <1>1, SpendKeeps, ReverseAllocationKeeps, ReverseAllocationKeepsReceipts
        DEF ReceiptOffice

-----------------------------------------------------------------------------
(* What calls know stays true *)

LEMMA KnowledgeStays ==
    ASSUME Kept, ReceiptsKept, NEW row \in CallRow, Knows(row)
    PROVE  Knows(row)'
<1>1. row.of \subseteq Deposits /\ row.for \subseteq Requests
  BY DEF CallRow
<1>2. \A d \in Deposits : SettlementKey(d) \in Sources
  BY SettlementAssumption DEF SettlementSources, SettlementKey
<1> QED BY <1>1, <1>2 DEF Knows, Kept, ReceiptsKept, Posted

LEMMA CallsKeepKnowing ==
    ASSUME ExitInv, Kept, ReceiptsKept,
           \A b \in Calls : call'[b] = call[b] \/ Knows(call[b])'
    PROVE  CallsKnow'
<1>1. \A b \in Calls : call[b] \in CallRow /\ Knows(call[b])
  BY DEF ExitInv, ExitTypeOK, CallsKnow
<1>2. ASSUME NEW b \in Calls, call'[b] = call[b] PROVE Knows(call[b])'
  <2> DEFINE row == call[b]
  <2>1. row \in CallRow /\ Knows(row)
    BY <1>1
  <2>2. ASSUME NEW r \in CallRow, Knows(r) PROVE Knows(r)'
    BY <2>2, KnowledgeStays
  <2> QED BY <1>1, <1>2, <2>2 DEF Knows
<1> QED BY <1>2 DEF CallsKnow

\* New applications and completed refunds are known to be justified.
Justified ==
    /\ \A d \in Deposits :
          \/ application'[d] = application[d]
          \/ /\ Recorded(SettlementKey(d))
             /\ receipt[SettlementKey(d)].amount = application'[d]
    /\ \A q \in Requests :
          payback'[q] = "COMPLETED" => \/ payback[q] = "COMPLETED"
                                       \/ request[q].status = "COMPLETED"

LEMMA SettledStays ==
    ASSUME ExitInv, Kept, ReceiptsKept, DepositInv', Justified
    PROVE  /\ \A d \in Deposits : SettlementRow(d)'
           /\ AppliedAsDeducted' /\ CompletedWasPaid'
<1>1. \A d \in Deposits : SettlementKey(d) \in Sources
  BY SettlementAssumption DEF SettlementSources, SettlementKey
<1>2. \A d \in Deposits : SettlementRow(d)'
  BY DEF ExitInv, SettlementRow, Posted, Kept
<1>3. ASSUME NEW d \in Deposits
      PROVE  LET s == SettlementKey(d) IN
             /\ Recorded(s)' => /\ movement'[s].type = "DEDUCTION" /\ movement'[s].of = {d}
                                /\ movement'[s].amount = receipt'[s].amount
             /\ application'[d] > 0 => Recorded(s)' /\ receipt'[s].amount = application'[d]
  <2> DEFINE s == SettlementKey(d)
  <2>2. s \in Sources
    BY <1>1
  <2>3. /\ Recorded(s) => /\ movement[s].type = "DEDUCTION" /\ movement[s].of = {d}
                          /\ movement[s].amount = receipt[s].amount
        /\ application[d] > 0 => Recorded(s) /\ receipt[s].amount = application[d]
    BY DEF ExitInv, AppliedAsDeducted, SettlementKey
  <2>4. movement[s].type = "DEDUCTION" => movement'[s] = movement[s]
    BY DEF Kept, Posted, NoMovement
  <2>5. Recorded(s) => Recorded(s)' /\ receipt'[s].amount = receipt[s].amount
    BY <2>2 DEF ReceiptsKept
  <2>6. Recorded(s)' => /\ movement'[s].type = "DEDUCTION" /\ movement'[s].of = {d}
                        /\ movement'[s].amount = receipt'[s].amount
    <3>1. CASE Recorded(s)
      BY <3>1, <2>3, <2>4, <2>5
    <3>2. CASE ~Recorded(s)
      <4>1. ASSUME Recorded(s)'
            PROVE  /\ movement[s].type = "DEDUCTION" /\ movement[s].of = {d}
                   /\ movement[s].amount = receipt'[s].amount
        BY <2>2, <3>2, <4>1, KeysDiffer DEF ReceiptsKept
      <4> QED BY <4>1, <2>4
    <3> QED BY <3>1, <3>2
  <2>7. application'[d] > 0 => Recorded(s)' /\ receipt'[s].amount = application'[d]
    BY <2>3, <2>5 DEF Justified
  <2> QED BY <2>6, <2>7
<1>4. AppliedAsDeducted'
  BY <1>3 DEF AppliedAsDeducted, SettlementKey
<1>5. CompletedWasPaid'
  <2>1. \A q \in Requests : payback'[q] = "COMPLETED" => request[q].status = "COMPLETED"
    BY DEF ExitInv, CompletedWasPaid, Justified
  <2>2. \A q \in Requests : payback'[q] = "COMPLETED" => request'[q].status = "COMPLETED"
    BY <2>1 DEF Kept
  <2> QED BY <2>2 DEF CompletedWasPaid, DepositInv, PaidAsPosted, RefundKey
<1> QED BY <1>2, <1>4, <1>5

LEMMA StepKeeps ==
    ASSUME ExitInv, LedgerTypeOK', DepositInv', ExitTypeOK', Kept, ReceiptsKept,
           Justified, \A b \in Calls : call'[b] = call[b] \/ Knows(call[b])'
    PROVE  ExitInv'
  BY CallsKeepKnowing, SettledStays DEF ExitInv

\* The step of a call that leaves the settlement's own rows alone.
LEMMA CallStepKeeps ==
    ASSUME ExitInv, NEW c \in Calls, NEW row \in CallRow,
           call' = [call EXCEPT ![c] = row], Knows(row)',
           LedgerTypeOK', DepositInv', Kept, ReceiptsKept,
           UNCHANGED <<application, payback>>,
           stage' \in Stage, excess' \in [Excesses -> ExcessRow]
    PROVE  ExitInv'
<1>1. ExitTypeOK'
  BY DEF ExitInv, ExitTypeOK
<1>2. \A b \in Calls : call'[b] = call[b] \/ Knows(call[b])'
  <2>1. TAKE b \in Calls
  <2>2. CASE b = c
    <3>1. call'[b] = row
      BY <2>2 DEF ExitInv, ExitTypeOK
    <3> QED BY <3>1 DEF Knows
  <2>3. CASE b # c
    BY <2>3 DEF ExitInv, ExitTypeOK
  <2> QED BY <2>2, <2>3
<1>3. Justified
  BY DEF Justified
<1> QED BY <1>1, <1>2, <1>3, StepKeeps

\* Nothing but the call, the stage and the excesses changes.
LEMMA QuietKeeps ==
    ASSUME ExitInv, NEW c \in Calls, NEW row \in CallRow,
           call' = [call EXCEPT ![c] = row], Knows(row),
           UNCHANGED <<ledgerVars, depositVars, application, payback>>,
           stage' \in Stage, excess' \in [Excesses -> ExcessRow]
    PROVE  ExitInv'
<1>1. LedgerTypeOK' /\ DepositInv'
  BY DEF ExitInv, ledgerVars, depositVars, LedgerTypeOK, DepositInv, DepositTypeOK,
         ClosedHoldsNothing, Awaited, PaidAsPosted, Posted
<1>2. Kept /\ ReceiptsKept
  BY DEF ledgerVars, depositVars, Kept, ReceiptsKept, Recorded
<1>3. Knows(row)'
  BY <1>2, KnowledgeStays
<1> QED BY <1>1, <1>2, <1>3, CallStepKeeps

\* A call that is over, or that begins, knows nothing that could become false.
LEMMA NoCallKnows == NoCall \in CallRow /\ Knows(NoCall)
  BY DEF NoCall, CallRow, CallStep, Knows

LEMMA EndKeeps ==
    ASSUME ExitInv, NEW c \in Calls, Ends(c),
           UNCHANGED <<ledgerVars, depositVars, application, payback>>,
           stage' \in Stage, excess' \in [Excesses -> ExcessRow]
    PROVE  ExitInv'
  BY NoCallKnows, QuietKeeps DEF Ends

LEMMA BeginKeeps ==
    ASSUME ExitInv, NEW c \in Calls, NEW at \in CallStep, NEW of \in SUBSET Deposits,
           NEW amount \in Nat, Begin(c, at, of, amount),
           \A d, e \in of : d = e,
           at \notin {"apply-deducted", "apply-allocating", "payback-checked", "complete-paid"},
           at = "apply-checked" => amount > 0,
           UNCHANGED <<ledgerVars, depositVars, stage, application, payback, excess>>
    PROVE  ExitInv'
<1> DEFINE row == [NoCall EXCEPT !.at = at, !.of = of, !.amount = amount]
<1>1. row \in CallRow /\ Knows(row)
  BY DEF NoCall, CallRow, CallStep, Knows
<1>2. call' = [call EXCEPT ![c] = row]
  BY DEF Begin
<1>3. stage' \in Stage /\ excess' \in [Excesses -> ExcessRow]
  BY DEF ExitInv, ExitTypeOK
<1> HIDE DEF row
<1> QED BY <1>1, <1>2, <1>3, QuietKeeps

\* The operations that only read before they call another service.
LEMMA BeginningsKeep ==
    ASSUME ExitInv, NEW c \in Calls,
           \/ BeginApprove(c)
           \/ \E d \in Deposits : \/ BeginHold(c, d)
                                  \/ \E amount \in 1..MaxMove : BeginApply(c, d, amount)
                                  \/ \E q \in Requests : BeginPayback(c, q, d)
           \/ \E q \in Requests : BeginComplete(c, q)
           \/ BeginExcess(c) \/ BeginClose(c)
    PROVE  ExitInv'
<1>0. stage \in Stage /\ excess \in [Excesses -> ExcessRow]
  BY DEF ExitInv, ExitTypeOK
<1>1. CASE BeginApprove(c)
  <2> DEFINE row == [NoCall EXCEPT !.at = "approve-allocating", !.queue = Unspent]
  <2>1. row \in CallRow /\ Knows(row)
    BY DEF NoCall, CallRow, CallStep, Knows, Unspent
  <2>2. /\ call' = [call EXCEPT ![c] = row]
        /\ UNCHANGED <<ledgerVars, depositVars, stage, application, payback, excess>>
    BY <1>1 DEF BeginApprove
  <2> HIDE DEF row
  <2> QED BY <1>0, <2>1, <2>2, QuietKeeps
<1>2. ASSUME NEW d \in Deposits, BeginHold(c, d) PROVE ExitInv'
  <2>1. deposit[d].available \in Nat /\ {d} \in SUBSET Deposits
    BY DEF ExitInv, DepositInv, DepositTypeOK, DepositRow
  <2> QED BY <1>2, <2>1, BeginKeeps DEF BeginHold, CallStep
<1>3. ASSUME NEW d \in Deposits, NEW amount \in 1..MaxMove, BeginApply(c, d, amount)
      PROVE  ExitInv'
  <2>1. amount \in Nat /\ amount > 0 /\ {d} \in SUBSET Deposits
    BY DepositAssumption
  <2> QED BY <1>3, <2>1, BeginKeeps DEF BeginApply, CallStep
<1>4. ASSUME NEW d \in Deposits, NEW q \in Requests, BeginPayback(c, q, d)
      PROVE  ExitInv'
  <2>1. PICK amount \in 1..deposit[d].available :
           call' = [call EXCEPT ![c] = [NoCall EXCEPT !.at = "payback-checked",
                                          !.of = {d}, !.amount = amount, !.for = {q}]]
    BY <1>4 DEF BeginPayback
  <2>2. amount \in Nat /\ amount > 0
    BY DEF ExitInv, DepositInv, DepositTypeOK, DepositRow
  <2> DEFINE row == [NoCall EXCEPT !.at = "payback-checked",
                                   !.of = {d}, !.amount = amount, !.for = {q}]
  <2>3. row \in CallRow /\ Knows(row)
    BY <2>2 DEF NoCall, CallRow, CallStep, Knows
  <2>4. UNCHANGED <<ledgerVars, depositVars, stage, application, payback, excess>>
    BY <1>4 DEF BeginPayback
  <2>5. call' = [call EXCEPT ![c] = row]
    BY <2>1
  <2> HIDE DEF row
  <2> QED BY <1>0, <2>3, <2>4, <2>5, QuietKeeps
<1>5. ASSUME NEW q \in Requests, BeginComplete(c, q) PROVE ExitInv'
  <2> DEFINE row == [NoCall EXCEPT !.at = "complete-checked", !.for = {q}]
  <2>1. row \in CallRow /\ Knows(row)
    BY DEF NoCall, CallRow, CallStep, Knows
  <2>2. /\ call' = [call EXCEPT ![c] = row]
        /\ UNCHANGED <<ledgerVars, depositVars, stage, application, payback, excess>>
    BY <1>5 DEF BeginComplete
  <2> HIDE DEF row
  <2> QED BY <1>0, <2>1, <2>2, QuietKeeps
<1>6. CASE BeginExcess(c) \/ BeginClose(c)
  <2>1. {} \in SUBSET Deposits /\ 0 \in Nat
    OBVIOUS
  <2> QED BY <1>6, <2>1, BeginKeeps DEF BeginExcess, BeginClose, CallStep
<1> QED BY <1>1, <1>2, <1>3, <1>4, <1>5, <1>6

\* Steps of a call that change nothing that another call knows.
LEMMA GoingOnKeeps ==
    ASSUME ExitInv, NEW c \in Calls,
           TakeReceipt(c) \/ ReadPreview(c) \/ Reconcile(c)
    PROVE  ExitInv'
<1>0. /\ stage \in Stage /\ excess \in [Excesses -> ExcessRow]
      /\ call[c] \in CallRow /\ Knows(call[c])
  BY DEF ExitInv, ExitTypeOK, CallsKnow
<1>1. CASE TakeReceipt(c)
  <2>1. PICK s \in call[c].queue :
           call' = [call EXCEPT ![c].queue = @ \ {s},
                      ![c].todo = {<<s, i, invoice[i].outstanding>> : i \in Wanting}]
    BY <1>1 DEF TakeReceipt
  <2> DEFINE read == {<<s, i, invoice[i].outstanding>> : i \in Wanting}
             row == [call[c] EXCEPT !.queue = @ \ {s}, !.todo = read]
  <2>2. read \in SUBSET (Sources \X Invoices \X Nat)
    <3>1. s \in Sources /\ \A i \in Wanting : i \in Invoices /\ invoice[i].outstanding \in Nat
      BY <1>0 DEF ExitInv, LedgerTypeOK, InvoiceRow, Wanting, CallRow
    <3> QED BY <3>1
  <2>3. call' = [call EXCEPT ![c] = row]
    BY <2>1 DEF ExitInv, ExitTypeOK
  <2> HIDE DEF read
  <2>4. row \in CallRow
    BY <1>0, <2>2 DEF CallRow
  <2>5. /\ row.at = call[c].at /\ row.of = call[c].of
        /\ row.for = call[c].for /\ row.amount = call[c].amount
    BY <1>0 DEF CallRow
  <2> HIDE DEF row
  <2>6. Knows(row)
    BY <1>0, <2>5 DEF Knows
  <2>7. UNCHANGED <<ledgerVars, depositVars, stage, application, payback, excess>>
    BY <1>1 DEF TakeReceipt
  <2> QED BY <1>0, <2>3, <2>4, <2>6, <2>7, QuietKeeps
<1>2. ASSUME NEW at \in CallStep \ {"apply-checked", "apply-deducted", "apply-allocating",
                                   "payback-checked", "complete-paid"},
             Goes(c, at),
             UNCHANGED <<ledgerVars, depositVars, stage, application, payback, excess>>
      PROVE  ExitInv'
  <2> DEFINE row == [call[c] EXCEPT !.at = at]
  <2>1. call' = [call EXCEPT ![c] = row]
    BY <1>2 DEF Goes, ExitInv, ExitTypeOK
  <2>2. row \in CallRow /\ Knows(row)
    BY <1>0 DEF CallRow, Knows
  <2> HIDE DEF row
  <2> QED BY <1>0, <1>2, <2>1, <2>2, QuietKeeps
<1>3. CASE ReadPreview(c)
  BY <1>2, <1>3 DEF ReadPreview, StageOfSums, CallStep, Approved
<1>4. CASE Reconcile(c)
  BY <1>2, <1>4 DEF Reconcile, CallStep
<1> QED BY <1>1, <1>3, <1>4

\* The transactions that end an operation without a lasting effect on money.
LEMMA EndingsKeep ==
    ASSUME ExitInv, NEW c \in Calls,
           \/ Stop(c) \/ CommitApprove(c) \/ CommitClose(c)
           \/ \E x \in Excesses, s \in Sources, amount \in 1..MaxReceipt :
                 RequestExcess(c, x, s, amount)
    PROVE  ExitInv'
<1>0. stage \in Stage /\ excess \in [Excesses -> ExcessRow]
  BY DEF ExitInv, ExitTypeOK
<1>1. CASE Stop(c)
  BY <1>0, <1>1, EndKeeps DEF Stop
<1>2. CASE CommitApprove(c)
  BY <1>0, <1>2, EndKeeps DEF CommitApprove, Approved, Stage
<1>3. CASE CommitClose(c)
  BY <1>0, <1>3, EndKeeps DEF CommitClose, Stage
<1>4. ASSUME NEW x \in Excesses, NEW s \in Sources, NEW amount \in 1..MaxReceipt,
             RequestExcess(c, x, s, amount)
      PROVE  ExitInv'
  <2>1. amount \in Nat
    BY LedgerAssumption
  <2>2. excess' \in [Excesses -> ExcessRow] /\ stage' \in Stage
    BY <1>0, <1>4, <2>1 DEF RequestExcess, ExcessRow, Stage, Approved
  <2> QED BY <1>4, <2>2, EndKeeps DEF RequestExcess
<1> QED BY <1>1, <1>2, <1>3, <1>4

\* What CommitHold and ReleaseHold do to the deposits.
LEMMA HoldKeeps ==
    ASSUME DepositInv, hold' \in [HoldIds -> HoldRow \cup {NoHold}],
           UNCHANGED <<deposit, movement, request>>
    PROVE  DepositInv' /\ Kept
  BY DEF DepositInv, DepositTypeOK, ClosedHoldsNothing, Awaited, PaidAsPosted, Posted, Kept

LEMMA HoldsKeep ==
    ASSUME ExitInv,
           \/ \E h \in HoldIds : ReleaseHold(h)
           \/ \E c \in Calls, h \in HoldIds, amount \in 1..MaxMove : CommitHold(c, h, amount)
    PROVE  ExitInv'
<1>0. DepositInv /\ hold \in [HoldIds -> HoldRow \cup {NoHold}]
  BY DEF ExitInv, DepositInv, DepositTypeOK
<1>1. ASSUME NEW h \in HoldIds, ReleaseHold(h) PROVE ExitInv'
  <2>1. hold' \in [HoldIds -> HoldRow \cup {NoHold}]
    BY <1>0, <1>1 DEF ReleaseHold, HoldRow, NoHold
  <2>2. DepositInv' /\ Kept
    BY <1>0, <1>1, <2>1, HoldKeeps DEF ReleaseHold
  <2>3. LedgerTypeOK' /\ ReceiptsKept /\ ExitTypeOK'
    BY <1>1 DEF ReleaseHold, ExitInv, ExitTypeOK, LedgerTypeOK, ReceiptsKept, Recorded,
                ledgerVars, exitVars
  <2> QED BY <1>1, <2>2, <2>3, StepKeeps DEF ReleaseHold, exitVars, Justified
<1>2. ASSUME NEW c \in Calls, NEW h \in HoldIds, NEW amount \in 1..MaxMove,
             CommitHold(c, h, amount)
      PROVE  ExitInv'
  <2>1. PICK d \in call[c].of :
           hold' = [hold EXCEPT ![h] = [status |-> "ACTIVE", of |-> {d}, amount |-> amount]]
    BY <1>2 DEF CommitHold
  <2>2. d \in Deposits /\ amount \in Nat \ {0}
    BY DepositAssumption DEF ExitInv, ExitTypeOK, CallRow
  <2>3. hold' \in [HoldIds -> HoldRow \cup {NoHold}]
    BY <1>0, <2>1, <2>2 DEF HoldRow
  <2>4. DepositInv' /\ Kept
    BY <1>0, <1>2, <2>3, HoldKeeps DEF CommitHold
  <2>5. call' = [call EXCEPT ![c] = NoCall]
    BY <1>2 DEF CommitHold, Ends
  <2>6. LedgerTypeOK' /\ ReceiptsKept
    BY <1>2 DEF CommitHold, ExitInv, LedgerTypeOK, ReceiptsKept, Recorded, ledgerVars
  <2>7. Knows(NoCall)'
    BY DEF Knows, NoCall
  <2>8. /\ UNCHANGED <<application, payback>>
        /\ stage' \in Stage /\ excess' \in [Excesses -> ExcessRow]
    BY <1>2 DEF CommitHold, ExitInv, ExitTypeOK
  <2> QED BY <2>4, <2>5, <2>6, <2>7, <2>8, NoCallKnows, CallStepKeeps
<1> QED BY <1>1, <1>2

\* Steps outside the calls.
LEMMA OutsideKeeps ==
    ASSUME ExitInv,
           \/ ReceiptOffice /\ UNCHANGED <<depositVars, exitVars>>
           \/ DepositOffice /\ UNCHANGED <<ledgerVars, exitVars>>
           \/ MoveStage
           \/ \E x \in Excesses : CompleteExcess(x)
    PROVE  ExitInv'
<1>0. LedgerTypeOK /\ DepositInv /\ ExitTypeOK
  BY DEF ExitInv
<1>1. CASE ReceiptOffice /\ UNCHANGED <<depositVars, exitVars>>
  <2>1. LedgerTypeOK' /\ ReceiptsKept
    BY <1>0, <1>1, ReceiptOfficeKeeps
  <2>2. DepositInv' /\ Kept /\ ExitTypeOK'
    BY <1>0, <1>1 DEF depositVars, exitVars, DepositInv, DepositTypeOK,
                      ClosedHoldsNothing, Awaited, PaidAsPosted, Posted, Kept, ExitTypeOK
  <2> QED BY <1>1, <2>1, <2>2, StepKeeps DEF exitVars, Justified
<1>2. CASE DepositOffice /\ UNCHANGED <<ledgerVars, exitVars>>
  <2>1. DepositInv' /\ Kept
    BY <1>0, <1>2, DepositOfficeKeeps
  <2>2. LedgerTypeOK' /\ ReceiptsKept /\ ExitTypeOK'
    BY <1>0, <1>2 DEF ledgerVars, exitVars, LedgerTypeOK, ReceiptsKept, Recorded, ExitTypeOK
  <2> QED BY <1>2, <2>1, <2>2, StepKeeps DEF exitVars, Justified
<1>3. CASE MoveStage
  <2>1. stage' \in Stage
    BY <1>3 DEF MoveStage, Stage, Draft
  <2>2. LedgerTypeOK' /\ DepositInv' /\ Kept /\ ReceiptsKept /\ ExitTypeOK'
    BY <1>0, <1>3, <2>1 DEF MoveStage, ledgerVars, depositVars, LedgerTypeOK, DepositInv,
         DepositTypeOK, ClosedHoldsNothing, Awaited, PaidAsPosted, Posted, Kept,
         ReceiptsKept, Recorded, ExitTypeOK
  <2> QED BY <1>3, <2>2, StepKeeps DEF MoveStage, Justified
<1>4. ASSUME NEW x \in Excesses, CompleteExcess(x) PROVE ExitInv'
  <2>1. PICK s \in excess[x].of :
           ConfirmProviderRefund(s, excess[x].amount, "UNALLOCATED_RETURN")
    BY <1>4 DEF CompleteExcess
  <2>2. s \in Sources /\ excess[x].amount \in Nat
    BY <1>0 DEF ExitTypeOK, ExcessRow
  <2>3. LedgerTypeOK' /\ ReceiptsKept
    BY <1>0, <2>1, <2>2, ConfirmProviderRefundKeeps, ReturnKeepsReceipts
  <2>4. ExitTypeOK'
    BY <1>0, <1>4 DEF CompleteExcess, ExitTypeOK, ExcessRow
  <2>5. DepositInv' /\ Kept
    BY <1>0, <1>4 DEF CompleteExcess, depositVars, DepositInv, DepositTypeOK,
                      ClosedHoldsNothing, Awaited, PaidAsPosted, Posted, Kept
  <2> QED BY <1>4, <2>3, <2>4, <2>5, StepKeeps DEF CompleteExcess, Justified
<1> QED BY <1>1, <1>2, <1>3, <1>4

\* An allocation moves money of receipts, not their amounts.
LEMMA AllocatingKeeps ==
    ASSUME ExitInv, NEW c \in Calls, AllocateNextInvoice(c)
    PROVE  ExitInv'
<1>0. /\ LedgerTypeOK /\ DepositInv /\ ExitTypeOK
      /\ call[c] \in CallRow /\ Knows(call[c])
  BY DEF ExitInv, ExitTypeOK, CallsKnow
<1>1. UNCHANGED <<depositVars, stage, application, payback, excess>>
  BY DEF AllocateNextInvoice
<1>2. PICK p \in FirstDue(call[c].todo) :
         LET left == receipt[p[1]].unallocated IN
         IF left = 0
         THEN call' = [call EXCEPT ![c].todo = {}] /\ UNCHANGED ledgerVars
         ELSE /\ Spend(p[1], IF left < p[3] THEN left ELSE p[3], p[2])
              /\ call' = [call EXCEPT ![c].todo = @ \ {p}]
  BY DEF AllocateNextInvoice
<1>3. p[1] \in Sources /\ p[2] \in Invoices /\ p[3] \in Nat
  <2>1. p \in Sources \X Invoices \X Nat
    BY <1>0 DEF FirstDue, CallRow
  <2> QED BY <2>1
<1>4. LedgerTypeOK' /\ ReceiptsKept
  <2>1. CASE receipt[p[1]].unallocated = 0
    BY <1>0, <1>2, <2>1 DEF ledgerVars, LedgerTypeOK, ReceiptsKept, Recorded
  <2>2. CASE receipt[p[1]].unallocated # 0
    <3> DEFINE left == receipt[p[1]].unallocated
               amount == IF left < p[3] THEN left ELSE p[3]
    <3>1. amount \in Nat
      BY <1>0, <1>3 DEF LedgerTypeOK, ReceiptRow
    <3>2. Spend(p[1], amount, p[2])
      BY <1>2, <2>2
    <3> HIDE DEF amount
    <3> QED BY <1>0, <1>3, <3>1, <3>2, SpendKeeps
  <2> QED BY <2>1, <2>2
<1>5. DepositInv' /\ Kept
  BY <1>0, <1>1 DEF depositVars, DepositInv, DepositTypeOK,
                    ClosedHoldsNothing, Awaited, PaidAsPosted, Posted, Kept
<1>6. PICK todo \in SUBSET call[c].todo : call' = [call EXCEPT ![c].todo = todo]
  BY <1>2
<1>7. [call[c] EXCEPT !.todo = todo] \in CallRow
  BY <1>0 DEF CallRow
<1>8. call' = [call EXCEPT ![c] = [call[c] EXCEPT !.todo = todo]]
  BY <1>0, <1>6 DEF ExitTypeOK
<1>9. PICK row \in CallRow :
         /\ call' = [call EXCEPT ![c] = row]
         /\ row.at = call[c].at /\ row.of = call[c].of
         /\ row.for = call[c].for /\ row.amount = call[c].amount
  BY <1>0, <1>7, <1>8 DEF CallRow
<1>10. Knows(row)
  BY <1>0, <1>9 DEF Knows
<1>11. Knows(row)'
  BY <1>4, <1>5, <1>10, KnowledgeStays
<1>12. stage' \in Stage /\ excess' \in [Excesses -> ExcessRow]
  BY <1>0, <1>1 DEF ExitTypeOK
<1> QED BY <1>1, <1>4, <1>5, <1>9, <1>11, <1>12, CallStepKeeps

\* A call that goes on keeps what it is about.
LEMMA GoesRow ==
    ASSUME ExitTypeOK, NEW c \in Calls, NEW at \in CallStep, Goes(c, at)
    PROVE  \E row \in CallRow :
              /\ call' = [call EXCEPT ![c] = row]
              /\ row.at = at /\ row.of = call[c].of
              /\ row.for = call[c].for /\ row.amount = call[c].amount
<1>1. [call[c] EXCEPT !.at = at] \in CallRow
  BY DEF ExitTypeOK, CallRow
<1>2. call' = [call EXCEPT ![c] = [call[c] EXCEPT !.at = at]]
  BY DEF Goes, ExitTypeOK
<1> QED BY <1>1, <1>2 DEF CallRow, ExitTypeOK

\* The deduction is posted under the key of the settlement, or was.
LEMMA DeductKeeps ==
    ASSUME ExitInv, NEW c \in Calls, Deduct(c)
    PROVE  ExitInv'
<1>0. /\ LedgerTypeOK /\ DepositInv /\ ExitTypeOK
      /\ call[c] \in CallRow /\ Knows(call[c])
  BY DEF ExitInv, ExitTypeOK, CallsKnow
<1>1. /\ call[c].at = "apply-checked"
      /\ UNCHANGED <<ledgerVars, stage, application, payback, excess>>
      /\ Goes(c, "apply-deducted")
  BY DEF Deduct
<1>2. PICK d \in call[c].of :
         IF Posted(SettlementKey(d))
         THEN movement[SettlementKey(d)].amount = call[c].amount /\ UNCHANGED depositVars
         ELSE Move(SettlementKey(d), d, "DEDUCTION", call[c].amount)
  BY DEF Deduct, SettlementKey
<1>3. PICK row \in CallRow :
         /\ call' = [call EXCEPT ![c] = row]
         /\ row.at = "apply-deducted" /\ row.of = call[c].of
         /\ row.for = call[c].for /\ row.amount = call[c].amount
  BY <1>0, <1>1, GoesRow DEF CallStep
<1>4. /\ d \in Deposits /\ call[c].amount \in Nat \ {0}
      /\ \A e \in call[c].of : e = d
  BY <1>0, <1>1, <1>2 DEF CallRow, Knows
<1>5. /\ DepositInv' /\ Kept /\ Posted(SettlementKey(d))'
      /\ movement'[SettlementKey(d)].amount = call[c].amount
  <2>1. CASE Posted(SettlementKey(d))
    BY <1>0, <1>2, <2>1 DEF depositVars, DepositInv, DepositTypeOK,
       ClosedHoldsNothing, Awaited, PaidAsPosted, Posted, Kept
  <2>2. CASE ~Posted(SettlementKey(d))
    <3>1. /\ SettlementKey(d) \in MovementIds /\ "DEDUCTION" \in MoveType
          /\ \A q \in Requests : SettlementKey(d) # RefundKey(q)
      BY <1>4, KeysDiffer DEF MoveType
    <3>2. /\ DepositInv'
          /\ movement'[SettlementKey(d)].type = "DEDUCTION"
          /\ movement'[SettlementKey(d)].of = {d}
          /\ movement'[SettlementKey(d)].amount = call[c].amount
          /\ \A l \in MovementIds : l # SettlementKey(d) => movement'[l] = movement[l]
          /\ request' = request
      BY <1>0, <1>2, <1>4, <2>2, <3>1, MoveKeeps
    <3>3. Kept
      <4>1. \A e \in Deposits : e = d \/ movement'[SettlementKey(e)] = movement[SettlementKey(e)]
        BY <1>4, <3>2, KeysDiffer
      <4> HIDE DEF SettlementKey
      <4> QED BY <2>2, <3>2, <4>1 DEF Kept
    <3>4. movement'[SettlementKey(d)] # NoMovement
      BY <3>2 DEF NoMovement
    <3> QED BY <3>2, <3>3, <3>4 DEF Posted
  <2> QED BY <2>1, <2>2
<1>6. LedgerTypeOK' /\ ReceiptsKept
  BY <1>0, <1>1 DEF ledgerVars, LedgerTypeOK, ReceiptsKept, Recorded
<1>7. Knows(row)'
  BY <1>0, <1>3, <1>4, <1>5 DEF Knows
<1>8. stage' \in Stage /\ excess' \in [Excesses -> ExcessRow]
  BY <1>0, <1>1 DEF ExitTypeOK
<1> QED BY <1>1, <1>3, <1>5, <1>6, <1>7, <1>8, CallStepKeeps

LEMMA RecordPaymentReceipts ==
    ASSUME LedgerTypeOK, NEW s \in Sources, NEW amount \in Nat, RecordPayment(s, amount)
    PROVE  /\ ~Recorded(s) /\ Recorded(s)' /\ receipt'[s].amount = amount
           /\ \A r \in Sources : r # s => receipt'[r] = receipt[r]
  BY DEF RecordPayment, LedgerTypeOK, ReceiptRow, Recorded

\* The payment has the amount of the deduction that the call has seen.
LEMMA RecordDeductionKeeps ==
    ASSUME ExitInv, NEW c \in Calls, RecordDeduction(c)
    PROVE  ExitInv'
<1>0. /\ LedgerTypeOK /\ DepositInv /\ ExitTypeOK
      /\ call[c] \in CallRow /\ Knows(call[c])
  BY DEF ExitInv, ExitTypeOK, CallsKnow
<1>1. /\ call[c].at = "apply-deducted"
      /\ UNCHANGED <<depositVars, stage, application, payback, excess>>
  BY DEF RecordDeduction
<1>2. PICK d \in call[c].of :
         LET s == SettlementKey(d) IN
         /\ IF Recorded(s)
            THEN receipt[s].amount = call[c].amount /\ UNCHANGED ledgerVars
            ELSE RecordPayment(s, call[c].amount)
         /\ call' = [call EXCEPT ![c].at = "apply-allocating",
               ![c].queue = IF Recorded(s) /\ receipt[s].unallocated = 0
                            THEN {} ELSE {s}]
  BY DEF RecordDeduction, SettlementKey
<1>3. /\ d \in Deposits /\ call[c].amount \in Nat
      /\ \A e \in call[c].of : e = d
      /\ SettlementKey(d) \in Sources
      /\ Posted(SettlementKey(d)) /\ movement[SettlementKey(d)].amount = call[c].amount
  BY <1>0, <1>1, <1>2, SettlementAssumption DEF CallRow, Knows, SettlementSources, SettlementKey
<1>4. PICK queue \in SUBSET Sources :
         call' = [call EXCEPT ![c].at = "apply-allocating", ![c].queue = queue]
  BY <1>2, <1>3
<1>5. [call[c] EXCEPT !.at = "apply-allocating", !.queue = queue] \in CallRow
  BY <1>0 DEF CallRow, CallStep
<1>6. call' = [call EXCEPT ![c] =
                  [call[c] EXCEPT !.at = "apply-allocating", !.queue = queue]]
  BY <1>0, <1>4 DEF ExitTypeOK
<1>7. PICK row \in CallRow :
         /\ call' = [call EXCEPT ![c] = row]
         /\ row.at = "apply-allocating" /\ row.of = call[c].of
         /\ row.for = call[c].for /\ row.amount = call[c].amount
  BY <1>0, <1>5, <1>6 DEF CallRow
<1>8. movement[SettlementKey(d)].type = "DEDUCTION" /\ movement[SettlementKey(d)].of = {d}
  BY <1>3 DEF ExitInv, SettlementRow
<1>9. /\ LedgerTypeOK' /\ ReceiptsKept
      /\ Recorded(SettlementKey(d))' /\ receipt'[SettlementKey(d)].amount = call[c].amount
  <2>1. CASE Recorded(SettlementKey(d))
    BY <1>0, <1>2, <2>1 DEF ledgerVars, LedgerTypeOK, ReceiptsKept, Recorded
  <2>2. CASE ~Recorded(SettlementKey(d))
    <3>1. RecordPayment(SettlementKey(d), call[c].amount)
      BY <1>2, <2>2
    <3>2. LedgerTypeOK'
      BY <1>0, <1>3, <3>1, RecordPaymentKeeps
    <3> QED BY <1>0, <1>3, <1>8, <3>1, <3>2, RecordPaymentReceipts DEF ReceiptsKept, Recorded
  <2> QED BY <2>1, <2>2
<1>10. DepositInv' /\ Kept
  BY <1>0, <1>1 DEF depositVars, DepositInv, DepositTypeOK,
                    ClosedHoldsNothing, Awaited, PaidAsPosted, Posted, Kept
<1>11. Knows(row)'
  BY <1>0, <1>1, <1>3, <1>7, <1>9 DEF Knows, Posted, depositVars
<1>12. stage' \in Stage /\ excess' \in [Excesses -> ExcessRow]
  BY <1>0, <1>1 DEF ExitTypeOK
<1> QED BY <1>1, <1>7, <1>9, <1>10, <1>11, <1>12, CallStepKeeps

\* The application row and the status follow what the call knows.
LEMMA CommitApplicationKeeps ==
    ASSUME ExitInv, NEW c \in Calls, CommitApplication(c)
    PROVE  ExitInv'
<1>0. /\ LedgerTypeOK /\ DepositInv /\ ExitTypeOK
      /\ call[c] \in CallRow /\ Knows(call[c])
  BY DEF ExitInv, ExitTypeOK, CallsKnow
<1>1. /\ call[c].at = "apply-allocating" /\ Ends(c)
      /\ UNCHANGED <<ledgerVars, depositVars, payback, excess>>
  BY DEF CommitApplication
<1>2. PICK d \in call[c].of :
         IF application[d] # 0
         THEN UNCHANGED <<stage, application>>
         ELSE /\ application' = [application EXCEPT ![d] = call[c].amount]
              /\ stage' = StageOfSums
  BY DEF CommitApplication
<1>3. /\ d \in Deposits /\ call[c].amount \in Nat
      /\ Recorded(SettlementKey(d)) /\ receipt[SettlementKey(d)].amount = call[c].amount
  BY <1>0, <1>1, <1>2 DEF CallRow, Knows
<1>4. StageOfSums \in Stage
  BY DEF StageOfSums, Stage, Approved
<1>5. /\ stage' \in Stage /\ application' \in [Deposits -> Nat]
      /\ \A e \in Deposits : e = d \/ application'[e] = application[e]
      /\ application'[d] = application[d] \/ application'[d] = call[c].amount
  BY <1>0, <1>2, <1>3, <1>4 DEF ExitTypeOK
<1>6. call' \in [Calls -> CallRow] /\ \A b \in Calls : call'[b] = call[b] \/ call'[b] = NoCall
  BY <1>0, <1>1, NoCallKnows DEF Ends, ExitTypeOK
<1>7. ExitTypeOK'
  BY <1>0, <1>1, <1>5, <1>6 DEF ExitTypeOK
<1>8. \A b \in Calls : call'[b] = call[b] \/ Knows(call[b])'
  BY <1>6 DEF Knows, NoCall
<1>9. Justified
  BY <1>1, <1>3, <1>5 DEF Justified
<1>10. /\ LedgerTypeOK' /\ ReceiptsKept
       /\ DepositInv' /\ Kept
  BY <1>0, <1>1 DEF ledgerVars, LedgerTypeOK, ReceiptsKept, Recorded, depositVars,
     DepositInv, DepositTypeOK, ClosedHoldsNothing, Awaited, PaidAsPosted, Posted, Kept
<1> QED BY <1>7, <1>8, <1>9, <1>10, StepKeeps

\* The deposit's side of a refund.
LEMMA RequestPaybackKeeps ==
    ASSUME ExitInv, NEW c \in Calls, RequestPayback(c)
    PROVE  ExitInv'
<1>0. /\ LedgerTypeOK /\ DepositInv /\ ExitTypeOK
      /\ call[c] \in CallRow /\ Knows(call[c])
  BY DEF ExitInv, ExitTypeOK, CallsKnow
<1>1. /\ call[c].at = "payback-checked" /\ Goes(c, "payback-requested")
      /\ UNCHANGED <<ledgerVars, stage, application, payback, excess>>
  BY DEF RequestPayback
<1>2. PICK q \in call[c].for, d \in call[c].of :
         IF request[q] # NoRequest
         THEN /\ request[q].of = {d} /\ request[q].amount = call[c].amount
              /\ UNCHANGED depositVars
         ELSE RequestRefund(q, d, call[c].amount)
  BY DEF RequestPayback
<1>3. q \in Requests /\ d \in Deposits /\ call[c].amount \in Nat \ {0}
  BY <1>0, <1>1, <1>2 DEF CallRow, Knows
<1>4. DepositInv' /\ Kept
  <2>1. CASE request[q] # NoRequest
    BY <1>0, <1>2, <2>1 DEF depositVars, DepositInv, DepositTypeOK,
       ClosedHoldsNothing, Awaited, PaidAsPosted, Posted, Kept
  <2>2. CASE request[q] = NoRequest
    BY <1>0, <1>2, <1>3, <2>2, RequestRefundKeeps
  <2> QED BY <2>1, <2>2
<1>5. PICK row \in CallRow :
         /\ call' = [call EXCEPT ![c] = row]
         /\ row.at = "payback-requested" /\ row.of = call[c].of
         /\ row.for = call[c].for /\ row.amount = call[c].amount
  BY <1>0, <1>1, GoesRow DEF CallStep
<1>6. Knows(row)'
  BY <1>0, <1>5 DEF Knows
<1>7. LedgerTypeOK' /\ ReceiptsKept
  BY <1>0, <1>1 DEF ledgerVars, LedgerTypeOK, ReceiptsKept, Recorded
<1>8. stage' \in Stage /\ excess' \in [Excesses -> ExcessRow]
  BY <1>0, <1>1 DEF ExitTypeOK
<1> QED BY <1>1, <1>4, <1>5, <1>6, <1>7, <1>8, CallStepKeeps

LEMMA PayBackKeeps ==
    ASSUME ExitInv, NEW c \in Calls, PayBack(c)
    PROVE  ExitInv'
<1>0. /\ LedgerTypeOK /\ DepositInv /\ ExitTypeOK
      /\ call[c] \in CallRow /\ Knows(call[c])
  BY DEF ExitInv, ExitTypeOK, CallsKnow
<1>1. /\ Goes(c, "complete-paid")
      /\ UNCHANGED <<ledgerVars, stage, application, payback, excess>>
  BY DEF PayBack
<1>2. PICK q \in call[c].for :
         IF request[q].status = "COMPLETED"
         THEN UNCHANGED depositVars
         ELSE CompleteRefund(q)
  BY DEF PayBack
<1>3. q \in Requests /\ \A r \in call[c].for : r = q
  BY <1>0, <1>2 DEF CallRow, Knows
<1>4. DepositInv' /\ Kept /\ request'[q].status = "COMPLETED"
  <2>1. CASE request[q].status = "COMPLETED"
    BY <1>0, <1>2, <2>1 DEF depositVars, DepositInv, DepositTypeOK,
       ClosedHoldsNothing, Awaited, PaidAsPosted, Posted, Kept
  <2>2. CASE request[q].status # "COMPLETED"
    BY <1>0, <1>2, <1>3, <2>2, CompleteRefundKeeps
  <2> QED BY <2>1, <2>2
<1>5. PICK row \in CallRow :
         /\ call' = [call EXCEPT ![c] = row]
         /\ row.at = "complete-paid" /\ row.of = call[c].of
         /\ row.for = call[c].for /\ row.amount = call[c].amount
  BY <1>0, <1>1, GoesRow DEF CallStep
<1>6. Knows(row)'
  BY <1>0, <1>3, <1>4, <1>5 DEF Knows
<1>7. LedgerTypeOK' /\ ReceiptsKept
  BY <1>0, <1>1 DEF ledgerVars, LedgerTypeOK, ReceiptsKept, Recorded
<1>8. stage' \in Stage /\ excess' \in [Excesses -> ExcessRow]
  BY <1>0, <1>1 DEF ExitTypeOK
<1> QED BY <1>1, <1>4, <1>5, <1>6, <1>7, <1>8, CallStepKeeps

\* The settlement's own row of a refund; it says completed only for a call that
\* knows that the deposit paid.
LEMMA PaybackRowsKeep ==
    ASSUME ExitInv, NEW c \in Calls, CommitPayback(c) \/ CommitComplete(c)
    PROVE  ExitInv'
<1>0. /\ LedgerTypeOK /\ DepositInv /\ ExitTypeOK
      /\ call[c] \in CallRow /\ Knows(call[c])
  BY DEF ExitInv, ExitTypeOK, CallsKnow
<1>1. /\ Ends(c) /\ UNCHANGED <<ledgerVars, depositVars, application, excess>>
      /\ stage' \in Stage
  BY <1>0 DEF CommitPayback, CommitComplete, ExitTypeOK, Stage, Approved
<1>2. PICK q \in call[c].for :
         \/ payback' = payback
         \/ payback' = [payback EXCEPT ![q] = "REQUESTED"]
         \/ /\ call[c].at = "complete-paid"
            /\ payback' = [payback EXCEPT ![q] = "COMPLETED"]
  BY DEF CommitPayback, CommitComplete
<1>3. q \in Requests /\ (call[c].at = "complete-paid" => request[q].status = "COMPLETED")
  BY <1>0, <1>2 DEF CallRow, Knows
<1>4. payback' \in [Requests -> {"NONE", "REQUESTED", "COMPLETED", "FAILED"}]
  BY <1>0, <1>2, <1>3 DEF ExitTypeOK
<1>5. call' \in [Calls -> CallRow] /\ \A b \in Calls : call'[b] = call[b] \/ call'[b] = NoCall
  BY <1>0, <1>1, NoCallKnows DEF Ends, ExitTypeOK
<1>6. ExitTypeOK'
  BY <1>0, <1>1, <1>4, <1>5 DEF ExitTypeOK
<1>7. \A b \in Calls : call'[b] = call[b] \/ Knows(call[b])'
  BY <1>5 DEF Knows, NoCall
<1>8. Justified
  BY <1>0, <1>1, <1>2, <1>3 DEF Justified, ExitTypeOK
<1>9. /\ LedgerTypeOK' /\ ReceiptsKept
      /\ DepositInv' /\ Kept
  BY <1>0, <1>1 DEF ledgerVars, LedgerTypeOK, ReceiptsKept, Recorded, depositVars,
     DepositInv, DepositTypeOK, ClosedHoldsNothing, Awaited, PaidAsPosted, Posted, Kept
<1> QED BY <1>6, <1>7, <1>8, <1>9, StepKeeps

\* Failing a refund changes no request that is completed.
LEMMA FailPaybackKeeps ==
    ASSUME ExitInv, NEW q \in Requests, FailPayback(q)
    PROVE  ExitInv'
<1>0. LedgerTypeOK /\ DepositInv /\ ExitTypeOK
  BY DEF ExitInv
<1>1. /\ payback' = [payback EXCEPT ![q] = "FAILED"]
      /\ request' = [request EXCEPT ![q].status = IF @ = "REQUESTED" THEN "FAILED" ELSE @]
      /\ UNCHANGED <<ledgerVars, deposit, movement, hold, stage, application, excess, call>>
  BY DEF FailPayback
<1>2. /\ request' \in [Requests -> RequestRow \cup {NoRequest}]
      /\ \A r \in Requests : /\ request'[r].of = request[r].of
                             /\ \/ request'[r].status = request[r].status
                                \/ /\ request[r].status = "REQUESTED"
                                   /\ request'[r].status = "FAILED"
  <2>1. request \in [Requests -> RequestRow \cup {NoRequest}]
    BY <1>0 DEF DepositInv, DepositTypeOK
  <2>2. CASE request[q].status = "REQUESTED"
    <3>1. request[q] \in RequestRow
      BY <2>1, <2>2 DEF NoRequest
    <3>2. [request[q] EXCEPT !.status = "FAILED"] \in RequestRow
      BY <3>1 DEF RequestRow
    <3>3. request' = [request EXCEPT ![q] = [request[q] EXCEPT !.status = "FAILED"]]
      BY <1>1, <2>1, <2>2
    <3>4. /\ request'[q] = [request[q] EXCEPT !.status = "FAILED"]
          /\ \A r \in Requests : r # q => request'[r] = request[r]
      BY <2>1, <3>3
    <3>5. request'[q].of = request[q].of /\ request'[q].status = "FAILED"
      BY <3>1, <3>4 DEF RequestRow
    <3> QED BY <2>1, <2>2, <3>2, <3>3, <3>4, <3>5
  <2>3. CASE request[q].status # "REQUESTED"
    <3>1. [request[q] EXCEPT !.status = request[q].status] = request[q]
      BY <2>1 DEF RequestRow, NoRequest
    <3>2. request' = [request EXCEPT ![q] = request[q]]
      BY <1>1, <2>1, <2>3, <3>1
    <3> QED BY <2>1, <3>2
  <2> QED BY <2>2, <2>3
<1>3. DepositInv'
  <2>1. DepositTypeOK'
    BY <1>0, <1>1, <1>2 DEF DepositInv, DepositTypeOK
  <2>2. ClosedHoldsNothing' /\ PaidAsPosted'
    BY <1>0, <1>1, <1>2 DEF DepositInv, ClosedHoldsNothing, Awaited, PaidAsPosted, Posted
  <2> QED BY <2>1, <2>2 DEF DepositInv
<1>4. Kept
  BY <1>1, <1>2 DEF Kept
<1>5. LedgerTypeOK' /\ ReceiptsKept /\ ExitTypeOK'
  BY <1>0, <1>1 DEF ledgerVars, LedgerTypeOK, ReceiptsKept, Recorded, ExitTypeOK
<1>6. Justified
  BY <1>0, <1>1 DEF Justified, ExitTypeOK
<1> QED BY <1>1, <1>3, <1>4, <1>5, <1>6, StepKeeps

-----------------------------------------------------------------------------
(* Theorems *)

LEMMA ExitInitially ==
    ASSUME ExitInit
    PROVE  ExitInv
<1>1. LedgerTypeOK
  BY LedgerInitially DEF ExitInit
<1>2. DepositInv
  <2>1. \A d \in Deposits : Collected(d) \in MovementRow
    BY DepositAssumption DEF Collected, MovementRow, MovementType, MoveType
  <2>2. movement \in [MovementIds -> MovementRow \cup {NoMovement}]
    <3>1. \A k \in {"deployment"} \X Deployed : Collected(k[2]) \in MovementRow
      BY <2>1, DepositAssumption
    <3> QED BY <3>1 DEF ExitInit, DepositInit
  <2>3. DepositTypeOK
    BY <2>2, DepositAssumption DEF ExitInit, DepositInit, DepositTypeOK, DepositRow
  <2>4. \A q \in Requests : ~Posted(RefundKey(q))
    BY KeysDiffer DEF ExitInit, DepositInit, Posted, RefundKey
  <2> QED BY <2>3, <2>4 DEF ExitInit, DepositInit, DepositInv, ClosedHoldsNothing,
          PaidAsPosted, NoRequest
<1>3. ExitTypeOK
  BY NoCallKnows DEF ExitInit, ExitTypeOK, Stage, NoExcess, ExcessRow
<1>4. \A d \in Deposits : ~Posted(SettlementKey(d))
  BY KeysDiffer DEF ExitInit, DepositInit, Posted, SettlementKey
<1>5. \A s \in Sources : ~Recorded(s)
  BY DEF ExitInit, LedgerInit, NoReceipt, Recorded
<1>6. AppliedAsDeducted
  BY <1>5, SettlementAssumption DEF AppliedAsDeducted, ExitInit, SettlementSources
<1>7. CompletedWasPaid
  BY <1>2 DEF CompletedWasPaid, ExitInit, DepositInv, PaidAsPosted, RefundKey
<1>8. CallsKnow
  BY NoCallKnows DEF ExitInit, CallsKnow
<1> QED BY <1>1, <1>2, <1>3, <1>4, <1>6, <1>7, <1>8 DEF ExitInv, SettlementRow

LEMMA ExitNextKeeps ==
    ASSUME ExitInv, [ExitNext]_exitAllVars
    PROVE  ExitInv'
<1>1. CASE UNCHANGED exitAllVars
  BY <1>1 DEF exitAllVars, exitVars, ledgerVars, depositVars, ExitInv, LedgerTypeOK,
     DepositInv, DepositTypeOK, ClosedHoldsNothing, Awaited, PaidAsPosted, Posted,
     ExitTypeOK, SettlementRow, AppliedAsDeducted, CompletedWasPaid, Recorded,
     CallsKnow, Knows
<1>2. CASE ExitNext
  BY <1>2, OutsideKeeps, HoldsKeep, FailPaybackKeeps, BeginningsKeep, GoingOnKeeps,
     EndingsKeep, AllocatingKeeps, DeductKeeps, RecordDeductionKeeps,
     CommitApplicationKeeps, RequestPaybackKeeps, PayBackKeeps, PaybackRowsKeep
     DEF ExitNext
<1> QED BY <1>1, <1>2

\* Everything that is proved here, in one invariant.
THEOREM ExitInvariant == ExitSpec => []ExitInv
<1>1. ExitInit => ExitInv
  BY ExitInitially
<1>2. ExitInv /\ [ExitNext]_exitAllVars => ExitInv'
  BY ExitNextKeeps
<1> QED BY <1>1, <1>2, PTL DEF ExitSpec

\* No balance of a deposit, receipt or invoice becomes negative, and every row of
\* the settlement is one its tables allow, whatever calls overlap.
THEOREM ExitTypes == ExitSpec => [](LedgerTypeOK /\ DepositTypeOK /\ ExitTypeOK)
<1>1. ExitInv => LedgerTypeOK /\ DepositTypeOK /\ ExitTypeOK
  BY DEF ExitInv, DepositInv
<1> QED BY <1>1, ExitInvariant, PTL

\* A closed deposit holds no money and nobody waits for any of it, although
\* reversals and requests do not look whether it is closed
\* (deposit.service.ts lines 664-716, 1066-1098).
THEOREM ClosedStaysEmpty == ExitSpec => []ClosedHoldsNothing
<1>1. ExitInv => ClosedHoldsNothing
  BY DEF ExitInv, DepositInv
<1> QED BY <1>1, ExitInvariant, PTL

\* A deposit pays once, and its deduction, receipt and application are of one
\* amount, however many calls of applyDeposit overlap, stop and are repeated
\* (final-settlement.service.ts lines 837-966).
THEOREM DepositsPayOnce == ExitSpec => []AppliedAsDeducted
<1>1. ExitInv => AppliedAsDeducted
  BY DEF ExitInv
<1> QED BY <1>1, ExitInvariant, PTL

\* A deposit refund that the settlement calls completed was paid from its deposit
\* (final-settlement.service.ts lines 1159-1245).
THEOREM CompletedRefundsWerePaid == ExitSpec => []CompletedWasPaid
<1>1. ExitInv => CompletedWasPaid
  BY DEF ExitInv
<1> QED BY <1>1, ExitInvariant, PTL

-----------------------------------------------------------------------------
(* Deductions *)

\* A movement is about one deposit, a deduction takes from what is there alone,
\* and every other movement of its kind changes both amounts alike.
ShapeFits(row) ==
    /\ \E d \in Deposits : row.of = {d}
    /\ row.type = "DEDUCTION" => row.delta = -row.amount /\ row.funding = 0
    /\ row.type \in MoveType \ {"DEDUCTION"} => row.delta = row.funding

RowsFit == \A k \in MovementIds : Posted(k) => ShapeFits(movement[k])

\* Only what was posted is taken back, and a transfer has two sides or none.
UndoesPosted == \A k \in MovementIds : \A o \in movement[k].undoes : Posted(o)
PairsPosted == \A k \in DepositKeys : Posted(<<"in", k>>) => Posted(<<"out", k>>)

Gap(d) == deposit[d].funded - deposit[d].available

\* The inductive invariant of GapIsDeducted.
MovementsFit == RowsFit /\ UndoesPosted /\ PairsPosted /\ GapIsDeducted

LEMMA MovementIdsFinite == IsFiniteSet(MovementIds)
<1>1. /\ IsFiniteSet({"in", "out"}) /\ IsFiniteSet({"deployment", "settlement"})
      /\ IsFiniteSet({"refund"})
  <2>1. ASSUME NEW a, NEW b PROVE IsFiniteSet({a, b})
    <3>1. IsFiniteSet({a}) /\ {a, b} = {a} \cup {b}
      BY FS_Singleton
    <3>2. IsFiniteSet({a} \cup {b})
      BY <3>1, FS_AddElement
    <3> QED BY <3>1, <3>2
  <2> QED BY <2>1, FS_Singleton
<1> QED BY <1>1, DepositAssumption, FS_Product, FS_Union DEF MovementIds, DerivedKeys

\* What becomes of the deductions of a deposit when a row is posted.
LEMMA DeductionsPosted ==
    ASSUME DepositTypeOK, UndoesPosted, NEW k \in MovementIds, ~Posted(k),
           \A l \in MovementIds : l # k => movement'[l] = movement[l],
           \A o \in movement'[k].undoes : Posted(o),
           NEW e \in Deposits
    PROVE  LiveDeductions(e)' =
             (LiveDeductions(e) \ movement'[k].undoes)
               \cup (IF movement'[k].type = "DEDUCTION" /\ e \in movement'[k].of
                     THEN {k} ELSE {})
<1>1. movement[k] = NoMovement /\ movement[k].undoes = {} /\ movement[k].of = {}
  BY DEF Posted, NoMovement
<1>2. \A l \in MovementIds : Undone(l)' <=> Undone(l) \/ l \in movement'[k].undoes
  BY <1>1 DEF Undone
<1>3. ~Undone(k)'
  BY <1>1, <1>2 DEF Undone, UndoesPosted
<1>4. ASSUME NEW l \in MovementIds
      PROVE  l \in LiveDeductions(e)' <=>
               \/ l \in LiveDeductions(e) /\ l \notin movement'[k].undoes
               \/ l = k /\ movement'[k].type = "DEDUCTION" /\ e \in movement'[k].of
  BY <1>1, <1>2, <1>3 DEF LiveDeductions
<1> QED BY <1>4 DEF LiveDeductions

\* The sum of the deductions when one is added, taken back, or neither.
LEMMA DeductedNext ==
    ASSUME DepositTypeOK, DepositTypeOK', NEW d \in Deposits,
           \A k \in LiveDeductions(d) : movement'[k].amount = movement[k].amount,
           \/ /\ LiveDeductions(d)' = LiveDeductions(d)
              /\ Gap(d)' = Gap(d)
           \/ \E k \in MovementIds \ LiveDeductions(d) :
                 /\ LiveDeductions(d)' = LiveDeductions(d) \cup {k}
                 /\ Gap(d)' = Gap(d) + movement'[k].amount
           \/ \E k \in LiveDeductions(d) :
                 /\ LiveDeductions(d)' = LiveDeductions(d) \ {k}
                 /\ Gap(d)' = Gap(d) - movement[k].amount,
           Gap(d) = SumFunctionOnSet([k \in MovementIds |-> movement[k].amount],
                                     LiveDeductions(d))
    PROVE  Gap(d)' = SumFunctionOnSet([k \in MovementIds |-> movement'[k].amount],
                                      LiveDeductions(d)')
<1> DEFINE f == [k \in MovementIds |-> movement[k].amount]
           g == [k \in MovementIds |-> movement'[k].amount]
           live == LiveDeductions(d)
<1>1. live \in SUBSET MovementIds /\ IsFiniteSet(live)
  BY MovementIdsFinite, FS_Subset DEF LiveDeductions
<1>2. \A k \in MovementIds : f[k] \in Int /\ g[k] \in Int /\ f[k] = movement[k].amount
                             /\ g[k] = movement'[k].amount
  BY DEF DepositTypeOK, MovementRow, NoMovement
<1>3. \A k \in live : f[k] = g[k]
  BY <1>1, <1>2
<1>4. Gap(d) = SumFunctionOnSet(f, live)
  OBVIOUS
<1>5. SUFFICES Gap(d)' = SumFunctionOnSet(g, LiveDeductions(d)')
  OBVIOUS
<1> HIDE DEF f, g, live
<1>6. SumFunctionOnSet(g, live) = SumFunctionOnSet(f, live)
  BY <1>1, <1>3, SumOfSame
<1>7. CASE LiveDeductions(d)' = LiveDeductions(d) /\ Gap(d)' = Gap(d)
  BY <1>4, <1>6, <1>7 DEF live
<1>8. ASSUME NEW k \in MovementIds \ LiveDeductions(d),
             LiveDeductions(d)' = LiveDeductions(d) \cup {k},
             Gap(d)' = Gap(d) + movement'[k].amount
      PROVE  Gap(d)' = SumFunctionOnSet(g, LiveDeductions(d)')
  <2>1. SumFunctionOnSet(g, live \cup {k}) = g[k] + SumFunctionOnSet(g, live)
    <3>1. k \notin live /\ \A x \in live \cup {k} : g[x] \in Int
      BY <1>1, <1>2, <1>8 DEF live
    <3> QED BY <1>1, <3>1, SumPutsIn
  <2>2. SumFunctionOnSet(g, live) \in Int /\ g[k] = movement'[k].amount /\ g[k] \in Int
    BY <1>1, <1>2, <1>8, SumIsInt
  <2> QED BY <1>4, <1>6, <1>8, <2>1, <2>2 DEF live
<1>9. ASSUME NEW k \in LiveDeductions(d),
             LiveDeductions(d)' = LiveDeductions(d) \ {k},
             Gap(d)' = Gap(d) - movement[k].amount
      PROVE  Gap(d)' = SumFunctionOnSet(g, LiveDeductions(d)')
  <2>1. SumFunctionOnSet(g, live) = g[k] + SumFunctionOnSet(g, live \ {k})
    <3>1. k \in live /\ \A x \in live : g[x] \in Int
      BY <1>1, <1>2, <1>9 DEF live
    <3> QED BY <1>1, <3>1, SumTakesOut
  <2>2. g[k] = movement[k].amount /\ g[k] \in Int
    BY <1>1, <1>2, <1>3, <1>9 DEF live
  <2>3. SumFunctionOnSet(g, live \ {k}) \in Int
    <3>1. IsFiniteSet(live \ {k}) /\ \A x \in live \ {k} : g[x] \in Int
      BY <1>1, <1>2, FS_RemoveElement
    <3> QED BY <3>1, SumIsInt
  <2> QED BY <1>4, <1>6, <1>9, <2>1, <2>2, <2>3 DEF live
<1> QED BY <1>7, <1>8, <1>9

LEMMA MovementTypes ==
    /\ MoveType \subseteq MovementType
    /\ \A t \in MoveType \ {"DEDUCTION"} : t # "DEDUCTION"
    /\ "REVERSAL" \notin MoveType /\ "REVERSAL" \in MovementType
    /\ "DEDUCTION" \in MoveType
BY DEF MoveType, MovementType

\* One new row leaves the others as they fit.
LEMMA RowAdded ==
    ASSUME DepositTypeOK, DepositTypeOK', MovementsFit, NEW k \in MovementIds,
           \A q \in DepositKeys : k # <<"in", q>>,
           \A l \in MovementIds : l # k => movement'[l] = movement[l],
           Posted(k)', ShapeFits(movement'[k]),
           \A o \in movement'[k].undoes : Posted(o)
    PROVE  RowsFit' /\ UndoesPosted' /\ PairsPosted'
<1>1. \A l \in MovementIds : Posted(l) => Posted(l)'
  BY DEF Posted
<1>2. ASSUME NEW l \in MovementIds, NEW o \in movement'[l].undoes
      PROVE  Posted(o)'
  <2>1. Posted(o)
    BY DEF MovementsFit, UndoesPosted
  <2>2. o \in MovementIds
    BY DEF DepositTypeOK, MovementRow, NoMovement
  <2> QED BY <2>1, <2>2, <1>1
<1>3. RowsFit'
  BY DEF MovementsFit, RowsFit, ShapeFits, Posted
<1>4. PairsPosted'
  BY <1>1, KeysDiffer DEF MovementsFit, PairsPosted, Posted
<1> QED BY <1>2, <1>3, <1>4 DEF UndoesPosted

\* A row of its own, which takes nothing back.
LEMMA PostFits ==
    ASSUME DepositTypeOK, DepositTypeOK', MovementsFit, NEW k \in MovementIds, NEW d \in Deposits,
           NEW type \in MoveType, NEW amount \in Nat \ {0}, NEW delta \in Int,
           NEW funding \in Int, ~Posted(k),
           \A q \in DepositKeys : k # <<"in", q>>,
           type = "DEDUCTION" => delta = -amount /\ funding = 0,
           type # "DEDUCTION" => delta = funding,
           Post(k, d, type, amount, delta, funding, {})
    PROVE  MovementsFit'
<1>0. type \in MovementType /\ {} \in SUBSET MovementIds
  BY MovementTypes
<1>1. /\ \A e \in Deposits : e # d => deposit'[e] = deposit[e]
      /\ movement'[k] = Row(d, type, amount, delta, funding, {})
      /\ \A l \in MovementIds : l # k => movement'[l] = movement[l]
      /\ Posted(k)'
  BY <1>0, PostEffect DEF Posted
<1>2. /\ movement'[k].of = {d} /\ movement'[k].type = type
      /\ movement'[k].amount = amount /\ movement'[k].delta = delta
      /\ movement'[k].funding = funding /\ movement'[k].undoes = {}
  BY <1>1 DEF Row
<1>3. Gap(d)' = Gap(d) + funding - delta
      /\ \A e \in Deposits : e # d => Gap(e)' = Gap(e)
  BY <1>1 DEF Post, DepositAfter, Gap, DepositTypeOK, DepositRow
<1>4. RowsFit' /\ UndoesPosted' /\ PairsPosted'
  BY <1>1, <1>2, RowAdded DEF ShapeFits
<1>5. ASSUME NEW e \in Deposits
      PROVE  Gap(e)' = SumFunctionOnSet([l \in MovementIds |-> movement'[l].amount],
                                        LiveDeductions(e)')
  <2>1. LiveDeductions(e)' = LiveDeductions(e)
            \cup (IF type = "DEDUCTION" /\ e = d THEN {k} ELSE {})
    <3>1. LiveDeductions(e)' =
             (LiveDeductions(e) \ movement'[k].undoes)
               \cup (IF movement'[k].type = "DEDUCTION" /\ e \in movement'[k].of
                     THEN {k} ELSE {})
      BY <1>1, <1>2, DeductionsPosted DEF MovementsFit
    <3> QED BY <1>2, <3>1
  <2>2. k \notin LiveDeductions(e)
    BY DEF LiveDeductions, Posted, NoMovement
  <2>3. \A l \in LiveDeductions(e) : movement'[l].amount = movement[l].amount
    BY <1>1, <2>2 DEF LiveDeductions
  <2>4. Gap(e) = SumFunctionOnSet([l \in MovementIds |-> movement[l].amount],
                                  LiveDeductions(e))
    BY DEF MovementsFit, GapIsDeducted, Gap
  <2>5. CASE type = "DEDUCTION" /\ e = d
    <3>1. Gap(e)' = Gap(e) + movement'[k].amount
      BY <1>2, <1>3, <2>5 DEF Gap, DepositTypeOK, DepositRow
    <3>2. \E l \in MovementIds \ LiveDeductions(e) :
             /\ LiveDeductions(e)' = LiveDeductions(e) \cup {l}
             /\ Gap(e)' = Gap(e) + movement'[l].amount
      BY <2>1, <2>2, <2>5, <3>1
    <3> QED BY <2>3, <2>4, <3>2, DeductedNext
  <2>6. CASE ~(type = "DEDUCTION" /\ e = d)
    <3>1. Gap(e)' = Gap(e)
      BY <1>3, <2>6 DEF Gap, DepositTypeOK, DepositRow
    <3>2. LiveDeductions(e)' = LiveDeductions(e)
      BY <2>1, <2>6
    <3> QED BY <2>3, <2>4, <3>1, <3>2, DeductedNext
  <2> QED BY <2>5, <2>6
<1> QED BY <1>4, <1>5 DEF MovementsFit, GapIsDeducted, Gap

\* The reversal of a row that stands.
LEMMA ReverseFits ==
    ASSUME DepositTypeOK, DepositTypeOK', MovementsFit, NEW k \in DepositKeys,
           NEW o \in MovementIds, ReverseMovement(k, o)
    PROVE  MovementsFit'
<1>1. PICK d \in movement[o].of :
         Post(k, d, "REVERSAL", movement[o].amount,
              -movement[o].delta, -movement[o].funding, {o})
  BY DEF ReverseMovement
<1>2. /\ ~Posted(k) /\ Posted(o) /\ ~Undone(o) /\ movement[o].type \in MoveType
      /\ k \in MovementIds /\ o # k
      /\ \A q \in DepositKeys : k # <<"in", q>>
  BY DepositAssumption DEF ReverseMovement, MovementIds, DerivedKeys
<1>3. movement[o] \in MovementRow
  BY <1>2 DEF Posted, DepositTypeOK
<1>4. /\ d \in Deposits /\ movement[o].amount \in Nat \ {0}
      /\ movement[o].delta \in Int /\ movement[o].funding \in Int
      /\ -movement[o].delta \in Int /\ -movement[o].funding \in Int
      /\ "REVERSAL" \in MovementType /\ {o} \in SUBSET MovementIds
  BY <1>1, <1>3, MovementTypes DEF MovementRow
<1>5. /\ movement[o].of = {d}
      /\ movement[o].type = "DEDUCTION" =>
            movement[o].delta = -movement[o].amount /\ movement[o].funding = 0
      /\ movement[o].type # "DEDUCTION" => movement[o].delta = movement[o].funding
  BY <1>1, <1>2 DEF MovementsFit, RowsFit, ShapeFits
<1>6. /\ \A e \in Deposits : e # d => deposit'[e] = deposit[e]
      /\ movement'[k] = Row(d, "REVERSAL", movement[o].amount,
                            -movement[o].delta, -movement[o].funding, {o})
      /\ \A l \in MovementIds : l # k => movement'[l] = movement[l]
      /\ Posted(k)'
  BY <1>1, <1>2, <1>4, PostEffect DEF Posted
<1>7. /\ movement'[k].of = {d} /\ movement'[k].type = "REVERSAL"
      /\ movement'[k].undoes = {o}
  BY <1>6 DEF Row
<1>8. Gap(d)' = Gap(d) - movement[o].funding + movement[o].delta
      /\ \A e \in Deposits : e # d => Gap(e)' = Gap(e)
  <2>1. deposit'[d] = DepositAfter(d, -movement[o].delta, -movement[o].funding)
    BY <1>1, <1>4 DEF Post, DepositTypeOK
  <2>2. /\ deposit[d].available \in Int /\ deposit[d].funded \in Int
        /\ deposit'[d].available = deposit[d].available - movement[o].delta
        /\ deposit'[d].funded = deposit[d].funded - movement[o].funding
    BY <1>4, <2>1 DEF DepositAfter, DepositTypeOK, DepositRow
  <2> QED BY <1>4, <1>6, <2>2 DEF Gap
<1>9. RowsFit' /\ UndoesPosted' /\ PairsPosted'
  BY <1>2, <1>4, <1>6, <1>7, RowAdded, MovementTypes DEF ShapeFits
<1>10. ASSUME NEW e \in Deposits
      PROVE  Gap(e)' = SumFunctionOnSet([l \in MovementIds |-> movement'[l].amount],
                                        LiveDeductions(e)')
  <2>1. LiveDeductions(e)' = LiveDeductions(e) \ {o}
    <3>1. LiveDeductions(e)' =
             (LiveDeductions(e) \ movement'[k].undoes)
               \cup (IF movement'[k].type = "DEDUCTION" /\ e \in movement'[k].of
                     THEN {k} ELSE {})
      BY <1>2, <1>6, <1>7, DeductionsPosted DEF MovementsFit
    <3> QED BY <1>7, <3>1
  <2>2. k \notin LiveDeductions(e)
    BY <1>2 DEF LiveDeductions, Posted, NoMovement
  <2>3. \A l \in LiveDeductions(e) : movement'[l].amount = movement[l].amount
    BY <1>6, <2>2 DEF LiveDeductions
  <2>4. Gap(e) = SumFunctionOnSet([l \in MovementIds |-> movement[l].amount],
                                  LiveDeductions(e))
    BY DEF MovementsFit, GapIsDeducted, Gap
  <2>5. CASE movement[o].type = "DEDUCTION" /\ e = d
    <3>1. Gap(e)' = Gap(e) - movement[o].amount
      BY <1>4, <1>5, <1>8, <2>5 DEF Gap, DepositTypeOK, DepositRow
    <3>2. o \in LiveDeductions(e)
      BY <1>2, <1>5, <2>5 DEF LiveDeductions
    <3>3. \E l \in LiveDeductions(e) :
             /\ LiveDeductions(e)' = LiveDeductions(e) \ {l}
             /\ Gap(e)' = Gap(e) - movement[l].amount
      BY <2>1, <3>1, <3>2
    <3> QED BY <2>3, <2>4, <3>3, DeductedNext
  <2>6. CASE ~(movement[o].type = "DEDUCTION" /\ e = d)
    <3>1. Gap(e)' = Gap(e)
      BY <1>4, <1>5, <1>8, <2>6 DEF Gap, DepositTypeOK, DepositRow
    <3>2. LiveDeductions(e)' = LiveDeductions(e)
      BY <1>5, <2>1, <2>6 DEF LiveDeductions
    <3> QED BY <2>3, <2>4, <3>1, <3>2, DeductedNext
  <2> QED BY <2>5, <2>6
<1> QED BY <1>9, <1>10 DEF MovementsFit, GapIsDeducted, Gap

LEMMA MoveFits ==
    ASSUME DepositTypeOK, DepositTypeOK', MovementsFit, NEW k \in MovementIds,
           NEW d \in Deposits, NEW type \in MoveType, NEW amount \in Nat \ {0},
           \A q \in DepositKeys : k # <<"in", q>>,
           Move(k, d, type, amount)
    PROVE  MovementsFit'
<1> DEFINE delta == IF type \in Inflow THEN amount ELSE -amount
           funding == IF type = "DEDUCTION" THEN 0 ELSE delta
<1>1. /\ delta \in Int /\ funding \in Int
      /\ type = "DEDUCTION" => delta = -amount /\ funding = 0
      /\ type # "DEDUCTION" => delta = funding
  BY DEF Inflow
<1>2. ~Posted(k) /\ Post(k, d, type, amount, delta, funding, {})
  BY DEF Move
<1> HIDE DEF delta, funding
<1> QED BY <1>1, <1>2, PostFits

\* The two rows of a transfer deduct nothing.
LEMMA TransferFits ==
    ASSUME DepositTypeOK, DepositTypeOK', MovementsFit, NEW k \in DepositKeys,
           NEW from \in Deposits, NEW to \in Deposits,
           NEW amount \in Nat \ {0}, Transfer(k, from, to, amount)
    PROVE  MovementsFit'
<1> DEFINE in == <<"in", k>>
           out == <<"out", k>>
<1>1. /\ in \in MovementIds /\ out \in MovementIds /\ in # out
      /\ ~Posted(out) /\ ~Posted(in)
  BY KeysDiffer DEF Transfer, MovementsFit, PairsPosted
<1>2. /\ movement'[out] = Row(from, "TRANSFER_OUT", amount, -amount, -amount, {})
      /\ movement'[in] = Row(to, "TRANSFER_IN", amount, amount, amount, {})
      /\ \A l \in MovementIds : l # in /\ l # out => movement'[l] = movement[l]
  BY <1>1 DEF Transfer, DepositTypeOK
<1>3. /\ from # to
      /\ deposit'[from] = DepositAfter(from, -amount, -amount)
      /\ deposit'[to] = DepositAfter(to, amount, amount)
      /\ \A e \in Deposits : e # from /\ e # to => deposit'[e] = deposit[e]
  BY DEF Transfer, DepositTypeOK
<1>4. \A e \in Deposits : Gap(e)' = Gap(e)
  <2>1. TAKE e \in Deposits
  <2>2. /\ deposit[e].available \in Int /\ deposit[e].funded \in Int
        /\ e = from => /\ deposit'[e].available = deposit[e].available + (-amount)
                       /\ deposit'[e].funded = deposit[e].funded + (-amount)
        /\ e = to => /\ deposit'[e].available = deposit[e].available + amount
                     /\ deposit'[e].funded = deposit[e].funded + amount
    BY <1>3 DEF DepositAfter, DepositTypeOK, DepositRow
  <2> QED BY <1>3, <2>2 DEF Gap
<1>5. /\ movement[in] = NoMovement /\ movement[out] = NoMovement
      /\ movement'[in].undoes = {} /\ movement'[out].undoes = {}
      /\ movement[in].undoes = {} /\ movement[out].undoes = {}
      /\ movement[in].type = "NONE" /\ movement[out].type = "NONE"
      /\ movement'[out].type = "TRANSFER_OUT" /\ movement'[in].type = "TRANSFER_IN"
      /\ movement'[out].of = {from} /\ movement'[in].of = {to}
  BY <1>1, <1>2 DEF Posted, NoMovement, Row
<1> HIDE DEF in, out
<1>6. \A l \in MovementIds : Posted(l) => Posted(l)' /\ movement'[l] = movement[l]
  BY <1>1, <1>2 DEF Posted
<1>7. \A l \in MovementIds : movement'[l].undoes = movement[l].undoes
  BY <1>2, <1>5
<1>8. RowsFit'
  BY <1>2, <1>5 DEF MovementsFit, RowsFit, ShapeFits, Posted, MoveType
<1>9. UndoesPosted'
  <2>1. ASSUME NEW l \in MovementIds, NEW o \in movement'[l].undoes PROVE Posted(o)'
    <3>1. o \in MovementIds /\ Posted(o)
      BY <1>7, <2>1 DEF DepositTypeOK, MovementRow, NoMovement, MovementsFit, UndoesPosted
    <3> QED BY <3>1, <1>6
  <2> QED BY <2>1 DEF UndoesPosted
<1>10. PairsPosted'
  <2>1. Posted(out)'
    BY <1>5 DEF Posted, NoMovement
  <2>2. ASSUME NEW q \in DepositKeys, Posted(<<"in", q>>)' PROVE Posted(<<"out", q>>)'
    <3>1. CASE q = k
      BY <2>1, <3>1 DEF out
    <3>2. CASE q # k
      <4>1. /\ <<"in", q>> \in MovementIds /\ <<"out", q>> \in MovementIds
            /\ <<"in", q>> # in /\ <<"in", q>> # out
        BY <3>2, KeysDiffer DEF in, out
      <4>2. Posted(<<"in", q>>)
        BY <1>2, <2>2, <4>1 DEF Posted
      <4> QED BY <1>6, <4>1, <4>2 DEF MovementsFit, PairsPosted
    <3> QED BY <3>1, <3>2
  <2> QED BY <2>2 DEF PairsPosted
<1>11. ASSUME NEW e \in Deposits
       PROVE  Gap(e)' = SumFunctionOnSet([l \in MovementIds |-> movement'[l].amount],
                                         LiveDeductions(e)')
  <2>1. LiveDeductions(e)' = LiveDeductions(e)
    <3>1. \A l \in MovementIds : Undone(l)' <=> Undone(l)
      BY <1>7 DEF Undone
    <3>2. \A l \in MovementIds :
             l \in LiveDeductions(e)' <=> l \in LiveDeductions(e)
      BY <1>2, <1>5, <3>1 DEF LiveDeductions
    <3> QED BY <3>2 DEF LiveDeductions
  <2>2. \A l \in LiveDeductions(e) : movement'[l].amount = movement[l].amount
    BY <1>2, <1>5 DEF LiveDeductions
  <2>3. Gap(e) = SumFunctionOnSet([l \in MovementIds |-> movement[l].amount],
                                  LiveDeductions(e))
    BY DEF MovementsFit, GapIsDeducted, Gap
  <2> QED BY <1>4, <2>1, <2>2, <2>3, DeductedNext
<1> QED BY <1>8, <1>9, <1>10, <1>11 DEF MovementsFit, GapIsDeducted, Gap

\* The amounts and the movements stay as they are.
LEMMA AmountsFit ==
    ASSUME DepositTypeOK, DepositTypeOK', MovementsFit, movement' = movement,
           \A d \in Deposits : /\ deposit'[d].available = deposit[d].available
                               /\ deposit'[d].funded = deposit[d].funded
    PROVE  MovementsFit'
  BY DEF MovementsFit, RowsFit, ShapeFits, UndoesPosted, PairsPosted, GapIsDeducted,
         LiveDeductions, Undone, Posted

\* A payout is posted under a key that only it uses.
LEMMA CompleteRefundFits ==
    ASSUME DepositInv, DepositTypeOK', MovementsFit, NEW q \in Requests, CompleteRefund(q)
    PROVE  MovementsFit'
<1>1. PICK d \in request[q].of :
         Post(RefundKey(q), d, "REFUND", request[q].amount,
              -request[q].amount, -request[q].amount, {})
  BY DEF CompleteRefund, RefundKey
<1>2. request[q] \in RequestRow /\ request[q].status = "REQUESTED"
  BY DEF CompleteRefund, DepositInv, DepositTypeOK, NoRequest
<1>3. /\ d \in Deposits /\ request[q].amount \in Nat \ {0} /\ -request[q].amount \in Int
      /\ "REFUND" \in MoveType /\ "REFUND" # "DEDUCTION"
      /\ RefundKey(q) \in MovementIds /\ \A k \in DepositKeys : RefundKey(q) # <<"in", k>>
  BY <1>1, <1>2, KeysDiffer DEF RequestRow, MoveType
<1>4. ~Posted(RefundKey(q)) /\ DepositTypeOK
  BY <1>2 DEF DepositInv, PaidAsPosted
<1> QED BY <1>1, <1>3, <1>4, PostFits

LEMMA OfficeFits ==
    ASSUME DepositInv, DepositTypeOK', MovementsFit, DepositOffice
    PROVE  MovementsFit'
<1>1. MaxMove \in Nat /\ DepositTypeOK
  BY DepositAssumption DEF DepositInv
<1>2. CASE \E k \in DepositKeys, d \in Deposits, amount \in 1..MaxMove :
             \/ \E type \in MoveType : Move(k, d, type, amount)
             \/ \E to \in Deposits : Transfer(k, d, to, amount)
  <2>1. PICK k \in DepositKeys, d \in Deposits, amount \in 1..MaxMove :
             \/ \E type \in MoveType : Move(k, d, type, amount)
             \/ \E to \in Deposits : Transfer(k, d, to, amount)
    BY <1>2
  <2>2. amount \in Nat \ {0}
    BY <1>1
  <2>3. k \in MovementIds /\ \A q \in DepositKeys : k # <<"in", q>>
    BY DepositAssumption DEF MovementIds, DerivedKeys
  <2> QED BY <1>1, <2>1, <2>2, <2>3, MoveFits, TransferFits
<1>3. CASE \E k \in DepositKeys, o \in MovementIds : ReverseMovement(k, o)
  BY <1>1, <1>3, ReverseFits
<1>4. CASE \E q \in Requests, d \in Deposits, amount \in 1..MaxMove :
             RequestRefund(q, d, amount)
  BY <1>1, <1>4, AmountsFit DEF RequestRefund, DepositTypeOK, DepositRow
<1>5. CASE \E q \in Requests : CompleteRefund(q)
  BY <1>5, CompleteRefundFits
<1>6. CASE \E d \in Deposits : CloseDeposit(d)
  BY <1>1, <1>6, AmountsFit DEF CloseDeposit, DepositTypeOK, DepositRow
<1> QED BY <1>2, <1>3, <1>4, <1>5, <1>6 DEF DepositOffice

-----------------------------------------------------------------------------
\* What a step of the whole system does to the deposits.
LEMMA DepositSteps ==
    ASSUME ExitInv, ExitNext
    PROVE  \/ UNCHANGED <<deposit, movement>>
           \/ DepositOffice
           \/ \E d \in Deposits, amount \in Nat \ {0} :
                 Move(SettlementKey(d), d, "DEDUCTION", amount)
           \/ \E q \in Requests : CompleteRefund(q)
           \/ \E q \in Requests, d \in Deposits, amount \in Nat : RequestRefund(q, d, amount)
<1>0. \A c \in Calls : call[c] \in CallRow /\ Knows(call[c])
  BY DEF ExitInv, ExitTypeOK, CallsKnow
<1>1. ASSUME NEW c \in Calls, Deduct(c)
      PROVE  \/ UNCHANGED <<deposit, movement>>
             \/ \E d \in Deposits, amount \in Nat \ {0} :
                   Move(SettlementKey(d), d, "DEDUCTION", amount)
  BY <1>0, <1>1 DEF Deduct, SettlementKey, Knows, CallRow, depositVars
<1>2. ASSUME NEW c \in Calls, PayBack(c)
      PROVE  UNCHANGED <<deposit, movement>> \/ \E q \in Requests : CompleteRefund(q)
  BY <1>0, <1>2 DEF PayBack, CallRow, depositVars
<1>3. ASSUME NEW c \in Calls, RequestPayback(c)
      PROVE  \/ UNCHANGED <<deposit, movement>>
             \/ \E q \in Requests, d \in Deposits, amount \in Nat : RequestRefund(q, d, amount)
  BY <1>0, <1>3 DEF RequestPayback, CallRow, depositVars
<1>4. ASSUME NEW c \in Calls,
             \/ BeginApprove(c) \/ TakeReceipt(c) \/ AllocateNextInvoice(c)
             \/ ReadPreview(c) \/ CommitApprove(c)
      PROVE  UNCHANGED depositVars
  BY <1>4 DEF BeginApprove, TakeReceipt, AllocateNextInvoice, ReadPreview, CommitApprove
<1>5. ASSUME NEW c \in Calls, NEW d \in Deposits,
             \/ BeginHold(c, d)
             \/ \E amount \in 1..MaxMove : BeginApply(c, d, amount)
             \/ \E q \in Requests : BeginPayback(c, q, d)
      PROVE  UNCHANGED depositVars
  BY <1>5 DEF BeginHold, BeginApply, BeginPayback
<1>6. ASSUME NEW c \in Calls,
             \/ RecordDeduction(c) \/ CommitApplication(c) \/ CommitPayback(c)
             \/ \E q \in Requests : BeginComplete(c, q)
             \/ CommitComplete(c) \/ BeginExcess(c)
      PROVE  UNCHANGED depositVars
  BY <1>6 DEF RecordDeduction, CommitApplication, CommitPayback, BeginComplete,
              CommitComplete, BeginExcess
<1>7. ASSUME NEW c \in Calls,
             \/ \E x \in Excesses, s \in Sources, amount \in 1..MaxReceipt :
                   RequestExcess(c, x, s, amount)
             \/ BeginClose(c) \/ Reconcile(c) \/ CommitClose(c) \/ Stop(c)
      PROVE  UNCHANGED depositVars
  BY <1>7 DEF RequestExcess, BeginClose, Reconcile, CommitClose, Stop
<1>8. ASSUME NEW c \in Calls, NEW h \in HoldIds, NEW amount \in 1..MaxMove,
             CommitHold(c, h, amount)
      PROVE  UNCHANGED <<deposit, movement>>
  BY <1>8 DEF CommitHold
<1>9. CASE \/ MoveStage
           \/ \E h \in HoldIds : ReleaseHold(h)
           \/ \E q \in Requests : FailPayback(q)
           \/ \E x \in Excesses : CompleteExcess(x)
           \/ UNCHANGED depositVars
  BY <1>9 DEF MoveStage, ReleaseHold, FailPayback, CompleteExcess, depositVars
<1> QED BY <1>1, <1>2, <1>3, <1>4, <1>5, <1>6, <1>7, <1>8, <1>9 DEF ExitNext, depositVars

LEMMA MovementsFitNext ==
    ASSUME ExitInv, MovementsFit, [ExitNext]_exitAllVars
    PROVE  MovementsFit'
<1>1. ExitInv'
  BY ExitNextKeeps
<1>2. DepositInv /\ DepositTypeOK /\ DepositTypeOK'
  BY <1>1 DEF ExitInv, DepositInv
<1>3. CASE UNCHANGED <<deposit, movement>>
  BY <1>2, <1>3, AmountsFit
<1>4. CASE DepositOffice
  BY <1>2, <1>4, OfficeFits
<1>5. ASSUME NEW d \in Deposits, NEW amount \in Nat \ {0},
             Move(SettlementKey(d), d, "DEDUCTION", amount)
      PROVE  MovementsFit'
  <2>1. /\ SettlementKey(d) \in MovementIds
        /\ \A q \in DepositKeys : SettlementKey(d) # <<"in", q>>
        /\ "DEDUCTION" \in MoveType
    BY KeysDiffer DEF MoveType
  <2> QED BY <1>2, <1>5, <2>1, MoveFits
<1>6. ASSUME NEW q \in Requests, NEW d \in Deposits, NEW amount \in Nat,
             RequestRefund(q, d, amount)
      PROVE  MovementsFit'
  BY <1>2, <1>6, AmountsFit DEF RequestRefund, DepositTypeOK, DepositRow
<1>7. CASE UNCHANGED exitAllVars
  BY <1>3, <1>7 DEF exitAllVars, depositVars
<1> QED BY <1>2, <1>3, <1>4, <1>5, <1>6, <1>7, CompleteRefundFits, DepositSteps

LEMMA MovementsFitInitially ==
    ASSUME ExitInit
    PROVE  MovementsFit
<1>1. DepositInit /\ DepositTypeOK
  BY ExitInitially DEF ExitInit, ExitInv, DepositInv
<1>2. ASSUME NEW k \in MovementIds
      PROVE  movement[k] = NoMovement \/ \E d \in Deposits : movement[k] = Collected(d)
  BY <1>1, DepositAssumption DEF DepositInit
<1>3. \A k \in MovementIds : /\ movement[k].undoes = {}
                             /\ movement[k].type # "DEDUCTION"
                             /\ Posted(k) => ShapeFits(movement[k])
  <2>1. TAKE k \in MovementIds
  <2>2. CASE movement[k] = NoMovement
    BY <2>2 DEF NoMovement, Posted
  <2>3. ASSUME NEW d \in Deposits, movement[k] = Collected(d)
        PROVE  /\ movement[k].undoes = {} /\ movement[k].type # "DEDUCTION"
               /\ ShapeFits(movement[k])
    <3>1. /\ movement[k].undoes = {} /\ movement[k].type = "COLLECTION"
          /\ movement[k].of = {d} /\ movement[k].delta = movement[k].funding
      BY <2>3 DEF Collected
    <3> QED BY <3>1 DEF ShapeFits
  <2> QED BY <1>2, <2>2, <2>3
<1>4. PairsPosted
  <2>1. \A k \in DepositKeys : <<"in", k>> \in MovementIds /\ ~Posted(<<"in", k>>)
    BY <1>1, KeysDiffer DEF DepositInit, Posted
  <2> QED BY <2>1 DEF PairsPosted
<1>5. ASSUME NEW d \in Deposits
      PROVE  Gap(d) = SumFunctionOnSet([k \in MovementIds |-> movement[k].amount],
                                       LiveDeductions(d))
  <2>1. LiveDeductions(d) = {}
    BY <1>3 DEF LiveDeductions
  <2>2. Gap(d) = 0
    BY <1>1, DepositAssumption DEF DepositInit, Gap
  <2> QED BY <2>1, <2>2, SumOfNone
<1> QED BY <1>3, <1>4, <1>5 DEF MovementsFit, RowsFit, UndoesPosted, GapIsDeducted, Gap

-----------------------------------------------------------------------------
(* Receipts and what is reserved of them *)

\* What a step of the whole system does to the ledger and to the refunds of
\* receipts.
LEMMA ReceiptSteps ==
    ASSUME ExitInv, ExitNext
    PROVE  \/ UNCHANGED <<ledgerVars, excess>>
           \/ /\ UNCHANGED excess
              /\ \/ \E s \in Sources, i \in Invoices, amount \in Nat : Spend(s, amount, i)
                 \/ \E s \in Sources, i \in Invoices : \E k \in DOMAIN allocation[s][i] :
                       ReverseAllocation(s, i, k)
                 \/ \E s \in Sources, amount \in Nat : RecordPayment(s, amount)
           \/ /\ UNCHANGED ledgerVars
              /\ \E c \in Calls, x \in Excesses, s \in Sources, amount \in 1..MaxReceipt :
                    RequestExcess(c, x, s, amount)
           \/ \E x \in Excesses : CompleteExcess(x)
<1>0. /\ \A c \in Calls : call[c] \in CallRow
      /\ \A s \in Sources : receipt[s].unallocated \in Nat
      /\ \A amount \in 1..MaxReceipt : amount \in Nat
  BY LedgerAssumption DEF ExitInv, ExitTypeOK, LedgerTypeOK, ReceiptRow
<1>1. ASSUME NEW c \in Calls, AllocateNextInvoice(c)
      PROVE  /\ UNCHANGED excess
             /\ \/ UNCHANGED ledgerVars
                \/ \E s \in Sources, i \in Invoices, amount \in Nat : Spend(s, amount, i)
  <2>1. PICK p \in FirstDue(call[c].todo) :
         LET left == receipt[p[1]].unallocated IN
         IF left = 0
         THEN UNCHANGED ledgerVars
         ELSE Spend(p[1], IF left < p[3] THEN left ELSE p[3], p[2])
    BY <1>1 DEF AllocateNextInvoice
  <2>2. p[1] \in Sources /\ p[2] \in Invoices /\ p[3] \in Nat
    <3>1. p \in Sources \X Invoices \X Nat
      BY <1>0 DEF FirstDue, CallRow
    <3> QED BY <3>1
  <2>3. (IF receipt[p[1]].unallocated < p[3] THEN receipt[p[1]].unallocated ELSE p[3]) \in Nat
    BY <1>0, <2>2
  <2>4. UNCHANGED excess
    BY <1>1 DEF AllocateNextInvoice
  <2> QED BY <2>1, <2>2, <2>3, <2>4
<1>2. ASSUME NEW c \in Calls, RecordDeduction(c)
      PROVE  /\ UNCHANGED excess
             /\ \/ UNCHANGED ledgerVars
                \/ \E s \in Sources, amount \in Nat : RecordPayment(s, amount)
  <2>1. PICK d \in call[c].of :
           \/ UNCHANGED ledgerVars
           \/ RecordPayment(SettlementKey(d), call[c].amount)
    BY <1>2 DEF RecordDeduction, SettlementKey
  <2>2. SettlementKey(d) \in Sources /\ call[c].amount \in Nat
    BY <1>0, SettlementAssumption DEF CallRow, SettlementSources, SettlementKey
  <2> QED BY <1>2, <2>1, <2>2 DEF RecordDeduction
<1>3. CASE ReceiptOffice /\ UNCHANGED <<depositVars, exitVars>>
  BY <1>0, <1>3 DEF ReceiptOffice, exitVars
<1>4. ASSUME NEW c \in Calls,
             \/ BeginApprove(c) \/ TakeReceipt(c)
             \/ ReadPreview(c) \/ CommitApprove(c)
      PROVE  UNCHANGED <<ledgerVars, excess>>
  BY <1>4 DEF BeginApprove, TakeReceipt, ReadPreview, CommitApprove
<1>5. ASSUME NEW c \in Calls, NEW d \in Deposits,
             \/ BeginHold(c, d)
             \/ \E amount \in 1..MaxMove : BeginApply(c, d, amount)
             \/ \E q \in Requests : BeginPayback(c, q, d)
      PROVE  UNCHANGED <<ledgerVars, excess>>
  BY <1>5 DEF BeginHold, BeginApply, BeginPayback
<1>6. ASSUME NEW c \in Calls,
             \/ Deduct(c) \/ CommitApplication(c) \/ CommitPayback(c)
             \/ RequestPayback(c) \/ PayBack(c)
             \/ \E q \in Requests : BeginComplete(c, q)
             \/ CommitComplete(c) \/ BeginExcess(c)
      PROVE  UNCHANGED <<ledgerVars, excess>>
  BY <1>6 DEF Deduct, CommitApplication, CommitPayback, BeginComplete,
              CommitComplete, BeginExcess, RequestPayback, PayBack
<1>7. ASSUME NEW c \in Calls,
             \/ BeginClose(c) \/ Reconcile(c) \/ CommitClose(c) \/ Stop(c)
             \/ \E h \in HoldIds, amount \in 1..MaxMove : CommitHold(c, h, amount)
      PROVE  UNCHANGED <<ledgerVars, excess>>
  BY <1>7 DEF BeginClose, Reconcile, CommitClose, Stop, CommitHold
<1>8. ASSUME NEW c \in Calls, NEW x \in Excesses, NEW s \in Sources,
             NEW amount \in 1..MaxReceipt, RequestExcess(c, x, s, amount)
      PROVE  UNCHANGED ledgerVars
  BY <1>8 DEF RequestExcess
<1>9. CASE \/ MoveStage
           \/ \E h \in HoldIds : ReleaseHold(h)
           \/ \E q \in Requests : FailPayback(q)
           \/ DepositOffice /\ UNCHANGED <<ledgerVars, exitVars>>
  BY <1>9 DEF MoveStage, ReleaseHold, FailPayback, exitVars
<1> QED BY <1>1, <1>2, <1>3, <1>4, <1>5, <1>6, <1>7, <1>8, <1>9 DEF ExitNext

\* What refund rows reserve of a receipt.
Waiting(rows, s) == {x \in Excesses : rows[x].status = "REQUESTED" /\ s \in rows[x].of}
Reserved(rows, s) == SumFunctionOnSet([x \in Excesses |-> rows[x].amount], Waiting(rows, s))

LEMMA ReservedIsReserved ==
    /\ \A s \in Sources : ReservedOf(s) = Reserved(excess, s)
    /\ \A s \in Sources : ReservedOf(s)' = Reserved(excess', s)
BY DEF ReservedOf, Reserved, Waiting

LEMMA ReservedType ==
    ASSUME NEW rows \in [Excesses -> ExcessRow], NEW s \in Sources
    PROVE  /\ Reserved(rows, s) \in Nat
           /\ \A x \in Waiting(rows, s) : rows[x].amount <= Reserved(rows, s)
<1> DEFINE f == [x \in Excesses |-> rows[x].amount]
           W == Waiting(rows, s)
<1>1. W \in SUBSET Excesses /\ IsFiniteSet(W)
  BY SettlementAssumption, FS_Subset DEF Waiting
<1>2. \A x \in W : f[x] \in Nat /\ f[x] = rows[x].amount
  BY <1>1 DEF ExcessRow
<1>3. Reserved(rows, s) = SumFunctionOnSet(f, W)
  BY DEF Reserved
<1> HIDE DEF f, W
<1>4. SumFunctionOnSet(f, W) \in Nat
  BY <1>1, <1>2, SumIsNat
<1>5. \A x \in W : f[x] <= SumFunctionOnSet(f, W)
  BY <1>1, <1>2, SumBoundsParts
<1> QED BY <1>2, <1>3, <1>4, <1>5 DEF W

\* One more request for s, or one request that is over.
LEMMA ReservedNext ==
    ASSUME NEW rows \in [Excesses -> ExcessRow], NEW next \in [Excesses -> ExcessRow],
           NEW x \in Excesses, NEW s \in Sources,
           \A y \in Excesses : y # x => next[y] = rows[y]
    PROVE  /\ /\ rows[x].status = "NONE" /\ next[x].status = "REQUESTED"
              /\ next[x].of = {s}
              => /\ Reserved(next, s) = Reserved(rows, s) + next[x].amount
                 /\ \A r \in Sources : r # s => Reserved(next, r) = Reserved(rows, r)
           /\ /\ rows[x].status = "REQUESTED" /\ next[x].status = "COMPLETED"
              /\ rows[x].of = {s}
              => /\ Reserved(next, s) = Reserved(rows, s) - rows[x].amount
                 /\ \A r \in Sources : r # s => Reserved(next, r) = Reserved(rows, r)
<1> DEFINE f == [y \in Excesses |-> rows[y].amount]
           g == [y \in Excesses |-> next[y].amount]
<1>0. \A r : /\ Reserved(rows, r) = SumFunctionOnSet(f, Waiting(rows, r))
             /\ Reserved(next, r) = SumFunctionOnSet(g, Waiting(next, r))
  BY DEF Reserved
<1>1. \A r : /\ IsFiniteSet(Waiting(rows, r)) /\ Waiting(rows, r) \in SUBSET Excesses
             /\ IsFiniteSet(Waiting(next, r)) /\ Waiting(next, r) \in SUBSET Excesses
  BY SettlementAssumption, FS_Subset DEF Waiting
<1>2. \A y \in Excesses : /\ f[y] \in Int /\ g[y] \in Int /\ (y # x => f[y] = g[y])
                          /\ f[y] = rows[y].amount /\ g[y] = next[y].amount
  BY DEF ExcessRow
<1> HIDE DEF f, g
<1>3. ASSUME NEW r \in Sources, Waiting(next, r) = Waiting(rows, r), x \notin Waiting(rows, r)
      PROVE  Reserved(next, r) = Reserved(rows, r)
  <2>1. \A y \in Waiting(rows, r) : f[y] = g[y]
    BY <1>1, <1>2, <1>3
  <2>2. SumFunctionOnSet(f, Waiting(rows, r)) = SumFunctionOnSet(g, Waiting(rows, r))
    BY <1>1, <2>1, SumOfSame
  <2> QED BY <1>0, <1>3, <2>2
<1>4. ASSUME rows[x].status = "NONE", next[x].status = "REQUESTED", next[x].of = {s}
      PROVE  /\ Reserved(next, s) = Reserved(rows, s) + next[x].amount
             /\ \A r \in Sources : r # s => Reserved(next, r) = Reserved(rows, r)
  <2>1. \A r \in Sources : r # s => /\ Waiting(next, r) = Waiting(rows, r)
                                    /\ x \notin Waiting(rows, r)
    BY <1>4 DEF Waiting
  <2>2. Waiting(next, s) = Waiting(rows, s) \cup {x} /\ x \notin Waiting(rows, s)
    BY <1>4 DEF Waiting
  <2>3. SumFunctionOnSet(g, Waiting(rows, s) \cup {x})
          = SumFunctionOnSet(f, Waiting(rows, s)) + g[x]
    <3>1. g[x] \in Int /\ \A y \in Waiting(rows, s) : f[y] \in Int /\ g[y] = f[y]
      BY <1>1, <1>2, <2>2
    <3> QED BY <1>1, <2>2, <3>1, SumGrows
  <2> QED BY <1>0, <1>2, <1>3, <2>1, <2>2, <2>3
<1>5. ASSUME rows[x].status = "REQUESTED", next[x].status = "COMPLETED", rows[x].of = {s}
      PROVE  /\ Reserved(next, s) = Reserved(rows, s) - rows[x].amount
             /\ \A r \in Sources : r # s => Reserved(next, r) = Reserved(rows, r)
  <2>1. \A r \in Sources : r # s => /\ Waiting(next, r) = Waiting(rows, r)
                                    /\ x \notin Waiting(rows, r)
    BY <1>5 DEF Waiting
  <2>2. Waiting(rows, s) = Waiting(next, s) \cup {x} /\ x \notin Waiting(next, s)
    BY <1>5 DEF Waiting
  <2>3. SumFunctionOnSet(f, Waiting(next, s) \cup {x})
          = SumFunctionOnSet(g, Waiting(next, s)) + f[x]
    <3>1. f[x] \in Int /\ \A y \in Waiting(next, s) : g[y] \in Int /\ f[y] = g[y]
      BY <1>1, <1>2, <2>2
    <3> QED BY <1>1, <2>2, <3>1, SumGrows
  <2>4. SumFunctionOnSet(g, Waiting(next, s)) \in Int /\ f[x] \in Int /\ f[x] = rows[x].amount
    <3>1. \A y \in Waiting(next, s) : g[y] \in Int
      BY <1>1, <1>2
    <3> QED BY <1>1, <1>2, <3>1, SumIsInt
  <2>5. /\ Reserved(rows, s) = SumFunctionOnSet(g, Waiting(next, s)) + f[x]
        /\ Reserved(next, s) = SumFunctionOnSet(g, Waiting(next, s))
    BY <1>0, <2>2, <2>3
  <2>6. Reserved(next, s) = Reserved(rows, s) - rows[x].amount
    BY <2>4, <2>5
  <2> QED BY <1>3, <2>1, <2>6
<1> QED BY <1>4, <1>5

\* The receipts of an exit: each adds up, and refund rows reserve no more than
\* what it has left.
Sparing(row, reserved) ==
    reserved > 0 => row.status = "CONFIRMED" /\ reserved <= row.unallocated

ReceiptsFit ==
    /\ ReceiptsInv
    /\ \A x \in Excesses :
          excess[x].status = "REQUESTED" => \E s \in Sources : excess[x].of = {s}
    /\ \A s \in Sources : Sparing(receipt[s], Reserved(excess, s))

\* Nobody asks for money; the ledger spares what is reserved.
LEMMA SparedReceipts ==
    ASSUME ExitInv, LedgerTypeOK', ReceiptsFit, excess' = excess, ReceiptsInv',
           \A s \in Sources :
              \/ /\ receipt'[s].status = receipt[s].status
                 /\ \/ receipt'[s].unallocated >= receipt[s].unallocated
                    \/ receipt'[s].unallocated >= Reserved(excess, s)
              \/ receipt[s].status # "CONFIRMED"
    PROVE  ReceiptsFit'
<1>1. ASSUME NEW s \in Sources PROVE Sparing(receipt'[s], Reserved(excess', s))
  <2>1. Sparing(receipt[s], Reserved(excess, s))
    BY DEF ReceiptsFit
  <2>2. /\ Reserved(excess, s) \in Nat /\ receipt[s].unallocated \in Nat
        /\ receipt'[s].unallocated \in Nat
    BY ReservedType DEF ExitInv, ExitTypeOK, LedgerTypeOK, ReceiptRow
  <2>3. Reserved(excess', s) = Reserved(excess, s)
    OBVIOUS
  <2> QED BY <2>1, <2>2, <2>3 DEF Sparing
<1>2. \A x \in Excesses :
         excess'[x].status = "REQUESTED" => \E s \in Sources : excess'[x].of = {s}
  BY DEF ReceiptsFit
<1> QED BY <1>1, <1>2 DEF ReceiptsFit, Reserved, Waiting, Sparing

LEMMA SpendFits ==
    ASSUME ExitInv, LedgerTypeOK', ReceiptsFit, excess' = excess,
           NEW s \in Sources, NEW i \in Invoices, NEW amount \in Nat, Spend(s, amount, i)
    PROVE  ReceiptsFit'
<1>0. LedgerTypeOK /\ ReceiptsInv /\ Reserved(excess, s) \in Nat
  BY ReservedType DEF ExitInv, ExitTypeOK, ReceiptsFit
<1>1. Allocate(s, amount, {i}, Due, Reserved(excess, s))
  BY ReservedIsReserved DEF Spend
<1>2. ReceiptsInv'
  BY <1>0, <1>1, AllocateAddsUp
<1>3. PICK spent \in 1..amount : receipt' = [receipt EXCEPT ![s].unallocated = @ - spent]
  BY <1>1 DEF Allocate
<1>4. amount <= receipt[s].unallocated - Reserved(excess, s)
  BY <1>1 DEF Allocate
<1>5. /\ receipt'[s].status = receipt[s].status
      /\ receipt'[s].unallocated >= Reserved(excess, s)
  BY <1>0, <1>3, <1>4 DEF LedgerTypeOK, ReceiptRow
<1>6. \A r \in Sources : r # s => receipt'[r] = receipt[r]
  BY <1>0, <1>3 DEF LedgerTypeOK
<1>7. \A r \in Sources : receipt[r].unallocated \in Nat
  BY <1>0 DEF LedgerTypeOK, ReceiptRow
<1> QED BY <1>2, <1>5, <1>6, <1>7, SparedReceipts

LEMMA ReverseAllocationFits ==
    ASSUME ExitInv, LedgerTypeOK', ReceiptsFit, excess' = excess,
           NEW s \in Sources, NEW i \in Invoices, NEW k \in DOMAIN allocation[s][i],
           ReverseAllocation(s, i, k)
    PROVE  ReceiptsFit'
<1>0. LedgerTypeOK /\ ReceiptsInv
  BY DEF ExitInv, ReceiptsFit
<1>1. ReceiptsInv'
  BY <1>0, ReverseAllocationAddsUp
<1>2. allocation[s][i][k] \in Nat
  BY <1>0 DEF LedgerTypeOK
<1>3. receipt' = [receipt EXCEPT ![s].unallocated = @ + allocation[s][i][k]]
  BY DEF ReverseAllocation
<1>4. /\ \A r \in Sources : receipt[r].unallocated \in Nat
      /\ receipt'[s].status = receipt[s].status
      /\ receipt'[s].unallocated >= receipt[s].unallocated
      /\ \A r \in Sources : r # s => receipt'[r] = receipt[r]
  BY <1>0, <1>2, <1>3 DEF LedgerTypeOK, ReceiptRow
<1> QED BY <1>1, <1>4, SparedReceipts

LEMMA RecordPaymentFits ==
    ASSUME ExitInv, LedgerTypeOK', ReceiptsFit, excess' = excess,
           NEW s \in Sources, NEW amount \in Nat, RecordPayment(s, amount)
    PROVE  ReceiptsFit'
<1>0. LedgerTypeOK /\ ReceiptsInv
  BY DEF ExitInv, ReceiptsFit
<1>1. ReceiptsInv'
  BY <1>0, RecordPaymentAddsUp
<1>2. /\ \A r \in Sources : receipt[r].unallocated \in Nat
      /\ receipt[s].status # "CONFIRMED"
      /\ \A r \in Sources : r # s => receipt'[r] = receipt[r]
  BY <1>0 DEF LedgerTypeOK, ReceiptRow, RecordPayment, Recorded
<1> QED BY <1>1, <1>2, SparedReceipts

\* A new refund is of money that no other one waits for.
LEMMA RequestExcessFits ==
    ASSUME ExitInv, ExitInv', ReceiptsFit, UNCHANGED ledgerVars, NEW c \in Calls,
           NEW x \in Excesses, NEW s \in Sources, NEW amount \in 1..MaxReceipt,
           RequestExcess(c, x, s, amount)
    PROVE  ReceiptsFit'
<1>0. /\ excess \in [Excesses -> ExcessRow] /\ excess' \in [Excesses -> ExcessRow]
      /\ receipt' = receipt /\ allocation' = allocation /\ amount \in Nat
      /\ Reserved(excess, s) \in Nat
  BY LedgerAssumption, ReservedType DEF ExitInv, ExitTypeOK, ledgerVars
<1>1. /\ receipt[s].status = "CONFIRMED"
      /\ amount + Reserved(excess, s) <= receipt[s].unallocated
  BY ReservedIsReserved DEF RequestExcess
<1>2. /\ excess[x].status = "NONE"
      /\ excess'[x].status = "REQUESTED" /\ excess'[x].of = {s} /\ excess'[x].amount = amount
      /\ \A y \in Excesses : y # x => excess'[y] = excess[y]
  BY <1>0 DEF RequestExcess, NoExcess
<1>3. /\ Reserved(excess', s) = Reserved(excess, s) + amount
      /\ \A r \in Sources : r # s => Reserved(excess', r) = Reserved(excess, r)
  BY <1>0, <1>2, ReservedNext
<1>4. \A r \in Sources : Sparing(receipt'[r], Reserved(excess', r))
  BY <1>0, <1>1, <1>3 DEF ReceiptsFit, Sparing
<1>5. ReceiptsInv'
  BY <1>0, ReceiptsInvNext, UntouchedSource DEF ReceiptsFit
<1>6. \A y \in Excesses :
         excess'[y].status = "REQUESTED" => \E r \in Sources : excess'[y].of = {r}
  BY <1>2 DEF ReceiptsFit
<1> QED BY <1>4, <1>5, <1>6 DEF ReceiptsFit, Sparing, Reserved, Waiting

\* What is paid back was reserved, and a receipt that is returned in full has
\* nothing left that another refund could wait for.
LEMMA CompleteExcessFits ==
    ASSUME ExitInv, ExitInv', ReceiptsFit, NEW x \in Excesses, CompleteExcess(x)
    PROVE  ReceiptsFit'
<1> DEFINE amount == excess[x].amount
<1>0. /\ excess \in [Excesses -> ExcessRow] /\ excess' \in [Excesses -> ExcessRow]
      /\ LedgerTypeOK /\ LedgerTypeOK' /\ ReceiptsInv
  BY DEF ExitInv, ExitTypeOK, ReceiptsFit
<1>1. PICK s \in Sources :
         /\ excess[x].of = {s}
         /\ ConfirmProviderRefund(s, amount, "UNALLOCATED_RETURN")
  BY DEF CompleteExcess, ReceiptsFit
<1>2. /\ amount \in Nat /\ amount > 0 /\ receipt[s] \in ReceiptRow
      /\ receipt'[s] = [status |-> IF receipt[s].refunded + amount = receipt[s].amount
                                  THEN "REFUNDED" ELSE "CONFIRMED",
                        amount |-> receipt[s].amount,
                        unallocated |-> receipt[s].unallocated - amount,
                        refunded |-> receipt[s].refunded + amount]
      /\ \A r \in Sources : r # s => receipt'[r] = receipt[r]
  BY <1>0, <1>1 DEF ConfirmProviderRefund, Refundable, LedgerTypeOK, ExcessRow
<1>3. ReceiptsInv'
  BY <1>0, <1>1, <1>2, ConfirmProviderRefundAddsUp
<1>4. /\ excess[x].status = "REQUESTED" /\ excess'[x].status = "COMPLETED"
      /\ \A y \in Excesses : y # x => excess'[y] = excess[y]
  BY <1>0 DEF CompleteExcess, ExcessRow
<1>5. /\ Reserved(excess', s) = Reserved(excess, s) - amount
      /\ \A r \in Sources : r # s => Reserved(excess', r) = Reserved(excess, r)
  BY <1>0, <1>1, <1>4, ReservedNext
<1>6. /\ Reserved(excess, s) \in Nat /\ amount <= Reserved(excess, s)
      /\ Reserved(excess', s) \in Nat
  <2>1. x \in Waiting(excess, s)
    BY <1>1, <1>4 DEF Waiting
  <2> QED BY <1>0, <2>1, ReservedType
<1>7. Reserved(excess', s) <= receipt'[s].unallocated
  BY <1>2, <1>5, <1>6 DEF ReceiptsFit, Sparing, ReceiptRow
<1>8. receipt'[s].status = "CONFIRMED" \/ receipt'[s].unallocated = 0
  <2>1. SpentOf(allocation', s) \in Nat
    BY <1>0, SpentOfType DEF LedgerTypeOK, RowTable
  <2>2. receipt'[s].amount = receipt'[s].unallocated + SpentOf(allocation', s)
                               + receipt'[s].refunded
    BY <1>3, ReceiptsInvNext DEF AddsUp
  <2>3. /\ receipt'[s].unallocated \in Nat /\ receipt'[s].amount \in Nat
        /\ receipt'[s].refunded \in Nat
    BY <1>0 DEF LedgerTypeOK, ReceiptRow
  <2>4. receipt'[s].status = "CONFIRMED" \/ receipt'[s].refunded = receipt'[s].amount
    BY <1>2
  <2> QED BY <2>1, <2>2, <2>3, <2>4
<1>9. \A r \in Sources : Sparing(receipt'[r], Reserved(excess', r))
  <2>1. TAKE r \in Sources
  <2>2. CASE r = s
    BY <1>6, <1>7, <1>8, <2>2 DEF Sparing
  <2>3. CASE r # s
    BY <1>2, <1>5, <2>3 DEF ReceiptsFit
  <2> QED BY <2>2, <2>3
<1>10. \A y \in Excesses :
         excess'[y].status = "REQUESTED" => \E r \in Sources : excess'[y].of = {r}
  BY <1>4 DEF ReceiptsFit
<1> QED BY <1>3, <1>9, <1>10 DEF ReceiptsFit, Sparing, Reserved, Waiting

LEMMA ReceiptsFitNext ==
    ASSUME ExitInv, ReceiptsFit, [ExitNext]_exitAllVars
    PROVE  ReceiptsFit'
<1>1. ExitInv' /\ LedgerTypeOK'
  BY ExitNextKeeps DEF ExitInv
<1>2. CASE UNCHANGED <<ledgerVars, excess>>
  <2>1. ReceiptsInv'
    BY <1>2, ReceiptsInvNext, UntouchedSource DEF ReceiptsFit, ledgerVars
  <2>2. \A s \in Sources : receipt[s].unallocated \in Nat
    BY DEF ExitInv, LedgerTypeOK, ReceiptRow
  <2> QED BY <1>1, <1>2, <2>1, <2>2, SparedReceipts DEF ledgerVars
<1>3. CASE UNCHANGED exitAllVars
  BY <1>2, <1>3 DEF exitAllVars, exitVars
<1> QED BY <1>1, <1>2, <1>3, ReceiptSteps, SpendFits, ReverseAllocationFits,
           RecordPaymentFits, RequestExcessFits, CompleteExcessFits

LEMMA ReceiptsFitInitially ==
    ASSUME ExitInit
    PROVE  ReceiptsFit
<1>1. ReceiptsInv
  BY AddsUpInitially DEF ExitInit
<1>2. excess = [x \in Excesses |-> NoExcess]
  BY DEF ExitInit
<1>3. ASSUME NEW s \in Sources PROVE Sparing(receipt[s], Reserved(excess, s))
  <2>1. Waiting(excess, s) = {}
    BY <1>2 DEF Waiting, NoExcess
  <2>2. Reserved(excess, s) = 0
    BY <2>1, SumOfNone DEF Reserved
  <2> QED BY <2>2 DEF Sparing
<1> QED BY <1>1, <1>2, <1>3 DEF ReceiptsFit, NoExcess

\* The available and the funded amount of a deposit differ by its deductions that
\* were not taken back, in whatever order the office, overlapping settlements and
\* payouts move, transfer and reverse its money (deposit.service.ts lines 181-254,
\* 439-484, 664-716).
THEOREM GapsAreDeducted == ExitSpec => []GapIsDeducted
<1>1. ExitInit => ExitInv /\ MovementsFit
  BY ExitInitially, MovementsFitInitially
<1>2. ExitInv /\ MovementsFit /\ [ExitNext]_exitAllVars => ExitInv' /\ MovementsFit'
  BY ExitNextKeeps, MovementsFitNext
<1>3. MovementsFit => GapIsDeducted
  BY DEF MovementsFit
<1> QED BY <1>1, <1>2, <1>3, PTL DEF ExitSpec

\* A payout that was accepted for a receipt can be made: the receipt stays
\* confirmed and keeps what is reserved of it, whatever is allocated, taken back,
\* asked for and paid meanwhile (final-settlement.service.ts lines 1584-1760,
\* rider-payments.service.ts lines 458-475).
THEOREM ReservedMoneyStays == ExitSpec => []ExcessStaysPayable
<1>1. ExitInit => ExitInv /\ ReceiptsFit
  BY ExitInitially, ReceiptsFitInitially
<1>2. ExitInv /\ ReceiptsFit /\ [ExitNext]_exitAllVars => ExitInv' /\ ReceiptsFit'
  BY ExitNextKeeps, ReceiptsFitNext
<1>3. ReceiptsFit => ExcessStaysPayable
  BY ReservedIsReserved DEF ReceiptsFit, Sparing, ExcessStaysPayable
<1> QED BY <1>1, <1>2, <1>3, PTL DEF ExitSpec

-----------------------------------------------------------------------------
(* The ledger of a settlement *)

LEMMA ExitOperation ==
    ASSUME ExitInv, [ExitNext]_exitAllVars
    PROVE  /\ [LedgerOperation]_ledgerVars
           /\ NoWalletRows => NoWalletRows'
<1>1. CASE UNCHANGED ledgerVars
  BY <1>1 DEF ledgerVars, NoWalletRows
<1>2. ASSUME NEW s \in Sources, NEW i \in Invoices, NEW amount \in Nat, Spend(s, amount, i)
      PROVE  LedgerOperation /\ settlement' = settlement
  <2>1. PICK held \in 0..receipt[s].unallocated : Allocate(s, amount, {i}, Due, held)
    BY <1>2 DEF Spend
  <2>2. held \in Nat
    BY DEF ExitInv, LedgerTypeOK, ReceiptRow
  <2>3. {i} \in SUBSET Invoices
    OBVIOUS
  <2>4. settlement' = settlement
    BY <2>1 DEF Allocate
  <2> QED BY <2>1, <2>2, <2>3, <2>4 DEF LedgerOperation
<1>3. ASSUME NEW s \in Sources, NEW i \in Invoices, NEW k \in DOMAIN allocation[s][i],
             ReverseAllocation(s, i, k)
      PROVE  LedgerOperation /\ settlement' = settlement
  <2>1. BalanceNext
    BY <1>3 DEF BalanceNext
  <2> QED BY <1>3, <2>1 DEF LedgerOperation, ReverseAllocation
<1>4. ASSUME NEW s \in Sources, NEW amount \in Nat, RecordPayment(s, amount)
      PROVE  LedgerOperation /\ settlement' = settlement
  BY <1>4 DEF LedgerOperation, RecordPayment
<1>5. ASSUME NEW x \in Excesses, CompleteExcess(x)
      PROVE  LedgerOperation /\ settlement' = settlement
  <2>1. excess[x].amount \in Nat /\ excess[x].of \in SUBSET Sources
    BY DEF ExitInv, ExitTypeOK, ExcessRow
  <2>2. PICK s \in excess[x].of :
           ConfirmProviderRefund(s, excess[x].amount, "UNALLOCATED_RETURN")
    BY <1>5 DEF CompleteExcess
  <2>3. settlement' = settlement
    BY <2>2 DEF ConfirmProviderRefund
  <2> QED BY <2>1, <2>2, <2>3 DEF LedgerOperation
<1>6. settlement' = settlement => (NoWalletRows => NoWalletRows')
  BY DEF NoWalletRows
<1>7. CASE UNCHANGED exitAllVars
  BY <1>1, <1>7 DEF exitAllVars
<1> QED BY <1>1, <1>2, <1>3, <1>4, <1>5, <1>6, <1>7, ReceiptSteps

\* A settlement, too, changes invoices and receipts by the operations of the ledger
\* only, whatever calls of it overlap or stop half-way.
THEOREM SettlementsUseTheLedger == ExitSpec => LedgerUse
<1>1. ExitInv /\ [ExitNext]_exitAllVars => [LedgerOperation]_ledgerVars
  BY ExitOperation
<1>2. ExitInit => LedgerInit
  BY DEF ExitInit
<1> QED BY <1>1, <1>2, ExitInvariant, PTL DEF ExitSpec, LedgerUse

\* While a settlement goes on every invoice and receipt adds up.  Its deposits pay
\* by receipts, which the invoice part of reconcile counts; wallet payments, which
\* it does not count, are left out of this module
\* (final-settlement.service.ts lines 1791-1860).
THEOREM SettlementLedgerIsSound == ExitSpec => [](LedgerSound /\ InvoicesReconcile)
<1>1. ExitInit => NoWalletRows
  BY DEF ExitInit, LedgerInit, NoWalletRows
<1>2. NoWalletRows /\ ExitInv /\ [ExitNext]_exitAllVars => NoWalletRows'
  BY ExitOperation
<1>3. ExitSpec => []NoWalletRows
  BY <1>1, <1>2, ExitInvariant, PTL DEF ExitSpec
<1> QED BY <1>3, SettlementsUseTheLedger, LedgerIsSoundInUse,
           OnlyWalletRowsBreakReconcile, PTL

=============================================================================

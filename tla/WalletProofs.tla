----------------------------- MODULE WalletProofs -----------------------------
(***************************************************************************)
(* Theorems about the wallet, for any keys, holds, lots, deposits and      *)
(* amounts.                                                                *)
(***************************************************************************)
EXTENDS SecurityDeposits, SumTheorems, TLAPS

-----------------------------------------------------------------------------
(* The inductive invariant *)

\* Finitely many transactions were posted.
LedgerFinite == IsFiniteSet(DOMAIN txn)

\* An active hold reserves something, all of it when it is one of cash.
HoldsFit ==
    \A h \in HoldIds :
        /\ hold[h].captured <= hold[h].amount
        /\ hold[h].status = "ACTIVE" => hold[h].captured < hold[h].amount
        /\ hold[h].status = "ACTIVE" /\ hold[h].for = {} => hold[h].captured = 0

\* Requests read transactions, and not reversals.
ReadsExist == \A u \in Undos : asked[u] \subseteq Reversible \cap DOMAIN txn

\* Only a reversal names a transaction, and one that exists.
ReversalsExist ==
    \A k \in DOMAIN txn :
        /\ txn[k].of \subseteq DOMAIN txn
        /\ k \notin Undos => txn[k].of = {}

\* Entries of the deposit account belong to one deposit; those that are no
\* reversal have the sign of their kind.
KindsFit ==
    \A k \in DOMAIN txn :
        /\ txn[k].kind = "wallet" => txn[k].deposit = 0 /\ txn[k].for = {}
        /\ txn[k].kind # "wallet" => \E d \in Deposits : txn[k].for = {d}
        /\ k \notin Undos /\ txn[k].kind = "fund" => txn[k].deposit > 0

FundedUpTo == \A d \in Deposits : Funded(txn, d) <= Required[d]

Live(r) == request[r].status \in {"REQUESTED", "PROCESSING"}
ReturnHold(r) == hold[<<"return", r>>]

\* The hold of an open request is for its deposit.
RequestsHold ==
    \A r \in Requests :
        Live(r) => \E d \in Deposits : request[r].for = {d} /\ ReturnHold(r).for = {d}

\* Without reversals a deposit that was locked once stays funded.
LockedIsFunded ==
    \A d \in Deposits :
        /\ NeverReversed(d)
        /\ deposit[d].status \in {"LOCKED", "PARTIALLY_DEDUCTED", "REFUND_REQUESTED",
                                  "REFUNDED", "FORFEITED"}
        => Funded(txn, d) = Required[d]

\* Without reversals nothing is taken from a deposit while its return is asked for.
ReturnIsWhole ==
    \A r \in Requests, d \in Deposits :
        /\ NeverReversed(d)
        /\ request[r].for = {d} /\ Live(r) /\ ReturnHold(r).status = "ACTIVE"
        => /\ deposit[d].status = "REFUND_REQUESTED"
           /\ ReturnHold(r).captured = 0
           /\ ReturnHold(r).amount = request[r].amount

\* Lots with money are available.
AvailableLots == \A l \in Lots : lot[l].remaining > 0 => lot[l].status = "AVAILABLE"

\* Nothing happens to a lot before its claim is credited.
CreditedFirst ==
    \A l \in Lots :
        /\ claim[l] # "APPROVED" => <<"claim", l>> \in DOMAIN txn
        /\ <<"claim", l>> \notin DOMAIN txn =>
              /\ lot[l].remaining = 0
              /\ \A k \in DOMAIN txn : txn[k].spent[l] = 0
              /\ {<<"expire", l>>, <<"reverse", l>>} \cap DOMAIN txn = {}

\* Transactions take no more from the lots than from the rewards.
SpentWithin ==
    \A k \in DOMAIN txn : SumFunction(txn[k].spent) <= Max({0, -txn[k].reward})

\* The lots hold no more than the rewards.
RewardsCovered == Remaining(Lots) <= RewardTotal

LedgerInv ==
    WalletTypeOK /\ DepositTypeOK /\ LedgerFinite /\ HoldsFit /\ ReadsExist /\ ReversalsExist
DepositInv == KindsFit /\ FundedUpTo /\ PaidIsFunded
ReturnInv ==
    RequestsHold /\ OneLiveReturn /\ LockedIsFunded /\ ReturnIsWhole /\ DepositsStayCovered
LotInv == AvailableLots /\ CreditedFirst /\ SpentWithin /\ RewardsCovered /\ LotConserved

-----------------------------------------------------------------------------
(* Arithmetic *)

LEMMA MaxOfTwo ==
    ASSUME NEW a \in Int, NEW b \in Int
    PROVE  Max({a, b}) = IF a >= b THEN a ELSE b
<1> DEFINE m == IF a >= b THEN a ELSE b
<1>1. m \in {a, b} /\ \A y \in {a, b} : m >= y
  OBVIOUS
<1>2. \A x \in {a, b} : (\A y \in {a, b} : x >= y) => x = m
  OBVIOUS
<1> QED BY <1>1, <1>2 DEF Max

LEMMA MinOfTwo ==
    ASSUME NEW a \in Int, NEW b \in Int
    PROVE  Min({a, b}) = IF a <= b THEN a ELSE b
<1> DEFINE m == IF a <= b THEN a ELSE b
<1>1. m \in {a, b} /\ \A y \in {a, b} : m <= y
  OBVIOUS
<1>2. \A x \in {a, b} : (\A y \in {a, b} : x <= y) => x = m
  OBVIOUS
<1> QED BY <1>1, <1>2 DEF Min

-----------------------------------------------------------------------------
(* Postings *)

Kinds == {"wallet", "fund", "deduct", "return"}
MoveRow == [cash : Int, reward : Int, deposit : Int, kind : Kinds, for : SUBSET Deposits]
TxnRow == [status : {"POSTED", "REVERSED"}, cash : Int, reward : Int, deposit : Int,
           kind : Kinds, for : SUBSET Deposits, of : SUBSET Keys, spent : [Lots -> Nat]]

\* The types of the ledger alone.
TxnOK == DOMAIN txn \subseteq Keys /\ \A k \in DOMAIN txn : txn[k] \in TxnRow
LotsOK == /\ lot \in [Lots -> [status : {"NONE", "AVAILABLE", "CONSUMED", "EXPIRED", "REVERSED"},
                               remaining : Nat]]
          /\ past \in SUBSET Lots

LEMMA RemainingType ==
    ASSUME LotsOK, NEW lots \in SUBSET Lots
    PROVE  Remaining(lots) \in Nat
<1>1. IsFiniteSet(lots)
  BY WalletAssumption, FS_Subset
<1>2. \A l \in lots : [m \in Lots |-> lot[m].remaining][l] \in Nat
  BY DEF LotsOK
<1> QED BY <1>1, <1>2, SumIsNat DEF Remaining

\* A lot gives no more than it has, and only to a posting it may be used for.
LEMMA UsedType ==
    ASSUME LotsOK, NEW move \in MoveRow, NEW target, NEW l \in Lots
    PROVE  /\ Used(l, move, target) \in Nat
           /\ Used(l, move, target) <= lot[l].remaining
           /\ l \notin Eligible(target) => Used(l, move, target) = 0
           /\ move.reward >= 0 => Used(l, move, target) = 0
<1> DEFINE earlier == {e \in Eligible(target) : Expires[e] < Expires[l]}
           debit == RewardDebit(move)
           rest == debit - Remaining(earlier)
           least == Min({lot[l].remaining, rest})
<1>1. earlier \in SUBSET Lots
  BY DEF Eligible, Tracked
<1>2. Remaining(earlier) \in Nat
  BY <1>1, RemainingType
<1>3. /\ move.reward \in Int /\ lot[l].remaining \in Nat
      /\ debit = IF 0 >= -move.reward THEN 0 ELSE -move.reward
  BY MaxOfTwo DEF RewardDebit, MoveRow, LotsOK
<1>4. rest \in Int
  BY <1>2, <1>3
<1>5. least = IF lot[l].remaining <= rest THEN lot[l].remaining ELSE rest
  BY <1>3, <1>4, MinOfTwo
<1>6. least \in Int
  BY <1>3, <1>4, <1>5
<1>7. Max({0, least}) = IF 0 >= least THEN 0 ELSE least
  BY <1>6, MaxOfTwo
<1>8. Used(l, move, target) = IF l \in Eligible(target) THEN Max({0, least}) ELSE 0
  BY DEF Used
<1> HIDE DEF least
<1>9. move.reward >= 0 => rest <= 0
  BY <1>2, <1>3
<1> HIDE DEF rest
<1> QED BY <1>3, <1>4, <1>5, <1>6, <1>7, <1>8, <1>9

\* The table has a transaction more; those it reverses change their status.
Added(k, move, of, target) ==
    /\ DOMAIN txn' = DOMAIN txn \cup {k}
    /\ \A j \in DOMAIN txn \cup {k} : txn'[j] \in TxnRow
    /\ txn'[k].status = "POSTED" /\ txn'[k].of = of
    /\ txn'[k].cash = move.cash /\ txn'[k].reward = move.reward
    /\ txn'[k].deposit = move.deposit /\ txn'[k].kind = move.kind /\ txn'[k].for = move.for
    /\ txn'[k].spent = IF target = {} THEN [l \in Lots |-> Used(l, move, target)]
                                      ELSE NothingSpent
    /\ \A j \in DOMAIN txn :
          /\ txn'[j].status = IF j \in of THEN "REVERSED" ELSE txn[j].status
          /\ txn'[j].cash = txn[j].cash /\ txn'[j].reward = txn[j].reward
          /\ txn'[j].deposit = txn[j].deposit /\ txn'[j].kind = txn[j].kind
          /\ txn'[j].for = txn[j].for /\ txn'[j].of = txn[j].of
          /\ txn'[j].spent = txn[j].spent

LEMMA WriteAdds ==
    ASSUME TxnOK, LotsOK, NEW k \in Keys, k \notin DOMAIN txn, NEW move \in MoveRow,
           NEW of \in SUBSET DOMAIN txn, NEW target, Write(k, move, of, target)
    PROVE  TxnOK' /\ Added(k, move, of, target)
<1> DEFINE new == [status |-> "POSTED", cash |-> move.cash, reward |-> move.reward,
                   deposit |-> move.deposit, kind |-> move.kind, for |-> move.for,
                   of |-> of,
                   spent |-> IF target = {} THEN [l \in Lots |-> Used(l, move, target)]
                                            ELSE NothingSpent]
<1>1. txn' = [j \in DOMAIN txn \cup {k} |->
                IF j = k THEN new
                ELSE IF j \in of THEN [txn[j] EXCEPT !.status = "REVERSED"] ELSE txn[j]]
  BY DEF Write
<1>2. new \in TxnRow
  <2>1. of \in SUBSET Keys
    BY DEF TxnOK
  <2>2. [l \in Lots |-> Used(l, move, target)] \in [Lots -> Nat]
    BY UsedType
  <2>3. NothingSpent \in [Lots -> Nat]
    BY DEF NothingSpent
  <2>4. new.spent \in [Lots -> Nat]
    BY <2>2, <2>3
  <2> QED BY <2>1, <2>4 DEF TxnRow, MoveRow
<1> HIDE DEF new
<1>3. DOMAIN txn' = DOMAIN txn \cup {k} /\ txn'[k] = new
  BY <1>1
<1>4. \A j \in DOMAIN txn :
         /\ txn[j] \in TxnRow
         /\ txn'[j] = IF j \in of THEN [txn[j] EXCEPT !.status = "REVERSED"] ELSE txn[j]
  BY <1>1 DEF TxnOK
<1>5. \A j \in DOMAIN txn :
                 /\ txn'[j] \in TxnRow
                 /\ txn'[j].status = IF j \in of THEN "REVERSED" ELSE txn[j].status
                 /\ txn'[j].cash = txn[j].cash /\ txn'[j].reward = txn[j].reward
                 /\ txn'[j].deposit = txn[j].deposit /\ txn'[j].kind = txn[j].kind
                 /\ txn'[j].for = txn[j].for /\ txn'[j].of = txn[j].of
                 /\ txn'[j].spent = txn[j].spent
  BY <1>4 DEF TxnRow
<1>6. TxnOK'
  BY <1>2, <1>3, <1>5 DEF TxnOK
<1>7. /\ new.status = "POSTED" /\ new.cash = move.cash /\ new.reward = move.reward
      /\ new.deposit = move.deposit /\ new.kind = move.kind /\ new.for = move.for
      /\ new.of = of
      /\ new.spent = IF target = {} THEN [l \in Lots |-> Used(l, move, target)]
                                    ELSE NothingSpent
  BY DEF new
<1> QED BY <1>2, <1>3, <1>5, <1>6, <1>7 DEF Added

\* The totals of the accounts after a posting.
LEMMA WriteTotals ==
    ASSUME TxnOK, LotsOK, LedgerFinite, NEW k \in Keys, k \notin DOMAIN txn,
           NEW move \in MoveRow, NEW of \in SUBSET DOMAIN txn, NEW target,
           Write(k, move, of, target)
    PROVE  /\ CashTotal \in Int /\ CashTotal' = CashTotal + move.cash
           /\ RewardTotal \in Int /\ RewardTotal' = RewardTotal + move.reward
           /\ DepositTotal \in Int /\ DepositTotal' = DepositTotal + move.deposit
           /\ LedgerFinite'
<1> DEFINE D == DOMAIN txn
           c == [j \in D |-> txn[j].cash]
           C == [j \in D \cup {k} |-> txn'[j].cash]
           r == [j \in D |-> txn[j].reward]
           R == [j \in D \cup {k} |-> txn'[j].reward]
           d == [j \in D |-> txn[j].deposit]
           E == [j \in D \cup {k} |-> txn'[j].deposit]
<1>0. Added(k, move, of, target)
  BY WriteAdds
<1>1. DOMAIN txn' = D \cup {k} /\ IsFiniteSet(D) /\ k \notin D
  BY <1>0 DEF LedgerFinite, Added
<1>2. /\ C[k] = move.cash /\ R[k] = move.reward /\ E[k] = move.deposit
      /\ move.cash \in Int /\ move.reward \in Int /\ move.deposit \in Int
  <2>1. /\ txn'[k].cash = move.cash /\ txn'[k].reward = move.reward
        /\ txn'[k].deposit = move.deposit
    BY <1>0 DEF Added
  <2>2. move.cash \in Int /\ move.reward \in Int /\ move.deposit \in Int
    BY DEF MoveRow
  <2> QED BY <2>1, <2>2
<1>3. \A j \in D : /\ c[j] \in Int /\ C[j] = c[j] /\ r[j] \in Int /\ R[j] = r[j]
                   /\ d[j] \in Int /\ E[j] = d[j]
  BY <1>0 DEF TxnOK, TxnRow, Added
<1>4. /\ CashTotal = SumFunctionOnSet(c, D) /\ CashTotal' = SumFunctionOnSet(C, D \cup {k})
      /\ RewardTotal = SumFunctionOnSet(r, D) /\ RewardTotal' = SumFunctionOnSet(R, D \cup {k})
      /\ DepositTotal = SumFunctionOnSet(d, D)
      /\ DepositTotal' = SumFunctionOnSet(E, D \cup {k})
  BY <1>1 DEF CashTotal, RewardTotal, DepositTotal, SumFunction
<1>5. LedgerFinite'
  BY <1>1, FS_AddElement DEF LedgerFinite
<1> HIDE DEF D, c, C, r, R, d, E
<1>6. CashTotal \in Int /\ CashTotal' = CashTotal + move.cash
  BY <1>1, <1>2, <1>3, <1>4, SumGrows, SumIsInt
<1>7. RewardTotal \in Int /\ RewardTotal' = RewardTotal + move.reward
  BY <1>1, <1>2, <1>3, <1>4, SumGrows, SumIsInt
<1>8. DepositTotal \in Int /\ DepositTotal' = DepositTotal + move.deposit
  BY <1>1, <1>2, <1>3, <1>4, SumGrows, SumIsInt
<1> QED BY <1>5, <1>6, <1>7, <1>8

\* What a posting adds to the entries for deposit d.
Share(move, d, kinds) == IF move.for = {d} /\ move.kind \in kinds THEN move.deposit ELSE 0

LEMMA EntriesType ==
    ASSUME TxnOK, LedgerFinite, NEW d, NEW kinds
    PROVE  EntriesFor(txn, d, kinds) \in Int
<1> DEFINE S == {k \in DOMAIN txn : txn[k].for = {d} /\ txn[k].kind \in kinds}
           f == [k \in DOMAIN txn |-> txn[k].deposit]
<1>1. IsFiniteSet(S) /\ \A k \in S : f[k] \in Int
  <2>1. S \in SUBSET DOMAIN txn
    OBVIOUS
  <2> QED BY <2>1, FS_Subset DEF TxnOK, TxnRow, LedgerFinite
<1>2. EntriesFor(txn, d, kinds) = SumFunctionOnSet(f, S)
  BY DEF EntriesFor
<1> HIDE DEF S, f
<1> QED BY <1>1, <1>2, SumIsInt

LEMMA WriteEntries ==
    ASSUME TxnOK, LotsOK, LedgerFinite, NEW k \in Keys, k \notin DOMAIN txn,
           NEW move \in MoveRow, NEW of \in SUBSET DOMAIN txn, NEW target,
           Write(k, move, of, target), NEW d, NEW kinds
    PROVE  /\ EntriesFor(txn, d, kinds) \in Int
           /\ EntriesFor(txn', d, kinds) = EntriesFor(txn, d, kinds) + Share(move, d, kinds)
<1> DEFINE D == DOMAIN txn
           S == {j \in D : txn[j].for = {d} /\ txn[j].kind \in kinds}
           T == {j \in D \cup {k} : txn'[j].for = {d} /\ txn'[j].kind \in kinds}
           f == [j \in D |-> txn[j].deposit]
           g == [j \in D \cup {k} |-> txn'[j].deposit]
<1>0. Added(k, move, of, target)
  BY WriteAdds
<1>1. DOMAIN txn' = D \cup {k} /\ k \notin S
  BY <1>0 DEF Added
<1>2. /\ EntriesFor(txn, d, kinds) = SumFunctionOnSet(f, S)
      /\ EntriesFor(txn', d, kinds) = SumFunctionOnSet(g, T)
  BY <1>1 DEF EntriesFor
<1>3. EntriesFor(txn, d, kinds) \in Int
  BY EntriesType
<1>4. \A j \in S : f[j] \in Int /\ g[j] = f[j]
  BY <1>0 DEF TxnOK, TxnRow, Added
<1>5. IsFiniteSet(S)
  <2>1. S \in SUBSET D
    OBVIOUS
  <2> QED BY <2>1, FS_Subset DEF LedgerFinite
<1>6. /\ txn'[k].for = move.for /\ txn'[k].kind = move.kind
      /\ g[k] = move.deposit /\ move.deposit \in Int
  <2>1. /\ txn'[k].for = move.for /\ txn'[k].kind = move.kind
        /\ txn'[k].deposit = move.deposit
    BY <1>0 DEF Added
  <2>2. move.deposit \in Int
    BY DEF MoveRow
  <2> QED BY <2>1, <2>2
<1>7. \A j \in D : txn'[j].for = txn[j].for /\ txn'[j].kind = txn[j].kind
  BY <1>0 DEF Added
<1>8. T = IF move.for = {d} /\ move.kind \in kinds THEN S \cup {k} ELSE S
  BY <1>6, <1>7
<1> HIDE DEF S, T, f, g
<1>9. CASE move.for = {d} /\ move.kind \in kinds
  <2>1. SumFunctionOnSet(g, S \cup {k}) = SumFunctionOnSet(f, S) + g[k]
    BY <1>1, <1>4, <1>5, <1>6, SumGrows
  <2> QED BY <1>2, <1>3, <1>6, <1>8, <1>9, <2>1 DEF Share
<1>10. CASE ~(move.for = {d} /\ move.kind \in kinds)
  <2>1. SumFunctionOnSet(g, S) = SumFunctionOnSet(f, S)
    BY <1>4, <1>5, SumOfSame
  <2> QED BY <1>2, <1>3, <1>8, <1>10, <2>1 DEF Share
<1> QED BY <1>9, <1>10

-----------------------------------------------------------------------------
(* Movements *)

LEMMA MoveType ==
    ASSUME NEW cash \in Int, NEW reward \in Int
    PROVE  /\ Move(cash, reward) \in MoveRow
           /\ Move(cash, reward).cash = cash /\ Move(cash, reward).reward = reward
           /\ Move(cash, reward).deposit = 0 /\ Move(cash, reward).kind = "wallet"
           /\ Move(cash, reward).for = {}
BY DEF Move, MoveRow, Kinds

LEMMA AboutType ==
    ASSUME NEW d \in Deposits, NEW kind \in Kinds, NEW amount \in Int, NEW cash \in Int
    PROVE  /\ About(d, kind, amount, cash) \in MoveRow
           /\ About(d, kind, amount, cash).cash = cash
           /\ About(d, kind, amount, cash).reward = 0
           /\ About(d, kind, amount, cash).deposit = amount
           /\ About(d, kind, amount, cash).kind = kind
           /\ About(d, kind, amount, cash).for = {d}
BY MoveType DEF About, MoveRow, Move

LEMMA NegativeType ==
    ASSUME TxnOK, NEW k \in DOMAIN txn
    PROVE  /\ Negative(EntriesOf(k)) \in MoveRow
           /\ Negative(EntriesOf(k)).cash = -txn[k].cash
           /\ Negative(EntriesOf(k)).reward = -txn[k].reward
           /\ Negative(EntriesOf(k)).deposit = -txn[k].deposit
           /\ Negative(EntriesOf(k)).kind = txn[k].kind
           /\ Negative(EntriesOf(k)).for = txn[k].for
<1>1. txn[k] \in TxnRow
  BY DEF TxnOK
<1> DEFINE e == EntriesOf(k)
<1>2. /\ e \in MoveRow /\ e.cash = txn[k].cash /\ e.reward = txn[k].reward
      /\ e.deposit = txn[k].deposit /\ e.kind = txn[k].kind /\ e.for = txn[k].for
  BY <1>1 DEF EntriesOf, MoveRow, TxnRow
<1> HIDE DEF e
<1>3. -e.cash \in Int /\ -e.reward \in Int /\ -e.deposit \in Int
  BY <1>2 DEF MoveRow
<1> DEFINE c == -e.cash
           r == -e.reward
           d == -e.deposit
<1>4. Negative(e) = [e EXCEPT !.cash = c, !.reward = r, !.deposit = d]
  BY DEF Negative
<1>5. c \in Int /\ r \in Int /\ d \in Int
  BY <1>3
<1> HIDE DEF c, r, d
<1>6. /\ Negative(e) \in MoveRow /\ Negative(e).cash = c /\ Negative(e).reward = r
      /\ Negative(e).deposit = d /\ Negative(e).kind = e.kind /\ Negative(e).for = e.for
  BY <1>2, <1>4, <1>5 DEF MoveRow
<1> QED BY <1>2, <1>6 DEF c, r, d, e

-----------------------------------------------------------------------------
(* What a step does to the transactions and to the holds *)

HoldRow == [status : {"NONE", "ACTIVE", "RELEASED", "EXPIRED", "CAPTURED"},
            amount : Nat, captured : Nat, for : SUBSET Deposits]
HoldTable == [HoldIds -> HoldRow]
DepositRow == [status : {"PENDING", "PARTIALLY_PAID", "PAID", "LOCKED",
                         "PARTIALLY_DEDUCTED", "REFUND_REQUESTED", "REFUNDED",
                         "FORFEITED", "CANCELLED"}, locked : BOOLEAN]

LEMMA WalletTypeParts ==
    WalletTypeOK <=> /\ TxnOK /\ LotsOK
                     /\ hold \in HoldTable
                     /\ deposit \in [Deposits -> DepositRow]
                     /\ claim \in [Lots -> {"APPROVED", "CREDITED", "EXPIRED", "REVERSED"}]
                     /\ asked \in [Undos -> SUBSET Keys]
BY DEF WalletTypeOK, TxnOK, TxnRow, Kinds, LotsOK, HoldTable, HoldRow, DepositRow

Fits(row) ==
    /\ row.captured <= row.amount
    /\ row.status = "ACTIVE" => row.captured < row.amount
    /\ row.status = "ACTIVE" /\ row.for = {} => row.captured = 0

\* A posting that is no reversal: what it says about deposits.
Plain(move) ==
    \/ move.kind = "wallet" /\ move.deposit = 0 /\ move.for = {}
    \/ /\ move.kind # "wallet"
       /\ \E d \in Deposits : move.for = {d}
       /\ move.kind = "fund" => move.deposit > 0

\* Key k is that of the reversal of o.
Undoes(k, move, of, o) ==
    /\ k \in Undos /\ of = {o}
    /\ o \in Reversible \cap DOMAIN txn /\ txn[o].status = "POSTED"
    /\ move = Negative(EntriesOf(o))

Recorded(k, move, of, target) ==
    /\ k \notin DOMAIN txn
    /\ Write(k, move, of, target)
    /\ \/ k \notin Undos /\ of = {} /\ Plain(move)
       \/ \E o \in DOMAIN txn : Undoes(k, move, of, o)

LEMMA OutstandingType ==
    ASSUME TxnOK, LedgerFinite, NEW d \in Deposits
    PROVE  /\ Funded(txn, d) \in Int /\ Outstanding(d) \in Nat
           /\ Funded(txn, d) + Outstanding(d) =
                 IF Funded(txn, d) <= Required[d] THEN Required[d] ELSE Funded(txn, d)
<1>1. Funded(txn, d) \in Int
  BY EntriesType DEF Funded
<1>2. Required[d] \in Nat
  BY WalletAssumption
<1> QED BY <1>1, <1>2, MaxOfTwo DEF Outstanding

-----------------------------------------------------------------------------
(* Totals and holds *)

LEMMA TotalsType ==
    ASSUME TxnOK, LedgerFinite
    PROVE  CashTotal \in Int /\ RewardTotal \in Int /\ DepositTotal \in Int
<1> DEFINE c == [k \in DOMAIN txn |-> txn[k].cash]
           r == [k \in DOMAIN txn |-> txn[k].reward]
           d == [k \in DOMAIN txn |-> txn[k].deposit]
<1>1. \A k \in DOMAIN txn : c[k] \in Int /\ r[k] \in Int /\ d[k] \in Int
  BY DEF TxnOK, TxnRow
<1>2. /\ CashTotal = SumFunctionOnSet(c, DOMAIN txn)
      /\ RewardTotal = SumFunctionOnSet(r, DOMAIN txn)
      /\ DepositTotal = SumFunctionOnSet(d, DOMAIN txn)
  BY DEF CashTotal, RewardTotal, DepositTotal, SumFunction
<1> HIDE DEF c, r, d
<1> QED BY <1>1, <1>2, SumIsInt DEF LedgerFinite

LEMMA HoldsFinite == IsFiniteSet(HoldIds)
<1> DEFINE f == [r \in Requests |-> <<"return", r>>]
           T == {"return"} \X Requests
<1>1. f \in Surjection(Requests, T)
  BY DEF Surjection
<1>2. IsFiniteSet(T)
  BY <1>1, FS_Surjection, WalletAssumption
<1> QED BY <1>2, FS_Union, WalletAssumption DEF HoldIds

\* What an active hold for X reserves.
Reserved(row, X) ==
    IF row.status = "ACTIVE" /\ row.for = X THEN row.amount - row.captured ELSE 0

HeldFor(holds, X) == Remainder(holds, ActiveHolds(holds, X))

Fitting(holds) == holds \in HoldTable /\ \A h \in HoldIds : Fits(holds[h])

\* The sum over the active holds is one over all holds.
LEMMA HeldForIsSum ==
    ASSUME NEW holds \in HoldTable, NEW X
    PROVE  /\ HeldFor(holds, X) = SumFunctionOnSet([h \in HoldIds |-> Reserved(holds[h], X)], HoldIds)
           /\ HeldFor(holds, X) \in Int
<1> DEFINE all == [h \in HoldIds |-> Reserved(holds[h], X)]
           part == [h \in HoldIds |-> holds[h].amount - holds[h].captured]
           ids == ActiveHolds(holds, X)
<1>1. /\ \A h \in HoldIds : all[h] \in Int /\ part[h] \in Int
      /\ \A h \in ids : all[h] = part[h]
      /\ \A h \in HoldIds \ ids : all[h] = 0
      /\ ids \in SUBSET HoldIds
  BY DEF HoldTable, HoldRow, Reserved, ActiveHolds
<1>2. HeldFor(holds, X) = SumFunctionOnSet(part, ids)
  BY DEF HeldFor, Remainder
<1>3. IsFiniteSet(HoldIds) /\ IsFiniteSet(ids)
  BY <1>1, HoldsFinite, FS_Subset
<1> HIDE DEF all, part, ids
<1>4. SumFunctionOnSet(part, ids) = SumFunctionOnSet(all, ids)
  BY <1>1, <1>3, SumOfSame
<1>5. SumFunctionOnSet(all, HoldIds) = SumFunctionOnSet(all, ids)
  BY <1>1, <1>3, SumSkipsZeros
<1>6. SumFunctionOnSet(all, HoldIds) \in Int
  BY <1>1, <1>3, SumIsInt
<1> QED BY <1>2, <1>4, <1>5, <1>6 DEF all

LEMMA HoldChanges ==
    ASSUME NEW holds \in HoldTable, NEW h \in HoldIds, NEW row \in HoldRow, NEW X
    PROVE  /\ [holds EXCEPT ![h] = row] \in HoldTable
           /\ HeldFor([holds EXCEPT ![h] = row], X)
                = HeldFor(holds, X) + Reserved(row, X) - Reserved(holds[h], X)
<1> DEFINE new == [holds EXCEPT ![h] = row]
           f == [i \in HoldIds |-> Reserved(holds[i], X)]
           g == [i \in HoldIds |-> Reserved(new[i], X)]
<1>1. new \in HoldTable
  BY DEF HoldTable
<1>2. new[h] = row /\ \A i \in HoldIds \ {h} : new[i] = holds[i]
  BY DEF HoldTable
<1>3. \A i \in HoldIds : new[i] \in HoldRow /\ holds[i] \in HoldRow
  BY <1>1 DEF HoldTable
<1>4. HeldFor(holds, X) = SumFunctionOnSet(f, HoldIds)
  BY HeldForIsSum
<1> HIDE DEF new
<1>5. HeldFor(new, X) = SumFunctionOnSet(g, HoldIds)
  BY <1>1, HeldForIsSum
<1>6. /\ \A i \in HoldIds : f[i] \in Int /\ g[i] \in Int
      /\ \A i \in HoldIds \ {h} : f[i] = g[i]
      /\ f[h] = Reserved(holds[h], X) /\ g[h] = Reserved(row, X)
  BY <1>2, <1>3 DEF Reserved, HoldRow
<1> HIDE DEF f, g
<1>7. SumFunctionOnSet(g, HoldIds) = SumFunctionOnSet(f, HoldIds) + g[h] - f[h]
  BY <1>6, HoldsFinite, SumOneChanges
<1> QED BY <1>1, <1>4, <1>5, <1>6, <1>7 DEF new

LEMMA HeldChanges ==
    ASSUME hold \in HoldTable, NEW h \in HoldIds, NEW row \in HoldRow, NEW X,
           hold' = [hold EXCEPT ![h] = row]
    PROVE  HeldFor(hold', X) = HeldFor(hold, X) + Reserved(row, X) - Reserved(hold[h], X)
<1>1. HeldFor([hold EXCEPT ![h] = row], X)
        = HeldFor(hold, X) + Reserved(row, X) - Reserved(hold[h], X)
  BY HoldChanges
<1> QED BY <1>1

\* Every hold counts, and none is negative.
LEMMA HeldForBounds ==
    ASSUME NEW holds, Fitting(holds), NEW X
    PROVE  /\ HeldFor(holds, X) \in Nat
           /\ \A h \in HoldIds : Reserved(holds[h], X) <= HeldFor(holds, X)
<1> DEFINE f == [h \in HoldIds |-> Reserved(holds[h], X)]
<1>1. \A h \in HoldIds : f[h] \in Nat /\ f[h] = Reserved(holds[h], X)
  BY DEF Fitting, Fits, HoldTable, HoldRow, Reserved
<1>2. HeldFor(holds, X) = SumFunctionOnSet(f, HoldIds)
  BY HeldForIsSum DEF Fitting
<1> HIDE DEF f
<1> QED BY <1>1, <1>2, HoldsFinite, SumIsNat, SumBoundsParts

LEMMA CoversMeans ==
    ASSUME TxnOK, LedgerFinite, hold \in HoldTable, NEW holds, Fitting(holds),
           NEW move \in MoveRow, Covers(move, holds)
    PROVE  /\ CashTotal + move.cash - Held >= -CreditLimit
           /\ RewardTotal + move.reward >= 0
           /\ DepositTotal + move.deposit >= 0
<1> DEFINE ids == UNION {ActiveHolds(holds, {d}) : d \in Deposits}
           part == [h \in HoldIds |-> holds[h].amount - holds[h].captured]
<1>1. CashTotal \in Int /\ RewardTotal \in Int /\ DepositTotal \in Int
  BY TotalsType
<1>2. Held \in Int
  BY HeldForIsSum DEF Held, HeldFor
<1>3. ids \in SUBSET HoldIds /\ \A h \in ids : part[h] \in Nat
  BY DEF ActiveHolds, Fitting, Fits, HoldTable, HoldRow
<1>4. Remainder(holds, ids) = SumFunctionOnSet(part, ids)
  BY DEF Remainder
<1>5. IsFiniteSet(ids)
  BY <1>3, HoldsFinite, FS_Subset
<1>6. AvailableDeposit(holds) = DepositTotal - Remainder(holds, ids)
  BY DEF AvailableDeposit
<1> HIDE DEF ids, part
<1>7. Remainder(holds, ids) \in Nat
  BY <1>3, <1>4, <1>5, SumIsNat
<1>8. CreditLimit \in Nat /\ MinimumCash \in Nat
  BY WalletAssumption
<1>9. move.cash \in Int /\ move.reward \in Int /\ move.deposit \in Int
  BY DEF MoveRow
<1>10. /\ CashTotal - Held - MinimumCash + move.cash >= -CreditLimit
       /\ RewardTotal + move.reward >= 0
       /\ DepositTotal - Remainder(holds, ids) + move.deposit >= 0
  BY <1>6 DEF Covers, AvailableCash
<1> QED BY <1>1, <1>2, <1>7, <1>8, <1>9, <1>10

-----------------------------------------------------------------------------
(* The shape of a step *)

\* At most one transaction is added, checked against the holds that the step leaves,
\* or for the cash hold it captures.
TxnStep ==
    \/ UNCHANGED txn
    \/ \E k \in Keys, move \in MoveRow, of \in SUBSET DOMAIN txn, target \in SUBSET Lots :
          /\ Recorded(k, move, of, target)
          /\ \/ Covers(move, hold')
             \/ \E h \in Holds : CaptureHold(h) /\ move = Move(-hold[h].amount, 0)

\* At most one hold changes; more cash is held only when it is available.
HoldStep ==
    \/ UNCHANGED hold
    \/ \E h \in HoldIds, row \in HoldRow :
          /\ Fits(row) /\ hold' = [hold EXCEPT ![h] = row]
          /\ \/ Reserved(row, {}) <= Reserved(hold[h], {})
             \/ /\ UNCHANGED txn
                /\ AvailableCash >= Reserved(row, {}) - Reserved(hold[h], {})

LEMMA InvParts ==
    ASSUME LedgerInv
    PROVE  /\ TxnOK /\ LotsOK /\ LedgerFinite /\ Fitting(hold)
           /\ hold \in HoldTable /\ \A h \in HoldIds : hold[h] \in HoldRow /\ Fits(hold[h])
           /\ \A r \in Requests : <<"return", r>> \in HoldIds /\ request[r].amount \in Nat
                                  /\ request[r].for \in SUBSET Deposits
BY WalletTypeParts DEF LedgerInv, Fitting, Fits, HoldsFit, HoldTable, DepositTypeOK, HoldIds

LEMMA PostStep ==
    ASSUME LedgerInv, NEW p \in Payments, NEW cash \in Int, NEW reward \in Int,
           Post(p, cash, reward)
    PROVE  TxnStep
<1>1. p \in Keys /\ p \notin Undos
  BY KeyAssumption DEF Keys
<1>2. /\ p \notin DOMAIN txn /\ Write(p, Move(cash, reward), {}, {})
      /\ Covers(Move(cash, reward), hold) /\ hold' = hold
  BY DEF Post, Posts, Accepts, Fresh
<1>3. Covers(Move(cash, reward), hold')
  BY <1>2
<1>4. Plain(Move(cash, reward)) /\ Move(cash, reward) \in MoveRow
  BY MoveType DEF Plain
<1> QED BY <1>1, <1>2, <1>3, <1>4 DEF TxnStep, Recorded

LEMMA UndoStep ==
    ASSUME LedgerInv, NEW u \in Undos, NEW k \in asked[u], Posts(u, Negative(EntriesOf(k)), {k}),
           UNCHANGED hold
    PROVE  TxnStep
<1>1. u \in Keys /\ k \in Reversible \cap DOMAIN txn /\ TxnOK
  BY WalletTypeParts DEF LedgerInv, ReadsExist, Keys
<1>2. /\ u \notin DOMAIN txn /\ Write(u, Negative(EntriesOf(k)), {k}, {})
      /\ txn[k].status = "POSTED" /\ Covers(Negative(EntriesOf(k)), hold)
  BY DEF Posts, Accepts, Fresh
<1>3. Negative(EntriesOf(k)) \in MoveRow
  BY <1>1, NegativeType
<1>4. Undoes(u, Negative(EntriesOf(k)), {k}, k)
  BY <1>1, <1>2 DEF Undoes
<1>5. {k} \in SUBSET DOMAIN txn
  BY <1>1
<1>6. Covers(Negative(EntriesOf(k)), hold')
  BY <1>2
<1> QED BY <1>1, <1>2, <1>3, <1>4, <1>5, <1>6 DEF TxnStep, Recorded

\* Postings under keys that are not those of requests.
LEMMA GeneratedStep ==
    ASSUME LedgerInv, NEW k \in Keys \ Undos, k \notin DOMAIN txn, NEW move \in MoveRow,
           Plain(move), NEW target \in SUBSET Lots, Write(k, move, {}, target),
           Covers(move, hold')
    PROVE  TxnStep
BY DEF TxnStep, Recorded

LEMMA AboutStep ==
    ASSUME LedgerInv, NEW k \in Keys \ Undos, NEW d \in Deposits, NEW kind \in Kinds \ {"wallet"},
           NEW amount \in Int, NEW cash \in Int, kind = "fund" => amount > 0, NEW holds,
           PostsAbout(k, About(d, kind, amount, cash), holds), hold' = holds
    PROVE  TxnStep
<1>1. /\ k \notin DOMAIN txn /\ Write(k, About(d, kind, amount, cash), {}, {})
      /\ Covers(About(d, kind, amount, cash), hold')
  BY DEF PostsAbout, Fresh
<1>2. About(d, kind, amount, cash) \in MoveRow
  BY AboutType
<1>3. Plain(About(d, kind, amount, cash))
  BY AboutType DEF Plain
<1> QED BY <1>1, <1>2, <1>3, GeneratedStep

\* The row of a hold that ends without being taken.
LEMMA EndedRow ==
    ASSUME LedgerInv, NEW h \in HoldIds, NEW status \in {"RELEASED", "EXPIRED"}
    PROVE  LET row == [hold[h] EXCEPT !.status = status]
           IN  /\ [hold EXCEPT ![h].status = status] = [hold EXCEPT ![h] = row]
               /\ row \in HoldRow /\ Fits(row) /\ row.status = status
               /\ row.for = hold[h].for
<1> DEFINE row == [hold[h] EXCEPT !.status = status]
<1>1. hold[h] \in HoldRow /\ Fits(hold[h])
  BY InvParts
<1>2. row \in HoldRow /\ Fits(row) /\ row.status = status /\ row.for = hold[h].for
  BY <1>1 DEF HoldRow, Fits
<1> QED BY <1>2

LEMMA NewHoldRow ==
    ASSUME NEW amount \in Nat \ {0}, NEW X \in SUBSET Deposits
    PROVE  LET row == [NoHold EXCEPT !.status = "ACTIVE", !.amount = amount, !.for = X]
           IN  /\ row \in HoldRow /\ Fits(row)
               /\ row.status = "ACTIVE" /\ row.amount = amount /\ row.captured = 0
               /\ row.for = X
<1> DEFINE row == [NoHold EXCEPT !.status = "ACTIVE", !.amount = amount, !.for = X]
<1>1. NoHold \in HoldRow /\ NoHold.captured = 0
  BY DEF NoHold, HoldRow
<1>2. /\ row \in HoldRow /\ row.status = "ACTIVE" /\ row.amount = amount /\ row.captured = 0
      /\ row.for = X
  BY <1>1 DEF HoldRow
<1> HIDE DEF row
<1>3. Fits(row)
  BY <1>2 DEF Fits
<1> QED BY <1>2, <1>3 DEF row

LEMMA NewCashHoldRow ==
    ASSUME NEW amount \in Nat \ {0}
    PROVE  LET row == [NoHold EXCEPT !.status = "ACTIVE", !.amount = amount]
           IN  /\ row \in HoldRow /\ Fits(row)
               /\ row.status = "ACTIVE" /\ row.amount = amount /\ row.captured = 0
               /\ row.for = {}
<1> DEFINE row == [NoHold EXCEPT !.status = "ACTIVE", !.amount = amount]
<1>1. NoHold \in HoldRow /\ NoHold.captured = 0 /\ NoHold.for = {}
  BY DEF NoHold, HoldRow
<1>2. /\ row \in HoldRow /\ row.status = "ACTIVE" /\ row.amount = amount /\ row.captured = 0
      /\ row.for = {}
  BY <1>1 DEF HoldRow
<1> HIDE DEF row
<1>3. Fits(row)
  BY <1>2 DEF Fits
<1> QED BY <1>2, <1>3 DEF row

LEMMA CapturedRow ==
    ASSUME LedgerInv, NEW h \in HoldIds, NEW amount \in Nat,
           amount <= hold[h].amount - hold[h].captured
    PROVE  LET captured == hold[h].captured + amount
               row == [hold[h] EXCEPT !.captured = captured,
                         !.status = IF captured = hold[h].amount THEN "CAPTURED" ELSE "ACTIVE"]
           IN  /\ Captured(h, amount) = [hold EXCEPT ![h] = row]
               /\ row \in HoldRow
               /\ row.captured = captured /\ row.amount = hold[h].amount
               /\ row.for = hold[h].for
               /\ row.status = IF captured = hold[h].amount THEN "CAPTURED" ELSE "ACTIVE"
               /\ captured \in Nat /\ captured <= hold[h].amount
               /\ hold[h].for # {} => Fits(row)
<1>1. hold[h] \in HoldRow /\ hold \in HoldTable
  BY InvParts
<1> DEFINE captured == hold[h].captured + amount
           row == [hold[h] EXCEPT !.captured = captured,
                     !.status = IF captured = hold[h].amount THEN "CAPTURED" ELSE "ACTIVE"]
<1>2. captured \in Nat /\ captured <= hold[h].amount
  BY <1>1 DEF HoldRow
<1>3. Captured(h, amount) = [hold EXCEPT ![h] = row]
  BY <1>1 DEF Captured, HoldTable, HoldRow
<1> HIDE DEF captured
<1>4. /\ row \in HoldRow
      /\ row.captured = captured /\ row.amount = hold[h].amount
      /\ row.for = hold[h].for
      /\ row.status = IF captured = hold[h].amount THEN "CAPTURED" ELSE "ACTIVE"
  BY <1>1, <1>2 DEF HoldRow
<1>5. hold[h].for # {} => Fits(row)
  BY <1>1, <1>2, <1>4 DEF Fits, HoldRow
<1> QED BY <1>2, <1>3, <1>4, <1>5 DEF captured

LEMMA RestoredType ==
    ASSUME TxnOK, LedgerFinite, NEW of \in SUBSET DOMAIN txn, NEW l \in Lots
    PROVE  Restored(l, of) \in Nat
<1> DEFINE f == [o \in DOMAIN txn |-> txn[o].spent[l]]
<1>1. \A o \in of : f[o] \in Nat
  BY DEF TxnOK, TxnRow
<1>2. IsFiniteSet(of)
  BY FS_Subset DEF LedgerFinite
<1>3. Restored(l, of) = SumFunctionOnSet(f, of)
  BY DEF Restored
<1> HIDE DEF f
<1> QED BY <1>1, <1>2, <1>3, SumIsNat

LotRow == [status : {"NONE", "AVAILABLE", "CONSUMED", "EXPIRED", "REVERSED"}, remaining : Nat]

\* A lot gives what is used and gets back what is restored.
LEMMA LotsAfterType ==
    ASSUME TxnOK, LotsOK, LedgerFinite, NEW move \in MoveRow, NEW of \in SUBSET DOMAIN txn,
           NEW target, NEW emptied \in {"CONSUMED", "EXPIRED"}
    PROVE  /\ LotsAfter(move, of, target, emptied) \in [Lots -> LotRow]
           /\ \A l \in Lots :
                 LET after == LotsAfter(move, of, target, emptied)[l]
                 IN  /\ after.remaining
                          = lot[l].remaining - Used(l, move, target) + Restored(l, of)
                     /\ \/ after.status = "AVAILABLE"
                        \/ after.remaining = 0
                        \/ after = lot[l]
<1> DEFINE after == LotsAfter(move, of, target, emptied)
<1>1. SUFFICES ASSUME NEW l \in Lots
               PROVE  /\ after[l] \in LotRow
                      /\ after[l].remaining
                           = lot[l].remaining - Used(l, move, target) + Restored(l, of)
                      /\ \/ after[l].status = "AVAILABLE"
                         \/ after[l].remaining = 0
                         \/ after[l] = lot[l]
  BY DEF LotsAfter
<1> DEFINE used == Used(l, move, target)
           back == Restored(l, of)
           left == lot[l].remaining - used
<1>2. after[l] = IF back > 0 THEN [status |-> "AVAILABLE", remaining |-> left + back]
                 ELSE IF used > 0
                 THEN [status |-> IF left = 0 THEN emptied ELSE "AVAILABLE",
                       remaining |-> left]
                 ELSE lot[l]
  BY DEF LotsAfter
<1>3. /\ used \in Nat /\ used <= lot[l].remaining /\ back \in Nat
      /\ lot[l] \in LotRow /\ lot[l].remaining \in Nat
  BY UsedType, RestoredType DEF LotsOK, LotRow
<1>4. left \in Nat
  BY <1>3
<1> HIDE DEF after, used, back
<1>5. CASE back > 0
  BY <1>2, <1>3, <1>4, <1>5 DEF LotRow, used, back
<1>6. CASE back = 0 /\ used > 0
  <2>1. CASE left = 0
    BY <1>2, <1>3, <1>4, <1>6, <2>1 DEF LotRow, used, back
  <2>2. CASE left # 0
    BY <1>2, <1>3, <1>4, <1>6, <2>2 DEF LotRow, used, back
  <2> QED BY <2>1, <2>2
<1>7. CASE back = 0 /\ used = 0
  BY <1>2, <1>3, <1>4, <1>7 DEF LotRow, used, back
<1> QED BY <1>3, <1>5, <1>6, <1>7

LEMMA ReturnsFit ==
    ASSUME LedgerInv, NEW r \in Requests, NEW d \in request[r].for, Completes(r, d)
    PROVE  TxnStep /\ HoldStep
<1> DEFINE h == <<"return", r>>
           row == [hold[h] EXCEPT !.status = "RELEASED"]
           cash == IF request[r].to = "cash" THEN request[r].amount ELSE 0
<1>1. h \in HoldIds /\ h \in Keys /\ h \notin Undos
  BY KeyAssumption DEF HoldIds, Keys
<1>2. request[r].amount \in Nat /\ d \in Deposits
  BY InvParts
<1>3. /\ hold' = [hold EXCEPT ![h].status = "RELEASED"]
      /\ PostsAbout(h, About(d, "return", -request[r].amount, cash), hold')
  BY DEF Completes
<1>4. TxnStep
  <2>1. -request[r].amount \in Int /\ cash \in Int
    BY <1>2
  <2>2. "return" \in Kinds \ {"wallet"}
    BY DEF Kinds
  <2> HIDE DEF h, cash
  <2> QED BY <1>1, <1>2, <1>3, <2>1, <2>2, AboutStep
<1>5. /\ hold' = [hold EXCEPT ![h] = row] /\ row \in HoldRow /\ Fits(row)
      /\ row.status = "RELEASED"
  BY <1>1, <1>3, EndedRow
<1>6. Reserved(row, {}) <= Reserved(hold[h], {})
  <2>1. Reserved(row, {}) = 0
    BY <1>5 DEF Reserved
  <2>2. Reserved(hold[h], {}) >= 0
    BY <1>1, InvParts DEF Reserved, Fits, HoldRow
  <2> QED BY <2>1, <2>2
<1>7. HoldStep
  BY <1>1, <1>5, <1>6 DEF HoldStep
<1> QED BY <1>4, <1>7

LEMMA EndedStep ==
    ASSUME LedgerInv, NEW h \in HoldIds, NEW status \in {"RELEASED", "EXPIRED"},
           hold' = [hold EXCEPT ![h].status = status]
    PROVE  HoldStep
<1> DEFINE row == [hold[h] EXCEPT !.status = status]
<1>1. /\ hold' = [hold EXCEPT ![h] = row] /\ row \in HoldRow /\ Fits(row)
      /\ row.status = status
  BY EndedRow
<1>2. Reserved(row, {}) = 0
  BY <1>1 DEF Reserved
<1>3. Reserved(hold[h], {}) >= 0
  BY InvParts DEF Reserved, Fits, HoldRow
<1> QED BY <1>1, <1>2, <1>3 DEF HoldStep

\* A new hold for a deposit takes no cash.
LEMMA ReserveStep ==
    ASSUME LedgerInv, NEW h \in HoldIds, NEW d \in Deposits, NEW amount \in Nat \ {0},
           Reserve(h, d, amount)
    PROVE  HoldStep
<1> DEFINE row == [NoHold EXCEPT !.status = "ACTIVE", !.amount = amount, !.for = {d}]
<1>1. hold' = [hold EXCEPT ![h] = row]
  BY DEF Reserve
<1>2. row \in HoldRow /\ Fits(row) /\ row.for = {d}
  BY NewHoldRow
<1> HIDE DEF row
<1>3. Reserved(row, {}) = 0
  BY <1>2 DEF Reserved
<1>4. Reserved(hold[h], {}) >= 0
  BY InvParts DEF Reserved, Fits, HoldRow
<1> QED BY <1>1, <1>2, <1>3, <1>4 DEF HoldStep

LEMMA StepShape ==
    ASSUME LedgerInv, DepositNext
    PROVE  TxnStep /\ HoldStep
<1> USE InvParts
<1>1. ASSUME NEW p \in Payments, NEW cash \in -MaxMove..MaxMove, NEW reward \in -MaxMove..MaxMove,
             Post(p, cash, reward)
      PROVE  TxnStep /\ HoldStep
  <2>1. cash \in Int /\ reward \in Int
    BY <1>1, WalletAssumption
  <2>2. UNCHANGED hold
    BY <1>1 DEF Post
  <2> QED BY <1>1, <2>1, <2>2, PostStep DEF HoldStep
<1>2. ASSUME NEW u \in Undos, NEW k \in Keys, AskReversal(u, k)
      PROVE  TxnStep /\ HoldStep
  BY <1>2 DEF AskReversal, TxnStep, HoldStep
<1>3. ASSUME NEW u \in Undos, Reverse(u, Billed)
      PROVE  TxnStep /\ HoldStep
  <2>1. UNCHANGED hold
    BY <1>3 DEF Reverse
  <2>2. PICK k \in asked[u] : Posts(u, Negative(EntriesOf(k)), {k})
    BY <1>3 DEF Reverse
  <2> QED BY <2>1, <2>2, UndoStep DEF HoldStep
<1>4. ASSUME NEW u \in Undos, GiveUpReversal(u)
      PROVE  TxnStep /\ HoldStep
  BY <1>4 DEF GiveUpReversal, TxnStep, HoldStep
<1>5. ASSUME NEW h \in Holds, NEW amount \in 1..MaxMove, HoldCash(h, amount)
      PROVE  TxnStep /\ HoldStep
  <2> DEFINE row == [NoHold EXCEPT !.status = "ACTIVE", !.amount = amount]
  <2>1. amount \in Nat \ {0} /\ h \in HoldIds
    BY WalletAssumption DEF HoldIds
  <2>2. /\ row \in HoldRow /\ Fits(row) /\ row.status = "ACTIVE" /\ row.amount = amount
        /\ row.captured = 0 /\ row.for = {}
    BY <2>1, NewCashHoldRow
  <2>3. /\ hold' = [hold EXCEPT ![h] = row] /\ UNCHANGED txn
        /\ hold[h].status = "NONE" /\ AvailableCash >= amount
    BY <1>5 DEF HoldCash
  <2> HIDE DEF row
  <2>4. Reserved(row, {}) - Reserved(hold[h], {}) = amount
    BY <2>1, <2>2, <2>3 DEF Reserved
  <2> QED BY <2>1, <2>2, <2>3, <2>4 DEF HoldStep, TxnStep
<1>6. ASSUME NEW h \in Holds, NEW status \in {"RELEASED", "EXPIRED"}, ReleaseHold(h, status)
      PROVE  TxnStep /\ HoldStep
  <2>1. h \in HoldIds
    BY DEF HoldIds
  <2> QED BY <1>6, <2>1, EndedStep DEF ReleaseHold, TxnStep
<1>7. ASSUME NEW h \in Holds, CaptureHold(h)
      PROVE  TxnStep /\ HoldStep
  <2> DEFINE k == <<"capture", h>>
             move == Move(-hold[h].amount, 0)
             row == [hold[h] EXCEPT !.status = "CAPTURED", !.captured = hold[h].amount]
  <2>1. h \in HoldIds /\ k \in Keys /\ k \notin Undos
    BY KeyAssumption DEF HoldIds, Keys
  <2>2. hold[h] \in HoldRow
    BY <2>1, InvParts
  <2>3. /\ hold[h].status = "ACTIVE" /\ hold[h].for = {} /\ k \notin DOMAIN txn
        /\ Write(k, move, {}, {})
        /\ hold' = [hold EXCEPT ![h].status = "CAPTURED", ![h].captured = hold[h].amount]
    BY <1>7 DEF CaptureHold, Fresh
  <2>4. move \in MoveRow /\ Plain(move)
    <3>1. -hold[h].amount \in Int
      BY <2>2 DEF HoldRow
    <3> QED BY <3>1, MoveType DEF Plain
  <2>5. TxnStep
    <3>1. Recorded(k, move, {}, {})
      BY <2>1, <2>3, <2>4 DEF Recorded
    <3>2. {} \in SUBSET DOMAIN txn /\ {} \in SUBSET Lots
      OBVIOUS
    <3>3. \E g \in Holds : CaptureHold(g) /\ move = Move(-hold[g].amount, 0)
      BY <1>7
    <3> HIDE DEF k, move
    <3> QED BY <2>1, <2>4, <3>1, <3>2, <3>3 DEF TxnStep
  <2>6. hold' = [hold EXCEPT ![h] = row]
    BY <2>1, <2>3 DEF HoldTable
  <2>7. row \in HoldRow /\ Fits(row) /\ row.status = "CAPTURED"
    <3> DEFINE amount == hold[h].amount
    <3>1. amount \in Nat
      BY <2>2 DEF HoldRow
    <3>2. /\ row \in HoldRow /\ row.status = "CAPTURED" /\ row.captured = amount
          /\ row.amount = amount
      BY <2>2, <3>1 DEF HoldRow
    <3> HIDE DEF row, amount
    <3> QED BY <3>1, <3>2 DEF Fits
  <2>8. Reserved(row, {}) <= Reserved(hold[h], {})
    BY <2>1, <2>2, <2>7, InvParts DEF Reserved, HoldRow, Fits
  <2> QED BY <2>1, <2>5, <2>6, <2>7, <2>8 DEF HoldStep
<1>8. ASSUME NEW l \in Lots, CreditReward(l)
      PROVE  TxnStep /\ HoldStep
  <2> DEFINE k == <<"claim", l>>
             move == Move(0, Amount[l])
  <2>1. k \in Keys \ Undos
    BY KeyAssumption DEF Keys
  <2>2. /\ k \notin DOMAIN txn /\ Write(k, move, {}, {}) /\ hold' = hold
        /\ Covers(move, hold)
    BY <1>8 DEF CreditReward, Accepts, Fresh
  <2>3. move \in MoveRow /\ Plain(move)
    <3>1. Amount[l] \in Int
      BY WalletAssumption
    <3> QED BY <3>1, MoveType DEF Plain
  <2>4. Covers(move, hold')
    BY <2>2
  <2> HIDE DEF k, move
  <2> QED BY <2>1, <2>2, <2>3, <2>4, GeneratedStep DEF HoldStep
<1>9. ASSUME NEW l \in Lots, ReverseReward(l)
      PROVE  TxnStep /\ HoldStep
  <2> DEFINE k == <<"reverse", l>>
             recoverable == Min({lot[l].remaining, RewardTotal})
             move == Move(0, -recoverable)
  <2>1. k \in Keys \ Undos
    BY KeyAssumption DEF Keys
  <2>2. hold' = hold
    BY <1>9 DEF ReverseReward
  <2>3. recoverable \in Int
    BY TotalsType, MinOfTwo DEF LotsOK
  <2>4. move \in MoveRow /\ Plain(move)
    <3>1. -recoverable \in Int
      BY <2>3
    <3> HIDE DEF recoverable
    <3> QED BY <3>1, MoveType DEF Plain
  <2>5. CASE recoverable > 0
    <3>1. /\ k \notin DOMAIN txn /\ Write(k, move, {}, {l}) /\ Covers(move, hold)
      BY <1>9, <2>5 DEF ReverseReward, Accepts, Fresh
    <3>2. Covers(move, hold')
      BY <2>2, <3>1
    <3> HIDE DEF k, move
    <3> QED BY <2>1, <2>2, <2>4, <3>1, <3>2, GeneratedStep DEF HoldStep
  <2>6. CASE ~(recoverable > 0)
    BY <1>9, <2>2, <2>6 DEF ReverseReward, TxnStep, HoldStep
  <2> QED BY <2>5, <2>6
<1>10. ASSUME NEW l \in Lots, ExpireReward(l)
       PROVE  TxnStep /\ HoldStep
  <2> DEFINE k == <<"expire", l>>
             move == Move(0, -lot[l].remaining)
  <2>1. k \in Keys \ Undos
    BY KeyAssumption DEF Keys
  <2>2. /\ k \notin DOMAIN txn /\ Write(k, move, {}, {l}) /\ hold' = hold
        /\ Covers(move, hold)
    BY <1>10 DEF ExpireReward, Accepts, Fresh
  <2>3. move \in MoveRow /\ Plain(move)
    <3>1. -lot[l].remaining \in Int
      BY DEF LotsOK
    <3> QED BY <3>1, MoveType DEF Plain
  <2>4. Covers(move, hold')
    BY <2>2
  <2> HIDE DEF k, move
  <2> QED BY <2>1, <2>2, <2>3, <2>4, GeneratedStep DEF HoldStep
<1>11. ASSUME NEW l \in Lots, RunOut(l)
       PROVE  TxnStep /\ HoldStep
  BY <1>11 DEF RunOut, TxnStep, HoldStep
<1>12. ASSUME NEW u \in Undos, ReverseFunding(u)
       PROVE  TxnStep /\ HoldStep
  <2>1. UNCHANGED hold
    BY <1>12 DEF ReverseFunding
  <2>2. PICK k \in asked[u] : Posts(u, Negative(EntriesOf(k)), {k})
    BY <1>12 DEF ReverseFunding
  <2> QED BY <2>1, <2>2, UndoStep DEF HoldStep
<1>13. ASSUME NEW k \in DepositKeys
       PROVE  k \in Keys \ Undos
  BY KeyAssumption DEF Keys
<1>14. {"fund", "deduct", "return"} \subseteq Kinds \ {"wallet"}
  BY DEF Kinds
<1>15. ASSUME NEW k \in Keys \ Undos, NEW d \in Deposits, NEW amount \in Int, NEW cash \in Int,
              amount > 0, PostsAbout(k, About(d, "fund", amount, cash), hold), UNCHANGED hold
       PROVE  TxnStep /\ HoldStep
  BY <1>14, <1>15, AboutStep DEF HoldStep
<1>16. ASSUME NEW k \in DepositKeys, NEW d \in Deposits, SettleDeposit(k, d)
       PROVE  TxnStep /\ HoldStep
  <2> DEFINE amount == Min({Max({AvailableCash + CreditLimit, 0}), Outstanding(d)})
  <2>1. AvailableCash + CreditLimit \in Int
    <3>1. CashTotal \in Int /\ CreditLimit \in Int /\ MinimumCash \in Int
      BY TotalsType, WalletAssumption
    <3>2. Held \in Int
      BY HeldForIsSum DEF Held, HeldFor
    <3> QED BY <3>1, <3>2 DEF AvailableCash
  <2>2. amount \in Int
    BY <2>1, OutstandingType, MaxOfTwo, MinOfTwo
  <2>3. /\ amount > 0 /\ PostsAbout(k, About(d, "fund", amount, -amount), hold)
        /\ UNCHANGED hold
    BY <1>16 DEF SettleDeposit
  <2> HIDE DEF amount
  <2>4. -amount \in Int
    BY <2>2
  <2> QED BY <1>13, <1>15, <2>2, <2>3, <2>4
<1>17. ASSUME NEW k \in DepositKeys, NEW d \in Deposits, NEW amount \in 1..Required[d],
              Fund(k, d, amount)
       PROVE  TxnStep /\ HoldStep
  <2>1. amount \in Int /\ amount > 0
    BY WalletAssumption
  <2>2. PostsAbout(k, About(d, "fund", amount, 0), hold) /\ UNCHANGED hold
    BY <1>17 DEF Fund
  <2> QED BY <1>13, <1>15, <2>1, <2>2
<1>18. ASSUME NEW k \in DepositKeys, NEW d \in Deposits, NEW amount \in 1..Required[d],
              NEW forfeiture \in BOOLEAN, Deduct(k, d, amount, forfeiture)
       PROVE  TxnStep /\ HoldStep
  <2>1. -amount \in Int
    BY WalletAssumption
  <2>2. PostsAbout(k, About(d, "deduct", -amount, 0), hold) /\ hold' = hold
    BY <1>18 DEF Deduct
  <2> QED BY <1>13, <1>14, <2>1, <2>2, AboutStep DEF HoldStep
<1>19. ASSUME NEW k \in DepositKeys, NEW d \in Deposits, NEW amount \in 1..Required[d],
              NEW h \in HoldIds, DeductHeld(k, h, d, amount)
       PROVE  TxnStep /\ HoldStep
  <2>1. amount \in Nat /\ -amount \in Int
    BY WalletAssumption
  <2>2. /\ PostsAbout(k, About(d, "deduct", -amount, 0), Captured(h, amount))
        /\ hold' = Captured(h, amount) /\ hold[h].for = {d}
        /\ amount <= hold[h].amount - hold[h].captured
    BY <1>19 DEF DeductHeld, ActiveHolds
  <2>3. TxnStep
    BY <1>13, <1>14, <2>1, <2>2, AboutStep
  <2> DEFINE captured == hold[h].captured + amount
             row == [hold[h] EXCEPT !.captured = captured,
                       !.status = IF captured = hold[h].amount THEN "CAPTURED" ELSE "ACTIVE"]
  <2>4. /\ hold' = [hold EXCEPT ![h] = row] /\ row \in HoldRow /\ row.for = {d}
        /\ hold[h].for # {} => Fits(row)
    BY <2>1, <2>2, CapturedRow
  <2> HIDE DEF row
  <2>5. Reserved(row, {}) <= Reserved(hold[h], {})
    BY <2>2, <2>4 DEF Reserved
  <2> QED BY <2>2, <2>3, <2>4, <2>5 DEF HoldStep
<1>20. ASSUME NEW d \in Deposits, NEW amount \in 1..Required[d], NEW h \in Holds,
              HoldDeposit(h, d, amount)
       PROVE  TxnStep /\ HoldStep
  <2>1. amount \in Nat \ {0} /\ h \in HoldIds
    BY WalletAssumption DEF HoldIds
  <2> QED BY <1>20, <2>1, ReserveStep DEF HoldDeposit, TxnStep
<1>21. ASSUME NEW d \in Deposits, NEW amount \in 1..Required[d], NEW r \in Requests,
              NEW to \in {"cash", "offline"}, RequestReturn(r, d, amount, to)
       PROVE  TxnStep /\ HoldStep
  <2>1. amount \in Nat \ {0} /\ <<"return", r>> \in HoldIds
    BY WalletAssumption DEF HoldIds
  <2> QED BY <1>21, <2>1, ReserveStep DEF RequestReturn, TxnStep
<1>22. ASSUME NEW d \in Deposits, ProviderFunds(d)
       PROVE  TxnStep /\ HoldStep
  <2> DEFINE amount == Min({Required[d], Outstanding(d)})
             k == <<"provider", d>>
  <2>1. amount \in Int
    BY OutstandingType, MinOfTwo, WalletAssumption
  <2>2. amount > 0 /\ PostsAbout(k, About(d, "fund", amount, 0), hold) /\ UNCHANGED hold
    BY <1>22 DEF ProviderFunds
  <2>3. k \in Keys \ Undos
    BY KeyAssumption DEF Keys
  <2> HIDE DEF amount, k
  <2> QED BY <1>15, <2>1, <2>2, <2>3
<1>23. ASSUME NEW d \in Deposits, VoidDeposit(d) \/ Lock(d)
       PROVE  TxnStep /\ HoldStep
  BY <1>23 DEF VoidDeposit, Lock, TxnStep, HoldStep
<1>24. ASSUME NEW h \in HoldIds, ReleaseDepositHold(h) \/ ExpireDepositHold(h)
       PROVE  TxnStep /\ HoldStep
  BY <1>24, EndedStep DEF ReleaseDepositHold, ExpireDepositHold, TxnStep
<1>25. ASSUME NEW r \in Requests, ApproveReturn(r)
       PROVE  TxnStep /\ HoldStep
  BY <1>25, ReturnsFit DEF ApproveReturn, TxnStep, HoldStep
<1>26. ASSUME NEW r \in Requests, CompleteManualReturn(r)
       PROVE  TxnStep /\ HoldStep
  BY <1>26, ReturnsFit DEF CompleteManualReturn
<1> QED
  BY <1>1, <1>2, <1>3, <1>4, <1>5, <1>6, <1>7, <1>8, <1>9, <1>10, <1>11, <1>12, <1>16, <1>17,
     <1>18, <1>19, <1>20, <1>21, <1>22, <1>23, <1>24, <1>25, <1>26
  DEF DepositNext, WalletNext

-----------------------------------------------------------------------------
(* Types *)

LEMMA TxnStepKeeps ==
    ASSUME LedgerInv, TxnStep
    PROVE  TxnOK' /\ LedgerFinite' /\ ReversalsExist' /\ DOMAIN txn \subseteq DOMAIN txn'
<1>1. TxnOK /\ LotsOK /\ LedgerFinite /\ ReversalsExist
  BY InvParts DEF LedgerInv
<1>2. CASE UNCHANGED txn
  BY <1>1, <1>2 DEF TxnOK, LedgerFinite, ReversalsExist
<1>3. ASSUME NEW k \in Keys, NEW move \in MoveRow, NEW of \in SUBSET DOMAIN txn,
             NEW target \in SUBSET Lots, Recorded(k, move, of, target)
      PROVE  TxnOK' /\ LedgerFinite' /\ ReversalsExist' /\ DOMAIN txn \subseteq DOMAIN txn'
  <2>1. /\ k \notin DOMAIN txn /\ Write(k, move, of, target)
        /\ k \notin Undos => of = {}
    BY <1>3 DEF Recorded, Undoes
  <2>2. TxnOK' /\ Added(k, move, of, target)
    BY <1>1, <2>1, WriteAdds
  <2>3. LedgerFinite'
    BY <1>1, <2>1, WriteTotals
  <2>4. /\ DOMAIN txn' = DOMAIN txn \cup {k} /\ txn'[k].of = of
        /\ \A j \in DOMAIN txn : txn'[j].of = txn[j].of
    BY <2>2 DEF Added
  <2>5. ReversalsExist'
    BY <1>1, <2>1, <2>4 DEF ReversalsExist
  <2> QED BY <2>2, <2>3, <2>4, <2>5
<1> QED BY <1>2, <1>3 DEF TxnStep

LEMMA HoldStepKeeps ==
    ASSUME LedgerInv, HoldStep
    PROVE  hold' \in HoldTable /\ HoldsFit' /\ Fitting(hold')
<1>1. CASE UNCHANGED hold
  BY <1>1, InvParts DEF LedgerInv, HoldsFit, Fitting
<1>2. CASE ~UNCHANGED hold
  <2>1. PICK h \in HoldIds, row \in HoldRow : Fits(row) /\ hold' = [hold EXCEPT ![h] = row]
    BY <1>2 DEF HoldStep
  <2>2. hold' \in HoldTable /\ \A i \in HoldIds : Fits(hold'[i])
    BY <2>1, InvParts DEF HoldTable
  <2> QED BY <2>2 DEF HoldsFit, Fits, Fitting
<1> QED BY <1>1, <1>2

-----------------------------------------------------------------------------
(* The actions, in groups *)

Requesting == (\E u \in Undos : (\E k \in Keys : AskReversal(u, k)) \/ GiveUpReversal(u))
              /\ UNCHANGED request
Posting == (\E p \in Payments : \E cash, reward \in -MaxMove..MaxMove : Post(p, cash, reward))
           /\ UNCHANGED request
Undoing == \E u \in Undos : (Reverse(u, Billed) /\ UNCHANGED request) \/ ReverseFunding(u)
HoldingCash ==
    /\ \E h \in Holds : \/ \E amount \in 1..MaxMove : HoldCash(h, amount)
                        \/ \E status \in {"RELEASED", "EXPIRED"} : ReleaseHold(h, status)
                        \/ CaptureHold(h)
    /\ UNCHANGED request
Rewarding ==
    /\ \E l \in Lots : CreditReward(l) \/ ReverseReward(l) \/ ExpireReward(l) \/ RunOut(l)
    /\ UNCHANGED request
Funding ==
    \E d \in Deposits :
        \/ ProviderFunds(d)
        \/ \E k \in DepositKeys : \/ SettleDeposit(k, d)
                                  \/ \E amount \in 1..Required[d] : Fund(k, d, amount)
Deducting ==
    \E d \in Deposits : \E k \in DepositKeys : \E amount \in 1..Required[d] :
        \/ \E forfeiture \in BOOLEAN : Deduct(k, d, amount, forfeiture)
        \/ \E h \in HoldIds : DeductHeld(k, h, d, amount)
Marking == \E d \in Deposits : VoidDeposit(d) \/ Lock(d)
Reserving ==
    \E d \in Deposits : \E amount \in 1..Required[d] :
        \/ \E h \in Holds : HoldDeposit(h, d, amount)
        \/ \E r \in Requests, to \in {"cash", "offline"} : RequestReturn(r, d, amount, to)
Freeing == \E h \in HoldIds : ReleaseDepositHold(h) \/ ExpireDepositHold(h)
Returning == \E r \in Requests : ApproveReturn(r) \/ CompleteManualReturn(r)

LEMMA Groups ==
    ASSUME DepositNext
    PROVE  \/ Requesting \/ Posting \/ Undoing \/ HoldingCash \/ Rewarding \/ Funding
           \/ Deducting \/ Marking \/ Reserving \/ Freeing \/ Returning
BY DEF DepositNext, WalletNext, Requesting, Posting, Undoing, HoldingCash, Rewarding, Funding,
       Deducting, Marking, Reserving, Freeing, Returning

\* What the groups leave alone.
LEMMA Frames ==
    /\ Requesting => UNCHANGED <<txn, hold, rewardVars, deposit, request>>
    /\ Posting => UNCHANGED <<hold, claim, past, asked, deposit, request>>
    /\ Undoing => UNCHANGED <<hold, claim, past, request>>
    /\ HoldingCash => UNCHANGED <<rewardVars, asked, deposit, request>>
    /\ Rewarding => UNCHANGED <<hold, asked, deposit, request>>
    /\ Funding => UNCHANGED <<hold, rewardVars, asked, request>>
    /\ Deducting => UNCHANGED <<rewardVars, asked, request>>
    /\ Marking => UNCHANGED <<txn, hold, rewardVars, asked, request>>
    /\ Reserving => UNCHANGED <<txn, rewardVars, asked>>
    /\ Freeing => UNCHANGED <<txn, rewardVars, asked, deposit, request>>
    /\ Returning => UNCHANGED <<rewardVars, asked>>
<1>1. Requesting => UNCHANGED <<txn, hold, rewardVars, deposit, request>>
  BY DEF Requesting, AskReversal, GiveUpReversal
<1>2. Posting => UNCHANGED <<hold, claim, past, asked, deposit, request>>
  BY DEF Posting, Post
<1>3. Undoing => UNCHANGED <<hold, claim, past, request>>
  BY DEF Undoing, Reverse, ReverseFunding
<1>4. HoldingCash => UNCHANGED <<rewardVars, asked, deposit, request>>
  BY DEF HoldingCash, HoldCash, ReleaseHold, CaptureHold
<1>5. Rewarding => UNCHANGED <<hold, asked, deposit, request>>
  BY DEF Rewarding, CreditReward, ReverseReward, ExpireReward, RunOut
<1>6. Funding => UNCHANGED <<hold, rewardVars, asked, request>>
  BY DEF Funding, ProviderFunds, SettleDeposit, Fund
<1>7. Deducting => UNCHANGED <<rewardVars, asked, request>>
  BY DEF Deducting, Deduct, DeductHeld
<1>8. Marking => UNCHANGED <<txn, hold, rewardVars, asked, request>>
  BY DEF Marking, VoidDeposit, Lock
<1>9. Reserving => UNCHANGED <<txn, rewardVars, asked>>
  BY DEF Reserving, HoldDeposit, RequestReturn
<1>10. Freeing => UNCHANGED <<txn, rewardVars, asked, deposit, request>>
  BY DEF Freeing, ReleaseDepositHold, ExpireDepositHold
<1>11. Returning => UNCHANGED <<rewardVars, asked>>
  BY DEF Returning, ApproveReturn, CompleteManualReturn
<1> QED
  BY <1>1, <1>2, <1>3, <1>4, <1>5, <1>6, <1>7, <1>8, <1>9, <1>10, <1>11

LEMMA LotsKept ==
    ASSUME LedgerInv, DepositNext
    PROVE  /\ LotsOK'
           /\ claim' \in [Lots -> {"APPROVED", "CREDITED", "EXPIRED", "REVERSED"}]
<1> DEFINE Claims == claim' \in [Lots -> {"APPROVED", "CREDITED", "EXPIRED", "REVERSED"}]
<1>0. /\ LotsOK /\ TxnOK /\ LedgerFinite
      /\ lot \in [Lots -> LotRow] /\ past \in SUBSET Lots
      /\ claim \in [Lots -> {"APPROVED", "CREDITED", "EXPIRED", "REVERSED"}]
  BY InvParts, WalletTypeParts DEF LedgerInv, LotsOK, LotRow
<1>1. CASE UNCHANGED rewardVars
  BY <1>0, <1>1 DEF rewardVars, LotsOK
<1>2. ASSUME lot' \in [Lots -> LotRow], past' \in SUBSET Lots
      PROVE  LotsOK'
  BY <1>2 DEF LotsOK, LotRow
<1>3. CASE Posting
  <2>1. PICK p \in Payments, cash \in -MaxMove..MaxMove, reward \in -MaxMove..MaxMove :
           Post(p, cash, reward)
    BY <1>3 DEF Posting
  <2>2. cash \in Int /\ reward \in Int
    BY <2>1, WalletAssumption
  <2>3. lot' = LotsAfter(Move(cash, reward), {}, {}, "CONSUMED") /\ claim' = claim /\ past' = past
    BY <2>1 DEF Post, Posts
  <2>4. lot' \in [Lots -> LotRow]
    BY <1>0, <2>2, <2>3, MoveType, LotsAfterType
  <2> QED BY <1>0, <1>2, <2>3, <2>4
<1>4. CASE Undoing
  <2>0. PICK u \in Undos : Reverse(u, Billed) \/ ReverseFunding(u)
    BY <1>4 DEF Undoing
  <2>1. PICK k \in asked[u] : Posts(u, Negative(EntriesOf(k)), {k})
    BY <2>0 DEF Reverse, ReverseFunding
  <2>2. k \in DOMAIN txn
    BY DEF LedgerInv, ReadsExist
  <2>3. lot' = LotsAfter(Negative(EntriesOf(k)), {k}, {}, "CONSUMED")
    BY <2>1 DEF Posts
  <2>4. lot' \in [Lots -> LotRow]
    BY <1>0, <2>2, <2>3, NegativeType, LotsAfterType
  <2>5. claim' = claim /\ past' = past
    BY <1>4, Frames
  <2> QED BY <1>0, <1>2, <2>4, <2>5
<1>5. ASSUME NEW l \in Lots, CreditReward(l)
      PROVE  LotsOK' /\ Claims
  <2>1. /\ lot' = [lot EXCEPT ![l] = [status |-> "AVAILABLE", remaining |-> Amount[l]]]
        /\ claim' = [claim EXCEPT ![l] = "CREDITED"] /\ past' = past
    BY <1>5 DEF CreditReward
  <2>2. [status |-> "AVAILABLE", remaining |-> Amount[l]] \in LotRow
    BY WalletAssumption DEF LotRow
  <2>3. lot' \in [Lots -> LotRow] /\ Claims
    BY <1>0, <2>1, <2>2
  <2> QED BY <1>0, <1>2, <2>1, <2>3
<1>6. ASSUME NEW l \in Lots, ReverseReward(l)
      PROVE  LotsOK' /\ Claims
  <2>1. /\ lot' = [lot EXCEPT ![l] = [status |-> "REVERSED", remaining |-> 0]]
        /\ claim' = [claim EXCEPT ![l] = "REVERSED"] /\ past' = past
    BY <1>6 DEF ReverseReward
  <2>2. [status |-> "REVERSED", remaining |-> 0] \in LotRow
    BY DEF LotRow
  <2>3. lot' \in [Lots -> LotRow] /\ Claims
    BY <1>0, <2>1, <2>2
  <2> QED BY <1>0, <1>2, <2>1, <2>3
<1>7. ASSUME NEW l \in Lots, ExpireReward(l)
      PROVE  LotsOK' /\ Claims
  <2> DEFINE move == Move(0, -lot[l].remaining)
  <2>1. /\ lot' = LotsAfter(move, {}, {l}, "EXPIRED") /\ past' = past
        /\ claim' = [claim EXCEPT ![l] = IF @ = "CREDITED" THEN "EXPIRED" ELSE @]
    BY <1>7 DEF ExpireReward
  <2>2. -lot[l].remaining \in Int
    BY <1>0 DEF LotRow
  <2>3. move \in MoveRow
    BY <2>2, MoveType
  <2> HIDE DEF move
  <2>4. lot' \in [Lots -> LotRow]
    BY <1>0, <2>1, <2>3, LotsAfterType
  <2>5. Claims
    BY <1>0, <2>1
  <2> QED BY <1>0, <1>2, <2>1, <2>4, <2>5
<1>8. ASSUME NEW l \in Lots, RunOut(l)
      PROVE  LotsOK' /\ Claims
  BY <1>0, <1>2, <1>8 DEF RunOut
<1>9. Rewarding => LotsOK' /\ Claims
  BY <1>5, <1>6, <1>7, <1>8 DEF Rewarding
<1> HIDE DEF Claims
<1>10. UNCHANGED rewardVars \/ Posting \/ Undoing \/ Rewarding
  BY Groups, Frames DEF rewardVars
<1>11. Posting \/ Undoing => Claims
  BY <1>0, Frames DEF Claims
<1>12. UNCHANGED rewardVars => Claims
  BY <1>0 DEF Claims, rewardVars
<1> QED BY <1>1, <1>3, <1>4, <1>9, <1>10, <1>11, <1>12 DEF Claims

\* What a request has read is there and is no reversal.
LEMMA AskedKept ==
    ASSUME LedgerInv, DepositNext
    PROVE  asked' \in [Undos -> SUBSET Keys] /\ ReadsExist'
<1>1. asked \in [Undos -> SUBSET Keys]
  BY WalletTypeParts DEF LedgerInv
<1>2. \A u \in Undos : asked[u] \subseteq Reversible \cap DOMAIN txn
  BY DEF LedgerInv, ReadsExist
<1>3. DOMAIN txn \subseteq DOMAIN txn'
  BY StepShape, TxnStepKeeps
<1>4. \/ UNCHANGED asked
      \/ \E u \in Undos : asked' = [asked EXCEPT ![u] = {}]
      \/ \E u \in Undos, k \in Reversible \cap DOMAIN txn : asked' = [asked EXCEPT ![u] = {k}]
  <2>1. CASE Requesting
    BY <2>1 DEF Requesting, AskReversal, GiveUpReversal
  <2>2. CASE Undoing
    BY <2>2 DEF Undoing, Reverse, ReverseFunding
  <2>3. ~Requesting /\ ~Undoing => UNCHANGED asked
    BY Groups, Frames
  <2> QED BY <2>1, <2>2, <2>3
<1>5. DOMAIN txn \subseteq Keys
  BY InvParts DEF TxnOK
<1> QED BY <1>1, <1>2, <1>3, <1>4, <1>5 DEF ReadsExist

LEMMA StatusType ==
    ASSUME NEW t, NEW d \in Deposits
    PROVE  StatusFrom(t, d) \in {"PENDING", "PARTIALLY_PAID", "PAID", "LOCKED",
                                 "PARTIALLY_DEDUCTED"}
BY DEF StatusFrom

LEMMA DepositRowsKept ==
    ASSUME LedgerInv, DepositNext
    PROVE  deposit' \in [Deposits -> DepositRow]
<1>1. deposit \in [Deposits -> DepositRow]
  BY WalletTypeParts DEF LedgerInv
<1>2. ASSUME NEW d \in Deposits, NEW s, deposit' = [deposit EXCEPT ![d].status = s],
             s \in {"PENDING", "PARTIALLY_PAID", "PAID", "LOCKED", "PARTIALLY_DEDUCTED",
                    "REFUND_REQUESTED", "REFUNDED", "FORFEITED", "CANCELLED"}
      PROVE  deposit' \in [Deposits -> DepositRow]
  BY <1>1, <1>2 DEF DepositRow
<1>3. CASE UNCHANGED deposit
  BY <1>1, <1>3
<1>4. CASE Undoing
  <2>1. ASSUME NEW u \in Undos, Reverse(u, Billed)
        PROVE  deposit' \in [Deposits -> DepositRow]
    <3>1. PICK k \in asked[u] : deposit' = Reconciled(txn', txn[k].for)
      BY <2>1 DEF Reverse
    <3>2. \A d \in Deposits : deposit'[d] \in DepositRow
      <4> TAKE d \in Deposits
      <4>1. deposit'[d] = IF d \in txn[k].for
                          THEN [deposit[d] EXCEPT !.status = StatusFrom(txn', d)]
                          ELSE deposit[d]
        BY <3>1 DEF Reconciled
      <4>2. deposit[d] \in DepositRow
        BY <1>1
      <4> QED BY <4>1, <4>2, StatusType DEF DepositRow
    <3> QED BY <3>1, <3>2 DEF Reconciled
  <2>2. ASSUME NEW u \in Undos, ReverseFunding(u)
        PROVE  deposit' \in [Deposits -> DepositRow]
    <3>1. PICK k \in asked[u] : k \in Billed
                /\ \E d \in txn[k].for : deposit' = [deposit EXCEPT ![d].status =
                            CASE Funded(txn', d) = 0 -> "PENDING"
                              [] Funded(txn', d) >= Required[d] -> "PAID"
                              [] OTHER -> "PARTIALLY_PAID"]
      BY <2>2 DEF ReverseFunding
    <3>2. k \in DOMAIN txn
      BY <3>1 DEF Billed
    <3>3. txn[k].for \subseteq Deposits
      BY <3>2, InvParts DEF TxnOK, TxnRow
    <3> QED BY <1>2, <3>1, <3>3
  <2> QED BY <1>4, <2>1, <2>2 DEF Undoing
<1>5. CASE Funding
  <2>1. PICK d \in Deposits : \E amount : BecomesFunded(d, amount)
    BY <1>5 DEF Funding, Fund, SettleDeposit, ProviderFunds
  <2> QED BY <1>2, <2>1 DEF BecomesFunded
<1>6. CASE Deducting
  BY <1>2, <1>6 DEF Deducting, Deduct, DeductHeld
<1>7. CASE Marking
  <2>1. ASSUME NEW d \in Deposits, Lock(d)
        PROVE  deposit' \in [Deposits -> DepositRow]
    <3>1. [status |-> "LOCKED", locked |-> TRUE] \in DepositRow
      BY DEF DepositRow
    <3> QED BY <1>1, <2>1, <3>1 DEF Lock
  <2>2. ASSUME NEW d \in Deposits, VoidDeposit(d)
        PROVE  deposit' \in [Deposits -> DepositRow]
    BY <1>2, <2>2 DEF VoidDeposit
  <2> QED BY <1>7, <2>1, <2>2 DEF Marking
<1>8. CASE Reserving
  BY <1>2, <1>3, <1>8 DEF Reserving, HoldDeposit, RequestReturn
<1>9. CASE Returning
  <2>1. ASSUME NEW r \in Requests, NEW d \in request[r].for, Completes(r, d)
        PROVE  deposit' \in [Deposits -> DepositRow]
    <3>1. d \in Deposits
      BY InvParts
    <3> QED BY <1>2, <2>1, <3>1 DEF Completes
  <2> QED BY <1>3, <1>9, <2>1 DEF Returning, ApproveReturn, CompleteManualReturn
<1>10. Requesting \/ Posting \/ HoldingCash \/ Rewarding \/ Freeing => UNCHANGED deposit
  BY Frames
<1> QED BY <1>3, <1>4, <1>5, <1>6, <1>7, <1>8, <1>9, <1>10, Groups

RequestRow == [status : {"NONE", "REQUESTED", "PROCESSING", "RETURNED"},
               for : SUBSET Deposits, amount : Nat, to : {"cash", "offline"}]

LEMMA RequestsKept ==
    ASSUME LedgerInv, DepositNext
    PROVE  DepositTypeOK'
<1>1. request \in [Requests -> RequestRow]
  BY DEF LedgerInv, DepositTypeOK, RequestRow
<1>2. request' \in [Requests -> RequestRow] => DepositTypeOK'
  BY DEF DepositTypeOK, RequestRow
<1>3. CASE UNCHANGED request
  BY <1>1, <1>2, <1>3
<1>4. ASSUME NEW r \in Requests, NEW s \in {"PROCESSING", "RETURNED"},
             request' = [request EXCEPT ![r].status = s]
      PROVE  DepositTypeOK'
  BY <1>1, <1>2, <1>4 DEF RequestRow
<1>5. CASE Reserving
  <2>1. ASSUME NEW d \in Deposits, NEW amount \in 1..Required[d], NEW r \in Requests,
               NEW to \in {"cash", "offline"}, RequestReturn(r, d, amount, to)
        PROVE  DepositTypeOK'
    <3>1. amount \in Nat
      BY WalletAssumption
    <3>2. [status |-> "REQUESTED", for |-> {d}, amount |-> amount, to |-> to] \in RequestRow
      BY <3>1 DEF RequestRow
    <3> QED BY <1>1, <1>2, <2>1, <3>2 DEF RequestReturn
  <2> QED BY <1>3, <1>5, <2>1 DEF Reserving, HoldDeposit
<1>6. CASE Returning
  BY <1>4, <1>6 DEF Returning, ApproveReturn, CompleteManualReturn, Completes
<1>7. ~Reserving /\ ~Returning => UNCHANGED request
  BY Groups, Frames
<1> QED BY <1>3, <1>5, <1>6, <1>7

LEMMA LedgerNext ==
    ASSUME LedgerInv, DepositNext
    PROVE  LedgerInv'
<1>1. TxnOK' /\ LedgerFinite' /\ ReversalsExist' /\ hold' \in HoldTable /\ HoldsFit'
  BY StepShape, TxnStepKeeps, HoldStepKeeps
<1>2. /\ LotsOK' /\ claim' \in [Lots -> {"APPROVED", "CREDITED", "EXPIRED", "REVERSED"}]
      /\ asked' \in [Undos -> SUBSET Keys] /\ ReadsExist'
      /\ deposit' \in [Deposits -> DepositRow] /\ DepositTypeOK'
  BY LotsKept, AskedKept, DepositRowsKept, RequestsKept
<1>3. WalletTypeOK'
  BY <1>1, <1>2 DEF WalletTypeOK, TxnOK, TxnRow, Kinds, LotsOK, HoldTable, HoldRow, DepositRow
<1> QED BY <1>1, <1>2, <1>3 DEF LedgerInv

LEMMA NothingPosted ==
    ASSUME DepositInit
    PROVE  /\ DOMAIN txn = {} /\ CashTotal = 0 /\ RewardTotal = 0 /\ DepositTotal = 0
           /\ \A X : HeldFor(hold, X) = 0
<1>1. DOMAIN txn = {}
  BY DEF DepositInit, WalletInit
<1>2. CashTotal = 0 /\ RewardTotal = 0 /\ DepositTotal = 0
  <2> DEFINE c == [k \in DOMAIN txn |-> txn[k].cash]
             r == [k \in DOMAIN txn |-> txn[k].reward]
             d == [k \in DOMAIN txn |-> txn[k].deposit]
  <2>1. /\ CashTotal = SumFunctionOnSet(c, {}) /\ RewardTotal = SumFunctionOnSet(r, {})
        /\ DepositTotal = SumFunctionOnSet(d, {})
    BY <1>1 DEF CashTotal, RewardTotal, DepositTotal, SumFunction
  <2> HIDE DEF c, r, d
  <2> QED BY <2>1, SumOfNone
<1>3. ASSUME NEW X PROVE HeldFor(hold, X) = 0
  <2> DEFINE f == [h \in HoldIds |-> hold[h].amount - hold[h].captured]
  <2>1. ActiveHolds(hold, X) = {}
    BY DEF DepositInit, WalletInit, NoHold, ActiveHolds
  <2>2. HeldFor(hold, X) = SumFunctionOnSet(f, {})
    BY <2>1 DEF HeldFor, Remainder
  <2> HIDE DEF f
  <2> QED BY <2>2, SumOfNone
<1> QED BY <1>1, <1>2, <1>3

LEMMA LedgerStarts ==
    ASSUME DepositInit
    PROVE  LedgerInv
<1> USE DEF DepositInit, WalletInit
<1>1. DOMAIN txn = {} /\ LedgerFinite
  BY NothingPosted, FS_EmptySet DEF LedgerFinite
<1>2. TxnOK /\ ReversalsExist
  BY <1>1 DEF TxnOK, ReversalsExist
<1>3. NoHold \in HoldRow /\ Fits(NoHold)
  BY DEF NoHold, HoldRow, Fits
<1>4. hold \in HoldTable /\ HoldsFit
  BY <1>3 DEF HoldTable, HoldsFit, Fits
<1>5. LotsOK
  BY DEF LotsOK
<1>6. deposit \in [Deposits -> DepositRow]
  BY DEF DepositRow
<1>7. asked \in [Undos -> SUBSET Keys] /\ ReadsExist
  BY DEF ReadsExist
<1>8. claim \in [Lots -> {"APPROVED", "CREDITED", "EXPIRED", "REVERSED"}]
  OBVIOUS
<1>9. DepositTypeOK
  BY DEF DepositTypeOK, Idle
<1> QED BY <1>1, <1>2, <1>4, <1>5, <1>6, <1>7, <1>8, <1>9, WalletTypeParts DEF LedgerInv

LEMMA LedgerStays ==
    ASSUME LedgerInv, UNCHANGED depositVars
    PROVE  LedgerInv'
<1> USE DEF depositVars, walletVars, rewardVars
<1>1. TxnOK' /\ LotsOK' /\ LedgerFinite' /\ ReversalsExist' /\ ReadsExist' /\ HoldsFit'
  BY InvParts DEF LedgerInv, TxnOK, LotsOK, LedgerFinite, ReversalsExist, ReadsExist, HoldsFit
<1>2. WalletTypeOK' /\ DepositTypeOK'
  BY DEF LedgerInv, WalletTypeOK, DepositTypeOK
<1> QED BY <1>1, <1>2 DEF LedgerInv

\* The rows of the wallet keep their types, and what the other proofs need of them.
THEOREM WalletTypes == DepositSpec => []LedgerInv
<1>1. DepositInit => LedgerInv
  BY LedgerStarts
<1>2. LedgerInv /\ [DepositNext]_depositVars => LedgerInv'
  BY LedgerNext, LedgerStays
<1> QED BY <1>1, <1>2, PTL DEF DepositSpec

-----------------------------------------------------------------------------
(* No account is overdrawn *)

LEMMA NoOverdraftNext ==
    ASSUME LedgerInv, NeverOverdrawn, DepositNext
    PROVE  NeverOverdrawn'
<1>1. /\ TxnOK /\ LotsOK /\ LedgerFinite /\ hold \in HoldTable
      /\ hold' \in HoldTable /\ Fitting(hold')
  BY InvParts, StepShape, HoldStepKeeps
<1>2. CashTotal \in Int /\ RewardTotal \in Int /\ DepositTotal \in Int
  BY <1>1, TotalsType
<1>3. Held \in Int /\ Held' \in Int /\ Held = HeldFor(hold, {}) /\ Held' = HeldFor(hold', {})
  BY <1>1, HeldForIsSum DEF Held, HeldFor
<1>4. CreditLimit \in Nat /\ MinimumCash \in Nat
  BY WalletAssumption
<1>5. CashTotal - Held >= -CreditLimit /\ RewardTotal >= 0 /\ DepositTotal >= 0
  BY DEF NeverOverdrawn
<1>6. \/ Held' <= Held
      \/ UNCHANGED txn /\ AvailableCash >= Held' - Held
  <2>1. CASE UNCHANGED hold
    BY <1>3, <2>1
  <2>2. ASSUME NEW h \in HoldIds, NEW row \in HoldRow, hold' = [hold EXCEPT ![h] = row],
               \/ Reserved(row, {}) <= Reserved(hold[h], {})
               \/ /\ UNCHANGED txn
                  /\ AvailableCash >= Reserved(row, {}) - Reserved(hold[h], {})
        PROVE  \/ Held' <= Held
               \/ UNCHANGED txn /\ AvailableCash >= Held' - Held
    <3>1. Held' = Held + Reserved(row, {}) - Reserved(hold[h], {})
      BY <1>1, <1>3, <2>2, HeldChanges
    <3>2. Reserved(row, {}) \in Int /\ Reserved(hold[h], {}) \in Int
      BY <1>1 DEF Reserved, HoldRow, HoldTable
    <3>3. Reserved(row, {}) - Reserved(hold[h], {}) = Held' - Held
      BY <1>3, <3>1, <3>2
    <3> QED BY <1>3, <2>2, <3>1, <3>2, <3>3
  <2> QED BY <2>1, <2>2, StepShape DEF HoldStep
<1>7. CASE UNCHANGED txn
  <2>1. CashTotal' = CashTotal /\ RewardTotal' = RewardTotal /\ DepositTotal' = DepositTotal
    BY <1>7 DEF CashTotal, RewardTotal, DepositTotal
  <2>2. CashTotal - Held' >= -CreditLimit
    <3>1. AvailableCash = CashTotal - Held - MinimumCash
      BY DEF AvailableCash
    <3> QED BY <1>2, <1>3, <1>4, <1>5, <1>6, <3>1
  <2> QED BY <1>5, <2>1, <2>2 DEF NeverOverdrawn
<1>8. ASSUME NEW k \in Keys, NEW move \in MoveRow, NEW of \in SUBSET DOMAIN txn,
             NEW target \in SUBSET Lots, Recorded(k, move, of, target)
      PROVE  /\ CashTotal' = CashTotal + move.cash /\ RewardTotal' = RewardTotal + move.reward
             /\ DepositTotal' = DepositTotal + move.deposit /\ ~UNCHANGED txn
  <2>1. k \notin DOMAIN txn /\ Write(k, move, of, target)
    BY <1>8 DEF Recorded
  <2>2. DOMAIN txn' = DOMAIN txn \cup {k}
    BY <2>1 DEF Write
  <2> QED BY <1>1, <2>1, <2>2, WriteTotals
<1>9. ASSUME NEW k \in Keys, NEW move \in MoveRow, NEW of \in SUBSET DOMAIN txn,
             NEW target \in SUBSET Lots, Recorded(k, move, of, target), Covers(move, hold')
      PROVE  NeverOverdrawn'
  <2>1. /\ CashTotal + move.cash - Held >= -CreditLimit
        /\ RewardTotal + move.reward >= 0
        /\ DepositTotal + move.deposit >= 0
    BY <1>1, <1>9, CoversMeans
  <2>2. Held' <= Held
    BY <1>6, <1>8, <1>9
  <2>3. move.cash \in Int /\ move.reward \in Int /\ move.deposit \in Int
    BY DEF MoveRow
  <2>4. CashTotal + move.cash - Held' >= -CreditLimit
    BY <1>2, <1>3, <1>4, <2>1, <2>2, <2>3
  <2>5. /\ CashTotal' = CashTotal + move.cash /\ RewardTotal' = RewardTotal + move.reward
        /\ DepositTotal' = DepositTotal + move.deposit
    BY <1>8, <1>9
  <2>6. CashTotal' - Held' >= -CreditLimit /\ RewardTotal' >= 0 /\ DepositTotal' >= 0
    BY <1>2, <1>3, <1>4, <2>1, <2>3, <2>4, <2>5
  <2> QED BY <2>6 DEF NeverOverdrawn
<1>10. ASSUME NEW h \in Holds, CaptureHold(h), NEW k \in Keys, NEW of \in SUBSET DOMAIN txn,
              NEW target \in SUBSET Lots, Recorded(k, Move(-hold[h].amount, 0), of, target)
       PROVE  NeverOverdrawn'
  <2> DEFINE amount == hold[h].amount
             row == [hold[h] EXCEPT !.status = "CAPTURED", !.captured = amount]
  <2>1. h \in HoldIds
    BY DEF HoldIds
  <2>2. /\ hold[h] \in HoldRow /\ Fits(hold[h]) /\ amount \in Nat
        /\ hold[h].status = "ACTIVE" /\ hold[h].for = {}
    BY <1>10, <2>1, InvParts DEF CaptureHold, HoldRow
  <2>3. Reserved(hold[h], {}) = amount
    BY <2>2 DEF Reserved, Fits
  <2>4. hold' = [hold EXCEPT ![h] = row]
    BY <1>1, <1>10, <2>1 DEF CaptureHold, HoldTable
  <2>5. row \in HoldRow /\ row.status = "CAPTURED"
    BY <2>2 DEF HoldRow
  <2>6. Reserved(row, {}) = 0
    BY <2>5 DEF Reserved
  <2> HIDE DEF row, amount
  <2>7. Held' = Held - amount
    <3>1. HeldFor(hold', {}) = HeldFor(hold, {}) + Reserved(row, {}) - Reserved(hold[h], {})
      BY <1>1, <2>1, <2>4, <2>5, HeldChanges
    <3> QED BY <1>3, <2>2, <2>3, <2>6, <3>1
  <2>8. /\ Move(-amount, 0) \in MoveRow /\ Move(-amount, 0).cash = -amount
        /\ Move(-amount, 0).reward = 0 /\ Move(-amount, 0).deposit = 0
    <3>1. -amount \in Int
      BY <2>2
    <3> QED BY <3>1, MoveType
  <2>9. Recorded(k, Move(-amount, 0), of, target)
    BY <1>10 DEF amount
  <2>10. /\ CashTotal' = CashTotal + (-amount) /\ RewardTotal' = RewardTotal + 0
         /\ DepositTotal' = DepositTotal + 0
    BY <1>8, <2>8, <2>9
  <2>11. CashTotal' - Held' >= -CreditLimit /\ RewardTotal' >= 0 /\ DepositTotal' >= 0
    BY <1>2, <1>3, <1>4, <1>5, <2>2, <2>7, <2>10
  <2> QED BY <2>11 DEF NeverOverdrawn
<1>11. TxnStep
  BY StepShape
<1> QED BY <1>7, <1>9, <1>10, <1>11 DEF TxnStep

\* Cash that is not held never falls below minus the credit limit of the policy, rewards
\* and the account of the deposits never below zero (wallet.service.ts lines 91-97).
THEOREM NoAccountIsOverdrawn == DepositSpec => []NeverOverdrawn
<1>1. DepositInit => NeverOverdrawn
  <2> SUFFICES ASSUME DepositInit PROVE NeverOverdrawn
    OBVIOUS
  <2>1. CashTotal = 0 /\ RewardTotal = 0 /\ DepositTotal = 0 /\ Held = 0
    BY NothingPosted DEF Held, HeldFor
  <2> QED BY <2>1, WalletAssumption DEF NeverOverdrawn
<1>2. LedgerInv /\ NeverOverdrawn /\ [DepositNext]_depositVars => NeverOverdrawn'
  <2>1. NeverOverdrawn /\ UNCHANGED depositVars => NeverOverdrawn'
    BY DEF NeverOverdrawn, depositVars, walletVars, CashTotal, Held, RewardTotal, DepositTotal,
           ActiveHolds, Remainder
  <2> QED BY <2>1, NoOverdraftNext
<1> QED BY <1>1, <1>2, WalletTypes, PTL DEF DepositSpec

-----------------------------------------------------------------------------
(* Transactions are reversed once *)

Reversals(k) == {u \in DOMAIN txn : txn[u].of = {k}}

LEMMA ReversedOnceNext ==
    ASSUME LedgerInv, ReversedOnce, DepositNext
    PROVE  ReversedOnce'
<1>1. TxnOK /\ LotsOK /\ ReversalsExist
  BY InvParts DEF LedgerInv
<1>2. \A j \in DOMAIN txn : IF txn[j].status = "REVERSED"
                            THEN \E u \in Reversals(j) : Reversals(j) = {u}
                            ELSE Reversals(j) = {}
  BY DEF ReversedOnce, Reversals
<1>3. CASE UNCHANGED txn
  BY <1>3 DEF ReversedOnce
<1>4. ASSUME NEW k \in Keys, NEW move \in MoveRow, NEW of \in SUBSET DOMAIN txn,
             NEW target \in SUBSET Lots, Recorded(k, move, of, target)
      PROVE  ReversedOnce'
  <2>1. /\ k \notin DOMAIN txn /\ Write(k, move, of, target)
        /\ of = {} \/ \E o \in DOMAIN txn : of = {o} /\ txn[o].status = "POSTED"
    BY <1>4 DEF Recorded, Undoes
  <2>2. Added(k, move, of, target)
    BY <1>1, <2>1, WriteAdds
  <2>3. /\ DOMAIN txn' = DOMAIN txn \cup {k}
        /\ txn'[k].status = "POSTED" /\ txn'[k].of = of
        /\ \A j \in DOMAIN txn : /\ txn'[j].status = IF j \in of THEN "REVERSED" ELSE txn[j].status
                                 /\ txn'[j].of = txn[j].of
    BY <2>2 DEF Added
  <2>4. \A j : Reversals(j)' = IF of = {j} THEN Reversals(j) \cup {k} ELSE Reversals(j)
    BY <2>1, <2>3 DEF Reversals
  <2>5. Reversals(k)' = {}
    <3>1. \A u \in DOMAIN txn' : k \notin txn'[u].of
      BY <1>1, <2>1, <2>3 DEF ReversalsExist
    <3> QED BY <3>1 DEF Reversals
  <2>6. ASSUME NEW j \in DOMAIN txn
        PROVE  IF txn'[j].status = "REVERSED"
               THEN \E u \in Reversals(j)' : Reversals(j)' = {u}
               ELSE Reversals(j)' = {}
    <3>1. CASE of = {j}
      <4>1. txn[j].status = "POSTED"
        BY <2>1, <3>1
      <4>2. Reversals(j)' = {k} /\ txn'[j].status = "REVERSED"
        BY <1>2, <2>3, <2>4, <3>1, <4>1
      <4> QED BY <4>2
    <3>2. CASE of # {j}
      <4>1. Reversals(j)' = Reversals(j) /\ txn'[j].status = txn[j].status
        BY <2>1, <2>3, <2>4, <3>2
      <4> QED BY <1>2, <4>1
    <3> QED BY <3>1, <3>2
  <2>7. \A j \in DOMAIN txn' : IF txn'[j].status = "REVERSED"
                               THEN \E u \in Reversals(j)' : Reversals(j)' = {u}
                               ELSE Reversals(j)' = {}
    BY <2>3, <2>5, <2>6
  <2> QED BY <2>7 DEF ReversedOnce, Reversals
<1> QED BY <1>3, <1>4, StepShape DEF TxnStep

\* A reversed transaction has exactly one reversal, any other none.
THEOREM ReversalsAreUnique == DepositSpec => []ReversedOnce
<1>1. DepositInit => ReversedOnce
  BY NothingPosted DEF ReversedOnce
<1>2. LedgerInv /\ ReversedOnce /\ [DepositNext]_depositVars => ReversedOnce'
  <2>1. ReversedOnce /\ UNCHANGED depositVars => ReversedOnce'
    BY DEF ReversedOnce, depositVars, walletVars
  <2> QED BY <2>1, ReversedOnceNext
<1> QED BY <1>1, <1>2, WalletTypes, PTL DEF DepositSpec

-----------------------------------------------------------------------------
(* What a posting does to the entries of the deposits *)

LEMMA PlainEntries ==
    ASSUME LedgerInv, NEW k \in Keys, k \notin DOMAIN txn, NEW move \in MoveRow, NEW target,
           Write(k, move, {}, target), NEW d
    PROVE  /\ \A kinds : /\ EntriesFor(txn, d, kinds) \in Int
                         /\ EntriesFor(txn', d, kinds)
                              = EntriesFor(txn, d, kinds) + Share(move, d, kinds)
           /\ NeverReversed(d)' <=> NeverReversed(d)
<1>1. TxnOK /\ LotsOK /\ LedgerFinite /\ {} \in SUBSET DOMAIN txn
  BY InvParts
<1>2. ASSUME NEW kinds
      PROVE  /\ EntriesFor(txn, d, kinds) \in Int
             /\ EntriesFor(txn', d, kinds) = EntriesFor(txn, d, kinds) + Share(move, d, kinds)
  BY <1>1, WriteEntries
<1>3. /\ DOMAIN txn' = DOMAIN txn \cup {k} /\ txn'[k].status = "POSTED"
      /\ \A j \in DOMAIN txn : txn'[j].for = txn[j].for /\ txn'[j].status = txn[j].status
  <2>1. Added(k, move, {}, target)
    BY <1>1, WriteAdds
  <2> QED BY <2>1 DEF Added
<1>4. NeverReversed(d)' <=> NeverReversed(d)
  BY <1>3 DEF NeverReversed
<1> QED BY <1>2, <1>4

\* Postings of cash and rewards leave the deposits alone.
LEMMA WalletEntries ==
    ASSUME LedgerInv, NEW k \in Keys, k \notin DOMAIN txn, NEW cash \in Int, NEW reward \in Int,
           NEW target, Write(k, Move(cash, reward), {}, target), NEW d
    PROVE  /\ \A kinds : /\ EntriesFor(txn, d, kinds) \in Int
                         /\ EntriesFor(txn', d, kinds) = EntriesFor(txn, d, kinds)
           /\ NeverReversed(d)' <=> NeverReversed(d)
<1> DEFINE move == Move(cash, reward)
<1>1. move \in MoveRow /\ move.for = {}
  BY MoveType
<1> HIDE DEF move
<1>2. Write(k, move, {}, target)
  BY DEF move
<1>3. \A kinds : Share(move, d, kinds) = 0
  BY <1>1 DEF Share
<1>4. /\ \A kinds : /\ EntriesFor(txn, d, kinds) \in Int
                    /\ EntriesFor(txn', d, kinds)
                         = EntriesFor(txn, d, kinds) + Share(move, d, kinds)
      /\ NeverReversed(d)' <=> NeverReversed(d)
  BY <1>1, <1>2, PlainEntries
<1> QED BY <1>3, <1>4

LEMMA AboutEntries ==
    ASSUME LedgerInv, NEW k \in Keys, NEW d \in Deposits, NEW kind \in Kinds,
           NEW amount \in Int, NEW cash \in Int, NEW holds,
           PostsAbout(k, About(d, kind, amount, cash), holds), NEW e
    PROVE  /\ \A kinds : /\ EntriesFor(txn, e, kinds) \in Int
                         /\ EntriesFor(txn', e, kinds) = EntriesFor(txn, e, kinds)
                              + (IF e = d /\ kind \in kinds THEN amount ELSE 0)
           /\ NeverReversed(e)' <=> NeverReversed(e)
<1> DEFINE move == About(d, kind, amount, cash)
<1>1. move \in MoveRow /\ move.for = {d} /\ move.kind = kind /\ move.deposit = amount
  BY AboutType
<1>2. Write(k, move, {}, {}) /\ k \notin DOMAIN txn
  BY DEF PostsAbout, Fresh
<1> HIDE DEF move
<1>3. \A kinds : Share(move, e, kinds) = IF e = d /\ kind \in kinds THEN amount ELSE 0
  BY <1>1 DEF Share
<1>4. /\ \A kinds : /\ EntriesFor(txn, e, kinds) \in Int
                    /\ EntriesFor(txn', e, kinds)
                         = EntriesFor(txn, e, kinds) + Share(move, e, kinds)
      /\ NeverReversed(e)' <=> NeverReversed(e)
  BY <1>1, <1>2, PlainEntries
<1> QED BY <1>3, <1>4

LEMMA UndoEntries ==
    ASSUME LedgerInv, NEW u \in Undos, NEW k \in asked[u], Posts(u, Negative(EntriesOf(k)), {k}),
           NEW e
    PROVE  /\ \A kinds : /\ EntriesFor(txn, e, kinds) \in Int
                         /\ EntriesFor(txn', e, kinds) = EntriesFor(txn, e, kinds)
                              - (IF txn[k].for = {e} /\ txn[k].kind \in kinds
                                 THEN txn[k].deposit ELSE 0)
           /\ NeverReversed(e)' => NeverReversed(e) /\ txn[k].for # {e}
<1> DEFINE move == Negative(EntriesOf(k))
<1>1. /\ TxnOK /\ LotsOK /\ LedgerFinite /\ u \in Keys /\ k \in DOMAIN txn
      /\ {k} \in SUBSET DOMAIN txn
  BY InvParts DEF LedgerInv, ReadsExist, Keys
<1>2. Write(u, move, {k}, {}) /\ u \notin DOMAIN txn
  BY DEF Posts, Accepts, Fresh
<1>3. move \in MoveRow /\ move.for = txn[k].for /\ move.kind = txn[k].kind
      /\ move.deposit = -txn[k].deposit /\ txn[k].deposit \in Int
  BY <1>1, NegativeType DEF TxnOK, TxnRow
<1> HIDE DEF move
<1>4. ASSUME NEW kinds
      PROVE  /\ EntriesFor(txn, e, kinds) \in Int
             /\ EntriesFor(txn', e, kinds) = EntriesFor(txn, e, kinds) + Share(move, e, kinds)
  BY <1>1, <1>2, <1>3, WriteEntries
<1>5. ASSUME NEW kinds
      PROVE  /\ EntriesFor(txn, e, kinds) \in Int
             /\ EntriesFor(txn', e, kinds) = EntriesFor(txn, e, kinds)
                  - (IF txn[k].for = {e} /\ txn[k].kind \in kinds
                     THEN txn[k].deposit ELSE 0)
  BY <1>3, <1>4 DEF Share
<1>6. /\ DOMAIN txn' = DOMAIN txn \cup {u}
      /\ \A j \in DOMAIN txn : /\ txn'[j].for = txn[j].for
                               /\ txn'[j].status = IF j \in {k} THEN "REVERSED" ELSE txn[j].status
  <2>1. Added(u, move, {k}, {})
    BY <1>1, <1>2, <1>3, WriteAdds
  <2> QED BY <2>1 DEF Added
<1>7. NeverReversed(e)' => NeverReversed(e) /\ txn[k].for # {e}
  <2> SUFFICES ASSUME NeverReversed(e)'
               PROVE  NeverReversed(e) /\ txn[k].for # {e}
    OBVIOUS
  <2>1. \A j \in DOMAIN txn : txn[j].for = {e} => txn'[j].status # "REVERSED"
    BY <1>6 DEF NeverReversed
  <2> QED BY <1>1, <1>6, <2>1 DEF NeverReversed
<1> QED BY <1>5, <1>7

\* The rows of cash, rewards and requests to reverse do not touch the deposits.
LEMMA EntriesAside ==
    ASSUME LedgerInv, Requesting \/ Posting \/ HoldingCash \/ Rewarding, NEW d
    PROVE  /\ \A kinds : /\ EntriesFor(txn, d, kinds) \in Int
                         /\ EntriesFor(txn', d, kinds) = EntriesFor(txn, d, kinds)
           /\ NeverReversed(d)' <=> NeverReversed(d)
<1> DEFINE Goal == /\ \A kinds : /\ EntriesFor(txn, d, kinds) \in Int
                                 /\ EntriesFor(txn', d, kinds) = EntriesFor(txn, d, kinds)
                   /\ NeverReversed(d)' <=> NeverReversed(d)
<1>1. TxnOK /\ LedgerFinite /\ LotsOK
  BY InvParts
<1>2. CASE UNCHANGED txn
  BY <1>1, <1>2, EntriesType DEF NeverReversed
<1>3. ASSUME NEW k \in Keys, k \notin DOMAIN txn, NEW cash \in Int, NEW reward \in Int,
             NEW target, Write(k, Move(cash, reward), {}, target)
      PROVE  Goal
  BY <1>3, WalletEntries
<1> HIDE DEF Goal
<1>4. CASE Requesting
  BY <1>2, <1>4, Frames DEF Goal
<1>5. CASE Posting
  <2>1. PICK p \in Payments, cash \in -MaxMove..MaxMove, reward \in -MaxMove..MaxMove :
           Post(p, cash, reward)
    BY <1>5 DEF Posting
  <2>2. cash \in Int /\ reward \in Int /\ p \in Keys
    BY <2>1, WalletAssumption DEF Keys
  <2>3. p \notin DOMAIN txn /\ Write(p, Move(cash, reward), {}, {})
    BY <2>1 DEF Post, Posts, Accepts, Fresh
  <2>4. Goal
    BY <1>3, <2>2, <2>3
  <2> QED BY <2>4 DEF Goal
<1>6. CASE HoldingCash
  <2>1. CASE UNCHANGED txn
    BY <1>2, <2>1
  <2>2. ASSUME NEW h \in Holds, CaptureHold(h)
        PROVE  Goal
    <3> DEFINE k == <<"capture", h>>
    <3>1. k \in Keys /\ -hold[h].amount \in Int
      BY InvParts DEF Keys, HoldIds, HoldRow
    <3>2. k \notin DOMAIN txn /\ Write(k, Move(-hold[h].amount, 0), {}, {})
      BY <2>2 DEF CaptureHold, Fresh
    <3> HIDE DEF k
    <3> QED BY <1>3, <3>1, <3>2
  <2> QED BY <1>6, <2>1, <2>2 DEF HoldingCash, HoldCash, ReleaseHold, Goal
<1>7. CASE Rewarding
  <2>1. ASSUME NEW l \in Lots, CreditReward(l)
        PROVE  Goal
    <3> DEFINE k == <<"claim", l>>
    <3>1. k \in Keys /\ Amount[l] \in Int
      BY WalletAssumption DEF Keys
    <3>2. k \notin DOMAIN txn /\ Write(k, Move(0, Amount[l]), {}, {})
      BY <2>1 DEF CreditReward, Accepts, Fresh
    <3> HIDE DEF k
    <3> QED BY <1>3, <3>1, <3>2
  <2>2. ASSUME NEW l \in Lots, ReverseReward(l), ~UNCHANGED txn
        PROVE  Goal
    <3> DEFINE k == <<"reverse", l>>
               recoverable == Min({lot[l].remaining, RewardTotal})
    <3>1. recoverable \in Int
      BY <1>1, TotalsType, MinOfTwo DEF LotsOK
    <3>2. k \notin DOMAIN txn /\ Write(k, Move(0, -recoverable), {}, {l})
      BY <2>2 DEF ReverseReward, Accepts, Fresh
    <3>3. k \in Keys
      BY DEF Keys
    <3> HIDE DEF k, recoverable
    <3>4. -recoverable \in Int
      BY <3>1
    <3> QED BY <1>3, <3>2, <3>3, <3>4
  <2>3. ASSUME NEW l \in Lots, ExpireReward(l)
        PROVE  Goal
    <3> DEFINE k == <<"expire", l>>
    <3>1. k \in Keys /\ -lot[l].remaining \in Int
      BY <1>1 DEF Keys, LotsOK
    <3>2. k \notin DOMAIN txn /\ Write(k, Move(0, -lot[l].remaining), {}, {l})
      BY <2>3 DEF ExpireReward, Accepts, Fresh
    <3> HIDE DEF k
    <3> QED BY <1>3, <3>1, <3>2
  <2>4. UNCHANGED txn => Goal
    BY <1>2 DEF Goal
  <2>5. ASSUME NEW l \in Lots, RunOut(l)
        PROVE  UNCHANGED txn
    BY <2>5 DEF RunOut
  <2> QED BY <1>7, <2>1, <2>2, <2>3, <2>4, <2>5 DEF Rewarding, Goal
<1> QED BY <1>4, <1>5, <1>6, <1>7

\* Neither do holds of cash touch what is held of a deposit.
LEMMA HoldsAside ==
    ASSUME LedgerInv, Requesting \/ Posting \/ HoldingCash \/ Rewarding
    PROVE  /\ \A d \in Deposits : HeldOn(hold', d) = HeldOn(hold, d)
           /\ \A r \in Requests : hold'[<<"return", r>>] = hold[<<"return", r>>]
<1>1. hold \in HoldTable /\ Holds \subseteq HoldIds
  BY InvParts DEF HoldIds
<1>2. CASE UNCHANGED hold
  BY <1>2
<1>3. ASSUME NEW h \in Holds, NEW row \in HoldRow, row.for = {}, hold[h].for = {}
                                                        \/ hold[h].status = "NONE",
             hold' = [hold EXCEPT ![h] = row]
      PROVE  /\ \A d \in Deposits : HeldOn(hold', d) = HeldOn(hold, d)
             /\ \A r \in Requests : hold'[<<"return", r>>] = hold[<<"return", r>>]
  <2>1. ASSUME NEW d \in Deposits
        PROVE  HeldOn(hold', d) = HeldOn(hold, d)
    <3>1. HeldFor(hold', {d}) = HeldFor(hold, {d}) + Reserved(row, {d}) - Reserved(hold[h], {d})
      BY <1>1, <1>3, HeldChanges
    <3>2. Reserved(row, {d}) = 0 /\ Reserved(hold[h], {d}) = 0
      BY <1>3 DEF Reserved
    <3>3. HeldFor(hold, {d}) \in Int
      BY <1>1, HeldForIsSum
    <3>4. HeldFor(hold', {d}) = HeldFor(hold, {d})
      BY <3>1, <3>2, <3>3
    <3> QED BY <3>4 DEF HeldOn, HeldFor
  <2>2. ASSUME NEW r \in Requests
        PROVE  hold'[<<"return", r>>] = hold[<<"return", r>>]
    <3>1. <<"return", r>> # h /\ <<"return", r>> \in HoldIds
      BY KeyAssumption DEF HoldIds
    <3> QED BY <1>1, <1>3, <3>1 DEF HoldTable
  <2> QED BY <2>1, <2>2
<1>4. CASE HoldingCash
  <2>1. ASSUME NEW h \in Holds, NEW amount \in 1..MaxMove, HoldCash(h, amount)
        PROVE  \E row \in HoldRow : row.for = {} /\ hold[h].status = "NONE"
                                    /\ hold' = [hold EXCEPT ![h] = row]
    <3>1. amount \in Nat \ {0}
      BY WalletAssumption
    <3> QED BY <2>1, <3>1, NewCashHoldRow DEF HoldCash
  <2>2. ASSUME NEW h \in Holds, NEW status \in {"RELEASED", "EXPIRED"}, ReleaseHold(h, status)
        PROVE  \E row \in HoldRow : row.for = {} /\ hold[h].for = {}
                                    /\ hold' = [hold EXCEPT ![h] = row]
    BY <1>1, <2>2, EndedRow DEF ReleaseHold
  <2>3. ASSUME NEW h \in Holds, CaptureHold(h)
        PROVE  \E row \in HoldRow : row.for = {} /\ hold[h].for = {}
                                    /\ hold' = [hold EXCEPT ![h] = row]
    <3> DEFINE row == [hold[h] EXCEPT !.status = "CAPTURED", !.captured = hold[h].amount]
    <3>1. hold[h] \in HoldRow
      BY InvParts DEF HoldIds
    <3>2. hold' = [hold EXCEPT ![h] = row] /\ hold[h].for = {}
      BY <1>1, <2>3 DEF CaptureHold, HoldTable
    <3>3. row \in HoldRow /\ row.for = hold[h].for
      BY <3>1 DEF HoldRow
    <3> QED BY <3>2, <3>3
  <2> QED BY <1>3, <1>4, <2>1, <2>2, <2>3 DEF HoldingCash
<1> QED BY <1>2, <1>4, Frames

LEMMA KindsFitNext ==
    ASSUME LedgerInv, KindsFit, DepositNext
    PROVE  KindsFit'
<1>1. TxnOK /\ LotsOK
  BY InvParts
<1>2. CASE UNCHANGED txn
  BY <1>2 DEF KindsFit
<1>3. ASSUME NEW k \in Keys, NEW move \in MoveRow, NEW of \in SUBSET DOMAIN txn,
             NEW target \in SUBSET Lots, Recorded(k, move, of, target)
      PROVE  KindsFit'
  <2>1. k \notin DOMAIN txn /\ Write(k, move, of, target)
    BY <1>3 DEF Recorded
  <2>2. Added(k, move, of, target)
    BY <1>1, <2>1, WriteAdds
  <2>3. /\ DOMAIN txn' = DOMAIN txn \cup {k}
        /\ txn'[k].deposit = move.deposit /\ txn'[k].kind = move.kind /\ txn'[k].for = move.for
        /\ \A j \in DOMAIN txn : /\ txn'[j].deposit = txn[j].deposit
                                 /\ txn'[j].kind = txn[j].kind /\ txn'[j].for = txn[j].for
    BY <2>2 DEF Added
  <2>4. CASE k \notin Undos /\ Plain(move)
    BY <2>3, <2>4 DEF KindsFit, Plain
  <2>5. CASE k \in Undos /\ \E o \in DOMAIN txn : move = Negative(EntriesOf(o))
    <3>1. PICK o \in DOMAIN txn : move = Negative(EntriesOf(o))
      BY <2>5
    <3>2. move.deposit = -txn[o].deposit /\ move.kind = txn[o].kind /\ move.for = txn[o].for
      BY <1>1, <3>1, NegativeType
    <3>3. /\ move.kind = "wallet" => move.deposit = 0 /\ move.for = {}
          /\ move.kind # "wallet" => \E d \in Deposits : move.for = {d}
      BY <3>2 DEF KindsFit
    <3> QED BY <2>3, <2>5, <3>3 DEF KindsFit
  <2> QED BY <1>3, <2>4, <2>5 DEF Recorded, Undoes
<1> QED BY <1>2, <1>3, StepShape DEF TxnStep

-----------------------------------------------------------------------------
(* Deposits that count as paid are funded *)

\* The amount of a funding fits into what is outstanding.
LEMMA FundingPosts ==
    ASSUME LedgerInv, Funding
    PROVE  \E d \in Deposits, k \in Keys, amount \in Int, cash \in Int :
              /\ k \in DepositKeys \cup ({"provider"} \X Deposits)
              /\ amount > 0 /\ amount <= Outstanding(d)
              /\ PostsAbout(k, About(d, "fund", amount, cash), hold)
              /\ BecomesFunded(d, amount)
<1> DEFINE Goal == \E d \in Deposits, k \in Keys, amount \in Int, cash \in Int :
                      /\ k \in DepositKeys \cup ({"provider"} \X Deposits)
                      /\ amount > 0 /\ amount <= Outstanding(d)
                      /\ PostsAbout(k, About(d, "fund", amount, cash), hold)
                      /\ BecomesFunded(d, amount)
<1>0. \A k \in DepositKeys : k \in Keys
  BY DEF Keys
<1>1. ASSUME NEW d \in Deposits, ProviderFunds(d)
      PROVE  Goal
  <2> DEFINE amount == Min({Required[d], Outstanding(d)})
             k == <<"provider", d>>
  <2>1. amount \in Int /\ amount <= Outstanding(d)
    BY InvParts, OutstandingType, MinOfTwo, WalletAssumption
  <2>2. /\ amount > 0 /\ PostsAbout(k, About(d, "fund", amount, 0), hold)
        /\ BecomesFunded(d, amount)
    BY <1>1 DEF ProviderFunds
  <2>3. k \in Keys /\ 0 \in Int /\ k \in {"provider"} \X Deposits
    BY DEF Keys
  <2> HIDE DEF amount, k
  <2> QED BY <2>1, <2>2, <2>3
<1>2. ASSUME NEW d \in Deposits, NEW k \in DepositKeys, SettleDeposit(k, d)
      PROVE  Goal
  <2> DEFINE amount == Min({Max({AvailableCash + CreditLimit, 0}), Outstanding(d)})
  <2>1. AvailableCash + CreditLimit \in Int
    <3>1. CashTotal \in Int /\ CreditLimit \in Int /\ MinimumCash \in Int
      BY InvParts, TotalsType, WalletAssumption
    <3>2. Held \in Int
      BY InvParts, HeldForIsSum DEF Held, HeldFor
    <3> QED BY <3>1, <3>2 DEF AvailableCash
  <2>2. amount \in Int /\ amount <= Outstanding(d)
    BY <2>1, InvParts, OutstandingType, MaxOfTwo, MinOfTwo
  <2>3. /\ amount > 0 /\ PostsAbout(k, About(d, "fund", amount, -amount), hold)
        /\ BecomesFunded(d, amount)
    BY <1>2 DEF SettleDeposit
  <2> HIDE DEF amount
  <2>4. -amount \in Int
    BY <2>2
  <2> QED BY <1>0, <2>2, <2>3, <2>4
<1>3. ASSUME NEW d \in Deposits, NEW k \in DepositKeys, NEW amount \in 1..Required[d],
             Fund(k, d, amount)
      PROVE  Goal
  <2>1. amount \in Int /\ amount > 0 /\ 0 \in Int
    BY WalletAssumption
  <2>2. /\ PostsAbout(k, About(d, "fund", amount, 0), hold) /\ amount <= Outstanding(d)
        /\ BecomesFunded(d, amount)
    BY <1>3 DEF Fund
  <2> QED BY <1>0, <2>1, <2>2
<1> QED BY <1>1, <1>2, <1>3 DEF Funding

\* A deduction is a posting about one deposit, which is not paid after it.
LEMMA DeductingPosts ==
    ASSUME LedgerInv, Deducting
    PROVE  \E d \in Deposits, k \in Keys, amount \in Nat \ {0} : \E holds :
              /\ k \in DepositKeys
              /\ PostsAbout(k, About(d, "deduct", -amount, 0), holds)
              /\ Usable(d)
              /\ \/ deposit' = [deposit EXCEPT ![d].status = "FORFEITED"]
                 \/ deposit' = [deposit EXCEPT ![d].status = "PARTIALLY_DEDUCTED"]
<1>0. PICK d \in Deposits : \E k \in DepositKeys : \E amount \in 1..Required[d] :
         \/ \E forfeiture \in BOOLEAN : Deduct(k, d, amount, forfeiture)
         \/ \E h \in HoldIds : DeductHeld(k, h, d, amount)
  BY DEF Deducting
<1>1. PICK k \in DepositKeys, amount \in 1..Required[d] :
         \/ \E forfeiture \in BOOLEAN : Deduct(k, d, amount, forfeiture)
         \/ \E h \in HoldIds : DeductHeld(k, h, d, amount)
  BY <1>0
<1>2. amount \in Nat \ {0} /\ k \in Keys
  BY <1>1, WalletAssumption DEF Keys
<1>3. CASE \E forfeiture \in BOOLEAN : Deduct(k, d, amount, forfeiture)
  BY <1>2, <1>3 DEF Deduct
<1>4. CASE \E h \in HoldIds : DeductHeld(k, h, d, amount)
  BY <1>2, <1>4 DEF DeductHeld
<1> QED BY <1>1, <1>3, <1>4

\* Only a deposit that is paid is locked, and only funding pays one.
PaidUpTo(d) ==
    /\ Funded(txn, d) <= Required[d]
    /\ deposit[d].status \in {"PAID", "LOCKED"} => Funded(txn, d) = Required[d]

LEMMA PaidNext ==
    ASSUME LedgerInv, DepositInv, DepositNext, NEW e \in Deposits
    PROVE  PaidUpTo(e)'
<1>1. PaidUpTo(e) /\ Funded(txn, e) \in Int /\ Required[e] \in Nat \ {0}
  BY InvParts, EntriesType, WalletAssumption DEF DepositInv, FundedUpTo, PaidIsFunded, PaidUpTo, Funded
<1>2. /\ deposit \in [Deposits -> DepositRow] /\ deposit' \in [Deposits -> DepositRow]
  BY WalletTypeParts, DepositRowsKept DEF LedgerInv
<1>3. ASSUME Funded(txn', e) = Funded(txn, e),
             deposit'[e].status \in {"PAID", "LOCKED"} => deposit[e].status \in {"PAID", "LOCKED"}
      PROVE  PaidUpTo(e)'
  BY <1>1, <1>3 DEF PaidUpTo
<1>4. CASE Requesting \/ Posting \/ HoldingCash \/ Rewarding
  <2>1. Funded(txn', e) = Funded(txn, e)
    BY <1>4, EntriesAside DEF Funded
  <2>2. deposit' = deposit
    BY <1>4, Frames
  <2> QED BY <1>3, <2>1, <2>2
<1>5. CASE Undoing
  <2>1. ASSUME NEW u \in Undos, NEW k \in asked[u], Posts(u, Negative(EntriesOf(k)), {k})
        PROVE  /\ Funded(txn', e) \in Int /\ Funded(txn', e) <= Required[e]
               /\ txn[k].for # {e} => Funded(txn', e) = Funded(txn, e)
               /\ k \in DOMAIN txn /\ (e \in txn[k].for => txn[k].for = {e})
    <3>1. k \in DOMAIN txn /\ k \notin Undos
      BY KeyAssumption DEF LedgerInv, ReadsExist, Reversible
    <3>2. /\ txn[k].kind = "fund" => txn[k].deposit > 0
          /\ e \in txn[k].for => txn[k].for = {e}
      BY <3>1 DEF DepositInv, KindsFit
    <3>3. txn[k].deposit \in Int
      BY <3>1, InvParts DEF TxnOK, TxnRow
    <3>4. /\ EntriesFor(txn, e, {"fund"}) \in Int
          /\ EntriesFor(txn', e, {"fund"}) = EntriesFor(txn, e, {"fund"})
                - (IF txn[k].for = {e} /\ txn[k].kind \in {"fund"} THEN txn[k].deposit ELSE 0)
      BY <2>1, UndoEntries
    <3> QED BY <1>1, <3>1, <3>2, <3>3, <3>4 DEF Funded, PaidUpTo
  <2>2. ASSUME NEW u \in Undos, Reverse(u, Billed)
        PROVE  PaidUpTo(e)'
    <3>1. PICK k \in asked[u] : /\ Posts(u, Negative(EntriesOf(k)), {k})
                                /\ deposit' = Reconciled(txn', txn[k].for)
      BY <2>2 DEF Reverse
    <3>2. CASE e \in txn[k].for
      <4>1. deposit'[e].status = StatusFrom(txn', e)
        BY <1>2, <3>1, <3>2 DEF Reconciled, DepositRow
      <4>2. Funded(txn', e) \in Int /\ Funded(txn', e) <= Required[e]
        BY <2>1, <3>1
      <4>3. StatusFrom(txn', e) \in {"PAID", "LOCKED"} => Funded(txn', e) = Required[e]
        <5>1. CASE Funded(txn', e) <= 0
          BY <5>1 DEF StatusFrom
        <5>2. CASE Funded(txn', e) \in 1..(Required[e] - 1)
          <6>1. ~(Funded(txn', e) <= 0) /\ ~(Funded(txn', e) >= Required[e])
            BY <1>1, <5>2
          <6> QED BY <5>2, <6>1 DEF StatusFrom
        <5>3. CASE Funded(txn', e) = Required[e]
          BY <5>3
        <5> QED BY <1>1, <4>2, <5>1, <5>2, <5>3
      <4> QED BY <4>1, <4>2, <4>3 DEF PaidUpTo
    <3>3. CASE e \notin txn[k].for
      <4>1. deposit'[e] = deposit[e]
        BY <3>1, <3>3 DEF Reconciled
      <4>2. Funded(txn', e) = Funded(txn, e)
        BY <2>1, <3>1, <3>3
      <4> QED BY <1>3, <4>1, <4>2
    <3> QED BY <3>2, <3>3
  <2>3. ASSUME NEW u \in Undos, ReverseFunding(u)
        PROVE  PaidUpTo(e)'
    <3>1. PICK k \in asked[u] :
             /\ Posts(u, Negative(EntriesOf(k)), {k})
             /\ \E d \in txn[k].for :
                   deposit' = [deposit EXCEPT ![d].status =
                                 CASE Funded(txn', d) = 0 -> "PENDING"
                                   [] Funded(txn', d) >= Required[d] -> "PAID"
                                   [] OTHER -> "PARTIALLY_PAID"]
      BY <2>3 DEF ReverseFunding
    <3>2. PICK d \in txn[k].for :
             deposit' = [deposit EXCEPT ![d].status =
                           CASE Funded(txn', d) = 0 -> "PENDING"
                             [] Funded(txn', d) >= Required[d] -> "PAID"
                             [] OTHER -> "PARTIALLY_PAID"]
      BY <3>1
    <3>3. d \in Deposits
      BY <2>1, <3>1, <3>2, InvParts DEF TxnOK, TxnRow
    <3>4. Funded(txn', e) \in Int /\ Funded(txn', e) <= Required[e]
      BY <2>1, <3>1
    <3>5. CASE d = e
      <4>1. deposit'[e].status = CASE Funded(txn', e) = 0 -> "PENDING"
                                   [] Funded(txn', e) >= Required[e] -> "PAID"
                                   [] OTHER -> "PARTIALLY_PAID"
        BY <1>2, <3>2, <3>5 DEF DepositRow
      <4>2. deposit'[e].status \in {"PAID", "LOCKED"} => Funded(txn', e) >= Required[e]
        BY <4>1
      <4>3. deposit'[e].status \in {"PAID", "LOCKED"} => Funded(txn', e) = Required[e]
        BY <1>1, <3>4, <4>2
      <4> QED BY <3>4, <4>3 DEF PaidUpTo
    <3>6. CASE d # e
      <4>1. deposit'[e] = deposit[e]
        BY <1>2, <3>2, <3>6
      <4>2. txn[k].for # {e}
        BY <3>2, <3>6
      <4>3. Funded(txn', e) = Funded(txn, e)
        BY <2>1, <3>1, <4>2
      <4> QED BY <1>3, <4>1, <4>3
    <3> QED BY <3>5, <3>6
  <2> QED BY <1>5, <2>2, <2>3 DEF Undoing
<1>6. CASE Funding
  <2>1. PICK d \in Deposits, k \in Keys, amount \in Int, cash \in Int :
           /\ amount > 0 /\ amount <= Outstanding(d)
           /\ PostsAbout(k, About(d, "fund", amount, cash), hold)
           /\ BecomesFunded(d, amount)
    BY <1>6, FundingPosts
  <2>2. Funded(txn', e) = Funded(txn, e) + (IF e = d THEN amount ELSE 0)
    <3>1. EntriesFor(txn', e, {"fund"}) = EntriesFor(txn, e, {"fund"})
             + (IF e = d /\ "fund" \in {"fund"} THEN amount ELSE 0)
      BY <2>1, AboutEntries DEF Kinds
    <3> QED BY <3>1 DEF Funded
  <2>3. CASE d = e
    <3>1. Funded(txn, e) + Outstanding(e) = Required[e]
      BY <1>1, InvParts, OutstandingType DEF PaidUpTo
    <3>2. Outstanding(e) \in Nat
      BY InvParts, OutstandingType
    <3>3. Funded(txn', e) <= Required[e] /\ (amount = Outstanding(e) => Funded(txn', e) = Required[e])
      BY <1>1, <2>1, <2>2, <2>3, <3>1, <3>2
    <3>4. deposit'[e].status = IF amount = Outstanding(e) THEN "PAID" ELSE "PARTIALLY_PAID"
      BY <1>2, <2>1, <2>3 DEF BecomesFunded, DepositRow
    <3> QED BY <3>3, <3>4 DEF PaidUpTo
  <2>4. CASE d # e
    <3>1. deposit'[e] = deposit[e]
      BY <1>2, <2>1, <2>4 DEF BecomesFunded
    <3>2. Funded(txn', e) = Funded(txn, e)
      BY <1>1, <2>2, <2>4
    <3> QED BY <1>3, <3>1, <3>2
  <2> QED BY <2>3, <2>4
<1>7. CASE Deducting
  <2>0. PICK d \in Deposits, k \in Keys, amount \in Nat \ {0} : \E holds :
           /\ PostsAbout(k, About(d, "deduct", -amount, 0), holds)
           /\ \/ deposit' = [deposit EXCEPT ![d].status = "FORFEITED"]
              \/ deposit' = [deposit EXCEPT ![d].status = "PARTIALLY_DEDUCTED"]
    BY <1>7, DeductingPosts
  <2>1. PICK holds :
           /\ PostsAbout(k, About(d, "deduct", -amount, 0), holds)
           /\ \/ deposit' = [deposit EXCEPT ![d].status = "FORFEITED"]
              \/ deposit' = [deposit EXCEPT ![d].status = "PARTIALLY_DEDUCTED"]
    BY <2>0
  <2>2. Funded(txn', e) = Funded(txn, e)
    <3>1. -amount \in Int /\ "deduct" \in Kinds
      BY <2>1 DEF Kinds
    <3>2. EntriesFor(txn', e, {"fund"}) = EntriesFor(txn, e, {"fund"})
             + (IF e = d /\ "deduct" \in {"fund"} THEN -amount ELSE 0)
      BY <2>1, <3>1, AboutEntries
    <3> QED BY <1>1, <3>2 DEF Funded
  <2>3. deposit'[e].status \in {"PAID", "LOCKED"} => deposit[e].status \in {"PAID", "LOCKED"}
    BY <1>2, <2>1 DEF DepositRow
  <2> QED BY <1>3, <2>2, <2>3
<1>8. CASE Marking
  <2>1. txn' = txn
    BY <1>8, Frames
  <2>2. deposit'[e].status \in {"PAID", "LOCKED"} => deposit[e].status \in {"PAID", "LOCKED"}
    <3>1. ASSUME NEW d \in Deposits, VoidDeposit(d)
          PROVE  deposit'[e].status \in {"PAID", "LOCKED"} => deposit[e].status \in {"PAID", "LOCKED"}
      BY <1>2, <3>1 DEF VoidDeposit, DepositRow
    <3>2. ASSUME NEW d \in Deposits, Lock(d)
          PROVE  deposit'[e].status \in {"PAID", "LOCKED"} => deposit[e].status \in {"PAID", "LOCKED"}
      <4>1. deposit' = [deposit EXCEPT ![d] = [status |-> "LOCKED", locked |-> TRUE]]
            /\ deposit[d].status = "PAID"
        BY <3>2 DEF Lock
      <4> QED BY <1>2, <4>1
    <3> QED BY <1>8, <3>1, <3>2 DEF Marking
  <2> QED BY <1>3, <2>1, <2>2
<1>9. CASE Reserving \/ Freeing
  <2>1. txn' = txn
    BY <1>9, Frames
  <2>2. deposit'[e].status \in {"PAID", "LOCKED"} => deposit[e].status \in {"PAID", "LOCKED"}
    <3>1. CASE deposit' = deposit
      BY <3>1
    <3>2. ASSUME NEW d \in Deposits, deposit' = [deposit EXCEPT ![d].status = "REFUND_REQUESTED"]
          PROVE  deposit'[e].status \in {"PAID", "LOCKED"} => deposit[e].status \in {"PAID", "LOCKED"}
      BY <1>2, <3>2 DEF DepositRow
    <3>3. deposit' = deposit
          \/ \E d \in Deposits : deposit' = [deposit EXCEPT ![d].status = "REFUND_REQUESTED"]
      BY <1>9, Frames DEF Reserving, HoldDeposit, RequestReturn
    <3> QED BY <3>1, <3>2, <3>3
  <2> QED BY <1>3, <2>1, <2>2
<1>10. CASE Returning
  <2>1. CASE UNCHANGED <<txn, deposit>>
    BY <1>3, <2>1
  <2>2. ASSUME NEW r \in Requests, NEW d \in request[r].for, Completes(r, d)
        PROVE  PaidUpTo(e)'
    <3> DEFINE h == <<"return", r>>
               cash == IF request[r].to = "cash" THEN request[r].amount ELSE 0
               paid == -request[r].amount
    <3>1. /\ d \in Deposits /\ h \in Keys /\ paid \in Int /\ cash \in Int
          /\ "return" \in Kinds
      BY InvParts DEF Keys, Kinds
    <3>2. PICK holds : PostsAbout(h, About(d, "return", paid, cash), holds)
      BY <2>2 DEF Completes
    <3>3. \/ deposit' = [deposit EXCEPT ![d].status = "REFUNDED"]
          \/ deposit' = [deposit EXCEPT ![d].status = "PARTIALLY_DEDUCTED"]
      BY <2>2 DEF Completes
    <3> HIDE DEF h, cash, paid
    <3>4. EntriesFor(txn', e, {"fund"}) = EntriesFor(txn, e, {"fund"})
             + (IF e = d /\ "return" \in {"fund"} THEN paid ELSE 0)
      BY <3>1, <3>2, AboutEntries
    <3>5. Funded(txn', e) = Funded(txn, e)
      BY <1>1, <3>4 DEF Funded
    <3>6. deposit'[e].status \in {"PAID", "LOCKED"} => deposit[e].status \in {"PAID", "LOCKED"}
      BY <1>2, <3>1, <3>3 DEF DepositRow
    <3> QED BY <1>3, <3>5, <3>6
  <2> QED BY <1>10, <2>1, <2>2 DEF Returning, ApproveReturn, CompleteManualReturn
<1> QED BY <1>4, <1>5, <1>6, <1>7, <1>8, <1>9, <1>10, Groups

\* A deposit is never funded twice over, and one that is paid or locked is funded.
THEOREM PaidDepositsAreFunded == DepositSpec => [](PaidIsFunded /\ FundedUpTo)
<1>1. DepositInit => DepositInv
  <2> SUFFICES ASSUME DepositInit PROVE DepositInv
    OBVIOUS
  <2>1. DOMAIN txn = {}
    BY NothingPosted
  <2>2. \A d \in Deposits : Funded(txn, d) = 0
    <3> TAKE d \in Deposits
    <3> DEFINE f == [k \in DOMAIN txn |-> txn[k].deposit]
    <3>1. Funded(txn, d) = SumFunctionOnSet(f, {})
      BY <2>1 DEF Funded, EntriesFor
    <3> HIDE DEF f
    <3> QED BY <3>1, SumOfNone
  <2>3. \A d \in Deposits : Required[d] \in Nat /\ deposit[d].status = "PENDING"
    BY WalletAssumption DEF DepositInit, WalletInit
  <2> QED BY <2>1, <2>2, <2>3 DEF DepositInv, KindsFit, FundedUpTo, PaidIsFunded
<1>2. LedgerInv /\ DepositInv /\ [DepositNext]_depositVars => DepositInv'
  <2>1. LedgerInv /\ DepositInv /\ DepositNext => DepositInv'
    <3> SUFFICES ASSUME LedgerInv, DepositInv, DepositNext PROVE DepositInv'
      OBVIOUS
    <3>1. KindsFit'
      BY KindsFitNext DEF DepositInv
    <3>2. \A e \in Deposits : PaidUpTo(e)'
      BY PaidNext
    <3> QED BY <3>1, <3>2 DEF DepositInv, FundedUpTo, PaidIsFunded, PaidUpTo
  <2>2. DepositInv /\ UNCHANGED depositVars => DepositInv'
    BY DEF DepositInv, KindsFit, FundedUpTo, PaidIsFunded, depositVars, walletVars, Funded, EntriesFor
  <2> QED BY <2>1, <2>2
<1>3. DepositInv => PaidIsFunded /\ FundedUpTo
  BY DEF DepositInv
<1> QED BY <1>1, <1>2, <1>3, WalletTypes, PTL DEF DepositSpec

-----------------------------------------------------------------------------
(* Returns of deposits *)

\* A request that can still pay out.
Open(r) == Live(r) /\ ReturnHold(r).status = "ACTIVE"

LEMMA OneOpen ==
    OneLiveReturn <=> \A r, q \in Requests : Open(r) /\ Open(q) /\ request[r].for = request[q].for => r = q
BY DEF OneLiveReturn, Open, Live, ReturnHold

\* A step that opens no request.
Fading ==
    \A r \in Requests :
        /\ request'[r].for = request[r].for /\ request'[r].amount = request[r].amount
        /\ Live(r)' => Live(r)
        /\ ReturnHold(r)'.for = ReturnHold(r).for
        /\ ReturnHold(r)'.status = "ACTIVE" => ReturnHold(r).status = "ACTIVE"

LEMMA FadingKeeps ==
    ASSUME RequestsHold, OneLiveReturn, Fading
    PROVE  RequestsHold' /\ OneLiveReturn'
<1>1. \A r \in Requests : Open(r)' => Open(r)
  BY DEF Fading, Open
<1>2. OneLiveReturn'
  <2>1. \A r, q \in Requests : Open(r)' /\ Open(q)' /\ request'[r].for = request'[q].for => r = q
    BY <1>1, OneOpen DEF Fading
  <2>2. ASSUME NEW r \in Requests, NEW q \in Requests,
               {request'[r].status, request'[q].status} \subseteq {"REQUESTED", "PROCESSING"},
               {hold'[<<"return", r>>].status, hold'[<<"return", q>>].status} = {"ACTIVE"},
               request'[r].for = request'[q].for
        PROVE  r = q
    <3>1. Open(r)' /\ Open(q)'
      BY <2>2 DEF Open, Live, ReturnHold
    <3> QED BY <2>1, <2>2, <3>1
  <2> QED BY <2>2 DEF OneLiveReturn
<1>3. RequestsHold'
  BY DEF Fading, RequestsHold
<1> QED BY <1>2, <1>3

\* A hold that is for the same deposit as before and is active only if it was.
LEMMA RowFades ==
    ASSUME LedgerInv, NEW h \in HoldIds, NEW row, hold' = [hold EXCEPT ![h] = row],
           row.for = hold[h].for, row.status = "ACTIVE" => hold[h].status = "ACTIVE",
           UNCHANGED request
           \/ \E r \in Requests, s \in {"RETURNED", "PROCESSING"} :
                 Live(r) /\ request' = [request EXCEPT ![r].status = s]
    PROVE  Fading
<1>1. \A r \in Requests : <<"return", r>> \in HoldIds
  BY InvParts
<1>2. \A r \in Requests : /\ ReturnHold(r)'.for = ReturnHold(r).for
                          /\ ReturnHold(r)'.status = "ACTIVE" => ReturnHold(r).status = "ACTIVE"
  BY <1>1, InvParts DEF ReturnHold, HoldTable
<1>3. request \in [Requests -> RequestRow]
  BY DEF LedgerInv, DepositTypeOK, RequestRow
<1>4. \A r \in Requests : /\ request'[r].for = request[r].for
                          /\ request'[r].amount = request[r].amount
                          /\ Live(r)' => Live(r)
  BY <1>3 DEF Live, RequestRow
<1> QED BY <1>2, <1>4 DEF Fading

\* Captures take from a hold and keep what it is for.
LEMMA CaptureFades ==
    ASSUME LedgerInv, NEW h \in HoldIds, NEW amount \in Nat, hold[h].status = "ACTIVE",
           amount <= hold[h].amount - hold[h].captured, hold' = Captured(h, amount),
           UNCHANGED request
    PROVE  Fading
<1> DEFINE captured == hold[h].captured + amount
           row == [hold[h] EXCEPT !.captured = captured,
                     !.status = IF captured = hold[h].amount THEN "CAPTURED" ELSE "ACTIVE"]
<1>1. hold' = [hold EXCEPT ![h] = row] /\ row.for = hold[h].for
  BY CapturedRow
<1> HIDE DEF row
<1> QED BY <1>1, RowFades

Asking == \E d \in Deposits : \E amount \in 1..Required[d] : \E r \in Requests :
             \E to \in {"cash", "offline"} : RequestReturn(r, d, amount, to)

LEMMA Fades ==
    ASSUME LedgerInv, DepositNext, ~Asking
    PROVE  Fading
<1>1. CASE UNCHANGED <<hold, request>>
  BY <1>1 DEF Fading, Live, ReturnHold
<1>2. CASE Requesting \/ Posting \/ HoldingCash \/ Rewarding
  <2>1. UNCHANGED request /\ \A r \in Requests : ReturnHold(r)' = ReturnHold(r)
    BY <1>2, HoldsAside, Frames DEF ReturnHold
  <2> QED BY <2>1 DEF Fading, Live
<1>3. CASE Deducting
  <2>1. UNCHANGED request
    BY <1>3, Frames
  <2>2. ASSUME NEW d \in Deposits, NEW k \in DepositKeys, NEW amount \in 1..Required[d],
               NEW h \in HoldIds, DeductHeld(k, h, d, amount)
        PROVE  Fading
    <3>1. amount \in Nat
      BY WalletAssumption
    <3>2. /\ hold[h].status = "ACTIVE" /\ amount <= hold[h].amount - hold[h].captured
          /\ hold' = Captured(h, amount)
      BY <2>2 DEF DeductHeld, ActiveHolds
    <3> QED BY <2>1, <3>1, <3>2, CaptureFades
  <2> QED BY <1>1, <1>3, <2>1, <2>2 DEF Deducting, Deduct
<1>4. CASE Reserving
  <2>1. ASSUME NEW d \in Deposits, NEW amount \in 1..Required[d], NEW h \in Holds,
               HoldDeposit(h, d, amount)
        PROVE  Fading
    <3>1. UNCHANGED request /\ \E row : hold' = [hold EXCEPT ![h] = row]
      BY <2>1 DEF HoldDeposit, Reserve
    <3>2. \A r \in Requests : <<"return", r>> # h /\ <<"return", r>> \in HoldIds
      BY KeyAssumption DEF HoldIds
    <3>3. \A r \in Requests : ReturnHold(r)' = ReturnHold(r)
      BY <3>1, <3>2, InvParts DEF ReturnHold, HoldTable
    <3> QED BY <3>1, <3>3 DEF Fading, Live
  <2> QED BY <1>4, <2>1 DEF Reserving, Asking
<1>5. ASSUME NEW h \in HoldIds, NEW status \in {"RELEASED", "EXPIRED"},
             hold' = [hold EXCEPT ![h].status = status],
             UNCHANGED request
             \/ \E r \in Requests, s \in {"RETURNED", "PROCESSING"} :
                   Live(r) /\ request' = [request EXCEPT ![r].status = s]
      PROVE  Fading
  <2> DEFINE row == [hold[h] EXCEPT !.status = status]
  <2>1. hold' = [hold EXCEPT ![h] = row] /\ row.for = hold[h].for /\ row.status # "ACTIVE"
    BY <1>5, EndedRow
  <2> HIDE DEF row
  <2> QED BY <1>5, <2>1, RowFades
<1>6. CASE Freeing
  <2>1. UNCHANGED request
    BY <1>6, Frames
  <2> QED BY <1>5, <1>6, <2>1 DEF Freeing, ReleaseDepositHold, ExpireDepositHold
<1>7. CASE Returning
  <2>1. ASSUME NEW r \in Requests, NEW d, Completes(r, d), Live(r)
        PROVE  Fading
    <3>1. /\ hold' = [hold EXCEPT ![<<"return", r>>].status = "RELEASED"]
          /\ request' = [request EXCEPT ![r].status = "RETURNED"]
      BY <2>1 DEF Completes
    <3>2. <<"return", r>> \in HoldIds
      BY InvParts
    <3> QED BY <1>5, <2>1, <3>1, <3>2
  <2>2. ASSUME NEW r \in Requests, Live(r), request' = [request EXCEPT ![r].status = "PROCESSING"],
               UNCHANGED hold
        PROVE  Fading
    <3>1. request \in [Requests -> RequestRow]
      BY DEF LedgerInv, DepositTypeOK, RequestRow
    <3>2. \A q \in Requests : /\ request'[q].for = request[q].for
                              /\ request'[q].amount = request[q].amount
                              /\ Live(q)' => Live(q)
      BY <2>2, <3>1 DEF Live, RequestRow
    <3> QED BY <2>2, <3>2 DEF Fading, ReturnHold
  <2> QED BY <1>7, <2>1, <2>2 DEF Returning, ApproveReturn, CompleteManualReturn, Live
<1>8. CASE Undoing \/ Funding \/ Marking
  BY <1>1, <1>8, Frames
<1> QED BY <1>2, <1>3, <1>4, <1>6, <1>7, <1>8, Groups

\* An open request holds something of its deposit.
LEMMA OpenHolds ==
    ASSUME LedgerInv, RequestsHold, NEW r \in Requests, Open(r), NEW d, request[r].for = {d}
    PROVE  HeldOn(hold, d) > 0 /\ ReturnHold(r).for = {d}
<1>1. <<"return", r>> \in HoldIds
  BY InvParts
<1>2. /\ ReturnHold(r) = hold[<<"return", r>>] /\ ReturnHold(r) \in HoldRow
      /\ Fits(ReturnHold(r)) /\ ReturnHold(r).status = "ACTIVE"
  BY <1>1, InvParts DEF Open, ReturnHold
<1>3. ReturnHold(r).for = {d}
  BY DEF RequestsHold, Open
<1>4. Reserved(ReturnHold(r), {d}) > 0 /\ Reserved(ReturnHold(r), {d}) \in Int
  BY <1>2, <1>3 DEF Reserved, Fits, HoldRow
<1>5. HeldFor(hold, {d}) \in Nat /\ Reserved(ReturnHold(r), {d}) <= HeldFor(hold, {d})
  BY <1>1, <1>2, InvParts, HeldForBounds
<1>6. HeldFor(hold, {d}) > 0
  BY <1>4, <1>5
<1> QED BY <1>3, <1>6 DEF HeldOn, HeldFor

\* What a new request changes.
LEMMA AskedRows ==
    ASSUME LedgerInv, NEW d \in Deposits, NEW amount \in Nat \ {0}, NEW r \in Requests,
           NEW to \in {"cash", "offline"}, RequestReturn(r, d, amount, to)
    PROVE  /\ request'[r].for = {d} /\ request'[r].amount = amount
           /\ \A q \in Requests \ {r} : request'[q] = request[q] /\ ReturnHold(q)' = ReturnHold(q)
           /\ ReturnHold(r)'.for = {d} /\ ReturnHold(r)'.status = "ACTIVE"
           /\ ReturnHold(r)'.captured = 0 /\ ReturnHold(r)'.amount = amount
<1> DEFINE row == [NoHold EXCEPT !.status = "ACTIVE", !.amount = amount, !.for = {d}]
           h == <<"return", r>>
<1>1. /\ row \in HoldRow /\ Fits(row)
      /\ row.status = "ACTIVE" /\ row.amount = amount /\ row.captured = 0
      /\ row.for = {d}
  <2>1. {d} \in SUBSET Deposits
    OBVIOUS
  <2> HIDE DEF row
  <2> QED BY <2>1, NewHoldRow DEF row
<1>2. hold' = [hold EXCEPT ![h] = row]
  BY DEF RequestReturn, Reserve
<1>3. \A q \in Requests : <<"return", q>> \in HoldIds
  BY InvParts
<1> HIDE DEF row
<1>4. ReturnHold(r)' = row
  BY <1>2, <1>3, InvParts DEF ReturnHold, HoldTable
<1>5. \A q \in Requests \ {r} : ReturnHold(q)' = ReturnHold(q)
  BY <1>2, <1>3, InvParts DEF ReturnHold, HoldTable
<1>6. request' = [request EXCEPT ![r] =
                    [status |-> "REQUESTED", for |-> {d}, amount |-> amount, to |-> to]]
  BY DEF RequestReturn
<1>7. request \in [Requests -> RequestRow]
  BY DEF LedgerInv, DepositTypeOK, RequestRow
<1> QED BY <1>1, <1>4, <1>5, <1>6, <1>7

LEMMA RequestsNext ==
    ASSUME LedgerInv, RequestsHold, OneLiveReturn, DepositNext
    PROVE  RequestsHold' /\ OneLiveReturn'
<1>1. CASE ~Asking
  BY <1>1, Fades, FadingKeeps
<1>2. ASSUME NEW d \in Deposits, NEW amount \in 1..Required[d], NEW r \in Requests,
             NEW to \in {"cash", "offline"}, RequestReturn(r, d, amount, to)
      PROVE  RequestsHold' /\ OneLiveReturn'
  <2>0. amount \in Nat \ {0}
    BY WalletAssumption
  <2>1. /\ request'[r].for = {d}
        /\ \A q \in Requests \ {r} : request'[q] = request[q] /\ ReturnHold(q)' = ReturnHold(q)
        /\ ReturnHold(r)'.for = {d}
    BY <1>2, <2>0, AskedRows
  <2>2. HeldOn(hold, d) <= 0
    BY <1>2 DEF RequestReturn, EligibleForReturn
  <2>3. \A q \in Requests \ {r} : (Live(q)' <=> Live(q)) /\ (Open(q)' <=> Open(q))
    BY <2>1 DEF Live, Open
  <2>4. \A q \in Requests \ {r} : Open(q) => request[q].for # {d}
    <3> SUFFICES ASSUME NEW q \in Requests, Open(q), request[q].for = {d}
                 PROVE  FALSE
      OBVIOUS
    <3>1. HeldOn(hold, d) > 0
      BY OpenHolds
    <3>2. HeldOn(hold, d) \in Int
      BY InvParts, HeldForIsSum DEF HeldOn, HeldFor
    <3> QED BY <2>2, <3>1, <3>2
  <2>5. RequestsHold'
    BY <2>1, <2>3 DEF RequestsHold
  <2>6. ASSUME NEW p \in Requests, NEW q \in Requests,
               {request'[p].status, request'[q].status} \subseteq {"REQUESTED", "PROCESSING"},
               {hold'[<<"return", p>>].status, hold'[<<"return", q>>].status} = {"ACTIVE"},
               request'[p].for = request'[q].for
        PROVE  p = q
    <3>1. Open(p)' /\ Open(q)'
      BY <2>6 DEF Open, Live, ReturnHold
    <3>2. p # r /\ q # r => p = q
      BY <2>1, <2>3, <2>6, <3>1, OneOpen
    <3>3. p = r /\ q # r => FALSE
      BY <2>1, <2>3, <2>4, <2>6, <3>1
    <3>4. q = r /\ p # r => FALSE
      BY <2>1, <2>3, <2>4, <2>6, <3>1
    <3> QED BY <3>2, <3>3, <3>4
  <2>7. OneLiveReturn'
    BY <2>6 DEF OneLiveReturn
  <2> QED BY <2>5, <2>7
<1> QED BY <1>1, <1>2 DEF Asking

-----------------------------------------------------------------------------
(* What is held of a deposit is covered *)

Settled == {"LOCKED", "PARTIALLY_DEDUCTED", "REFUND_REQUESTED", "REFUNDED", "FORFEITED"}

\* The invariant of one deposit that has no reversed transaction.
Kept(d) ==
    /\ deposit[d].status \in Settled => Funded(txn, d) = Required[d]
    /\ \A r \in Requests :
          request[r].for = {d} /\ Open(r) =>
              /\ deposit[d].status = "REFUND_REQUESTED"
              /\ ReturnHold(r).captured = 0
              /\ ReturnHold(r).amount = request[r].amount
    /\ Balance(txn, d) >= HeldOn(hold, d)

LEMMA KeptMeans ==
    /\ (\A d \in Deposits : NeverReversed(d) => Kept(d))
          <=> LockedIsFunded /\ ReturnIsWhole /\ DepositsStayCovered
    /\ (\A d \in Deposits : NeverReversed(d)' => Kept(d)')
          => LockedIsFunded' /\ ReturnIsWhole' /\ DepositsStayCovered'
<1>1. (\A d \in Deposits : NeverReversed(d) => Kept(d))
          <=> LockedIsFunded /\ ReturnIsWhole /\ DepositsStayCovered
  BY DEF Kept, LockedIsFunded, ReturnIsWhole, DepositsStayCovered, Settled, Open
<1>2. ASSUME \A d \in Deposits : NeverReversed(d)' => Kept(d)'
      PROVE  LockedIsFunded' /\ ReturnIsWhole' /\ DepositsStayCovered'
  BY <1>2 DEF Kept, LockedIsFunded, ReturnIsWhole, DepositsStayCovered, Settled, Open
<1> QED BY <1>1, <1>2

LEMMA DepositAmounts ==
    ASSUME LedgerInv, NEW d \in Deposits
    PROVE  /\ Balance(txn, d) \in Int /\ Funded(txn, d) \in Int /\ Required[d] \in Nat \ {0}
           /\ HeldOn(hold, d) \in Nat
           /\ Refundable(txn, hold, d) =
                 IF Balance(txn, d) - HeldOn(hold, d) >= 0
                 THEN Balance(txn, d) - HeldOn(hold, d) ELSE 0
<1>1. Balance(txn, d) \in Int /\ Funded(txn, d) \in Int
  BY InvParts, EntriesType DEF Balance, Funded
<1>2. HeldOn(hold, d) \in Nat
  BY InvParts, HeldForBounds DEF HeldOn, HeldFor
<1>3. Balance(txn, d) - HeldOn(hold, d) \in Int
  BY <1>1, <1>2
<1>4. Max({0, Balance(txn, d) - HeldOn(hold, d)})
        = IF 0 >= Balance(txn, d) - HeldOn(hold, d) THEN 0 ELSE Balance(txn, d) - HeldOn(hold, d)
  BY <1>3, MaxOfTwo
<1> QED BY <1>1, <1>2, <1>4, WalletAssumption DEF Refundable

\* A step that leaves a deposit alone, or frees some of what is held.
LEMMA KeptEasily ==
    ASSUME LedgerInv, NEW e \in Deposits, Kept(e), Fading,
           \A kinds : EntriesFor(txn', e, kinds) = EntriesFor(txn, e, kinds),
           HeldOn(hold', e) \in Int, HeldOn(hold', e) <= HeldOn(hold, e),
           deposit'[e].status = deposit[e].status,
           \A r \in Requests : request[r].for = {e} /\ Open(r) /\ Open(r)' =>
               ReturnHold(r)'.captured = ReturnHold(r).captured
               /\ ReturnHold(r)'.amount = ReturnHold(r).amount
    PROVE  Kept(e)'
<1>1. Funded(txn', e) = Funded(txn, e) /\ Balance(txn', e) = Balance(txn, e)
  BY DEF Funded, Balance
<1>2. Balance(txn', e) >= HeldOn(hold', e)
  BY <1>1, DepositAmounts DEF Kept
<1>3. \A r \in Requests : /\ Open(r)' => Open(r)
                          /\ request'[r].for = request[r].for
                          /\ request'[r].amount = request[r].amount
  BY DEF Fading, Open
<1>4. \A r \in Requests :
          request'[r].for = {e} /\ Open(r)' =>
              /\ deposit'[e].status = "REFUND_REQUESTED"
              /\ ReturnHold(r)'.captured = 0
              /\ ReturnHold(r)'.amount = request'[r].amount
  BY <1>3 DEF Kept
<1> QED BY <1>1, <1>2, <1>4 DEF Kept

LEMMA HeldOnChanges ==
    ASSUME LedgerInv, NEW h \in HoldIds, NEW row \in HoldRow, NEW d,
           hold' = [hold EXCEPT ![h] = row]
    PROVE  /\ HeldOn(hold', d) = HeldOn(hold, d) + Reserved(row, {d}) - Reserved(hold[h], {d})
           /\ HeldOn(hold, d) \in Int /\ HeldOn(hold', d) \in Int
           /\ Reserved(row, {d}) \in Int /\ Reserved(hold[h], {d}) \in Nat
<1>1. HeldFor(hold', {d}) = HeldFor(hold, {d}) + Reserved(row, {d}) - Reserved(hold[h], {d})
  BY InvParts, HeldChanges
<1>2. HeldFor(hold, {d}) \in Int
  BY InvParts, HeldForIsSum
<1>3. Reserved(row, {d}) \in Int
  BY DEF Reserved, HoldRow
<1>4. Reserved(hold[h], {d}) \in Nat
  <2>1. hold[h] \in HoldRow /\ Fits(hold[h])
    BY InvParts
  <2> QED BY <2>1 DEF Reserved, Fits, HoldRow
<1> QED BY <1>1, <1>2, <1>3, <1>4 DEF HeldOn, HeldFor

LEMMA KeptFunding ==
    ASSUME LedgerInv, RequestsHold, NEW e \in Deposits, NeverReversed(e) => Kept(e),
           NeverReversed(e)', Fading, Funding
    PROVE  Kept(e)'
<1>1. PICK d \in Deposits, k \in Keys, amount \in Int, cash \in Int :
         /\ amount > 0 /\ amount <= Outstanding(d)
         /\ PostsAbout(k, About(d, "fund", amount, cash), hold)
         /\ BecomesFunded(d, amount)
  BY FundingPosts
<1>2. /\ \A kinds : /\ EntriesFor(txn, e, kinds) \in Int
                    /\ EntriesFor(txn', e, kinds) = EntriesFor(txn, e, kinds)
                         + (IF e = d /\ "fund" \in kinds THEN amount ELSE 0)
      /\ NeverReversed(e)' <=> NeverReversed(e)
  BY <1>1, AboutEntries DEF Kinds
<1>3. Kept(e)
  BY <1>2
<1>4. deposit \in [Deposits -> DepositRow] /\ hold' = hold
  BY WalletTypeParts, Frames DEF LedgerInv
<1>5. /\ Balance(txn, e) \in Int /\ Funded(txn, e) \in Int /\ Required[e] \in Nat \ {0}
      /\ HeldOn(hold, e) \in Nat
  BY DepositAmounts
<1>6. CASE d # e
  <2>1. \A kinds : EntriesFor(txn', e, kinds) = EntriesFor(txn, e, kinds)
    BY <1>2, <1>6
  <2>2. deposit'[e].status = deposit[e].status
    BY <1>1, <1>4, <1>6 DEF BecomesFunded
  <2>3. \A r \in Requests : ReturnHold(r)' = ReturnHold(r)
    BY <1>4 DEF ReturnHold
  <2>4. HeldOn(hold', e) \in Int /\ HeldOn(hold', e) <= HeldOn(hold, e)
    BY <1>4, <1>5
  <2> QED BY <1>3, <2>1, <2>2, <2>3, <2>4, KeptEasily
<1>7. CASE d = e
  <2>1. Balance(txn', e) = Balance(txn, e) + amount
    BY <1>2, <1>7 DEF Balance
  <2>2. Balance(txn', e) >= HeldOn(hold', e)
    BY <1>1, <1>3, <1>4, <1>5, <2>1 DEF Kept
  <2>3. deposit'[e].status = IF amount = Outstanding(e) THEN "PAID" ELSE "PARTIALLY_PAID"
    BY <1>1, <1>4, <1>7 DEF BecomesFunded, DepositRow
  <2>4. Funded(txn, e) # Required[e]
    <3>1. Funded(txn, e) + Outstanding(e)
            = IF Funded(txn, e) <= Required[e] THEN Required[e] ELSE Funded(txn, e)
      BY InvParts, OutstandingType
    <3>2. Outstanding(e) \in Nat
      BY InvParts, OutstandingType
    <3> QED BY <1>1, <1>5, <1>7, <3>1, <3>2
  <2>5. \A r \in Requests : ~(request[r].for = {e} /\ Open(r))
    BY <1>3, <2>4 DEF Kept, Settled
  <2>6. \A r \in Requests : ~(request'[r].for = {e} /\ Open(r)')
    BY <2>5 DEF Fading, Open
  <2> QED BY <2>2, <2>3, <2>6 DEF Kept, Settled
<1> QED BY <1>6, <1>7

LEMMA KeptDeducting ==
    ASSUME LedgerInv, RequestsHold, NEW e \in Deposits, NeverReversed(e) => Kept(e),
           NeverReversed(e)', Fading, Deducting
    PROVE  Kept(e)'
<1>1. ASSUME NEW d \in Deposits, NEW k \in Keys, NEW amount \in Nat \ {0}, NEW holds,
             PostsAbout(k, About(d, "deduct", -amount, 0), holds)
      PROVE  /\ d # e => \A kinds : EntriesFor(txn', e, kinds) = EntriesFor(txn, e, kinds)
             /\ d = e => /\ Funded(txn', e) = Funded(txn, e)
                         /\ Balance(txn', e) = Balance(txn, e) - amount
             /\ Kept(e)
  <2>1. -amount \in Int /\ 0 \in Int /\ "deduct" \in Kinds
    BY DEF Kinds
  <2>2. /\ \A kinds : /\ EntriesFor(txn, e, kinds) \in Int
                      /\ EntriesFor(txn', e, kinds) = EntriesFor(txn, e, kinds)
                           + (IF e = d /\ "deduct" \in kinds THEN -amount ELSE 0)
        /\ NeverReversed(e)' <=> NeverReversed(e)
    BY <1>1, <2>1, AboutEntries
  <2> QED BY <2>2 DEF Funded, Balance
<1>2. deposit \in [Deposits -> DepositRow] /\ UNCHANGED request
  BY WalletTypeParts, Frames DEF LedgerInv
<1>3. /\ Balance(txn, e) \in Int /\ Funded(txn, e) \in Int /\ HeldOn(hold, e) \in Nat
      /\ Refundable(txn, hold, e) =
            IF Balance(txn, e) - HeldOn(hold, e) >= 0
            THEN Balance(txn, e) - HeldOn(hold, e) ELSE 0
  BY DepositAmounts
\* The deposit that is deducted from.
<1>4. ASSUME Kept(e), Usable(e), Funded(txn', e) = Funded(txn, e),
             Balance(txn', e) >= HeldOn(hold', e),
             deposit'[e].status \in {"FORFEITED", "PARTIALLY_DEDUCTED"}
      PROVE  Kept(e)'
  <2>1. deposit'[e].status \in Settled => Funded(txn', e) = Required[e]
    BY <1>4 DEF Kept, Usable, Settled
  <2>2. \A r \in Requests : ~(request[r].for = {e} /\ Open(r))
    BY <1>4 DEF Kept, Usable
  <2>3. \A r \in Requests : ~(request'[r].for = {e} /\ Open(r)')
    BY <2>2 DEF Fading, Open
  <2> QED BY <1>4, <2>1, <2>3 DEF Kept
<1>5. ASSUME NEW d \in Deposits, NEW k \in DepositKeys, NEW amount \in 1..Required[d],
             NEW forfeiture \in BOOLEAN, Deduct(k, d, amount, forfeiture)
      PROVE  Kept(e)'
  <2>1. amount \in Nat \ {0} /\ k \in Keys
    BY WalletAssumption DEF Keys
  <2>2. /\ PostsAbout(k, About(d, "deduct", -amount, 0), hold) /\ hold' = hold
        /\ Usable(d) /\ amount <= Refundable(txn, hold, d)
        /\ \/ deposit' = [deposit EXCEPT ![d].status = "FORFEITED"]
           \/ deposit' = [deposit EXCEPT ![d].status = "PARTIALLY_DEDUCTED"]
    BY <1>5 DEF Deduct
  <2>3. CASE d # e
    <3>1. deposit'[e].status = deposit[e].status
      BY <1>2, <2>2, <2>3
    <3>2. HeldOn(hold', e) \in Int /\ HeldOn(hold', e) <= HeldOn(hold, e)
      BY <1>3, <2>2
    <3>3. \A r \in Requests : ReturnHold(r)' = ReturnHold(r)
      BY <2>2 DEF ReturnHold
    <3> QED BY <1>1, <2>1, <2>2, <2>3, <3>1, <3>2, <3>3, KeptEasily
  <2>4. CASE d = e
    <3>1. Funded(txn', e) = Funded(txn, e) /\ Balance(txn', e) = Balance(txn, e) - amount /\ Kept(e)
      BY <1>1, <2>1, <2>2, <2>4
    <3>2. Balance(txn', e) >= HeldOn(hold', e)
      BY <1>3, <2>1, <2>2, <2>4, <3>1
    <3>3. deposit'[e].status \in {"FORFEITED", "PARTIALLY_DEDUCTED"}
      BY <1>2, <2>2, <2>4 DEF DepositRow
    <3> QED BY <1>4, <2>2, <2>4, <3>1, <3>2, <3>3
  <2> QED BY <2>3, <2>4
<1>6. ASSUME NEW d \in Deposits, NEW k \in DepositKeys, NEW amount \in 1..Required[d],
             NEW h \in HoldIds, DeductHeld(k, h, d, amount)
      PROVE  Kept(e)'
  <2>1. amount \in Nat \ {0} /\ k \in Keys
    BY WalletAssumption DEF Keys
  <2>2. /\ PostsAbout(k, About(d, "deduct", -amount, 0), Captured(h, amount))
        /\ hold' = Captured(h, amount) /\ hold[h].status = "ACTIVE" /\ hold[h].for = {d}
        /\ Usable(d) /\ amount <= hold[h].amount - hold[h].captured
        /\ deposit' = [deposit EXCEPT ![d].status = "PARTIALLY_DEDUCTED"]
    BY <1>6 DEF DeductHeld, ActiveHolds
  <2> DEFINE captured == hold[h].captured + amount
             row == [hold[h] EXCEPT !.captured = captured,
                       !.status = IF captured = hold[h].amount THEN "CAPTURED" ELSE "ACTIVE"]
  <2>3. /\ hold' = [hold EXCEPT ![h] = row] /\ row \in HoldRow /\ row.for = {d}
        /\ row.captured = captured /\ row.amount = hold[h].amount
        /\ row.status = IF captured = hold[h].amount THEN "CAPTURED" ELSE "ACTIVE"
    BY <2>1, <2>2, CapturedRow
  <2>4. hold[h].captured \in Nat /\ hold[h].amount \in Nat
    BY InvParts DEF HoldRow
  <2> HIDE DEF row
  <2>5. /\ HeldOn(hold', e) = HeldOn(hold, e) + Reserved(row, {e}) - Reserved(hold[h], {e})
        /\ HeldOn(hold', e) \in Int
    BY <2>3, HeldOnChanges
  <2>6. CASE d # e
    <3>1. Reserved(row, {e}) = 0 /\ Reserved(hold[h], {e}) = 0
      BY <2>2, <2>3, <2>6 DEF Reserved
    <3>2. HeldOn(hold', e) \in Int /\ HeldOn(hold', e) <= HeldOn(hold, e)
      BY <1>3, <2>5, <3>1
    <3>3. deposit'[e].status = deposit[e].status
      BY <1>2, <2>2, <2>6
    <3>4. \A r \in Requests : request[r].for = {e} /\ Open(r) => ReturnHold(r)' = ReturnHold(r)
      <4> SUFFICES ASSUME NEW r \in Requests, request[r].for = {e}, Open(r)
                   PROVE  ReturnHold(r)' = ReturnHold(r)
        OBVIOUS
      <4>1. ReturnHold(r).for = {e}
        BY OpenHolds
      <4>2. <<"return", r>> # h
        BY <2>2, <2>6, <4>1 DEF ReturnHold
      <4>3. <<"return", r>> \in HoldIds
        BY InvParts
      <4> QED BY <2>3, <4>2, <4>3, InvParts DEF ReturnHold, HoldTable
    <3> QED BY <1>1, <2>1, <2>2, <2>6, <3>2, <3>3, <3>4, KeptEasily
  <2>7. CASE d = e
    <3>1. Funded(txn', e) = Funded(txn, e) /\ Balance(txn', e) = Balance(txn, e) - amount /\ Kept(e)
      BY <1>1, <2>1, <2>2, <2>7
    <3>2. Reserved(hold[h], {e}) = hold[h].amount - hold[h].captured
      BY <2>2, <2>7 DEF Reserved
    <3>3. Reserved(row, {e}) = hold[h].amount - hold[h].captured - amount
      <4>1. CASE captured = hold[h].amount
        BY <2>1, <2>3, <2>4, <4>1 DEF Reserved
      <4>2. CASE captured # hold[h].amount
        BY <2>1, <2>3, <2>4, <2>7, <4>2 DEF Reserved
      <4> QED BY <4>1, <4>2
    <3>4. HeldOn(hold', e) = HeldOn(hold, e) - amount
      BY <1>3, <2>1, <2>4, <2>5, <3>2, <3>3
    <3>5. Balance(txn', e) >= HeldOn(hold', e)
      BY <1>3, <2>1, <3>1, <3>4 DEF Kept
    <3>6. deposit'[e].status = "PARTIALLY_DEDUCTED"
      BY <1>2, <2>2, <2>7 DEF DepositRow
    <3> QED BY <1>4, <2>2, <2>7, <3>1, <3>5, <3>6
  <2> QED BY <2>6, <2>7
<1> QED BY <1>5, <1>6 DEF Deducting

LEMMA KeptMarking ==
    ASSUME LedgerInv, PaidIsFunded, NEW e \in Deposits, Kept(e), Fading, Marking
    PROVE  Kept(e)'
<1>1. UNCHANGED <<txn, hold, request>> /\ deposit \in [Deposits -> DepositRow]
  BY WalletTypeParts, Frames DEF LedgerInv
<1>2. /\ Balance(txn, e) \in Int /\ Funded(txn, e) \in Int /\ Required[e] \in Nat \ {0}
      /\ HeldOn(hold, e) \in Nat
  BY DepositAmounts
<1>3. \A r \in Requests : (Open(r)' <=> Open(r)) /\ ReturnHold(r)' = ReturnHold(r)
  BY <1>1 DEF Open, Live, ReturnHold
<1>4. ASSUME deposit'[e].status = deposit[e].status
      PROVE  Kept(e)'
  BY <1>1, <1>3, <1>4 DEF Kept
\* Nothing asks for the return of a deposit that is not funded, or not yet locked.
<1>5. ASSUME deposit[e].status # "REFUND_REQUESTED",
             deposit'[e].status \in Settled => Funded(txn, e) = Required[e]
      PROVE  Kept(e)'
  <2>1. \A r \in Requests : ~(request[r].for = {e} /\ Open(r))
    BY <1>5 DEF Kept
  <2> QED BY <1>1, <1>3, <1>5, <2>1 DEF Kept
<1>6. ASSUME NEW d \in Deposits, VoidDeposit(d)
      PROVE  Kept(e)'
  <2>1. deposit' = [deposit EXCEPT ![d].status = "CANCELLED"] /\ Funded(txn, d) <= 0
    BY <1>6 DEF VoidDeposit
  <2>2. CASE d = e
    <3>1. deposit[e].status # "REFUND_REQUESTED"
      BY <1>2, <2>1, <2>2 DEF Kept, Settled
    <3>2. deposit'[e].status = "CANCELLED"
      BY <1>1, <2>1, <2>2 DEF DepositRow
    <3> QED BY <1>5, <3>1, <3>2 DEF Settled
  <2>3. CASE d # e
    BY <1>1, <1>4, <2>1, <2>3
  <2> QED BY <2>2, <2>3
<1>7. ASSUME NEW d \in Deposits, Lock(d)
      PROVE  Kept(e)'
  <2>1. /\ deposit' = [deposit EXCEPT ![d] = [status |-> "LOCKED", locked |-> TRUE]]
        /\ deposit[d].status = "PAID"
    BY <1>7 DEF Lock
  <2>2. CASE d = e
    <3>1. Funded(txn, e) = Required[e]
      BY <2>1, <2>2 DEF PaidIsFunded
    <3> QED BY <1>5, <2>1, <2>2, <3>1
  <2>3. CASE d # e
    BY <1>1, <1>4, <2>1, <2>3
  <2> QED BY <2>2, <2>3
<1> QED BY <1>6, <1>7 DEF Marking

LEMMA KeptHolding ==
    ASSUME LedgerInv, NEW e \in Deposits, Kept(e), Fading,
           NEW d \in Deposits, NEW amount \in Nat \ {0}, NEW h \in Holds, HoldDeposit(h, d, amount)
    PROVE  Kept(e)'
<1> DEFINE row == [NoHold EXCEPT !.status = "ACTIVE", !.amount = amount, !.for = {d}]
<1>1. /\ row \in HoldRow /\ Fits(row)
      /\ row.status = "ACTIVE" /\ row.amount = amount /\ row.captured = 0
      /\ row.for = {d}
  <2>1. {d} \in SUBSET Deposits
    OBVIOUS
  <2> HIDE DEF row
  <2> QED BY <2>1, NewHoldRow DEF row
<1>2. /\ hold' = [hold EXCEPT ![h] = row] /\ amount <= Refundable(txn, hold, d)
      /\ UNCHANGED <<txn, deposit, request>>
  BY DEF HoldDeposit, Reserve
<1>3. h \in HoldIds /\ \A r \in Requests : <<"return", r>> # h /\ <<"return", r>> \in HoldIds
  BY KeyAssumption DEF HoldIds
<1> HIDE DEF row
<1>4. \A r \in Requests : ReturnHold(r)' = ReturnHold(r)
  BY <1>2, <1>3, InvParts DEF ReturnHold, HoldTable
<1>5. \A r \in Requests : Open(r)' <=> Open(r)
  BY <1>2, <1>4 DEF Open, Live
<1>6. /\ HeldOn(hold', e) = HeldOn(hold, e) + Reserved(row, {e}) - Reserved(hold[h], {e})
      /\ Reserved(hold[h], {e}) \in Nat
  BY <1>1, <1>2, <1>3, HeldOnChanges
<1>7. Reserved(row, {e}) = IF d = e THEN amount ELSE 0
  BY <1>1 DEF Reserved
<1>8. /\ Balance(txn, e) \in Int /\ HeldOn(hold, e) \in Nat
      /\ Refundable(txn, hold, e) =
            IF Balance(txn, e) - HeldOn(hold, e) >= 0
            THEN Balance(txn, e) - HeldOn(hold, e) ELSE 0
  BY DepositAmounts
<1>9. Balance(txn, e) >= HeldOn(hold', e)
  <2>1. CASE d = e
    <3>1. HeldOn(hold, e) + amount <= Balance(txn, e)
      BY <1>2, <1>8, <2>1
    <3> QED BY <1>6, <1>7, <1>8, <2>1, <3>1
  <2>2. CASE d # e
    <3>1. Balance(txn, e) >= HeldOn(hold, e)
      BY DEF Kept
    <3> QED BY <1>6, <1>7, <1>8, <2>2, <3>1
  <2> QED BY <2>1, <2>2
<1> QED BY <1>2, <1>4, <1>5, <1>9 DEF Kept

LEMMA KeptAsking ==
    ASSUME LedgerInv, RequestsHold, NEW e \in Deposits, Kept(e), NEW d \in Deposits,
           NEW amount \in Nat \ {0}, NEW r \in Requests, NEW to \in {"cash", "offline"},
           RequestReturn(r, d, amount, to)
    PROVE  Kept(e)'
<1> DEFINE row == [NoHold EXCEPT !.status = "ACTIVE", !.amount = amount, !.for = {d}]
           h == <<"return", r>>
<1>1. /\ row \in HoldRow /\ Fits(row)
      /\ row.status = "ACTIVE" /\ row.amount = amount /\ row.captured = 0
      /\ row.for = {d}
  <2>1. {d} \in SUBSET Deposits
    OBVIOUS
  <2> HIDE DEF row
  <2> QED BY <2>1, NewHoldRow DEF row
<1>2. /\ hold' = [hold EXCEPT ![h] = row] /\ amount <= Refundable(txn, hold, d)
      /\ UNCHANGED txn /\ Usable(d) /\ HeldOn(hold, d) <= 0
      /\ deposit' = [deposit EXCEPT ![d].status = "REFUND_REQUESTED"]
  BY DEF RequestReturn, Reserve, EligibleForReturn
<1>3. h \in HoldIds /\ deposit \in [Deposits -> DepositRow]
  BY InvParts, WalletTypeParts DEF LedgerInv
<1>4. /\ request'[r].for = {d} /\ request'[r].amount = amount
      /\ \A q \in Requests \ {r} : request'[q] = request[q] /\ ReturnHold(q)' = ReturnHold(q)
      /\ ReturnHold(r)'.captured = 0 /\ ReturnHold(r)'.amount = amount
  BY AskedRows
<1> HIDE DEF row, h
<1>5. /\ HeldOn(hold', e) = HeldOn(hold, e) + Reserved(row, {e}) - Reserved(hold[h], {e})
      /\ Reserved(hold[h], {e}) \in Nat
  BY <1>1, <1>2, <1>3, HeldOnChanges
<1>6. Reserved(row, {e}) = IF d = e THEN amount ELSE 0
  BY <1>1 DEF Reserved
<1>7. /\ Balance(txn, e) \in Int /\ HeldOn(hold, e) \in Nat
      /\ Refundable(txn, hold, e) =
            IF Balance(txn, e) - HeldOn(hold, e) >= 0
            THEN Balance(txn, e) - HeldOn(hold, e) ELSE 0
  BY DepositAmounts
<1>8. Balance(txn, e) >= HeldOn(hold', e)
  <2>1. CASE d = e
    <3>1. HeldOn(hold, e) + amount <= Balance(txn, e)
      BY <1>2, <1>7, <2>1
    <3> QED BY <1>5, <1>6, <1>7, <2>1, <3>1
  <2>2. CASE d # e
    <3>1. Balance(txn, e) >= HeldOn(hold, e)
      BY DEF Kept
    <3> QED BY <1>5, <1>6, <1>7, <2>2, <3>1
  <2> QED BY <2>1, <2>2
<1>9. \A q \in Requests \ {r} : Open(q)' <=> Open(q)
  BY <1>4 DEF Open, Live
<1>10. CASE d = e
  <2>1. deposit'[e].status = "REFUND_REQUESTED"
    BY <1>2, <1>3, <1>10 DEF DepositRow
  <2>2. Funded(txn, e) = Required[e]
    BY <1>2, <1>10 DEF Kept, Usable, Settled
  <2>3. \A q \in Requests : Open(q) => request[q].for # {e}
    <3> SUFFICES ASSUME NEW q \in Requests, Open(q), request[q].for = {e}
                 PROVE  FALSE
      OBVIOUS
    <3>1. HeldOn(hold, e) > 0
      BY OpenHolds
    <3> QED BY <1>2, <1>7, <1>10, <3>1
  <2>4. \A q \in Requests : request'[q].for = {e} /\ Open(q)' => q = r
    BY <1>4, <1>9, <2>3
  <2> QED BY <1>2, <1>4, <1>8, <2>1, <2>2, <2>4 DEF Kept
<1>11. CASE d # e
  <2>1. deposit'[e] = deposit[e]
    BY <1>2, <1>3, <1>11
  <2>2. \A q \in Requests : request'[q].for = {e} => q # r
    BY <1>4, <1>11
  <2> QED BY <1>2, <1>4, <1>8, <1>9, <2>1, <2>2 DEF Kept
<1> QED BY <1>10, <1>11

LEMMA KeptFreeing ==
    ASSUME LedgerInv, NEW e \in Deposits, Kept(e), Fading, Freeing
    PROVE  Kept(e)'
<1>1. PICK h \in HoldIds, status \in {"RELEASED", "EXPIRED"} :
         hold' = [hold EXCEPT ![h].status = status]
  BY DEF Freeing, ReleaseDepositHold, ExpireDepositHold
<1> DEFINE row == [hold[h] EXCEPT !.status = status]
<1>2. hold' = [hold EXCEPT ![h] = row] /\ row \in HoldRow /\ row.status = status
  BY <1>1, EndedRow
<1> HIDE DEF row
<1>3. /\ HeldOn(hold', e) = HeldOn(hold, e) + Reserved(row, {e}) - Reserved(hold[h], {e})
      /\ HeldOn(hold, e) \in Int /\ HeldOn(hold', e) \in Int /\ Reserved(hold[h], {e}) \in Nat
  BY <1>2, HeldOnChanges
<1>4. Reserved(row, {e}) = 0
  BY <1>1, <1>2 DEF Reserved
<1>5. HeldOn(hold', e) <= HeldOn(hold, e)
  BY <1>3, <1>4
<1>6. UNCHANGED <<txn, deposit, request>>
  BY Frames
<1>7. ASSUME NEW r \in Requests, Open(r)'
      PROVE  ReturnHold(r)' = ReturnHold(r)
  <2>1. <<"return", r>> \in HoldIds
    BY InvParts
  <2>2. <<"return", r>> # h
    BY <1>1, <1>2, <1>7, <2>1, InvParts DEF Open, ReturnHold, HoldTable
  <2> QED BY <1>2, <2>1, <2>2, InvParts DEF ReturnHold, HoldTable
<1> QED BY <1>3, <1>5, <1>6, <1>7, KeptEasily

LEMMA KeptReturning ==
    ASSUME LedgerInv, RequestsHold, OneLiveReturn, NEW e \in Deposits,
           NeverReversed(e) => Kept(e), NeverReversed(e)', Fading, Returning
    PROVE  Kept(e)'
<1>1. deposit \in [Deposits -> DepositRow] /\ request \in [Requests -> RequestRow]
  BY WalletTypeParts DEF LedgerInv, DepositTypeOK, RequestRow
<1>2. ASSUME NEW r \in Requests, NEW d \in request[r].for, Completes(r, d), Live(r)
      PROVE  Kept(e)'
  <2> DEFINE h == <<"return", r>>
             row == [hold[h] EXCEPT !.status = "RELEASED"]
             cash == IF request[r].to = "cash" THEN request[r].amount ELSE 0
             paid == -request[r].amount
  <2>1. /\ hold[h].status = "ACTIVE" /\ hold' = [hold EXCEPT ![h].status = "RELEASED"]
        /\ request' = [request EXCEPT ![r].status = "RETURNED"]
        /\ \/ deposit' = [deposit EXCEPT ![d].status = "REFUNDED"]
           \/ deposit' = [deposit EXCEPT ![d].status = "PARTIALLY_DEDUCTED"]
    BY <1>2 DEF Completes
  <2>2. PICK holds : PostsAbout(h, About(d, "return", paid, cash), holds)
    BY <1>2 DEF Completes
  <2>3. /\ d \in Deposits /\ h \in Keys /\ h \in HoldIds /\ request[r].amount \in Nat
        /\ paid \in Int /\ cash \in Int /\ "return" \in Kinds
    BY InvParts DEF Keys, Kinds
  <2>4. hold' = [hold EXCEPT ![h] = row] /\ row \in HoldRow /\ row.status = "RELEASED"
    BY <2>1, <2>3, EndedRow
  <2>5. Open(r) /\ request[r].for = {d}
    BY <1>2, <2>1 DEF Open, ReturnHold, RequestsHold
  <2>6. ReturnHold(r) = hold[h] /\ hold[h].for = {d}
    BY <2>5, OpenHolds DEF ReturnHold
  <2> HIDE DEF h, row, cash, paid
  <2>7. /\ \A kinds : /\ EntriesFor(txn, e, kinds) \in Int
                      /\ EntriesFor(txn', e, kinds) = EntriesFor(txn, e, kinds)
                           + (IF e = d /\ "return" \in kinds THEN paid ELSE 0)
        /\ NeverReversed(e)' <=> NeverReversed(e)
    BY <2>2, <2>3, AboutEntries
  <2>8. Kept(e)
    BY <2>7
  <2>9. /\ HeldOn(hold', e) = HeldOn(hold, e) + Reserved(row, {e}) - Reserved(hold[h], {e})
        /\ HeldOn(hold, e) \in Int /\ HeldOn(hold', e) \in Int
    BY <2>3, <2>4, HeldOnChanges
  <2>10. Reserved(row, {e}) = 0
    BY <2>4 DEF Reserved
  <2>11. CASE d # e
    <3>1. Reserved(hold[h], {e}) = 0
      BY <2>6, <2>11 DEF Reserved
    <3>2. HeldOn(hold', e) <= HeldOn(hold, e)
      BY <2>9, <2>10, <3>1
    <3>3. \A kinds : EntriesFor(txn', e, kinds) = EntriesFor(txn, e, kinds)
      BY <2>7, <2>11
    <3>4. deposit'[e].status = deposit[e].status
      BY <1>1, <2>1, <2>11
    <3>5. ASSUME NEW q \in Requests, request[q].for = {e}
          PROVE  ReturnHold(q)' = ReturnHold(q)
      <4>1. q # r
        BY <2>5, <2>11, <3>5
      <4>2. <<"return", q>> \in HoldIds /\ <<"return", q>> # h
        BY <4>1, InvParts DEF h
      <4> QED BY <2>4, <4>2, InvParts DEF ReturnHold, HoldTable
    <3> QED BY <2>8, <2>9, <3>2, <3>3, <3>4, <3>5, KeptEasily
  <2>12. CASE d = e
    <3>1. /\ deposit[e].status = "REFUND_REQUESTED" /\ hold[h].captured = 0
          /\ hold[h].amount = request[r].amount /\ Funded(txn, e) = Required[e]
          /\ Balance(txn, e) >= HeldOn(hold, e)
      BY <2>5, <2>6, <2>8, <2>12 DEF Kept, Settled
    <3>2. Reserved(hold[h], {e}) = request[r].amount
      BY <2>1, <2>3, <2>6, <2>12, <3>1 DEF Reserved, h
    <3>3. HeldOn(hold', e) = HeldOn(hold, e) - request[r].amount
      BY <2>3, <2>9, <2>10, <3>2
    <3>4. Balance(txn', e) = Balance(txn, e) + paid /\ Funded(txn', e) = Funded(txn, e)
      BY <2>7, <2>12 DEF Balance, Funded
    <3>5. Balance(txn, e) \in Int
      BY DepositAmounts
    <3>6. Balance(txn', e) >= HeldOn(hold', e)
      BY <2>3, <2>9, <3>1, <3>3, <3>4, <3>5 DEF paid
    <3>7. ASSUME NEW q \in Requests, request'[q].for = {e}, Open(q)'
          PROVE  FALSE
      <4>1. Open(q) /\ request[q].for = {e}
        BY <3>7 DEF Fading, Open
      <4>2. q = r
        BY <2>5, <2>12, <4>1, OneOpen
      <4> QED BY <1>1, <2>1, <3>7, <4>2 DEF Open, Live, RequestRow
    <3> QED BY <3>1, <3>4, <3>6, <3>7 DEF Kept
  <2> QED BY <2>11, <2>12
<1>3. ASSUME NEW r \in Requests, Live(r), request' = [request EXCEPT ![r].status = "PROCESSING"],
             UNCHANGED <<txn, hold, deposit>>
      PROVE  Kept(e)'
  <2>1. Kept(e)
    BY <1>3 DEF NeverReversed
  <2>2. HeldOn(hold', e) \in Int /\ HeldOn(hold', e) <= HeldOn(hold, e)
    BY <1>3, DepositAmounts
  <2>3. \A q \in Requests : ReturnHold(q)' = ReturnHold(q)
    BY <1>3 DEF ReturnHold
  <2> QED BY <1>3, <2>1, <2>2, <2>3, KeptEasily
<1> QED BY <1>2, <1>3 DEF Returning, ApproveReturn, CompleteManualReturn, Live

LEMMA KeptUndoing ==
    ASSUME LedgerInv, KindsFit, NEW e \in Deposits, NeverReversed(e) => Kept(e), NeverReversed(e)',
           Fading, Undoing
    PROVE  Kept(e)'
<1>0. UNCHANGED <<hold, request>> /\ deposit \in [Deposits -> DepositRow]
  BY WalletTypeParts, Frames DEF LedgerInv
<1>1. ASSUME NEW u \in Undos, NEW k \in asked[u], Posts(u, Negative(EntriesOf(k)), {k})
      PROVE  /\ \A kinds : EntriesFor(txn', e, kinds) = EntriesFor(txn, e, kinds)
             /\ Kept(e) /\ e \notin txn[k].for /\ txn[k].for \subseteq Deposits
  <2>1. /\ \A kinds : /\ EntriesFor(txn, e, kinds) \in Int
                      /\ EntriesFor(txn', e, kinds) = EntriesFor(txn, e, kinds)
                           - (IF txn[k].for = {e} /\ txn[k].kind \in kinds
                              THEN txn[k].deposit ELSE 0)
        /\ NeverReversed(e)' => NeverReversed(e) /\ txn[k].for # {e}
    BY <1>1, UndoEntries
  <2>2. k \in DOMAIN txn
    BY DEF LedgerInv, ReadsExist
  <2>3. e \in txn[k].for => txn[k].for = {e}
    BY <2>2 DEF KindsFit
  <2>4. txn[k].for \subseteq Deposits
    BY <2>2, InvParts DEF TxnOK, TxnRow
  <2> QED BY <2>1, <2>3, <2>4
<1>2. ASSUME \A kinds : EntriesFor(txn', e, kinds) = EntriesFor(txn, e, kinds),
             Kept(e), deposit'[e].status = deposit[e].status
      PROVE  Kept(e)'
  <2>1. HeldOn(hold', e) \in Int /\ HeldOn(hold', e) <= HeldOn(hold, e)
    BY <1>0, DepositAmounts
  <2>2. \A r \in Requests : ReturnHold(r)' = ReturnHold(r)
    BY <1>0 DEF ReturnHold
  <2> QED BY <1>2, <2>1, <2>2, KeptEasily
<1>3. ASSUME NEW u \in Undos, Reverse(u, Billed)
      PROVE  Kept(e)'
  <2>1. PICK k \in asked[u] : /\ Posts(u, Negative(EntriesOf(k)), {k})
                              /\ deposit' = Reconciled(txn', txn[k].for)
    BY <1>3 DEF Reverse
  <2>2. deposit'[e] = deposit[e]
    BY <1>1, <2>1 DEF Reconciled
  <2> QED BY <1>1, <1>2, <2>1, <2>2
<1>4. ASSUME NEW u \in Undos, ReverseFunding(u)
      PROVE  Kept(e)'
  <2>1. PICK k \in asked[u] : /\ Posts(u, Negative(EntriesOf(k)), {k})
                              /\ \E d \in txn[k].for : \E s : deposit' = [deposit EXCEPT ![d].status = s]
    BY <1>4 DEF ReverseFunding
  <2>2. deposit'[e] = deposit[e]
    BY <1>0, <1>1, <2>1
  <2> QED BY <1>1, <1>2, <2>1, <2>2
<1> QED BY <1>3, <1>4 DEF Undoing

LEMMA KeptNext ==
    ASSUME LedgerInv, DepositInv, ReturnInv, DepositNext, NEW e \in Deposits, NeverReversed(e)'
    PROVE  Kept(e)'
<1>1. /\ NeverReversed(e) => Kept(e)
      /\ RequestsHold /\ OneLiveReturn /\ PaidIsFunded /\ KindsFit
  BY KeptMeans DEF ReturnInv, DepositInv
<1>2. UNCHANGED txn => Kept(e)
  BY <1>1 DEF NeverReversed
<1>3. CASE Asking
  <2>1. UNCHANGED txn
    BY <1>3 DEF Asking, RequestReturn
  <2>2. \A d \in Deposits : Required[d] \in Nat
    BY WalletAssumption
  <2> QED BY <1>1, <1>2, <1>3, <2>1, <2>2, KeptAsking DEF Asking
<1>4. CASE ~Asking
  <2>1. Fading
    BY <1>4, Fades
  <2>2. CASE Requesting \/ Posting \/ HoldingCash \/ Rewarding
    <3>1. /\ \A kinds : EntriesFor(txn', e, kinds) = EntriesFor(txn, e, kinds)
          /\ Kept(e)
      BY <1>1, <2>2, EntriesAside
    <3>2. HeldOn(hold', e) = HeldOn(hold, e) /\ \A r \in Requests : ReturnHold(r)' = ReturnHold(r)
      BY <2>2, HoldsAside DEF ReturnHold
    <3>3. HeldOn(hold', e) \in Int /\ HeldOn(hold', e) <= HeldOn(hold, e)
      BY <3>2, DepositAmounts
    <3>4. deposit' = deposit
      BY <2>2, Frames
    <3> QED BY <2>1, <3>1, <3>2, <3>3, <3>4, KeptEasily
  <2>3. CASE Undoing
    BY <1>1, <2>1, <2>3, KeptUndoing
  <2>4. CASE Funding
    BY <1>1, <2>1, <2>4, KeptFunding
  <2>5. CASE Deducting
    BY <1>1, <2>1, <2>5, KeptDeducting
  <2>6. CASE Marking
    <3>1. UNCHANGED txn
      BY <2>6, Frames
    <3> QED BY <1>1, <1>2, <2>1, <2>6, <3>1, KeptMarking
  <2>7. CASE Reserving
    <3>1. UNCHANGED txn
      BY <2>7, Frames
    <3>2. PICK d \in Deposits : \E amount \in 1..Required[d] : \E h \in Holds :
                                   HoldDeposit(h, d, amount)
      BY <1>4, <2>7 DEF Reserving, Asking
    <3>3. Required[d] \in Nat
      BY WalletAssumption
    <3> QED BY <1>2, <2>1, <3>1, <3>2, <3>3, KeptHolding
  <2>8. CASE Freeing
    <3>1. UNCHANGED txn
      BY <2>8, Frames
    <3> QED BY <1>2, <2>1, <2>8, <3>1, KeptFreeing
  <2>9. CASE Returning
    BY <1>1, <2>1, <2>9, KeptReturning
  <2> QED BY <2>2, <2>3, <2>4, <2>5, <2>6, <2>7, <2>8, <2>9, Groups
<1> QED BY <1>3, <1>4

LEMMA ReturnStarts ==
    ASSUME DepositInit
    PROVE  DepositInv /\ ReturnInv
<1>1. DOMAIN txn = {}
  BY NothingPosted
<1>2. \A d, kinds : EntriesFor(txn, d, kinds) = 0
  <2> TAKE d, kinds
  <2> DEFINE f == [k \in DOMAIN txn |-> txn[k].deposit]
  <2>1. EntriesFor(txn, d, kinds) = SumFunctionOnSet(f, {})
    BY <1>1 DEF EntriesFor
  <2> HIDE DEF f
  <2> QED BY <2>1, SumOfNone
<1>3. \A d \in Deposits : Required[d] \in Nat /\ deposit[d].status = "PENDING"
  BY WalletAssumption DEF DepositInit, WalletInit
<1>4. DepositInv
  BY <1>1, <1>2, <1>3 DEF DepositInv, KindsFit, FundedUpTo, PaidIsFunded, Funded
<1>5. \A r \in Requests : ~Live(r)
  BY DEF DepositInit, Idle, Live
<1>6. RequestsHold /\ OneLiveReturn
  BY <1>5, OneOpen DEF RequestsHold, Open
<1>7. \A d \in Deposits : HeldOn(hold, d) = 0 /\ Balance(txn, d) = 0
  BY <1>2, NothingPosted DEF HeldOn, HeldFor, Balance
<1>8. \A d \in Deposits : Kept(d)
  BY <1>3, <1>5, <1>7 DEF Kept, Settled, Open
<1> QED BY <1>4, <1>6, <1>8, KeptMeans DEF ReturnInv

LEMMA ReturnNext ==
    ASSUME LedgerInv, DepositInv, ReturnInv, [DepositNext]_depositVars
    PROVE  DepositInv' /\ ReturnInv'
<1>1. CASE DepositNext
  <2>1. DepositInv'
    <3>1. KindsFit'
      BY <1>1, KindsFitNext DEF DepositInv
    <3>2. \A e \in Deposits : PaidUpTo(e)'
      BY <1>1, PaidNext
    <3> QED BY <3>1, <3>2 DEF DepositInv, FundedUpTo, PaidIsFunded, PaidUpTo
  <2>2. RequestsHold' /\ OneLiveReturn'
    BY <1>1, RequestsNext DEF ReturnInv
  <2>3. \A e \in Deposits : NeverReversed(e)' => Kept(e)'
    BY <1>1, KeptNext
  <2> QED BY <2>1, <2>2, <2>3, KeptMeans DEF ReturnInv
<1>2. CASE UNCHANGED depositVars
  <2> USE <1>2 DEF depositVars, walletVars
  <2>1. DepositInv'
    BY DEF DepositInv, KindsFit, FundedUpTo, PaidIsFunded, Funded, EntriesFor
  <2>2. RequestsHold' /\ OneLiveReturn'
    BY DEF ReturnInv, RequestsHold, OneLiveReturn, Live, ReturnHold
  <2>3. \A e : HeldOn(hold', e) = HeldOn(hold, e) /\ Balance(txn', e) = Balance(txn, e)
               /\ Funded(txn', e) = Funded(txn, e) /\ (NeverReversed(e)' <=> NeverReversed(e))
    BY DEF NeverReversed
  <2>4. \A e \in Deposits : NeverReversed(e)' => Kept(e)'
    <3> TAKE e \in Deposits
    <3>1. \A r \in Requests : (Open(r)' <=> Open(r)) /\ ReturnHold(r)' = ReturnHold(r)
      BY DEF Open, Live, ReturnHold
    <3>2. NeverReversed(e) => Kept(e)
      BY KeptMeans DEF ReturnInv
    <3> QED BY <2>3, <3>1, <3>2 DEF Kept
  <2> QED BY <2>1, <2>2, <2>4, KeptMeans DEF ReturnInv
<1> QED BY <1>1, <1>2

LEMMA ReturnsStay == DepositSpec => [](DepositInv /\ ReturnInv)
<1>1. DepositInit => DepositInv /\ ReturnInv
  BY ReturnStarts
<1>2. LedgerInv /\ DepositInv /\ ReturnInv /\ [DepositNext]_depositVars => DepositInv' /\ ReturnInv'
  BY ReturnNext
<1> QED BY <1>1, <1>2, WalletTypes, PTL DEF DepositSpec

\* No two open requests pay the same deposit back, in any order of requests, reversals
\* that open the deposit again, released holds and approvals.
THEOREM OneReturnIsOpen == DepositSpec => []OneLiveReturn
<1>1. ReturnInv => OneLiveReturn
  BY DEF ReturnInv
<1> QED BY <1>1, ReturnsStay, PTL

\* The holds of a deposit never exceed its own part of the shared account, until one
\* of its transactions is reversed.
THEOREM HeldMoneyIsCovered == DepositSpec => []DepositsStayCovered
<1>1. ReturnInv => DepositsStayCovered
  BY DEF ReturnInv
<1> QED BY <1>1, ReturnsStay, PTL

-----------------------------------------------------------------------------
(* What a posting takes from the lots *)

\* A set of lots has one that expires last.
LEMMA LastExpires ==
    \A s \in SUBSET Lots : s # {} => \E x \in s : \A y \in s : Expires[y] <= Expires[x]
<1> DEFINE HasLast(s) == s # {} => \E x \in s : \A y \in s : Expires[y] <= Expires[x]
           Good == {s \in SUBSET Lots : HasLast(s)}
<1>1. ASSUME NEW s \in SUBSET Lots, \A x \in s : s \ {x} \in Good PROVE s \in Good
  <2>1. SUFFICES ASSUME s # {} PROVE \E x \in s : \A y \in s : Expires[y] <= Expires[x]
    OBVIOUS
  <2>2. PICK z \in s : TRUE
    BY <2>1
  <2>3. \A y \in s : Expires[y] \in Nat
    BY WalletAssumption
  <2>4. CASE s \ {z} = {}
    <3>1. \A y \in s : y = z
      BY <2>4
    <3> QED BY <2>2, <2>3, <3>1
  <2>5. CASE s \ {z} # {}
    <3>1. PICK x \in s \ {z} : \A y \in s \ {z} : Expires[y] <= Expires[x]
      BY <1>1, <2>2, <2>5
    <3>2. CASE Expires[z] <= Expires[x]
      BY <3>1, <3>2
    <3>3. CASE ~(Expires[z] <= Expires[x])
      <4>1. \A y \in s : Expires[y] <= Expires[z]
        BY <2>2, <2>3, <3>1, <3>3
      <4> QED BY <2>2, <4>1
    <3> QED BY <3>2, <3>3
  <2> QED BY <2>4, <2>5
<1> HIDE DEF Good
<1>2. Good \in SUBSET SUBSET Lots /\ IsFiniteSet(Lots)
  BY WalletAssumption DEF Good
<1>3. \A s \in SUBSET Lots : s \in Good
  BY <1>1, <1>2, SubsetInduction
<1> QED BY <1>3 DEF Good

\* Together the lots give the debit, or all they have.
LEMMA UsedUp ==
    ASSUME LotsOK, NEW move \in MoveRow, NEW target
    PROVE  LET all == Remaining(Eligible(target))
               debit == RewardDebit(move)
           IN  SumFunctionOnSet([l \in Lots |-> Used(l, move, target)], Lots)
                 = IF debit <= all THEN debit ELSE all
<1> DEFINE E == Eligible(target)
           D == RewardDebit(move)
           u == [l \in Lots |-> Used(l, move, target)]
           Earlier(l) == {e \in E : Expires[e] < Expires[l]}
           Closed(s) == s \subseteq E /\ \A x \in s : Earlier(x) \subseteq s
           Exact(s) == SumFunctionOnSet(u, s)
                         = IF D <= Remaining(s) THEN D ELSE Remaining(s)
           Good == {s \in SUBSET Lots : Closed(s) => Exact(s)}
<1>1. E \in SUBSET Lots /\ IsFiniteSet(Lots)
  BY WalletAssumption DEF Eligible, Tracked
<1>2. D \in Nat
  BY MaxOfTwo DEF RewardDebit, MoveRow
<1>3. \A l \in Lots : /\ u[l] \in Nat /\ lot[l].remaining \in Nat
                      /\ l \notin E => u[l] = 0
                      /\ Expires[l] \in Nat
                      /\ \A m \in Lots : Expires[l] = Expires[m] => l = m
  BY UsedType, WalletAssumption DEF LotsOK
<1>4. \A s \in SUBSET Lots : Remaining(s) \in Nat /\ IsFiniteSet(s)
  BY <1>1, RemainingType, FS_Subset
<1>5. \A l \in E : u[l] = LET rest == D - Remaining(Earlier(l))
                          IN  IF rest <= 0 THEN 0
                              ELSE IF rest <= lot[l].remaining THEN rest ELSE lot[l].remaining
  <2> TAKE l \in E
  <2> DEFINE rest == D - Remaining(Earlier(l))
             least == Min({lot[l].remaining, rest})
  <2>1. Earlier(l) \in SUBSET Lots /\ l \in Lots
    BY <1>1
  <2>2. rest \in Int /\ lot[l].remaining \in Nat
    BY <1>2, <1>3, <1>4, <2>1
  <2>3. u[l] = Max({0, least})
    BY <2>1 DEF Used
  <2> HIDE DEF rest
  <2>4. least = IF lot[l].remaining <= rest THEN lot[l].remaining ELSE rest
    BY <2>2, MinOfTwo
  <2>5. least \in Int
    BY <2>2, <2>4
  <2> HIDE DEF least
  <2>6. u[l] = IF 0 >= least THEN 0 ELSE least
    BY <2>3, <2>5, MaxOfTwo
  <2>7. u[l] = IF rest <= 0 THEN 0
               ELSE IF rest <= lot[l].remaining THEN rest ELSE lot[l].remaining
    BY <2>2, <2>4, <2>6
  <2> QED BY <2>7 DEF rest
<1>6. ASSUME NEW s \in SUBSET Lots, \A x \in s : s \ {x} \in Good PROVE s \in Good
  <2>1. SUFFICES ASSUME Closed(s) PROVE Exact(s)
    OBVIOUS
  <2>2. CASE s = {}
    <3>1. SumFunctionOnSet(u, s) = 0 /\ Remaining(s) = 0
      <4> HIDE DEF u
      <4> QED BY <2>2, SumOfNone DEF Remaining
    <3> QED BY <1>2, <3>1
  <2>3. CASE s # {}
    <3>1. PICK x \in s : \A y \in s : Expires[y] <= Expires[x]
      BY <2>3, LastExpires
    <3> DEFINE t == s \ {x}
    <3>2. x \in E /\ t \in SUBSET Lots /\ t \in Good
      BY <1>6, <2>1, <3>1
    <3>3. \A y \in t : Expires[y] < Expires[x]
      BY <1>3, <3>1
    <3>4. t = Earlier(x)
      BY <1>3, <2>1, <3>1, <3>2, <3>3
    <3>5. Closed(t)
      <4>1. ASSUME NEW y \in t, NEW e \in Earlier(y) PROVE e \in t
        <5>1. e \in s /\ Expires[e] < Expires[y]
          BY <2>1, <4>1
        <5>2. Expires[y] \in Nat /\ Expires[x] \in Nat /\ Expires[y] < Expires[x]
          BY <1>3, <3>1, <3>3, <4>1
        <5>3. e # x
          BY <5>1, <5>2
        <5> QED BY <5>1, <5>3
      <4> QED BY <2>1, <4>1
    <3>6. Exact(t)
      BY <3>2, <3>5
    <3>7. SumFunctionOnSet(u, s) = u[x] + SumFunctionOnSet(u, t)
      <4>1. \A y \in s : u[y] \in Int
        BY <1>3
      <4> HIDE DEF u
      <4> QED BY <1>4, <3>1, <4>1, SumTakesOut
    <3>8. Remaining(s) = lot[x].remaining + Remaining(t)
      <4> DEFINE r == [l \in Lots |-> lot[l].remaining]
      <4>1. (\A y \in s : r[y] \in Int) /\ r[x] = lot[x].remaining
        BY <1>3
      <4>2. Remaining(s) = SumFunctionOnSet(r, s) /\ Remaining(t) = SumFunctionOnSet(r, t)
        BY DEF Remaining
      <4> HIDE DEF r
      <4> QED BY <1>4, <3>1, <4>1, <4>2, SumTakesOut
    <3>9. u[x] = LET rest == D - Remaining(t)
                 IN  IF rest <= 0 THEN 0
                     ELSE IF rest <= lot[x].remaining THEN rest ELSE lot[x].remaining
      BY <1>5, <3>2, <3>4
    <3>10. lot[x].remaining \in Nat /\ Remaining(t) \in Nat
      BY <1>3, <1>4, <3>2
    <3> HIDE DEF t, u, D
    <3> QED BY <1>2, <3>6, <3>7, <3>8, <3>9, <3>10
  <2> QED BY <2>2, <2>3
<1> HIDE DEF Good
<1>7. Good \in SUBSET SUBSET Lots
  BY DEF Good
<1>8. \A s \in SUBSET Lots : s \in Good
  BY <1>1, <1>6, <1>7, SubsetInduction
<1>9. Exact(E)
  BY <1>1, <1>8 DEF Good
<1>10. SumFunctionOnSet(u, Lots) = SumFunctionOnSet(u, E)
  <2>1. (\A l \in E : u[l] \in Int) /\ \A l \in Lots \ E : u[l] = 0
    BY <1>1, <1>3
  <2> HIDE DEF u, E
  <2> QED BY <1>1, <2>1, SumSkipsZeros
<1> QED BY <1>9, <1>10

-----------------------------------------------------------------------------
(* What the ledger says of a lot *)

\* Taken from lot l by transactions that stand.
Spent(l) == Restored(l, {k \in DOMAIN txn : txn[k].status = "POSTED"})

\* Added to the rewards when lot l expired or was reversed, a negative amount.
Ended(l) == SumFunctionOnSet([k \in DOMAIN txn |-> txn[k].reward],
                             DOMAIN txn \cap {<<"expire", l>>, <<"reverse", l>>})

LEMMA ConservedMeans ==
    LotConserved <=> \A l \in Lots : <<"claim", l>> \in DOMAIN txn =>
                        Amount[l] = lot[l].remaining + Spent(l) - Ended(l)
BY DEF LotConserved, Spent, Ended

LEMMA SpentType ==
    ASSUME TxnOK, LedgerFinite, NEW l \in Lots
    PROVE  Spent(l) \in Nat /\ Ended(l) \in Int
<1>1. Spent(l) \in Nat
  BY RestoredType DEF Spent
<1> DEFINE f == [k \in DOMAIN txn |-> txn[k].reward]
           S == DOMAIN txn \cap {<<"expire", l>>, <<"reverse", l>>}
<1>2. IsFiniteSet(S) /\ \A k \in S : f[k] \in Int
  <2>1. S \in SUBSET DOMAIN txn
    OBVIOUS
  <2> QED BY <2>1, FS_Subset DEF LedgerFinite, TxnOK, TxnRow
<1>3. Ended(l) = SumFunctionOnSet(f, S)
  BY DEF Ended
<1> HIDE DEF f, S
<1> QED BY <1>1, <1>2, <1>3, SumIsInt

\* A reversal takes what its original had spent out of the account.
LEMMA SpentNext ==
    ASSUME TxnOK, LotsOK, LedgerFinite, NEW k \in Keys, k \notin DOMAIN txn,
           NEW move \in MoveRow, NEW of \in SUBSET DOMAIN txn,
           \A o \in of : txn[o].status = "POSTED",
           NEW target, Write(k, move, of, target), NEW l \in Lots
    PROVE  Spent(l)' = Spent(l) + txn'[k].spent[l] - Restored(l, of)
<1> DEFINE D == DOMAIN txn
           stand == {j \in D : txn[j].status = "POSTED"}
           kept == stand \ of
           f == [j \in D |-> txn[j].spent[l]]
           g == [j \in D \cup {k} |-> txn'[j].spent[l]]
<1>0. Added(k, move, of, target) /\ TxnOK'
  BY WriteAdds
<1>1. DOMAIN txn' = D \cup {k} /\ k \notin kept /\ txn'[k].status = "POSTED"
  BY <1>0 DEF Added
<1>2. \A j \in D : /\ txn'[j].status = IF j \in of THEN "REVERSED" ELSE txn[j].status
                   /\ txn'[j].spent = txn[j].spent
  BY <1>0 DEF Added
<1>3. {j \in D \cup {k} : txn'[j].status = "POSTED"} = kept \cup {k}
  BY <1>1, <1>2
<1>4. stand = kept \cup of /\ kept \cap of = {}
  OBVIOUS
<1>5. Spent(l) = SumFunctionOnSet(f, kept \cup of) /\ Restored(l, of) = SumFunctionOnSet(f, of)
  BY <1>4 DEF Spent, Restored
<1>6. Spent(l)' = SumFunctionOnSet(g, kept \cup {k})
  BY <1>1, <1>3 DEF Spent, Restored
<1>7. \A j \in D : f[j] \in Int
  BY DEF TxnOK, TxnRow
<1>8. \A j \in D : g[j] = f[j]
  BY <1>2
<1>9. g[k] = txn'[k].spent[l] /\ g[k] \in Int
  BY <1>0, <1>1 DEF TxnOK, TxnRow
<1>10. IsFiniteSet(kept) /\ IsFiniteSet(of)
  <2>1. kept \in SUBSET D
    OBVIOUS
  <2> QED BY <2>1, FS_Subset DEF LedgerFinite
<1>11. (\A j \in kept : f[j] \in Int /\ g[j] = f[j]) /\ \A j \in kept \cup of : f[j] \in Int
  BY <1>7, <1>8
<1> HIDE DEF f, g, kept, stand, D
<1>12. SumFunctionOnSet(f, kept \cup of) = SumFunctionOnSet(f, kept) + SumFunctionOnSet(f, of)
  BY <1>4, <1>10, <1>11, SumOfUnion
<1>13. SumFunctionOnSet(g, kept \cup {k}) = SumFunctionOnSet(f, kept) + g[k]
  BY <1>1, <1>9, <1>10, <1>11, SumGrows
<1>14. SumFunctionOnSet(f, kept) \in Int /\ SumFunctionOnSet(f, of) \in Int
  BY <1>10, <1>11, SumIsInt
<1> QED BY <1>5, <1>6, <1>9, <1>12, <1>13, <1>14

LEMMA EndedNext ==
    ASSUME TxnOK, LotsOK, LedgerFinite, NEW k \in Keys, k \notin DOMAIN txn,
           NEW move \in MoveRow, NEW of \in SUBSET DOMAIN txn,
           NEW target, Write(k, move, of, target), NEW l \in Lots
    PROVE  Ended(l)' = IF k \in {<<"expire", l>>, <<"reverse", l>>}
                       THEN Ended(l) + move.reward ELSE Ended(l)
<1> DEFINE D == DOMAIN txn
           ends == {<<"expire", l>>, <<"reverse", l>>}
           S == D \cap ends
           f == [j \in D |-> txn[j].reward]
           g == [j \in D \cup {k} |-> txn'[j].reward]
<1>0. Added(k, move, of, target)
  BY WriteAdds
<1>1. DOMAIN txn' = D \cup {k} /\ k \notin S
  BY <1>0 DEF Added
<1>2. Ended(l) = SumFunctionOnSet(f, S) /\ Ended(l)' = SumFunctionOnSet(g, (D \cup {k}) \cap ends)
  BY <1>1 DEF Ended
<1>3. (D \cup {k}) \cap ends = IF k \in ends THEN S \cup {k} ELSE S
  OBVIOUS
<1>4. \A j \in S : f[j] \in Int /\ g[j] = f[j]
  BY <1>0 DEF TxnOK, TxnRow, Added
<1>5. g[k] = move.reward /\ move.reward \in Int
  <2>1. txn'[k].reward = move.reward
    BY <1>0 DEF Added
  <2> QED BY <2>1 DEF MoveRow
<1>6. IsFiniteSet(S)
  <2>1. S \in SUBSET D
    OBVIOUS
  <2> QED BY <2>1, FS_Subset DEF LedgerFinite
<1> HIDE DEF S, f, g
<1>7. SumFunctionOnSet(g, S) = SumFunctionOnSet(f, S)
  BY <1>4, <1>6, SumOfSame
<1>8. SumFunctionOnSet(g, S \cup {k}) = SumFunctionOnSet(f, S) + g[k]
  BY <1>1, <1>4, <1>5, <1>6, SumGrows
<1> QED BY <1>2, <1>3, <1>5, <1>7, <1>8

\* The lots after they gave and got back.
LEMMA RemainingNext ==
    ASSUME LotsOK, NEW u \in [Lots -> Nat], NEW b \in [Lots -> Nat],
           \A l \in Lots : lot'[l].remaining = lot[l].remaining - u[l] + b[l]
    PROVE  /\ SumFunctionOnSet(u, Lots) \in Nat /\ SumFunctionOnSet(b, Lots) \in Nat
           /\ Remaining(Lots)' = Remaining(Lots) - SumFunctionOnSet(u, Lots)
                                    + SumFunctionOnSet(b, Lots)
<1> DEFINE f == [l \in Lots |-> lot[l].remaining]
           g == [l \in Lots |-> u[l] - b[l]]
           h == [l \in Lots |-> lot'[l].remaining]
<1>1. IsFiniteSet(Lots)
  BY WalletAssumption
<1>2. Remaining(Lots) = SumFunctionOnSet(f, Lots) /\ Remaining(Lots)' = SumFunctionOnSet(h, Lots)
  BY DEF Remaining
<1>3. \A l \in Lots : /\ f[l] \in Int /\ g[l] \in Int /\ h[l] = f[l] - g[l]
                      /\ u[l] \in Int /\ b[l] \in Int /\ g[l] = u[l] - b[l]
                      /\ u[l] \in Nat /\ b[l] \in Nat
  BY DEF LotsOK
<1> HIDE DEF f, g, h
<1>4. SumFunctionOnSet(u, Lots) \in Nat /\ SumFunctionOnSet(b, Lots) \in Nat
  BY <1>1, <1>3, SumIsNat
<1>5. SumFunctionOnSet(f, Lots) \in Int
  BY <1>1, <1>3, SumIsInt
<1>6. SumFunctionOnSet(h, Lots) = SumFunctionOnSet(f, Lots) - SumFunctionOnSet(g, Lots)
  BY <1>1, <1>3, SumOfDifferences
<1>7. SumFunctionOnSet(g, Lots) = SumFunctionOnSet(u, Lots) - SumFunctionOnSet(b, Lots)
  BY <1>1, <1>3, SumOfDifferences
<1> QED BY <1>2, <1>4, <1>5, <1>6, <1>7

\* Only lots that can be used have something left.
LEMMA TrackedIsAll ==
    ASSUME LotsOK, AvailableLots
    PROVE  Remaining(Tracked) = Remaining(Lots)
<1> DEFINE f == [l \in Lots |-> lot[l].remaining]
<1>1. Tracked \in SUBSET Lots /\ IsFiniteSet(Lots)
  BY WalletAssumption DEF Tracked
<1>2. (\A l \in Tracked : f[l] \in Int) /\ \A l \in Lots \ Tracked : f[l] = 0
  BY DEF Tracked, LotsOK, AvailableLots
<1>3. Remaining(Tracked) = SumFunctionOnSet(f, Tracked) /\ Remaining(Lots) = SumFunctionOnSet(f, Lots)
  BY DEF Remaining
<1> HIDE DEF f
<1> QED BY <1>1, <1>2, <1>3, SumSkipsZeros

LEMMA RestoredParts ==
    ASSUME TxnOK, LedgerFinite, NEW l \in Lots
    PROVE  /\ Restored(l, {}) = 0
           /\ \A o \in DOMAIN txn : Restored(l, {o}) = txn[o].spent[l]
<1> DEFINE f == [o \in DOMAIN txn |-> txn[o].spent[l]]
<1>1. \A of : Restored(l, of) = SumFunctionOnSet(f, of)
  BY DEF Restored
<1>2. \A o \in DOMAIN txn : f[o] \in Int /\ f[o] = txn[o].spent[l]
  BY DEF TxnOK, TxnRow
<1> HIDE DEF f
<1>3. SumFunctionOnSet(f, {}) = 0
  BY SumOfNone
<1>4. ASSUME NEW o \in DOMAIN txn PROVE SumFunctionOnSet(f, {o}) = f[o]
  <2>1. IsFiniteSet({o}) /\ {o} \ {o} = {}
    BY FS_Singleton
  <2>2. o \in {o} /\ \A x \in {o} : f[x] \in Int
    BY <1>2, <1>4
  <2>3. SumFunctionOnSet(f, {o}) = f[o] + SumFunctionOnSet(f, {o} \ {o})
    BY <2>1, <2>2, SumTakesOut
  <2>4. SumFunctionOnSet(f, {o} \ {o}) = 0
    BY <1>3, <2>1
  <2>5. f[o] \in Int
    BY <1>2, <1>4
  <2> QED BY <2>3, <2>4, <2>5
<1> QED BY <1>1, <1>2, <1>3, <1>4

\* An ordinary posting, or the reversal of one: it takes from the lots what is due,
\* those that expire first first, and gives back what its original took.
Drawn(k, move, of) ==
    /\ k \in Keys \ (({"claim", "expire", "reverse"} \X Lots) \cup DOMAIN txn)
    /\ Write(k, move, of, {})
    /\ \A o \in of : txn[o].status = "POSTED"
    /\ \/ of = {}
       \/ \E o \in DOMAIN txn : of = {o} /\ move.reward = -txn[o].reward
    /\ RewardDebit(move) <= Remaining(Eligible({})) + Legacy({})
    /\ \A l \in Lots :
          /\ lot'[l].remaining = lot[l].remaining - Used(l, move, {}) + Restored(l, of)
          /\ \/ lot'[l].status = "AVAILABLE" \/ lot'[l].remaining = 0 \/ lot'[l] = lot[l]
    /\ UNCHANGED claim

LEMMA DrawnConserves ==
    ASSUME TxnOK, LotsOK, LedgerFinite, LotInv, NEW k, NEW move \in MoveRow,
           NEW of \in SUBSET DOMAIN txn, Drawn(k, move, of)
    PROVE  CreditedFirst' /\ LotConserved'
<1>1. /\ k \in Keys /\ k \notin DOMAIN txn /\ Write(k, move, of, {})
      /\ (\A o \in of : txn[o].status = "POSTED") /\ UNCHANGED claim
      /\ \A l \in Lots : /\ k # <<"claim", l>> /\ k # <<"expire", l>> /\ k # <<"reverse", l>>
                         /\ lot'[l].remaining
                              = lot[l].remaining - Used(l, move, {}) + Restored(l, of)
  BY DEF Drawn
<1>2. Added(k, move, of, {})
  BY <1>1, WriteAdds
<1>3. /\ DOMAIN txn' = DOMAIN txn \cup {k}
      /\ \A l \in Lots : txn'[k].spent[l] = Used(l, move, {})
      /\ \A j \in DOMAIN txn : txn'[j].spent = txn[j].spent
  BY <1>2 DEF Added
<1>4. \A l \in Lots : /\ Used(l, move, {}) \in Nat /\ Used(l, move, {}) <= lot[l].remaining
                      /\ Restored(l, of) \in Nat /\ lot[l].remaining \in Nat
                      /\ Spent(l) \in Nat /\ Ended(l) \in Int
  BY UsedType, RestoredType, SpentType DEF LotsOK
<1>5. CreditedFirst'
  <2> SUFFICES ASSUME NEW l \in Lots
               PROVE  /\ claim'[l] # "APPROVED" => <<"claim", l>> \in DOMAIN txn'
                      /\ <<"claim", l>> \notin DOMAIN txn' =>
                           /\ lot'[l].remaining = 0
                           /\ \A j \in DOMAIN txn' : txn'[j].spent[l] = 0
                           /\ {<<"expire", l>>, <<"reverse", l>>} \cap DOMAIN txn' = {}
    BY DEF CreditedFirst
  <2>1. /\ claim[l] # "APPROVED" => <<"claim", l>> \in DOMAIN txn
        /\ <<"claim", l>> \notin DOMAIN txn =>
             /\ lot[l].remaining = 0
             /\ \A j \in DOMAIN txn : txn[j].spent[l] = 0
             /\ {<<"expire", l>>, <<"reverse", l>>} \cap DOMAIN txn = {}
    BY DEF LotInv, CreditedFirst
  <2>2. ASSUME \A j \in DOMAIN txn : txn[j].spent[l] = 0 PROVE Restored(l, of) = 0
    <3> DEFINE f == [o \in DOMAIN txn |-> txn[o].spent[l]]
    <3>1. IsFiniteSet(of) /\ \A o \in of : f[o] = 0
      BY <2>2, FS_Subset DEF LedgerFinite
    <3>2. Restored(l, of) = SumFunctionOnSet(f, of)
      BY DEF Restored
    <3> HIDE DEF f
    <3> QED BY <3>1, <3>2, SumOfZeros
  <2>3. ASSUME <<"claim", l>> \notin DOMAIN txn
        PROVE  /\ lot'[l].remaining = 0
               /\ \A j \in DOMAIN txn' : txn'[j].spent[l] = 0
               /\ {<<"expire", l>>, <<"reverse", l>>} \cap DOMAIN txn' = {}
    <3>1. Used(l, move, {}) = 0 /\ lot'[l].remaining = 0
      BY <1>1, <1>4, <2>1, <2>2, <2>3
    <3> QED BY <1>1, <1>3, <2>1, <2>3, <3>1
  <2> QED BY <1>1, <1>3, <2>1, <2>3
<1>6. LotConserved'
  <2>1. ASSUME NEW l \in Lots, <<"claim", l>> \in DOMAIN txn'
        PROVE  Amount[l] = lot'[l].remaining + Spent(l)' - Ended(l)'
    <3>1. <<"claim", l>> \in DOMAIN txn
      BY <1>1, <1>3, <2>1
    <3>2. Amount[l] = lot[l].remaining + Spent(l) - Ended(l)
      BY <3>1, ConservedMeans DEF LotInv
    <3>3. Spent(l)' = Spent(l) + Used(l, move, {}) - Restored(l, of)
      BY <1>1, <1>3, SpentNext
    <3>4. Ended(l)' = Ended(l)
      BY <1>1, EndedNext
    <3> QED BY <1>1, <1>4, <3>2, <3>3, <3>4
  <2> QED BY <2>1 DEF LotConserved, Spent, Ended
<1> QED BY <1>5, <1>6

LEMMA DebitType ==
    ASSUME NEW move, move.reward \in Int
    PROVE  RewardDebit(move) = IF move.reward < 0 THEN -move.reward ELSE 0
<1>1. Max({0, -move.reward}) = IF 0 >= -move.reward THEN 0 ELSE -move.reward
  BY MaxOfTwo
<1> QED BY <1>1 DEF RewardDebit

LEMMA SpentRow ==
    ASSUME NEW row \in TxnRow
    PROVE  /\ SumFunction(row.spent) = SumFunctionOnSet(row.spent, Lots)
           /\ Max({0, -row.reward}) = IF row.reward < 0 THEN -row.reward ELSE 0
<1>1. row.reward \in Int /\ -row.reward \in Int /\ DOMAIN row.spent = Lots
  BY DEF TxnRow
<1> DEFINE r == -row.reward
<1>2. Max({0, r}) = IF 0 >= r THEN 0 ELSE r
  <2> HIDE DEF r
  <2> QED BY <1>1, MaxOfTwo DEF r
<1> QED BY <1>1, <1>2 DEF SumFunction

\* A transaction spends from the lots at most its reward.
LEMMA SpentMeans ==
    ASSUME TxnOK
    PROVE  SpentWithin <=> \A k \in DOMAIN txn : SumFunctionOnSet(txn[k].spent, Lots)
                                <= IF txn[k].reward < 0 THEN -txn[k].reward ELSE 0
BY SpentRow DEF TxnOK, SpentWithin

LEMMA SpentWithinNext ==
    ASSUME TxnOK, LotsOK, LedgerFinite, SpentWithin, NEW k \in Keys, k \notin DOMAIN txn,
           NEW move \in MoveRow, NEW of \in SUBSET DOMAIN txn, NEW target,
           Write(k, move, of, target)
    PROVE  SpentWithin'
<1> DEFINE u == [l \in Lots |-> Used(l, move, target)]
           debit == IF move.reward < 0 THEN -move.reward ELSE 0
<1>1. Added(k, move, of, target) /\ TxnOK'
  BY WriteAdds
<1>2. /\ DOMAIN txn' = DOMAIN txn \cup {k} /\ txn'[k].reward = move.reward
      /\ txn'[k].spent = IF target = {} THEN u ELSE NothingSpent
      /\ \A j \in DOMAIN txn : txn'[j].spent = txn[j].spent /\ txn'[j].reward = txn[j].reward
  BY <1>1 DEF Added
<1>3. \A j \in DOMAIN txn : SumFunctionOnSet(txn[j].spent, Lots)
                              <= IF txn[j].reward < 0 THEN -txn[j].reward ELSE 0
  BY SpentMeans
<1>4. SumFunctionOnSet(u, Lots) <= debit
  <2> DEFINE all == Remaining(Eligible(target))
             paid == RewardDebit(move)
  <2>1. SumFunctionOnSet(u, Lots) = IF paid <= all THEN paid ELSE all
    BY UsedUp
  <2>2. Eligible(target) \in SUBSET Lots
    BY DEF Eligible, Tracked
  <2>3. all \in Nat
    BY <2>2, RemainingType
  <2>4. move.reward \in Int /\ paid = debit
    BY DebitType DEF MoveRow
  <2> QED BY <2>1, <2>3, <2>4
<1>5. SumFunctionOnSet(NothingSpent, Lots) = 0
  BY WalletAssumption, SumOfZeros DEF NothingSpent
<1>6. 0 <= debit
  BY DEF MoveRow
<1>7. SumFunctionOnSet(txn'[k].spent, Lots) <= debit
  <2> HIDE DEF u, debit
  <2> QED BY <1>2, <1>4, <1>5, <1>6
<1>8. \A j \in DOMAIN txn' : SumFunctionOnSet(txn'[j].spent, Lots)
                               <= IF txn'[j].reward < 0 THEN -txn'[j].reward ELSE 0
  <2> HIDE DEF u
  <2> QED BY <1>2, <1>3, <1>7
<1>9. SpentWithin' <=> \A j \in DOMAIN txn' : SumFunctionOnSet(txn'[j].spent, Lots)
                                <= IF txn'[j].reward < 0 THEN -txn'[j].reward ELSE 0
  BY <1>1, SpentRow DEF TxnOK, SpentWithin
<1> QED BY <1>8, <1>9

LEMMA DrawnCovers ==
    ASSUME TxnOK, LotsOK, LedgerFinite, LotInv, NEW k, NEW move \in MoveRow,
           NEW of \in SUBSET DOMAIN txn, Drawn(k, move, of)
    PROVE  AvailableLots' /\ RewardsCovered'
<1> DEFINE u == [l \in Lots |-> Used(l, move, {})]
           b == [l \in Lots |-> Restored(l, of)]
           used == SumFunctionOnSet(u, Lots)
           back == SumFunctionOnSet(b, Lots)
           all == Remaining(Lots)
           eligible == Remaining(Eligible({}))
           debit == RewardDebit(move)
<1>1. /\ k \in Keys /\ k \notin DOMAIN txn /\ Write(k, move, of, {})
      /\ debit <= eligible + Legacy({})
      /\ \A l \in Lots :
            /\ lot'[l].remaining = lot[l].remaining - Used(l, move, {}) + Restored(l, of)
            /\ \/ lot'[l].status = "AVAILABLE" \/ lot'[l].remaining = 0 \/ lot'[l] = lot[l]
  BY DEF Drawn
<1>2. AvailableLots'
  <2>1. \A l \in Lots : lot[l].remaining > 0 => lot[l].status = "AVAILABLE"
    BY DEF LotInv, AvailableLots
  <2>2. \A l \in Lots : lot'[l].remaining > 0 => lot'[l].status = "AVAILABLE"
    <3> TAKE l \in Lots
    <3>1. lot'[l].remaining = 0 => ~(lot'[l].remaining > 0)
      OBVIOUS
    <3> QED BY <1>1, <2>1, <3>1
  <2> QED BY <2>2 DEF AvailableLots
<1>3. u \in [Lots -> Nat] /\ b \in [Lots -> Nat]
  BY UsedType, RestoredType
<1>4. used \in Nat /\ back \in Nat /\ Remaining(Lots)' = all - used + back
  <2>1. \A l \in Lots : lot'[l].remaining = lot[l].remaining - u[l] + b[l]
    BY <1>1
  <2> HIDE DEF u, b
  <2> QED BY <1>3, <2>1, RemainingNext
<1>5. used = IF debit <= eligible THEN debit ELSE eligible
  BY UsedUp
<1>6. RewardTotal \in Int /\ RewardTotal' = RewardTotal + move.reward /\ move.reward \in Int
  BY <1>1, WriteTotals DEF MoveRow
<1>7. debit = IF move.reward < 0 THEN -move.reward ELSE 0
  BY <1>6, DebitType
<1>8. all \in Nat /\ eligible \in Nat /\ eligible <= all
  <2> DEFINE f == [l \in Lots |-> lot[l].remaining]
  <2>1. Eligible({}) \in SUBSET Lots /\ IsFiniteSet(Lots) /\ \A l \in Lots : f[l] \in Nat
    BY WalletAssumption DEF Eligible, Tracked, LotsOK
  <2>2. all = SumFunctionOnSet(f, Lots) /\ eligible = SumFunctionOnSet(f, Eligible({}))
    BY DEF Remaining
  <2>3. all \in Nat /\ eligible \in Nat
    BY <2>1, RemainingType
  <2> HIDE DEF f, all, eligible
  <2>4. SumFunctionOnSet(f, Eligible({})) <= SumFunctionOnSet(f, Lots)
    BY <2>1, SumOfPart
  <2> QED BY <2>2, <2>3, <2>4
<1>9. all <= RewardTotal
  BY DEF LotInv, RewardsCovered
<1>10. Legacy({}) = RewardTotal - all
  <2>1. Remaining(Tracked) = all
    BY TrackedIsAll DEF LotInv
  <2>2. Legacy({}) = Max({0, RewardTotal - all})
    BY <2>1 DEF Legacy
  <2> DEFINE rest == RewardTotal - all
  <2>3. rest \in Int /\ rest >= 0
    BY <1>6, <1>8, <1>9
  <2> HIDE DEF rest
  <2>4. Max({0, rest}) = rest
    BY <2>3, MaxOfTwo
  <2> QED BY <2>2, <2>4 DEF rest
<1>11. move.reward >= 0 => back <= move.reward
  <2>1. CASE of = {}
    <3>1. \A l \in Lots : b[l] = 0
      BY <2>1, RestoredParts
    <3>2. IsFiniteSet(Lots)
      BY WalletAssumption
    <3> HIDE DEF b
    <3>3. back = 0
      BY <3>1, <3>2, SumOfZeros
    <3> QED BY <3>3
  <2>2. ASSUME NEW o \in DOMAIN txn, of = {o}, move.reward = -txn[o].reward
        PROVE  move.reward >= 0 => back <= move.reward
    <3>1. b = txn[o].spent
      BY <2>2, RestoredParts DEF TxnOK, TxnRow
    <3>2. back <= IF txn[o].reward < 0 THEN -txn[o].reward ELSE 0
      BY <3>1, SpentMeans DEF LotInv
    <3>3. txn[o].reward \in Int
      BY DEF TxnOK, TxnRow
    <3> HIDE DEF b, back
    <3> QED BY <1>4, <2>2, <3>2, <3>3
  <2> QED BY <2>1, <2>2 DEF Drawn
<1>12. move.reward < 0 => back = 0
  <2>1. CASE of = {}
    <3>1. \A l \in Lots : b[l] = 0
      BY <2>1, RestoredParts
    <3>2. IsFiniteSet(Lots)
      BY WalletAssumption
    <3> HIDE DEF b
    <3>3. back = 0
      BY <3>1, <3>2, SumOfZeros
    <3> QED BY <3>3
  <2>2. ASSUME NEW o \in DOMAIN txn, of = {o}, move.reward = -txn[o].reward
        PROVE  move.reward < 0 => back = 0
    <3>1. b = txn[o].spent
      BY <2>2, RestoredParts DEF TxnOK, TxnRow
    <3>2. back <= IF txn[o].reward < 0 THEN -txn[o].reward ELSE 0
      BY <3>1, SpentMeans DEF LotInv
    <3>3. txn[o].reward \in Int
      BY DEF TxnOK, TxnRow
    <3> HIDE DEF b, back
    <3> QED BY <1>4, <2>2, <3>2, <3>3
  <2> QED BY <2>1, <2>2 DEF Drawn
<1>13. Remaining(Lots)' <= RewardTotal'
  <2> HIDE DEF u, b, used, back, all, eligible, debit
  <2>1. CASE move.reward >= 0
    BY <1>4, <1>6, <1>8, <1>9, <1>11, <2>1
  <2>2. CASE move.reward < 0
    <3>1. back = 0 /\ debit = -move.reward
      BY <1>6, <1>7, <1>12, <2>2
    <3>2. CASE debit <= eligible
      <4>1. used = debit
        BY <1>5, <3>2
      <4> QED BY <1>4, <1>6, <1>8, <1>9, <3>1, <4>1
    <3>3. CASE ~(debit <= eligible)
      <4>1. used = eligible
        BY <1>5, <3>3
      <4>2. debit <= eligible + (RewardTotal - all)
        BY <1>1, <1>10 DEF debit, eligible, all
      <4> QED BY <1>4, <1>6, <1>8, <3>1, <4>1, <4>2
    <3> QED BY <3>2, <3>3
  <2> QED BY <1>6, <2>1, <2>2
<1> QED BY <1>2, <1>13 DEF RewardsCovered

LEMMA DrawnKeeps ==
    ASSUME TxnOK, LotsOK, LedgerFinite, LotInv, NEW k, NEW move \in MoveRow,
           NEW of \in SUBSET DOMAIN txn, Drawn(k, move, of)
    PROVE  LotInv'
<1>1. CreditedFirst' /\ LotConserved'
  BY DrawnConserves
<1>2. AvailableLots' /\ RewardsCovered'
  BY DrawnCovers
<1>3. SpentWithin'
  <2>1. k \in Keys /\ k \notin DOMAIN txn /\ Write(k, move, of, {})
    BY DEF Drawn
  <2> QED BY <2>1, SpentWithinNext DEF LotInv
<1> QED BY <1>1, <1>2, <1>3 DEF LotInv

\* A posting that is accepted takes from the lots.
LEMMA PostsDraws ==
    ASSUME TxnOK, LotsOK, LedgerFinite, LotInv, NEW move \in MoveRow,
           NEW k \in Keys \ ({"claim", "expire", "reverse"} \X Lots),
           NEW of \in SUBSET DOMAIN txn, Posts(k, move, of), UNCHANGED claim,
           \/ of = {}
           \/ \E o \in DOMAIN txn : of = {o} /\ move.reward = -txn[o].reward
    PROVE  LotInv'
<1>1. /\ k \notin DOMAIN txn /\ Write(k, move, of, {})
      /\ (\A o \in of : txn[o].status = "POSTED")
      /\ RewardDebit(move) <= Remaining(Eligible({})) + Legacy({})
      /\ lot' = LotsAfter(move, of, {}, "CONSUMED")
  BY DEF Posts, Accepts, Fresh
<1>2. \A l \in Lots :
         /\ lot'[l].remaining = lot[l].remaining - Used(l, move, {}) + Restored(l, of)
         /\ \/ lot'[l].status = "AVAILABLE" \/ lot'[l].remaining = 0 \/ lot'[l] = lot[l]
  BY <1>1, LotsAfterType
<1>3. Drawn(k, move, of)
  BY <1>1, <1>2 DEF Drawn
<1> QED BY <1>3, DrawnKeeps

\* A posting without a reward leaves the lots alone.
LEMMA QuietDraws ==
    ASSUME TxnOK, LotsOK, LedgerFinite, LotInv, NEW move \in MoveRow, move.reward = 0,
           NEW k \in Keys \ ({"claim", "expire", "reverse"} \X Lots), k \notin DOMAIN txn,
           Write(k, move, {}, {}), UNCHANGED rewardVars
    PROVE  LotInv'
<1>1. \A l \in Lots : Used(l, move, {}) = 0 /\ Restored(l, {}) = 0 /\ lot[l].remaining \in Nat
  <2> TAKE l \in Lots
  <2>1. Restored(l, {}) = 0
    BY RestoredParts
  <2>2. Used(l, move, {}) = 0
    <3>1. move.reward >= 0
      OBVIOUS
    <3> QED BY <3>1, UsedType
  <2> QED BY <2>1, <2>2 DEF LotsOK
<1>2. RewardDebit(move) <= Remaining(Eligible({})) + Legacy({})
  <2>1. RewardDebit(move) = 0
    BY DebitType
  <2>2. Eligible({}) \in SUBSET Lots /\ Tracked \in SUBSET Lots
    BY DEF Eligible, Tracked
  <2>3. Remaining(Eligible({})) \in Nat /\ Remaining(Tracked) \in Nat
    BY <2>2, RemainingType
  <2> DEFINE rest == RewardTotal - Remaining(Tracked)
  <2>4. rest \in Int
    BY <2>3, TotalsType
  <2>5. Legacy({}) = Max({0, rest})
    BY DEF Legacy
  <2> HIDE DEF rest
  <2>6. Legacy({}) = IF 0 >= rest THEN 0 ELSE rest
    BY <2>4, <2>5, MaxOfTwo
  <2> QED BY <2>1, <2>3, <2>4, <2>6
<1>3. \A l \in Lots : lot'[l] = lot[l] /\ lot'[l].remaining
                         = lot[l].remaining - Used(l, move, {}) + Restored(l, {})
  BY <1>1 DEF rewardVars
<1>4. Drawn(k, move, {})
  BY <1>2, <1>3 DEF Drawn, rewardVars
<1> QED BY <1>4, DrawnKeeps

LEMMA AboutDraws ==
    ASSUME TxnOK, LotsOK, LedgerFinite, LotInv, NEW d \in Deposits, NEW kind \in Kinds,
           NEW amount \in Int, NEW cash \in Int, NEW holds,
           NEW k \in Keys \ ({"claim", "expire", "reverse"} \X Lots),
           PostsAbout(k, About(d, kind, amount, cash), holds), UNCHANGED rewardVars
    PROVE  LotInv'
<1>1. k \notin DOMAIN txn /\ Write(k, About(d, kind, amount, cash), {}, {})
  BY DEF PostsAbout, Fresh
<1>2. About(d, kind, amount, cash) \in MoveRow /\ About(d, kind, amount, cash).reward = 0
  BY AboutType
<1> QED BY <1>1, <1>2, QuietDraws

LEMMA LotsUnmoved ==
    ASSUME LotInv, UNCHANGED <<txn, lot, claim>>
    PROVE  LotInv'
<1>1. AvailableLots' /\ CreditedFirst' /\ SpentWithin'
  BY DEF LotInv, AvailableLots, CreditedFirst, SpentWithin
<1>2. Remaining(Lots)' = Remaining(Lots) /\ RewardTotal' = RewardTotal
  BY DEF Remaining, RewardTotal
<1>3. RewardsCovered'
  BY <1>2 DEF LotInv, RewardsCovered
<1>4. LotConserved'
  BY DEF LotInv, LotConserved, Restored
<1> QED BY <1>1, <1>3, <1>4 DEF LotInv

LEMMA RemainingOne ==
    ASSUME LotsOK, NEW l \in Lots, lot'[l].remaining \in Nat,
           \A m \in Lots \ {l} : lot'[m].remaining = lot[m].remaining
    PROVE  Remaining(Lots)' = Remaining(Lots) + lot'[l].remaining - lot[l].remaining
<1> DEFINE f == [m \in Lots |-> lot[m].remaining]
           g == [m \in Lots |-> lot'[m].remaining]
<1>1. IsFiniteSet(Lots)
  BY WalletAssumption
<1>2. Remaining(Lots) = SumFunctionOnSet(f, Lots) /\ Remaining(Lots)' = SumFunctionOnSet(g, Lots)
  BY DEF Remaining
<1>3. \A m \in Lots : f[m] \in Int /\ g[m] \in Int
  BY DEF LotsOK
<1>4. (\A m \in Lots \ {l} : f[m] = g[m]) /\ f[l] = lot[l].remaining /\ g[l] = lot'[l].remaining
  OBVIOUS
<1> HIDE DEF f, g
<1>5. SumFunctionOnSet(g, Lots) = SumFunctionOnSet(f, Lots) + g[l] - f[l]
  BY <1>1, <1>3, <1>4, SumOneChanges
<1> QED BY <1>2, <1>4, <1>5

\* Nothing is known of a lot before its claim is credited.
LEMMA Untouched ==
    ASSUME TxnOK, LedgerFinite, CreditedFirst, NEW l \in Lots, <<"claim", l>> \notin DOMAIN txn
    PROVE  lot[l].remaining = 0 /\ Spent(l) = 0 /\ Ended(l) = 0
<1> DEFINE f == [o \in DOMAIN txn |-> txn[o].spent[l]]
           r == [k \in DOMAIN txn |-> txn[k].reward]
           stand == {k \in DOMAIN txn : txn[k].status = "POSTED"}
<1>1. /\ lot[l].remaining = 0
      /\ \A k \in DOMAIN txn : txn[k].spent[l] = 0
      /\ {<<"expire", l>>, <<"reverse", l>>} \cap DOMAIN txn = {}
  BY DEF CreditedFirst
<1>2. Spent(l) = SumFunctionOnSet(f, stand) /\ \A o \in stand : f[o] = 0
  BY <1>1 DEF Spent, Restored
<1>3. IsFiniteSet(stand)
  <2>1. stand \in SUBSET DOMAIN txn
    OBVIOUS
  <2> QED BY <2>1, FS_Subset DEF LedgerFinite
<1>4. DOMAIN txn \cap {<<"expire", l>>, <<"reverse", l>>} = {}
  BY <1>1
<1>5. Ended(l) = SumFunctionOnSet(r, {})
  BY <1>4 DEF Ended
<1> HIDE DEF f, r, stand
<1> QED BY <1>1, <1>2, <1>3, <1>5, SumOfZeros, SumOfNone

\* A posting for one lot, with which its life ends.
LEMMA EndingKeeps ==
    ASSUME TxnOK, LotsOK, LedgerFinite, LotInv, NEW l \in Lots, <<"claim", l>> \in DOMAIN txn,
           NEW k \in {<<"expire", l>>, <<"reverse", l>>}, k \notin DOMAIN txn,
           Write(k, Move(0, -lot[l].remaining), {}, {l}), lot'[l].remaining = 0,
           \A m \in Lots \ {l} : /\ lot'[m].remaining = lot[m].remaining
                                 /\ \/ lot'[m].status = "AVAILABLE"
                                    \/ lot'[m].remaining = 0
                                    \/ lot'[m] = lot[m],
           \A m \in Lots \ {l} : claim'[m] = claim[m]
    PROVE  LotInv'
<1> DEFINE left == lot[l].remaining
           move == Move(0, -left)
<1>1. \A m \in Lots : lot[m].remaining \in Nat /\ Spent(m) \in Nat /\ Ended(m) \in Int
  BY SpentType DEF LotsOK
<1>2. move \in MoveRow /\ move.reward = -left /\ left \in Nat /\ k \in Keys
  <2>1. -left \in Int /\ left \in Nat /\ k \in Keys
    BY <1>1 DEF Keys
  <2> HIDE DEF left
  <2> QED BY <2>1, MoveType
<1>3. Write(k, move, {}, {l})
  OBVIOUS
<1> HIDE DEF move, left
<1>4. Added(k, move, {}, {l})
  BY <1>2, <1>3, WriteAdds
<1>5. /\ DOMAIN txn' = DOMAIN txn \cup {k}
      /\ \A m \in Lots : txn'[k].spent[m] = 0
      /\ \A j \in DOMAIN txn : txn'[j].spent = txn[j].spent
  BY <1>4 DEF Added, NothingSpent
<1>6. SpentWithin'
  BY <1>2, <1>3, SpentWithinNext DEF LotInv
<1>7. AvailableLots'
  <2>1. \A m \in Lots : lot[m].remaining > 0 => lot[m].status = "AVAILABLE"
    BY DEF LotInv, AvailableLots
  <2>2. \A m \in Lots : lot'[m].remaining > 0 => lot'[m].status = "AVAILABLE"
    <3> TAKE m \in Lots
    <3>1. lot'[m].remaining = 0 => ~(lot'[m].remaining > 0)
      OBVIOUS
    <3> QED BY <2>1, <3>1
  <2> QED BY <2>2 DEF AvailableLots
<1>8. RewardsCovered'
  <2>1. Remaining(Lots)' = Remaining(Lots) + lot'[l].remaining - lot[l].remaining
    BY RemainingOne
  <2>2. RewardTotal' = RewardTotal + move.reward /\ RewardTotal \in Int
    BY <1>2, <1>3, WriteTotals
  <2>3. Remaining(Lots) \in Nat
    BY RemainingType
  <2> QED BY <1>2, <2>1, <2>2, <2>3 DEF LotInv, RewardsCovered, left
<1>9. CreditedFirst'
  <2> SUFFICES ASSUME NEW m \in Lots
               PROVE  /\ claim'[m] # "APPROVED" => <<"claim", m>> \in DOMAIN txn'
                      /\ <<"claim", m>> \notin DOMAIN txn' =>
                           /\ lot'[m].remaining = 0
                           /\ \A j \in DOMAIN txn' : txn'[j].spent[m] = 0
                           /\ {<<"expire", m>>, <<"reverse", m>>} \cap DOMAIN txn' = {}
    BY DEF CreditedFirst
  <2>1. CASE m = l
    BY <1>5, <2>1
  <2>2. CASE m # l
    <3>1. /\ claim[m] # "APPROVED" => <<"claim", m>> \in DOMAIN txn
          /\ <<"claim", m>> \notin DOMAIN txn =>
               /\ lot[m].remaining = 0
               /\ \A j \in DOMAIN txn : txn[j].spent[m] = 0
               /\ {<<"expire", m>>, <<"reverse", m>>} \cap DOMAIN txn = {}
      BY DEF LotInv, CreditedFirst
    <3>2. k # <<"expire", m>> /\ k # <<"reverse", m>> /\ claim'[m] = claim[m]
          /\ lot'[m].remaining = lot[m].remaining
      BY <2>2
    <3> QED BY <1>5, <3>1, <3>2
  <2> QED BY <2>1, <2>2
<1>10. LotConserved'
  <2>1. ASSUME NEW m \in Lots, <<"claim", m>> \in DOMAIN txn'
        PROVE  Amount[m] = lot'[m].remaining + Spent(m)' - Ended(m)'
    <3>1. <<"claim", m>> \in DOMAIN txn
      BY <1>5, <2>1
    <3>2. Amount[m] = lot[m].remaining + Spent(m) - Ended(m)
      BY <3>1, ConservedMeans DEF LotInv
    <3>3. Spent(m)' = Spent(m)
      <4>1. Spent(m)' = Spent(m) + txn'[k].spent[m] - Restored(m, {})
        BY <1>2, <1>3, SpentNext
      <4>2. Restored(m, {}) = 0
        BY RestoredParts
      <4> QED BY <1>1, <1>5, <4>1, <4>2
    <3>4. Ended(m)' = IF k \in {<<"expire", m>>, <<"reverse", m>>}
                      THEN Ended(m) + move.reward ELSE Ended(m)
      BY <1>2, <1>3, EndedNext
    <3>5. CASE m = l
      BY <1>1, <1>2, <3>2, <3>3, <3>4, <3>5 DEF left
    <3>6. CASE m # l
      <4>1. k \notin {<<"expire", m>>, <<"reverse", m>>}
        BY <3>6
      <4> QED BY <1>1, <3>2, <3>3, <3>4, <3>6, <4>1
    <3> QED BY <3>5, <3>6
  <2> QED BY <2>1 DEF LotConserved, Spent, Ended
<1> QED BY <1>6, <1>7, <1>8, <1>9, <1>10 DEF LotInv

LEMMA CreditKeeps ==
    ASSUME TxnOK, LotsOK, LedgerFinite, LotInv,
           claim \in [Lots -> {"APPROVED", "CREDITED", "EXPIRED", "REVERSED"}],
           NEW l \in Lots, CreditReward(l)
    PROVE  LotInv'
<1> DEFINE move == Move(0, Amount[l])
           k == <<"claim", l>>
<1>1. /\ k \notin DOMAIN txn /\ Write(k, move, {}, {})
      /\ lot' = [lot EXCEPT ![l] = [status |-> "AVAILABLE", remaining |-> Amount[l]]]
      /\ claim' = [claim EXCEPT ![l] = "CREDITED"]
  BY DEF CreditReward, Accepts, Fresh
<1>2. move \in MoveRow /\ move.reward = Amount[l] /\ Amount[l] \in Nat \ {0} /\ k \in Keys
  <2>1. Amount[l] \in Nat \ {0} /\ 0 \in Int /\ k \in Keys
    BY WalletAssumption DEF Keys
  <2> QED BY <2>1, MoveType
<1>3. \A m \in Lots : k # <<"expire", m>> /\ k # <<"reverse", m>> /\ (m # l => k # <<"claim", m>>)
  OBVIOUS
<1>4. k = <<"claim", l>>
  OBVIOUS
<1> HIDE DEF move, k
<1>5. \A m \in Lots : lot[m].remaining \in Nat /\ Spent(m) \in Nat /\ Ended(m) \in Int
  BY SpentType DEF LotsOK
<1>6. Added(k, move, {}, {})
  BY <1>1, <1>2, WriteAdds
<1>7. /\ DOMAIN txn' = DOMAIN txn \cup {k}
      /\ \A m \in Lots : txn'[k].spent[m] = 0
      /\ \A j \in DOMAIN txn : txn'[j].spent = txn[j].spent
  <2>1. \A m \in Lots : Used(m, move, {}) = 0
    <3>1. move.reward >= 0
      BY <1>2
    <3> QED BY <1>2, <3>1, UsedType
  <2> QED BY <1>6, <2>1 DEF Added
<1>8. lot[l].remaining = 0 /\ Spent(l) = 0 /\ Ended(l) = 0
  BY <1>1, <1>4, Untouched DEF LotInv
<1>9. /\ lot'[l].remaining = Amount[l] /\ lot'[l].status = "AVAILABLE"
      /\ \A m \in Lots \ {l} : lot'[m] = lot[m] /\ claim'[m] = claim[m]
  BY <1>1 DEF LotsOK
<1>10. SpentWithin'
  BY <1>1, <1>2, SpentWithinNext DEF LotInv
<1>11. AvailableLots'
  BY <1>9 DEF LotInv, AvailableLots
<1>12. RewardsCovered'
  <2>1. Remaining(Lots)' = Remaining(Lots) + lot'[l].remaining - lot[l].remaining
    BY <1>2, <1>9, RemainingOne
  <2>2. RewardTotal' = RewardTotal + move.reward /\ RewardTotal \in Int
    BY <1>1, <1>2, WriteTotals
  <2>3. Remaining(Lots) \in Nat
    BY RemainingType
  <2> QED BY <1>2, <1>8, <1>9, <2>1, <2>2, <2>3 DEF LotInv, RewardsCovered
<1>13. CreditedFirst'
  <2> SUFFICES ASSUME NEW m \in Lots
               PROVE  /\ claim'[m] # "APPROVED" => <<"claim", m>> \in DOMAIN txn'
                      /\ <<"claim", m>> \notin DOMAIN txn' =>
                           /\ lot'[m].remaining = 0
                           /\ \A j \in DOMAIN txn' : txn'[j].spent[m] = 0
                           /\ {<<"expire", m>>, <<"reverse", m>>} \cap DOMAIN txn' = {}
    BY DEF CreditedFirst
  <2>1. CASE m = l
    BY <1>4, <1>7, <2>1
  <2>2. CASE m # l
    <3>1. /\ claim[m] # "APPROVED" => <<"claim", m>> \in DOMAIN txn
          /\ <<"claim", m>> \notin DOMAIN txn =>
               /\ lot[m].remaining = 0
               /\ \A j \in DOMAIN txn : txn[j].spent[m] = 0
               /\ {<<"expire", m>>, <<"reverse", m>>} \cap DOMAIN txn = {}
      BY DEF LotInv, CreditedFirst
    <3> QED BY <1>3, <1>7, <1>9, <2>2, <3>1
  <2> QED BY <2>1, <2>2
<1>14. LotConserved'
  <2>1. ASSUME NEW m \in Lots, <<"claim", m>> \in DOMAIN txn'
        PROVE  Amount[m] = lot'[m].remaining + Spent(m)' - Ended(m)'
    <3>1. Spent(m)' = Spent(m)
      <4>1. Spent(m)' = Spent(m) + txn'[k].spent[m] - Restored(m, {})
        BY <1>1, <1>2, SpentNext
      <4>2. Restored(m, {}) = 0
        BY RestoredParts
      <4> QED BY <1>5, <1>7, <4>1, <4>2
    <3>2. Ended(m)' = Ended(m)
      BY <1>1, <1>2, <1>3, EndedNext
    <3>3. CASE m = l
      BY <1>2, <1>8, <1>9, <3>1, <3>2, <3>3
    <3>4. CASE m # l
      <4>1. <<"claim", m>> \in DOMAIN txn
        BY <1>3, <1>7, <2>1, <3>4
      <4>2. Amount[m] = lot[m].remaining + Spent(m) - Ended(m)
        BY <4>1, ConservedMeans DEF LotInv
      <4> QED BY <1>9, <3>1, <3>2, <3>4, <4>2
    <3> QED BY <3>3, <3>4
  <2> QED BY <2>1 DEF LotConserved, Spent, Ended
<1> QED BY <1>10, <1>11, <1>12, <1>13, <1>14 DEF LotInv

\* What is left of a lot can be recovered from the rewards.
LEMMA Recoverable ==
    ASSUME TxnOK, LotsOK, LedgerFinite, LotInv, NEW l \in Lots
    PROVE  Min({lot[l].remaining, RewardTotal}) = lot[l].remaining
<1> DEFINE f == [m \in Lots |-> lot[m].remaining]
<1>1. IsFiniteSet(Lots) /\ (\A m \in Lots : f[m] \in Nat) /\ f[l] = lot[l].remaining
  BY WalletAssumption DEF LotsOK
<1>2. Remaining(Lots) = SumFunctionOnSet(f, Lots)
  BY DEF Remaining
<1> HIDE DEF f
<1>3. f[l] <= SumFunctionOnSet(f, Lots)
  BY <1>1, SumBoundsParts
<1>4. Remaining(Lots) \in Nat /\ RewardTotal \in Int /\ Remaining(Lots) <= RewardTotal
  BY RemainingType, TotalsType DEF LotInv, RewardsCovered
<1>5. lot[l].remaining \in Nat /\ lot[l].remaining <= RewardTotal
  BY <1>1, <1>2, <1>3, <1>4
<1> QED BY <1>4, <1>5, MinOfTwo

LEMMA ReverseKeeps ==
    ASSUME TxnOK, LotsOK, LedgerFinite, LotInv,
           claim \in [Lots -> {"APPROVED", "CREDITED", "EXPIRED", "REVERSED"}],
           NEW l \in Lots, ReverseReward(l)
    PROVE  LotInv'
<1> DEFINE left == lot[l].remaining
           k == <<"reverse", l>>
<1>1. /\ claim[l] = "CREDITED"
      /\ IF left > 0
         THEN Accepts(k, Move(0, -left), {}, {l}) /\ Write(k, Move(0, -left), {}, {l})
         ELSE UNCHANGED txn
      /\ lot' = [lot EXCEPT ![l] = [status |-> "REVERSED", remaining |-> 0]]
      /\ claim' = [claim EXCEPT ![l] = "REVERSED"]
  BY Recoverable DEF ReverseReward
<1>2. <<"claim", l>> \in DOMAIN txn
  BY <1>1 DEF LotInv, CreditedFirst
<1>3. /\ lot'[l].remaining = 0
      /\ \A m \in Lots \ {l} : lot'[m] = lot[m] /\ claim'[m] = claim[m]
  BY <1>1 DEF LotsOK
<1>4. left \in Nat
  BY DEF LotsOK
<1>5. CASE left > 0
  <2>1. k \notin DOMAIN txn /\ Write(k, Move(0, -lot[l].remaining), {}, {l})
    BY <1>1, <1>5 DEF Accepts, Fresh
  <2>2. \A m \in Lots \ {l} : lot[m].remaining > 0 => lot[m].status = "AVAILABLE"
    BY DEF LotInv, AvailableLots
  <2>3. \A m \in Lots \ {l} : lot'[m].remaining = lot[m].remaining /\ lot'[m] = lot[m]
    BY <1>3
  <2>4. k \in {<<"expire", l>>, <<"reverse", l>>}
    OBVIOUS
  <2> HIDE DEF k
  <2> QED BY <1>2, <1>3, <2>1, <2>3, <2>4, EndingKeeps
<1>6. CASE left = 0
  <2>1. UNCHANGED txn
    BY <1>1, <1>6
  <2>2. \A m \in Lots : lot'[m].remaining = lot[m].remaining
    BY <1>3, <1>6
  <2>3. AvailableLots'
    <3>1. \A m \in Lots : lot[m].remaining > 0 => lot[m].status = "AVAILABLE"
      BY DEF LotInv, AvailableLots
    <3>2. ~(lot'[l].remaining > 0)
      BY <1>3
    <3> QED BY <1>3, <3>1, <3>2 DEF AvailableLots
  <2>4. CreditedFirst'
    <3>1. \A m \in Lots : claim'[m] # "APPROVED" => claim[m] # "APPROVED"
      BY <1>1, <1>3
    <3> QED BY <2>1, <2>2, <3>1 DEF LotInv, CreditedFirst
  <2>5. SpentWithin'
    BY <2>1 DEF LotInv, SpentWithin
  <2>6. RewardsCovered'
    <3>1. Remaining(Lots)' = Remaining(Lots)
      BY <2>2 DEF Remaining
    <3>2. RewardTotal' = RewardTotal
      BY <2>1 DEF RewardTotal
    <3> QED BY <3>1, <3>2 DEF LotInv, RewardsCovered
  <2>7. LotConserved'
    <3>1. \A m \in Lots : Spent(m)' = Spent(m) /\ Ended(m)' = Ended(m)
      BY <2>1 DEF Spent, Restored, Ended
    <3>2. \A m \in Lots : <<"claim", m>> \in DOMAIN txn' =>
             Amount[m] = lot'[m].remaining + Spent(m)' - Ended(m)'
      BY <2>1, <2>2, <3>1, ConservedMeans DEF LotInv
    <3> QED BY <3>2 DEF LotConserved, Spent, Ended
  <2> QED BY <2>3, <2>4, <2>5, <2>6, <2>7 DEF LotInv
<1> QED BY <1>4, <1>5, <1>6

LEMMA ExpireKeeps ==
    ASSUME TxnOK, LotsOK, LedgerFinite, LotInv,
           claim \in [Lots -> {"APPROVED", "CREDITED", "EXPIRED", "REVERSED"}],
           NEW l \in Lots, ExpireReward(l)
    PROVE  LotInv'
<1> DEFINE left == lot[l].remaining
           move == Move(0, -left)
           k == <<"expire", l>>
<1>1. /\ l \in Tracked /\ k \notin DOMAIN txn /\ Write(k, move, {}, {l})
      /\ lot' = LotsAfter(move, {}, {l}, "EXPIRED")
      /\ claim' = [claim EXCEPT ![l] = IF @ = "CREDITED" THEN "EXPIRED" ELSE @]
  BY DEF ExpireReward, Accepts, Fresh
<1>2. left \in Nat /\ left > 0 /\ -left \in Int
  BY <1>1 DEF Tracked, LotsOK
<1>3. move \in MoveRow /\ move.reward = -left
  <2> HIDE DEF left
  <2> QED BY <1>2, MoveType
<1>4. <<"claim", l>> \in DOMAIN txn
  BY <1>2 DEF LotInv, CreditedFirst
<1>5. \A m \in Lots : Used(m, move, {l}) = IF m = l THEN left ELSE 0
  <2>1. Eligible({l}) = {l}
    BY <1>1 DEF Eligible
  <2>2. \A m \in Lots \ {l} : Used(m, move, {l}) = 0
    <3> HIDE DEF move
    <3> QED BY <1>3, <2>1, UsedType
  <2>3. Used(l, move, {l}) = left
    <3>1. {e \in Eligible({l}) : Expires[e] < Expires[l]} = {}
      <4>1. Expires[l] \in Nat
        BY WalletAssumption
      <4> QED BY <2>1, <4>1
    <3>2. Remaining({}) = 0
      BY SumOfNone DEF Remaining
    <3>3. RewardDebit(move) = left
      <4> HIDE DEF move, left
      <4> QED BY <1>2, <1>3, DebitType
    <3>4. Used(l, move, {l}) = Max({0, Min({left, left - 0})})
      BY <2>1, <3>1, <3>2, <3>3 DEF Used
    <3> HIDE DEF left, move
    <3>5. left - 0 = left /\ 0 \in Int /\ left \in Int
      BY <1>2
    <3>6. Min({left, left}) = left
      BY <3>5, MinOfTwo
    <3>7. Max({0, left}) = left
      BY <1>2, MaxOfTwo
    <3> QED BY <3>4, <3>5, <3>6, <3>7
  <2> QED BY <2>2, <2>3
<1>6. \A m \in Lots :
         /\ lot'[m].remaining = lot[m].remaining - Used(m, move, {l}) + Restored(m, {})
         /\ \/ lot'[m].status = "AVAILABLE" \/ lot'[m].remaining = 0 \/ lot'[m] = lot[m]
  <2> HIDE DEF move, left, k
  <2> DEFINE target == {l}
             of == {}
             emptied == "EXPIRED"
  <2>1. of \in SUBSET DOMAIN txn /\ emptied \in {"CONSUMED", "EXPIRED"}
    OBVIOUS
  <2>2. lot' = LotsAfter(move, of, target, emptied)
    BY <1>1
  <2> HIDE DEF target, of, emptied
  <2>3. \A m \in Lots :
           /\ lot'[m].remaining
                 = lot[m].remaining - Used(m, move, target) + Restored(m, of)
           /\ \/ lot'[m].status = "AVAILABLE" \/ lot'[m].remaining = 0 \/ lot'[m] = lot[m]
    BY <1>3, <2>1, <2>2, LotsAfterType
  <2> QED BY <2>3 DEF target, of
<1>7. \A m \in Lots : Restored(m, {}) = 0 /\ lot[m].remaining \in Nat
  BY RestoredParts DEF LotsOK
<1>8. lot'[l].remaining = 0
  <2>1. Used(l, move, {l}) = left /\ Restored(l, {}) = 0
    BY <1>5, <1>7
  <2>2. lot'[l].remaining = left - Used(l, move, {l}) + Restored(l, {})
    BY <1>6
  <2> HIDE DEF move, left
  <2> QED BY <1>2, <2>1, <2>2
<1>9. \A m \in Lots \ {l} : /\ lot'[m].remaining = lot[m].remaining
                            /\ \/ lot'[m].status = "AVAILABLE"
                               \/ lot'[m].remaining = 0
                               \/ lot'[m] = lot[m]
  <2> TAKE m \in Lots \ {l}
  <2> HIDE DEF move
  <2>1. Used(m, move, {l}) = 0 /\ Restored(m, {}) = 0 /\ lot[m].remaining \in Nat
    BY <1>5, <1>7
  <2> QED BY <1>6, <2>1
<1>10. \A m \in Lots \ {l} : claim'[m] = claim[m]
  BY <1>1
<1>11. k \in {<<"expire", l>>, <<"reverse", l>>}
  OBVIOUS
<1>12. Write(k, Move(0, -lot[l].remaining), {}, {l})
  BY <1>1
<1> HIDE DEF k
<1> QED BY <1>1, <1>4, <1>8, <1>9, <1>10, <1>11, <1>12, EndingKeeps

LEMMA LotStarts ==
    ASSUME DepositInit
    PROVE  LotInv
<1>1. DOMAIN txn = {} /\ RewardTotal = 0
  BY NothingPosted
<1>2. \A l \in Lots : lot[l].remaining = 0 /\ claim[l] = "APPROVED"
  BY DEF DepositInit, WalletInit
<1>3. AvailableLots /\ CreditedFirst /\ SpentWithin /\ LotConserved
  BY <1>1, <1>2 DEF AvailableLots, CreditedFirst, SpentWithin, LotConserved
<1>4. RewardsCovered
  <2> DEFINE f == [l \in Lots |-> lot[l].remaining]
  <2>1. IsFiniteSet(Lots) /\ \A l \in Lots : f[l] = 0
    BY <1>2, WalletAssumption
  <2>2. Remaining(Lots) = SumFunctionOnSet(f, Lots)
    BY DEF Remaining
  <2> HIDE DEF f
  <2>3. Remaining(Lots) = 0
    BY <2>1, <2>2, SumOfZeros
  <2> QED BY <1>1, <2>3 DEF RewardsCovered
<1> QED BY <1>3, <1>4 DEF LotInv

LEMMA LotNext ==
    ASSUME LedgerInv, LotInv, DepositNext
    PROVE  LotInv'
<1>1. /\ TxnOK /\ LotsOK /\ LedgerFinite
      /\ claim \in [Lots -> {"APPROVED", "CREDITED", "EXPIRED", "REVERSED"}]
  BY InvParts, WalletTypeParts DEF LedgerInv
<1>2. /\ \A k \in Undos : k \in Keys \ ({"claim", "expire", "reverse"} \X Lots)
      /\ \A k \in DepositKeys : k \in Keys \ ({"claim", "expire", "reverse"} \X Lots)
      /\ \A k \in Payments : k \in Keys \ ({"claim", "expire", "reverse"} \X Lots)
  BY KeyAssumption DEF Keys
<1>3. CASE Requesting \/ Marking \/ Reserving \/ Freeing
  <2>1. UNCHANGED <<txn, lot, claim>>
    BY <1>3, Frames DEF rewardVars
  <2> QED BY <2>1, LotsUnmoved
<1>4. CASE Posting
  <2>1. PICK p \in Payments, cash \in -MaxMove..MaxMove, reward \in -MaxMove..MaxMove :
           Post(p, cash, reward)
    BY <1>4 DEF Posting
  <2>2. cash \in Int /\ reward \in Int
    BY <2>1, WalletAssumption
  <2>3. Move(cash, reward) \in MoveRow
    BY <2>2, MoveType
  <2>4. Posts(p, Move(cash, reward), {}) /\ UNCHANGED claim
    BY <2>1 DEF Post
  <2>5. {} \in SUBSET DOMAIN txn
    OBVIOUS
  <2> QED BY <1>1, <1>2, <2>3, <2>4, <2>5, PostsDraws
<1>5. CASE Undoing
  <2>1. PICK u \in Undos : Reverse(u, Billed) \/ ReverseFunding(u)
    BY <1>5 DEF Undoing
  <2>2. PICK o \in asked[u] : Posts(u, Negative(EntriesOf(o)), {o})
    BY <2>1 DEF Reverse, ReverseFunding
  <2>3. o \in DOMAIN txn /\ {o} \in SUBSET DOMAIN txn
    BY <2>1, <2>2 DEF LedgerInv, ReadsExist
  <2>4. /\ Negative(EntriesOf(o)) \in MoveRow
        /\ Negative(EntriesOf(o)).reward = -txn[o].reward
    BY <1>1, <2>3, NegativeType
  <2>5. UNCHANGED claim
    BY <1>5, Frames
  <2> QED BY <1>1, <1>2, <2>1, <2>2, <2>3, <2>4, <2>5, PostsDraws
<1>6. CASE HoldingCash
  <2>1. UNCHANGED rewardVars
    BY <1>6, Frames
  <2>2. CASE UNCHANGED txn
    BY <2>1, <2>2, LotsUnmoved DEF rewardVars
  <2>3. ASSUME NEW h \in Holds, CaptureHold(h)
        PROVE  LotInv'
    <3> DEFINE k == <<"capture", h>>
               move == Move(-hold[h].amount, 0)
    <3>1. k \notin DOMAIN txn /\ Write(k, move, {}, {})
      BY <2>3 DEF CaptureHold, Fresh
    <3>2. k \in Keys \ ({"claim", "expire", "reverse"} \X Lots)
      BY DEF Keys
    <3>3. -hold[h].amount \in Int
      BY InvParts DEF HoldRow, HoldIds
    <3>4. move \in MoveRow /\ move.reward = 0
      BY <3>3, MoveType
    <3> HIDE DEF k, move
    <3> QED BY <1>1, <2>1, <3>1, <3>2, <3>4, QuietDraws
  <2>4. UNCHANGED txn \/ \E h \in Holds : CaptureHold(h)
    BY <1>6 DEF HoldingCash, HoldCash, ReleaseHold
  <2> QED BY <2>2, <2>3, <2>4
<1>7. CASE Rewarding
  <2>1. PICK l \in Lots : CreditReward(l) \/ ReverseReward(l) \/ ExpireReward(l) \/ RunOut(l)
    BY <1>7 DEF Rewarding
  <2>2. CASE RunOut(l)
    BY <2>2, LotsUnmoved DEF RunOut
  <2> QED BY <1>1, <2>1, <2>2, CreditKeeps, ReverseKeeps, ExpireKeeps
<1>8. CASE Funding
  <2>1. PICK d \in Deposits, k \in Keys, amount \in Int, cash \in Int :
           /\ k \in DepositKeys \cup ({"provider"} \X Deposits)
           /\ PostsAbout(k, About(d, "fund", amount, cash), hold)
    BY <1>8, FundingPosts
  <2>2. k \in Keys \ ({"claim", "expire", "reverse"} \X Lots)
    BY <1>2, <2>1
  <2>3. UNCHANGED rewardVars
    BY <1>8, Frames
  <2>4. "fund" \in Kinds
    BY DEF Kinds
  <2> QED BY <1>1, <2>1, <2>2, <2>3, <2>4, AboutDraws
<1>9. CASE Deducting
  <2>0. PICK d \in Deposits, k \in Keys, amount \in Nat \ {0} : \E holds :
           k \in DepositKeys /\ PostsAbout(k, About(d, "deduct", -amount, 0), holds)
    BY <1>9, DeductingPosts
  <2>1. PICK holds : k \in DepositKeys /\ PostsAbout(k, About(d, "deduct", -amount, 0), holds)
    BY <2>0
  <2>2. k \in Keys \ ({"claim", "expire", "reverse"} \X Lots)
    BY <1>2, <2>1
  <2>3. UNCHANGED rewardVars
    BY <1>9, Frames
  <2>4. "deduct" \in Kinds /\ -amount \in Int /\ 0 \in Int
    BY <2>1 DEF Kinds
  <2> QED BY <1>1, <2>1, <2>2, <2>3, <2>4, AboutDraws
<1>10. CASE Returning
  <2>1. UNCHANGED rewardVars
    BY <1>10, Frames
  <2>2. PICK r \in Requests : ApproveReturn(r) \/ CompleteManualReturn(r)
    BY <1>10 DEF Returning
  <2>3. CASE UNCHANGED txn
    BY <2>1, <2>3, LotsUnmoved DEF rewardVars
  <2>4. ASSUME NEW d \in request[r].for, Completes(r, d)
        PROVE  LotInv'
    <3> DEFINE k == <<"return", r>>
               cash == IF request[r].to = "cash" THEN request[r].amount ELSE 0
               holds == [hold EXCEPT ![k].status = "RELEASED"]
               amount == -request[r].amount
    <3>1. PostsAbout(k, About(d, "return", amount, cash), holds)
      BY <2>4 DEF Completes
    <3>2. k \in Keys \ ({"claim", "expire", "reverse"} \X Lots)
      BY <2>2 DEF Keys
    <3>3. d \in Deposits /\ cash \in Int /\ amount \in Int
      <4>1. request[r].amount \in Nat /\ request[r].for \in SUBSET Deposits
        BY <2>2, InvParts
      <4> QED BY <2>4, <4>1
    <3>4. "return" \in Kinds
      BY DEF Kinds
    <3> HIDE DEF k, cash, holds, amount
    <3> QED BY <1>1, <2>1, <3>1, <3>2, <3>3, <3>4, AboutDraws
  <2>5. UNCHANGED txn \/ \E d \in request[r].for : Completes(r, d)
    BY <2>2 DEF ApproveReturn, CompleteManualReturn
  <2> QED BY <2>3, <2>4, <2>5
<1> QED BY <1>3, <1>4, <1>5, <1>6, <1>7, <1>8, <1>9, <1>10, Groups

\* What a lot was credited is left in it, or transactions that stand have spent,
\* expired or recovered it, whatever is reversed in between (wallet.service.ts lines
\* 105-134).
THEOREM LotsAreConserved == DepositSpec => []LotConserved
<1>1. DepositInit => LotInv
  BY LotStarts
<1>2. LedgerInv /\ LotInv /\ [DepositNext]_depositVars => LotInv'
  <2>1. LedgerInv /\ LotInv /\ DepositNext => LotInv'
    BY LotNext
  <2>2. LotInv /\ UNCHANGED depositVars => LotInv'
    BY LotsUnmoved DEF depositVars, walletVars, rewardVars
  <2> QED BY <2>1, <2>2
<1>3. LotInv => LotConserved
  BY DEF LotInv
<1> QED BY <1>1, <1>2, <1>3, WalletTypes, PTL DEF DepositSpec

=============================================================================

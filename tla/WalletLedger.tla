------------------------------ MODULE WalletLedger ------------------------------
(***************************************************************************)
(* The wallet of one rider: postings with idempotency keys on the cash,    *)
(* reward and security deposit accounts, holds, reversals, and the lots    *)
(* that track how much of each reward is left.  Every posting runs with    *)
(* the RiderWallet row locked and is one action; a reversal reads the      *)
(* transaction it reverses before it has the lock.                         *)
(*                                                                         *)
(*   txn       the WalletTransactions, by idempotency key: what their      *)
(*             entries add to each account (clearing takes the rest), what *)
(*             they do for a deposit, the transaction they reverse, what   *)
(*             they spent of each lot;                                     *)
(*   hold[h]   a WalletHold, on cash or for a deposit;                     *)
(*   lot[l]    the RewardLot of claim l;        claim[l]  the RewardClaim; *)
(*   past      claims whose expiresAt is over;                             *)
(*   asked[u]  the transaction read by the reversal request with key u;    *)
(*   deposit[d]  status and lockedAt of a WalletSecurityDeposit, which a   *)
(*             reversal computes anew (SecurityDeposits has the rest).     *)
(*                                                                         *)
(* Balances are the sums of the entries, as in the code.                   *)
(***************************************************************************)
EXTENDS Integers, FiniteSetsExt

CONSTANTS
    Payments,       \* keys of adjustments and invoice settlements
    Undos,          \* keys of reversal requests
    Holds,          \* ids of holds
    Deposits,       \* ids of security deposits
    Required,       \* Required[d]: requiredAmount
    DepositKeys,    \* keys of funding, settlements and deductions of deposits
    Requests,       \* ids of requests to return a deposit
    Lots,           \* ids of approved reward claims, and of their lots
    Amount,         \* Amount[l]: the credited amount of claim l
    Expires,        \* Expires[l]: rank of expiresAt
    MaxMove,        \* bounds a caller's amount on one account
    MinimumCash,    \* WalletPolicy.minimumCashBalance
    CreditLimit,    \* negativeBalanceLimit, 0 unless negative cash is allowed
    MaxPostings     \* bounds the transactions of the wallet

ASSUME WalletAssumption ==
    /\ Amount \in [Lots -> Nat \ {0}] /\ Expires \in [Lots -> Nat]
    /\ \A l, m \in Lots : Expires[l] = Expires[m] => l = m
    /\ Required \in [Deposits -> Nat \ {0}]
    /\ {MaxMove, MinimumCash, CreditLimit, MaxPostings} \subseteq Nat
    /\ IsFiniteSet(Holds) /\ IsFiniteSet(Requests) /\ IsFiniteSet(Lots)

\* What a key or an id belongs to can be read from it.
ASSUME KeyAssumption ==
    /\ Undos \cap (Payments \cup DepositKeys) = {}
    /\ (Payments \cup Undos \cup DepositKeys)
          \cap (({"claim", "expire", "reverse"} \X Lots) \cup ({"capture"} \X Holds)
                   \cup ({"return"} \X Requests) \cup ({"provider"} \X Deposits)) = {}
    /\ Holds \cap ({"return"} \X Requests) = {}

VARIABLES txn, hold, lot, claim, past, asked, deposit

rewardVars == <<lot, claim, past>>
walletVars == <<txn, hold, rewardVars, asked, deposit>>

Keys == Payments \cup Undos \cup ({"claim", "expire", "reverse"} \X Lots)
                           \cup ({"capture"} \X Holds) \cup DepositKeys
                           \cup ({"return"} \X Requests) \cup ({"provider"} \X Deposits)

\* The hold with key REFUND-r is that of return request r.
HoldIds == Holds \cup ({"return"} \X Requests)

Move(cash, reward) ==
    [cash |-> cash, reward |-> reward, deposit |-> 0, kind |-> "wallet", for |-> {}]
Negative(move) ==
    [move EXCEPT !.cash = -@, !.reward = -@, !.deposit = -@]
EntriesOf(k) ==
    [cash |-> txn[k].cash, reward |-> txn[k].reward, deposit |-> txn[k].deposit,
     kind |-> txn[k].kind, for |-> txn[k].for]
NothingSpent == [l \in Lots |-> 0]
NoHold == [status |-> "NONE", amount |-> 0, captured |-> 0, for |-> {}]

WalletInit ==
    /\ txn = <<>>
    /\ hold = [h \in HoldIds |-> NoHold]
    /\ deposit = [d \in Deposits |-> [status |-> "PENDING", locked |-> FALSE]]
    /\ lot = [l \in Lots |-> [status |-> "NONE", remaining |-> 0]]
    /\ claim = [l \in Lots |-> "APPROVED"]
    /\ past = {}
    /\ asked = [u \in Undos |-> {}]

-----------------------------------------------------------------------------
(* balanceTx *)

Remainder(holds, ids) ==
    SumFunctionOnSet([h \in HoldIds |-> holds[h].amount - holds[h].captured], ids)
ActiveHolds(holds, for) == {h \in HoldIds : holds[h].status = "ACTIVE" /\ holds[h].for = for}

\* Transactions are POSTED or REVERSED; the entries of both count.
CashTotal == SumFunction([k \in DOMAIN txn |-> txn[k].cash])
RewardTotal == SumFunction([k \in DOMAIN txn |-> txn[k].reward])
DepositTotal == SumFunction([k \in DOMAIN txn |-> txn[k].deposit])

Held == Remainder(hold, ActiveHolds(hold, {}))
AvailableCash == CashTotal - Held - MinimumCash

\* The deposits of a wallet share one account.
AvailableDeposit(holds) ==
    DepositTotal - Remainder(holds, UNION {ActiveHolds(holds, {d}) : d \in Deposits})

-----------------------------------------------------------------------------
(* postInTransaction *)

Tracked == {l \in Lots : lot[l].status = "AVAILABLE" /\ lot[l].remaining > 0}
Remaining(lots) == SumFunctionOnSet([l \in Lots |-> lot[l].remaining], lots)

\* Lots that a posting may use: the one it is for, else all within their term.
Eligible(target) == IF target = {} THEN Tracked \ past ELSE Tracked \cap target

\* Reward that no lot tracks.
Legacy(target) ==
    IF target = {} THEN Max({0, RewardTotal - Remaining(Tracked)}) ELSE 0

\* Faulty: holds are forgotten.
CoversUnheld(move, holds) ==
    /\ CashTotal - MinimumCash + move.cash >= -CreditLimit
    /\ RewardTotal + move.reward >= 0
    /\ DepositTotal + move.deposit >= 0

\* Every account is checked, also one that the posting leaves alone, after the
\* changes to holds that its transaction made before.
Covers(move, holds) ==
    /\ AvailableCash + move.cash >= -CreditLimit
    /\ RewardTotal + move.reward >= 0
    /\ AvailableDeposit(holds) + move.deposit >= 0

RewardDebit(move) == Max({0, -move.reward})

\* The key is new, and the bound of the model leaves room for a transaction.
Fresh(k) ==
    /\ k \notin DOMAIN txn
    /\ Cardinality(DOMAIN txn) < MaxPostings

\* Faulty: the transaction was POSTED when the request read it.
AcceptsRead(k, move, of, target) ==
    /\ Fresh(k)
    /\ Covers(move, hold)
    /\ RewardDebit(move) <= Remaining(Eligible(target)) + Legacy(target)

Accepts(k, move, of, target) ==
    /\ Fresh(k)
    /\ Covers(move, hold)
    /\ \A o \in of : txn[o].status = "POSTED"
    /\ RewardDebit(move) <= Remaining(Eligible(target)) + Legacy(target)

\* Taken from lot l: those that expire first are used up first.
Used(l, move, target) ==
    LET earlier == {e \in Eligible(target) : Expires[e] < Expires[l]}
    IN IF l \in Eligible(target)
       THEN Max({0, Min({lot[l].remaining, RewardDebit(move) - Remaining(earlier)})})
       ELSE 0

Write(k, move, of, target) ==
    txn' = [j \in DOMAIN txn \cup {k} |->
        IF j = k
        THEN [status |-> "POSTED", cash |-> move.cash, reward |-> move.reward,
              deposit |-> move.deposit, kind |-> move.kind, for |-> move.for, of |-> of,
              spent |-> IF target = {} THEN [l \in Lots |-> Used(l, move, target)]
                                       ELSE NothingSpent]
        ELSE IF j \in of THEN [txn[j] EXCEPT !.status = "REVERSED"] ELSE txn[j]]

\* Given back to lot l by the reversal of a spend.
Restored(l, of) == SumFunctionOnSet([o \in DOMAIN txn |-> txn[o].spent[l]], of)

\* Faulty: the lot gets what the reversed transaction had taken, not more.
LotsAfterOverwriting(move, of, target, emptied) ==
    [l \in Lots |->
        LET used == Used(l, move, target)
            left == lot[l].remaining - used
            back == Restored(l, of)
        IN IF back > 0 THEN [status |-> "AVAILABLE", remaining |-> back]
           ELSE IF used > 0
           THEN [status |-> IF left = 0 THEN emptied ELSE "AVAILABLE", remaining |-> left]
           ELSE lot[l]]

LotsAfter(move, of, target, emptied) ==
    [l \in Lots |->
        LET used == Used(l, move, target)
            left == lot[l].remaining - used
            back == Restored(l, of)
        IN IF back > 0 THEN [status |-> "AVAILABLE", remaining |-> left + back]
           ELSE IF used > 0
           THEN [status |-> IF left = 0 THEN emptied ELSE "AVAILABLE", remaining |-> left]
           ELSE lot[l]]

Posts(k, move, of) ==
    /\ Accepts(k, move, of, {})
    /\ Write(k, move, of, {})
    /\ lot' = LotsAfter(move, of, {}, "CONSUMED")

\* An adjustment of one account, or a settlement from one or both.
Post(p, cash, reward) ==
    /\ \/ cash <= 0 /\ reward <= 0 /\ cash + reward < 0
       \/ cash > 0 /\ reward = 0
       \/ cash = 0 /\ reward > 0
    /\ Posts(p, Move(cash, reward), {})
    /\ UNCHANGED <<hold, claim, past, asked, deposit>>

-----------------------------------------------------------------------------
(* What the entries say of deposit d; a reversal counts with its original. *)

EntriesFor(t, d, kinds) ==
    SumFunctionOnSet([k \in DOMAIN t |-> t[k].deposit],
                     {k \in DOMAIN t : t[k].for = {d} /\ t[k].kind \in kinds})

Funded(t, d) == EntriesFor(t, d, {"fund"})
Deducted(t, d) == -EntriesFor(t, d, {"deduct"})
Balance(t, d) == EntriesFor(t, d, {"fund", "deduct", "return"})

\* reconcileDepositStateTx
StatusFrom(t, d) ==
    CASE Funded(t, d) <= 0                                     -> "PENDING"
      [] Funded(t, d) \in 1..(Required[d] - 1)                 -> "PARTIALLY_PAID"
      [] Funded(t, d) >= Required[d] /\ Deducted(t, d) > 0     -> "PARTIALLY_DEDUCTED"
      [] OTHER -> IF deposit[d].locked THEN "LOCKED" ELSE "PAID"

\* Faulty: only the ledger is reversed.
NotReconciled(t, about) == deposit

Reconciled(t, about) ==
    [d \in Deposits |->
        IF d \in about THEN [deposit[d] EXCEPT !.status = StatusFrom(t, d)] ELSE deposit[d]]

-----------------------------------------------------------------------------
(* reverse: the original is read, then the reversal is posted under the lock *)

Reversible == (Payments \cup DepositKeys) \cup ({"expire"} \X Lots) \cup ({"capture"} \X Holds)
                 \cup ({"return"} \X Requests) \cup ({"provider"} \X Deposits)

\* A request repeated with a used key changes nothing.
AskReversal(u, k) ==
    /\ asked[u] = {} /\ u \notin DOMAIN txn
    /\ k \in Reversible \cap DOMAIN txn
    /\ txn[k].status = "POSTED"
    /\ asked' = [asked EXCEPT ![u] = {k}]
    /\ UNCHANGED <<txn, hold, rewardVars, deposit>>

\* A transaction with an invoice allocation is refused: it is left to billing.
Reverse(u, billed) ==
    /\ \E k \in asked[u] \ billed :
          /\ Posts(u, Negative(EntriesOf(k)), {k})
          /\ deposit' = Reconciled(txn', txn[k].for)
    /\ asked' = [asked EXCEPT ![u] = {}]
    /\ UNCHANGED <<hold, claim, past>>

\* The posting is refused, or the process stops before it.
GiveUpReversal(u) ==
    /\ asked[u] # {}
    /\ asked' = [asked EXCEPT ![u] = {}]
    /\ UNCHANGED <<txn, hold, rewardVars, deposit>>

-----------------------------------------------------------------------------
(* hold, transitionHold *)

HoldCash(h, amount) ==
    /\ hold[h].status = "NONE"
    /\ AvailableCash >= amount
    /\ hold' = [hold EXCEPT ![h] = [NoHold EXCEPT !.status = "ACTIVE", !.amount = amount]]
    /\ UNCHANGED <<txn, rewardVars, asked, deposit>>

\* Holds for deposits have endpoints of their own.
ReleaseHold(h, status) ==
    /\ hold[h].status = "ACTIVE" /\ hold[h].for = {}
    /\ hold' = [hold EXCEPT ![h].status = status]
    /\ UNCHANGED <<txn, rewardVars, asked, deposit>>

\* The entries are written without looking at balances.
CaptureHold(h) ==
    /\ hold[h].status = "ACTIVE" /\ hold[h].for = {}
    /\ Fresh(<<"capture", h>>)
    /\ hold' = [hold EXCEPT ![h].status = "CAPTURED", ![h].captured = hold[h].amount]
    /\ Write(<<"capture", h>>, Move(-hold[h].amount, 0), {}, {})
    /\ UNCHANGED <<rewardVars, asked, deposit>>

-----------------------------------------------------------------------------
(* Rewards *)

\* RewardPostingService.postInTransaction
CreditReward(l) ==
    LET move == Move(0, Amount[l])
    IN /\ claim[l] = "APPROVED" /\ l \notin past
       /\ Accepts(<<"claim", l>>, move, {}, {})
       /\ Write(<<"claim", l>>, move, {}, {})
       /\ lot' = [lot EXCEPT ![l] = [status |-> "AVAILABLE", remaining |-> Amount[l]]]
       /\ claim' = [claim EXCEPT ![l] = "CREDITED"]
       /\ UNCHANGED <<hold, past, asked, deposit>>

\* RewardService.reverse takes back what is left.
ReverseReward(l) ==
    LET recoverable == Min({lot[l].remaining, RewardTotal})
        move == Move(0, -recoverable)
    IN /\ claim[l] = "CREDITED"
       /\ IF recoverable > 0
          THEN /\ Accepts(<<"reverse", l>>, move, {}, {l})
               /\ Write(<<"reverse", l>>, move, {}, {l})
          ELSE UNCHANGED txn
       /\ lot' = [lot EXCEPT ![l] = [status |-> "REVERSED", remaining |-> 0]]
       /\ claim' = [claim EXCEPT ![l] = "REVERSED"]
       /\ UNCHANGED <<hold, past, asked, deposit>>

\* RewardService.expire.  The key is the lot's: when the lot has expired before,
\* postInTransaction finds that transaction and returns it, or refuses another
\* amount; nothing changes either way.
ExpireReward(l) ==
    LET move == Move(0, -lot[l].remaining)
    IN /\ l \in past /\ l \in Tracked
       /\ Accepts(<<"expire", l>>, move, {}, {l})
       /\ Write(<<"expire", l>>, move, {}, {l})
       /\ lot' = LotsAfter(move, {}, {l}, "EXPIRED")
       /\ claim' = [claim EXCEPT ![l] = IF @ = "CREDITED" THEN "EXPIRED" ELSE @]
       /\ UNCHANGED <<hold, past, asked, deposit>>

RunOut(l) ==
    /\ past' = past \cup {l}
    /\ UNCHANGED <<txn, hold, lot, claim, asked, deposit>>

-----------------------------------------------------------------------------
WalletNext(billed) ==
    \/ \E p \in Payments : \E cash, reward \in -MaxMove..MaxMove : Post(p, cash, reward)
    \/ \E u \in Undos :
          (\E k \in Keys : AskReversal(u, k)) \/ Reverse(u, billed) \/ GiveUpReversal(u)
    \/ \E h \in Holds :
          \/ \E amount \in 1..MaxMove : HoldCash(h, amount)
          \/ \E status \in {"RELEASED", "EXPIRED"} : ReleaseHold(h, status)
          \/ CaptureHold(h)
    \/ \E l \in Lots : CreditReward(l) \/ ReverseReward(l) \/ ExpireReward(l) \/ RunOut(l)

-----------------------------------------------------------------------------
(* Properties *)

\* Types of the wallet state.
WalletTypeOK ==
    /\ DOMAIN txn \subseteq Keys
    /\ \A k \in DOMAIN txn :
          txn[k] \in [status : {"POSTED", "REVERSED"}, cash : Int, reward : Int,
                     deposit : Int, kind : {"wallet", "fund", "deduct", "return"},
                     for : SUBSET Deposits, of : SUBSET Keys, spent : [Lots -> Nat]]
    /\ hold \in [HoldIds -> [status : {"NONE", "ACTIVE", "RELEASED", "EXPIRED", "CAPTURED"},
                             amount : Nat, captured : Nat, for : SUBSET Deposits]]
    /\ deposit \in [Deposits -> [status : {"PENDING", "PARTIALLY_PAID", "PAID", "LOCKED",
                                           "PARTIALLY_DEDUCTED", "REFUND_REQUESTED", "REFUNDED",
                                           "FORFEITED", "CANCELLED"}, locked : BOOLEAN]]
    /\ lot \in [Lots -> [status : {"NONE", "AVAILABLE", "CONSUMED", "EXPIRED", "REVERSED"},
                         remaining : Nat]]
    /\ claim \in [Lots -> {"APPROVED", "CREDITED", "EXPIRED", "REVERSED"}]
    /\ past \in SUBSET Lots
    /\ asked \in [Undos -> SUBSET Keys]

\* Cash that is not held never falls below the agreed limit, rewards and the account
\* of the deposits never below zero, in any order of postings, holds, captures (which
\* check nothing) and reversals, also of captures (wallet.service lines 93-97, 164-221).
NeverOverdrawn ==
    /\ CashTotal - Held >= -CreditLimit
    /\ RewardTotal >= 0 /\ DepositTotal >= 0

\* The credited amount of a lot is what is left of it plus what transactions that
\* stand have spent, expired or recovered: a reversal gives every lot back exactly
\* what its original took, once, whatever happened to the lot since.
LotConserved ==
    \A l \in Lots : <<"claim", l>> \in DOMAIN txn =>
        Amount[l] = lot[l].remaining
            + Restored(l, {k \in DOMAIN txn : txn[k].status = "POSTED"})
            - SumFunctionOnSet([k \in DOMAIN txn |-> txn[k].reward],
                               DOMAIN txn \cap {<<"expire", l>>, <<"reverse", l>>})

\* A transaction is reversed by exactly one other or stands, although requests
\* read it before they get the lock (lines 208-221).
ReversedOnce ==
    \A k \in DOMAIN txn :
        LET reversals == {u \in DOMAIN txn : txn[u].of = {k}}
        IN IF txn[k].status = "REVERSED" THEN \E u \in reversals : reversals = {u}
                                         ELSE reversals = {}

=============================================================================

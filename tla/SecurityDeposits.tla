---------------------------- MODULE SecurityDeposits ----------------------------
(***************************************************************************)
(* The security deposits in a rider's wallet: funding by the office, from  *)
(* cash or by a provider, locking, holds, deductions, forfeiture and the   *)
(* return of what is left.  All deposits of a rider share the wallet's one *)
(* SECURITY_DEPOSIT account; what belongs to which deposit follows from    *)
(* the references of the transactions, and their reversals change it from  *)
(* outside (WalletLedger).                                                 *)
(*                                                                         *)
(* Deposits in Invoiced come from an agreement and have an invoice of      *)
(* their own, which every funding is allocated to: it is void while the    *)
(* deposit is CANCELLED and else open for what is not funded.              *)
(*                                                                         *)
(*   request[r]  a WalletDepositRefundRequest.                             *)
(***************************************************************************)
EXTENDS WalletLedger

CONSTANTS
    Invoiced,       \* deposits with an invoice
    PartialFunding  \* WalletPolicy.allowPartialSecurityDeposit

ASSUME SecurityAssumption == Invoiced \subseteq Deposits /\ PartialFunding \in BOOLEAN

VARIABLE request

depositVars == <<walletVars, request>>

Idle == [status |-> "NONE", for |-> {}, amount |-> 0, to |-> "cash"]

DepositInit ==
    /\ WalletInit
    /\ request = [r \in Requests |-> Idle]

-----------------------------------------------------------------------------
(* summaryTx, depositAccounting *)

HeldOn(holds, d) == Remainder(holds, ActiveHolds(holds, {d}))
Outstanding(d) == Max({0, Required[d] - Funded(txn, d)})

\* Faulty: what is held can be taken again.
RefundableUnheld(t, holds, d) == Max({0, Balance(t, d)})

Refundable(t, holds, d) == Max({0, Balance(t, d) - HeldOn(holds, d)})

Unpaid(d) == d \in Invoiced /\ deposit[d].status # "CANCELLED" /\ Outstanding(d) > 0

\* Transactions with an invoice allocation.
Billed == {k \in DOMAIN txn : txn[k].kind = "fund" /\ txn[k].for \subseteq Invoiced}

\* A posting about deposit d; what does not stay in the wallet goes to clearing.
About(d, kind, amount, cash) ==
    [Move(cash, 0) EXCEPT !.deposit = amount, !.kind = kind, !.for = {d}]

PostsAbout(k, move, holds) ==
    /\ Fresh(k)
    /\ Covers(move, holds)
    /\ Write(k, move, {}, {})

BecomesFunded(d, amount) ==
    deposit' = [deposit EXCEPT ![d].status =
                    IF amount = Outstanding(d) THEN "PAID" ELSE "PARTIALLY_PAID"]

-----------------------------------------------------------------------------
(* Funding *)

\* fund
Fund(k, d, amount) ==
    /\ deposit[d].status \in {"PENDING", "PARTIALLY_PAID"}
    /\ amount <= Outstanding(d)
    /\ PartialFunding \/ amount = Outstanding(d)
    /\ PostsAbout(k, About(d, "fund", amount, 0), hold)
    /\ BecomesFunded(d, amount)
    /\ UNCHANGED <<hold, rewardVars, asked, request>>

\* WalletBillingService.settleInTransaction takes what the cash is good for.
SettleDeposit(k, d) ==
    LET amount == Min({Max({AvailableCash + CreditLimit, 0}), Outstanding(d)})
    IN /\ Unpaid(d) /\ amount > 0
       /\ PostsAbout(k, About(d, "fund", amount, -amount), hold)
       /\ BecomesFunded(d, amount)
       /\ UNCHANGED <<hold, rewardVars, asked, request>>

\* CheckoutCollectionService.applyResult: a checkout of the whole invoice was
\* started before and its payment arrives now, whatever happened since.
ProviderFunds(d) ==
    LET amount == Min({Required[d], Outstanding(d)})
    IN /\ d \in Invoiced /\ amount > 0
       /\ PostsAbout(<<"provider", d>>, About(d, "fund", amount, 0), hold)
       /\ BecomesFunded(d, amount)
       /\ UNCHANGED <<hold, rewardVars, asked, request>>

\* WalletBillingService.voidUnpaidOneTime
VoidDeposit(d) ==
    /\ d \in Invoiced /\ deposit[d].status # "CANCELLED"
    /\ Outstanding(d) = Required[d] /\ Funded(txn, d) <= 0 /\ HeldOn(hold, d) <= 0
    /\ deposit' = [deposit EXCEPT ![d].status = "CANCELLED"]
    /\ UNCHANGED <<txn, hold, rewardVars, asked, request>>

\* WalletBillingService.reverse
ReverseFunding(u) ==
    /\ \E k \in asked[u] \cap Billed : \E d \in txn[k].for :
          /\ deposit[d].status \in {"PAID", "PARTIALLY_PAID"}
          /\ Posts(u, Negative(EntriesOf(k)), {k})
          /\ deposit' = [deposit EXCEPT ![d].status =
                            CASE Funded(txn', d) = 0 -> "PENDING"
                              [] Funded(txn', d) >= Required[d] -> "PAID"
                              [] OTHER -> "PARTIALLY_PAID"]
    /\ asked' = [asked EXCEPT ![u] = {}]
    /\ UNCHANGED <<hold, claim, past, request>>

\* lock
Lock(d) ==
    /\ deposit[d].status = "PAID"
    /\ deposit' = [deposit EXCEPT ![d] = [status |-> "LOCKED", locked |-> TRUE]]
    /\ UNCHANGED <<txn, hold, rewardVars, asked, request>>

-----------------------------------------------------------------------------
(* Holds and deductions *)

Usable(d) == deposit[d].status \in {"LOCKED", "PARTIALLY_DEDUCTED"}

Reserve(h, d, amount) ==
    hold' = [hold EXCEPT ![h] = [NoHold EXCEPT !.status = "ACTIVE", !.amount = amount,
                                               !.for = {d}]]

\* hold
HoldDeposit(h, d, amount) ==
    /\ hold[h].status = "NONE"
    /\ Usable(d)
    /\ amount <= Refundable(txn, hold, d)
    /\ Reserve(h, d, amount)
    /\ UNCHANGED <<txn, rewardVars, asked, deposit, request>>

\* releaseHold takes any hold for the deposit, also that of a return request.
ReleaseDepositHold(h) ==
    /\ hold[h].status = "ACTIVE" /\ hold[h].for # {}
    /\ hold' = [hold EXCEPT ![h].status = "RELEASED"]
    /\ UNCHANGED <<txn, rewardVars, asked, deposit, request>>

\* expireHold; return requests hold without a term.
ExpireDepositHold(h) ==
    /\ h \in Holds
    /\ hold[h].status = "ACTIVE" /\ hold[h].for # {}
    /\ hold' = [hold EXCEPT ![h].status = "EXPIRED"]
    /\ UNCHANGED <<txn, rewardVars, asked, deposit, request>>

Captured(h, amount) ==
    LET captured == hold[h].captured + amount
    IN [hold EXCEPT ![h].captured = captured,
                    ![h].status = IF captured = hold[h].amount THEN "CAPTURED" ELSE "ACTIVE"]

\* deduct without a hold, and forfeit
Deduct(k, d, amount, forfeiture) ==
    /\ Usable(d)
    /\ amount <= Refundable(txn, hold, d)
    /\ PostsAbout(k, About(d, "deduct", -amount, 0), hold)
    /\ deposit' = [deposit EXCEPT ![d].status =
                      IF forfeiture /\ amount = Refundable(txn, hold, d)
                      THEN "FORFEITED" ELSE "PARTIALLY_DEDUCTED"]
    /\ UNCHANGED <<hold, rewardVars, asked, request>>

\* deduct from what a hold reserves
DeductHeld(k, h, d, amount) ==
    /\ Usable(d)
    /\ h \in ActiveHolds(hold, {d})
    /\ amount <= hold[h].amount - hold[h].captured
    /\ hold' = Captured(h, amount)
    /\ PostsAbout(k, About(d, "deduct", -amount, 0), Captured(h, amount))
    /\ deposit' = [deposit EXCEPT ![d].status = "PARTIALLY_DEDUCTED"]
    /\ UNCHANGED <<rewardVars, asked, request>>

-----------------------------------------------------------------------------
(* Returns *)

\* Faulty: holds do not stand in the way.
EligibleUnheld(d) ==
    /\ Usable(d)
    /\ Balance(txn, d) > 0
    /\ \A e \in Deposits : ~Unpaid(e)

\* eligibility; that the rider has neither a vehicle nor an agreement is a
\* condition of the environment.
EligibleForReturn(d) ==
    /\ Usable(d)
    /\ HeldOn(hold, d) <= 0
    /\ Refundable(txn, hold, d) > 0
    /\ \A e \in Deposits : ~Unpaid(e)

\* requestRefund
RequestReturn(r, d, amount, to) ==
    /\ request[r].status = "NONE"
    /\ EligibleForReturn(d)
    /\ amount <= Refundable(txn, hold, d)
    /\ request' = [request EXCEPT ![r] =
                      [status |-> "REQUESTED", for |-> {d}, amount |-> amount, to |-> to]]
    /\ Reserve(<<"return", r>>, d, amount)
    /\ deposit' = [deposit EXCEPT ![d].status = "REFUND_REQUESTED"]
    /\ UNCHANGED <<txn, rewardVars, asked>>

\* completeReturnTx, on the rows that its transaction has changed before
Completes(r, d) ==
    LET h == <<"return", r>>
        freed == [hold EXCEPT ![h].status = "RELEASED"]
        cash == IF request[r].to = "cash" THEN request[r].amount ELSE 0
    IN /\ hold[h].status = "ACTIVE"
       /\ hold' = freed
       /\ PostsAbout(h, About(d, "return", -request[r].amount, cash), freed)
       /\ deposit' = [deposit EXCEPT ![d].status =
                         IF Refundable(txn', freed, d) = 0 THEN "REFUNDED"
                         ELSE "PARTIALLY_DEDUCTED"]
       /\ request' = [request EXCEPT ![r].status = "RETURNED"]

\* approveRefund by another member of the staff than the one who asked
ApproveReturn(r) ==
    \E d \in request[r].for :
        /\ request[r].status = "REQUESTED"
        /\ deposit[d].status = "REFUND_REQUESTED"
        /\ \A e \in Deposits : ~Unpaid(e)
        /\ hold[<<"return", r>>].status = "ACTIVE"
        /\ request[r].amount <=
              Refundable(txn, hold, d) + Remainder(hold, {<<"return", r>>})
        /\ IF request[r].to = "cash"
           THEN Completes(r, d)
           ELSE /\ request' = [request EXCEPT ![r].status = "PROCESSING"]
                /\ UNCHANGED <<txn, hold, deposit>>
        /\ UNCHANGED <<rewardVars, asked>>

\* completeManualReturn, when the money has been handed over
CompleteManualReturn(r) ==
    /\ request[r].status = "PROCESSING"
    /\ \E d \in request[r].for : Completes(r, d)
    /\ UNCHANGED <<rewardVars, asked>>

-----------------------------------------------------------------------------
DepositNext ==
    \/ WalletNext(Billed) /\ UNCHANGED request
    \/ \E u \in Undos : ReverseFunding(u)
    \/ \E d \in Deposits :
          \/ \E k \in DepositKeys :
                \/ SettleDeposit(k, d)
                \/ \E amount \in 1..Required[d] :
                      \/ Fund(k, d, amount)
                      \/ \E forfeiture \in BOOLEAN : Deduct(k, d, amount, forfeiture)
                      \/ \E h \in HoldIds : DeductHeld(k, h, d, amount)
          \/ \E amount \in 1..Required[d] :
                \/ \E h \in Holds : HoldDeposit(h, d, amount)
                \/ \E r \in Requests, to \in {"cash", "offline"} : RequestReturn(r, d, amount, to)
          \/ ProviderFunds(d) \/ VoidDeposit(d) \/ Lock(d)
    \/ \E h \in HoldIds : ReleaseDepositHold(h) \/ ExpireDepositHold(h)
    \/ \E r \in Requests : ApproveReturn(r) \/ CompleteManualReturn(r)

DepositSpec == DepositInit /\ [][DepositNext]_depositVars

-----------------------------------------------------------------------------
(* Properties *)

DepositTypeOK ==
    request \in [Requests -> [status : {"NONE", "REQUESTED", "PROCESSING", "RETURNED"},
                              for : SUBSET Deposits, amount : Nat, to : {"cash", "offline"}]]

NeverReversed(d) == \A k \in DOMAIN txn : txn[k].for = {d} => txn[k].status # "REVERSED"

\* What is held of a deposit is covered by its own money, not by that of another
\* deposit in the same account, through any order of holds, captures in parts,
\* deductions and returns, as long as none of its transactions was reversed.
DepositsStayCovered ==
    \A d \in Deposits : NeverReversed(d) => Balance(txn, d) >= HeldOn(hold, d)

\* At most one open request can still pay a deposit back, although reversals set the
\* status of the deposit back and open it for another one (eligibility, lines 714-780).
OneLiveReturn ==
    \A r, q \in Requests :
        /\ {request[r].status, request[q].status} \subseteq {"REQUESTED", "PROCESSING"}
        /\ {hold[<<"return", r>>].status, hold[<<"return", q>>].status} = {"ACTIVE"}
        /\ request[r].for = request[q].for
        => r = q

\* A deposit that counts as paid or locked has all of its money on the ledger: a
\* reversal takes the status with it (wallet.service lines 135-156), also of a deposit
\* that was cancelled and paid by a late checkout.
PaidIsFunded ==
    \A d \in Deposits :
        deposit[d].status \in {"PAID", "LOCKED"} => Funded(txn, d) = Required[d]
=============================================================================

---------------------------- MODULE RiderDeposits ----------------------------
(***************************************************************************)
(* The deposits of one rental agreement (rider-deposits/                   *)
(* deposit.service.ts): what was collected for each, what of it is still   *)
(* there, and the transactions that moved it.  Every action is one         *)
(* SERIALIZABLE transaction that holds the row locks of the deposits it    *)
(* writes.                                                                 *)
(*                                                                         *)
(*   deposit[d]     the RiderDeposit row: whether it is closed, what is    *)
(*                  available and what was funded;                         *)
(*   movement[k]    the RiderDepositTransaction with idempotency key k;    *)
(*   request[q]     the RiderDepositRefundRequest row q;                   *)
(*   hold[h]        the SettlementDepositHold row h.                       *)
(*                                                                         *)
(* Every condition of the code treats the statuses of a deposit other than *)
(* CLOSED alike; they are OPEN here.  A forfeiture moves what a refund     *)
(* moves, an adjustment debit what a deduction moves, under the same       *)
(* conditions: the latter stand for the former.  The rental is over: the   *)
(* deposits that the deployment collected are funded, and the agreement no *)
(* longer stands in the way of closing them.                               *)
(***************************************************************************)
EXTENDS Integers, FiniteSets, Functions

CONSTANTS
    Deposits,
    Required,      \* Required[d]: requiredAmount
    Security,      \* the RIDER_SECURITY deposits; they are topped up
    Deployed,      \* deposits that the deployment payment collected
    DepositKeys,   \* idempotency keys of the office and of provider payments
    Requests,      \* ids of refund requests
    HoldIds,
    MaxMove        \* bound on the amount of one movement

\* Callers bring a key; the code derives those of transfers, deployments,
\* refunds and final settlements.
DerivedKeys == {"in", "out"} \X DepositKeys
                 \cup {"deployment", "settlement"} \X Deposits
                 \cup {"refund"} \X Requests
MovementIds == DepositKeys \cup DerivedKeys

ASSUME DepositAssumption ==
    /\ IsFiniteSet(Deposits) /\ IsFiniteSet(DepositKeys)
    /\ IsFiniteSet(Requests) /\ IsFiniteSet(HoldIds)
    /\ Required \in [Deposits -> Nat \ {0}]
    /\ Security \subseteq Deposits /\ Deployed \subseteq Deposits
    /\ DepositKeys \cap DerivedKeys = {}
    /\ MaxMove \in Nat

VARIABLES deposit, movement, request, hold

depositVars == <<deposit, movement, request, hold>>

-----------------------------------------------------------------------------
MoveType == {"COLLECTION", "ADJUSTMENT_CREDIT", "DEDUCTION", "REFUND"}
Inflow == {"COLLECTION", "ADJUSTMENT_CREDIT", "TRANSFER_IN"}
Paired == {"TRANSFER_IN", "TRANSFER_OUT"}
MovementType == MoveType \cup Paired \cup {"REVERSAL"}

DepositRow == [status : {"OPEN", "CLOSED"}, available : Nat, funded : Nat]

NoMovement == [type |-> "NONE", of |-> {}, amount |-> 0,
               delta |-> 0, funding |-> 0, undoes |-> {}]
MovementRow == [type : MovementType, of : SUBSET Deposits, amount : Nat \ {0},
                delta : Int, funding : Int, undoes : SUBSET MovementIds]

NoRequest == [status |-> "NONE", of |-> {}, amount |-> 0]
RequestRow == [status : {"REQUESTED", "COMPLETED", "FAILED"},
               of : SUBSET Deposits, amount : Nat \ {0}]

NoHold == [status |-> "NONE", of |-> {}, amount |-> 0]
HoldRow == [status : {"ACTIVE", "RELEASED"},
            of : SUBSET Deposits, amount : Nat \ {0}]

Posted(k) == movement[k] # NoMovement

Collected(d) == [type |-> "COLLECTION", of |-> {d}, amount |-> Required[d],
                 delta |-> Required[d], funding |-> Required[d], undoes |-> {}]

DepositInit ==
    /\ deposit = [d \in Deposits |->
          IF d \in Deployed
          THEN [status |-> "OPEN", available |-> Required[d], funded |-> Required[d]]
          ELSE [status |-> "OPEN", available |-> 0, funded |-> 0]]
    /\ movement = [k \in MovementIds |->
          IF k \in {"deployment"} \X Deployed THEN Collected(k[2]) ELSE NoMovement]
    /\ request = [q \in Requests |-> NoRequest]
    /\ hold = [h \in HoldIds |-> NoHold]

-----------------------------------------------------------------------------
(* Balances *)

\* Money of d that refund requests wait for, and that holds keep back.
PendingOf(d) ==
    SumFunctionOnSet([q \in Requests |-> request[q].amount],
        {q \in Requests : request[q].status = "REQUESTED" /\ d \in request[q].of})
HeldOf(d) ==
    SumFunctionOnSet([h \in HoldIds |-> hold[h].amount],
        {h \in HoldIds : hold[h].status = "ACTIVE" /\ d \in hold[h].of})

Awaited(d) == \E q \in Requests : request[q].status = "REQUESTED" /\ d \in request[q].of

\* What a transaction leaves; its status forgets what was there.
DepositAfter(d, delta, funding) ==
    [status |-> "OPEN",
     available |-> deposit[d].available + delta,
     funded |-> deposit[d].funded + funding]

\* post refuses what would make a balance negative.
Affordable(d, delta, funding) ==
    /\ deposit[d].available + delta >= 0
    /\ deposit[d].funded + funding >= 0

Row(d, type, amount, delta, funding, undoes) ==
    [type |-> type, of |-> {d}, amount |-> amount,
     delta |-> delta, funding |-> funding, undoes |-> undoes]

\* post
Post(k, d, type, amount, delta, funding, undoes) ==
    /\ Affordable(d, delta, funding)
    /\ movement' = [movement EXCEPT ![k] =
                      Row(d, type, amount, delta, funding, undoes)]
    /\ deposit' = [deposit EXCEPT ![d] = DepositAfter(d, delta, funding)]

-----------------------------------------------------------------------------
(* Movements *)

\* What may still be collected: a security deposit is filled up again after a
\* deduction, another one is collected once.
Shortfall(d) ==
    Required[d] - (IF d \in Security THEN deposit[d].available ELSE deposit[d].funded)

\* move, and confirmProviderCollectionInTransaction for a collection.
Move(k, d, type, amount) ==
    /\ ~Posted(k)
    /\ deposit[d].status # "CLOSED"
    /\ type = "COLLECTION" => amount <= Shortfall(d)
    /\ type \notin Inflow =>
          amount <= deposit[d].available - HeldOf(d) - PendingOf(d)
    /\ LET delta == IF type \in Inflow THEN amount ELSE -amount
           funding == IF type = "DEDUCTION" THEN 0 ELSE delta
       IN Post(k, d, type, amount, delta, funding, {})
    /\ UNCHANGED <<request, hold>>

\* transfer: both sides in one transaction.  It looks neither at holds nor at
\* requests.
Transfer(k, from, to, amount) ==
    /\ from # to
    /\ ~Posted(<<"out", k>>)
    /\ "CLOSED" \notin {deposit[from].status, deposit[to].status}
    /\ amount <= deposit[from].available
    /\ amount <= Required[to] - deposit[to].funded
    /\ Affordable(from, -amount, -amount)
    /\ movement' = [movement EXCEPT
          ![<<"out", k>>] = Row(from, "TRANSFER_OUT", amount, -amount, -amount, {}),
          ![<<"in", k>>] = Row(to, "TRANSFER_IN", amount, amount, amount, {})]
    /\ deposit' = [deposit EXCEPT
          ![from] = DepositAfter(from, -amount, -amount),
          ![to] = DepositAfter(to, amount, amount)]
    /\ UNCHANGED <<request, hold>>

Undone(k) == \E u \in MovementIds : k \in movement[u].undoes

\* Faulty: what a collection funded stays funded.
ReverseMovementStillFunded(k, o) ==
    /\ ~Posted(k)
    /\ Posted(o) /\ ~Undone(o)
    /\ movement[o].type \in MoveType
    /\ \E d \in movement[o].of :
          Post(k, d, "REVERSAL", movement[o].amount, -movement[o].delta, 0, {o})
    /\ UNCHANGED <<request, hold>>

\* reverse: a transaction is taken back once, whoever posted it and whatever
\* became of the deposit since.
ReverseMovement(k, o) ==
    /\ ~Posted(k)
    /\ Posted(o) /\ ~Undone(o)
    /\ movement[o].type \in MoveType
    /\ \E d \in movement[o].of :
          Post(k, d, "REVERSAL", movement[o].amount,
               -movement[o].delta, -movement[o].funding, {o})
    /\ UNCHANGED <<request, hold>>

-----------------------------------------------------------------------------
(* Refunds, holds and the end *)

\* requestRefund
RequestRefund(q, d, amount) ==
    /\ request[q] = NoRequest
    /\ amount + PendingOf(d) + HeldOf(d) <= deposit[d].available
    /\ request' = [request EXCEPT ![q] =
                      [status |-> "REQUESTED", of |-> {d}, amount |-> amount]]
    /\ deposit' = [deposit EXCEPT ![d].status = "OPEN"]
    /\ UNCHANGED <<movement, hold>>

\* completeRefund: the payout is confirmed.
CompleteRefund(q) ==
    /\ request[q].status = "REQUESTED"
    /\ \E d \in request[q].of :
          Post(<<"refund", q>>, d, "REFUND", request[q].amount,
               -request[q].amount, -request[q].amount, {})
    /\ request' = [request EXCEPT ![q].status = "COMPLETED"]
    /\ UNCHANGED hold

\* Faulty: a refund that is asked for does not keep a deposit open.
CloseDepositWithRequest(d) ==
    /\ deposit[d].status # "CLOSED"
    /\ deposit[d].available = 0
    /\ deposit' = [deposit EXCEPT ![d].status = "CLOSED"]
    /\ UNCHANGED <<movement, request, hold>>

\* close
CloseDeposit(d) ==
    /\ deposit[d].status # "CLOSED"
    /\ deposit[d].available = 0
    /\ ~Awaited(d)
    /\ deposit' = [deposit EXCEPT ![d].status = "CLOSED"]
    /\ UNCHANGED <<movement, request, hold>>

\* The endpoints of the deposit controller.
DepositOffice ==
    \/ \E k \in DepositKeys, d \in Deposits, amount \in 1..MaxMove :
          \/ \E type \in MoveType : Move(k, d, type, amount)
          \/ \E to \in Deposits : Transfer(k, d, to, amount)
    \/ \E k \in DepositKeys, o \in MovementIds : ReverseMovement(k, o)
    \/ \E q \in Requests :
          \/ \E d \in Deposits, amount \in 1..MaxMove : RequestRefund(q, d, amount)
          \/ CompleteRefund(q)
    \/ \E d \in Deposits : CloseDeposit(d)

-----------------------------------------------------------------------------
(* Properties *)

DepositTypeOK ==
    /\ deposit \in [Deposits -> DepositRow]
    /\ movement \in [MovementIds -> MovementRow \cup {NoMovement}]
    /\ request \in [Requests -> RequestRow \cup {NoRequest}]
    /\ hold \in [HoldIds -> HoldRow \cup {NoHold}]

\* Deductions of d that were not taken back.
LiveDeductions(d) ==
    {k \in MovementIds : /\ d \in movement[k].of
                         /\ movement[k].type = "DEDUCTION"
                         /\ ~Undone(k)}

\* What was collected for a deposit and is no longer there was deducted: however
\* collections, deductions, refunds, transfers and reversals follow each other,
\* the available and the funded amount differ by the deductions that were not
\* taken back (deposit.service.ts lines 181-254, 439-484, 664-716).
GapIsDeducted ==
    \A d \in Deposits :
        deposit[d].funded - deposit[d].available =
            SumFunctionOnSet([k \in MovementIds |-> movement[k].amount],
                             LiveDeductions(d))

\* A closed deposit holds no money and nobody waits for any of it.  Closing is
\* one transaction, and a reversal, which does not look whether the deposit is
\* closed, opens it again (lines 664-716, 1066-1098).
ClosedHoldsNothing ==
    \A d \in Deposits :
        deposit[d].status = "CLOSED" => deposit[d].available = 0 /\ ~Awaited(d)

=============================================================================

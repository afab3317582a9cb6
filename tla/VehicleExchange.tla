--------------------------- MODULE VehicleExchange ---------------------------
(***************************************************************************)
(* A rider changes vehicles under the same agreement: the request is       *)
(* approved, the old vehicle is taken in by a submission, a replacement is *)
(* selected and held for a while, the rider accepts the offer, deposits    *)
(* are reconciled, the replacement is handed over as any vehicle is, and   *)
(* the exchange is completed.                                              *)
(*                                                                         *)
(* request reads the agreement, the allocation and a competing return      *)
(* before it inserts its row, in a transaction that does not repeat the    *)
(* reads; startHandover reserves the replacement in one transaction and    *)
(* notes the allocation in the next.  Each of the two is two steps, and    *)
(* the service may stop in between.  The other operations repeat their     *)
(* check in the transaction that writes, with two exceptions, where a call *)
(* is taken to be over in time.  The last write of reconcileDeposits has   *)
(* no condition: the handover that another call allowed is not completed   *)
(* before.  complete looks at the new allocation ahead of its transaction: *)
(* nobody ends this allocation directly in between.                        *)
(***************************************************************************)
EXTENDS VehicleReturns

\* request, up to the insert: what it found is in the row that is not stored yet.
CheckExchange(e, g, a) ==
    /\ exchange[e] = Unused
    /\ agreement[g].status = "ACTIVE"
    /\ allocation[a].status = "ACTIVE"
    /\ allocation[a].rider = agreement[g].rider
    /\ allocation[a].vehicle = VehicleOf(g)
    /\ ReturnOf(a) = {}
    /\ exchange' = [exchange EXCEPT ![e] =
                       [status |-> "CHECKED", agreement |-> g, old |-> a,
                        base |-> agreement[g].version, inspected |-> FALSE,
                        replacement |-> {}, hold |-> "NONE", allocation |-> {}]]
    /\ UNCHANGED <<vehicle, allocation, agreement, return, submission, overridden>>

\* one_active_exchange_per_agreement
CreateExchange(e) ==
    /\ exchange[e].status = "CHECKED"
    /\ ActiveFor(exchange[e].agreement) = {}
    /\ SetExchange(e, "REQUESTED")
    /\ UNCHANGED <<vehicle, allocation, agreement, return, submission, overridden>>

MoveExchange(e, from, to) ==
    /\ exchange[e].status \in from
    /\ SetExchange(e, to)
    /\ UNCHANGED <<vehicle, allocation, agreement, return, submission, overridden>>

Approve(e) == MoveExchange(e, {"REQUESTED"}, "APPROVED")
Reject(e) == MoveExchange(e, {"REQUESTED"}, "REJECTED")
RejectOffer(e) == MoveExchange(e, {"OFFER_PRESENTED"}, "REPLACEMENT_SELECTED")

\* Not once the old vehicle is being taken in.
Cancel(e) ==
    /\ exchange[e] # Unused /\ ~exchange[e].inspected
    /\ MoveExchange(e, {"REQUESTED", "APPROVED", "REPLACEMENT_SELECTED",
                        "OFFER_PRESENTED"}, "CANCELLED")

\* The agreement is still the one the exchange was asked for.
AgreementStands(e) ==
    /\ agreement[exchange[e].agreement].status = "ACTIVE"
    /\ agreement[exchange[e].agreement].version = exchange[e].base

\* Exchanges that wait for vehicle v with a hold that ran out.
LapsedOn(v) ==
    {e \in Exchanges : /\ exchange[e].status \in ActiveExchange
                       /\ exchange[e].replacement = {v}
                       /\ exchange[e].hold = "LAPSED"}

(* select takes a hold on vehicle v and expires the lapsed ones it finds there.
   If its own is among them it has expired the row it is about to update, and
   the transaction fails. *)
Select(e, v) ==
    /\ exchange[e].status \in {"APPROVED", "REPLACEMENT_SELECTED", "OFFER_PRESENTED"}
    /\ exchange[e].inspected
    /\ AgreementStands(e)
    /\ allocation[exchange[e].old].vehicle # v
    /\ e \notin LapsedOn(v)
    /\ vehicle[v] = "AVAILABLE"
    /\ \A other \in Exchanges \ {e} : ~HoldsVehicle(other, v)
    /\ exchange' =
          [x \in Exchanges |->
              CASE x = e -> [exchange[e] EXCEPT !.status = "REPLACEMENT_SELECTED",
                                                !.replacement = {v}, !.hold = "RUNNING"]
                [] x \in LapsedOn(v) -> [exchange[x] EXCEPT !.status = "EXPIRED"]
                [] OTHER -> exchange[x]]
    /\ UNCHANGED <<vehicle, allocation, agreement, return, submission, overridden>>

\* reservationExpiresAt passes.
HoldLapses(e) ==
    /\ exchange[e].status \in {"REPLACEMENT_SELECTED", "OFFER_PRESENTED"}
    /\ exchange[e].hold = "RUNNING"
    /\ exchange' = [exchange EXCEPT ![e].hold = "LAPSED"]
    /\ UNCHANGED <<vehicle, allocation, agreement, return, submission, overridden>>

\* present prices the replacement again, which has to be free or with the rider.
Present(e) ==
    /\ exchange[e].status = "REPLACEMENT_SELECTED"
    /\ exchange[e].hold = "RUNNING"
    /\ agreement[exchange[e].agreement].status = "ACTIVE"
    /\ \A v \in exchange[e].replacement :
          \/ vehicle[v] = "AVAILABLE"
          \/ AwaitingPlan(agreement[exchange[e].agreement].rider, v) # {}
    /\ MoveExchange(e, {"REPLACEMENT_SELECTED"}, "OFFER_PRESENTED")

Accept(e) ==
    /\ exchange[e].status = "OFFER_PRESENTED"
    /\ exchange[e].hold = "RUNNING"
    /\ AgreementStands(e)
    /\ exchange' = [exchange EXCEPT ![e].status = "DEPOSIT_PENDING", ![e].hold = "NONE"]
    /\ UNCHANGED <<vehicle, allocation, agreement, return, submission, overridden>>

ReconcileDeposits(e) == MoveExchange(e, {"DEPOSIT_PENDING"}, "HANDOVER_PENDING")

\* startHandover reserves the replacement, unless an earlier call did.
StartHandover(e, a) ==
    /\ exchange[e].status = "HANDOVER_PENDING"
    /\ exchange[e].allocation = {}
    /\ \A b \in Allocations : allocation[b] # Unused => allocation[b].exchange # {e}
    /\ \E v \in exchange[e].replacement :
          InitiateFor(a, agreement[exchange[e].agreement].rider, v, {e})

LinkHandover(e, a) ==
    /\ exchange[e].status = "HANDOVER_PENDING"
    /\ exchange[e].allocation = {}
    /\ allocation[a] # Unused
    /\ allocation[a].exchange = {e}
    /\ exchange' = [exchange EXCEPT ![e].allocation = {a}]
    /\ UNCHANGED <<vehicle, allocation, agreement, return, submission, overridden>>

\* one_live_agreement_per_vehicle
VehicleIsFree(v) == \A g \in Agreements : Live(g) => agreement[g].current # {v}

\* Faulty: it does not wait for the handover of the replacement.
CompleteEarly(e) ==
    LET g == exchange[e].agreement
    IN  /\ exchange[e].status = "HANDOVER_PENDING"
        /\ exchange[e].allocation # {}
        /\ AgreementStands(e)
        /\ agreement[g].current = {}
        /\ \A v \in exchange[e].replacement : VehicleIsFree(v)
        /\ agreement' = [agreement EXCEPT ![g].current = exchange[e].replacement,
                                          ![g].version = exchange[e].base + 1]
        /\ SetExchange(e, "COMPLETED")
        /\ UNCHANGED <<vehicle, allocation, return, submission, overridden>>

Complete(e) ==
    LET g == exchange[e].agreement
    IN  /\ exchange[e].status = "HANDOVER_PENDING"
        /\ \E a \in exchange[e].allocation : allocation[a].status = "ACTIVE"
        /\ AgreementStands(e)
        /\ agreement[g].current = {}
        /\ \A v \in exchange[e].replacement : VehicleIsFree(v)
        /\ agreement' = [agreement EXCEPT ![g].current = exchange[e].replacement,
                                          ![g].version = exchange[e].base + 1]
        /\ SetExchange(e, "COMPLETED")
        /\ UNCHANGED <<vehicle, allocation, return, submission, overridden>>

ExchangeNext ==
    \E e \in Exchanges :
        \/ \E g \in Agreements, a \in Allocations : CheckExchange(e, g, a)
        \/ CreateExchange(e) \/ Approve(e) \/ Reject(e) \/ Cancel(e)
        \/ \E v \in Vehicles : Select(e, v)
        \/ HoldLapses(e) \/ Present(e) \/ RejectOffer(e) \/ Accept(e)
        \/ ReconcileDeposits(e)
        \/ \E a \in Allocations : StartHandover(e, a) \/ LinkHandover(e, a)
        \/ Complete(e)

CustodyNext == DeploymentNext \/ ReturnsNext \/ ExchangeNext
CustodySpec == CustodyInit /\ [][CustodyNext]_custodyVars

-----------------------------------------------------------------------------
(* What allocations promise about vehicles *)

HolderOf(v) ==
    LET holders == HoldersOf(v)
        a == CHOOSE b \in holders : TRUE
    IN  IF holders = {} THEN [state |-> "FREE"]
        ELSE [state |-> IF allocation[a].handed THEN "HELD" ELSE "PROMISED",
              rider |-> allocation[a].rider]

Holding == INSTANCE VehicleHolding WITH holder <- [v \in Vehicles |-> HolderOf(v)]

-----------------------------------------------------------------------------
(* Properties *)

\* Types of the rows.
CustodyTypeOK ==
    /\ vehicle \in [Vehicles -> VehicleStatus]
    /\ allocation \in [Allocations -> AllocationRow \cup {Unused}]
    /\ agreement \in [Agreements -> AgreementRow \cup {Unused}]
    /\ return \in [Agreements -> ReturnRow \cup {Unused}]
    /\ submission \in [Allocations -> SubmissionRow \cup {Unused}]
    /\ exchange \in [Exchanges -> ExchangeRow \cup {Unused}]
    /\ overridden \subseteq Vehicles

\* Whatever operators do to its status, a vehicle is promised to or in the hands
\* of at most one rider at a time: no index says so, only the order of the reads
\* and writes of initiate.
OneHolder ==
    \A a, b \in Allocations :
        /\ Unfinished(a) /\ Unfinished(b)
        /\ allocation[a].vehicle = allocation[b].vehicle
        => a = b

\* A replacement that a rider accepted, and is paying deposits for, is not given
\* to anybody else, unless an operator freed it by hand under another allocation.
PromiseKept ==
    \A e \in Exchanges : Promised(e) =>
        \A v \in exchange[e].replacement \ overridden :
            \A a \in HoldersOf(v) : allocation[a].exchange = {e}

\* The services implement VehicleHolding: every vehicle goes from nobody to one
\* rider, who receives it and gives it back.  An inspection that is completed late
\* may set the status of the allocation back to OTP_PENDING; the handover it noted
\* stays, and the vehicle is given back only after its return was inspected.
KeepsHolding == Holding!HoldingSpec

\* The vehicle that a started agreement names as its own was handed over to its
\* rider and not taken back, whatever a late inspection made of the status of the
\* allocation, or it came back without a submission.
CurrentVehicleIsHeld ==
    \A g \in Agreements :
        agreement[g].status \in Returnable /\ agreement[g].current # {} =>
            \E a \in Allocations :
                /\ allocation[a] # Unused
                /\ allocation[a].agreement = {g}
                /\ {allocation[a].vehicle} = agreement[g].current
                /\ WithRider(a) \/ (allocation[a].status = "COMPLETED" /\ submission[a] = Unused)

\* exchange-errors.ts, REPLACEMENT_HOLD_EXPIRED: "The replacement scooter
\* reservation has expired. Please select it again."
\* PROJECT_DOCUMENTATION.md line 219: "exchange preserves agreement and continues
\* replacement offer/handover".  An active agreement that gave its vehicle back
\* for an exchange always has that exchange to go on with.
ExchangeContinues ==
    \A g \in Agreements :
        agreement[g].status = "ACTIVE" /\ agreement[g].current = {} => ActiveFor(g) # {}
=============================================================================

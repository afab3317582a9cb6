----------------------------- MODULE CustodyRows -----------------------------
(***************************************************************************)
(* Who has which vehicle, as the rows of the database tell it: the status  *)
(* of each vehicle, the allocations that hand a vehicle to a rider, the    *)
(* rental agreements, the requests to return or to exchange a vehicle and  *)
(* the submission that takes a vehicle back.  Deployment, VehicleReturns   *)
(* and VehicleExchange add the services that write these rows.             *)
(*                                                                         *)
(* Money is outside: deposits, fees, penalties and billing windows decide  *)
(* only whether a step may be taken now, so they show as steps that do not *)
(* have to be taken.  So do confirmations by one time passwords, photos    *)
(* and the switches that keep a vehicle out of allocation, which an        *)
(* administrator may flip back at any time.                                *)
(***************************************************************************)
EXTENDS Naturals, FiniteSets

CONSTANTS
    Riders, Vehicles,
    Allocations,     \* rows that may be used, each once
    Agreements, Exchanges,
    MaxOverridden    \* bound on the vehicles whose status an operator sets by hand,
                     \* other than taking a free one off the road and back

ASSUME CustodyAssumption == MaxOverridden \in Nat

VARIABLES vehicle, allocation, agreement, return, submission, exchange,
          overridden   \* history: the vehicles meant by MaxOverridden

custodyVars == <<vehicle, allocation, agreement, return, submission, exchange,
                 overridden>>

Optional(S) == {{}} \cup {{x} : x \in S}

\* MAINTENANCE stands for every status that keeps a vehicle off the road for
\* another reason: also broken, waiting for parts, in transit, not activated.
VehicleStatus ==
    {"AVAILABLE", "RESERVED", "ALLOCATION_IN_PROGRESS", "ALLOCATED", "IN_USE",
     "DEALLOCATION_IN_PROGRESS", "INSPECTION_PENDING", "MAINTENANCE"}

Unused == [status |-> "NONE"]

\* exchange: the request whose replacement is handed over, {} for a first rental.
\* handed: allocatedAt is set; returning: the POST_DEALLOCATION inspection is there.
AllocationRow ==
    [status : {"INSPECTION_PENDING", "OTP_PENDING", "ACTIVE",
               "DEALLOCATION_INITIATED", "COMPLETED"},
     handed : BOOLEAN, returning : BOOLEAN,
     rider : Riders, vehicle : Vehicles,
     agreement : Optional(Agreements), exchange : Optional(Exchanges)]

LiveAgreement == {"PENDING_ACTIVATION", "ACTIVE", "SUSPENDED", "TERMINATION_PENDING"}
EndedAgreement == {"TERMINATED", "COMPLETED", "CANCELLED"}

\* vehicle is the one the rental began with, current the one it has now.
AgreementRow ==
    [status : LiveAgreement \cup EndedAgreement, rider : Riders,
     vehicle : Vehicles, current : Optional(Vehicles), version : Nat]

\* A cancelled request is used again by the next one, as if it had not been there.
ReturnRow == [status : {"REQUESTED", "RETURNED"}, allocation : Allocations]

\* STARTED, DRAFT and SUBMITTED are one status of the row, IN_PROGRESS, with no
\* report, a draft or an imposed one.  for: the exchange it serves, {} a return.
SubmissionRow ==
    [status : {"STARTED", "DRAFT", "SUBMITTED", "CONFIRMED"},
     agreement : Agreements, for : Optional(Exchanges)]

ActiveExchange ==
    {"REQUESTED", "APPROVED", "RETURN_PENDING", "REPLACEMENT_SELECTED",
     "OFFER_PRESENTED", "DEPOSIT_PENDING", "HANDOVER_PENDING"}

\* CHECKED: the request was checked and is not stored yet.
ExchangeRow ==
    [status : ActiveExchange \cup {"CHECKED", "REJECTED", "CANCELLED", "EXPIRED",
                                   "COMPLETED"},
     agreement : Agreements, old : Allocations, base : Nat,
     inspected : BOOLEAN, replacement : Optional(Vehicles),
     hold : {"NONE", "RUNNING", "LAPSED"}, allocation : Optional(Allocations)]

CustodyInit ==
    /\ vehicle = [v \in Vehicles |-> "AVAILABLE"]
    /\ allocation = [a \in Allocations |-> Unused]
    /\ agreement = [g \in Agreements |-> Unused]
    /\ return = [g \in Agreements |-> Unused]
    /\ submission = [a \in Allocations |-> Unused]
    /\ exchange = [e \in Exchanges |-> Unused]
    /\ overridden = {}

-----------------------------------------------------------------------------
(* What the services ask of the rows *)

Unfinished(a) == allocation[a].status \notin {"NONE", "COMPLETED"}
InHand(a) == allocation[a].status \in {"ACTIVE", "DEALLOCATION_INITIATED"}
WithRider(a) == Unfinished(a) /\ allocation[a].handed
HoldersOf(v) == {a \in Allocations : Unfinished(a) /\ allocation[a].vehicle = v}

Live(g) == agreement[g].status \in LiveAgreement

\* currentVehicleId ?? vehicleId
VehicleOf(g) ==
    IF agreement[g].current = {} THEN agreement[g].vehicle
    ELSE CHOOSE v \in agreement[g].current : TRUE

ActiveFor(g) ==
    {e \in Exchanges : exchange[e].status \in ActiveExchange /\ exchange[e].agreement = g}
ExchangeOf(a) ==
    {e \in Exchanges : exchange[e].status \in ActiveExchange /\ exchange[e].old = a}
ReturnOf(a) ==
    {g \in Agreements : return[g].status = "REQUESTED" /\ return[g].allocation = a}

\* An exchange keeps its replacement by a hold that runs out until the rider has
\* accepted, and by its status afterwards.
Promised(e) == exchange[e].status \in {"DEPOSIT_PENDING", "HANDOVER_PENDING"}
HoldsVehicle(e, v) ==
    /\ exchange[e].status # "NONE"
    /\ exchange[e].replacement = {v}
    /\ \/ /\ exchange[e].status \in {"REPLACEMENT_SELECTED", "OFFER_PRESENTED"}
          /\ exchange[e].hold = "RUNNING"
       \/ Promised(e)

\* guard_vehicle_mechanic_reuse and guard_vehicle_submission_allocation: while a
\* submission of a vehicle is unconfirmed the vehicle can neither be released nor
\* allocated.
ChecksPending(v) ==
    \E a \in Allocations :
        /\ submission[a].status \in {"STARTED", "DRAFT", "SUBMITTED"}
        /\ allocation[a].vehicle = v

SetVehicle(v, status) == vehicle' = [vehicle EXCEPT ![v] = status]

\* The handover notes its time and the first deallocation creates the inspection of
\* the returned vehicle; nothing takes either away.
SetAllocation(a, status) ==
    allocation' =
        [allocation EXCEPT ![a] =
            [allocation[a] EXCEPT
                !.status = status,
                !.handed = allocation[a].handed \/ status = "ACTIVE",
                !.returning = allocation[a].returning \/ status = "DEALLOCATION_INITIATED"]]

SetAgreement(g, status) == agreement' = [agreement EXCEPT ![g].status = status]
SetSubmission(a, status) == submission' = [submission EXCEPT ![a].status = status]
SetExchange(e, status) == exchange' = [exchange EXCEPT ![e].status = status]
=============================================================================

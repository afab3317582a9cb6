----------------------------- MODULE Deployment -----------------------------
(***************************************************************************)
(* A vehicle goes to a rider: a fleet manager reserves it, the rider       *)
(* accepts a rental plan for it, it is inspected and handed over.  Besides *)
(* the way back through a submission, an allocation can be ended directly, *)
(* and operators change the status of vehicles and agreements by hand.     *)
(***************************************************************************)
EXTENDS CustodyRows

\* Faulty: only the status of the vehicle is read, not the allocations.
InitiateByStatus(a, r, v, x) ==
    /\ allocation[a] = Unused
    /\ \A e \in Exchanges :
          HoldsVehicle(e, v) =>
              /\ x = {e}
              /\ exchange[e].status = "HANDOVER_PENDING"
              /\ agreement[exchange[e].agreement].rider = r
    /\ vehicle[v] = "AVAILABLE"
    /\ ~ChecksPending(v)
    /\ SetVehicle(v, "RESERVED")
    /\ allocation' =
          [allocation EXCEPT ![a] =
              [status |-> "INSPECTION_PENDING", handed |-> FALSE, returning |-> FALSE,
               rider |-> r, vehicle |-> v,
               agreement |-> {exchange[e].agreement : e \in x}, exchange |-> x]]
    /\ UNCHANGED <<agreement, return, submission, exchange, overridden>>

\* Faulty: the holds of exchanges are not read.
InitiatePastHold(a, r, v, x) ==
    /\ allocation[a] = Unused
    /\ vehicle[v] = "AVAILABLE"
    /\ HoldersOf(v) = {}
    /\ ~ChecksPending(v)
    /\ SetVehicle(v, "RESERVED")
    /\ allocation' =
          [allocation EXCEPT ![a] =
              [status |-> "INSPECTION_PENDING", handed |-> FALSE, returning |-> FALSE,
               rider |-> r, vehicle |-> v,
               agreement |-> {exchange[e].agreement : e \in x}, exchange |-> x]]
    /\ UNCHANGED <<agreement, return, submission, exchange, overridden>>

(* AllocationsService.initiate.  The vehicle row is locked, so reading the
   holds and reserving the vehicle is one step.  x is the exchange the vehicle
   is handed over for, if any. *)
InitiateFor(a, r, v, x) ==
    /\ allocation[a] = Unused
    /\ \A e \in Exchanges :
          HoldsVehicle(e, v) =>
              /\ x = {e}
              /\ exchange[e].status = "HANDOVER_PENDING"
              /\ agreement[exchange[e].agreement].rider = r
    /\ vehicle[v] = "AVAILABLE"
    /\ HoldersOf(v) = {}
    /\ ~ChecksPending(v)
    /\ SetVehicle(v, "RESERVED")
    /\ allocation' =
          [allocation EXCEPT ![a] =
              [status |-> "INSPECTION_PENDING", handed |-> FALSE, returning |-> FALSE,
               rider |-> r, vehicle |-> v,
               agreement |-> {exchange[e].agreement : e \in x}, exchange |-> x]]
    /\ UNCHANGED <<agreement, return, submission, exchange, overridden>>

Initiate(a, r, v) == InitiateFor(a, r, v, {})

\* The allocation of the rider that an accepted offer for the vehicle is meant for.
AwaitingPlan(r, v) ==
    {a \in Allocations :
        /\ allocation[a].status \in {"INSPECTION_PENDING", "OTP_PENDING", "ACTIVE"}
        /\ allocation[a].rider = r /\ allocation[a].vehicle = v}

\* It carries the plan of another offer already.
HasOffer(a) ==
    allocation[a].agreement # {exchange[e].agreement : e \in allocation[a].exchange}

(* CommercialLifecycleService.accept: the offer becomes an agreement.  Advisory
   locks on the rider and the vehicle make it one step. *)
AcceptOffer(g, r, v) ==
    /\ agreement[g] = Unused
    /\ vehicle[v] = "AVAILABLE" \/ AwaitingPlan(r, v) # {}
    /\ \A a \in HoldersOf(v) : allocation[a].rider = r
    /\ \A other \in Agreements :
          Live(other) => agreement[other].rider # r /\ agreement[other].current # {v}
    /\ \A a \in AwaitingPlan(r, v) : ~HasOffer(a)
    /\ agreement' =
          [agreement EXCEPT ![g] =
              [status |-> "PENDING_ACTIVATION", rider |-> r, vehicle |-> v,
               current |-> {v}, version |-> 1]]
    /\ allocation' =
          [a \in Allocations |->
              IF a \in AwaitingPlan(r, v) THEN [allocation[a] EXCEPT !.agreement = {g}]
                                          ELSE allocation[a]]
    /\ UNCHANGED <<vehicle, return, submission, exchange, overridden>>

(* submitPdi.  The payment that comes before it is asked of the plan accepted for
   the allocation, or of the exchange that knows the allocation. *)
SubmitPdi(a) ==
    /\ allocation[a].status = "INSPECTION_PENDING"
    /\ allocation[a].agreement # {}
    /\ \A e \in allocation[a].exchange : exchange[e].allocation = {a}
    /\ SetAllocation(a, "OTP_PENDING")
    /\ UNCHANGED <<vehicle, agreement, return, submission, exchange, overridden>>

(* InspectionsService.complete for the inspection before the handover.  It reads the
   allocation at INSPECTION_PENDING and writes OTP_PENDING in a later transaction by
   the id alone, whatever the row has become, and asks for no plan and no payment.
   Every allocation begins at INSPECTION_PENDING, so a call that read it there may
   write at any later moment, up to the end of the allocation, by which a call is
   taken to be over. *)
CompleteInspection(a) ==
    /\ Unfinished(a)
    /\ SetAllocation(a, "OTP_PENDING")
    /\ UNCHANGED <<vehicle, agreement, return, submission, exchange, overridden>>

(* activateInTransaction: a first handover starts the agreement, the handover of
   a replacement only checks that its exchange and agreement wait for it. *)
AgreementStarts(a, g) ==
    /\ allocation[a].exchange = {}
    /\ agreement[g].status = "PENDING_ACTIVATION"
    /\ agreement[g].rider = allocation[a].rider
    /\ agreement[g].current = {allocation[a].vehicle}
    /\ SetAgreement(g, "ACTIVE")

ReplacementIsAwaited(a, g) ==
    /\ \E e \in allocation[a].exchange :
          /\ exchange[e].status = "HANDOVER_PENDING"
          /\ exchange[e].agreement = g
          /\ exchange[e].replacement = {allocation[a].vehicle}
          /\ exchange[e].allocation = {a}
    /\ agreement[g].status = "ACTIVE"
    /\ agreement[g].current = {}
    /\ UNCHANGED agreement

\* activate and completeDeployment
HandOver(a) ==
    /\ allocation[a].status = "OTP_PENDING"
    /\ \E g \in allocation[a].agreement : AgreementStarts(a, g) \/ ReplacementIsAwaited(a, g)
    /\ vehicle[allocation[a].vehicle] = "RESERVED"
    /\ SetVehicle(allocation[a].vehicle, "ALLOCATED")
    /\ SetAllocation(a, "ACTIVE")
    /\ UNCHANGED <<return, submission, exchange, overridden>>

-----------------------------------------------------------------------------
(* The direct way back and the operators' corrections *)

InitiateDeallocation(a) ==
    /\ allocation[a].status = "ACTIVE"
    /\ SetAllocation(a, "DEALLOCATION_INITIATED")
    /\ IF vehicle[allocation[a].vehicle] \in {"ALLOCATED", "IN_USE"}
       THEN SetVehicle(allocation[a].vehicle, "DEALLOCATION_IN_PROGRESS")
       ELSE UNCHANGED vehicle
    /\ UNCHANGED <<agreement, return, submission, exchange, overridden>>

\* completeDeallocationInTransaction: the status and the inspection it asks for.
MayEnd(a) ==
    /\ allocation[a].status \in {"DEALLOCATION_INITIATED", "OTP_PENDING"}
    /\ allocation[a].returning

\* Faulty: the inspection of the returned vehicle is not asked for.
CompleteUnstarted(a, safe) ==
    /\ allocation[a].status \in {"DEALLOCATION_INITIATED", "OTP_PENDING"}
    /\ submission[a] = Unused
    /\ SetAllocation(a, "COMPLETED")
    /\ SetVehicle(allocation[a].vehicle, IF safe THEN "AVAILABLE" ELSE "MAINTENANCE")
    /\ UNCHANGED <<agreement, return, submission, exchange, overridden>>

\* completeDeallocation, for an allocation that nobody asked to return or to
\* exchange; the outcome of the inspection and both confirmations are outside.
CompleteDeallocation(a, safe) ==
    /\ MayEnd(a)
    /\ submission[a] = Unused
    /\ \A g \in Agreements : return[g] # Unused => return[g].allocation # a
    /\ \A e \in Exchanges :
          exchange[e].status \notin {"NONE", "CHECKED", "CANCELLED", "REJECTED"}
              => exchange[e].old # a
    /\ SetAllocation(a, "COMPLETED")
    /\ SetVehicle(allocation[a].vehicle, IF safe THEN "AVAILABLE" ELSE "MAINTENANCE")
    /\ UNCHANGED <<agreement, return, submission, exchange, overridden>>

AgreementMoves ==
    [PENDING_ACTIVATION |-> {"ACTIVE", "CANCELLED"},
     ACTIVE |-> {"SUSPENDED", "TERMINATION_PENDING", "COMPLETED"},
     SUSPENDED |-> {"ACTIVE", "TERMINATION_PENDING"},
     TERMINATION_PENDING |-> {"TERMINATED"}]

\* The allocation it asks for is one on the vehicle the rental began with.
ChangeAgreementStatus(g, target) ==
    LET drives == \E a \in Allocations :
                      /\ allocation[a].status = "ACTIVE"
                      /\ allocation[a].rider = agreement[g].rider
                      /\ allocation[a].vehicle = agreement[g].vehicle
    IN  /\ Live(g)
        /\ target \in AgreementMoves[agreement[g].status]
        /\ target = "ACTIVE" => drives
        /\ target \in EndedAgreement => ~drives
        /\ SetAgreement(g, target)
        /\ UNCHANGED <<vehicle, allocation, return, submission, exchange, overridden>>

StatusMoves ==
    [AVAILABLE |-> {"RESERVED", "MAINTENANCE"},
     RESERVED |-> {"AVAILABLE", "ALLOCATION_IN_PROGRESS", "MAINTENANCE"},
     ALLOCATION_IN_PROGRESS |-> {"ALLOCATED", "AVAILABLE"},
     ALLOCATED |-> {"IN_USE", "DEALLOCATION_IN_PROGRESS"},
     IN_USE |-> {"DEALLOCATION_IN_PROGRESS", "MAINTENANCE"},
     DEALLOCATION_IN_PROGRESS |-> {"INSPECTION_PENDING", "IN_USE"},
     INSPECTION_PENDING |-> {"AVAILABLE", "MAINTENANCE"},
     MAINTENANCE |-> {"AVAILABLE"}]

OffAndOnTheRoad == {"AVAILABLE", "MAINTENANCE"}

\* changeStatus follows the policy and does not look at allocations.  A transfer
\* between hubs is a move to MAINTENANCE and back.
ChangeStatus(v, status) ==
    /\ status \in StatusMoves[vehicle[v]]
    /\ status \in {"AVAILABLE", "ALLOCATED", "IN_USE"} => ~ChecksPending(v)
    /\ overridden' = IF HoldersOf(v) = {} /\ {vehicle[v], status} = OffAndOnTheRoad
                     THEN overridden ELSE overridden \cup {v}
    /\ Cardinality(overridden') <= MaxOverridden
    /\ SetVehicle(v, status)
    /\ UNCHANGED <<allocation, agreement, return, submission, exchange>>

DeploymentNext ==
    \/ \E a \in Allocations :
          \/ \E r \in Riders, v \in Vehicles : Initiate(a, r, v)
          \/ SubmitPdi(a)
          \/ CompleteInspection(a)
          \/ HandOver(a)
          \/ InitiateDeallocation(a)
          \/ \E safe \in BOOLEAN : CompleteDeallocation(a, safe)
    \/ \E g \in Agreements :
          \/ \E r \in Riders, v \in Vehicles : AcceptOffer(g, r, v)
          \/ \E s \in LiveAgreement \cup EndedAgreement : ChangeAgreementStatus(g, s)
    \/ \E v \in Vehicles, s \in VehicleStatus : ChangeStatus(v, s)
=============================================================================

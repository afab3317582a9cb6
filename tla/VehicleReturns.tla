--------------------------- MODULE VehicleReturns ---------------------------
(***************************************************************************)
(* A vehicle comes back.  A return is asked for, and a submission takes    *)
(* the vehicle in, for that return or for an exchange: a mechanic reports  *)
(* on it, the report is imposed, and the confirmation ends the allocation. *)
(* These services work in serializable transactions, each one step here.   *)
(***************************************************************************)
EXTENDS Deployment

Returnable == {"ACTIVE", "SUSPENDED", "TERMINATION_PENDING"}

\* RideReturnsService.request
RequestReturn(g, a) ==
    /\ agreement[g].status \in Returnable
    /\ allocation[a].status = "ACTIVE"
    /\ allocation[a].rider = agreement[g].rider
    /\ allocation[a].vehicle = VehicleOf(g)
    /\ allocation[a].agreement = {g}
    /\ ExchangeOf(a) = {}
    /\ return[g] = Unused
    /\ return' = [return EXCEPT ![g] = [status |-> "REQUESTED", allocation |-> a]]
    /\ UNCHANGED <<vehicle, allocation, agreement, submission, exchange, overridden>>

\* A submission that was opened for the return of agreement g.
TakesIn(a, g) ==
    submission[a] # Unused /\ submission[a].for = {} /\ submission[a].agreement = g

\* The rider takes back a request of his own; one of the staff just stays.
CancelReturn(g) ==
    /\ return[g].status = "REQUESTED"
    /\ \A a \in Allocations : ~TakesIn(a, g)
    /\ return' = [return EXCEPT ![g] = Unused]
    /\ UNCHANGED <<vehicle, allocation, agreement, submission, exchange, overridden>>

\* What start does to the vehicle, for either kind of request.
Intake(a, g, x) ==
    /\ submission[a] = Unused
    /\ InHand(a)
    /\ allocation[a].rider = agreement[g].rider
    /\ SetAllocation(a, "DEALLOCATION_INITIATED")
    /\ SetVehicle(allocation[a].vehicle, "DEALLOCATION_IN_PROGRESS")
    /\ submission' = [submission EXCEPT ![a] =
                         [status |-> "STARTED", agreement |-> g, for |-> x]]
    /\ UNCHANGED <<agreement, return, overridden>>

StartForReturn(a) ==
    /\ \E g \in ReturnOf(a) : Intake(a, g, {})
    /\ ExchangeOf(a) = {}
    /\ UNCHANGED exchange

StartForExchange(a, e) ==
    /\ exchange[e].status \in {"REQUESTED", "APPROVED", "RETURN_PENDING"}
    /\ exchange[e].old = a
    /\ ReturnOf(a) = {}
    /\ Intake(a, exchange[e].agreement, {e})
    /\ exchange' = [exchange EXCEPT ![e].status = "RETURN_PENDING",
                                    ![e].inspected = TRUE]

StartSubmission(a) ==
    StartForReturn(a) \/ \E e \in Exchanges : StartForExchange(a, e)

MoveReport(a, from, to) ==
    /\ submission[a].status \in from
    /\ SetSubmission(a, to)
    /\ UNCHANGED <<vehicle, allocation, agreement, return, exchange, overridden>>

RecordReport(a) == MoveReport(a, {"STARTED"}, "DRAFT")
Impose(a) == MoveReport(a, {"DRAFT"}, "SUBMITTED")
\* Refused once the report has posted a charge, which an amount of zero never does.
CancelReport(a) == MoveReport(a, {"DRAFT", "SUBMITTED"}, "STARTED")

-----------------------------------------------------------------------------
(* completePhysicalSubmission, by the kind of request *)

ReceiveReturn(a) ==
    LET g == submission[a].agreement
    IN  /\ submission[a].for = {}
        /\ return[g].status = "REQUESTED"
        /\ return[g].allocation = a
        /\ agreement[g].status \in Returnable
        /\ return' = [return EXCEPT ![g].status = "RETURNED"]
        /\ SetAgreement(g, "TERMINATED")
        /\ UNCHANGED exchange

\* The agreement goes on without a vehicle until the exchange gives it another.
ReceiveForExchange(a) ==
    LET g == submission[a].agreement
    IN  \E e \in submission[a].for :
        /\ exchange[e].status = "RETURN_PENDING"
        /\ exchange[e].old = a
        /\ agreement[g].status = "ACTIVE"
        /\ agreement[g].current = {allocation[a].vehicle}
        /\ agreement[g].version = exchange[e].base
        /\ agreement' = [agreement EXCEPT ![g].current = {}]
        /\ SetExchange(e, "APPROVED")
        /\ UNCHANGED return

\* confirm: posts the report and, in one transaction, completes the deallocation.
Confirm(a, safe) ==
    /\ submission[a].status = "SUBMITTED"
    /\ HoldersOf(allocation[a].vehicle) \subseteq {a}
    /\ MayEnd(a)
    /\ ReceiveReturn(a) \/ ReceiveForExchange(a)
    /\ SetSubmission(a, "CONFIRMED")
    /\ SetAllocation(a, "COMPLETED")
    /\ SetVehicle(allocation[a].vehicle, IF safe THEN "AVAILABLE" ELSE "MAINTENANCE")
    /\ UNCHANGED overridden

ReturnsNext ==
    \/ \E g \in Agreements :
          \/ \E a \in Allocations : RequestReturn(g, a)
          \/ CancelReturn(g)
    \/ \E a \in Allocations :
          \/ StartSubmission(a)
          \/ RecordReport(a) \/ Impose(a) \/ CancelReport(a)
          \/ \E safe \in BOOLEAN : Confirm(a, safe)
=============================================================================

------------------------ MODULE VehicleCustodyProofs ------------------------
(***************************************************************************)
(* Vehicles, riders and agreements agree on who has what, for any number   *)
(* of each.  What matters of a step is what it does to the rows: an        *)
(* allocation keeps its rider and vehicle, begins for a vehicle that no    *)
(* unfinished one is about, and moves along its life; an agreement keeps   *)
(* its rider and never comes back to life; an exchange moves along its     *)
(* life, and what it hands over stays what it selected.                    *)
(*                                                                         *)
(* Three invariants carry the theorems.  CustodyInv has one holder for     *)
(* every vehicle.  FreeIsFree and HoldIsKept follow a replacement from its *)
(* selection to its handover.  CustodyLinks says how the rows of           *)
(* allocations, agreements, returns and exchanges name each other.         *)
(***************************************************************************)
EXTENDS VehicleExchange, TLAPS

\* An exchange is about an agreement that is there.
RequestsKnown ==
    \A e \in Exchanges :
        exchange[e].status # "NONE" => agreement[exchange[e].agreement].status # "NONE"

\* A vehicle is asked back only after it was handed over.
HandedFirst ==
    \A a \in Allocations :
        allocation[a].status # "NONE" /\ (InHand(a) \/ allocation[a].returning)
            => allocation[a].handed

CustodyInv == CustodyTypeOK /\ RequestsKnown /\ OneHolder /\ HandedFirst

-----------------------------------------------------------------------------
(* Lemmas: types *)

\* Writing the status of a row that is there keeps the type of its table.
LEMMA AllocationWrite ==
    ASSUME CustodyTypeOK, NEW a \in Allocations, allocation[a].status # "NONE",
           NEW s \in {"INSPECTION_PENDING", "OTP_PENDING", "ACTIVE",
                      "DEALLOCATION_INITIATED", "COMPLETED"},
           SetAllocation(a, s)
    PROVE  allocation' \in [Allocations -> AllocationRow \cup {Unused}]
<1>1. allocation[a] \in AllocationRow
  BY DEF CustodyTypeOK, Unused
<1> DEFINE row == [allocation[a] EXCEPT
                       !.status = s,
                       !.handed = allocation[a].handed \/ s = "ACTIVE",
                       !.returning = allocation[a].returning \/ s = "DEALLOCATION_INITIATED"]
<1>2. row \in AllocationRow
  BY <1>1 DEF AllocationRow
<1>3. allocation' = [allocation EXCEPT ![a] = row]
  BY DEF SetAllocation
<1> HIDE DEF row
<1> QED BY <1>2, <1>3 DEF CustodyTypeOK

LEMMA AgreementWrite ==
    ASSUME CustodyTypeOK, NEW g \in Agreements, agreement[g].status # "NONE",
           NEW s \in LiveAgreement \cup EndedAgreement, SetAgreement(g, s)
    PROVE  agreement' \in [Agreements -> AgreementRow \cup {Unused}]
<1>1. agreement[g] \in AgreementRow
  BY DEF CustodyTypeOK, Unused
<1>2. [agreement[g] EXCEPT !.status = s] \in AgreementRow
  BY <1>1 DEF AgreementRow
<1> QED BY <1>2 DEF CustodyTypeOK, SetAgreement

LEMMA SubmissionWrite ==
    ASSUME CustodyTypeOK, NEW a \in Allocations, submission[a].status # "NONE",
           NEW s \in {"STARTED", "DRAFT", "SUBMITTED", "CONFIRMED"}, SetSubmission(a, s)
    PROVE  submission' \in [Allocations -> SubmissionRow \cup {Unused}]
<1>1. submission[a] \in SubmissionRow
  BY DEF CustodyTypeOK, Unused
<1>2. [submission[a] EXCEPT !.status = s] \in SubmissionRow
  BY <1>1 DEF SubmissionRow
<1> QED BY <1>2 DEF CustodyTypeOK, SetSubmission

LEMMA ExchangeWrite ==
    ASSUME CustodyTypeOK, NEW e \in Exchanges, exchange[e].status # "NONE",
           NEW s \in ActiveExchange \cup {"CHECKED", "REJECTED", "CANCELLED", "EXPIRED",
                                          "COMPLETED"},
           SetExchange(e, s)
    PROVE  exchange' \in [Exchanges -> ExchangeRow \cup {Unused}]
<1>1. exchange[e] \in ExchangeRow
  BY DEF CustodyTypeOK, Unused
<1>2. [exchange[e] EXCEPT !.status = s] \in ExchangeRow
  BY <1>1 DEF ExchangeRow
<1> QED BY <1>2 DEF CustodyTypeOK, SetExchange

\* Setting the status of a vehicle keeps its type.
LEMMA VehicleWrite ==
    ASSUME CustodyTypeOK, NEW v \in Vehicles, NEW s \in VehicleStatus, SetVehicle(v, s)
    PROVE  vehicle' \in [Vehicles -> VehicleStatus]
BY DEF CustodyTypeOK, SetVehicle

LEMMA AllocatedVehicle ==
    ASSUME CustodyTypeOK, NEW a \in Allocations, allocation[a].status # "NONE"
    PROVE  allocation[a] \in AllocationRow /\ allocation[a].vehicle \in Vehicles
BY DEF CustodyTypeOK, Unused, AllocationRow

LEMMA DeploymentTypes == CustodyTypeOK /\ DeploymentNext => CustodyTypeOK'
<1> SUFFICES ASSUME CustodyTypeOK, DeploymentNext PROVE CustodyTypeOK'
  OBVIOUS
<1>1. CASE \E a \in Allocations, r \in Riders, v \in Vehicles : Initiate(a, r, v)
  <2> PICK a \in Allocations, r \in Riders, v \in Vehicles : Initiate(a, r, v)
    BY <1>1
  <2>1. [status |-> "INSPECTION_PENDING", handed |-> FALSE, returning |-> FALSE,
         rider |-> r, vehicle |-> v,
         agreement |-> {exchange[e].agreement : e \in {}}, exchange |-> {}] \in AllocationRow
    BY DEF AllocationRow, Optional
  <2> QED BY <2>1, VehicleWrite DEF Initiate, InitiateFor, CustodyTypeOK, VehicleStatus
<1>2. CASE \E a \in Allocations : SubmitPdi(a) \/ CompleteInspection(a)
  BY <1>2, AllocationWrite DEF SubmitPdi, CompleteInspection, Unfinished, CustodyTypeOK
<1>3. CASE \E a \in Allocations : HandOver(a)
  <2> PICK a \in Allocations : HandOver(a)
    BY <1>3
  <2>1. agreement' \in [Agreements -> AgreementRow \cup {Unused}]
    BY AllocatedVehicle, AgreementWrite
       DEF HandOver, AgreementStarts, ReplacementIsAwaited, CustodyTypeOK, AllocationRow,
           Optional, LiveAgreement
  <2>2. allocation' \in [Allocations -> AllocationRow \cup {Unused}]
    BY AllocationWrite DEF HandOver
  <2>3. vehicle' \in [Vehicles -> VehicleStatus]
    BY AllocatedVehicle, VehicleWrite DEF HandOver, VehicleStatus
  <2> QED BY <2>1, <2>2, <2>3 DEF HandOver, CustodyTypeOK
<1>4. CASE \E a \in Allocations : InitiateDeallocation(a)
  <2> PICK a \in Allocations : InitiateDeallocation(a)
    BY <1>4
  <2>1. vehicle' \in [Vehicles -> VehicleStatus]
    BY AllocatedVehicle, VehicleWrite DEF InitiateDeallocation, VehicleStatus, CustodyTypeOK
  <2> QED BY <2>1, AllocationWrite DEF InitiateDeallocation, CustodyTypeOK
<1>5. CASE \E a \in Allocations, safe \in BOOLEAN : CompleteDeallocation(a, safe)
  <2> PICK a \in Allocations, safe \in BOOLEAN : CompleteDeallocation(a, safe)
    BY <1>5
  <2>1. vehicle' \in [Vehicles -> VehicleStatus]
    BY AllocatedVehicle, VehicleWrite DEF CompleteDeallocation, MayEnd, VehicleStatus
  <2> QED BY <2>1, AllocationWrite DEF CompleteDeallocation, MayEnd, CustodyTypeOK
<1>6. CASE \E g \in Agreements, r \in Riders, v \in Vehicles : AcceptOffer(g, r, v)
  <2> PICK g \in Agreements, r \in Riders, v \in Vehicles : AcceptOffer(g, r, v)
    BY <1>6
  <2>1. [status |-> "PENDING_ACTIVATION", rider |-> r, vehicle |-> v, current |-> {v},
         version |-> 1] \in AgreementRow
    BY DEF AgreementRow, Optional, LiveAgreement
  <2>2. \A a \in AwaitingPlan(r, v) :
           [allocation[a] EXCEPT !.agreement = {g}] \in AllocationRow
    BY DEF AwaitingPlan, CustodyTypeOK, Unused, AllocationRow, Optional
  <2>3. allocation' \in [Allocations -> AllocationRow \cup {Unused}]
    BY <2>2 DEF AcceptOffer, CustodyTypeOK
  <2> QED BY <2>1, <2>3 DEF AcceptOffer, CustodyTypeOK
<1>7. CASE \E g \in Agreements, s \in LiveAgreement \cup EndedAgreement :
              ChangeAgreementStatus(g, s)
  <2> PICK g \in Agreements, s \in LiveAgreement \cup EndedAgreement :
              ChangeAgreementStatus(g, s)
    BY <1>7
  <2>1. agreement[g].status # "NONE" /\ SetAgreement(g, s)
    BY DEF ChangeAgreementStatus, Live, LiveAgreement
  <2> QED BY <2>1, AgreementWrite DEF ChangeAgreementStatus, CustodyTypeOK
<1>8. CASE \E v \in Vehicles, s \in VehicleStatus : ChangeStatus(v, s)
  <2> PICK v \in Vehicles, s \in VehicleStatus : ChangeStatus(v, s)
    BY <1>8
  <2>1. overridden' \subseteq Vehicles
    BY DEF ChangeStatus, CustodyTypeOK
  <2> QED BY <2>1, VehicleWrite DEF ChangeStatus, CustodyTypeOK
<1> QED BY <1>1, <1>2, <1>3, <1>4, <1>5, <1>6, <1>7, <1>8 DEF DeploymentNext

\* What every start of a submission has in common.
LEMMA IntakeTypes ==
    ASSUME CustodyTypeOK, NEW a \in Allocations, NEW g \in Agreements,
           NEW x \in Optional(Exchanges), Intake(a, g, x)
    PROVE  /\ vehicle' \in [Vehicles -> VehicleStatus]
           /\ allocation' \in [Allocations -> AllocationRow \cup {Unused}]
           /\ submission' \in [Allocations -> SubmissionRow \cup {Unused}]
<1>1. allocation[a].status # "NONE"
  BY DEF Intake, InHand
<1>2. [status |-> "STARTED", agreement |-> g, for |-> x] \in SubmissionRow
  BY DEF SubmissionRow
<1>3. vehicle' \in [Vehicles -> VehicleStatus]
  BY <1>1, AllocatedVehicle, VehicleWrite DEF Intake, VehicleStatus
<1>4. allocation' \in [Allocations -> AllocationRow \cup {Unused}]
  BY <1>1, AllocationWrite DEF Intake
<1> QED BY <1>2, <1>3, <1>4 DEF Intake, CustodyTypeOK

LEMMA ReturnsTypes == CustodyTypeOK /\ ReturnsNext => CustodyTypeOK'
<1> SUFFICES ASSUME CustodyTypeOK, ReturnsNext PROVE CustodyTypeOK'
  OBVIOUS
<1>1. CASE \E g \in Agreements, a \in Allocations : RequestReturn(g, a)
  <2> PICK g \in Agreements, a \in Allocations : RequestReturn(g, a)
    BY <1>1
  <2>1. [status |-> "REQUESTED", allocation |-> a] \in ReturnRow
    BY DEF ReturnRow
  <2> QED BY <2>1 DEF RequestReturn, CustodyTypeOK
<1>2. CASE \E g \in Agreements : CancelReturn(g)
  BY <1>2 DEF CancelReturn, CustodyTypeOK
<1>3. CASE \E a \in Allocations : StartForReturn(a)
  <2> PICK a \in Allocations : StartForReturn(a)
    BY <1>3
  <2> PICK g \in ReturnOf(a) : Intake(a, g, {})
    BY DEF StartForReturn
  <2>1. g \in Agreements /\ {} \in Optional(Exchanges)
    BY DEF ReturnOf, Optional
  <2> QED BY <2>1, IntakeTypes DEF StartForReturn, Intake, CustodyTypeOK
<1>4. CASE \E a \in Allocations, e \in Exchanges : StartForExchange(a, e)
  <2> PICK a \in Allocations, e \in Exchanges : StartForExchange(a, e)
    BY <1>4
  <2>1. exchange[e] \in ExchangeRow
    BY DEF StartForExchange, CustodyTypeOK, Unused
  <2>2. exchange[e].agreement \in Agreements /\ {e} \in Optional(Exchanges)
    BY <2>1 DEF ExchangeRow, Optional
  <2>3. [[exchange[e] EXCEPT !.status = "RETURN_PENDING"] EXCEPT !.inspected = TRUE]
            \in ExchangeRow
    BY <2>1 DEF ExchangeRow, ActiveExchange
  <2>4. exchange' \in [Exchanges -> ExchangeRow \cup {Unused}]
    BY <2>3 DEF StartForExchange, CustodyTypeOK
  <2> QED BY <2>2, <2>4, IntakeTypes DEF StartForExchange, Intake, CustodyTypeOK
<1>5. CASE \E a \in Allocations : RecordReport(a) \/ Impose(a) \/ CancelReport(a)
  <2> PICK a \in Allocations : RecordReport(a) \/ Impose(a) \/ CancelReport(a)
    BY <1>5
  <2>1. submission[a].status # "NONE"
    BY DEF RecordReport, Impose, CancelReport, MoveReport
  <2>2. \E s \in {"STARTED", "DRAFT", "SUBMITTED", "CONFIRMED"} : SetSubmission(a, s)
    BY DEF RecordReport, Impose, CancelReport, MoveReport
  <2> QED BY <2>1, <2>2, SubmissionWrite
          DEF RecordReport, Impose, CancelReport, MoveReport, CustodyTypeOK
<1>6. CASE \E a \in Allocations, safe \in BOOLEAN : Confirm(a, safe)
  <2> PICK a \in Allocations, safe \in BOOLEAN : Confirm(a, safe)
    BY <1>6
  <2>1. submission[a] \in SubmissionRow /\ submission[a].agreement \in Agreements
    BY DEF Confirm, CustodyTypeOK, Unused, SubmissionRow
  <2>2. vehicle' \in [Vehicles -> VehicleStatus]
    BY AllocatedVehicle, VehicleWrite DEF Confirm, MayEnd, VehicleStatus
  <2>3. allocation' \in [Allocations -> AllocationRow \cup {Unused}]
    BY AllocationWrite DEF Confirm, MayEnd
  <2>4. submission' \in [Allocations -> SubmissionRow \cup {Unused}]
    BY SubmissionWrite DEF Confirm
  <2>5. CASE ReceiveReturn(a)
    <3> DEFINE g == submission[a].agreement
    <3>1. [return[g] EXCEPT !.status = "RETURNED"] \in ReturnRow
      BY <2>1, <2>5 DEF ReceiveReturn, CustodyTypeOK, Unused, ReturnRow
    <3>2. return' \in [Agreements -> ReturnRow \cup {Unused}]
      BY <2>1, <2>5, <3>1 DEF ReceiveReturn, CustodyTypeOK
    <3>3. agreement' \in [Agreements -> AgreementRow \cup {Unused}]
      BY <2>1, <2>5, AgreementWrite DEF ReceiveReturn, Returnable, EndedAgreement
    <3> QED BY <2>2, <2>3, <2>4, <2>5, <3>2, <3>3 DEF ReceiveReturn, Confirm, CustodyTypeOK
  <2>6. CASE ReceiveForExchange(a)
    <3> DEFINE g == submission[a].agreement
    <3> PICK e \in submission[a].for :
             /\ exchange[e].status = "RETURN_PENDING"
             /\ agreement[g].status = "ACTIVE"
             /\ agreement' = [agreement EXCEPT ![g].current = {}]
             /\ SetExchange(e, "APPROVED")
             /\ UNCHANGED return
      BY <2>6 DEF ReceiveForExchange
    <3>1. e \in Exchanges
      BY <2>1 DEF SubmissionRow, Optional
    <3>2. [agreement[g] EXCEPT !.current = {}] \in AgreementRow
      BY <2>1 DEF CustodyTypeOK, Unused, AgreementRow, Optional
    <3>3. agreement' \in [Agreements -> AgreementRow \cup {Unused}]
      BY <2>1, <3>2 DEF CustodyTypeOK
    <3>4. exchange' \in [Exchanges -> ExchangeRow \cup {Unused}]
      BY <3>1, ExchangeWrite DEF ActiveExchange
    <3> QED BY <2>2, <2>3, <2>4, <3>3, <3>4 DEF Confirm, CustodyTypeOK
  <2> QED BY <2>5, <2>6 DEF Confirm
<1> QED BY <1>1, <1>2, <1>3, <1>4, <1>5, <1>6 DEF ReturnsNext, StartSubmission

\* An exchange whose status is written stays a row of its table.
LEMMA MoveTypes ==
    ASSUME CustodyTypeOK, NEW e \in Exchanges,
           NEW from \in SUBSET (ActiveExchange \cup {"CHECKED"}),
           NEW to \in ActiveExchange \cup {"REJECTED", "CANCELLED"},
           MoveExchange(e, from, to)
    PROVE  CustodyTypeOK'
<1>1. exchange[e].status # "NONE"
  BY DEF MoveExchange, ActiveExchange
<1> QED BY <1>1, ExchangeWrite DEF MoveExchange, CustodyTypeOK

LEMMA ExchangeTypes == CustodyTypeOK /\ RequestsKnown /\ ExchangeNext => CustodyTypeOK'
<1> SUFFICES ASSUME CustodyTypeOK, RequestsKnown, NEW e \in Exchanges,
                    \/ \E g \in Agreements, a \in Allocations : CheckExchange(e, g, a)
                    \/ CreateExchange(e) \/ Approve(e) \/ Reject(e) \/ Cancel(e)
                    \/ \E v \in Vehicles : Select(e, v)
                    \/ HoldLapses(e) \/ Present(e) \/ RejectOffer(e) \/ Accept(e)
                    \/ ReconcileDeposits(e)
                    \/ \E a \in Allocations : StartHandover(e, a) \/ LinkHandover(e, a)
                    \/ Complete(e)
             PROVE  CustodyTypeOK'
  BY DEF ExchangeNext
<1>1. CASE \E g \in Agreements, a \in Allocations : CheckExchange(e, g, a)
  <2> PICK g \in Agreements, a \in Allocations : CheckExchange(e, g, a)
    BY <1>1
  <2>1. agreement[g] \in AgreementRow
    BY DEF CheckExchange, CustodyTypeOK, Unused
  <2>2. [status |-> "CHECKED", agreement |-> g, old |-> a,
         base |-> agreement[g].version, inspected |-> FALSE,
         replacement |-> {}, hold |-> "NONE", allocation |-> {}] \in ExchangeRow
    BY <2>1 DEF ExchangeRow, AgreementRow, Optional
  <2> QED BY <2>2 DEF CheckExchange, CustodyTypeOK
<1>2. CASE CreateExchange(e)
  <2>1. exchange[e].status # "NONE"
    BY <1>2 DEF CreateExchange
  <2> QED BY <1>2, <2>1, ExchangeWrite DEF CreateExchange, CustodyTypeOK, ActiveExchange
<1>3. CASE Approve(e)
  BY <1>3, MoveTypes DEF Approve, ActiveExchange
<1>4. CASE Reject(e)
  BY <1>4, MoveTypes DEF Reject, ActiveExchange
<1>5. CASE Cancel(e)
  BY <1>5, MoveTypes DEF Cancel, ActiveExchange
<1>6. CASE \E v \in Vehicles : Select(e, v)
  <2> PICK v \in Vehicles : Select(e, v)
    BY <1>6
  <2>0. exchange[e].status # "NONE"
    BY DEF Select
  <2>1. exchange[e] \in ExchangeRow
    BY <2>0 DEF CustodyTypeOK, Unused
  <2>2. [[[exchange[e] EXCEPT !.status = "REPLACEMENT_SELECTED"]
                       EXCEPT !.replacement = {v}] EXCEPT !.hold = "RUNNING"] \in ExchangeRow
    BY <2>1 DEF ExchangeRow, ActiveExchange, Optional
  <2>3. \A x \in LapsedOn(v) : [exchange[x] EXCEPT !.status = "EXPIRED"] \in ExchangeRow
    <3> TAKE x \in LapsedOn(v)
    <3>1. exchange[x] \in ExchangeRow
      BY DEF LapsedOn, CustodyTypeOK, Unused, ActiveExchange
    <3> QED BY <3>1 DEF ExchangeRow
  <2>4. exchange' \in [Exchanges -> ExchangeRow \cup {Unused}]
    BY <2>2, <2>3 DEF Select, CustodyTypeOK
  <2> QED BY <2>4 DEF Select, CustodyTypeOK
<1>7. CASE HoldLapses(e)
  <2>1. exchange[e] \in ExchangeRow
    BY <1>7 DEF HoldLapses, CustodyTypeOK, Unused
  <2>2. [exchange[e] EXCEPT !.hold = "LAPSED"] \in ExchangeRow
    BY <2>1 DEF ExchangeRow
  <2> QED BY <1>7, <2>2 DEF HoldLapses, CustodyTypeOK
<1>8. CASE Present(e)
  BY <1>8, MoveTypes DEF Present, ActiveExchange
<1>9. CASE RejectOffer(e)
  BY <1>9, MoveTypes DEF RejectOffer, ActiveExchange
<1>10. CASE Accept(e)
  <2>1. exchange[e] \in ExchangeRow
    BY <1>10 DEF Accept, CustodyTypeOK, Unused
  <2>2. [[exchange[e] EXCEPT !.status = "DEPOSIT_PENDING"] EXCEPT !.hold = "NONE"]
            \in ExchangeRow
    BY <2>1 DEF ExchangeRow, ActiveExchange
  <2> QED BY <1>10, <2>2 DEF Accept, CustodyTypeOK
<1>11. CASE ReconcileDeposits(e)
  BY <1>11, MoveTypes DEF ReconcileDeposits, ActiveExchange
<1>12. CASE \E a \in Allocations : StartHandover(e, a)
  <2> PICK a \in Allocations, v \in exchange[e].replacement :
           /\ exchange[e].status = "HANDOVER_PENDING"
           /\ InitiateFor(a, agreement[exchange[e].agreement].rider, v, {e})
    BY <1>12 DEF StartHandover
  <2>1. exchange[e] \in ExchangeRow
    BY DEF CustodyTypeOK, Unused
  <2>2. v \in Vehicles /\ exchange[e].agreement \in Agreements
    BY <2>1 DEF ExchangeRow, Optional
  <2>3. agreement[exchange[e].agreement].rider \in Riders
    BY <2>2 DEF RequestsKnown, CustodyTypeOK, Unused, AgreementRow
  <2>4. [status |-> "INSPECTION_PENDING", handed |-> FALSE, returning |-> FALSE,
         rider |-> agreement[exchange[e].agreement].rider,
         vehicle |-> v, agreement |-> {exchange[x].agreement : x \in {e}},
         exchange |-> {e}] \in AllocationRow
    <3>1. {exchange[x].agreement : x \in {e}} = {exchange[e].agreement}
      OBVIOUS
    <3> QED BY <2>2, <2>3, <3>1 DEF AllocationRow, Optional
  <2> QED BY <2>2, <2>4, VehicleWrite DEF InitiateFor, CustodyTypeOK, VehicleStatus
<1>13. CASE \E a \in Allocations : LinkHandover(e, a)
  <2> PICK a \in Allocations : LinkHandover(e, a)
    BY <1>13
  <2>1. exchange[e] \in ExchangeRow
    BY DEF LinkHandover, CustodyTypeOK, Unused
  <2>2. [exchange[e] EXCEPT !.allocation = {a}] \in ExchangeRow
    BY <2>1 DEF ExchangeRow, Optional
  <2> QED BY <2>2 DEF LinkHandover, CustodyTypeOK
<1>14. CASE Complete(e)
  <2> DEFINE g == exchange[e].agreement
  <2>1. exchange[e] \in ExchangeRow
    BY <1>14 DEF Complete, CustodyTypeOK, Unused
  <2>2. agreement[g] \in AgreementRow
    BY <1>14, <2>1 DEF Complete, AgreementStands, CustodyTypeOK, Unused, ExchangeRow
  <2>3. [[agreement[g] EXCEPT !.current = exchange[e].replacement]
                       EXCEPT !.version = exchange[e].base + 1] \in AgreementRow
    <3>1. exchange[e].replacement \in Optional(Vehicles) /\ exchange[e].base + 1 \in Nat
      BY <2>1 DEF ExchangeRow
    <3> QED BY <2>2, <3>1 DEF AgreementRow
  <2>4. agreement' \in [Agreements -> AgreementRow \cup {Unused}]
    BY <1>14, <2>3 DEF Complete, CustodyTypeOK
  <2>5. exchange' \in [Exchanges -> ExchangeRow \cup {Unused}]
    BY <1>14, ExchangeWrite DEF Complete, ActiveExchange
  <2> QED BY <1>14, <2>4, <2>5 DEF Complete, CustodyTypeOK
<1> QED BY <1>1, <1>2, <1>3, <1>4, <1>5, <1>6, <1>7, <1>8, <1>9, <1>10, <1>11, <1>12,
           <1>13, <1>14

-----------------------------------------------------------------------------
(* Lemmas: what a step does to agreements and exchanges *)

\* What a step does to an agreement that is there: it stays with its rider, never
\* comes back to life, waits for its handover as it was, and gets another vehicle
\* only when an exchange is completed.
Continues(g) ==
    /\ agreement'[g].status # "NONE"
    /\ agreement'[g].rider = agreement[g].rider
    /\ agreement'[g].vehicle = agreement[g].vehicle
    /\ Live(g)' => Live(g)
    /\ agreement'[g].status = "PENDING_ACTIVATION" => agreement'[g] = agreement[g]
    /\ \/ agreement'[g].current \in {agreement[g].current, {}}
       \/ \E e \in Exchanges : Complete(e) /\ exchange[e].agreement = g
                              /\ agreement'[g].current = exchange[e].replacement

LEMMA AgreementStatusContinues ==
    ASSUME CustodyTypeOK, NEW h, NEW s \in LiveAgreement \cup EndedAgreement,
           SetAgreement(h, s), s = "PENDING_ACTIVATION" => FALSE,
           s \in LiveAgreement => Live(h),
           NEW g \in Agreements, agreement[g].status # "NONE"
    PROVE  Continues(g)
<1>1. agreement[g] \in AgreementRow
  BY DEF CustodyTypeOK, Unused
<1>2. CASE g = h
  <2>1. agreement'[g] = [agreement[g] EXCEPT !.status = s]
    BY <1>2 DEF SetAgreement, CustodyTypeOK
  <2>2. /\ agreement'[g].status = s
        /\ agreement'[g].rider = agreement[g].rider
        /\ agreement'[g].vehicle = agreement[g].vehicle
        /\ agreement'[g].current = agreement[g].current
    BY <1>1, <2>1 DEF AgreementRow
  <2> QED BY <1>2, <2>2 DEF Continues, Live, LiveAgreement, EndedAgreement
<1>3. CASE g # h
  <2>1. agreement'[g] = agreement[g]
    BY <1>3 DEF SetAgreement, CustodyTypeOK
  <2> QED BY <2>1 DEF Continues, Live
<1> QED BY <1>2, <1>3

\* The ways a step can treat the table of agreements.
LEMMA AgreementCases ==
    ASSUME CustodyNext
    PROVE  \/ agreement' = agreement
           \/ \E g \in Agreements, r \in Riders, v \in Vehicles : AcceptOffer(g, r, v)
           \/ \E g \in Agreements, s \in LiveAgreement \cup EndedAgreement :
                 ChangeAgreementStatus(g, s)
           \/ \E a \in Allocations : HandOver(a)
           \/ \E a \in Allocations, safe \in BOOLEAN : Confirm(a, safe)
           \/ \E e \in Exchanges : Complete(e)
<1>1. CASE DeploymentNext
  BY <1>1 DEF DeploymentNext, Initiate, InitiateFor, SubmitPdi, CompleteInspection, InitiateDeallocation,
         CompleteDeallocation, ChangeStatus
<1>2. CASE ReturnsNext
  BY <1>2 DEF ReturnsNext, RequestReturn, CancelReturn, StartSubmission, StartForReturn,
         StartForExchange, Intake, RecordReport, Impose, CancelReport, MoveReport
<1>3. CASE ExchangeNext
  BY <1>3 DEF ExchangeNext, CheckExchange, CreateExchange, Approve, Reject, Cancel, MoveExchange,
         Select, HoldLapses, Present, RejectOffer, Accept, ReconcileDeposits, StartHandover,
         LinkHandover, InitiateFor
<1> QED BY <1>1, <1>2, <1>3 DEF CustodyNext

\* An accepted offer adds one agreement and leaves the others alone.
LEMMA OfferWrites ==
    ASSUME CustodyTypeOK, NEW g \in Agreements, NEW r, NEW v, AcceptOffer(g, r, v)
    PROVE  /\ agreement[g].status = "NONE"
           /\ agreement'[g].status = "PENDING_ACTIVATION"
           /\ agreement'[g].rider = r
           /\ agreement'[g].vehicle = v
           /\ agreement'[g].current = {v}
           /\ \A h \in Agreements \ {g} : agreement'[h] = agreement[h]
BY DEF AcceptOffer, CustodyTypeOK, Unused

LEMMA AgreementsContinue ==
    ASSUME CustodyTypeOK, CustodyNext, NEW g \in Agreements, agreement[g].status # "NONE"
    PROVE  Continues(g)
<1>1. CASE agreement' = agreement
  BY <1>1 DEF Continues, Live
<1>2. CASE \E h \in Agreements, r \in Riders, v \in Vehicles : AcceptOffer(h, r, v)
  <2>1. agreement'[g] = agreement[g]
    BY <1>2, OfferWrites
  <2> QED BY <2>1 DEF Continues, Live
<1>3. CASE \E h \in Agreements, s \in LiveAgreement \cup EndedAgreement :
              ChangeAgreementStatus(h, s)
  <2> PICK h \in Agreements, s \in LiveAgreement \cup EndedAgreement :
              ChangeAgreementStatus(h, s)
    BY <1>3
  <2>1. s # "PENDING_ACTIVATION"
    BY DEF ChangeAgreementStatus, AgreementMoves, Live, LiveAgreement
  <2> QED BY <2>1, AgreementStatusContinues DEF ChangeAgreementStatus
<1>4. CASE \E a \in Allocations : HandOver(a)
  <2>1. ASSUME NEW h, agreement[h].status = "PENDING_ACTIVATION", SetAgreement(h, "ACTIVE")
        PROVE  Continues(g)
    BY <2>1, AgreementStatusContinues DEF Live, LiveAgreement
  <2> QED BY <1>1, <1>4, <2>1 DEF HandOver, AgreementStarts, ReplacementIsAwaited
<1>5. CASE \E a \in Allocations, safe \in BOOLEAN : Confirm(a, safe)
  <2> PICK a \in Allocations, safe \in BOOLEAN : Confirm(a, safe)
    BY <1>5
  <2>1. CASE ReceiveReturn(a)
    BY <2>1, AgreementStatusContinues DEF ReceiveReturn, LiveAgreement, EndedAgreement
  <2>2. CASE ReceiveForExchange(a)
    <3> DEFINE h == submission[a].agreement
    <3>1. agreement[h].status = "ACTIVE" /\ agreement' = [agreement EXCEPT ![h].current = {}]
      BY <2>2 DEF ReceiveForExchange
    <3>2. CASE g = h
      <4>1. agreement[g] \in AgreementRow
        BY DEF CustodyTypeOK, Unused
      <4>2. agreement'[g] = [agreement[g] EXCEPT !.current = {}]
        BY <3>1, <3>2 DEF CustodyTypeOK
      <4>3. /\ agreement'[g].status = "ACTIVE"
            /\ agreement'[g].rider = agreement[g].rider
            /\ agreement'[g].vehicle = agreement[g].vehicle
            /\ agreement'[g].current = {}
        BY <3>1, <3>2, <4>1, <4>2 DEF AgreementRow
      <4> QED BY <3>1, <3>2, <4>3 DEF Continues, Live
    <3>3. CASE g # h
      <4>1. agreement'[g] = agreement[g]
        BY <3>1, <3>3 DEF CustodyTypeOK
      <4> QED BY <4>1 DEF Continues, Live
    <3> QED BY <3>2, <3>3
  <2> QED BY <2>1, <2>2 DEF Confirm
<1>6. CASE \E e \in Exchanges : Complete(e)
  <2> PICK e \in Exchanges : Complete(e)
    BY <1>6
  <2> DEFINE h == exchange[e].agreement
  <2>1. CASE g = h
    <3>1. agreement[g] \in AgreementRow
      BY DEF CustodyTypeOK, Unused
    <3>2. agreement'[g] = [[agreement[g] EXCEPT !.current = exchange[e].replacement]
                                         EXCEPT !.version = exchange[e].base + 1]
      BY <2>1 DEF Complete, CustodyTypeOK
    <3>3. /\ agreement'[g].status = agreement[g].status
          /\ agreement'[g].rider = agreement[g].rider
          /\ agreement'[g].vehicle = agreement[g].vehicle
          /\ agreement'[g].current = exchange[e].replacement
      BY <3>1, <3>2 DEF AgreementRow
    <3>4. agreement[g].status = "ACTIVE"
      BY <2>1 DEF Complete, AgreementStands
    <3> QED BY <2>1, <3>3, <3>4 DEF Continues, Live
  <2>2. CASE g # h
    <3>1. agreement'[g] = agreement[g]
      BY <2>2 DEF Complete, CustodyTypeOK
    <3> QED BY <3>1 DEF Continues, Live
  <2> QED BY <2>1, <2>2
<1> QED BY <1>1, <1>2, <1>3, <1>4, <1>5, <1>6, AgreementCases

LEMMA NewAgreements ==
    ASSUME CustodyTypeOK, CustodyNext, NEW g \in Agreements,
           agreement[g].status = "NONE", agreement'[g].status # "NONE"
    PROVE  \E r \in Riders, v \in Vehicles : AcceptOffer(g, r, v)
<1>1. CASE agreement' = agreement
  BY <1>1
<1>2. CASE \E h \in Agreements, r \in Riders, v \in Vehicles : AcceptOffer(h, r, v)
  BY <1>2, OfferWrites
<1>3. ASSUME NEW h, agreement[h].status # "NONE", NEW s, SetAgreement(h, s)
      PROVE  FALSE
  BY <1>3 DEF SetAgreement, CustodyTypeOK
<1>4. CASE \E h \in Agreements, s \in LiveAgreement \cup EndedAgreement :
              ChangeAgreementStatus(h, s)
  BY <1>3, <1>4 DEF ChangeAgreementStatus, Live, LiveAgreement
<1>5. CASE \E a \in Allocations : HandOver(a)
  BY <1>1, <1>3, <1>5 DEF HandOver, AgreementStarts, ReplacementIsAwaited
<1>6. CASE \E a \in Allocations, safe \in BOOLEAN : Confirm(a, safe)
  <2> PICK a \in Allocations, safe \in BOOLEAN : Confirm(a, safe)
    BY <1>6
  <2>1. CASE ReceiveReturn(a)
    BY <1>3, <2>1 DEF ReceiveReturn, Returnable
  <2>2. CASE ReceiveForExchange(a)
    BY <2>2 DEF ReceiveForExchange, CustodyTypeOK
  <2> QED BY <2>1, <2>2 DEF Confirm
<1>7. CASE \E e \in Exchanges : Complete(e)
  BY <1>7 DEF Complete, AgreementStands, CustodyTypeOK
<1> QED BY <1>1, <1>2, <1>4, <1>5, <1>6, <1>7, AgreementCases

\* The life of an exchange, as far as its status tells it.
ExchangeOnward ==
    {<<"CHECKED", "REQUESTED">>, <<"REQUESTED", "APPROVED">>, <<"REQUESTED", "REJECTED">>,
     <<"REQUESTED", "RETURN_PENDING">>, <<"APPROVED", "RETURN_PENDING">>,
     <<"RETURN_PENDING", "RETURN_PENDING">>, <<"RETURN_PENDING", "APPROVED">>,
     <<"REQUESTED", "CANCELLED">>, <<"APPROVED", "CANCELLED">>,
     <<"REPLACEMENT_SELECTED", "CANCELLED">>, <<"OFFER_PRESENTED", "CANCELLED">>,
     <<"REPLACEMENT_SELECTED", "OFFER_PRESENTED">>,
     <<"OFFER_PRESENTED", "REPLACEMENT_SELECTED">>,
     <<"DEPOSIT_PENDING", "HANDOVER_PENDING">>, <<"HANDOVER_PENDING", "COMPLETED">>}

Goes(e) ==
    /\ <<exchange[e].status, exchange'[e].status>> \in ExchangeOnward
    /\ exchange'[e].hold = exchange[e].hold
    /\ exchange'[e].replacement = exchange[e].replacement
    /\ exchange'[e].allocation = exchange[e].allocation

Asked(e) ==
    /\ exchange[e].status = "NONE"
    /\ exchange'[e].status = "CHECKED"
    /\ exchange'[e].replacement = {} /\ exchange'[e].allocation = {}
    /\ agreement[exchange'[e].agreement].status # "NONE"

\* Its hold on the replacement runs out, is found to have run out, or is replaced
\* by the rider's word.
Lapses(e) ==
    /\ exchange[e].status \in {"REPLACEMENT_SELECTED", "OFFER_PRESENTED"}
    /\ exchange'[e].status = exchange[e].status
    /\ exchange'[e].hold = "LAPSED"
    /\ exchange'[e].replacement = exchange[e].replacement
    /\ exchange'[e].allocation = exchange[e].allocation

Expires(e) ==
    /\ exchange[e].status \in ActiveExchange
    /\ exchange[e].hold = "LAPSED"
    /\ exchange'[e].status = "EXPIRED"
    /\ exchange'[e].replacement = exchange[e].replacement
    /\ exchange'[e].allocation = exchange[e].allocation

Agrees(e) ==
    /\ exchange[e].status = "OFFER_PRESENTED" /\ exchange[e].hold = "RUNNING"
    /\ exchange'[e].status = "DEPOSIT_PENDING" /\ exchange'[e].hold = "NONE"
    /\ exchange'[e].replacement = exchange[e].replacement
    /\ exchange'[e].allocation = exchange[e].allocation

Selects(e) ==
    /\ \E v \in Vehicles : Select(e, v) /\ exchange'[e].replacement = {v}
    /\ exchange'[e].status = "REPLACEMENT_SELECTED" /\ exchange'[e].hold = "RUNNING"
    /\ exchange'[e].allocation = exchange[e].allocation

Links(e) ==
    /\ exchange[e].status = "HANDOVER_PENDING"
    /\ exchange'[e].status = exchange[e].status
    /\ exchange'[e].hold = exchange[e].hold
    /\ exchange'[e].replacement = exchange[e].replacement
    /\ \E a \in Allocations : LinkHandover(e, a) /\ exchange'[e].allocation = {a}

ExchangeStep(e) ==
    \/ exchange'[e] = exchange[e]
    \/ Asked(e)
    \/ /\ exchange[e].status # "NONE" /\ exchange'[e].status # "NONE"
       /\ exchange'[e].agreement = exchange[e].agreement
       /\ \/ Goes(e) \/ Lapses(e) \/ Expires(e) \/ Agrees(e) \/ Selects(e) \/ Links(e)

\* Writing one status is such a step when the write follows the life.
LEMMA ExchangeStatusStep ==
    ASSUME CustodyTypeOK, NEW x \in Exchanges, NEW s, SetExchange(x, s),
           <<exchange[x].status, s>> \in ExchangeOnward, NEW e \in Exchanges
    PROVE  ExchangeStep(e)
<1>1. exchange[x] \in ExchangeRow
  BY DEF CustodyTypeOK, Unused, ExchangeOnward
<1>2. CASE e = x
  <2>1. exchange'[x] = [exchange[x] EXCEPT !.status = s]
    BY DEF SetExchange, CustodyTypeOK
  <2>2. /\ exchange'[x].status = s
        /\ exchange'[x].agreement = exchange[x].agreement
        /\ exchange'[x].hold = exchange[x].hold
        /\ exchange'[x].replacement = exchange[x].replacement
        /\ exchange'[x].allocation = exchange[x].allocation
    BY <1>1, <2>1 DEF ExchangeRow
  <2>3. s # "NONE" /\ exchange[x].status # "NONE"
    BY DEF ExchangeOnward
  <2> QED BY <1>2, <2>2, <2>3 DEF ExchangeStep, Goes
<1>3. CASE e # x
  BY <1>3 DEF SetExchange, CustodyTypeOK, ExchangeStep
<1> QED BY <1>2, <1>3

\* Every step of the services is such a step for every exchange.
LEMMA StepsOfExchanges ==
    ASSUME CustodyTypeOK, CustodyNext, NEW e \in Exchanges
    PROVE  ExchangeStep(e)
<1>1. CASE exchange' = exchange
  BY <1>1 DEF ExchangeStep
<1>2. ASSUME NEW x \in Exchanges, NEW from, NEW to, MoveExchange(x, from, to),
             \A s \in from : <<s, to>> \in ExchangeOnward
      PROVE  ExchangeStep(e)
  BY <1>2, ExchangeStatusStep DEF MoveExchange
<1>3. CASE DeploymentNext
  BY <1>1, <1>3 DEF DeploymentNext, Initiate, InitiateFor, AcceptOffer, SubmitPdi, CompleteInspection, HandOver,
         InitiateDeallocation, CompleteDeallocation, ChangeAgreementStatus, ChangeStatus
<1>4. CASE \E a \in Allocations, x \in Exchanges : StartForExchange(a, x)
  <2> PICK a \in Allocations, x \in Exchanges : StartForExchange(a, x)
    BY <1>4
  <2>1. exchange[x] \in ExchangeRow
    BY DEF StartForExchange, CustodyTypeOK, Unused
  <2>2. exchange'[x] = [[exchange[x] EXCEPT !.status = "RETURN_PENDING"] EXCEPT !.inspected = TRUE]
    BY DEF StartForExchange, CustodyTypeOK
  <2>3. /\ exchange'[x].status = "RETURN_PENDING"
        /\ exchange'[x].agreement = exchange[x].agreement
        /\ exchange'[x].hold = exchange[x].hold
        /\ exchange'[x].replacement = exchange[x].replacement
        /\ exchange'[x].allocation = exchange[x].allocation
    BY <2>1, <2>2 DEF ExchangeRow
  <2>4. CASE e = x
    BY <2>3, <2>4 DEF StartForExchange, ExchangeStep, Goes, ExchangeOnward
  <2>5. CASE e # x
    BY <2>5 DEF StartForExchange, CustodyTypeOK, ExchangeStep
  <2> QED BY <2>4, <2>5
<1>5. CASE \E a \in Allocations, safe \in BOOLEAN : Confirm(a, safe)
  <2> PICK a \in Allocations, safe \in BOOLEAN : Confirm(a, safe)
    BY <1>5
  <2>1. CASE ReceiveReturn(a)
    BY <2>1, <1>1 DEF ReceiveReturn
  <2>2. CASE ReceiveForExchange(a)
    <3> PICK x \in submission[a].for :
             exchange[x].status = "RETURN_PENDING" /\ SetExchange(x, "APPROVED")
      BY <2>2 DEF ReceiveForExchange
    <3>1. x \in Exchanges
      BY DEF Confirm, CustodyTypeOK, Unused, SubmissionRow, Optional
    <3> QED BY <3>1, ExchangeStatusStep DEF ExchangeOnward
  <2> QED BY <2>1, <2>2 DEF Confirm
<1>6. CASE ReturnsNext
  BY <1>1, <1>4, <1>5, <1>6
     DEF ReturnsNext, RequestReturn, CancelReturn, StartSubmission, StartForReturn,
         RecordReport, Impose, CancelReport, MoveReport
<1>7. CASE \E x \in Exchanges, g \in Agreements, a \in Allocations : CheckExchange(x, g, a)
  BY <1>7 DEF CheckExchange, CustodyTypeOK, ExchangeStep, Asked, Unused
<1>8. CASE \E x \in Exchanges, v \in Vehicles : Select(x, v)
  <2> PICK x \in Exchanges, v \in Vehicles : Select(x, v)
    BY <1>8
  <2>1. CASE e = x
    <3>1. exchange[x] \in ExchangeRow
      BY DEF Select, CustodyTypeOK, Unused
    <3>2. exchange'[x] = [[[exchange[x] EXCEPT !.status = "REPLACEMENT_SELECTED"]
                       EXCEPT !.replacement = {v}] EXCEPT !.hold = "RUNNING"]
      BY DEF Select
    <3>3. /\ exchange'[x].status = "REPLACEMENT_SELECTED"
          /\ exchange'[x].agreement = exchange[x].agreement
          /\ exchange'[x].hold = "RUNNING"
          /\ exchange'[x].replacement = {v}
          /\ exchange'[x].allocation = exchange[x].allocation
      BY <3>1, <3>2 DEF ExchangeRow
    <3>4. exchange[x].status # "NONE"
      BY DEF Select
    <3> QED BY <2>1, <3>3, <3>4 DEF ExchangeStep, Selects
  <2>2. CASE e # x /\ e \in LapsedOn(v)
    <3>1. exchange[e] \in ExchangeRow
      BY <2>2 DEF LapsedOn, CustodyTypeOK, Unused, ActiveExchange
    <3>2. exchange'[e] = [exchange[e] EXCEPT !.status = "EXPIRED"]
      BY <2>2 DEF Select
    <3>3. /\ exchange'[e].status = "EXPIRED"
          /\ exchange'[e].agreement = exchange[e].agreement
          /\ exchange'[e].replacement = exchange[e].replacement
          /\ exchange'[e].allocation = exchange[e].allocation
      BY <3>1, <3>2 DEF ExchangeRow
    <3>4. exchange[e].status \in ActiveExchange /\ exchange[e].hold = "LAPSED"
      BY <2>2 DEF LapsedOn
    <3> QED BY <3>3, <3>4 DEF ExchangeStep, Expires, ActiveExchange
  <2>3. CASE e # x /\ e \notin LapsedOn(v)
    BY <2>3 DEF Select, ExchangeStep
  <2> QED BY <2>1, <2>2, <2>3
<1>9. CASE \E x \in Exchanges : HoldLapses(x)
  <2> PICK x \in Exchanges : HoldLapses(x)
    BY <1>9
  <2>1. exchange[x] \in ExchangeRow
    BY DEF HoldLapses, CustodyTypeOK, Unused
  <2>2. exchange'[x] = [exchange[x] EXCEPT !.hold = "LAPSED"]
    BY DEF HoldLapses, CustodyTypeOK
  <2>3. /\ exchange'[x].status = exchange[x].status
        /\ exchange'[x].agreement = exchange[x].agreement
        /\ exchange'[x].hold = "LAPSED"
        /\ exchange'[x].replacement = exchange[x].replacement
        /\ exchange'[x].allocation = exchange[x].allocation
    BY <2>1, <2>2 DEF ExchangeRow
  <2>4. CASE e = x
    BY <2>3, <2>4 DEF HoldLapses, ExchangeStep, Lapses
  <2>5. CASE e # x
    BY <2>5 DEF HoldLapses, CustodyTypeOK, ExchangeStep
  <2> QED BY <2>4, <2>5
<1>10. CASE \E x \in Exchanges : Accept(x)
  <2> PICK x \in Exchanges : Accept(x)
    BY <1>10
  <2>1. exchange[x] \in ExchangeRow
    BY DEF Accept, CustodyTypeOK, Unused
  <2>2. exchange'[x] = [[exchange[x] EXCEPT !.status = "DEPOSIT_PENDING"] EXCEPT !.hold = "NONE"]
    BY DEF Accept, CustodyTypeOK
  <2>3. /\ exchange'[x].status = "DEPOSIT_PENDING"
        /\ exchange'[x].agreement = exchange[x].agreement
        /\ exchange'[x].hold = "NONE"
        /\ exchange'[x].replacement = exchange[x].replacement
        /\ exchange'[x].allocation = exchange[x].allocation
    BY <2>1, <2>2 DEF ExchangeRow
  <2>4. CASE e = x
    BY <2>3, <2>4 DEF Accept, ExchangeStep, Agrees
  <2>5. CASE e # x
    BY <2>5 DEF Accept, CustodyTypeOK, ExchangeStep
  <2> QED BY <2>4, <2>5
<1>11. CASE \E x \in Exchanges, a \in Allocations : LinkHandover(x, a)
  <2> PICK x \in Exchanges, a \in Allocations : LinkHandover(x, a)
    BY <1>11
  <2>1. exchange[x] \in ExchangeRow
    BY DEF LinkHandover, CustodyTypeOK, Unused
  <2>2. exchange'[x] = [exchange[x] EXCEPT !.allocation = {a}]
    BY DEF LinkHandover, CustodyTypeOK
  <2>3. /\ exchange'[x].status = exchange[x].status
        /\ exchange'[x].agreement = exchange[x].agreement
        /\ exchange'[x].hold = exchange[x].hold
        /\ exchange'[x].replacement = exchange[x].replacement
        /\ exchange'[x].allocation = {a}
    BY <2>1, <2>2 DEF ExchangeRow
  <2>4. exchange[x].status = "HANDOVER_PENDING"
    BY DEF LinkHandover
  <2>5. CASE e = x
    BY <2>3, <2>4, <2>5 DEF ExchangeStep, Links
  <2>6. CASE e # x
    BY <2>6 DEF LinkHandover, CustodyTypeOK, ExchangeStep
  <2> QED BY <2>5, <2>6
<1>12. CASE ExchangeNext
  <2> PICK x \in Exchanges :
        \/ \E g \in Agreements, a \in Allocations : CheckExchange(x, g, a)
        \/ CreateExchange(x) \/ Approve(x) \/ Reject(x) \/ Cancel(x)
        \/ \E v \in Vehicles : Select(x, v)
        \/ HoldLapses(x) \/ Present(x) \/ RejectOffer(x) \/ Accept(x)
        \/ ReconcileDeposits(x)
        \/ \E a \in Allocations : StartHandover(x, a) \/ LinkHandover(x, a)
        \/ Complete(x)
    BY <1>12 DEF ExchangeNext
  <2>1. CASE CreateExchange(x)
    BY <2>1, ExchangeStatusStep DEF CreateExchange, ExchangeOnward
  <2>2. CASE Approve(x) \/ Reject(x) \/ Cancel(x) \/ Present(x) \/ RejectOffer(x)
             \/ ReconcileDeposits(x)
    BY <2>2, <1>2 DEF Approve, Reject, Cancel, Present, RejectOffer, ReconcileDeposits,
                      ExchangeOnward
  <2>3. CASE \E a \in Allocations : StartHandover(x, a)
    BY <2>3, <1>1 DEF StartHandover, InitiateFor
  <2>4. CASE Complete(x)
    BY <2>4, ExchangeStatusStep DEF Complete, ExchangeOnward
  <2> QED BY <1>7, <1>8, <1>9, <1>10, <1>11, <2>1, <2>2, <2>3, <2>4
<1> QED BY <1>3, <1>6, <1>12 DEF CustodyNext

\* Every step keeps the types and the agreements of the exchanges.
LEMMA RowsKept == CustodyTypeOK /\ RequestsKnown /\ [CustodyNext]_custodyVars
                    => CustodyTypeOK' /\ RequestsKnown'
<1> SUFFICES ASSUME CustodyTypeOK, RequestsKnown, [CustodyNext]_custodyVars
             PROVE  CustodyTypeOK' /\ RequestsKnown'
  OBVIOUS
<1>1. CASE UNCHANGED custodyVars
  BY <1>1 DEF custodyVars, CustodyTypeOK, RequestsKnown
<1>2. CASE CustodyNext
  <2>1. CustodyTypeOK'
    BY <1>2, DeploymentTypes, ReturnsTypes, ExchangeTypes DEF CustodyNext
  <2>2. ASSUME NEW e \in Exchanges, exchange'[e].status # "NONE"
        PROVE  agreement'[exchange'[e].agreement].status # "NONE"
    <3>1. exchange'[e].agreement \in Agreements
      BY <2>1, <2>2 DEF CustodyTypeOK, Unused, ExchangeRow
    <3>2. agreement[exchange'[e].agreement].status # "NONE"
      BY <1>2, <2>2, StepsOfExchanges DEF RequestsKnown, ExchangeStep, Asked
    <3> QED BY <1>2, <3>1, <3>2, AgreementsContinue DEF Continues
  <2> QED BY <2>1, <2>2 DEF RequestsKnown
<1> QED BY <1>1, <1>2

\* The life of an allocation, which an inspection may set back until it is over.
Onward ==
    {<<"INSPECTION_PENDING", "OTP_PENDING">>, <<"OTP_PENDING", "ACTIVE">>,
     <<"ACTIVE", "DEALLOCATION_INITIATED">>,
     <<"DEALLOCATION_INITIATED", "DEALLOCATION_INITIATED">>,
     <<"DEALLOCATION_INITIATED", "COMPLETED">>, <<"OTP_PENDING", "COMPLETED">>,
     <<"OTP_PENDING", "OTP_PENDING">>, <<"ACTIVE", "OTP_PENDING">>,
     <<"DEALLOCATION_INITIATED", "OTP_PENDING">>}

\* What a step can do to one allocation: nothing that matters here, begin it for
\* a vehicle that nobody has, or move it onward.
Kept(a) ==
    /\ allocation'[a].status = allocation[a].status
    /\ allocation[a].status # "NONE" =>
          /\ allocation'[a].rider = allocation[a].rider
          /\ allocation'[a].vehicle = allocation[a].vehicle
          /\ allocation'[a].handed = allocation[a].handed
          /\ allocation'[a].returning = allocation[a].returning

Begins(a) ==
    /\ allocation[a].status = "NONE"
    /\ allocation'[a].status = "INSPECTION_PENDING"
    /\ ~allocation'[a].handed /\ ~allocation'[a].returning
    /\ HoldersOf(allocation'[a].vehicle) = {}

Moves(a) ==
    /\ <<allocation[a].status, allocation'[a].status>> \in Onward
    /\ allocation'[a].status = "COMPLETED" => allocation[a].returning
    /\ allocation'[a].rider = allocation[a].rider
    /\ allocation'[a].vehicle = allocation[a].vehicle
    /\ allocation'[a].handed = (allocation[a].handed \/ allocation'[a].status = "ACTIVE")
    /\ allocation'[a].returning =
          (allocation[a].returning \/ allocation'[a].status = "DEALLOCATION_INITIATED")

AllocationStep ==
    \/ \A a \in Allocations : Kept(a)
    \/ \E a \in Allocations : /\ Begins(a) \/ Moves(a)
                             /\ \A b \in Allocations \ {a} : Kept(b)

\* What writing one status does to the table.
LEMMA StatusWrites ==
    ASSUME CustodyTypeOK, NEW a \in Allocations, allocation[a].status # "NONE",
           NEW s, SetAllocation(a, s)
    PROVE  /\ allocation'[a].status = s
           /\ allocation'[a].rider = allocation[a].rider
           /\ allocation'[a].vehicle = allocation[a].vehicle
           /\ allocation'[a].agreement = allocation[a].agreement
           /\ allocation'[a].exchange = allocation[a].exchange
           /\ allocation'[a].handed = (allocation[a].handed \/ s = "ACTIVE")
           /\ allocation'[a].returning =
                 (allocation[a].returning \/ s = "DEALLOCATION_INITIATED")
           /\ \A b \in Allocations \ {a} : allocation'[b] = allocation[b]
<1>1. allocation[a] \in AllocationRow
  BY DEF CustodyTypeOK, Unused
<1>2. allocation'[a] = [allocation[a] EXCEPT
                           !.status = s,
                           !.handed = allocation[a].handed \/ s = "ACTIVE",
                           !.returning = allocation[a].returning \/ s = "DEALLOCATION_INITIATED"]
  BY DEF SetAllocation, CustodyTypeOK
<1>3. \A b \in Allocations \ {a} : allocation'[b] = allocation[b]
  BY DEF SetAllocation, CustodyTypeOK
<1> QED BY <1>1, <1>2, <1>3 DEF AllocationRow

LEMMA StatusesToEnd ==
    ASSUME NEW a \in Allocations, MayEnd(a)
    PROVE  Unfinished(a)
BY DEF MayEnd, Unfinished

\* Writing one status is such a step when the write follows the life.
LEMMA StatusStep ==
    ASSUME CustodyTypeOK, NEW a \in Allocations, allocation[a].status # "NONE",
           NEW s, <<allocation[a].status, s>> \in Onward,
           s = "COMPLETED" => allocation[a].returning, SetAllocation(a, s)
    PROVE  AllocationStep
<1>1. /\ allocation'[a].status = s
      /\ allocation'[a].rider = allocation[a].rider
      /\ allocation'[a].vehicle = allocation[a].vehicle
      /\ allocation'[a].handed = (allocation[a].handed \/ s = "ACTIVE")
      /\ allocation'[a].returning = (allocation[a].returning \/ s = "DEALLOCATION_INITIATED")
      /\ \A b \in Allocations \ {a} : allocation'[b] = allocation[b]
  BY StatusWrites
<1> QED BY <1>1 DEF AllocationStep, Kept, Moves

LEMMA StatusesOfUse ==
    ASSUME CustodyTypeOK, NEW a \in Allocations, Unfinished(a)
    PROVE  allocation[a].status \in {"INSPECTION_PENDING", "OTP_PENDING", "ACTIVE",
                                     "DEALLOCATION_INITIATED"}
BY DEF Unfinished, CustodyTypeOK, Unused, AllocationRow

LEMMA InitiateStep ==
    ASSUME CustodyTypeOK, NEW a \in Allocations, NEW r, NEW v, NEW x, InitiateFor(a, r, v, x)
    PROVE  AllocationStep
<1>1. /\ allocation[a].status = "NONE"
      /\ allocation'[a].status = "INSPECTION_PENDING"
      /\ ~allocation'[a].handed /\ ~allocation'[a].returning
      /\ allocation'[a].vehicle = v
      /\ \A b \in Allocations \ {a} : allocation'[b] = allocation[b]
  BY DEF InitiateFor, Unused, CustodyTypeOK
<1>2. HoldersOf(v) = {}
  BY DEF InitiateFor
<1> QED BY <1>1, <1>2 DEF AllocationStep, Kept, Begins

LEMMA SameAllocations == allocation' = allocation => AllocationStep
BY DEF AllocationStep, Kept

\* Every step of the services is such a step.
LEMMA StepsOfAllocations == CustodyTypeOK /\ CustodyNext => AllocationStep
<1> SUFFICES ASSUME CustodyTypeOK, CustodyNext PROVE AllocationStep
  OBVIOUS
<1>1. CASE DeploymentNext
  <2>1. CASE \E a \in Allocations, r \in Riders, v \in Vehicles : Initiate(a, r, v)
    BY <2>1, InitiateStep DEF Initiate
  <2>2. CASE \E a \in Allocations : SubmitPdi(a) \/ CompleteInspection(a)
    BY <2>2, StatusStep, StatusesOfUse DEF SubmitPdi, CompleteInspection, Onward
  <2>3. CASE \E a \in Allocations : HandOver(a)
    BY <2>3, StatusStep DEF HandOver, Onward
  <2>4. CASE \E a \in Allocations : InitiateDeallocation(a)
    BY <2>4, StatusStep DEF InitiateDeallocation, Onward
  <2>5. CASE \E a \in Allocations, safe \in BOOLEAN : CompleteDeallocation(a, safe)
    BY <2>5, StatusStep DEF CompleteDeallocation, MayEnd, Onward
  <2>6. CASE \E g \in Agreements, r \in Riders, v \in Vehicles : AcceptOffer(g, r, v)
    <3> PICK g \in Agreements, r \in Riders, v \in Vehicles : AcceptOffer(g, r, v)
      BY <2>6
    <3>1. ASSUME NEW a \in Allocations
          PROVE  Kept(a)
      <4>1. CASE a \in AwaitingPlan(r, v)
        <5>1. allocation[a] \in AllocationRow
          BY <4>1 DEF AwaitingPlan, CustodyTypeOK, Unused
        <5>2. allocation'[a] = [allocation[a] EXCEPT !.agreement = {g}]
          BY <4>1 DEF AcceptOffer
        <5> QED BY <5>1, <5>2 DEF Kept, AllocationRow
      <4>2. CASE a \notin AwaitingPlan(r, v)
        BY <4>2 DEF AcceptOffer, Kept
      <4> QED BY <4>1, <4>2
    <3> QED BY <3>1 DEF AllocationStep
  <2>7. CASE \E g \in Agreements, s \in LiveAgreement \cup EndedAgreement :
                ChangeAgreementStatus(g, s)
    BY <2>7, SameAllocations DEF ChangeAgreementStatus
  <2>8. CASE \E v \in Vehicles, s \in VehicleStatus : ChangeStatus(v, s)
    BY <2>8, SameAllocations DEF ChangeStatus
  <2> QED BY <1>1, <2>1, <2>2, <2>3, <2>4, <2>5, <2>6, <2>7, <2>8 DEF DeploymentNext
<1>2. CASE ReturnsNext
  <2>1. ASSUME NEW a \in Allocations, NEW g, NEW x, Intake(a, g, x)
        PROVE  AllocationStep
    BY <2>1, StatusStep DEF Intake, InHand, Onward
  <2>2. CASE \E a \in Allocations : StartSubmission(a)
    BY <2>1, <2>2 DEF StartSubmission, StartForReturn, StartForExchange
  <2>3. CASE \E a \in Allocations, safe \in BOOLEAN : Confirm(a, safe)
    BY <2>3, StatusStep DEF Confirm, MayEnd, Onward
  <2>4. CASE allocation' = allocation
    BY <2>4, SameAllocations
  <2> QED BY <1>2, <2>2, <2>3, <2>4
          DEF ReturnsNext, RequestReturn, CancelReturn, RecordReport, Impose, CancelReport,
              MoveReport
<1>3. CASE ExchangeNext
  <2>1. CASE \E e \in Exchanges, a \in Allocations : StartHandover(e, a)
    BY <2>1, InitiateStep DEF StartHandover
  <2>2. CASE allocation' = allocation
    BY <2>2, SameAllocations
  <2> QED BY <1>3, <2>1, <2>2
          DEF ExchangeNext, CheckExchange, CreateExchange, Approve, Reject, Cancel,
              MoveExchange, Select, HoldLapses, Present, RejectOffer, Accept,
              ReconcileDeposits, LinkHandover, Complete
<1> QED BY <1>1, <1>2, <1>3 DEF CustodyNext

\* So a vehicle that somebody has is not given to another.
LEMMA OneHolderKept == OneHolder /\ AllocationStep => OneHolder'
<1> SUFFICES ASSUME OneHolder, AllocationStep,
                    NEW a \in Allocations, NEW b \in Allocations,
                    Unfinished(a)', Unfinished(b)',
                    allocation'[a].vehicle = allocation'[b].vehicle
             PROVE  a = b
  BY DEF OneHolder
<1>1. CASE \A c \in Allocations : Kept(c)
  BY <1>1 DEF Kept, Unfinished, OneHolder
<1>2. CASE \E c \in Allocations : Begins(c) /\ \A d \in Allocations \ {c} : Kept(d)
  BY <1>2 DEF Kept, Begins, Unfinished, OneHolder, HoldersOf
<1>3. CASE \E c \in Allocations : Moves(c) /\ \A d \in Allocations \ {c} : Kept(d)
  BY <1>3 DEF Kept, Moves, Onward, Unfinished, OneHolder
<1> QED BY <1>1, <1>2, <1>3 DEF AllocationStep

LEMMA HandedFirstKept == HandedFirst /\ AllocationStep => HandedFirst'
<1> SUFFICES ASSUME HandedFirst, AllocationStep, NEW a \in Allocations,
                    allocation'[a].status # "NONE",
                    InHand(a)' \/ allocation'[a].returning
             PROVE  allocation'[a].handed
  BY DEF HandedFirst
<1>1. CASE Kept(a)
  BY <1>1 DEF Kept, HandedFirst, InHand
<1>2. CASE Begins(a)
  BY <1>2 DEF Begins, InHand
<1>3. CASE Moves(a)
  <2>1. allocation[a].status # "NONE"
    BY <1>3 DEF Moves, Onward
  <2>2. allocation'[a].status = "ACTIVE" \/ InHand(a) \/ allocation[a].returning
    BY <1>3 DEF Moves, Onward, InHand
  <2> QED BY <1>3, <2>1, <2>2 DEF Moves, HandedFirst
<1> QED BY <1>1, <1>2, <1>3 DEF AllocationStep

LEMMA CustodyInvariant == CustodySpec => []CustodyInv
<1>1. CustodyInit => CustodyInv
  BY DEF CustodyInit, CustodyInv, CustodyTypeOK, RequestsKnown, OneHolder, HandedFirst,
         Unfinished, Unused, VehicleStatus
<1>2. CustodyInv /\ [CustodyNext]_custodyVars => CustodyInv'
  BY RowsKept, StepsOfAllocations, SameAllocations, OneHolderKept, HandedFirstKept
     DEF CustodyInv, custodyVars
<1> QED BY <1>1, <1>2, PTL DEF CustodySpec

-----------------------------------------------------------------------------
(* Lemmas: the holder of a vehicle *)

StateOf(handed) == IF handed THEN "HELD" ELSE "PROMISED"

LEMMA HolderOfOne ==
    ASSUME OneHolder, NEW v \in Vehicles, NEW a \in HoldersOf(v)
    PROVE  HolderOf(v) = [state |-> StateOf(allocation[a].handed), rider |-> allocation[a].rider]
<1>1. \A b \in HoldersOf(v) : b = a
  BY DEF HoldersOf, OneHolder
<1>2. (CHOOSE b \in HoldersOf(v) : TRUE) = a
  BY <1>1
<1> QED BY <1>2 DEF HolderOf, StateOf

LEMMA NextHolderOfOne ==
    ASSUME OneHolder', NEW v \in Vehicles, NEW a \in HoldersOf(v)'
    PROVE  HolderOf(v)' = [state |-> StateOf(allocation'[a].handed),
                           rider |-> allocation'[a].rider]
<1>1. \A b \in HoldersOf(v)' : b = a
  BY DEF HoldersOf, OneHolder
<1>2. (CHOOSE b \in HoldersOf(v)' : TRUE) = a
  BY <1>1
<1> QED BY <1>2 DEF HolderOf, StateOf

LEMMA HolderOfNone ==
    ASSUME NEW v \in Vehicles
    PROVE  /\ HoldersOf(v) = {} => HolderOf(v) = Holding!Nobody
           /\ HoldersOf(v)' = {} => HolderOf(v)' = Holding!Nobody
BY DEF HolderOf, Holding!Nobody

LEMMA HolderType ==
    ASSUME CustodyTypeOK', OneHolder', NEW v \in Vehicles
    PROVE  HolderOf(v)' \in Holding!Holder
<1>1. CASE HoldersOf(v)' = {}
  BY <1>1, HolderOfNone DEF Holding!Holder
<1>2. CASE HoldersOf(v)' # {}
  <2> PICK a \in HoldersOf(v)' : TRUE
    BY <1>2
  <2>1. a \in Allocations /\ allocation'[a] \in AllocationRow
    BY DEF HoldersOf, Unfinished, CustodyTypeOK, Unused
  <2>2. allocation'[a].rider \in Riders
    BY <2>1 DEF AllocationRow
  <2> QED BY <2>2, NextHolderOfOne DEF Holding!Holder, StateOf
<1> QED BY <1>1, <1>2

\* Allocations that are kept leave the holder of a vehicle as it is.
LEMMA KeptHolder ==
    ASSUME OneHolder, OneHolder', NEW v \in Vehicles,
           \A a \in Allocations : Kept(a) \/ a \notin HoldersOf(v) \cup HoldersOf(v)'
    PROVE  HolderOf(v)' = HolderOf(v)
<1>1. HoldersOf(v)' = HoldersOf(v)
  BY DEF HoldersOf, Kept, Unfinished
<1>2. CASE HoldersOf(v) = {}
  BY <1>1, <1>2, HolderOfNone
<1>3. CASE HoldersOf(v) # {}
  <2> PICK a \in HoldersOf(v) : TRUE
    BY <1>3
  <2>1. a \in Allocations /\ Unfinished(a)
    BY DEF HoldersOf
  <2>2. allocation'[a].handed = allocation[a].handed /\ allocation'[a].rider = allocation[a].rider
    BY <2>1 DEF Kept, Unfinished
  <2> QED BY <1>1, <2>2, HolderOfOne, NextHolderOfOne
<1> QED BY <1>2, <1>3

\* A step of the allocations is a step of VehicleHolding, or none.
LEMMA HoldingStep ==
    ASSUME CustodyTypeOK, CustodyTypeOK', OneHolder, OneHolder', HandedFirst, AllocationStep
    PROVE  [Holding!HoldingNext]_[v \in Vehicles |-> HolderOf(v)]
<1> DEFINE held == [v \in Vehicles |-> HolderOf(v)]
<1>1. held' \in [Vehicles -> Holding!Holder]
  BY HolderType
<1>2. CASE \A a \in Allocations : Kept(a)
  BY <1>2, KeptHolder
<1>3. CASE \E a \in Allocations : /\ Begins(a) \/ Moves(a)
                                /\ \A b \in Allocations \ {a} : Kept(b)
  <2> PICK a \in Allocations : /\ Begins(a) \/ Moves(a)
                               /\ \A b \in Allocations \ {a} : Kept(b)
    BY <1>3
  <2>1. /\ allocation'[a].vehicle \in Vehicles
        /\ allocation'[a].rider \in Riders
    BY DEF Begins, Moves, Onward, CustodyTypeOK, Unused, AllocationRow
  <2> PICK v \in Vehicles, r \in Riders :
           v = allocation'[a].vehicle /\ r = allocation'[a].rider
    BY <2>1
  <2>2. ASSUME NEW w \in Vehicles \ {v}
        PROVE  HolderOf(w)' = HolderOf(w)
    <3>1. a \notin HoldersOf(w) \cup HoldersOf(w)'
      BY DEF HoldersOf, Begins, Moves, Unfinished
    <3> QED BY <3>1, KeptHolder
  <2>3. SUFFICES HolderOf(v)' = HolderOf(v) \/ Holding!Promise(v, r)
                    \/ Holding!Receive(v) \/ Holding!GiveBack(v)
    <3>1. CASE HolderOf(v)' = HolderOf(v)
      BY <2>2, <3>1
    <3>2. CASE HolderOf(v)' # HolderOf(v)
      BY <1>1, <2>2, <2>3, <3>2 DEF Holding!HoldingNext
    <3> QED BY <3>1, <3>2
  <2>4. a \in HoldersOf(v) =>
           HolderOf(v) = [state |-> StateOf(allocation[a].handed), rider |-> allocation[a].rider]
    BY HolderOfOne
  <2>5. a \in HoldersOf(v)' =>
           HolderOf(v)' = [state |-> StateOf(allocation'[a].handed), rider |-> r]
    BY NextHolderOfOne
  <2>6. CASE Begins(a)
    <3>1. HolderOf(v) = Holding!Nobody
      BY <2>6, HolderOfNone DEF Begins
    <3>2. a \in HoldersOf(v)'
      BY <2>6 DEF Begins, HoldersOf, Unfinished
    <3>3. HolderOf(v)' = [state |-> "PROMISED", rider |-> r]
      BY <2>5, <2>6, <3>2 DEF Begins, StateOf
    <3> QED BY <3>1, <3>3 DEF Holding!Promise
  <2>7. CASE Moves(a)
    <3>1. a \in HoldersOf(v) /\ allocation[a].rider = r
      BY <2>7 DEF Moves, Onward, HoldersOf, Unfinished
    <3>2. CASE allocation'[a].status = "COMPLETED"
      <4>1. \A b \in HoldersOf(v) : b = a
        BY <3>1 DEF HoldersOf, OneHolder
      <4>2. HoldersOf(v)' = {}
        BY <3>2, <4>1 DEF HoldersOf, Unfinished, Kept
      <4>3. HolderOf(v).state = "HELD"
        BY <2>4, <2>7, <3>1, <3>2 DEF Moves, Onward, StateOf, HandedFirst
      <4> QED BY <4>2, <4>3, HolderOfNone DEF Holding!GiveBack
    <3>3. CASE allocation'[a].status # "COMPLETED"
      <4>1. a \in HoldersOf(v)'
        BY <2>7, <3>3 DEF Moves, Onward, HoldersOf, Unfinished
      <4>2. CASE ~allocation[a].handed /\ allocation'[a].handed
        <5>1. HolderOf(v) = [state |-> "PROMISED", rider |-> r]
          BY <2>4, <3>1, <4>2 DEF StateOf
        <5>2. HolderOf(v)' = [state |-> "HELD", rider |-> r]
          BY <2>5, <4>1, <4>2 DEF StateOf
        <5> QED BY <5>1, <5>2 DEF Holding!Receive
      <4>3. CASE allocation[a].handed \/ ~allocation'[a].handed
        <5>1. StateOf(allocation'[a].handed) = StateOf(allocation[a].handed)
          BY <2>7, <4>3 DEF Moves, StateOf
        <5> QED BY <2>4, <2>5, <3>1, <4>1, <5>1
      <4> QED BY <4>2, <4>3
    <3> QED BY <3>2, <3>3
  <2> QED BY <2>6, <2>7
<1> QED BY <1>2, <1>3 DEF AllocationStep

-----------------------------------------------------------------------------
(* Lemmas: the rows that allocations carry *)

\* What a row of allocations is about does not change, and only the offer that a
\* rider accepts for it changes its plan.
Carries(a) ==
    /\ allocation'[a].status # "NONE"
    /\ allocation'[a].rider = allocation[a].rider
    /\ allocation'[a].vehicle = allocation[a].vehicle
    /\ allocation'[a].exchange = allocation[a].exchange
    /\ \/ allocation'[a].agreement = allocation[a].agreement
       \/ \E g \in Agreements, r \in Riders, v \in Vehicles :
             AcceptOffer(g, r, v) /\ a \in AwaitingPlan(r, v)

LEMMA StatusCarries ==
    ASSUME CustodyTypeOK, NEW b \in Allocations, allocation[b].status # "NONE",
           NEW s, s # "NONE", SetAllocation(b, s),
           NEW a \in Allocations, allocation[a].status # "NONE"
    PROVE  Carries(a) /\ allocation'[a].status \in {allocation[a].status, s}
<1>1. CASE a = b
  BY <1>1, StatusWrites DEF Carries
<1>2. CASE a # b
  BY <1>2, StatusWrites DEF Carries
<1> QED BY <1>1, <1>2

\* The ways a step can treat the table of allocations.
LEMMA AllocationCases ==
    ASSUME CustodyTypeOK, CustodyNext
    PROVE  \/ allocation' = allocation
           \/ \E a \in Allocations, r \in Riders, v \in Vehicles : Initiate(a, r, v)
           \/ \E e \in Exchanges, a \in Allocations : StartHandover(e, a)
           \/ \E g \in Agreements, r \in Riders, v \in Vehicles : AcceptOffer(g, r, v)
           \/ \E a \in Allocations : HandOver(a)
           \/ \E a \in Allocations, s \in {"OTP_PENDING", "DEALLOCATION_INITIATED", "COMPLETED"} :
                 allocation[a].status # "NONE" /\ SetAllocation(a, s)
<1> SUFFICES ASSUME allocation' # allocation,
                    \A a \in Allocations, r \in Riders, v \in Vehicles : ~Initiate(a, r, v),
                    \A e \in Exchanges, a \in Allocations : ~StartHandover(e, a),
                    \A g \in Agreements, r \in Riders, v \in Vehicles : ~AcceptOffer(g, r, v),
                    \A a \in Allocations : ~HandOver(a)
             PROVE  \E a \in Allocations,
                       s \in {"OTP_PENDING", "DEALLOCATION_INITIATED", "COMPLETED"} :
                          allocation[a].status # "NONE" /\ SetAllocation(a, s)
  OBVIOUS
<1>1. CASE DeploymentNext
  BY <1>1 DEF DeploymentNext, SubmitPdi, CompleteInspection, Unfinished,
              InitiateDeallocation, CompleteDeallocation, MayEnd, ChangeAgreementStatus,
              ChangeStatus
<1>2. ASSUME NEW a \in Allocations, NEW g, NEW x, Intake(a, g, x)
      PROVE  allocation[a].status # "NONE" /\ SetAllocation(a, "DEALLOCATION_INITIATED")
  BY <1>2 DEF Intake, InHand
<1>3. CASE ReturnsNext
  <2>1. CASE \E a \in Allocations : StartSubmission(a)
    BY <2>1, <1>2 DEF StartSubmission, StartForReturn, StartForExchange
  <2>2. CASE \E a \in Allocations, safe \in BOOLEAN : Confirm(a, safe)
    BY <2>2 DEF Confirm, MayEnd
  <2> QED BY <1>3, <2>1, <2>2 DEF ReturnsNext, RequestReturn, CancelReturn, RecordReport, Impose,
                                  CancelReport, MoveReport
<1>4. CASE ExchangeNext
  BY <1>4 DEF ExchangeNext, CheckExchange, CreateExchange, Approve, Reject, Cancel,
              MoveExchange, Select, HoldLapses, Present, RejectOffer, Accept,
              ReconcileDeposits, LinkHandover, Complete
<1> QED BY <1>1, <1>3, <1>4 DEF CustodyNext

\* A row that is used for the first time reserves a vehicle, and keeps others as
\* they are.
LEMMA ReservationWrites ==
    ASSUME CustodyTypeOK, NEW a \in Allocations, NEW r, NEW v, NEW x, InitiateFor(a, r, v, x)
    PROVE  /\ allocation[a].status = "NONE"
           /\ allocation'[a].status = "INSPECTION_PENDING"
           /\ allocation'[a].rider = r
           /\ allocation'[a].vehicle = v
           /\ allocation'[a].agreement = {exchange[e].agreement : e \in x}
           /\ allocation'[a].exchange = x
           /\ \A b \in Allocations \ {a} : allocation'[b] = allocation[b]
BY DEF InitiateFor, CustodyTypeOK, Unused

LEMMA AllocationsCarry ==
    ASSUME CustodyTypeOK, CustodyNext, NEW a \in Allocations, allocation[a].status # "NONE"
    PROVE  /\ Carries(a)
           /\ allocation'[a].status = "ACTIVE" => allocation[a].status = "ACTIVE" \/ HandOver(a)
<1>1. CASE allocation' = allocation
  BY <1>1 DEF Carries
<1>2. ASSUME NEW b \in Allocations, NEW r, NEW v, NEW x, InitiateFor(b, r, v, x)
      PROVE  allocation'[a] = allocation[a]
  BY <1>2, ReservationWrites
<1>3. CASE \/ \E b \in Allocations, r \in Riders, v \in Vehicles : Initiate(b, r, v)
           \/ \E e \in Exchanges, b \in Allocations : StartHandover(e, b)
  BY <1>2, <1>3 DEF Initiate, StartHandover, Carries
<1>4. CASE \E g \in Agreements, r \in Riders, v \in Vehicles : AcceptOffer(g, r, v)
  <2> PICK g \in Agreements, r \in Riders, v \in Vehicles : AcceptOffer(g, r, v)
    BY <1>4
  <2>1. CASE a \in AwaitingPlan(r, v)
    <3>1. allocation[a] \in AllocationRow
      BY DEF CustodyTypeOK, Unused
    <3>2. allocation'[a] = [allocation[a] EXCEPT !.agreement = {g}]
      BY <2>1 DEF AcceptOffer
    <3>3. allocation'[a].status = allocation[a].status
      BY <3>1, <3>2 DEF AllocationRow
    <3>4. /\ allocation'[a].rider = allocation[a].rider
          /\ allocation'[a].vehicle = allocation[a].vehicle
          /\ allocation'[a].exchange = allocation[a].exchange
      BY <3>1, <3>2 DEF AllocationRow
    <3> QED BY <2>1, <3>3, <3>4 DEF Carries
  <2>2. CASE a \notin AwaitingPlan(r, v)
    <3>1. allocation'[a] = allocation[a]
      BY <2>2 DEF AcceptOffer
    <3> QED BY <3>1 DEF Carries
  <2> QED BY <2>1, <2>2
<1>5. CASE \E b \in Allocations : HandOver(b)
  <2> PICK b \in Allocations : HandOver(b)
    BY <1>5
  <2>1. allocation[b].status # "NONE" /\ SetAllocation(b, "ACTIVE")
    BY DEF HandOver
  <2>2. Carries(a)
    BY <2>1, StatusCarries
  <2>3. a # b => allocation'[a] = allocation[a]
    BY <2>1 DEF SetAllocation, CustodyTypeOK
  <2> QED BY <2>2, <2>3
<1>6. CASE \E b \in Allocations, s \in {"OTP_PENDING", "DEALLOCATION_INITIATED", "COMPLETED"} :
              allocation[b].status # "NONE" /\ SetAllocation(b, s)
  <2> PICK b \in Allocations, s \in {"OTP_PENDING", "DEALLOCATION_INITIATED", "COMPLETED"} :
              allocation[b].status # "NONE" /\ SetAllocation(b, s)
    BY <1>6
  <2> QED BY StatusCarries
<1> QED BY <1>1, <1>3, <1>4, <1>5, <1>6, AllocationCases

LEMMA NewAllocations ==
    ASSUME CustodyTypeOK, CustodyNext, NEW a \in Allocations,
           allocation[a].status = "NONE", allocation'[a].status # "NONE"
    PROVE  \/ \E r \in Riders, v \in Vehicles : Initiate(a, r, v)
           \/ \E e \in Exchanges : StartHandover(e, a)
<1>1. ASSUME NEW b \in Allocations, b # a, NEW r, NEW v, NEW x, InitiateFor(b, r, v, x)
      PROVE  FALSE
  BY <1>1, ReservationWrites
<1>2. ASSUME NEW b \in Allocations, allocation[b].status # "NONE", NEW s, SetAllocation(b, s)
      PROVE  FALSE
  BY <1>2 DEF SetAllocation, CustodyTypeOK
<1>3. CASE allocation' = allocation
  BY <1>3
<1>4. CASE \E b \in Allocations, r \in Riders, v \in Vehicles : Initiate(b, r, v)
  BY <1>1, <1>4 DEF Initiate
<1>5. CASE \E e \in Exchanges, b \in Allocations : StartHandover(e, b)
  BY <1>1, <1>5 DEF StartHandover
<1>6. CASE \E g \in Agreements, r \in Riders, v \in Vehicles : AcceptOffer(g, r, v)
  BY <1>6 DEF AcceptOffer, AwaitingPlan
<1>7. CASE \E b \in Allocations : HandOver(b)
  BY <1>2, <1>7 DEF HandOver
<1>8. CASE \E b \in Allocations, s \in {"OTP_PENDING", "DEALLOCATION_INITIATED", "COMPLETED"} :
              allocation[b].status # "NONE" /\ SetAllocation(b, s)
  BY <1>2, <1>8
<1> QED BY <1>3, <1>4, <1>5, <1>6, <1>7, <1>8, AllocationCases

-----------------------------------------------------------------------------
(* Lemmas: the promise of a replacement *)

\* A vehicle that no operator touched is not available while somebody has it.
FreeIsFree ==
    \A v \in Vehicles \ overridden : vehicle[v] = "AVAILABLE" => HoldersOf(v) = {}

\* Nobody but the exchange that holds such a vehicle gets it, from the moment the
\* hold is taken.
HoldIsKept ==
    \A e \in Exchanges, v \in Vehicles \ overridden :
        HoldsVehicle(e, v) => \A a \in HoldersOf(v) : allocation[a].exchange = {e}

\* A vehicle has no holder that it did not have, except by a reservation.
LEMMA HoldersRemain ==
    ASSUME CustodyTypeOK, CustodyNext, NEW v \in Vehicles, NEW a \in HoldersOf(v)'
    PROVE  \/ a \in HoldersOf(v) /\ allocation'[a].exchange = allocation[a].exchange
           \/ \E r \in Riders : Initiate(a, r, v)
           \/ \E e \in Exchanges : StartHandover(e, a) /\ allocation'[a].exchange = {e}
                                   /\ \E r : InitiateFor(a, r, v, {e})
<1>1. a \in Allocations /\ allocation'[a].status \notin {"NONE", "COMPLETED"}
      /\ allocation'[a].vehicle = v
  BY DEF HoldersOf, Unfinished
<1>2. CASE allocation[a].status # "NONE"
  <2>1. Carries(a)
    BY <1>1, <1>2, AllocationsCarry
  <2>2. allocation[a].status # "COMPLETED"
    BY <1>1, StepsOfAllocations DEF AllocationStep, Kept, Begins, Moves, Onward
  <2> QED BY <1>1, <1>2, <2>1, <2>2 DEF Carries, HoldersOf, Unfinished
<1>3. CASE allocation[a].status = "NONE"
  <2>1. CASE \E r \in Riders, w \in Vehicles : Initiate(a, r, w)
    <3> PICK r \in Riders, w \in Vehicles : InitiateFor(a, r, w, {})
      BY <2>1 DEF Initiate
    <3>1. w = v
      BY <1>1, ReservationWrites
    <3> QED BY <3>1 DEF Initiate
  <2>2. CASE \E e \in Exchanges : StartHandover(e, a)
    <3> PICK e \in Exchanges : StartHandover(e, a)
      BY <2>2
    <3> PICK w \in exchange[e].replacement :
                InitiateFor(a, agreement[exchange[e].agreement].rider, w, {e})
      BY DEF StartHandover
    <3>1. w = v /\ allocation'[a].exchange = {e}
      BY <1>1, ReservationWrites
    <3> QED BY <3>1
  <2> QED BY <1>1, <1>3, <2>1, <2>2, NewAllocations
<1> QED BY <1>2, <1>3

LEMMA ReservedIsNotFree ==
    ASSUME CustodyTypeOK, NEW a, NEW r, NEW v \in Vehicles, NEW x, InitiateFor(a, r, v, x)
    PROVE  vehicle'[v] = "RESERVED"
BY DEF InitiateFor, SetVehicle, CustodyTypeOK

\* A vehicle is made available by ending the allocation of its holder, or when it
\* has none, unless an operator does it.
LEMMA FreedVehicles ==
    ASSUME CustodyTypeOK, CustodyNext, NEW v \in Vehicles \ overridden',
           vehicle'[v] = "AVAILABLE"
    PROVE  \/ vehicle[v] = "AVAILABLE"
           \/ HoldersOf(v) = {}
           \/ \E a \in HoldersOf(v) : SetAllocation(a, "COMPLETED")
<1>1. ASSUME NEW a \in Allocations, Unfinished(a),
             SetAllocation(a, "COMPLETED"), NEW s, SetVehicle(allocation[a].vehicle, s)
      PROVE  vehicle[v] = "AVAILABLE" \/ \E b \in HoldersOf(v) : SetAllocation(b, "COMPLETED")
  BY <1>1 DEF SetVehicle, CustodyTypeOK, HoldersOf, Unfinished
<1>2. ASSUME NEW w, NEW s, s # "AVAILABLE", SetVehicle(w, s)
      PROVE  vehicle[v] = "AVAILABLE"
  BY <1>2 DEF SetVehicle, CustodyTypeOK
<1>3. ASSUME NEW w \in Vehicles, NEW s \in VehicleStatus, ChangeStatus(w, s)
      PROVE  vehicle[v] = "AVAILABLE" \/ HoldersOf(v) = {}
  BY <1>3 DEF ChangeStatus, SetVehicle, CustodyTypeOK
<1>4. ASSUME NEW a, NEW r, NEW w, NEW x, InitiateFor(a, r, w, x)
      PROVE  vehicle[v] = "AVAILABLE"
  BY <1>2, <1>4 DEF InitiateFor
<1>5. ASSUME NEW a, NEW g, NEW x, Intake(a, g, x)
      PROVE  vehicle[v] = "AVAILABLE"
  BY <1>2, <1>5 DEF Intake
<1>6. CASE DeploymentNext
  <2>1. CASE \E a \in Allocations, safe \in BOOLEAN : CompleteDeallocation(a, safe)
    BY <2>1, <1>1, StatusesToEnd DEF CompleteDeallocation
  <2>2. CASE \E a \in Allocations, r \in Riders, w \in Vehicles : Initiate(a, r, w)
    BY <2>2, <1>4 DEF Initiate
  <2>3. CASE \E a \in Allocations : HandOver(a) \/ InitiateDeallocation(a)
    BY <2>3, <1>2 DEF HandOver, InitiateDeallocation
  <2>4. CASE vehicle' = vehicle
    BY <2>4
  <2> QED BY <1>3, <1>6, <2>1, <2>2, <2>3, <2>4 DEF DeploymentNext, AcceptOffer, SubmitPdi, CompleteInspection,
                                                     ChangeAgreementStatus
<1>7. CASE ReturnsNext
  <2>1. CASE \E a \in Allocations : StartSubmission(a)
    BY <2>1, <1>5 DEF StartSubmission, StartForReturn, StartForExchange
  <2>2. CASE \E a \in Allocations, safe \in BOOLEAN : Confirm(a, safe)
    BY <2>2, <1>1, StatusesToEnd DEF Confirm
  <2>3. CASE vehicle' = vehicle
    BY <2>3
  <2> QED BY <1>7, <2>1, <2>2, <2>3 DEF ReturnsNext, RequestReturn, CancelReturn, RecordReport,
                                         Impose, CancelReport, MoveReport
<1>8. CASE ExchangeNext
  <2>1. CASE \E e \in Exchanges, a \in Allocations : StartHandover(e, a)
    BY <2>1, <1>4 DEF StartHandover
  <2>2. CASE vehicle' = vehicle
    BY <2>2
  <2> QED BY <1>8, <2>1, <2>2
          DEF ExchangeNext, CheckExchange, CreateExchange, Approve, Reject, Cancel,
              MoveExchange, Select, HoldLapses, Present, RejectOffer, Accept,
              ReconcileDeposits, LinkHandover, Complete
<1> QED BY <1>6, <1>7, <1>8 DEF CustodyNext

LEMMA OverriddenStays == CustodyNext => overridden \subseteq overridden'
<1>1. DeploymentNext => overridden \subseteq overridden'
  BY DEF DeploymentNext, Initiate, InitiateFor, AcceptOffer, SubmitPdi, CompleteInspection, HandOver,
         InitiateDeallocation, CompleteDeallocation, ChangeAgreementStatus, ChangeStatus
<1>2. ReturnsNext => overridden \subseteq overridden'
  BY DEF ReturnsNext, RequestReturn, CancelReturn, StartSubmission, StartForReturn,
         StartForExchange, Intake, RecordReport, Impose, CancelReport, MoveReport, Confirm
<1>3. ExchangeNext => overridden \subseteq overridden'
  BY DEF ExchangeNext, CheckExchange, CreateExchange, Approve, Reject, Cancel, MoveExchange,
         Select, HoldLapses, Present, RejectOffer, Accept, ReconcileDeposits, StartHandover,
         LinkHandover, Complete, InitiateFor
<1> QED BY <1>1, <1>2, <1>3 DEF CustodyNext

LEMMA FreeIsFreeKept == CustodyInv /\ FreeIsFree /\ CustodyNext => FreeIsFree'
<1> SUFFICES ASSUME CustodyInv, FreeIsFree, CustodyNext,
                    NEW v \in Vehicles \ overridden', vehicle'[v] = "AVAILABLE",
                    NEW a \in HoldersOf(v)'
             PROVE  FALSE
  BY DEF FreeIsFree
<1>1. CustodyTypeOK /\ OneHolder
  BY DEF CustodyInv
<1>2. a \in HoldersOf(v)
  BY <1>1, HoldersRemain, ReservedIsNotFree DEF Initiate
<1>3. v \notin overridden
  BY OverriddenStays
<1>4. \E b \in HoldersOf(v) : SetAllocation(b, "COMPLETED")
  BY <1>1, <1>2, <1>3, FreedVehicles DEF FreeIsFree
<1>5. SetAllocation(a, "COMPLETED")
  BY <1>1, <1>2, <1>4 DEF OneHolder, HoldersOf
<1>6. allocation'[a].status = "COMPLETED"
  <2>1. allocation[a] \in AllocationRow
    BY <1>1, <1>2 DEF HoldersOf, Unfinished, CustodyTypeOK, Unused
  <2> QED BY <1>1, <1>2, <1>5, <2>1 DEF SetAllocation, CustodyTypeOK, AllocationRow, HoldersOf
<1> QED BY <1>6 DEF HoldersOf, Unfinished

\* A hold is taken by selecting the vehicle.
LEMMA HoldsRemain ==
    ASSUME CustodyTypeOK, CustodyNext, NEW e \in Exchanges, NEW v \in Vehicles,
           HoldsVehicle(e, v)'
    PROVE  HoldsVehicle(e, v) \/ Select(e, v)
<1>1. ExchangeStep(e)
  BY StepsOfExchanges
<1>2. CASE Selects(e)
  BY <1>2 DEF Selects, HoldsVehicle
<1>3. CASE exchange'[e] = exchange[e]
  BY <1>3 DEF HoldsVehicle, Promised
<1>4. CASE Goes(e)
  BY <1>4 DEF Goes, HoldsVehicle, Promised, ExchangeOnward
<1>5. CASE Asked(e) \/ Lapses(e) \/ Expires(e)
  BY <1>5 DEF Asked, Lapses, Expires, HoldsVehicle, Promised
<1>6. CASE Agrees(e) \/ Links(e)
  BY <1>6 DEF Agrees, Links, HoldsVehicle, Promised
<1> QED BY <1>1, <1>2, <1>3, <1>4, <1>5, <1>6 DEF ExchangeStep

LEMMA HoldIsKeptKept ==
    CustodyInv /\ FreeIsFree /\ HoldIsKept /\ CustodyNext => HoldIsKept'
<1> SUFFICES ASSUME CustodyInv, FreeIsFree, HoldIsKept, CustodyNext, NEW e \in Exchanges,
                    NEW v \in Vehicles \ overridden', HoldsVehicle(e, v)',
                    NEW a \in HoldersOf(v)'
             PROVE  allocation'[a].exchange = {e}
  BY DEF HoldIsKept
<1>1. CustodyTypeOK /\ v \notin overridden
  BY OverriddenStays DEF CustodyInv
<1>2. CASE Select(e, v)
  <2>1. HoldersOf(v) = {}
    BY <1>1, <1>2 DEF Select, FreeIsFree
  <2>2. HoldersOf(v)' = HoldersOf(v)
    BY <1>2 DEF Select, HoldersOf, Unfinished
  <2> QED BY <2>1, <2>2
<1>3. CASE HoldsVehicle(e, v)
  <2>1. ASSUME NEW r, NEW x, InitiateFor(a, r, v, x)
        PROVE  allocation'[a].exchange = {e}
    <3>1. x = {e}
      BY <1>3, <2>1 DEF InitiateFor
    <3> QED BY <1>1, <2>1, <3>1, ReservationWrites DEF HoldersOf
  <2> QED BY <1>1, <1>3, <2>1, HoldersRemain DEF HoldIsKept, Initiate
<1> QED BY <1>1, <1>2, <1>3, HoldsRemain

\* An accepted replacement is one vehicle, held by the exchange.
LEMMA PromisesHold == HoldIsKept /\ CustodyTypeOK => PromiseKept
<1> SUFFICES ASSUME HoldIsKept, CustodyTypeOK, NEW e \in Exchanges, Promised(e),
                    NEW v \in exchange[e].replacement \ overridden, NEW a \in HoldersOf(v)
             PROVE  allocation[a].exchange = {e}
  BY DEF PromiseKept
<1>1. exchange[e] \in ExchangeRow
  BY DEF Promised, CustodyTypeOK, Unused
<1>2. exchange[e].replacement = {v} /\ v \in Vehicles
  BY <1>1 DEF ExchangeRow, Optional
<1>3. HoldsVehicle(e, v)
  BY <1>2 DEF HoldsVehicle, Promised
<1> QED BY <1>2, <1>3 DEF HoldIsKept

LEMMA PromiseInvariant == CustodySpec => [](FreeIsFree /\ HoldIsKept)
<1>1. CustodyInit => FreeIsFree /\ HoldIsKept
  BY DEF CustodyInit, FreeIsFree, HoldIsKept, HoldersOf, Unfinished, Unused
<1>2. CustodyInv /\ FreeIsFree /\ HoldIsKept /\ [CustodyNext]_custodyVars
         => (FreeIsFree /\ HoldIsKept)'
  <2>1. CASE UNCHANGED custodyVars
    BY <2>1 DEF custodyVars, FreeIsFree, HoldIsKept, HoldersOf, Unfinished, HoldsVehicle, Promised
  <2>2. CASE CustodyNext
    BY <2>2, FreeIsFreeKept, HoldIsKeptKept
  <2> QED BY <2>1, <2>2
<1> QED BY <1>1, <1>2, CustodyInvariant, PTL DEF CustodySpec

-----------------------------------------------------------------------------
(* Lemmas: what allocations, agreements, returns and exchanges say of each other *)

\* A rider has one agreement at a time, and a vehicle serves one.
RidersApart ==
    \A g, h \in Agreements :
        Live(g) /\ Live(h) /\ agreement[g].rider = agreement[h].rider => g = h

VehiclesApart ==
    \A g, h \in Agreements :
        /\ Live(g) /\ Live(h)
        /\ agreement[g].current # {} /\ agreement[g].current = agreement[h].current
        => g = h

LEMMA RidersApartKept == CustodyTypeOK /\ RidersApart /\ CustodyNext => RidersApart'
<1> SUFFICES ASSUME CustodyTypeOK, RidersApart, CustodyNext,
                    NEW g \in Agreements, NEW h \in Agreements, Live(g)', Live(h)',
                    agreement'[g].rider = agreement'[h].rider
             PROVE  g = h
  BY DEF RidersApart
<1>1. ASSUME NEW i \in Agreements, NEW j \in Agreements, Live(i)', Live(j)',
             agreement'[i].rider = agreement'[j].rider, agreement[i].status = "NONE"
      PROVE  i = j
  <2>1. PICK r \in Riders, v \in Vehicles : AcceptOffer(i, r, v)
    BY <1>1, NewAgreements DEF Live, LiveAgreement
  <2>2. SUFFICES ASSUME i # j PROVE FALSE
    OBVIOUS
  <2>3. Live(j) /\ agreement[j].rider = r
    BY <1>1, <2>1, <2>2, OfferWrites DEF Live
  <2> QED BY <2>1, <2>3 DEF AcceptOffer
<1>2. CASE agreement[g].status # "NONE" /\ agreement[h].status # "NONE"
  BY <1>2, AgreementsContinue DEF Continues, RidersApart
<1> QED BY <1>1, <1>2

LEMMA VehiclesApartKept == CustodyTypeOK /\ VehiclesApart /\ CustodyNext => VehiclesApart'
<1> SUFFICES ASSUME CustodyTypeOK, VehiclesApart, CustodyNext,
                    NEW g \in Agreements, NEW h \in Agreements, Live(g)', Live(h)',
                    agreement'[g].current # {},
                    agreement'[g].current = agreement'[h].current,
                    g # h
             PROVE  FALSE
  BY DEF VehiclesApart
<1>1. ASSUME NEW i \in Agreements, NEW j \in Agreements, i # j, Live(i)', Live(j)',
             agreement'[i].current = agreement'[j].current, agreement[i].status = "NONE"
      PROVE  FALSE
  <2>1. PICK r \in Riders, v \in Vehicles : AcceptOffer(i, r, v)
    BY <1>1, NewAgreements DEF Live, LiveAgreement
  <2>2. Live(j) /\ agreement[j].current = {v}
    BY <1>1, <2>1, OfferWrites DEF Live
  <2> QED BY <2>1, <2>2 DEF AcceptOffer
<1>2. ASSUME NEW i \in Agreements, NEW j \in Agreements, i # j, Live(i)', Live(j)',
             agreement'[i].current = agreement'[j].current, agreement'[i].current # {},
             agreement[i].status # "NONE", agreement[j].status # "NONE",
             NEW e \in Exchanges, Complete(e), exchange[e].agreement = i
      PROVE  FALSE
  <2>1. exchange[e] \in ExchangeRow
    BY <1>2 DEF Complete, CustodyTypeOK, Unused
  <2>2. agreement'[j] = agreement[j]
    BY <1>2 DEF Complete, CustodyTypeOK
  <2>3. agreement'[i].current = exchange[e].replacement
    BY <1>2 DEF Complete, CustodyTypeOK, Unused, AgreementRow
  <2>4. PICK v \in exchange[e].replacement : exchange[e].replacement = {v}
    BY <1>2, <2>1, <2>3 DEF ExchangeRow, Optional
  <2>5. Live(j) /\ agreement[j].current = {v}
    BY <1>2, <2>2, <2>3, <2>4 DEF Live
  <2> QED BY <1>2, <2>4, <2>5 DEF Complete, VehicleIsFree
<1>3. CASE agreement[g].status # "NONE" /\ agreement[h].status # "NONE"
  <2>1. Continues(g) /\ Continues(h)
    BY <1>3, AgreementsContinue
  <2>2. CASE \E e \in Exchanges : Complete(e) /\ exchange[e].agreement \in {g, h}
    BY <1>2, <1>3, <2>2
  <2>3. CASE ~ \E e \in Exchanges : Complete(e) /\ exchange[e].agreement \in {g, h}
    <3>1. /\ agreement'[g].current = agreement[g].current
          /\ agreement'[h].current = agreement[h].current
      BY <2>1, <2>3 DEF Continues
    <3> QED BY <2>1, <3>1 DEF Continues, VehiclesApart
  <2> QED BY <2>2, <2>3
<1> QED BY <1>1, <1>3

\* A hold that the rider's acceptance has replaced does not lapse any more.
HoldIsOver == \A e \in Exchanges : Promised(e) => exchange[e].hold = "NONE"

\* The plan of an allocation is an agreement of its rider.
PlanIsTheRiders ==
    \A a \in Allocations : allocation[a].status # "NONE" =>
        \A g \in allocation[a].agreement :
            /\ agreement[g].status # "NONE"
            /\ agreement[g].rider = allocation[a].rider

\* The handover of a replacement belongs to an exchange that got that far, and to
\* its agreement for as long as that lives.
ReplacementIsLinked ==
    \A a \in Allocations : allocation[a].status # "NONE" =>
        \A e \in allocation[a].exchange :
            /\ exchange[e].status \in {"HANDOVER_PENDING", "COMPLETED"}
            /\ exchange[e].replacement = {allocation[a].vehicle}
            /\ agreement[exchange[e].agreement].rider = allocation[a].rider
            /\ Live(exchange[e].agreement) => allocation[a].agreement = {exchange[e].agreement}

HandoverIsLinked ==
    \A e \in Exchanges : exchange[e].status # "NONE" =>
        \A a \in exchange[e].allocation :
            allocation[a].status # "NONE" /\ allocation[a].exchange = {e}

\* An agreement that waits for its first handover is the plan of whatever its rider
\* has of its vehicle already.
PendingWaits ==
    \A g \in Agreements : agreement[g].status = "PENDING_ACTIVATION" =>
        /\ agreement[g].current = {agreement[g].vehicle}
        /\ \A a \in Allocations :
              /\ allocation[a].status = "ACTIVE"
              /\ allocation[a].rider = agreement[g].rider
              /\ allocation[a].vehicle = agreement[g].vehicle
              => allocation[a].agreement = {g}

\* A return is asked for the allocation that the agreement is the plan of.
ReturnIsLinked ==
    \A g \in Agreements : return[g].status = "REQUESTED" =>
        /\ allocation[return[g].allocation].status # "NONE"
        /\ agreement[g].status # "NONE"
        /\ allocation[return[g].allocation].rider = agreement[g].rider
        /\ Live(g) => allocation[return[g].allocation].agreement = {g}

\* No offer is accepted for the allocation of a rider whose agreement lives.
LEMMA PlanOfTheLiving ==
    ASSUME CustodyTypeOK, CustodyNext, NEW a \in Allocations, allocation[a].status # "NONE",
           NEW g \in Agreements, Live(g), agreement[g].rider = allocation[a].rider
    PROVE  allocation'[a].agreement = allocation[a].agreement
<1>1. ASSUME NEW h, NEW r, NEW v, AcceptOffer(h, r, v), a \in AwaitingPlan(r, v)
      PROVE  FALSE
  BY <1>1 DEF AcceptOffer, AwaitingPlan
<1> QED BY <1>1, AllocationsCarry DEF Carries

LEMMA HoldIsOverKept == CustodyTypeOK /\ HoldIsOver /\ CustodyNext => HoldIsOver'
<1> SUFFICES ASSUME CustodyTypeOK, HoldIsOver, CustodyNext, NEW e \in Exchanges, Promised(e)'
             PROVE  exchange'[e].hold = "NONE"
  BY DEF HoldIsOver
<1>1. ExchangeStep(e)
  BY StepsOfExchanges
<1> QED BY <1>1 DEF ExchangeStep, Asked, Goes, ExchangeOnward, Lapses, Expires, Agrees, Selects,
                    Links, HoldIsOver, Promised

\* What an exchange is about when its replacement is handed over stays so.
LEMMA LinkedExchangesStay ==
    ASSUME CustodyTypeOK, HoldIsOver, CustodyNext, NEW e \in Exchanges,
           exchange[e].status \in {"HANDOVER_PENDING", "COMPLETED"}
    PROVE  /\ exchange'[e].status \in {"HANDOVER_PENDING", "COMPLETED"}
           /\ exchange'[e].replacement = exchange[e].replacement
           /\ exchange'[e].agreement = exchange[e].agreement
<1>1. ExchangeStep(e)
  BY StepsOfExchanges
<1>2. ~Asked(e) /\ ~Lapses(e) /\ ~Agrees(e)
  BY DEF Asked, Lapses, Agrees
<1>3. ~Expires(e)
  BY DEF Expires, HoldIsOver, Promised, ActiveExchange
<1>4. ~Selects(e)
  BY DEF Selects, Select
<1>5. Goes(e) => exchange'[e].status \in {"HANDOVER_PENDING", "COMPLETED"}
  BY DEF Goes, ExchangeOnward
<1> QED BY <1>1, <1>2, <1>3, <1>4, <1>5 DEF ExchangeStep, Goes, Links

LEMMA PlanIsTheRidersKept ==
    CustodyInv /\ CustodyTypeOK' /\ PlanIsTheRiders /\ CustodyNext => PlanIsTheRiders'
<1> SUFFICES ASSUME CustodyInv, CustodyTypeOK', PlanIsTheRiders, CustodyNext,
                    NEW a \in Allocations, allocation'[a].status # "NONE",
                    NEW g \in allocation'[a].agreement
             PROVE  /\ agreement'[g].status # "NONE"
                    /\ agreement'[g].rider = allocation'[a].rider
  BY DEF PlanIsTheRiders
<1>1. CustodyTypeOK /\ RequestsKnown
  BY DEF CustodyInv
<1>2. g \in Agreements
  BY DEF CustodyTypeOK, Unused, AllocationRow, Optional
<1>3. CASE allocation[a].status # "NONE"
  <2>1. Carries(a)
    BY <1>1, <1>3, AllocationsCarry
  <2>2. CASE g \in allocation[a].agreement
    BY <1>1, <1>2, <1>3, <2>1, <2>2, AgreementsContinue DEF PlanIsTheRiders, Carries, Continues
  <2>3. CASE g \notin allocation[a].agreement
    <3>1. PICK h \in Agreements, r \in Riders, v \in Vehicles :
                 AcceptOffer(h, r, v) /\ a \in AwaitingPlan(r, v)
      BY <2>1, <2>3 DEF Carries
    <3>2. g = h
      <4>1. allocation[a] \in AllocationRow
        BY <1>1, <1>3 DEF CustodyTypeOK, Unused
      <4>2. allocation'[a] = [allocation[a] EXCEPT !.agreement = {h}]
        BY <3>1 DEF AcceptOffer
      <4> QED BY <4>1, <4>2 DEF AllocationRow
    <3>3. allocation[a].rider = r
      BY <3>1 DEF AwaitingPlan
    <3> QED BY <1>1, <2>1, <3>1, <3>2, <3>3, OfferWrites DEF Carries
  <2> QED BY <2>2, <2>3
<1>4. CASE allocation[a].status = "NONE"
  <2>1. CASE \E r \in Riders, v \in Vehicles : Initiate(a, r, v)
    BY <1>1, <2>1, ReservationWrites DEF Initiate
  <2>2. CASE \E e \in Exchanges : StartHandover(e, a)
    <3>1. PICK e \in Exchanges : StartHandover(e, a)
      BY <2>2
    <3>2. PICK v \in exchange[e].replacement :
                InitiateFor(a, agreement[exchange[e].agreement].rider, v, {e})
      BY <3>1 DEF StartHandover
    <3>3. exchange[e].agreement = g /\ allocation'[a].rider = agreement[g].rider
      BY <1>1, <3>2, ReservationWrites
    <3>4. agreement' = agreement
      BY <3>2 DEF InitiateFor
    <3> QED BY <1>1, <3>1, <3>3, <3>4 DEF RequestsKnown, StartHandover
  <2> QED BY <1>1, <1>4, <2>1, <2>2, NewAllocations
<1> QED BY <1>3, <1>4

LEMMA ReplacementIsLinkedKept ==
    CustodyInv /\ HoldIsOver /\ ReplacementIsLinked /\ CustodyNext => ReplacementIsLinked'
<1> SUFFICES ASSUME CustodyInv, HoldIsOver, ReplacementIsLinked, CustodyNext,
                    NEW a \in Allocations, allocation'[a].status # "NONE",
                    NEW e \in allocation'[a].exchange
             PROVE  /\ exchange'[e].status \in {"HANDOVER_PENDING", "COMPLETED"}
                    /\ exchange'[e].replacement = {allocation'[a].vehicle}
                    /\ agreement'[exchange'[e].agreement].rider = allocation'[a].rider
                    /\ Live(exchange[e].agreement)' =>
                          allocation'[a].agreement = {exchange'[e].agreement}
  BY DEF ReplacementIsLinked
<1>1. CustodyTypeOK /\ RequestsKnown
  BY DEF CustodyInv
<1>2. CASE allocation[a].status # "NONE"
  <2>1. Carries(a)
    BY <1>1, <1>2, AllocationsCarry
  <2>2. e \in allocation[a].exchange /\ e \in Exchanges
    BY <1>1, <1>2, <2>1 DEF Carries, CustodyTypeOK, Unused, AllocationRow, Optional
  <2>3. /\ exchange[e].status \in {"HANDOVER_PENDING", "COMPLETED"}
        /\ exchange[e].replacement = {allocation[a].vehicle}
        /\ agreement[exchange[e].agreement].rider = allocation[a].rider
        /\ Live(exchange[e].agreement) => allocation[a].agreement = {exchange[e].agreement}
    BY <1>2, <2>2 DEF ReplacementIsLinked
  <2>4. PICK g \in Agreements : g = exchange[e].agreement
    BY <1>1, <2>2, <2>3 DEF CustodyTypeOK, Unused, ExchangeRow
  <2>5. /\ exchange'[e].status \in {"HANDOVER_PENDING", "COMPLETED"}
        /\ exchange'[e].replacement = exchange[e].replacement
        /\ exchange'[e].agreement = g
    BY <1>1, <2>2, <2>3, <2>4, LinkedExchangesStay
  <2>6. agreement[g].status # "NONE"
    BY <1>1, <2>2, <2>3, <2>4 DEF RequestsKnown
  <2>7. Continues(g)
    BY <1>1, <2>6, AgreementsContinue
  <2>8. Live(g) => allocation'[a].agreement = {g}
    BY <1>1, <1>2, <2>3, <2>4, PlanOfTheLiving
  <2>9. Live(exchange[e].agreement)' => Live(g)
    BY <2>5, <2>7 DEF Continues, Live
  <2> QED BY <2>1, <2>3, <2>4, <2>5, <2>7, <2>8, <2>9 DEF Carries, Continues
<1>3. CASE allocation[a].status = "NONE"
  <2>1. CASE \E r \in Riders, v \in Vehicles : Initiate(a, r, v)
    BY <1>1, <2>1, ReservationWrites DEF Initiate
  <2>2. CASE \E x \in Exchanges : StartHandover(x, a)
    <3>1. PICK x \in Exchanges : StartHandover(x, a)
      BY <2>2
    <3>2. PICK v \in exchange[x].replacement :
                InitiateFor(a, agreement[exchange[x].agreement].rider, v, {x})
      BY <3>1 DEF StartHandover
    <3>3. /\ e = x
          /\ allocation'[a].rider = agreement[exchange[x].agreement].rider
          /\ allocation'[a].vehicle = v
          /\ allocation'[a].agreement = {exchange[y].agreement : y \in {x}}
      BY <1>1, <3>2, ReservationWrites
    <3>4. agreement' = agreement /\ exchange' = exchange
      BY <3>2 DEF InitiateFor
    <3>5. exchange[x].status = "HANDOVER_PENDING"
      BY <3>1 DEF StartHandover
    <3>6. exchange[x].replacement = {v}
      BY <1>1, <3>2, <3>5 DEF CustodyTypeOK, Unused, ExchangeRow, Optional
    <3>7. allocation'[a].agreement = {exchange[x].agreement}
      BY <3>3
    <3> QED BY <3>3, <3>4, <3>5, <3>6, <3>7
  <2> QED BY <1>1, <1>3, <2>1, <2>2, NewAllocations
<1> QED BY <1>2, <1>3

LEMMA HandoverIsLinkedKept ==
    CustodyTypeOK /\ CustodyTypeOK' /\ HandoverIsLinked /\ CustodyNext => HandoverIsLinked'
<1> SUFFICES ASSUME CustodyTypeOK, CustodyTypeOK', HandoverIsLinked, CustodyNext,
                    NEW e \in Exchanges, exchange'[e].status # "NONE",
                    NEW a \in exchange'[e].allocation
             PROVE  allocation'[a].status # "NONE" /\ allocation'[a].exchange = {e}
  BY DEF HandoverIsLinked
<1>1. a \in Allocations
  BY DEF CustodyTypeOK, Unused, ExchangeRow, Optional
<1>2. ExchangeStep(e)
  BY StepsOfExchanges
<1>3. CASE Links(e)
  BY <1>3 DEF Links, LinkHandover, Unused, CustodyTypeOK, AllocationRow
<1>4. CASE ~Links(e)
  <2>1. exchange[e].status # "NONE" /\ a \in exchange[e].allocation
    BY <1>2, <1>4 DEF ExchangeStep, Asked, Goes, Lapses, Expires, Agrees, Selects
  <2>2. allocation[a].status # "NONE" /\ allocation[a].exchange = {e}
    BY <2>1 DEF HandoverIsLinked
  <2> QED BY <1>1, <2>2, AllocationsCarry DEF Carries
<1> QED BY <1>3, <1>4

\* What a handover asks of the plan of its allocation.
LEMMA HandOverPlan ==
    ASSUME CustodyTypeOK, ReplacementIsLinked, NEW a \in Allocations, HandOver(a)
    PROVE  /\ allocation[a].status = "OTP_PENDING"
           /\ allocation'[a].status = "ACTIVE"
           /\ \E h \in Agreements :
                 /\ allocation[a].agreement = {h}
                 /\ allocation'[a].agreement = {h}
                 /\ Live(h) /\ agreement[h].rider = allocation[a].rider
                 /\ \/ AgreementStarts(a, h) /\ agreement'[h].status = "ACTIVE"
                    \/ agreement' = agreement /\ agreement[h].status = "ACTIVE"
<1>1. PICK h \in allocation[a].agreement : AgreementStarts(a, h) \/ ReplacementIsAwaited(a, h)
  BY DEF HandOver
<1>2. allocation[a] \in AllocationRow
  BY DEF HandOver, CustodyTypeOK, Unused
<1>3. h \in Agreements /\ allocation[a].agreement = {h}
  BY <1>2 DEF AllocationRow, Optional
<1>4. allocation'[a].status = "ACTIVE" /\ allocation'[a].agreement = allocation[a].agreement
  BY StatusWrites DEF HandOver
<1>5. allocation'[a].status = "ACTIVE" /\ allocation'[a].agreement = {h}
  BY <1>3, <1>4
<1>6. allocation[a].status = "OTP_PENDING"
  BY DEF HandOver
<1>7. CASE AgreementStarts(a, h)
  <2>1. agreement[h] \in AgreementRow
    BY <1>3, <1>7 DEF AgreementStarts, CustodyTypeOK, Unused
  <2>2. agreement'[h] = [agreement[h] EXCEPT !.status = "ACTIVE"]
    BY <1>3, <1>7 DEF AgreementStarts, SetAgreement, CustodyTypeOK
  <2>3. agreement'[h].status = "ACTIVE"
    BY <2>1, <2>2 DEF AgreementRow
  <2>4. Live(h) /\ agreement[h].rider = allocation[a].rider
    BY <1>7 DEF AgreementStarts, Live, LiveAgreement
  <2> QED BY <1>3, <1>5, <1>6, <1>7, <2>3, <2>4
<1>8. CASE ReplacementIsAwaited(a, h)
  <2>1. agreement[h].rider = allocation[a].rider
    BY <1>6, <1>8 DEF ReplacementIsAwaited, ReplacementIsLinked
  <2>2. agreement' = agreement /\ agreement[h].status = "ACTIVE" /\ Live(h)
    BY <1>8 DEF ReplacementIsAwaited, Live, LiveAgreement
  <2> QED BY <1>3, <1>5, <1>6, <2>1, <2>2
<1> QED BY <1>1, <1>7, <1>8

\* An offer is accepted for what the rider has of the vehicle.
LEMMA OfferPlans ==
    ASSUME CustodyTypeOK, NEW g \in Agreements, NEW r, NEW v, AcceptOffer(g, r, v),
           NEW a \in Allocations, allocation'[a].status = "ACTIVE",
           allocation'[a].rider = r, allocation'[a].vehicle = v
    PROVE  allocation'[a].agreement = {g}
<1>1. CASE a \in AwaitingPlan(r, v)
  <2>1. allocation[a] \in AllocationRow
    BY <1>1 DEF AwaitingPlan, CustodyTypeOK, Unused
  <2>2. allocation'[a] = [allocation[a] EXCEPT !.agreement = {g}]
    BY <1>1 DEF AcceptOffer
  <2> QED BY <2>1, <2>2 DEF AllocationRow
<1>2. CASE a \notin AwaitingPlan(r, v)
  BY <1>2 DEF AcceptOffer, AwaitingPlan
<1> QED BY <1>1, <1>2

LEMMA ActiveIsOld ==
    ASSUME CustodyTypeOK, CustodyNext, NEW a \in Allocations, allocation'[a].status = "ACTIVE"
    PROVE  allocation[a].status # "NONE"
BY StepsOfAllocations DEF AllocationStep, Kept, Begins, Moves, Onward

LEMMA PendingWaitsKept ==
    CustodyTypeOK /\ RidersApart /\ ReplacementIsLinked /\ PendingWaits /\ CustodyNext
        => PendingWaits'
<1> SUFFICES ASSUME CustodyTypeOK, RidersApart, ReplacementIsLinked, PendingWaits, CustodyNext,
                    NEW g \in Agreements, agreement'[g].status = "PENDING_ACTIVATION"
             PROVE  /\ agreement'[g].current = {agreement'[g].vehicle}
                    /\ \A a \in Allocations :
                          /\ allocation'[a].status = "ACTIVE"
                          /\ allocation'[a].rider = agreement'[g].rider
                          /\ allocation'[a].vehicle = agreement'[g].vehicle
                          => allocation'[a].agreement = {g}
  BY DEF PendingWaits
<1>1. CASE agreement[g].status = "NONE"
  <2>1. PICK r \in Riders, v \in Vehicles : AcceptOffer(g, r, v)
    BY <1>1, NewAgreements
  <2> QED BY <2>1, OfferWrites, OfferPlans
<1>2. CASE agreement[g].status # "NONE"
  <2>1. agreement'[g] = agreement[g]
    BY <1>2, AgreementsContinue DEF Continues
  <2>2. Live(g)
    BY <2>1 DEF Live, LiveAgreement
  <2>3. ASSUME NEW a \in Allocations, allocation'[a].status = "ACTIVE",
               allocation'[a].rider = agreement'[g].rider,
               allocation'[a].vehicle = agreement'[g].vehicle
        PROVE  allocation'[a].agreement = {g}
    <3>1. allocation[a].status # "NONE" /\ Carries(a)
      BY <2>3, ActiveIsOld, AllocationsCarry
    <3>2. CASE allocation[a].status = "ACTIVE"
      BY <2>1, <2>2, <2>3, <3>1, <3>2, PlanOfTheLiving DEF PendingWaits, Carries
    <3>3. CASE HandOver(a)
      <4>1. PICK h \in Agreements :
                   /\ Live(h) /\ agreement[h].rider = allocation[a].rider
                   /\ \/ agreement'[h].status = "ACTIVE"
                      \/ agreement' = agreement /\ agreement[h].status = "ACTIVE"
        BY <3>3, HandOverPlan
      <4>2. h = g
        BY <2>1, <2>2, <2>3, <3>1, <4>1 DEF RidersApart, Carries
      <4> QED BY <4>1, <4>2
    <3> QED BY <2>3, <3>1, <3>2, <3>3, AllocationsCarry
  <2> QED BY <2>1, <2>3 DEF PendingWaits
<1> QED BY <1>1, <1>2

\* A request to return is made by RequestReturn, and stays about its allocation.
LEMMA ReturnsRemain ==
    ASSUME CustodyTypeOK, CustodyNext, NEW g \in Agreements, return'[g].status = "REQUESTED"
    PROVE  \/ return'[g] = return[g]
           \/ \E a \in Allocations : RequestReturn(g, a) /\ return'[g].allocation = a
<1>1. CASE DeploymentNext
  BY <1>1 DEF DeploymentNext, Initiate, InitiateFor, AcceptOffer, SubmitPdi, CompleteInspection, HandOver,
         InitiateDeallocation, CompleteDeallocation, ChangeAgreementStatus, ChangeStatus
<1>2. CASE ExchangeNext
  BY <1>2 DEF ExchangeNext, CheckExchange, CreateExchange, Approve, Reject, Cancel, MoveExchange,
         Select, HoldLapses, Present, RejectOffer, Accept, ReconcileDeposits, StartHandover,
         LinkHandover, Complete, InitiateFor
<1>3. CASE \E h \in Agreements, a \in Allocations : RequestReturn(h, a)
  <2> PICK h \in Agreements, a \in Allocations : RequestReturn(h, a)
    BY <1>3
  <2>1. CASE h = g
    <3>1. return'[g] = [status |-> "REQUESTED", allocation |-> a]
      BY <2>1 DEF RequestReturn, CustodyTypeOK
    <3> QED BY <2>1, <3>1
  <2>2. CASE h # g
    BY <2>2 DEF RequestReturn, CustodyTypeOK
  <2> QED BY <2>1, <2>2
<1>4. CASE \E h \in Agreements : CancelReturn(h)
  BY <1>4 DEF CancelReturn, CustodyTypeOK, Unused
<1>5. CASE \E a \in Allocations, safe \in BOOLEAN : Confirm(a, safe)
  <2> PICK a \in Allocations, safe \in BOOLEAN : Confirm(a, safe)
    BY <1>5
  <2>1. CASE ReceiveForExchange(a)
    BY <2>1 DEF ReceiveForExchange
  <2>2. CASE ReceiveReturn(a)
    <3> DEFINE h == submission[a].agreement
    <3>1. /\ return[h].status = "REQUESTED"
          /\ return' = [return EXCEPT ![h].status = "RETURNED"]
      BY <2>2 DEF ReceiveReturn
    <3>2. CASE g = h
      <4>1. return[g] \in ReturnRow
        BY <3>1, <3>2 DEF CustodyTypeOK, Unused
      <4>2. return'[g] = [return[g] EXCEPT !.status = "RETURNED"]
        BY <3>1, <3>2 DEF CustodyTypeOK
      <4> QED BY <4>1, <4>2 DEF ReturnRow
    <3>3. CASE g # h
      BY <3>1, <3>3 DEF CustodyTypeOK
    <3> QED BY <3>2, <3>3
  <2> QED BY <2>1, <2>2 DEF Confirm
<1>6. CASE ReturnsNext
  <2>1. CASE return' = return
    BY <2>1
  <2> QED BY <1>3, <1>4, <1>5, <1>6, <2>1
          DEF ReturnsNext, StartSubmission, StartForReturn, StartForExchange, Intake,
              RecordReport, Impose, CancelReport, MoveReport
<1> QED BY <1>1, <1>2, <1>6 DEF CustodyNext

LEMMA ReturnIsLinkedKept == CustodyTypeOK /\ ReturnIsLinked /\ CustodyNext => ReturnIsLinked'
<1> SUFFICES ASSUME CustodyTypeOK, ReturnIsLinked, CustodyNext,
                    NEW g \in Agreements, return'[g].status = "REQUESTED"
             PROVE  /\ allocation'[return'[g].allocation].status # "NONE"
                    /\ agreement'[g].status # "NONE"
                    /\ allocation'[return'[g].allocation].rider = agreement'[g].rider
                    /\ Live(g)' => allocation'[return'[g].allocation].agreement = {g}
  BY DEF ReturnIsLinked
<1>1. CASE return'[g] = return[g]
  <2>1. PICK a \in Allocations : a = return[g].allocation
    BY <1>1 DEF CustodyTypeOK, Unused, ReturnRow
  <2>2. /\ allocation[a].status # "NONE" /\ agreement[g].status # "NONE"
        /\ allocation[a].rider = agreement[g].rider
        /\ Live(g) => allocation[a].agreement = {g}
    BY <1>1, <2>1 DEF ReturnIsLinked
  <2>3. Carries(a) /\ Continues(g)
    BY <2>2, AllocationsCarry, AgreementsContinue
  <2>4. Live(g)' => allocation'[a].agreement = {g}
    BY <2>2, <2>3, PlanOfTheLiving DEF Continues
  <2> QED BY <1>1, <2>1, <2>2, <2>3, <2>4 DEF Carries, Continues
<1>2. CASE \E a \in Allocations : RequestReturn(g, a) /\ return'[g].allocation = a
  BY <1>2 DEF RequestReturn, Returnable
<1> QED BY <1>1, <1>2, ReturnsRemain

CustodyLinks ==
    /\ HoldIsOver
    /\ RidersApart /\ VehiclesApart
    /\ PlanIsTheRiders /\ ReplacementIsLinked /\ HandoverIsLinked
    /\ PendingWaits /\ ReturnIsLinked

LEMMA LinksInvariant == CustodySpec => []CustodyLinks
<1>1. CustodyInit => CustodyLinks
  BY DEF CustodyInit, CustodyLinks, HoldIsOver, RidersApart, VehiclesApart, PlanIsTheRiders,
         ReplacementIsLinked, HandoverIsLinked, PendingWaits, ReturnIsLinked, Live, LiveAgreement,
         Promised, Unused
<1>2. CustodyInv /\ CustodyInv' /\ CustodyLinks /\ [CustodyNext]_custodyVars => CustodyLinks'
  <2>1. CASE UNCHANGED custodyVars
    BY <2>1 DEF custodyVars, CustodyLinks, HoldIsOver, RidersApart, VehiclesApart,
         PlanIsTheRiders, ReplacementIsLinked, HandoverIsLinked, PendingWaits, ReturnIsLinked,
         Live, Promised
  <2>2. CASE CustodyNext
    BY <2>2, HoldIsOverKept, RidersApartKept, VehiclesApartKept, PlanIsTheRidersKept,
       ReplacementIsLinkedKept, HandoverIsLinkedKept, PendingWaitsKept, ReturnIsLinkedKept
       DEF CustodyLinks, CustodyInv
  <2> QED BY <2>1, <2>2
<1> QED BY <1>1, <1>2, CustodyInvariant, PTL DEF CustodySpec

-----------------------------------------------------------------------------
(* Lemmas: the vehicle of an agreement *)

\* What CurrentVehicleIsHeld asks of an allocation besides its plan and vehicle.
Settled(a) ==
    WithRider(a) \/ (allocation[a].status = "COMPLETED" /\ submission[a] = Unused)

\* Only a confirmed submission takes that away.
LEMMA SettledRemains ==
    ASSUME CustodyTypeOK, CustodyNext, NEW a \in Allocations, Settled(a)
    PROVE  \/ Settled(a)'
           \/ \E safe \in BOOLEAN : Confirm(a, safe)
<1>1. WithRider(a)' \/ allocation'[a].status = "COMPLETED"
  BY StepsOfAllocations
     DEF AllocationStep, Kept, Begins, Moves, Onward, Settled, WithRider, Unfinished
<1> SUFFICES ASSUME allocation'[a].status = "COMPLETED",
                    \A safe \in BOOLEAN : ~Confirm(a, safe)
             PROVE  submission'[a] = Unused
  BY <1>1 DEF Settled
<1>2. ASSUME NEW b \in Allocations, NEW s, s # "COMPLETED", SetAllocation(b, s)
      PROVE  allocation[a].status = "COMPLETED"
  <2>1. allocation[a].status # "NONE"
    BY DEF Settled, WithRider, Unfinished
  <2>2. CASE a = b
    BY <1>2, <2>1, <2>2, StatusWrites
  <2>3. CASE a # b
    BY <1>2, <2>3 DEF SetAllocation, CustodyTypeOK
  <2> QED BY <2>2, <2>3
<1>3. ASSUME allocation[a].status = "COMPLETED", submission'[a] = submission[a]
      PROVE  submission'[a] = Unused
  BY <1>3 DEF Settled, WithRider, Unfinished
<1>4. ASSUME NEW b \in Allocations, b # a, NEW s, SetAllocation(b, s)
      PROVE  allocation[a].status = "COMPLETED"
  BY <1>4 DEF SetAllocation, CustodyTypeOK
<1>5. ASSUME NEW b \in Allocations, NEW r, NEW v, NEW x, InitiateFor(b, r, v, x)
      PROVE  submission'[a] = Unused
  <2>1. allocation'[a] = allocation[a]
    BY <1>5, ReservationWrites DEF Settled, WithRider, Unfinished
  <2> QED BY <1>3, <1>5, <2>1 DEF InitiateFor
<1>6. ASSUME NEW b \in Allocations, NEW g, NEW x, Intake(b, g, x)
      PROVE  submission'[a] = Unused
  <2>1. allocation[a].status = "COMPLETED"
    BY <1>2, <1>6 DEF Intake
  <2>2. a # b
    BY <1>6, <2>1 DEF Intake, InHand
  <2> QED BY <1>3, <1>6, <2>1, <2>2 DEF Intake, CustodyTypeOK
<1>7. CASE DeploymentNext
  <2>1. CASE \E b \in Allocations, r \in Riders, v \in Vehicles : Initiate(b, r, v)
    BY <1>5, <2>1 DEF Initiate
  <2>2. CASE \E b \in Allocations : SubmitPdi(b) \/ CompleteInspection(b) \/ HandOver(b)
                                       \/ InitiateDeallocation(b)
    BY <1>2, <1>3, <2>2 DEF SubmitPdi, CompleteInspection, HandOver, InitiateDeallocation
  <2>3. CASE \E b \in Allocations, safe \in BOOLEAN : CompleteDeallocation(b, safe)
    <3> PICK b \in Allocations, safe \in BOOLEAN : CompleteDeallocation(b, safe)
      BY <2>3
    <3>1. CASE a = b
      BY <3>1 DEF CompleteDeallocation
    <3>2. CASE a # b
      BY <1>3, <1>4, <3>2 DEF CompleteDeallocation
    <3> QED BY <3>1, <3>2
  <2>4. CASE \E g \in Agreements, r \in Riders, v \in Vehicles : AcceptOffer(g, r, v)
    <3> PICK g \in Agreements, r \in Riders, v \in Vehicles : AcceptOffer(g, r, v)
      BY <2>4
    <3>1. CASE a \in AwaitingPlan(r, v)
      <4>1. allocation[a] \in AllocationRow
        BY DEF Settled, WithRider, Unfinished, CustodyTypeOK, Unused
      <4>2. allocation'[a] = [allocation[a] EXCEPT !.agreement = {g}]
        BY <3>1 DEF AcceptOffer
      <4> QED BY <3>1, <4>1, <4>2 DEF AllocationRow, AwaitingPlan
    <3>2. CASE a \notin AwaitingPlan(r, v)
      BY <1>3, <3>2 DEF AcceptOffer
    <3> QED BY <3>1, <3>2
  <2>5. CASE allocation' = allocation /\ submission' = submission
    BY <1>3, <2>5
  <2> QED BY <1>7, <2>1, <2>2, <2>3, <2>4, <2>5
          DEF DeploymentNext, ChangeAgreementStatus, ChangeStatus
<1>8. CASE ReturnsNext
  <2>1. CASE \E b \in Allocations : StartSubmission(b)
    BY <1>6, <2>1 DEF StartSubmission, StartForReturn, StartForExchange
  <2>2. CASE \E b \in Allocations, safe \in BOOLEAN : Confirm(b, safe)
    <3> PICK b \in Allocations, safe \in BOOLEAN : Confirm(b, safe)
      BY <2>2
    <3>1. b # a
      OBVIOUS
    <3>2. submission'[a] = submission[a]
      BY <3>1 DEF Confirm, SetSubmission, CustodyTypeOK
    <3> QED BY <1>3, <1>4, <3>1, <3>2 DEF Confirm
  <2>3. ASSUME NEW b \in Allocations, RecordReport(b) \/ Impose(b) \/ CancelReport(b)
        PROVE  submission'[a] = Unused
    <3>1. allocation[a].status = "COMPLETED" /\ submission[a] = Unused
      BY <2>3 DEF RecordReport, Impose, CancelReport, MoveReport, Settled, WithRider, Unfinished
    <3>2. b # a
      BY <2>3, <3>1 DEF RecordReport, Impose, CancelReport, MoveReport, Unused
    <3> QED BY <2>3, <3>1, <3>2
            DEF RecordReport, Impose, CancelReport, MoveReport, SetSubmission, CustodyTypeOK
  <2>4. CASE allocation' = allocation /\ submission' = submission
    BY <1>3, <2>4
  <2> QED BY <1>8, <2>1, <2>2, <2>3, <2>4 DEF ReturnsNext, RequestReturn, CancelReturn
<1>9. CASE ExchangeNext
  <2>1. CASE \E e \in Exchanges, b \in Allocations : StartHandover(e, b)
    BY <1>5, <2>1 DEF StartHandover
  <2>2. CASE allocation' = allocation /\ submission' = submission
    BY <1>3, <2>2
  <2> QED BY <1>9, <2>1, <2>2
          DEF ExchangeNext, CheckExchange, CreateExchange, Approve, Reject, Cancel,
              MoveExchange, Select, HoldLapses, Present, RejectOffer, Accept,
              ReconcileDeposits, LinkHandover, Complete
<1> QED BY <1>7, <1>8, <1>9 DEF CustodyNext

\* An agreement starts by its handover or by hand, with the rider on the vehicle.
LEMMA PendingStarts ==
    ASSUME CustodyTypeOK, CustodyLinks, CustodyNext, NEW g \in Agreements,
           agreement[g].status = "PENDING_ACTIVATION", agreement'[g].status \in Returnable
    PROVE  \E a \in Allocations :
              /\ allocation'[a].status = "ACTIVE"
              /\ allocation'[a].agreement = {g}
              /\ {allocation'[a].vehicle} = agreement[g].current
<1>1. agreement'[g].status # agreement[g].status
  BY DEF Returnable
<1>2. CASE \E a \in Allocations : HandOver(a)
  <2>1. PICK a \in Allocations : HandOver(a)
    BY <1>2
  <2>2. PICK h \in Agreements :
               /\ allocation[a].agreement = {h}
               /\ allocation'[a].agreement = {h}
               /\ AgreementStarts(a, h) \/ agreement' = agreement
    BY <2>1, HandOverPlan DEF CustodyLinks
  <2>3. AgreementStarts(a, h) /\ g = h
    BY <1>1, <2>2 DEF AgreementStarts, SetAgreement, CustodyTypeOK
  <2>4. allocation[a].status = "OTP_PENDING" /\ allocation'[a].status = "ACTIVE"
    BY <2>1, HandOverPlan DEF CustodyLinks
  <2>5. allocation'[a].vehicle = allocation[a].vehicle
    BY <2>4, AllocationsCarry DEF Carries
  <2> QED BY <2>2, <2>3, <2>4, <2>5 DEF AgreementStarts
<1>3. CASE \E h \in Agreements, s \in LiveAgreement \cup EndedAgreement :
              ChangeAgreementStatus(h, s)
  <2>1. PICK h \in Agreements, s \in LiveAgreement \cup EndedAgreement :
               ChangeAgreementStatus(h, s)
    BY <1>3
  <2>2. g = h
    BY <1>1, <2>1 DEF ChangeAgreementStatus, SetAgreement, CustodyTypeOK
  <2>3. s \in {"ACTIVE", "CANCELLED"}
    BY <2>1, <2>2 DEF ChangeAgreementStatus, AgreementMoves
  <2>4. s = "ACTIVE"
    <3>1. agreement[g] \in AgreementRow
      BY DEF CustodyTypeOK, Unused
    <3>2. agreement'[g] = [agreement[g] EXCEPT !.status = s]
      BY <2>1, <2>2 DEF ChangeAgreementStatus, SetAgreement, CustodyTypeOK
    <3> QED BY <2>3, <3>1, <3>2 DEF AgreementRow, Returnable
  <2>5. PICK a \in Allocations : /\ allocation[a].status = "ACTIVE"
                                 /\ allocation[a].rider = agreement[g].rider
                                 /\ allocation[a].vehicle = agreement[g].vehicle
    BY <2>1, <2>2, <2>4 DEF ChangeAgreementStatus
  <2>6. allocation' = allocation
    BY <2>1 DEF ChangeAgreementStatus
  <2> QED BY <2>5, <2>6 DEF CustodyLinks, PendingWaits
<1>4. CASE agreement' = agreement
  BY <1>1, <1>4
<1>5. CASE \E h \in Agreements, r \in Riders, v \in Vehicles : AcceptOffer(h, r, v)
  BY <1>1, <1>5, OfferWrites
<1>6. CASE \E a \in Allocations, safe \in BOOLEAN : Confirm(a, safe)
  <2> PICK a \in Allocations, safe \in BOOLEAN : Confirm(a, safe)
    BY <1>6
  <2>1. CASE ReceiveReturn(a)
    BY <1>1, <2>1 DEF ReceiveReturn, SetAgreement, CustodyTypeOK, Returnable
  <2>2. CASE ReceiveForExchange(a)
    BY <1>1, <2>2 DEF ReceiveForExchange, CustodyTypeOK
  <2> QED BY <2>1, <2>2 DEF Confirm
<1>7. CASE \E e \in Exchanges : Complete(e)
  BY <1>1, <1>7 DEF Complete, AgreementStands, CustodyTypeOK
<1> QED BY <1>2, <1>3, <1>4, <1>5, <1>6, <1>7, AgreementCases

\* A confirmed submission ends the agreement that its allocation is the plan of,
\* or leaves it without a vehicle.
LEMMA ConfirmedLeaves ==
    ASSUME CustodyTypeOK, CustodyLinks, CustodyNext, NEW a \in Allocations,
           NEW safe \in BOOLEAN, Confirm(a, safe),
           NEW g \in Agreements, Live(g), allocation[a].agreement = {g},
           {allocation[a].vehicle} = agreement[g].current
    PROVE  agreement'[g].status = "TERMINATED" \/ agreement'[g].current = {}
<1>1. PICK h \in Agreements : h = submission[a].agreement
  BY DEF Confirm, CustodyTypeOK, Unused, SubmissionRow
<1>2. agreement[g] \in AgreementRow
  BY DEF Live, LiveAgreement, CustodyTypeOK, Unused
<1>3. CASE ReceiveReturn(a)
  <2>1. /\ return[h].status = "REQUESTED" /\ return[h].allocation = a
        /\ Live(h) /\ SetAgreement(h, "TERMINATED")
    BY <1>1, <1>3 DEF ReceiveReturn, Returnable, Live, LiveAgreement
  <2>2. h = g
    BY <2>1 DEF CustodyLinks, ReturnIsLinked
  <2>3. agreement'[g] = [agreement[g] EXCEPT !.status = "TERMINATED"]
    BY <2>1, <2>2 DEF SetAgreement, CustodyTypeOK
  <2> QED BY <1>2, <2>3 DEF AgreementRow
<1>4. CASE ReceiveForExchange(a)
  <2>1. /\ agreement[h].status = "ACTIVE" /\ agreement[h].current = {allocation[a].vehicle}
        /\ agreement' = [agreement EXCEPT ![h].current = {}]
    BY <1>1, <1>4 DEF ReceiveForExchange
  <2>2. h = g
    BY <2>1 DEF CustodyLinks, VehiclesApart, Live, LiveAgreement
  <2>3. agreement'[g] = [agreement[g] EXCEPT !.current = {}]
    BY <2>1, <2>2 DEF CustodyTypeOK
  <2> QED BY <1>2, <2>3 DEF AgreementRow
<1> QED BY <1>3, <1>4 DEF Confirm

LEMMA CurrentVehicleKept ==
    /\ CustodyTypeOK /\ CustodyTypeOK' /\ HandedFirst /\ HandedFirst'
    /\ CustodyLinks /\ CurrentVehicleIsHeld /\ CustodyNext
    => CurrentVehicleIsHeld'
<1> SUFFICES ASSUME CustodyTypeOK, CustodyTypeOK', HandedFirst, HandedFirst',
                    CustodyLinks, CurrentVehicleIsHeld, CustodyNext, NEW g \in Agreements,
                    agreement'[g].status \in Returnable, agreement'[g].current # {}
             PROVE  \E a \in Allocations :
                       /\ allocation'[a].status # "NONE"
                       /\ allocation'[a].agreement = {g}
                       /\ {allocation'[a].vehicle} = agreement'[g].current
                       /\ Settled(a)'
  <2>1. \A a \in Allocations : allocation'[a].status # "NONE" => allocation'[a] # Unused
    BY DEF Unused
  <2> QED BY <2>1 DEF CurrentVehicleIsHeld, Settled
<1>1. agreement[g].status # "NONE"
  BY NewAgreements, OfferWrites DEF Returnable
<1>2. Continues(g) /\ Live(g)
  <2>1. Continues(g)
    BY <1>1, AgreementsContinue
  <2>2. Live(g)'
    BY DEF Live, Returnable, LiveAgreement
  <2> QED BY <2>1, <2>2 DEF Continues
<1>3. CASE \E e \in Exchanges : Complete(e) /\ exchange[e].agreement = g
                               /\ agreement'[g].current = exchange[e].replacement
  <2>1. PICK e \in Exchanges : Complete(e) /\ exchange[e].agreement = g
                               /\ agreement'[g].current = exchange[e].replacement
    BY <1>3
  <2>2. PICK a \in exchange[e].allocation : allocation[a].status = "ACTIVE"
    BY <2>1 DEF Complete
  <2>3. exchange[e].status = "HANDOVER_PENDING"
    BY <2>1 DEF Complete
  <2>4. a \in Allocations
    BY <2>3 DEF CustodyTypeOK, Unused, ExchangeRow, Optional
  <2>5. allocation[a].exchange = {e}
    BY <2>3 DEF CustodyLinks, HandoverIsLinked
  <2>6. /\ exchange[e].replacement = {allocation[a].vehicle}
        /\ allocation[a].agreement = {g}
    BY <1>2, <2>1, <2>2, <2>4, <2>5 DEF CustodyLinks, ReplacementIsLinked
  <2>7. allocation' = allocation
    BY <2>1 DEF Complete
  <2>8. allocation'[a].status # "NONE" /\ WithRider(a)'
    BY <2>2, <2>4, <2>7 DEF HandedFirst, InHand, WithRider, Unfinished
  <2> QED BY <2>1, <2>4, <2>6, <2>7, <2>8 DEF Settled
<1>4. CASE agreement'[g].current = agreement[g].current
  <2>1. CASE agreement[g].status = "PENDING_ACTIVATION"
    <3>1. PICK a \in Allocations : /\ allocation'[a].status = "ACTIVE"
                                   /\ allocation'[a].agreement = {g}
                                   /\ {allocation'[a].vehicle} = agreement[g].current
      BY <2>1, PendingStarts
    <3>2. allocation'[a].status # "NONE" /\ WithRider(a)'
      BY <3>1 DEF HandedFirst, InHand, WithRider, Unfinished
    <3> QED BY <1>4, <3>1, <3>2 DEF Settled
  <2>2. CASE agreement[g].status # "PENDING_ACTIVATION"
    <3>1. agreement[g].status \in Returnable /\ agreement[g].current # {}
      BY <1>2, <1>4, <2>2 DEF Live, LiveAgreement, Returnable
    <3>2. PICK a \in Allocations :
             /\ allocation[a] # Unused
             /\ allocation[a].agreement = {g}
             /\ {allocation[a].vehicle} = agreement[g].current
             /\ Settled(a)
      BY <3>1 DEF CurrentVehicleIsHeld, Settled
    <3>3. allocation[a].status # "NONE"
      BY <3>2 DEF Settled, WithRider, Unfinished
    <3>4. agreement[g].rider = allocation[a].rider
      BY <3>2, <3>3 DEF CustodyLinks, PlanIsTheRiders
    <3>5. Carries(a) /\ allocation'[a].agreement = {g}
      BY <1>2, <3>2, <3>3, <3>4, AllocationsCarry, PlanOfTheLiving
    <3>6. \A safe \in BOOLEAN : ~Confirm(a, safe)
      BY <1>2, <3>2, ConfirmedLeaves DEF Returnable
    <3>7. Settled(a)'
      BY <3>2, <3>6, SettledRemains
    <3> QED BY <1>4, <3>2, <3>5, <3>7 DEF Carries
  <2> QED BY <2>1, <2>2
<1> QED BY <1>2, <1>3, <1>4 DEF Continues

-----------------------------------------------------------------------------
(* Theorems *)

\* The rows keep their types.
THEOREM CustodyTypes == CustodySpec => []CustodyTypeOK
BY CustodyInvariant, PTL DEF CustodyInv

\* A vehicle is promised to or in the hands of one rider at a time, although no
\* index says so and operators set the status of vehicles by hand: initiate reads
\* the allocations under the lock of the vehicle, and nothing brings a finished
\* allocation back.
THEOREM VehiclesHaveOneHolder == CustodySpec => []OneHolder
BY CustodyInvariant, PTL DEF CustodyInv

\* The services implement VehicleHolding: a vehicle goes from nobody to one rider,
\* who receives it and gives it back before another rider can be promised it, on
\* the direct way back, by a return and by an exchange alike.  An inspection that is
\* completed late sets a status back, and undoes neither the handover nor the return.
THEOREM VehiclesGoAndComeBack == CustodySpec => KeepsHolding
<1>1. CustodyInit => Holding!HoldingInit
  BY HolderOfNone DEF CustodyInit, Holding!HoldingInit, HoldersOf, Unfinished, Unused
<1>2. CustodyInv /\ CustodyInv' /\ [CustodyNext]_custodyVars
         => [Holding!HoldingNext]_[v \in Vehicles |-> HolderOf(v)]
  BY StepsOfAllocations, SameAllocations, HoldingStep DEF CustodyInv, custodyVars
<1> QED BY <1>1, <1>2, CustodyInvariant, PTL DEF CustodySpec, KeepsHolding, Holding!HoldingSpec

\* A replacement that a rider accepted is kept for the exchange until it is handed
\* over, however initiate, select and the holds that run out interleave: initiate
\* reads the holds under the lock of the vehicle, and select takes one only on a
\* vehicle that is available, which nobody has unless an operator made it so.
THEOREM AcceptedReplacementIsKept == CustodySpec => []PromiseKept
BY CustodyInvariant, PromiseInvariant, PromisesHold, PTL DEF CustodyInv

\* The vehicle that a started agreement names was handed over to its rider and not
\* taken back, or came back without a submission: first handovers, returns,
\* exchanges, offers accepted for an allocation that outlived its agreement,
\* inspections completed late and operators' corrections keep the two tables
\* together.
THEOREM AgreementsHaveTheirVehicle == CustodySpec => []CurrentVehicleIsHeld
<1>1. CustodyInit => CurrentVehicleIsHeld
  BY DEF CustodyInit, CurrentVehicleIsHeld, Unused, Returnable
<1>2. /\ CustodyInv /\ CustodyInv' /\ CustodyLinks /\ CurrentVehicleIsHeld
      /\ [CustodyNext]_custodyVars
      => CurrentVehicleIsHeld'
  <2>1. CASE UNCHANGED custodyVars
    BY <2>1 DEF custodyVars, CurrentVehicleIsHeld, WithRider, Unfinished
  <2>2. CASE CustodyNext
    BY <2>2, CurrentVehicleKept DEF CustodyInv
  <2> QED BY <2>1, <2>2
<1> QED BY <1>1, <1>2, CustodyInvariant, LinksInvariant, PTL DEF CustodySpec

=============================================================================

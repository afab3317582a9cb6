--------------------------- MODULE VehicleHolding ---------------------------
(***************************************************************************)
(* What allocations promise: a vehicle is promised to one rider, then      *)
(* received by this rider, and given back before anybody else can have it. *)
(* A promise is not withdrawn: the services know no way to cancel an       *)
(* allocation that was not handed over.                                    *)
(***************************************************************************)
CONSTANTS Riders, Vehicles

VARIABLE holder

Nobody == [state |-> "FREE"]
Holder == {Nobody} \cup [state : {"PROMISED", "HELD"}, rider : Riders]

HoldingInit == holder = [v \in Vehicles |-> Nobody]

Promise(v, r) ==
    holder[v] = Nobody /\ holder'[v] = [state |-> "PROMISED", rider |-> r]

Receive(v) ==
    holder[v].state = "PROMISED" /\ holder'[v] = [holder[v] EXCEPT !.state = "HELD"]

GiveBack(v) == holder[v].state = "HELD" /\ holder'[v] = Nobody

\* One vehicle at a time.
HoldingNext ==
    \E v \in Vehicles :
        /\ holder'[v] # holder[v]
        /\ (\E r \in Riders : Promise(v, r)) \/ Receive(v) \/ GiveBack(v)
        /\ \A other \in Vehicles \ {v} : holder'[other] = holder[other]
        /\ holder' \in [Vehicles -> Holder]

HoldingSpec == HoldingInit /\ [][HoldingNext]_holder
=============================================================================

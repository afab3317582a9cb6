-------------------------- MODULE MCVehicleExchange --------------------------
(* Riders, vehicles and rows are interchangeable. *)
EXTENDS VehicleExchange, TLC

Rows == Permutations(Riders) \cup Permutations(Vehicles) \cup Permutations(Allocations)
        \cup Permutations(Agreements) \cup Permutations(Exchanges)
=============================================================================

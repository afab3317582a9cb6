SPECIFICATION CustodySpec
CONSTANTS
    Riders = {r1, r2}
    Vehicles = {v1, v2}
    Allocations = {a1, a2}
    Agreements = {g1, g2}
    Exchanges = {e1}
    MaxOverridden = 1
SYMMETRY Rows
INVARIANTS
    OneHolder
    PromiseKept
    CurrentVehicleIsHeld
PROPERTIES
    KeepsHolding
CHECK_DEADLOCK FALSE

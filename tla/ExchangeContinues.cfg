SPECIFICATION CustodySpec
CONSTANTS
    Riders = {r1, r2}
    Vehicles = {v1, v2, v3}
    Allocations = {a1, a2}
    Agreements = {g1, g2}
    Exchanges = {e1, e2}
    MaxOverridden = 0
SYMMETRY Rows
INVARIANTS
    ExchangeContinues
CHECK_DEADLOCK FALSE

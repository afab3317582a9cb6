SPECIFICATION FairBillingSpec
CONSTANTS
    Period = 4
    Anchor = 1
    Unit = 2
    Policies = {"NO_PRORATION", "PRORATE_NEW_ONLY", "START_NEW_NEXT_BILLING_CYCLE"}
    Horizon = 10
    MaxVersions = 3
INVARIANTS
    RentOnce
    PostpaidOnce
    NextPeriodResolves
PROPERTIES
    EndedRentIsBilled
CHECK_DEADLOCK FALSE

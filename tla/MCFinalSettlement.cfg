SPECIFICATION ExitSpec
CONSTANTS
    rent = rent
    security = security
    vehicle = vehicle
    Invoices = {rent}
    Total <- MCTotal
    Due <- MCRank
    Issued <- MCRank
    OneTime = {}
    Sources <- SettlementSources
    OpeningCash = 0
    MaxReceipt = 2
    Deposits = {security, vehicle}
    Required <- MCRequired
    Security = {security}
    Deployed = {security}
    DepositKeys = {k1}
    Requests = {q1}
    HoldIds = {h1}
    MaxMove = 2
    Excesses = {x1}
    Calls = {c1}
INVARIANTS
    GapIsDeducted
    ClosedHoldsNothing
    AppliedAsDeducted
    ExcessStaysPayable
    CompletedWasPaid
CHECK_DEADLOCK FALSE

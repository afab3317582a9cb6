SPECIFICATION DepositSpec
CONSTANTS
    reward = reward
    own = own
    billed = billed
    Payments = {p1}
    Undos = {u1, u2}
    Holds = {h1}
    Lots = {reward}
    Amount <- MCAmount
    Expires <- MCExpires
    Deposits = {own, billed}
    Required <- MCRequired
    Invoiced = {billed}
    DepositKeys = {k1, k2}
    Requests = {r1, r2}
    PartialFunding = TRUE
    MaxMove = 1
    MinimumCash = 0
    CreditLimit = 0
    MaxPostings = 4
SYMMETRY MCSymmetry
INVARIANTS
    NeverOverdrawn
    LotConserved
    ReversedOnce
    DepositsStayCovered
    OneLiveReturn
    PaidIsFunded
CHECK_DEADLOCK FALSE

SPECIFICATION FairRefundSpec
CONSTANTS
    rent = rent
    Invoices = {rent}
    Total <- MCTotal
    Due <- MCRank
    Issued <- MCRank
    OneTime = {}
    Sources = {p1}
    OpeningCash = 0
    MaxReceipt = 2
    Refunds = {r1, r2}
    MaxRestarts = 1
INVARIANTS
    NeverOverpaid
    RefundsAddUp
PROPERTIES
    PaidReversalIsPosted
CHECK_DEADLOCK FALSE

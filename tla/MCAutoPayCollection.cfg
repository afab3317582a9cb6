SPECIFICATION FairAutoPaySpec
CONSTANTS
    fee = fee
    Invoices = {fee}
    Total <- MCTotal
    Due <- MCRank
    Issued <- MCRank
    OneTime = {fee}
    Debits = {1, 2}
    Checkouts = {}
    Sources = {1, 2}
    OpeningCash = 0
    MaxReceipt = 2
    MandateLimit = 2
    MaximumAttempts = 2
    MaxCrashes = 1
INVARIANTS
    CreditIsCaptured
    DeadRowsTakeNoMoney
    ChargesExclusive
    RowTellsCredit
PROPERTIES
    CapturedIsCredited
    DunningCloses
CHECK_DEADLOCK FALSE

SPECIFICATION CollectionSpec
CONSTANTS
    rent = rent
    Invoices = {rent}
    Total <- MCTotal
    Due <- MCRank
    Issued <- MCRank
    OneTime = {}
    Debits = {1}
    Checkouts = {100}
    Sources = {1, 100}
    OpeningCash = 0
    MaxReceipt = 1
    MandateLimit = 1
    MaximumAttempts = 2
    MaxCrashes = 1
    MaxTries = 1
    MaxReads = 1
PROPERTIES
    KeepsThePromise
CHECK_DEADLOCK FALSE

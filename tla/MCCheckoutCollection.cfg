SPECIFICATION FairCheckoutSpec
CONSTANTS
    rent = rent
    fee = fee
    c1 = c1
    c2 = c2
    Invoices = {rent, fee}
    Total <- MCCheckoutTotal
    Due <- MCDue
    Issued <- MCIssued
    OneTime = {fee}
    Debits = {}
    Checkouts = {c1}
    Sources = {c1}
    OpeningCash = 1
    MaxReceipt = 3
    MaxCrashes = 1
    MaxTries = 2
    MaxReads = 2
INVARIANTS
    InvoiceBalanced
    WaterfallIsTheLoop
PROPERTIES
    PaidCheckoutIsCredited
    CheckoutCloses
CHECK_DEADLOCK FALSE

SPECIFICATION LedgerSpec
CONSTANTS
    rent = rent
    fee = fee
    Invoices = {rent, fee}
    Total <- MCTotal
    Due <- MCDue
    Issued <- MCIssued
    OneTime = {fee}
    Sources = {p1, p2}
    OpeningCash = 2
    MaxReceipt = 3
INVARIANTS
    InvoicesReconcile

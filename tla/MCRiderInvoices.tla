--------------------------- MODULE MCRiderInvoices ---------------------------
(* Two invoices and two receipts; the second invoice is older by creation.  *)
EXTENDS RiderInvoices

CONSTANTS rent, fee

MCTotal == rent :> 3 @@ fee :> 1
MCDue == rent :> 1 @@ fee :> 2
MCIssued == rent :> 3 @@ fee :> 1
=============================================================================

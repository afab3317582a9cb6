------------------------- MODULE MCInvoiceCollection -------------------------
(* One invoice that a debit and a checkout collect, one after the other or at
   the same time. *)
EXTENDS InvoiceCollection

CONSTANTS rent

MCTotal == rent :> 1
MCRank == rent :> 1
=============================================================================

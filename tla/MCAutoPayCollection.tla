------------------------- MODULE MCAutoPayCollection -------------------------
(* One one-time invoice, which may be voided, two attempts to collect it and
   enough wallet money to pay a part of it while a debit is under way. *)
EXTENDS AutoPayCollection

CONSTANTS fee

MCTotal == fee :> 2
MCRank == fee :> 1
=============================================================================

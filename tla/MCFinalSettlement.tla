-------------------------- MODULE MCFinalSettlement --------------------------
(* A security deposit of two that the deployment collected, a vehicle deposit of
   one that was not, and an invoice of two: a deposit pays it in full or in part.
   All receipts come from deposits. *)
EXTENDS FinalSettlement, TLC

CONSTANTS rent, security, vehicle

MCTotal == rent :> 2
MCRank == rent :> 1
MCRequired == security :> 2 @@ vehicle :> 1
=============================================================================

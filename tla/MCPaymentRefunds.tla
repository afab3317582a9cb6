-------------------------- MODULE MCPaymentRefunds --------------------------
(* One payment of up to two, one invoice that takes one of it, and two refunds
   that compete for the rest or for the whole. *)
EXTENDS PaymentRefunds

CONSTANTS rent

MCTotal == rent :> 1
MCRank == rent :> 1
=============================================================================

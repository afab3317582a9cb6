------------------------ MODULE MCCheckoutCollection ------------------------
(* A rent of two and a fee of one, a request for one or both of them, two
   tries to pay on its order and two overlapping verifications of it.  The fee
   is older by creation and due later. *)
EXTENDS CheckoutCollection, MCRiderInvoices

CONSTANTS c1, c2

MCCheckoutTotal == rent :> 2 @@ fee :> 1
=============================================================================

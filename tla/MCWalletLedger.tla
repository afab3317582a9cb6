----------------------------- MODULE MCWalletLedger -----------------------------
(* A reward of 2 next to cash, a deposit of 2 that the office asks for and one of 1
   that has an invoice. *)
EXTENDS SecurityDeposits, TLC

CONSTANTS reward, own, billed

MCAmount == reward :> 2
MCExpires == reward :> 1
MCRequired == own :> 2 @@ billed :> 1

MCSymmetry == Permutations(Payments) \cup Permutations(Undos) \cup Permutations(DepositKeys)
                 \cup Permutations(Requests)
=============================================================================

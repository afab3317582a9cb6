-------------------------- MODULE InvoiceCollection --------------------------
(***************************************************************************)
(* AutoPay and checkout together on one rider's ledger.  They meet in the  *)
(* database only: each reservation reads the other's rows, both credit the *)
(* same invoices, and a restart interrupts both.                           *)
(***************************************************************************)
EXTENDS AutoPayCollection, CheckoutCollection

collectionVars == <<ledgerVars, autoPayVars, checkoutVars, crashes>>

CollectionInit == CollectionsInit /\ DebitInit /\ OrderInit

CollectionNext ==
    \/ DebitNext /\ UNCHANGED checkoutVars
    \/ CheckoutNext /\ UNCHANGED autoPayVars
    \/ Restart /\ ForgetDebitCalls /\ ForgetCheckoutCalls /\ UNCHANGED ledgerVars
    \/ OfficeNext /\ UNCHANGED <<autoPayVars, checkoutVars, crashes>>

CollectionSpec == CollectionInit /\ [][CollectionNext]_collectionVars

-----------------------------------------------------------------------------
(* The promise *)

\* Stage of a debit: the request is with the provider from SendDebit on.
DebitStage(d) ==
    IF Recorded(d) THEN "credited"
    ELSE IF charge[d] = "SUCCESS" THEN "captured"
    ELSE IF charge[d] \in {"REQUESTED", "PENDING"} THEN "asked"
    ELSE IF charge[d] = "ABSENT" /\ caller[d] \in {"none", "recheck", "send"} THEN "idle"
    ELSE "closed"

\* Stage of a checkout: declined payments leave an active order open.
CheckoutStage(c) ==
    IF Recorded(c) THEN "credited"
    ELSE IF tries[c].success > 0 THEN "captured"
    ELSE IF order[c] \in {"REQUESTED", "ACTIVE"} \/ tries[c].pending > 0 THEN "asked"
    ELSE IF order[c] = "ABSENT" /\ session[c] \in {"none", "send"} THEN "idle"
    ELSE "closed"

Promise == INSTANCE CollectionPromise WITH
    Automatic <- Debits,
    Manual <- Checkouts,
    Owed <- Invoices,
    stage <- [s \in Debits \cup Checkouts |->
                 IF s \in Debits THEN DebitStage(s) ELSE CheckoutStage(s)],
    target <- [s \in Debits \cup Checkouts |->
                 IF s \in Debits THEN debit[s].for ELSE checkout[s].for]

\* Both services together keep the promise of CollectionPromise: what the
\* provider holds reaches the rider's account at most once and is never given
\* up, and automatic charges of an invoice exclude each other.
KeepsThePromise == Promise!PromiseSpec

=============================================================================

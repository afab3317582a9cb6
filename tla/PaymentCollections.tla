-------------------------- MODULE PaymentCollections --------------------------
(***************************************************************************)
(* The two tables through which a provider is asked for a rider's money,   *)
(* on top of the billing ledger:                                           *)
(*   debit[d]     PaymentTransaction, one scheduled AutoPay charge;        *)
(*   checkout[c]  PaymentCollectionRequest, one checkout order.            *)
(* The reservations of both services read both tables and rely on the      *)
(* partial unique indexes of the database, which are stated here.  A row's *)
(* id is the idempotency identity of the receipt it may create.            *)
(***************************************************************************)
EXTENDS RiderInvoices

CONSTANTS
    Debits,        \* ids of AutoPay transactions; numbered in creation order
    Checkouts,     \* ids of checkout requests
    MaxCrashes     \* bound on the restarts of the API process

ASSUME CollectionAssumption ==
    /\ Debits \subseteq Nat
    /\ Debits \cap Checkouts = {}
    /\ Debits \cup Checkouts \subseteq Sources
    /\ MaxCrashes \in Nat

VARIABLES debit, checkout, crashes

ActiveStatus == {"CREATING", "PENDING", "UNKNOWN"}
DebitStatus == ActiveStatus \cup {"NONE", "SUCCESS", "FAILED", "CANCELLED"}
CheckoutStatus == ActiveStatus \cup {"NONE", "SUCCESS", "FAILED", "EXPIRED"}
CheckoutKind == {"INVOICE_PAYMENT", "OUTSTANDING_PAYMENT"}

DebitRow == [status : DebitStatus, for : SUBSET Invoices, amount : Nat,
             retryable : BOOLEAN]
CheckoutRow == [status : CheckoutStatus, for : SUBSET Invoices, amount : Nat,
                kind : CheckoutKind]

NoDebit == [status |-> "NONE", for |-> {}, amount |-> 0, retryable |-> FALSE]
NoCheckout == [status |-> "NONE", for |-> {}, amount |-> 0,
               kind |-> "INVOICE_PAYMENT"]

CollectionsInit ==
    /\ LedgerInit
    /\ debit = [d \in Debits |-> NoDebit]
    /\ checkout = [c \in Checkouts |-> NoCheckout]
    /\ crashes = 0

DebitsOf(i, status) == {d \in Debits : i \in debit[d].for /\ debit[d].status \in status}

\* PaymentTransaction_active_invoice_key: d may take this status next to the
\* other transactions of its invoice.
DebitIndexAllows(d, status) ==
    status \in ActiveStatus \cup {"SUCCESS"} =>
        \A e \in Debits \ {d} :
            debit[e].for = debit[d].for => debit[e].status \notin ActiveStatus \cup {"SUCCESS"}

\* PaymentCollectionRequest_active_invoice_key and _active_outstanding_key.
CheckoutIndexAllows(c, status) ==
    status \in ActiveStatus =>
        \A e \in Checkouts \ {c} :
            ~ /\ checkout[e].status \in ActiveStatus
              /\ checkout[e].kind = checkout[c].kind
              /\ \/ checkout[c].kind = "OUTSTANDING_PAYMENT"
                 \/ checkout[e].for = checkout[c].for

\* The checkout that keeps an AutoPay debit or another checkout off invoice i:
\* one for the invoice itself, or one for everything the rider owes.
CheckoutInProgress(i) ==
    \E c \in Checkouts :
        /\ checkout[c].status \in ActiveStatus
        /\ checkout[c].kind = "OUTSTANDING_PAYMENT" \/ checkout[c].for = {i}

\* The API process restarts.  What it keeps in memory is lost, see the actions.
Restart == crashes < MaxCrashes /\ crashes' = crashes + 1
=============================================================================

-------------------------- MODULE CheckoutCollection --------------------------
(***************************************************************************)
(* Checkout: the rider pays an invoice, or a part of everything open, on a *)
(* page of the provider.  The service reserves a request row, asks for an  *)
(* order and stores the payment session that comes back; only then can the *)
(* rider try to pay.  Rider, back office, webhook and the hourly job       *)
(* verify a request: they list the payments of its order, may have to look *)
(* at the order as well, and write what they found in a later transaction. *)
(*                                                                         *)
(*   session[c]  how far startProviderCheckout got with request c;         *)
(*   order[c]    the order at the provider;                                *)
(*   tries[c]    the payments tried on the order, counted by result;       *)
(*   reading[c]  what verifications in progress have found.                *)
(*                                                                         *)
(* The log of observed payments is written by verify and read by no        *)
(* decision modelled here; it is left out.  Invoices are ordinary ones: a  *)
(* security deposit invoice is credited by another path.                   *)
(***************************************************************************)
EXTENDS PaymentCollections

CONSTANTS
    MaxTries,      \* bound on the payments the rider tries on one order
    MaxReads       \* bound on the verifications of a request at one time

ASSUME CheckoutAssumption == MaxTries \in Nat /\ MaxReads \in Nat

VARIABLES session, order, tries, reading

checkoutVars == <<checkout, session, order, tries, reading>>

Session == {"none", "send", "waiting", "stored", "lost"}
Order == {"ABSENT", "REQUESTED", "REFUSED", "ACTIVE", "EXPIRED", "PAID"}
OrderExists(c) == order[c] \in {"ACTIVE", "EXPIRED", "PAID"}

Tries == [pending : 0..MaxTries, success : 0..MaxTries, declined : 0..MaxTries]
NoTries == [pending |-> 0, success |-> 0, declined |-> 0]
Tried(c) == tries[c].pending + tries[c].success + tries[c].declined

\* A verification in progress: its finding, and whether the row it started from
\* was already successful.
Finding == {"open", "declined", "paid", "paid twice", "order expired",
            "order paid", "order declined"}
Reading == [found : Finding, settled : BOOLEAN]

OrderInit ==
    /\ session = [c \in Checkouts |-> "none"]
    /\ order = [c \in Checkouts |-> "ABSENT"]
    /\ tries = [c \in Checkouts |-> NoTries]
    /\ reading = [c \in Checkouts |-> {}]

SetCheckout(c, status) == checkout' = [checkout EXCEPT ![c].status = status]

\* A status write that the unique indexes may refuse.
TryCheckout(c, status) ==
    IF CheckoutIndexAllows(c, status) THEN SetCheckout(c, status)
                                      ELSE UNCHANGED checkout

-----------------------------------------------------------------------------
(* payInvoice, payOutstanding and startProviderCheckout *)

Reserve(c, row) ==
    /\ checkout[c] = NoCheckout
    /\ checkout' = [checkout EXCEPT ![c] = row]
    /\ session' = [session EXCEPT ![c] = "send"]
    /\ UNCHANGED <<ledgerVars, debit, order, tries, reading, crashes>>

\* payInvoice: one invoice, what it owes now.  The wallet's share was settled
\* by a transaction before this one.
PayInvoice(c, i) ==
    /\ Payable(i)
    /\ ~CheckoutInProgress(i)
    /\ DebitsOf(i, ActiveStatus) = {}
    /\ Reserve(c, [status |-> "CREATING", for |-> {i}, kind |-> "INVOICE_PAYMENT",
                   amount |-> invoice[i].outstanding])

\* payOutstanding: everything the rider owes now, or a part of that.
PayOutstanding(c, amount) ==
    /\ amount \in 1..SumFunctionOnSet([i \in Invoices |-> invoice[i].outstanding],
                                      {i \in Invoices : Payable(i)})
    /\ \A e \in Checkouts : checkout[e].status \notin ActiveStatus
    /\ \A d \in Debits : debit[d].status \notin ActiveStatus
    /\ Reserve(c, [status |-> "CREATING", for |-> Invoices,
                   kind |-> "OUTSTANDING_PAYMENT", amount |-> amount])

\* createCheckoutOrder is called.
SendOrder(c) ==
    /\ session[c] = "send"
    /\ session' = [session EXCEPT ![c] = "waiting"]
    /\ order' = [order EXCEPT ![c] = "REQUESTED"]
    /\ UNCHANGED <<ledgerVars, debit, checkout, tries, reading, crashes>>

\* The order comes back: row PENDING, session stored, whatever a verification
\* wrote meanwhile.  A unique index that refuses sends the call to its error
\* path, whose own write is refused too.
StoreSession(c) ==
    /\ session[c] = "waiting"
    /\ OrderExists(c)
    /\ TryCheckout(c, "PENDING")
    /\ session' = [session EXCEPT ![c] =
                     IF CheckoutIndexAllows(c, "PENDING") THEN "stored" ELSE "lost"]
    /\ UNCHANGED <<ledgerVars, debit, order, tries, reading, crashes>>

\* INVALID_REQUEST comes back.
RejectOrder(c) ==
    /\ session[c] = "waiting"
    /\ order[c] = "REFUSED"
    /\ SetCheckout(c, "FAILED")
    /\ session' = [session EXCEPT ![c] = "lost"]
    /\ UNCHANGED <<ledgerVars, debit, order, tries, reading, crashes>>

\* Nothing usable comes back, whatever became of the request.
LoseSession(c) ==
    /\ session[c] = "waiting"
    /\ TryCheckout(c, "UNKNOWN")
    /\ session' = [session EXCEPT ![c] = "lost"]
    /\ UNCHANGED <<ledgerVars, debit, order, tries, reading, crashes>>

-----------------------------------------------------------------------------
(* verify *)

\* What the list of payments says.
Found(c) ==
    CASE tries[c].success > 1 -> "paid twice"
      [] tries[c].success = 1 -> "paid"
      [] tries[c].success = 0 /\ tries[c].pending = 0 /\ tries[c].declined > 0 -> "declined"
      [] OTHER -> "open"

\* verify reads the row and lists the payments of its order; an order that the
\* provider does not know is an error.
FetchPayments(c) ==
    /\ checkout[c].status # "NONE"
    /\ OrderExists(c)
    /\ Cardinality(reading[c]) < MaxReads
    /\ reading' = [reading EXCEPT ![c] = @ \cup
          {[found |-> Found(c), settled |-> checkout[c].status = "SUCCESS"]}]
    /\ UNCHANGED <<ledgerVars, debit, checkout, session, order, tries, crashes>>

\* Without a success in the list the order itself is fetched.
FetchOrder(c, r) ==
    /\ r \in reading[c]
    /\ r.found \in {"open", "declined"}
    /\ LET found == CASE order[c] = "EXPIRED" -> "order expired"
                      [] order[c] = "PAID" -> "order paid"
                      [] OTHER -> "order declined" IN
       reading' = [reading EXCEPT ![c] =
          IF order[c] = "ACTIVE" /\ r.found = "open" THEN @ \ {r}
          ELSE (@ \ {r}) \cup {[r EXCEPT !.found = found]}]
    /\ UNCHANGED <<ledgerVars, debit, checkout, session, order, tries, crashes>>

\* One success in the list: the receipt, unless the row has it already.
SettleCheckout(c) ==
    IF checkout[c].status = "SUCCESS" THEN UNCHANGED <<ledgerVars, checkout>>
    ELSE /\ ConfirmProviderPayment(c, checkout[c].amount, checkout[c].for)
         /\ SetCheckout(c, "SUCCESS")

\* Several successes: the row goes to review, unless it was successful when the
\* verification started.
ReviewCheckout(c, r) ==
    /\ IF r.settled THEN SetCheckout(c, "SUCCESS") ELSE TryCheckout(c, "UNKNOWN")
    /\ UNCHANGED ledgerVars

\* The order is over, or all its payments were declined: a successful row stays.
CloseCheckout(c, status) ==
    /\ IF checkout[c].status = "SUCCESS" THEN UNCHANGED checkout
                                         ELSE TryCheckout(c, status)
    /\ UNCHANGED ledgerVars

\* verify writes what it found.
ApplyReading(c, r) ==
    /\ r \in reading[c]
    /\ \/ r.found = "paid" /\ SettleCheckout(c)
       \/ r.found = "paid twice" /\ ReviewCheckout(c, r)
       \/ r.found = "order expired" /\ CloseCheckout(c, "EXPIRED")
       \/ r.found = "order paid" /\ CloseCheckout(c, "UNKNOWN")
       \/ r.found = "order declined" /\ CloseCheckout(c, "FAILED")
    /\ reading' = [reading EXCEPT ![c] = @ \ {r}]
    /\ UNCHANGED <<debit, session, order, tries, crashes>>

\* Faulty: uncertain requests are not looked at.
ReconcilePendingCheckout(c) == checkout[c].status = "PENDING" /\ FetchPayments(c)

\* What reconcileOpen verifies on its own.
ReconcileCheckout(c) == checkout[c].status \in {"UNKNOWN", "PENDING"} /\ FetchPayments(c)

\* Faulty: webhooks of requests that were closed are dropped.
WebhookIfOpen(c) ==
    /\ tries[c].success > 0 /\ checkout[c].status \in ActiveStatus
    /\ FetchPayments(c)

\* The webhook of a successful payment: verified until it is acknowledged, by
\* the provider's redelivery or as a FAILED event of the hourly job.
Webhook(c) == tries[c].success > 0 /\ checkout[c].status # "SUCCESS" /\ FetchPayments(c)

-----------------------------------------------------------------------------
(* The provider, the rider, and restarts *)

OrderBecomes(c, from, to) ==
    /\ order[c] \in from
    /\ \E state \in to : order' = [order EXCEPT ![c] = state]
    /\ UNCHANGED <<ledgerVars, debit, checkout, session, tries, reading, crashes>>

AcceptOrder(c) == OrderBecomes(c, {"REQUESTED"}, {"ACTIVE", "REFUSED"})

LoseOrder(c) == OrderBecomes(c, {"REQUESTED"}, {"ABSENT"})

\* An unpaid order expires; payments under way may still succeed.
ExpireOrder(c) == OrderBecomes(c, {"ACTIVE"}, {"EXPIRED"})

\* The rider tries to pay, more than once if a try is slow or declined.
TryToPay(c) ==
    /\ session[c] = "stored"
    /\ order[c] = "ACTIVE"
    /\ Tried(c) < MaxTries
    /\ tries' = [tries EXCEPT ![c].pending = @ + 1]
    /\ UNCHANGED <<ledgerVars, debit, checkout, session, order, reading, crashes>>

PaymentEnds(c) ==
    /\ tries[c].pending > 0
    /\ \/ /\ tries' = [tries EXCEPT ![c].pending = @ - 1, ![c].success = @ + 1]
          /\ order' = [order EXCEPT ![c] = "PAID"]
       \/ /\ tries' = [tries EXCEPT ![c].pending = @ - 1, ![c].declined = @ + 1]
          /\ UNCHANGED order
    /\ UNCHANGED <<ledgerVars, debit, checkout, session, reading, crashes>>

\* A restart: calls and verifications in progress are gone.
ForgetCheckoutCalls ==
    /\ session' = [c \in Checkouts |->
                     IF session[c] \in {"send", "waiting"} THEN "lost" ELSE session[c]]
    /\ reading' = [c \in Checkouts |-> {}]
    /\ UNCHANGED <<checkout, order, tries>>

-----------------------------------------------------------------------------
CheckoutNext ==
    \E c \in Checkouts :
       \/ \E i \in Invoices : PayInvoice(c, i)
       \/ \E amount \in 1..MaxReceipt : PayOutstanding(c, amount)
       \/ SendOrder(c) \/ StoreSession(c) \/ RejectOrder(c) \/ LoseSession(c)
       \/ FetchPayments(c)
       \/ \E r \in reading[c] : FetchOrder(c, r) \/ ApplyReading(c, r)
       \/ AcceptOrder(c) \/ LoseOrder(c) \/ ExpireOrder(c)
       \/ TryToPay(c) \/ PaymentEnds(c)

CheckoutCrash == Restart /\ ForgetCheckoutCalls /\ UNCHANGED <<ledgerVars, debit>>

CheckoutOffice == OfficeNext /\ UNCHANGED <<checkoutVars, debit, crashes>>

checkoutAllVars == <<ledgerVars, debit, checkoutVars, crashes>>

CheckoutInit == CollectionsInit /\ OrderInit

CheckoutSpec ==
    CheckoutInit /\ [][CheckoutNext \/ CheckoutCrash \/ CheckoutOffice]_checkoutAllVars

\* Webhooks and the hourly job verify, a verification that started goes on, and
\* at the provider payments end and unpaid orders expire.
CheckoutFairness ==
    \A c \in Checkouts :
        /\ WF_checkoutAllVars(ReconcileCheckout(c))
        /\ WF_checkoutAllVars(Webhook(c))
        /\ \A r \in Reading : WF_checkoutAllVars(FetchOrder(c, r))
                              /\ WF_checkoutAllVars(ApplyReading(c, r))
        /\ WF_checkoutAllVars(PaymentEnds(c))
        /\ WF_checkoutAllVars(ExpireOrder(c))

FairCheckoutSpec == CheckoutSpec /\ CheckoutFairness

-----------------------------------------------------------------------------
(* Properties *)

\* Types of the checkout state.
CheckoutTypeOK ==
    /\ checkout \in [Checkouts -> CheckoutRow]
    /\ session \in [Checkouts -> Session]
    /\ order \in [Checkouts -> Order]
    /\ tries \in [Checkouts -> Tries]
    /\ reading \in [Checkouts -> SUBSET Reading]
    /\ crashes \in 0..MaxCrashes

\* An order that is paid once is credited in the end, also when its row was
\* closed as expired or declined before the payment arrived, and also after the
\* invoice was voided or paid by other means (the rest stays unallocated).
PaidCheckoutIsCredited ==
    \A c \in Checkouts :
        tries[c].success = 1 ~> (Recorded(c) \/ tries[c].success > 1)

\* A request whose order exists does not stay in progress for ever, which would
\* keep every other collection off its invoices: it closes or was paid twice and
\* waits for review.
CheckoutCloses ==
    \A c \in Checkouts :
        OrderExists(c) /\ checkout[c].status \in {"PENDING", "UNKNOWN"}
            ~> (checkout[c].status \notin ActiveStatus \/ tries[c].success > 1)

=============================================================================

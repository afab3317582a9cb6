---------------------------- MODULE MandateLifecycle ----------------------------
(***************************************************************************)
(* AutoPay mandates of one rider at Cashfree.  The row of a mandate is     *)
(* created before the provider is asked; afterwards rider, webhook and     *)
(* retries fetch the mandate and apply the answer in a transaction that    *)
(* reads the row, writes it and sets the AutoPay flag of the rider's       *)
(* payment profile.  The transaction is READ COMMITTED: what it read may   *)
(* be old when it writes; from its write to its commit it locks the row.   *)
(*                                                                         *)
(*   mandate[m]   the PaymentMandate row;                                  *)
(*   profile      RiderPaymentProfile.autoPayEnabled;                      *)
(*   creating[m]  how far the request that created m got;                  *)
(*   remote[m]    the subscription at the provider;                        *)
(*   granted      mandates that the rider approved at the bank;            *)
(*   past         mandates whose expiresAt is over;                        *)
(*   call[k]      a call in progress that will write a row.                *)
(*                                                                         *)
(* AUTHORIZATION_PENDING is treated like CREATED everywhere, and CREATED   *)
(* stands for both.                                                        *)
(***************************************************************************)
EXTENDS FiniteSets

CONSTANTS
    Mandates,   \* ids of PaymentMandate rows of the rider
    Calls       \* slots for calls in progress: bounds how many overlap

VARIABLES mandate, profile, creating, remote, granted, past, call

rowVars == <<mandate, profile>>
bankVars == <<remote, granted, past>>
mandateVars == <<rowVars, creating, bankVars, call>>

Expirable == {"CREATED", "ACTIVE", "PAUSED"}
openStatuses == Expirable \cup {"CREATING", "UNKNOWN"}
Terminal == {"CANCELLED", "FAILED", "EXPIRED"}
MandateStatus == openStatuses \cup Terminal
Remote == Expirable \cup Terminal \cup {"ABSENT", "REQUESTED", "REFUSED"}
Step == {"idle", "toggle", "fetched", "read", "locked"}

\* A call knows what the provider answered, later the status it will write.
Idle == [step |-> "idle", of |-> {}, status |-> "UNKNOWN",
         active |-> FALSE, create |-> FALSE]
Call == [step : Step, of : SUBSET Mandates, status : MandateStatus,
         active : BOOLEAN, create : BOOLEAN]

MandateInit ==
    /\ mandate = [m \in Mandates |-> [status |-> "NONE", autoDebit |-> TRUE]]
    /\ profile = FALSE
    /\ creating = [m \in Mandates |-> "none"]
    /\ remote = [m \in Mandates |-> "ABSENT"]
    /\ granted = {}
    /\ past = {}
    /\ call = [k \in Calls |-> Idle]

Open(m) == mandate[m].status \in openStatuses
OtherOpen(m) == \E n \in Mandates \ {m} : Open(n)
Debitable(m) == mandate[m].status = "ACTIVE" /\ mandate[m].autoDebit
Unlocked(m) == \A k \in Calls : m \in call[k].of => call[k].step # "locked"
SetStatus(m, status) == mandate' = [mandate EXCEPT ![m].status = status]
SetCall(k, value) == call' = [call EXCEPT ![k] = value]

\* A status the provider answers for m; what the mapper does not know is UNKNOWN.
Replies(m) ==
    CASE remote[m] \in Expirable -> {remote[m], "UNKNOWN"}
      [] remote[m] \in Terminal -> {remote[m]}
      [] OTHER -> {}

Fetched(k, m, answer, create) ==
    /\ call[k] = Idle
    /\ SetCall(k, [step |-> "fetched", of |-> {m}, status |-> answer,
                   active |-> FALSE, create |-> create])

-----------------------------------------------------------------------------
(* create *)

\* The row is inserted.  The guards of create let expired mandates pass; the
\* unique index PaymentMandate_one_open_per_rider does not.
CreateMandate(m) ==
    /\ mandate[m].status = "NONE"
    /\ \A n \in Mandates : ~Open(n)
    /\ SetStatus(m, "CREATING")
    /\ creating' = [creating EXCEPT ![m] = "send"]
    /\ UNCHANGED <<profile, bankVars, call>>

SendCreate(m) ==
    /\ creating[m] = "send"
    /\ creating' = [creating EXCEPT ![m] = "waiting"]
    /\ remote' = [remote EXCEPT ![m] = "REQUESTED"]
    /\ UNCHANGED <<rowVars, granted, past, call>>

\* Faulty: a mandate that is said to be active at once is not fetched again.
ReceiveCreateTrusting(m, k) ==
    /\ creating[m] = "waiting"
    /\ remote[m] \in Expirable \cup Terminal
    /\ \E answer \in {"CREATED", "ACTIVE"} : Fetched(k, m, answer, TRUE)
    /\ creating' = [creating EXCEPT ![m] = "done"]
    /\ UNCHANGED <<rowVars, bankVars>>

\* createMandate returns; the status of a mandate said to be active is fetched.
ReceiveCreate(m, k) ==
    /\ creating[m] = "waiting"
    /\ remote[m] \in Expirable \cup Terminal
    /\ \E answer \in {"CREATED"} \cup Replies(m) : Fetched(k, m, answer, TRUE)
    /\ creating' = [creating EXCEPT ![m] = "done"]
    /\ UNCHANGED <<rowVars, bankVars>>

\* createMandate is answered INVALID_REQUEST.
RecordCreateRejected(m) ==
    /\ creating[m] = "waiting"
    /\ remote[m] = "REFUSED"
    /\ Unlocked(m)
    /\ SetStatus(m, "FAILED")
    /\ creating' = [creating EXCEPT ![m] = "done"]
    /\ UNCHANGED <<profile, bankVars, call>>

\* Faulty: a request without an answer counts as refused.
RecordCreateUncertainAsFailed(m) ==
    /\ creating[m] = "waiting"
    /\ Unlocked(m)
    /\ SetStatus(m, "FAILED")
    /\ creating' = [creating EXCEPT ![m] = "done"]
    /\ UNCHANGED <<profile, bankVars, call>>

\* UNKNOWN, over whatever the row says by now, unless the index forbids it.
SetUnknown(m) ==
    IF OtherOpen(m) THEN UNCHANGED mandate ELSE SetStatus(m, "UNKNOWN")

\* It fails otherwise.
RecordCreateUncertain(m) ==
    /\ creating[m] = "waiting"
    /\ Unlocked(m)
    /\ SetUnknown(m)
    /\ creating' = [creating EXCEPT ![m] = "done"]
    /\ UNCHANGED <<profile, bankVars, call>>

\* The answer of createMandate could not be applied: UNKNOWN as well.
FailApply(k) ==
    /\ call[k].create
    /\ \E m \in call[k].of :
          /\ call[k].step = "locked" \/ Unlocked(m)
          /\ SetUnknown(m)
    /\ SetCall(k, Idle)
    /\ UNCHANGED <<profile, creating, bankVars>>

-----------------------------------------------------------------------------
(* verify, reconcileStored, webhook and create with the key of a mandate that  *)
(* is undecided; cancel and manage                                             *)

Fetch(m, k) ==
    /\ mandate[m].status # "NONE"
    /\ \E answer \in Replies(m) : Fetched(k, m, answer, FALSE)
    /\ UNCHANGED <<rowVars, creating, bankVars>>

\* The provider does as told and answers the new status.
Tell(m, k, from, to) ==
    /\ remote[m] \in from
    /\ remote' = [remote EXCEPT ![m] = to]
    /\ Fetched(k, m, to, FALSE)
    /\ UNCHANGED <<rowVars, creating, granted, past>>

Cancel(m, k) ==
    mandate[m].status \notin {"NONE", "CANCELLED"} /\ Tell(m, k, Expirable, "CANCELLED")

Pause(m, k) == mandate[m].status = "ACTIVE" /\ Tell(m, k, {"ACTIVE"}, "PAUSED")

Resume(m, k) == mandate[m].status = "PAUSED" /\ Tell(m, k, {"PAUSED"}, "ACTIVE")

\* Any call may be lost: an error, a timeout, a restart.
LoseCall(k) ==
    /\ call[k].step # "idle"
    /\ SetCall(k, Idle)
    /\ UNCHANGED <<rowVars, creating, bankVars>>

\* The process stops between the insert and the end of the request.
LoseCreate(m) ==
    /\ creating[m] \in {"send", "waiting"}
    /\ creating' = [creating EXCEPT ![m] = "done"]
    /\ UNCHANGED <<rowVars, bankVars, call>>

-----------------------------------------------------------------------------
(* applyProviderResult *)

\* The status a row takes: terminal ones stay, ACTIVE ignores less.
Accepted(current, incoming) ==
    IF \/ current \in Terminal
       \/ current = "ACTIVE" /\ incoming \in {"CREATED", "UNKNOWN"}
    THEN current
    ELSE incoming

\* The transaction reads the row and decides what to write.
ReadRow(k) ==
    /\ call[k].step = "fetched"
    /\ \E m \in call[k].of :
          SetCall(k, [call[k] EXCEPT !.step = "read",
                                     !.status = Accepted(mandate[m].status, @)])
    /\ UNCHANGED <<rowVars, creating, bankVars>>

KeepsDebit(m, status) == mandate[m].autoDebit /\ status \notin Terminal

\* The row is written, not yet committed, and the other mandates are looked up.
LockRow(k) ==
    /\ call[k].step = "read"
    /\ \E m \in call[k].of :
          /\ Unlocked(m)
          /\ SetCall(k, [call[k] EXCEPT
                !.step = "locked",
                !.active = \/ call[k].status = "ACTIVE" /\ KeepsDebit(m, "ACTIVE")
                           \/ \E n \in Mandates \ {m} : Debitable(n)])
    /\ UNCHANGED <<rowVars, creating, bankVars>>

\* The profile is written and the transaction commits, unless the row would be
\* a second open one.
CommitRow(k) ==
    /\ call[k].step = "locked"
    /\ \E m \in call[k].of :
          LET status == call[k].status
          IN IF status \in openStatuses /\ OtherOpen(m)
             THEN UNCHANGED rowVars
             ELSE /\ mandate' = [mandate EXCEPT ![m] =
                        [status |-> status, autoDebit |-> KeepsDebit(m, status)]]
                  /\ profile' = call[k].active
    /\ SetCall(k, Idle)
    /\ UNCHANGED <<creating, bankVars>>

-----------------------------------------------------------------------------
(* setLocalEnabled: the active mandate is looked up, then written by its id *)

ReadToggle(m, k, enabled) ==
    /\ mandate[m].status = "ACTIVE"
    /\ call[k] = Idle
    /\ SetCall(k, [step |-> "toggle", of |-> {m}, status |-> "UNKNOWN",
                   active |-> enabled, create |-> FALSE])
    /\ UNCHANGED <<rowVars, creating, bankVars>>

WriteToggle(k) ==
    /\ call[k].step = "toggle"
    /\ \E m \in call[k].of :
          /\ Unlocked(m)
          /\ mandate' = [mandate EXCEPT ![m].autoDebit = call[k].active]
    /\ profile' = call[k].active
    /\ SetCall(k, Idle)
    /\ UNCHANGED <<creating, bankVars>>

-----------------------------------------------------------------------------
(* expireMandates *)

\* Faulty: paused mandates are not looked at.
ExpireActive(m) ==
    /\ m \in past
    /\ mandate[m].status \in Expirable \ {"PAUSED"}
    /\ Unlocked(m)
    /\ mandate' = [mandate EXCEPT ![m] = [status |-> "EXPIRED", autoDebit |-> FALSE]]
    /\ profile' = FALSE
    /\ UNCHANGED <<creating, bankVars, call>>

\* The update is conditional on the status that was read.
ExpireMandate(m) ==
    /\ m \in past
    /\ mandate[m].status \in Expirable
    /\ Unlocked(m)
    /\ mandate' = [mandate EXCEPT ![m] = [status |-> "EXPIRED", autoDebit |-> FALSE]]
    /\ profile' = FALSE
    /\ UNCHANGED <<creating, bankVars, call>>

-----------------------------------------------------------------------------
(* The provider, the bank and the clock *)

Becomes(m, from, to) ==
    /\ remote[m] \in from
    /\ \E state \in to : remote' = [remote EXCEPT ![m] = state]
    /\ UNCHANGED <<rowVars, creating, granted, past, call>>

AcceptCreate(m) == Becomes(m, {"REQUESTED"}, {"CREATED", "REFUSED"})

LoseRequest(m) == Becomes(m, {"REQUESTED"}, {"ABSENT"})

\* The rider approves the mandate, or does not.
Authorize(m) ==
    \/ Becomes(m, {"CREATED"}, {"FAILED"})
    \/ /\ remote[m] = "CREATED"
       /\ remote' = [remote EXCEPT ![m] = "ACTIVE"]
       /\ granted' = granted \cup {m}
       /\ UNCHANGED <<rowVars, creating, past, call>>

\* The rider manages the mandate in a bank's app.
ManageAtBank(m) ==
    \/ Becomes(m, {"ACTIVE"}, {"PAUSED"})
    \/ Becomes(m, {"PAUSED"}, {"ACTIVE"})
    \/ Becomes(m, {"ACTIVE", "PAUSED"}, {"CANCELLED"})

RunOut(m) ==
    /\ mandate[m].status # "NONE"
    /\ past' = past \cup {m}
    /\ UNCHANGED <<rowVars, creating, remote, granted, call>>

ExpireRemote(m) == m \in past /\ Becomes(m, Expirable, {"EXPIRED"})

-----------------------------------------------------------------------------
MandateNext ==
    \/ \E m \in Mandates :
          \/ CreateMandate(m) \/ SendCreate(m) \/ RecordCreateRejected(m)
          \/ RecordCreateUncertain(m) \/ LoseCreate(m) \/ ExpireMandate(m)
          \/ AcceptCreate(m) \/ LoseRequest(m) \/ Authorize(m) \/ ManageAtBank(m)
          \/ RunOut(m) \/ ExpireRemote(m)
    \/ \E m \in Mandates, k \in Calls :
          \/ ReceiveCreate(m, k) \/ Fetch(m, k)
          \/ Cancel(m, k) \/ Pause(m, k) \/ Resume(m, k)
          \/ \E enabled \in BOOLEAN : ReadToggle(m, k, enabled)
    \/ \E k \in Calls :
          \/ ReadRow(k) \/ LockRow(k) \/ CommitRow(k) \/ WriteToggle(k)
          \/ FailApply(k) \/ LoseCall(k)

MandateSpec == MandateInit /\ [][MandateNext]_mandateVars

\* A transaction that holds a row commits or is rolled back.
EndTransaction(k) == call[k].step = "locked" /\ (CommitRow(k) \/ LoseCall(k))

\* The hourly job runs and gets the row it waits for in its turn; the provider
\* ends mandates at their time.
FairMandateSpec ==
    /\ MandateSpec
    /\ \A m \in Mandates :
          SF_mandateVars(ExpireMandate(m)) /\ WF_mandateVars(ExpireRemote(m))
    /\ \A k \in Calls : WF_mandateVars(EndTransaction(k))

-----------------------------------------------------------------------------
(* Properties *)

\* Types of the mandate state.
MandateTypeOK ==
    /\ mandate \in [Mandates -> [status : MandateStatus \cup {"NONE"}, autoDebit : BOOLEAN]]
    /\ profile \in BOOLEAN
    /\ creating \in [Mandates -> {"none", "send", "waiting", "done"}]
    /\ remote \in [Mandates -> Remote]
    /\ granted \in SUBSET Mandates
    /\ past \in SUBSET Mandates
    /\ call \in [Calls -> Call]

\* Mandates that can be charged at the provider, now or after all.
MayCharge(m) == creating[m] = "send" \/ remote[m] \in Expirable \cup {"REQUESTED"}

\* A rider never has two mandates at the provider that are within their term:
\* neither a lost answer nor a stale transaction closes the row of one that the
\* provider may still honour (create, lines 288-381; applyProviderResult).
OneMandateInForce ==
    \A m, n \in Mandates \ past : MayCharge(m) /\ MayCharge(n) => m = n

\* Debits need the rider's approval: a row is never ACTIVE or PAUSED for a
\* mandate that was not granted at the bank, whatever creation was answered and
\* whatever was read too early (lines 345-351, 396-411).
ActiveIsGranted ==
    \A m \in Mandates : mandate[m].status \in {"ACTIVE", "PAUSED"} => m \in granted

\* A mandate whose term is over ends up closed, unless its creation was never
\* decided, and no stale transaction brings it back for good (expireMandates).
ExpiredMandateEnds ==
    \A m \in Mandates : m \in past ~> [](mandate[m].status \notin Expirable)
=============================================================================

--------------------------- MODULE NotificationOutbox ---------------------------
(***************************************************************************)
(* Messages, their deliveries and the workers of the API instances that    *)
(* send them.  A worker claims a batch under a lease of two minutes, reads *)
(* it, sends it to Firebase against a timer of 45 seconds, and records each*)
(* result where the claim is still its own.  It may stop anywhere, and may *)
(* outlive its lease.                                                      *)
(*                                                                         *)
(*   message[m]   a NotificationMessage; waiting are the recipients whose  *)
(*                devices are not yet looked up (expandedAt is null);      *)
(*   delivery[d]  the PushDelivery of d = <<message, user, installation>>; *)
(*   gate         PushDispatchState: its claim, 0 when no lease is held;   *)
(*   worker[w]    its claim, the rows it has read with their tokens and    *)
(*                versions, and Firebase's answers;                        *)
(*   expired      messages past pushExpiresAt;                             *)
(*   configured   Firebase credentials exist.                              *)
(*                                                                         *)
(* A row or gate that is lapsed has a leaseUntil that is over.  A claim is *)
(* any number that no row, gate or worker has.                             *)
(* Delays are choices: any rows that wait may be the due ones, and an      *)
(* attempted row may at any time be the one whose hour of retries is over. *)
(***************************************************************************)
EXTENDS PushDevices, FiniteSetsExt

CONSTANTS Messages, Workers,
    MaxAttempts,    \* PUSH_MAX_ATTEMPTS
    BatchSize       \* PUSH_BATCH_SIZE

ASSUME OutboxAssumption ==
    /\ MaxAttempts \in Nat \ {0} /\ BatchSize \in Nat \ {0}
    /\ IsFiniteSet(Messages) /\ IsFiniteSet(Users) /\ IsFiniteSet(Installs)
    /\ IsFiniteSet(Workers)

VARIABLES message, delivery, gate, worker, expired, configured

outboxVars == <<message, delivery, gate, worker, expired, configured>>
allVars == <<deviceVars, outboxVars>>

Deliveries == Messages \X Users \X Installs
activeStatuses == {"PENDING", "PROCESSING", "RETRY"}
finalStatuses == {"COMPLETED", "PARTIAL", "FAILED"}
NoLease == [claim |-> 0, lapsed |-> FALSE]
Idle == [claim |-> 0, read |-> FALSE, rows |-> <<>>, answer |-> <<>>]

OutboxInit ==
    /\ DevicesInit
    /\ message = [m \in Messages |-> [status |-> "NONE", waiting |-> {}]]
    /\ delivery = [d \in Deliveries |-> [status |-> "NONE", version |-> 0, attempts |-> 0,
                                       claim |-> 0, lapsed |-> FALSE]]
    /\ gate = NoLease
    /\ worker = [w \in Workers |-> Idle]
    /\ expired = {}
    /\ configured \in BOOLEAN

Of(m) == {d \in Deliveries : d[1] = m}
In(statuses) == {d \in Deliveries : delivery[d].status \in statuses}
Lapsed(d) == delivery[d].lapsed

\* delivery after the rows in ended are closed with a status.
Ended(rows, ended, status) ==
    [d \in Deliveries |-> IF d \in ended
                          THEN [rows[d] EXCEPT !.status = status, !.claim = 0, !.lapsed = FALSE]
                          ELSE rows[d]]

-----------------------------------------------------------------------------
\* enqueueInTransaction: the audience is resolved once; a key used before returns
\* the old message.
Enqueue(m, audience) ==
    /\ message[m].status = "NONE" /\ audience # {}
    /\ message' = [message EXCEPT ![m] = [status |-> "QUEUED", waiting |-> audience]]
    /\ UNCHANGED <<deviceVars, delivery, gate, worker, expired, configured>>

Reachable(i, u) ==
    /\ device[i].active /\ device[i].user = {u}
    /\ \A s \in device[i].session : Live(s) /\ session[s].user = {u}

ExpandRecipients(w, m, u) ==
    /\ worker[w] = Idle /\ u \in message[m].waiting
    /\ message' = [message EXCEPT ![m].waiting = @ \ {u}]
    /\ delivery' = [d \in Deliveries |->
            IF d[1] = m /\ d[2] = u /\ Reachable(d[3], u)
            THEN [delivery[d] EXCEPT !.status = "PENDING", !.version = device[d[3]].version]
            ELSE delivery[d]]
    /\ UNCHANGED <<deviceVars, gate, worker, expired, configured>>

-----------------------------------------------------------------------------
(* claim *)

Overdue == {d \in In(activeStatuses) : d[1] \in expired}
Exhausted == {d \in In({"PROCESSING"}) \ Overdue : Lapsed(d) /\ delivery[d].attempts >= MaxAttempts}
Waiting == In({"PENDING", "RETRY"}) \cup {e \in In({"PROCESSING"}) : Lapsed(e)}

\* Rows that may be past their hour of retries.
Attempted == {d \in Waiting \ (Overdue \cup Exhausted) : delivery[d].attempts > 0}

Due(old) == {d \in Waiting \ (Overdue \cup Exhausted \cup old) : delivery[d].attempts < MaxAttempts}

Swept(old) == Ended(Ended(delivery, Overdue, "SKIPPED"), Exhausted \cup old, "FAILED")

\* Faulty: a lease is only given up, never over.
GateFree == gate.claim = 0

GateOpen == gate.claim = 0 \/ gate.lapsed

Claims == 1..(Cardinality(Deliveries) + Cardinality(Workers) + 1)
UsedClaims == {gate.claim} \cup {delivery[d].claim : d \in Deliveries} \cup {worker[w].claim : w \in Workers}
FreshClaim == Min(Claims \ UsedClaims)

ClaimBatch(w, old, batch) ==
    /\ configured /\ worker[w] = Idle /\ GateOpen
    /\ batch \subseteq Due(old) /\ batch # {} /\ Cardinality(batch) <= BatchSize
    /\ gate' = [claim |-> FreshClaim, lapsed |-> FALSE]
    /\ delivery' = [d \in Deliveries |->
            IF d \in batch
            THEN [Swept(old)[d] EXCEPT !.status = "PROCESSING", !.claim = FreshClaim,
                                       !.lapsed = FALSE, !.attempts = @ + 1]
            ELSE Swept(old)[d]]
    /\ worker' = [worker EXCEPT ![w].claim = FreshClaim]
    /\ UNCHANGED <<deviceVars, message, expired, configured>>

\* Nothing is due: the transaction still commits what it closed.
ClaimNothing(w, old) ==
    /\ configured /\ worker[w] = Idle /\ GateOpen
    /\ Due(old) = {} /\ Swept(old) # delivery
    /\ delivery' = Swept(old)
    /\ UNCHANGED <<deviceVars, message, gate, worker, expired, configured>>

Claim(w) ==
    \E old \in SUBSET Attempted :
        ClaimNothing(w, old) \/ \E batch \in SUBSET Waiting : ClaimBatch(w, old, batch)

-----------------------------------------------------------------------------
(* dispatch *)

Mine(w) == {d \in In({"PROCESSING"}) : delivery[d].claim = worker[w].claim}

Sendable(d) ==
    /\ d[1] \notin expired
    /\ Reachable(d[3], d[2])
    /\ device[d[3]].version = delivery[d].version

\* Rows that can not be sent are closed, each under the claim.
ReadBatch(w) ==
    /\ worker[w].claim # 0 /\ ~worker[w].read
    /\ worker' = [worker EXCEPT ![w].read = TRUE,
            ![w].rows = [d \in {e \in Mine(w) : Sendable(e)} |->
                            [token |-> device[d[3]].token, version |-> device[d[3]].version]]]
    /\ delivery' = Ended(delivery, {e \in Mine(w) : ~Sendable(e)}, "SKIPPED")
    /\ UNCHANGED <<deviceVars, message, gate, expired, configured>>

\* External: what Firebase may say of one token.  RETRYABLE is also the timer, an
\* exception and a missing answer, after which the message may still arrive.
Answers(token) ==
    IF token \subseteq dead THEN {"INVALID", "RETRYABLE"}
    ELSE {"ACCEPTED", "REFUSED", "RETRYABLE"}

SendBatch(w) ==
    LET rows == worker[w].rows IN
    /\ worker[w].read
    /\ rows # <<>> /\ worker[w].answer = <<>>
    /\ \E answer \in [DOMAIN rows -> {"ACCEPTED", "REFUSED", "RETRYABLE", "INVALID"}] :
        /\ \A d \in DOMAIN rows : answer[d] \in Answers(rows[d].token)
        /\ worker' = [worker EXCEPT ![w].answer = answer]
    /\ UNCHANGED <<deviceVars, message, delivery, gate, expired, configured>>

ResultStatus(w, d) ==
    LET answer == worker[w].answer[d] IN
    IF answer = "ACCEPTED" THEN {"ACCEPTED"}
    ELSE IF answer = "RETRYABLE" /\ delivery[d].attempts < MaxAttempts
    THEN {"RETRY", "FAILED"} ELSE {"FAILED"}

\* Faulty: the installation is switched off whatever it has registered since.
StaleInvalid(w, d) == worker[w].answer[d] = "INVALID"

\* The device still has the token and version that were sent to.
TokenInvalid(w, d) ==
    LET row == worker[w].rows[d] IN
    /\ worker[w].answer[d] = "INVALID"
    /\ device[d[3]].version = row.version /\ device[d[3]].token = row.token

\* Faulty: the claim is not part of the condition.
RecordUnclaimed(w, d) == delivery[d].status = "PROCESSING"

Recordable(w, d) == d \in Mine(w)

RecordResult(w, d) ==
    /\ d \in DOMAIN worker[w].answer
    /\ \E status \in ResultStatus(w, d) :
          delivery' = Ended(delivery, IF Recordable(w, d) THEN {d} ELSE {}, status)
    /\ device' = SwitchedOff(IF Recordable(w, d) /\ TokenInvalid(w, d) THEN {d[3]} ELSE {},
                             "TOKEN_UNREGISTERED_BY_FIREBASE")
    /\ LET rest == DOMAIN worker[w].answer \ {d} IN
       worker' = [worker EXCEPT ![w].answer = [e \in rest |-> @[e]],
                                ![w].rows = [e \in rest |-> @[e]]]
    /\ UNCHANGED <<session, dead, message, gate, expired, configured>>

\* The finally block, after the last result or after a failed statement.
Release(w) ==
    /\ worker[w].claim # 0
    /\ worker' = [worker EXCEPT ![w] = Idle]
    /\ gate' = IF gate.claim = worker[w].claim THEN NoLease ELSE gate
    /\ UNCHANGED <<deviceVars, message, delivery, expired, configured>>

\* The process stops: its lease stays until it is over.
StopWorker(w) ==
    /\ worker[w] # Idle
    /\ worker' = [worker EXCEPT ![w] = Idle]
    /\ UNCHANGED <<deviceVars, message, delivery, gate, expired, configured>>

-----------------------------------------------------------------------------
\* Faulty: a message with waiting recipients counts as done.
ProgressOfRows(m, rows) ==
    LET has(statuses) == \E d \in Of(m) : rows[d].status \in statuses IN
    CASE has(activeStatuses) -> IF configured THEN "PROCESSING" ELSE "WAITING_FOR_CONFIGURATION"
      [] ~has(activeStatuses) /\ has({"FAILED", "SKIPPED"}) ->
            IF has({"ACCEPTED"}) THEN "PARTIAL" ELSE "FAILED"
      [] OTHER -> "COMPLETED"

Progress(m, rows) ==
    LET has(statuses) == \E d \in Of(m) : rows[d].status \in statuses IN
    IF message[m].waiting # {} THEN "PROCESSING"
    ELSE IF has(activeStatuses)
    THEN IF configured THEN "PROCESSING" ELSE "WAITING_FOR_CONFIGURATION"
    ELSE IF has({"FAILED", "SKIPPED"})
    THEN IF has({"ACCEPTED"}) THEN "PARTIAL" ELSE "FAILED"
    ELSE "COMPLETED"

Followed(m) ==
    \/ message[m].status \in {"QUEUED", "PROCESSING"}
    \/ message[m].status = "WAITING_FOR_CONFIGURATION" /\ (configured \/ m \in expired)

FinishMessages(w) ==
    LET rows == Ended(delivery, Overdue, "SKIPPED") IN
    /\ worker[w] = Idle
    /\ delivery' = rows
    /\ message' = [m \in Messages |-> IF Followed(m)
                        THEN [message[m] EXCEPT !.status = Progress(m, rows)] ELSE message[m]]
    /\ UNCHANGED <<deviceVars, gate, worker, expired, configured>>

-----------------------------------------------------------------------------
(* The clock and the operator *)

LeaseLapses(c) ==
    /\ gate' = IF gate.claim = c THEN [gate EXCEPT !.lapsed = TRUE] ELSE gate
    /\ delivery' = [d \in Deliveries |-> IF delivery[d].claim = c
                        THEN [delivery[d] EXCEPT !.lapsed = TRUE] ELSE delivery[d]]
    /\ <<gate, delivery>>' # <<gate, delivery>>
    /\ UNCHANGED <<deviceVars, message, worker, expired, configured>>

MessageExpires(m) ==
    /\ message[m].status # "NONE"
    /\ expired' = expired \cup {m}
    /\ UNCHANGED <<deviceVars, message, delivery, gate, worker, configured>>

Configure ==
    /\ configured' = TRUE
    /\ UNCHANGED <<deviceVars, message, delivery, gate, worker, expired>>

-----------------------------------------------------------------------------
WorkerNext(w) ==
    \/ \E m \in Messages, u \in Users : ExpandRecipients(w, m, u)
    \/ Claim(w)
    \/ ReadBatch(w)
    \/ \E d \in Deliveries : RecordResult(w, d)
    \/ SendBatch(w)
    \/ Release(w) \/ StopWorker(w) \/ FinishMessages(w)

OutboxNext ==
    \/ DevicesNext /\ UNCHANGED outboxVars
    \/ \E m \in Messages : (\E audience \in SUBSET Users : Enqueue(m, audience)) \/ MessageExpires(m)
    \/ \E w \in Workers : WorkerNext(w)
    \/ \E c \in Claims : LeaseLapses(c)
    \/ Configure

OutboxSpec == OutboxInit /\ [][OutboxNext]_allVars

\* The timer calls every worker again, a send ends by its own timer, leases lapse.
OutboxFairness ==
    /\ WF_allVars(\E w \in Workers, m \in Messages, u \in Users : ExpandRecipients(w, m, u))
    /\ WF_allVars(\E w \in Workers : Claim(w))
    /\ WF_allVars(\E w \in Workers : FinishMessages(w))
    /\ \A w \in Workers : WF_allVars(Release(w))
    /\ WF_allVars(\E c \in Claims : LeaseLapses(c))

FairOutboxSpec == OutboxSpec /\ OutboxFairness

-----------------------------------------------------------------------------
(* Properties *)

\* Types of the outbox, and who may hold a claim.
OutboxTypeOK ==
    /\ message \in [Messages -> [status : {"NONE", "QUEUED", "PROCESSING", "WAITING_FOR_CONFIGURATION"}
                                            \cup finalStatuses, waiting : SUBSET Users]]
    /\ delivery \in [Deliveries -> [status : {"NONE", "ACCEPTED", "FAILED", "SKIPPED"} \cup activeStatuses,
                                    version : 0..MaxVersion, attempts : Nat, claim : {0} \cup Claims,
                                    lapsed : BOOLEAN]]
    /\ \A d \in Deliveries : delivery[d].claim # 0 <=> delivery[d].status = "PROCESSING"
    /\ \A v, w \in Workers : worker[v].claim = worker[w].claim /\ worker[v].claim # 0 => v = w

\* While its lease lasts a worker is the only one to decide about its rows: no
\* worker that has outlived an earlier lease makes the result be dropped and the
\* push be sent again (lines 215-337); only pushExpiresAt closes them.
LeaseProtects ==
    \A w \in Workers :
        gate.claim = worker[w].claim /\ ~gate.lapsed =>
            \A d \in DOMAIN worker[w].rows : d \in Mine(w) \/ d[1] \in expired

\* notification.worker line 355: "A failed old token must never disable a replacement
\* token registered during the send": a device that Firebase's answer switched off
\* holds a token that Firebase no longer knows.
OnlyDeadTokensGo ==
    \A i \in Installs :
        device[i].reason = "TOKEN_UNREGISTERED_BY_FIREBASE" => device[i].token \subseteq dead

\* Line 371: a broadcast never appears complete while another worker expands its
\* recipients: a final status stands for what all deliveries became, for good.
FinalStatusIsTrue ==
    \A m \in Messages :
        message[m].status \in finalStatuses =>
            message[m].status = Progress(m, delivery) /\ message[m].waiting = {}

\* With Firebase configured every message reaches a final status, though workers stop
\* in the middle, requests time out and every attempt may fail.
MessageFinishes ==
    \A m \in Messages :
        (configured /\ message[m].status # "NONE") ~> (message[m].status \in finalStatuses)
=============================================================================

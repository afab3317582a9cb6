----------------------------- MODULE OutboxProofs -----------------------------
(***************************************************************************)
(* The outbox, for any messages, users, installations, workers, attempts   *)
(* and batches.  A claim is in use nowhere when it is taken (ClaimIsFresh, *)
(* by counting), so the rows under a claim are those of the one worker that*)
(* has it or of nobody; a lease runs out at the gate and on its rows at the*)
(* same time (LeaseIsOne); a row exists only after its recipient stopped   *)
(* waiting (Expanded).                                                     *)
(*                                                                         *)
(* Attempts are counted before they are made (TriesFit), so no push is     *)
(* sent too often; a row that is not final has a way on (RowsGoOn).        *)
(***************************************************************************)
EXTENDS NotificationOutbox, SumTheorems

DeviceReason == {"NONE", "OFF", "TOKEN_UNREGISTERED_BY_FIREBASE"}
DeviceRow ==
    [user : SUBSET Users, session : SUBSET Sessions, token : SUBSET Tokens,
     version : 0..MaxVersion, active : BOOLEAN, reason : DeviceReason]

LoginStatus == {"NONE", "LIVE", "CONSUMED", "REVOKED"}

DevicesInv ==
    /\ session \in [Sessions -> [user : SUBSET Users, status : LoginStatus]]
    /\ device \in [Installs -> DeviceRow]
    /\ dead \subseteq Tokens
    /\ OnlyDeadTokensGo

MessageRow ==
    [status : {"NONE", "QUEUED", "PROCESSING", "WAITING_FOR_CONFIGURATION"} \cup finalStatuses,
     waiting : SUBSET Users]
DeliveryStatus == {"NONE", "ACCEPTED", "FAILED", "SKIPPED"} \cup activeStatuses
DeliveryRow ==
    [status : DeliveryStatus, version : 0..MaxVersion, attempts : Nat,
     claim : {0} \cup Claims, lapsed : BOOLEAN]

RowsClaimed(rows) == \A d \in Deliveries : rows[d].claim # 0 <=> rows[d].status = "PROCESSING"

\* A delivery comes from a recipient that does not wait any more.
Expanded ==
    \A m \in Messages :
        /\ message[m].waiting # {} => message[m].status # "NONE"
        /\ \A d \in Of(m) : delivery[d].status # "NONE" =>
              message[m].status # "NONE" /\ d[2] \notin message[m].waiting

RowsInv ==
    /\ message \in [Messages -> MessageRow]
    /\ delivery \in [Deliveries -> DeliveryRow]
    /\ RowsClaimed(delivery)
    /\ Expanded
    /\ FinalStatusIsTrue

\* The functions on some deliveries.
Partial(R) == UNION {[S -> R] : S \in SUBSET Deliveries}

WorkerRow ==
    [claim : {0} \cup Claims, read : BOOLEAN,
     rows : Partial([token : SUBSET Tokens, version : 0..MaxVersion]),
     answer : Partial({"ACCEPTED", "REFUSED", "RETRYABLE", "INVALID"})]

\* What a worker has: nothing without a claim, rows that it has read, answers for
\* these, and INVALID only for tokens that are dead.
WorkerInv(w) ==
    /\ worker[w] \in WorkerRow
    /\ worker[w].claim = 0 => worker[w] = Idle
    /\ ~worker[w].read => worker[w].rows = <<>>
    /\ DOMAIN worker[w].answer \subseteq DOMAIN worker[w].rows
    /\ \A d \in DOMAIN worker[w].answer :
          worker[w].answer[d] = "INVALID" => worker[w].rows[d].token \subseteq dead

ClaimsApart ==
    \A v, w \in Workers : worker[v].claim = worker[w].claim /\ worker[v].claim # 0 => v = w

WorkersInv ==
    /\ worker \in [Workers -> WorkerRow]
    /\ \A w \in Workers : WorkerInv(w)
    /\ ClaimsApart

\* A lease runs out at the gate and on its rows at the same time.
LeaseIsOne ==
    gate.claim # 0 =>
        \A d \in Deliveries : delivery[d].claim = gate.claim => (Lapsed(d) <=> gate.lapsed)

LeaseInv ==
    /\ gate \in [claim : {0} \cup Claims, lapsed : BOOLEAN]
    /\ LeaseIsOne
    /\ LeaseProtects

OutboxInv == DevicesInv /\ RowsInv /\ WorkersInv /\ LeaseInv

-----------------------------------------------------------------------------
(* Lemmas: a claim that nobody has *)

\* What a function takes the elements of a finite set to is finite, and no more.
LEMMA ImageIsFinite ==
    ASSUME NEW S, IsFiniteSet(S), NEW f, f = [x \in S |-> f[x]], NEW T, T = {f[x] : x \in S}
    PROVE  IsFiniteSet(T) /\ Cardinality(T) <= Cardinality(S)
<1>1. f \in Surjection(S, T)
  BY DEF Surjection
<1> QED BY <1>1, FS_Surjection

LEMMA UnionIsBounded ==
    ASSUME NEW S, IsFiniteSet(S), NEW T, IsFiniteSet(T), NEW m \in Int, NEW n \in Int,
           Cardinality(S) <= m, Cardinality(T) <= n
    PROVE  IsFiniteSet(S \cup T) /\ Cardinality(S \cup T) <= m + n
<1>1. /\ IsFiniteSet(S \cup T)
      /\ Cardinality(S \cup T) = Cardinality(S) + Cardinality(T) - Cardinality(S \cap T)
  BY FS_Union
<1>2. IsFiniteSet(S \cap T)
  BY FS_Intersection
<1>3. /\ Cardinality(S) \in Nat /\ Cardinality(T) \in Nat
      /\ Cardinality(S \cap T) \in Nat
  BY <1>2, FS_CardinalityType
<1> QED BY <1>1, <1>3

LEMMA DeliveriesAreFinite == IsFiniteSet(Deliveries)
<1> DEFINE pairs == (Messages \X Users) \X Installs
           flat == [p \in pairs |-> <<p[1][1], p[1][2], p[2]>>]
<1>1. IsFiniteSet(pairs)
  BY OutboxAssumption, FS_Product
<1>2. IsFiniteSet({flat[p] : p \in pairs})
  <2> HIDE DEF pairs
  <2> QED BY <1>1, ImageIsFinite
<1>3. Deliveries \subseteq {flat[p] : p \in pairs}
  <2> SUFFICES ASSUME NEW d \in Deliveries PROVE \E p \in pairs : d = flat[p]
    OBVIOUS
  <2>1. d[1] \in Messages /\ d[2] \in Users /\ d[3] \in Installs /\ d = <<d[1], d[2], d[3]>>
    BY DEF Deliveries
  <2>2. <<<<d[1], d[2]>>, d[3]>> \in pairs
    BY <2>1
  <2>3. flat[<<<<d[1], d[2]>>, d[3]>>] = <<d[1], d[2], d[3]>>
    BY <2>2
  <2> QED BY <2>1, <2>2, <2>3
<1> QED BY <1>2, <1>3, FS_Subset

\* There are claims for all rows, the gate and all workers but an idle one.
LEMMA ClaimsSuffice ==
    ASSUME NEW w \in Workers, worker[w].claim = 0
    PROVE  FreshClaim \in Claims \ UsedClaims
<1> DEFINE D == Cardinality(Deliveries)
           W == Cardinality(Workers)
           others == Workers \ {w}
           rowClaim == [d \in Deliveries |-> delivery[d].claim]
           workerClaim == [v \in others |-> worker[v].claim]
           ofRows == {rowClaim[d] : d \in Deliveries}
           ofOthers == {workerClaim[v] : v \in others}
<1>1. IsFiniteSet(Deliveries) /\ D \in Nat
  BY DeliveriesAreFinite, FS_CardinalityType
<1>2. IsFiniteSet(Workers) /\ W \in Nat
  BY OutboxAssumption, FS_CardinalityType
<1>3. IsFiniteSet(others) /\ Cardinality(others) = W - 1
  BY <1>2, FS_RemoveElement
<1>4. IsFiniteSet(ofRows) /\ Cardinality(ofRows) <= D
  <2> HIDE DEF ofRows
  <2> QED BY <1>1, ImageIsFinite DEF ofRows
<1>5. IsFiniteSet(ofOthers) /\ Cardinality(ofOthers) <= W - 1
  <2>1. workerClaim = [v \in others |-> workerClaim[v]] /\ IsFiniteSet(others)
    BY <1>3
  <2> HIDE DEF others, workerClaim
  <2>2. IsFiniteSet(ofOthers) /\ Cardinality(ofOthers) <= Cardinality(others)
    BY <2>1, ImageIsFinite
  <2> QED BY <1>3, <2>2
<1>6. IsFiniteSet({gate.claim}) /\ Cardinality({gate.claim}) = 1
  BY FS_Singleton
<1>7. IsFiniteSet(Claims) /\ Cardinality(Claims) = D + W + 1
  <2>1. D + W + 1 \in Int /\ ~(1 > D + W + 1) /\ (D + W + 1) - 1 + 1 = D + W + 1
    BY <1>1, <1>2
  <2>2. Claims = 1..(D + W + 1)
    BY DEF Claims
  <2> HIDE DEF D, W
  <2> QED BY <2>1, <2>2, FS_Interval
<1> HIDE DEF D, W, ofRows, others, ofOthers, rowClaim, workerClaim
<1> DEFINE some == {gate.claim} \cup ofRows
<1>8. IsFiniteSet(some) /\ Cardinality(some) <= D + 1
  <2>1. Cardinality({gate.claim}) <= 1 /\ 1 \in Int /\ D \in Int
    BY <1>1, <1>6
  <2>2. IsFiniteSet(some) /\ Cardinality(some) <= 1 + D
    <3> HIDE DEF D
    <3> QED BY <1>4, <1>6, <2>1, UnionIsBounded DEF some
  <2> QED BY <1>1, <2>2, FS_CardinalityType
<1> HIDE DEF some
<1>9. IsFiniteSet(some \cup ofOthers) /\ Cardinality(some \cup ofOthers) <= D + W
  <2>1. Cardinality(some \cup ofOthers) <= (D + 1) + (W - 1) /\ IsFiniteSet(some \cup ofOthers)
    <3>1. D + 1 \in Int /\ W - 1 \in Int
      BY <1>1, <1>2
    <3> QED BY <1>5, <1>8, <3>1, UnionIsBounded
  <2> QED BY <1>1, <1>2, <2>1, FS_CardinalityType
<1>10. ~(Claims \subseteq some \cup ofOthers)
  <2>1. Cardinality(some \cup ofOthers) \in Nat
    BY <1>9, FS_CardinalityType
  <2> QED BY <1>1, <1>2, <1>7, <1>9, <2>1, FS_Subset
<1>11. UsedClaims \subseteq {0} \cup some \cup ofOthers
  BY DEF UsedClaims, some, ofRows, others, ofOthers, rowClaim, workerClaim
<1>12. Claims \ UsedClaims # {} /\ Claims \ UsedClaims \in SUBSET Nat
  BY <1>1, <1>2, <1>10, <1>11 DEF Claims
<1>13. \E c \in Claims \ UsedClaims : \A x \in Claims \ UsedClaims : c <= x
  BY <1>12, LeastNatural
<1> QED BY <1>13 DEF FreshClaim, Min

-----------------------------------------------------------------------------
(* Lemmas: devices *)

LEMMA SwitchedOffRows ==
    ASSUME device \in [Installs -> DeviceRow], NEW off, NEW reason \in DeviceReason
    PROVE  /\ SwitchedOff(off, reason) \in [Installs -> DeviceRow]
           /\ \A i \in Installs :
                 /\ SwitchedOff(off, reason)[i].token = device[i].token
                 /\ i \in off => SwitchedOff(off, reason)[i].reason = reason
                 /\ i \notin off => SwitchedOff(off, reason)[i].reason = device[i].reason
<1>1. ASSUME NEW i \in Installs
      PROVE  /\ SwitchedOff(off, reason)[i] \in DeviceRow
             /\ SwitchedOff(off, reason)[i].token = device[i].token
             /\ i \in off => SwitchedOff(off, reason)[i].reason = reason
             /\ i \notin off => SwitchedOff(off, reason)[i].reason = device[i].reason
  <2>1. CASE i \in off
    <3>1. PICK old \in DeviceRow : old = device[i]
      OBVIOUS
    <3>2. PICK row : row = [old EXCEPT !.active = FALSE, !.reason = reason]
      OBVIOUS
    <3>3. row \in DeviceRow /\ row.reason = reason /\ row.token = old.token
      <4>1. old = [x \in {"user", "session", "token", "version", "active", "reason"} |-> old[x]]
        BY DEF DeviceRow
      <4>2. /\ row.active = FALSE /\ row.reason = reason /\ row.token = old.token
            /\ row.user = old.user /\ row.session = old.session /\ row.version = old.version
        BY <3>2, <4>1
      <4>3. row = [x \in {"user", "session", "token", "version", "active", "reason"} |-> row[x]]
        BY <3>2, <4>1
      <4> QED BY <4>2, <4>3 DEF DeviceRow
    <3>4. SwitchedOff(off, reason)[i] = row
      BY <2>1, <3>1, <3>2 DEF SwitchedOff
    <3> QED BY <2>1, <3>1, <3>3, <3>4
  <2>2. CASE i \notin off
    <3>1. SwitchedOff(off, reason)[i] = device[i]
      BY <2>2 DEF SwitchedOff
    <3> QED BY <2>2, <3>1
  <2> QED BY <2>1, <2>2
<1>2. SwitchedOff(off, reason) = [i \in Installs |-> SwitchedOff(off, reason)[i]]
  BY DEF SwitchedOff
<1> HIDE DEF SwitchedOff
<1> QED BY <1>1, <1>2

\* Nothing but Firebase's answer gives a device the reason that it is unregistered.
LEMMA DevicesOff ==
    ASSUME DevicesInv, NEW off, device' = SwitchedOff(off, "OFF"),
           session' \in [Sessions -> [user : SUBSET Users, status : LoginStatus]],
           dead' = dead
    PROVE  DevicesInv'
<1>1. "OFF" \in DeviceReason
  BY DEF DeviceReason
<1>2. device' \in [Installs -> DeviceRow]
  BY <1>1, SwitchedOffRows DEF DevicesInv
<1>3. \A i \in Installs : device'[i].token = device[i].token
           /\ (i \in off => device'[i].reason = "OFF")
           /\ (i \notin off => device'[i].reason = device[i].reason)
  BY <1>1, SwitchedOffRows DEF DevicesInv
<1> QED BY <1>2, <1>3 DEF DevicesInv, OnlyDeadTokensGo

LEMMA DevicesKeep ==
    ASSUME DevicesInv, DevicesNext
    PROVE  DevicesInv' /\ dead \subseteq dead'
<1>1. CASE \E s \in Sessions, u \in Users : SignIn(s, u)
  BY <1>1 DEF SignIn, DevicesInv, LoginStatus, OnlyDeadTokensGo
<1>2. ASSUME NEW s \in Sessions, LogOut(s) PROVE DevicesInv' /\ dead' = dead
  <2>1. session' \in [Sessions -> [user : SUBSET Users, status : LoginStatus]]
    BY <1>2 DEF LogOut, DevicesInv, LoginStatus
  <2> QED BY <1>2, <2>1, DevicesOff DEF LogOut
<1>6. ASSUME NEW s \in Sessions, Consume(s) \/ Renew(s) PROVE DevicesInv' /\ dead' = dead
  <2>1. session' \in [Sessions -> [user : SUBSET Users, status : LoginStatus]]
    BY <1>6 DEF Consume, Renew, DevicesInv, LoginStatus
  <2> QED BY <1>6, <2>1 DEF Consume, Renew, DevicesInv, OnlyDeadTokensGo
<1>3. ASSUME NEW i \in Installs, NEW s \in Sessions, NEW t \in Tokens, RegisterDevice(i, s, t)
      PROVE  DevicesInv' /\ dead' = dead
  <2> DEFINE others == SwitchedOff(OthersWith(i, t), "OFF")
             row == [user |-> session[s].user, session |-> {s}, token |-> {t},
                     version |-> NextVersion(i, s, t), active |-> TRUE, reason |-> "NONE"]
  <2>1. NextVersion(i, s, t) \in 0..MaxVersion
    <3>1. device[i].version \in 0..MaxVersion
      BY DEF DevicesInv, DeviceRow
    <3> QED BY <1>3, <3>1, PushDevicesAssumption DEF RegisterDevice, NextVersion
  <2>2. row \in DeviceRow
    BY <2>1 DEF DevicesInv, DeviceRow, DeviceReason
  <2>3. "OFF" \in DeviceReason
    BY DEF DeviceReason
  <2>4. /\ others \in [Installs -> DeviceRow]
        /\ \A j \in Installs :
              /\ others[j].token = device[j].token
              /\ others[j].reason \in {"OFF", device[j].reason}
    BY <2>3, SwitchedOffRows DEF DevicesInv
  <2>5. device' = [others EXCEPT ![i] = row] /\ session' = session /\ dead' = dead
    BY <1>3 DEF RegisterDevice
  <2>6. device' \in [Installs -> DeviceRow]
    <3> HIDE DEF others, row
    <3> QED BY <2>2, <2>4, <2>5
  <2>7. OnlyDeadTokensGo'
    <3>1. row.reason = "NONE"
      OBVIOUS
    <3>2. \A j \in Installs : device[j].reason = "TOKEN_UNREGISTERED_BY_FIREBASE"
                                  => device[j].token \subseteq dead
      BY DEF DevicesInv, OnlyDeadTokensGo
    <3> HIDE DEF others, row
    <3> QED BY <2>4, <2>5, <3>1, <3>2 DEF OnlyDeadTokensGo
  <2> QED BY <2>5, <2>6, <2>7 DEF DevicesInv
<1>4. ASSUME NEW i \in Installs, NEW s \in Sessions, UnregisterDevice(i, s)
      PROVE  DevicesInv' /\ dead' = dead
  <2>1. session' = session /\ dead' = dead /\ \E off : device' = SwitchedOff(off, "OFF")
    BY <1>4 DEF UnregisterDevice
  <2> QED BY <2>1, DevicesOff DEF DevicesInv
<1>5. CASE \E t \in Tokens : TokenDies(t)
  BY <1>5 DEF TokenDies, DevicesInv, OnlyDeadTokensGo
<1> QED BY <1>1, <1>2, <1>3, <1>4, <1>5, <1>6 DEF DevicesNext

-----------------------------------------------------------------------------
(* Lemmas: rows *)

LEMMA EndedRows ==
    ASSUME NEW rows \in [Deliveries -> DeliveryRow], NEW ended, NEW status \in DeliveryStatus
    PROVE  /\ Ended(rows, ended, status) \in [Deliveries -> DeliveryRow]
           /\ \A d \in Deliveries :
                 /\ d \notin ended => Ended(rows, ended, status)[d] = rows[d]
                 /\ d \in ended => /\ Ended(rows, ended, status)[d].status = status
                                   /\ Ended(rows, ended, status)[d].claim = 0
                                   /\ Ended(rows, ended, status)[d].attempts = rows[d].attempts
                                   /\ ~Ended(rows, ended, status)[d].lapsed
<1>1. ASSUME NEW d \in Deliveries
      PROVE  /\ Ended(rows, ended, status)[d] \in DeliveryRow
             /\ d \notin ended => Ended(rows, ended, status)[d] = rows[d]
             /\ d \in ended => /\ Ended(rows, ended, status)[d].status = status
                               /\ Ended(rows, ended, status)[d].claim = 0
                               /\ Ended(rows, ended, status)[d].attempts = rows[d].attempts
                               /\ ~Ended(rows, ended, status)[d].lapsed
  <2>1. CASE d \in ended
    <3>1. PICK old \in DeliveryRow : old = rows[d]
      OBVIOUS
    <3>2. PICK end : end = [old EXCEPT !.status = status, !.claim = 0, !.lapsed = FALSE]
      OBVIOUS
    <3>3. Ended(rows, ended, status)[d] = end
      BY <2>1, <3>1, <3>2 DEF Ended
    <3>4. old = [x \in {"status", "version", "attempts", "claim", "lapsed"} |-> old[x]]
      BY DEF DeliveryRow
    <3>5. /\ end.status = status /\ end.claim = 0 /\ end.lapsed = FALSE
          /\ end.attempts = old.attempts /\ end.version = old.version
      BY <3>2, <3>4
    <3>6. end = [x \in {"status", "version", "attempts", "claim", "lapsed"} |-> end[x]]
      BY <3>2, <3>4
    <3>7. end \in DeliveryRow
      BY <3>5, <3>6 DEF DeliveryRow
    <3> QED BY <2>1, <3>1, <3>3, <3>5, <3>7
  <2>2. CASE d \notin ended
    <3>1. Ended(rows, ended, status)[d] = rows[d]
      BY <2>2 DEF Ended
    <3> QED BY <2>2, <3>1
  <2> QED BY <2>1, <2>2
<1>2. Ended(rows, ended, status) = [d \in Deliveries |-> Ended(rows, ended, status)[d]]
  BY DEF Ended
<1> HIDE DEF Ended
<1> QED BY <1>1, <1>2

\* A message is done when nobody waits and no row is active.
LEMMA DoneIsQuiet ==
    ASSUME NEW m \in Messages, NEW rows, Progress(m, rows) \in finalStatuses
    PROVE  /\ message[m].waiting = {}
           /\ \A d \in Of(m) : rows[d].status \notin activeStatuses
BY DEF Progress, finalStatuses

\* What stays as it is when the rows of a done message do.
LEMMA DoneStays ==
    ASSUME NEW m \in Messages, NEW rows,
           message[m].waiting = {}, message'[m].waiting = {},
           \A d \in Of(m) : rows[d].status \notin activeStatuses,
           \A d \in Of(m) : delivery'[d].status = rows[d].status
    PROVE  Progress(m, delivery)' = Progress(m, rows)
<1>1. \A d \in Of(m) : delivery'[d].status \notin activeStatuses
  OBVIOUS
<1>2. \A S : (\E d \in Of(m) : rows[d].status \in S) <=> (\E d \in Of(m) : delivery'[d].status \in S)
  OBVIOUS
<1>3. Progress(m, rows) = IF \E d \in Of(m) : rows[d].status \in {"FAILED", "SKIPPED"}
                          THEN IF \E d \in Of(m) : rows[d].status \in {"ACCEPTED"}
                               THEN "PARTIAL" ELSE "FAILED"
                          ELSE "COMPLETED"
  BY DEF Progress
<1>4. Progress(m, delivery)' =
                          IF \E d \in Of(m) : delivery'[d].status \in {"FAILED", "SKIPPED"}
                          THEN IF \E d \in Of(m) : delivery'[d].status \in {"ACCEPTED"}
                               THEN "PARTIAL" ELSE "FAILED"
                          ELSE "COMPLETED"
  BY <1>1 DEF Progress, Of
<1> QED BY <1>2, <1>3, <1>4

\* Rows change while they are active, messages do not.
LEMMA RowsKeep ==
    ASSUME RowsInv, message' = message, delivery' \in [Deliveries -> DeliveryRow],
           RowsClaimed(delivery'),
           \A d \in Deliveries : delivery[d].status \notin activeStatuses
                                    => delivery'[d].status = delivery[d].status
    PROVE  RowsInv'
<1>1. \A d \in Deliveries : delivery'[d].status # "NONE" => delivery[d].status # "NONE"
  BY DEF activeStatuses
<1>2. Expanded'
  BY <1>1 DEF RowsInv, Expanded, Of
<1>3. FinalStatusIsTrue'
  <2> SUFFICES ASSUME NEW m \in Messages, message[m].status \in finalStatuses
               PROVE  message[m].status = Progress(m, delivery)' /\ message[m].waiting = {}
    BY DEF FinalStatusIsTrue, finalStatuses
  <2>1. message[m].status = Progress(m, delivery)
    BY DEF RowsInv, FinalStatusIsTrue
  <2>2. message[m].waiting = {} /\ \A d \in Of(m) : delivery[d].status \notin activeStatuses
    BY <2>1, DoneIsQuiet
  <2>3. \A d \in Of(m) : delivery'[d].status = delivery[d].status
    BY <2>2 DEF Of
  <2> QED BY <2>1, <2>2, <2>3, DoneStays
<1> QED BY <1>2, <1>3 DEF RowsInv, RowsClaimed

\* rows is delivery after the active rows in ended were closed or wait again.
Ends(rows, ended) ==
    /\ rows \in [Deliveries -> DeliveryRow]
    /\ ended \subseteq In(activeStatuses)
    /\ \A d \in Deliveries :
          /\ d \notin ended => rows[d] = delivery[d]
          /\ d \in ended => /\ rows[d].claim = 0
                            /\ rows[d].status \in {"ACCEPTED", "FAILED", "SKIPPED", "RETRY"}

LEMMA EndedEnds ==
    ASSUME RowsInv, NEW ended, ended \subseteq In(activeStatuses),
           NEW status \in {"ACCEPTED", "FAILED", "SKIPPED", "RETRY"}
    PROVE  Ends(Ended(delivery, ended, status), ended)
<1>1. status \in DeliveryStatus
  BY DEF DeliveryStatus, activeStatuses
<1> QED BY <1>1, EndedRows DEF RowsInv, Ends

LEMMA SweptEnds ==
    ASSUME RowsInv, NEW old, old \subseteq Attempted
    PROVE  Ends(Swept(old), Overdue \cup Exhausted \cup old)
<1>1. Overdue \cup Exhausted \cup old \subseteq In(activeStatuses)
  BY DEF Overdue, Exhausted, Attempted, Waiting, In, activeStatuses
<1>2. "SKIPPED" \in DeliveryStatus /\ "FAILED" \in DeliveryStatus
  BY DEF DeliveryStatus
<1>3. PICK first : first = Ended(delivery, Overdue, "SKIPPED")
  OBVIOUS
<1>4. /\ first \in [Deliveries -> DeliveryRow]
      /\ \A d \in Deliveries :
            /\ d \notin Overdue => first[d] = delivery[d]
            /\ d \in Overdue => first[d].status = "SKIPPED" /\ first[d].claim = 0
  BY <1>2, <1>3, EndedRows DEF RowsInv
<1>5. PICK second : second = Ended(first, Exhausted \cup old, "FAILED")
  OBVIOUS
<1>6. /\ second \in [Deliveries -> DeliveryRow]
      /\ \A d \in Deliveries :
            /\ d \notin Exhausted \cup old => second[d] = first[d]
            /\ d \in Exhausted \cup old => second[d].status = "FAILED" /\ second[d].claim = 0
  BY <1>2, <1>4, <1>5, EndedRows
<1>7. Swept(old) = second
  BY <1>3, <1>5 DEF Swept
<1> QED BY <1>1, <1>4, <1>6, <1>7 DEF Ends

\* Nothing else happens to rows and messages.
LEMMA EndingKeepsRows ==
    ASSUME RowsInv, message' = message, NEW ended, Ends(delivery', ended)
    PROVE  RowsInv'
<1>1. RowsClaimed(delivery')
  BY DEF RowsInv, RowsClaimed, Ends
<1> QED BY <1>1, RowsKeep DEF Ends, In

-----------------------------------------------------------------------------
(* Lemmas: what a step leaves alone *)

LEMMA DevicesFrame == DevicesInv /\ UNCHANGED deviceVars => DevicesInv'
BY DEF DevicesInv, deviceVars, OnlyDeadTokensGo

LEMMA WorkersFrame ==
    ASSUME WorkersInv, worker' = worker, dead \subseteq dead'
    PROVE  WorkersInv'
<1>1. ASSUME NEW w \in Workers PROVE WorkerInv(w)'
  BY DEF WorkersInv, WorkerInv, WorkerRow, Partial, Idle, Deliveries, Claims
<1> QED BY <1>1 DEF WorkersInv, ClaimsApart, WorkerRow, Partial, Deliveries, Claims

LEMMA RowsFrame == RowsInv /\ UNCHANGED <<message, delivery>> => RowsInv'
<1> SUFFICES ASSUME RowsInv, UNCHANGED <<message, delivery>> PROVE RowsInv'
  OBVIOUS
<1>1. delivery' \in [Deliveries -> DeliveryRow] /\ RowsClaimed(delivery')
  BY DEF RowsInv, RowsClaimed
<1> QED BY <1>1, RowsKeep

LEMMA LeaseFrame ==
    ASSUME LeaseInv, UNCHANGED <<gate, worker, delivery>>, expired \subseteq expired'
    PROVE  LeaseInv'
BY DEF LeaseInv, LeaseIsOne, LeaseProtects, Lapsed, Mine, In

\* The lease of the gate protects its rows while others are closed.
LEMMA EndingKeepsLease ==
    ASSUME RowsInv, LeaseInv, WorkersInv', gate' = gate, expired' = expired,
           NEW ended, Ends(delivery', ended),
           \A w \in Workers :
              worker'[w].claim # 0 =>
                 /\ worker'[w].claim = worker[w].claim
                 /\ gate.claim = worker[w].claim /\ ~gate.lapsed =>
                       \A d \in DOMAIN worker'[w].rows :
                          /\ d \in DOMAIN worker[w].rows \/ d \in Mine(w)
                          /\ d \in ended => d[1] \in expired
    PROVE  LeaseInv'
<1>1. LeaseIsOne'
  BY DEF LeaseInv, LeaseIsOne, Lapsed, Ends
<1>2. LeaseProtects'
  <2> SUFFICES ASSUME NEW w \in Workers, gate.claim = worker'[w].claim, ~gate.lapsed,
                      NEW d \in DOMAIN worker'[w].rows
               PROVE  d \in Mine(w)' \/ d[1] \in expired
    BY DEF LeaseProtects
  <2>1. worker'[w].claim # 0
    <3> SUFFICES ASSUME worker'[w].claim = 0 PROVE FALSE
      OBVIOUS
    <3>1. worker'[w].rows = <<>>
      BY DEF WorkersInv, WorkerInv, Idle
    <3> QED BY <3>1
  <2>2. d \in Mine(w) \/ d[1] \in expired
    BY <2>1 DEF LeaseInv, LeaseProtects
  <2>3. CASE d[1] \notin expired
    <3>1. d \in Deliveries /\ delivery[d].status = "PROCESSING"
          /\ delivery[d].claim = worker[w].claim
      BY <2>2, <2>3 DEF Mine, In
    <3>2. delivery'[d] = delivery[d]
      BY <2>1, <2>3, <3>1 DEF Ends
    <3> QED BY <2>1, <3>1, <3>2 DEF Mine, In
  <2> QED BY <2>3
<1> QED BY <1>1, <1>2 DEF LeaseInv

-----------------------------------------------------------------------------
(* Messages *)

LEMMA EnqueueKeeps ==
    ASSUME OutboxInv, NEW m \in Messages, NEW audience \in SUBSET Users, Enqueue(m, audience)
    PROVE  OutboxInv'
<1> USE DEF OutboxInv
<1>1. /\ message[m].status = "NONE" /\ audience # {}
      /\ message' = [message EXCEPT ![m] = [status |-> "QUEUED", waiting |-> audience]]
      /\ UNCHANGED <<deviceVars, delivery, gate, worker, expired, configured>>
  BY DEF Enqueue
<1>2. \A k \in Messages : k # m => message'[k] = message[k]
  BY <1>1 DEF RowsInv
<1>3. message'[m].status = "QUEUED" /\ message'[m].waiting = audience
  BY <1>1 DEF RowsInv
<1>4. message' \in [Messages -> MessageRow]
  BY <1>1 DEF RowsInv, MessageRow
<1>5. Expanded'
  <2>1. \A d \in Of(m) : delivery[d].status = "NONE"
    BY <1>1 DEF RowsInv, Expanded
  <2> QED BY <1>1, <1>2, <1>3, <2>1 DEF RowsInv, Expanded, Of
<1>6. FinalStatusIsTrue'
  <2> SUFFICES ASSUME NEW k \in Messages, message'[k].status \in finalStatuses
               PROVE  message'[k].status = Progress(k, delivery)' /\ message'[k].waiting = {}
    BY DEF FinalStatusIsTrue, finalStatuses
  <2>1. message'[k] = message[k]
    BY <1>2, <1>3 DEF finalStatuses
  <2>2. message[k].status = Progress(k, delivery)
    BY <2>1 DEF RowsInv, FinalStatusIsTrue
  <2>3. message[k].waiting = {} /\ \A d \in Of(k) : delivery[d].status \notin activeStatuses
    BY <2>1, <2>2, DoneIsQuiet
  <2>4. \A d \in Of(k) : delivery'[d].status = delivery[d].status
    BY <1>1
  <2> QED BY <2>1, <2>2, <2>3, <2>4, DoneStays
<1>7. RowsInv'
  BY <1>1, <1>4, <1>5, <1>6 DEF RowsInv, RowsClaimed
<1>8. DevicesInv' /\ dead' = dead
  BY <1>1, DevicesFrame DEF deviceVars
<1> QED BY <1>1, <1>7, <1>8, WorkersFrame, LeaseFrame

LEMMA ExpandKeeps ==
    ASSUME OutboxInv, NEW w \in Workers, NEW m \in Messages, NEW u \in Users,
           ExpandRecipients(w, m, u)
    PROVE  OutboxInv'
<1> USE DEF OutboxInv
<1>1. /\ u \in message[m].waiting
      /\ message' = [message EXCEPT ![m].waiting = @ \ {u}]
      /\ UNCHANGED <<deviceVars, gate, worker, expired, configured>>
  BY DEF ExpandRecipients
<1>2. /\ \A k \in Messages : k # m => message'[k] = message[k]
      /\ message'[m].status = message[m].status
      /\ message'[m].waiting = message[m].waiting \ {u}
      /\ message' \in [Messages -> MessageRow]
  BY <1>1 DEF RowsInv, MessageRow
<1>3. message[m].status # "NONE" /\ message[m].status \notin finalStatuses
  BY <1>1 DEF RowsInv, Expanded, FinalStatusIsTrue
<1> DEFINE opens(d) == d[1] = m /\ d[2] = u /\ Reachable(d[3], u)
<1>4. ASSUME NEW d \in Deliveries, opens(d)
      PROVE  delivery[d].status = "NONE" /\ delivery[d].claim = 0
  BY <1>1, <1>4 DEF RowsInv, Expanded, RowsClaimed, Of
<1>5. ASSUME NEW d \in Deliveries
      PROVE  /\ delivery'[d] \in DeliveryRow
             /\ delivery'[d].claim = delivery[d].claim
             /\ delivery'[d].lapsed = delivery[d].lapsed
             /\ opens(d) => delivery'[d].status = "PENDING"
             /\ ~opens(d) => delivery'[d] = delivery[d]
  <2>1. CASE opens(d)
    <3>1. PICK old \in DeliveryRow : old = delivery[d]
      BY DEF RowsInv
    <3>2. PICK row : row = [old EXCEPT !.status = "PENDING", !.version = device[d[3]].version]
      OBVIOUS
    <3>3. delivery'[d] = row
      BY <2>1, <3>1, <3>2 DEF ExpandRecipients
    <3>4. old = [x \in {"status", "version", "attempts", "claim", "lapsed"} |-> old[x]]
      BY DEF DeliveryRow
    <3>5. /\ row.status = "PENDING" /\ row.version = device[d[3]].version
          /\ row.claim = old.claim /\ row.lapsed = old.lapsed /\ row.attempts = old.attempts
      BY <3>2, <3>4
    <3>6. row = [x \in {"status", "version", "attempts", "claim", "lapsed"} |-> row[x]]
      BY <3>2, <3>4
    <3>7. device[d[3]].version \in 0..MaxVersion
      BY DEF DevicesInv, DeviceRow, Deliveries
    <3>8. row \in DeliveryRow
      BY <3>5, <3>6, <3>7 DEF DeliveryRow, DeliveryStatus, activeStatuses
    <3> QED BY <2>1, <3>1, <3>3, <3>5, <3>8
  <2>2. CASE ~opens(d)
    <3>1. delivery'[d] = delivery[d]
      BY <2>2 DEF ExpandRecipients
    <3> QED BY <2>2, <3>1 DEF RowsInv
  <2> QED BY <2>1, <2>2
<1>6. delivery' = [d \in Deliveries |-> delivery'[d]]
  BY DEF ExpandRecipients
<1>7. delivery' \in [Deliveries -> DeliveryRow] /\ RowsClaimed(delivery')
  BY <1>4, <1>5, <1>6 DEF RowsInv, RowsClaimed
<1>8. Expanded'
  <2> SUFFICES ASSUME NEW k \in Messages
               PROVE  /\ message'[k].waiting # {} => message'[k].status # "NONE"
                      /\ \A d \in Of(k) : delivery'[d].status # "NONE" =>
                            message'[k].status # "NONE" /\ d[2] \notin message'[k].waiting
    BY DEF Expanded, Of
  <2>1. CASE k = m
    <3> SUFFICES ASSUME NEW d \in Of(m), delivery'[d].status # "NONE"
                 PROVE  d[2] \notin message'[m].waiting
      BY <1>2, <1>3, <2>1
    <3>1. d \in Deliveries
      BY DEF Of
    <3> QED BY <1>2, <1>5, <3>1 DEF RowsInv, Expanded
  <2>2. CASE k # m
    <3>1. \A d \in Of(k) : d \in Deliveries /\ ~opens(d)
      BY <2>2 DEF Of
    <3> QED BY <1>2, <1>5, <2>2, <3>1 DEF RowsInv, Expanded
  <2> QED BY <2>1, <2>2
<1>9. FinalStatusIsTrue'
  <2> SUFFICES ASSUME NEW k \in Messages, message'[k].status \in finalStatuses
               PROVE  message'[k].status = Progress(k, delivery)' /\ message'[k].waiting = {}
    BY DEF FinalStatusIsTrue, finalStatuses
  <2>1. k # m /\ message'[k] = message[k]
    BY <1>2, <1>3
  <2>2. message[k].status = Progress(k, delivery)
    BY <2>1 DEF RowsInv, FinalStatusIsTrue
  <2>3. message[k].waiting = {} /\ \A d \in Of(k) : delivery[d].status \notin activeStatuses
    BY <2>1, <2>2, DoneIsQuiet
  <2>4. \A d \in Of(k) : delivery'[d].status = delivery[d].status
    BY <1>5, <2>1 DEF Of
  <2> QED BY <2>1, <2>2, <2>3, <2>4, DoneStays
<1>10. RowsInv'
  BY <1>2, <1>7, <1>8, <1>9 DEF RowsInv
<1>11. LeaseInv'
  <2>1. LeaseIsOne'
    BY <1>1, <1>5 DEF LeaseInv, LeaseIsOne, Lapsed
  <2>2. \A v \in Workers : Mine(v) \subseteq Mine(v)'
    BY <1>1, <1>4, <1>5 DEF Mine, In
  <2> QED BY <1>1, <2>1, <2>2 DEF LeaseInv, LeaseProtects
<1>12. DevicesInv' /\ dead' = dead
  BY <1>1, DevicesFrame DEF deviceVars
<1> QED BY <1>1, <1>10, <1>11, <1>12, WorkersFrame

LEMMA FinishKeeps ==
    ASSUME OutboxInv, NEW w \in Workers, FinishMessages(w)
    PROVE  OutboxInv'
<1> USE DEF OutboxInv
<1>1. PICK rows : rows = Ended(delivery, Overdue, "SKIPPED")
  OBVIOUS
<1>2. /\ delivery' = rows
      /\ message' = [m \in Messages |-> IF Followed(m)
                        THEN [message[m] EXCEPT !.status = Progress(m, rows)] ELSE message[m]]
      /\ UNCHANGED <<deviceVars, gate, worker, expired, configured>>
  BY <1>1 DEF FinishMessages
<1>3. Ends(rows, Overdue)
  <2>1. Overdue \subseteq In(activeStatuses)
    BY DEF Overdue
  <2> QED BY <1>1, <2>1, EndedEnds
<1>4. ASSUME NEW m \in Messages
      PROVE  /\ message'[m] \in MessageRow
             /\ message'[m].waiting = message[m].waiting
             /\ Followed(m) => message'[m].status = Progress(m, rows)
             /\ ~Followed(m) => message'[m] = message[m]
  <2>1. Progress(m, rows) \in {"PROCESSING", "WAITING_FOR_CONFIGURATION"} \cup finalStatuses
    BY DEF Progress, finalStatuses
  <2>2. message[m] \in MessageRow
    BY DEF RowsInv
  <2> QED BY <1>2, <2>1, <2>2 DEF MessageRow
<1>5. \A m \in Messages : message'[m].status = "NONE" <=> message[m].status = "NONE"
  <2> SUFFICES ASSUME NEW m \in Messages
               PROVE  message'[m].status = "NONE" <=> message[m].status = "NONE"
    OBVIOUS
  <2>1. Progress(m, rows) # "NONE"
    BY DEF Progress
  <2> QED BY <1>4, <2>1 DEF Followed
<1>6. \A d \in Deliveries : delivery'[d].status # "NONE" => delivery[d].status # "NONE"
  BY <1>2, <1>3 DEF Ends, In, activeStatuses
<1>7. Expanded'
  BY <1>4, <1>5, <1>6 DEF RowsInv, Expanded, Of
<1>8. FinalStatusIsTrue'
  <2> SUFFICES ASSUME NEW m \in Messages, message'[m].status \in finalStatuses
               PROVE  message'[m].status = Progress(m, delivery)' /\ message'[m].waiting = {}
    BY DEF FinalStatusIsTrue, finalStatuses
  <2>1. message'[m].waiting = message[m].waiting
    BY <1>4
  <2>2. CASE Followed(m)
    <3>1. message'[m].status = Progress(m, rows)
      BY <1>4, <2>2
    <3>2. message[m].waiting = {} /\ \A d \in Of(m) : rows[d].status \notin activeStatuses
      BY <3>1, DoneIsQuiet
    <3>3. \A d \in Of(m) : delivery'[d].status = rows[d].status
      BY <1>2
    <3> QED BY <2>1, <3>1, <3>2, <3>3, DoneStays
  <2>3. CASE ~Followed(m)
    <3>1. message'[m] = message[m]
      BY <1>4, <2>3
    <3>2. message[m].status = Progress(m, delivery)
      BY <3>1 DEF RowsInv, FinalStatusIsTrue
    <3>3. message[m].waiting = {} /\ \A d \in Of(m) : delivery[d].status \notin activeStatuses
      BY <3>1, <3>2, DoneIsQuiet
    <3>4. \A d \in Of(m) : delivery'[d].status = delivery[d].status
      BY <1>2, <1>3, <3>3 DEF Of, Ends, In
    <3> QED BY <3>1, <3>2, <3>3, <3>4, DoneStays
  <2> QED BY <2>2, <2>3
<1>9. message' \in [Messages -> MessageRow]
  BY <1>2, <1>4
<1>10. RowsInv'
  <2>1. RowsClaimed(rows)
    BY <1>3 DEF RowsInv, RowsClaimed, Ends
  <2> QED BY <1>2, <1>3, <1>7, <1>8, <1>9, <2>1 DEF RowsInv, Ends
<1>11. DevicesInv' /\ dead' = dead
  BY <1>2, DevicesFrame DEF deviceVars
<1>12. WorkersInv'
  BY <1>2, <1>11, WorkersFrame
<1>13. LeaseInv'
  <2>1. Ends(delivery', Overdue)
    BY <1>2, <1>3
  <2>2. \A d \in Overdue : d[1] \in expired
    BY DEF Overdue
  <2>3. \A v \in Workers : worker'[v] = worker[v]
    BY <1>2
  <2> QED BY <1>2, <1>12, <2>1, <2>2, <2>3, EndingKeepsLease
<1> QED BY <1>10, <1>11, <1>12, <1>13

-----------------------------------------------------------------------------
(* Workers *)

LEMMA ClaimNothingKeeps ==
    ASSUME OutboxInv, NEW w \in Workers, NEW old \in SUBSET Attempted, ClaimNothing(w, old)
    PROVE  OutboxInv'
<1> USE DEF OutboxInv
<1>1. /\ GateOpen /\ delivery' = Swept(old)
      /\ UNCHANGED <<deviceVars, message, gate, worker, expired, configured>>
  BY DEF ClaimNothing
<1>2. Ends(delivery', Overdue \cup Exhausted \cup old)
  BY <1>1, SweptEnds
<1>3. RowsInv'
  BY <1>1, <1>2, EndingKeepsRows
<1>4. DevicesInv' /\ dead' = dead
  BY <1>1, DevicesFrame DEF deviceVars
<1>5. WorkersInv'
  BY <1>1, <1>4, WorkersFrame
<1>6. LeaseInv'
  <2>1. \A v \in Workers : ~(worker'[v].claim # 0 /\ gate.claim = worker[v].claim /\ ~gate.lapsed)
    BY <1>1 DEF GateOpen
  <2>2. \A v \in Workers : worker'[v].claim = worker[v].claim
    BY <1>1
  <2> QED BY <1>1, <1>2, <1>5, <2>1, <2>2, EndingKeepsLease
<1> QED BY <1>3, <1>4, <1>5, <1>6

\* A claim that nothing and nobody has is taken for rows that wait.
LEMMA ClaimBatchKeeps ==
    ASSUME OutboxInv, NEW w \in Workers, NEW old \in SUBSET Attempted,
           NEW batch \in SUBSET Waiting, ClaimBatch(w, old, batch)
    PROVE  OutboxInv'
<1> USE DEF OutboxInv
<1>1. /\ worker[w] = Idle /\ batch \subseteq Due(old)
      /\ gate' = [claim |-> FreshClaim, lapsed |-> FALSE]
      /\ worker' = [worker EXCEPT ![w].claim = FreshClaim]
      /\ UNCHANGED <<deviceVars, message, expired, configured>>
  BY DEF ClaimBatch
<1>2. PICK c : c = FreshClaim
  OBVIOUS
<1>3. c \in Claims \ UsedClaims /\ c # 0
  <2>1. worker[w].claim = 0
    BY <1>1 DEF Idle
  <2>2. FreshClaim \in Claims \ UsedClaims
    BY <2>1, ClaimsSuffice
  <2>3. Cardinality(Deliveries) \in Nat /\ Cardinality(Workers) \in Nat
    BY DeliveriesAreFinite, OutboxAssumption, FS_CardinalityType
  <2> QED BY <1>2, <2>2, <2>3 DEF Claims
<1>4. PICK rows : rows = Swept(old)
  OBVIOUS
<1>5. Ends(rows, Overdue \cup Exhausted \cup old)
  BY <1>4, SweptEnds
<1>6. ASSUME NEW d \in Deliveries
      PROVE  /\ delivery'[d] \in DeliveryRow
             /\ d \in batch => /\ delivery'[d].status = "PROCESSING"
                               /\ delivery'[d].claim = c /\ ~delivery'[d].lapsed
             /\ d \notin batch => delivery'[d] = rows[d]
  <2>1. CASE d \in batch
    <3>1. PICK before \in DeliveryRow : before = rows[d]
      BY <1>5 DEF Ends
    <3>2. PICK row : row = [before EXCEPT !.status = "PROCESSING", !.claim = c,
                                          !.lapsed = FALSE, !.attempts = @ + 1]
      OBVIOUS
    <3>3. delivery'[d] = row
      BY <1>2, <1>4, <2>1, <3>1, <3>2 DEF ClaimBatch
    <3>4. before = [x \in {"status", "version", "attempts", "claim", "lapsed"} |-> before[x]]
      BY DEF DeliveryRow
    <3>5. /\ row.status = "PROCESSING" /\ row.claim = c /\ row.lapsed = FALSE
          /\ row.version = before.version /\ row.attempts = before.attempts + 1
      BY <3>2, <3>4
    <3>6. row = [x \in {"status", "version", "attempts", "claim", "lapsed"} |-> row[x]]
      BY <3>2, <3>4
    <3>7. row \in DeliveryRow
      <4>1. "PROCESSING" \in DeliveryStatus
        BY DEF DeliveryStatus, activeStatuses
      <4>2. before.version \in 0..MaxVersion /\ before.attempts + 1 \in Nat
        BY DEF DeliveryRow
      <4> QED BY <1>3, <3>5, <3>6, <4>1, <4>2 DEF DeliveryRow
    <3> QED BY <2>1, <3>3, <3>5, <3>7
  <2>2. CASE d \notin batch
    <3>1. delivery'[d] = rows[d]
      BY <1>4, <2>2 DEF ClaimBatch
    <3> QED BY <1>5, <2>2, <3>1 DEF Ends
  <2> QED BY <2>1, <2>2
<1>7. delivery' = [d \in Deliveries |-> delivery'[d]]
  BY DEF ClaimBatch
<1>8. delivery' \in [Deliveries -> DeliveryRow]
  BY <1>6, <1>7
<1>9. RowsClaimed(delivery')
  BY <1>3, <1>5, <1>6 DEF RowsInv, RowsClaimed, Ends
<1>10. RowsInv'
  <2>1. batch \subseteq In(activeStatuses)
    BY DEF Waiting, In, activeStatuses
  <2>2. \A d \in Deliveries : delivery[d].status \notin activeStatuses
                                => delivery'[d].status = delivery[d].status
    BY <1>5, <1>6, <2>1 DEF Ends, In
  <2> QED BY <1>1, <1>8, <1>9, <2>2, RowsKeep
<1>11. DevicesInv' /\ dead' = dead
  BY <1>1, DevicesFrame DEF deviceVars
<1>12. /\ \A v \in Workers : v # w => worker'[v] = worker[v]
       /\ worker'[w].claim = c /\ ~worker'[w].read
       /\ worker'[w].rows = <<>> /\ worker'[w].answer = <<>>
       /\ worker'[w] \in WorkerRow
  <2>1. worker[w] \in WorkerRow
    BY DEF WorkersInv
  <2>2. /\ \A v \in Workers : v # w => worker'[v] = worker[v]
        /\ worker'[w].claim = c /\ worker'[w].read = worker[w].read
        /\ worker'[w].rows = worker[w].rows /\ worker'[w].answer = worker[w].answer
        /\ worker'[w] \in WorkerRow
    BY <1>1, <1>2, <1>3, <2>1 DEF WorkersInv, WorkerRow
  <2> QED BY <1>1, <2>2 DEF Idle
<1>13. \A v \in Workers : v # w => worker'[v].claim # c
  BY <1>3, <1>12 DEF UsedClaims
<1>14. WorkersInv'
  <2>1. worker' \in [Workers -> WorkerRow]
    BY <1>1, <1>12 DEF WorkersInv
  <2>2. ASSUME NEW v \in Workers PROVE WorkerInv(v)'
    <3>1. CASE v = w
      BY <1>3, <1>12, <3>1 DEF WorkerInv, WorkerRow, Partial, Deliveries, Claims
    <3>2. CASE v # w
      BY <1>11, <1>12, <3>2 DEF WorkersInv, WorkerInv, WorkerRow, Partial, Deliveries, Claims, Idle
    <3> QED BY <3>1, <3>2
  <2>3. ClaimsApart'
    BY <1>12, <1>13 DEF WorkersInv, ClaimsApart
  <2> QED BY <2>1, <2>2, <2>3 DEF WorkersInv, WorkerRow, Partial, Deliveries, Claims
<1>15. LeaseInv'
  <2>1. gate'.claim = c /\ ~gate'.lapsed /\ gate' \in [claim : {0} \cup Claims, lapsed : BOOLEAN]
    BY <1>1, <1>2, <1>3
  <2>2. LeaseIsOne'
    <3>1. \A d \in Deliveries : d \notin batch => delivery'[d].claim # c
      BY <1>3, <1>5, <1>6 DEF Ends, UsedClaims
    <3> QED BY <1>6, <2>1, <3>1 DEF LeaseIsOne, Lapsed
  <2>3. LeaseProtects'
    <3> SUFFICES ASSUME NEW v \in Workers, gate'.claim = worker'[v].claim,
                        NEW d \in DOMAIN worker'[v].rows
                 PROVE  FALSE
      BY DEF LeaseProtects
    <3>1. v = w
      BY <1>13, <2>1
    <3> QED BY <1>12, <3>1
  <2> QED BY <2>1, <2>2, <2>3 DEF LeaseInv, Claims, Deliveries
<1> QED BY <1>10, <1>11, <1>14, <1>15

\* One worker changes, keeps its claim and has no more rows than it had or than it reads.
LEMMA OneWorkerKeeps ==
    ASSUME WorkersInv, dead' = dead, NEW w \in Workers, NEW row \in WorkerRow,
           worker' = [worker EXCEPT ![w] = row],
           row.claim = worker[w].claim \/ row = Idle,
           row.claim = 0 => row = Idle,
           ~row.read => row.rows = <<>>,
           DOMAIN row.answer \subseteq DOMAIN row.rows,
           \A d \in DOMAIN row.answer :
              row.answer[d] = "INVALID" => row.rows[d].token \subseteq dead
    PROVE  /\ WorkersInv'
           /\ worker'[w] = row
           /\ \A v \in Workers : v # w => worker'[v] = worker[v]
<1>1. worker'[w] = row /\ \A v \in Workers : v # w => worker'[v] = worker[v]
  BY DEF WorkersInv
<1>2. worker' \in [Workers -> WorkerRow]
  BY DEF WorkersInv
<1>3. ASSUME NEW v \in Workers PROVE WorkerInv(v)'
  <2>1. CASE v = w
    BY <1>1, <2>1 DEF WorkerInv, WorkerRow, Partial, Deliveries, Claims, Idle
  <2>2. CASE v # w
    BY <1>1, <2>2 DEF WorkersInv, WorkerInv, WorkerRow, Partial, Deliveries, Claims, Idle
  <2> QED BY <2>1, <2>2
<1>4. ClaimsApart'
  BY <1>1 DEF WorkersInv, ClaimsApart, Idle
<1> QED BY <1>1, <1>2, <1>3, <1>4 DEF WorkersInv, WorkerRow, Partial, Deliveries, Claims

LEMMA IdleRow == Idle \in WorkerRow
<1>1. <<>> \in [{} -> [token : SUBSET Tokens, version : 0..MaxVersion]]
      /\ <<>> \in [{} -> {"ACCEPTED", "REFUSED", "RETRYABLE", "INVALID"}]
  OBVIOUS
<1>2. \A R : <<>> \in [{} -> R] => <<>> \in Partial(R)
  BY DEF Partial
<1> QED BY <1>1, <1>2 DEF Idle, WorkerRow

\* The rows of a claim have one worker.
LEMMA MineIsApart ==
    ASSUME WorkersInv, NEW v \in Workers, NEW w \in Workers, v # w, worker[v].claim # 0,
           NEW d \in Mine(v)
    PROVE  d \notin Mine(w)
BY DEF WorkersInv, ClaimsApart, Mine

LEMMA ReadKeeps ==
    ASSUME OutboxInv, NEW w \in Workers, ReadBatch(w)
    PROVE  OutboxInv'
<1> USE DEF OutboxInv
<1> DEFINE sent == {e \in Mine(w) : Sendable(e)}
           ended == {e \in Mine(w) : ~Sendable(e)}
<1>1. worker[w] \in WorkerRow /\ worker[w].claim # 0 /\ ~worker[w].read
  BY DEF ReadBatch, WorkersInv
<1>2. PICK rows : rows = [d \in sent |-> [token |-> device[d[3]].token,
                                          version |-> device[d[3]].version]]
  OBVIOUS
<1>3. PICK row : row = [worker[w] EXCEPT !.read = TRUE, !.rows = rows]
  OBVIOUS
<1>4. /\ worker' = [worker EXCEPT ![w] = row]
      /\ delivery' = Ended(delivery, ended, "SKIPPED")
      /\ UNCHANGED <<deviceVars, message, gate, expired, configured>>
  BY <1>2, <1>3 DEF ReadBatch, WorkersInv
<1>5. rows \in Partial([token : SUBSET Tokens, version : 0..MaxVersion]) /\ DOMAIN rows = sent
  <2>1. \A d \in sent : d \in Deliveries /\ device[d[3]] \in DeviceRow
    BY DEF Mine, In, Deliveries, DevicesInv
  <2>2. \A d \in sent : rows[d] \in [token : SUBSET Tokens, version : 0..MaxVersion]
    BY <1>2, <2>1 DEF DeviceRow
  <2>3. rows \in [sent -> [token : SUBSET Tokens, version : 0..MaxVersion]]
    BY <1>2, <2>2
  <2> QED BY <2>1, <2>3 DEF Partial
<1>6. worker[w] = [x \in {"claim", "read", "rows", "answer"} |-> worker[w][x]]
  BY <1>1 DEF WorkerRow
<1>7. /\ row.read = TRUE /\ row.rows = rows
      /\ row.claim = worker[w].claim /\ row.answer = worker[w].answer
      /\ row = [x \in {"claim", "read", "rows", "answer"} |-> row[x]]
  BY <1>3, <1>6
<1>8. row \in WorkerRow
  BY <1>1, <1>5, <1>7 DEF WorkerRow
<1>9. DOMAIN row.answer = {}
  <2>1. worker[w].rows = <<>> /\ DOMAIN worker[w].answer \subseteq DOMAIN worker[w].rows
    BY <1>1 DEF WorkersInv, WorkerInv
  <2> QED BY <1>7, <2>1
<1>10. DevicesInv' /\ dead' = dead
  BY <1>4, DevicesFrame DEF deviceVars
<1>11. /\ WorkersInv' /\ worker'[w] = row
       /\ \A v \in Workers : v # w => worker'[v] = worker[v]
  BY <1>1, <1>4, <1>7, <1>8, <1>9, <1>10, OneWorkerKeeps
<1>12. Ends(delivery', ended)
  <2>1. ended \subseteq In(activeStatuses)
    BY DEF Mine, In, activeStatuses
  <2> QED BY <1>4, <2>1, EndedEnds
<1>13. RowsInv'
  BY <1>4, <1>12, EndingKeepsRows
<1>14. LeaseInv'
  <2>1. ASSUME NEW v \in Workers, worker'[v].claim # 0,
               gate.claim = worker[v].claim, ~gate.lapsed,
               NEW d \in DOMAIN worker'[v].rows
        PROVE  /\ d \in DOMAIN worker[v].rows \/ d \in Mine(v)
               /\ d \in ended => d[1] \in expired
    <3>1. CASE v = w
      BY <1>5, <1>7, <1>11, <2>1, <3>1
    <3>2. CASE v # w
      <4>1. worker'[v] = worker[v]
        BY <1>11, <3>2
      <4>2. d \in Mine(v) \/ d[1] \in expired
        BY <2>1, <4>1 DEF LeaseInv, LeaseProtects
      <4> QED BY <1>1, <2>1, <3>2, <4>1, <4>2, MineIsApart
    <3> QED BY <3>1, <3>2
  <2>2. \A v \in Workers : worker'[v].claim = worker[v].claim
    BY <1>7, <1>11
  <2> HIDE DEF ended
  <2> QED BY <1>4, <1>11, <1>12, <2>1, <2>2, EndingKeepsLease
<1> QED BY <1>10, <1>11, <1>13, <1>14

LEMMA SendKeeps ==
    ASSUME OutboxInv, NEW w \in Workers, SendBatch(w)
    PROVE  OutboxInv'
<1> USE DEF OutboxInv
<1>1. worker[w] \in WorkerRow /\ worker[w].read
  BY DEF SendBatch, WorkersInv
<1>2. PICK rows : rows = worker[w].rows
  OBVIOUS
<1>3. PICK answer \in [DOMAIN rows -> {"ACCEPTED", "REFUSED", "RETRYABLE", "INVALID"}] :
        /\ \A d \in DOMAIN rows : answer[d] \in Answers(rows[d].token)
        /\ worker' = [worker EXCEPT ![w].answer = answer]
        /\ UNCHANGED <<deviceVars, message, delivery, gate, expired, configured>>
  BY <1>2 DEF SendBatch
<1>4. PICK row : row = [worker[w] EXCEPT !.answer = answer]
  OBVIOUS
<1>5. worker' = [worker EXCEPT ![w] = row]
  BY <1>3, <1>4 DEF WorkersInv
<1>6. worker[w] = [x \in {"claim", "read", "rows", "answer"} |-> worker[w][x]]
  BY <1>1 DEF WorkerRow
<1>7. /\ row.read = worker[w].read /\ row.rows = rows
      /\ row.claim = worker[w].claim /\ row.answer = answer
      /\ row = [x \in {"claim", "read", "rows", "answer"} |-> row[x]]
  BY <1>2, <1>4, <1>6
<1>8. row \in WorkerRow
  <2>1. DOMAIN rows \subseteq Deliveries
    BY <1>1, <1>2 DEF WorkerRow, Partial
  <2>2. answer \in Partial({"ACCEPTED", "REFUSED", "RETRYABLE", "INVALID"})
    BY <2>1 DEF Partial
  <2> QED BY <1>1, <1>2, <1>7, <2>2 DEF WorkerRow
<1>9. \A d \in DOMAIN rows : answer[d] = "INVALID" => rows[d].token \subseteq dead
  BY <1>3 DEF Answers
<1>10. row.claim # 0
  BY <1>1, <1>7 DEF WorkersInv, WorkerInv, Idle
<1>11. DevicesInv' /\ dead' = dead
  BY <1>3, DevicesFrame DEF deviceVars
<1>12. /\ WorkersInv' /\ worker'[w] = row
       /\ \A v \in Workers : v # w => worker'[v] = worker[v]
  <2>1. DOMAIN row.answer = DOMAIN row.rows
    BY <1>7
  <2> QED BY <1>1, <1>5, <1>7, <1>8, <1>9, <1>10, <1>11, <2>1, OneWorkerKeeps
<1>13. RowsInv'
  BY <1>3, RowsFrame
<1>14. LeaseInv'
  <2>1. \A v \in Workers : worker'[v].claim = worker[v].claim /\ worker'[v].rows = worker[v].rows
    BY <1>2, <1>7, <1>12
  <2> QED BY <1>3, <2>1 DEF LeaseInv, LeaseIsOne, LeaseProtects, Lapsed, Mine, In
<1> QED BY <1>11, <1>12, <1>13, <1>14

\* A device goes only under the claim, with the token that the answer is about.
LEMMA RecordKeeps ==
    ASSUME OutboxInv, NEW w \in Workers, NEW d \in Deliveries, RecordResult(w, d)
    PROVE  OutboxInv'
<1> USE DEF OutboxInv
<1>1. PICK rows, answer : rows = worker[w].rows /\ answer = worker[w].answer
  OBVIOUS
<1>2. PICK rest : rest = DOMAIN answer \ {d}
  OBVIOUS
<1>3. PICK ended : ended = IF Recordable(w, d) THEN {d} ELSE {}
  OBVIOUS
<1>4. PICK off : off = IF Recordable(w, d) /\ TokenInvalid(w, d) THEN {d[3]} ELSE {}
  OBVIOUS
<1>5. PICK kept, left : kept = [e \in rest |-> rows[e]] /\ left = [e \in rest |-> answer[e]]
  OBVIOUS
<1>6. PICK row : row = [worker[w] EXCEPT !.answer = left, !.rows = kept]
  OBVIOUS
<1>7. worker[w] \in WorkerRow /\ WorkerInv(w)
  BY DEF WorkersInv
<1>8. /\ d \in DOMAIN answer
      /\ device' = SwitchedOff(off, "TOKEN_UNREGISTERED_BY_FIREBASE")
      /\ \E status \in ResultStatus(w, d) : delivery' = Ended(delivery, ended, status)
      /\ UNCHANGED <<session, dead, message, gate, expired, configured>>
  BY <1>1, <1>3, <1>4 DEF RecordResult
<1>9. worker[w] = [x \in {"claim", "read", "rows", "answer"} |-> worker[w][x]]
  BY <1>7 DEF WorkerRow
<1>10. worker' = [worker EXCEPT ![w] = row]
  BY <1>1, <1>2, <1>5, <1>6, <1>9 DEF RecordResult, WorkersInv
<1>11. /\ row.read = worker[w].read /\ row.rows = kept
       /\ row.claim = worker[w].claim /\ row.answer = left
       /\ row = [x \in {"claim", "read", "rows", "answer"} |-> row[x]]
  BY <1>6, <1>9
<1>12. /\ rest \subseteq DOMAIN answer /\ DOMAIN answer \subseteq DOMAIN rows
       /\ DOMAIN rows \subseteq Deliveries
       /\ rows \in [DOMAIN rows -> [token : SUBSET Tokens, version : 0..MaxVersion]]
       /\ answer \in [DOMAIN answer -> {"ACCEPTED", "REFUSED", "RETRYABLE", "INVALID"}]
  BY <1>1, <1>2, <1>7 DEF WorkerInv, WorkerRow, Partial
<1>13. row \in WorkerRow
  <2>1. /\ kept \in [rest -> [token : SUBSET Tokens, version : 0..MaxVersion]]
        /\ left \in [rest -> {"ACCEPTED", "REFUSED", "RETRYABLE", "INVALID"}]
    BY <1>5, <1>12
  <2>2. /\ kept \in Partial([token : SUBSET Tokens, version : 0..MaxVersion])
        /\ left \in Partial({"ACCEPTED", "REFUSED", "RETRYABLE", "INVALID"})
    BY <1>12, <2>1 DEF Partial
  <2> QED BY <1>7, <1>11, <2>2 DEF WorkerRow
<1>14. DOMAIN kept = rest /\ DOMAIN left = rest
  BY <1>5
<1>15. /\ \A e \in DOMAIN answer : answer[e] = "INVALID" => rows[e].token \subseteq dead
  BY <1>1, <1>7 DEF WorkerInv
<1>16. \A e \in DOMAIN left : left[e] = "INVALID" => kept[e].token \subseteq dead
  BY <1>5, <1>12, <1>14, <1>15
<1>17. worker[w].claim # 0 /\ worker[w].read
  BY <1>1, <1>7, <1>8, <1>12 DEF WorkerInv, Idle
<1>18. DevicesInv' /\ dead' = dead
  <2>1. "TOKEN_UNREGISTERED_BY_FIREBASE" \in DeviceReason
    BY DEF DeviceReason
  <2>2. /\ device' \in [Installs -> DeviceRow]
        /\ \A i \in Installs : /\ device'[i].token = device[i].token
                               /\ i \notin off => device'[i].reason = device[i].reason
    BY <1>8, <2>1, SwitchedOffRows DEF DevicesInv
  <2>3. \A i \in off : device[i].token \subseteq dead
    BY <1>1, <1>4, <1>8, <1>15 DEF TokenInvalid
  <2> QED BY <1>8, <2>2, <2>3 DEF DevicesInv, OnlyDeadTokensGo
<1>19. /\ WorkersInv' /\ worker'[w] = row
       /\ \A v \in Workers : v # w => worker'[v] = worker[v]
  BY <1>10, <1>11, <1>13, <1>14, <1>16, <1>17, <1>18, OneWorkerKeeps
<1>20. ended \subseteq Mine(w) /\ ended \subseteq {d}
  BY <1>3 DEF Recordable
<1>21. Ends(delivery', ended)
  <2>1. ended \subseteq In(activeStatuses)
    BY <1>20 DEF Mine, In, activeStatuses
  <2>2. ResultStatus(w, d) \subseteq {"ACCEPTED", "FAILED", "SKIPPED", "RETRY"}
    BY DEF ResultStatus
  <2> QED BY <1>8, <2>1, <2>2, EndedEnds
<1>22. RowsInv'
  BY <1>8, <1>21, EndingKeepsRows
<1>23. LeaseInv'
  <2>1. ASSUME NEW v \in Workers, worker'[v].claim # 0,
               gate.claim = worker[v].claim, ~gate.lapsed,
               NEW e \in DOMAIN worker'[v].rows
        PROVE  /\ e \in DOMAIN worker[v].rows \/ e \in Mine(v)
               /\ e \in ended => e[1] \in expired
    <3>1. CASE v = w
      BY <1>1, <1>2, <1>11, <1>12, <1>14, <1>19, <1>20, <2>1, <3>1
    <3>2. CASE v # w
      <4>1. worker'[v] = worker[v]
        BY <1>19, <3>2
      <4>2. e \in Mine(v) \/ e[1] \in expired
        BY <2>1, <4>1 DEF LeaseInv, LeaseProtects
      <4> QED BY <1>17, <1>20, <2>1, <3>2, <4>1, <4>2, MineIsApart
    <3> QED BY <3>1, <3>2
  <2>2. \A v \in Workers : worker'[v].claim = worker[v].claim
    BY <1>11, <1>19
  <2> QED BY <1>8, <1>19, <1>21, <2>1, <2>2, EndingKeepsLease
<1> QED BY <1>18, <1>19, <1>22, <1>23

LEMMA LeavingKeeps ==
    ASSUME OutboxInv, NEW w \in Workers, Release(w) \/ StopWorker(w)
    PROVE  OutboxInv'
<1> USE DEF OutboxInv
<1>1. /\ worker' = [worker EXCEPT ![w] = Idle]
      /\ UNCHANGED <<deviceVars, message, delivery, expired, configured>>
      /\ gate' = gate \/ gate' = NoLease
  BY DEF Release, StopWorker
<1>2. DevicesInv' /\ dead' = dead
  BY <1>1, DevicesFrame DEF deviceVars
<1>3. /\ WorkersInv' /\ worker'[w] = Idle
      /\ \A v \in Workers : v # w => worker'[v] = worker[v]
  <2>1. Idle.claim = 0 /\ Idle.read = FALSE /\ Idle.rows = <<>> /\ Idle.answer = <<>>
    BY DEF Idle
  <2>2. DOMAIN Idle.answer = {}
    BY <2>1
  <2> QED BY <1>1, <1>2, <2>1, <2>2, IdleRow, OneWorkerKeeps
<1>4. RowsInv'
  BY <1>1, RowsFrame
<1>5. LeaseInv'
  <2>1. gate' \in [claim : {0} \cup Claims, lapsed : BOOLEAN]
    <3>1. NoLease \in [claim : {0} \cup Claims, lapsed : BOOLEAN]
      BY DEF NoLease
    <3>2. gate \in [claim : {0} \cup Claims, lapsed : BOOLEAN]
      BY DEF LeaseInv
    <3> QED BY <1>1, <3>1, <3>2
  <2>2. LeaseIsOne'
    BY <1>1 DEF LeaseInv, LeaseIsOne, Lapsed, NoLease
  <2>3. LeaseProtects'
    <3> SUFFICES ASSUME NEW v \in Workers, gate'.claim = worker'[v].claim, ~gate'.lapsed,
                        NEW d \in DOMAIN worker'[v].rows
                 PROVE  d \in Mine(v)' \/ d[1] \in expired
      BY <1>1 DEF LeaseProtects
    <3>1. worker'[v] # Idle
      <4>1. DOMAIN Idle.rows = {}
        BY DEF Idle
      <4> QED BY <4>1
    <3>2. worker'[v] = worker[v] /\ worker'[v].claim # 0
      BY <1>3, <3>1 DEF WorkersInv, WorkerInv, Idle
    <3>3. gate' = gate
      BY <1>1, <3>2 DEF NoLease
    <3>4. Mine(v)' = Mine(v)
      BY <1>1, <3>2 DEF Mine, In
    <3> QED BY <3>2, <3>3, <3>4 DEF LeaseInv, LeaseProtects
  <2> QED BY <2>1, <2>2, <2>3 DEF LeaseInv, Claims, Deliveries
<1> QED BY <1>2, <1>3, <1>4, <1>5

-----------------------------------------------------------------------------
(* The clock and the operator *)

LEMMA LapseKeeps ==
    ASSUME OutboxInv, NEW c \in Claims, LeaseLapses(c)
    PROVE  OutboxInv'
<1> USE DEF OutboxInv
<1>1. /\ gate' = IF gate.claim = c THEN [gate EXCEPT !.lapsed = TRUE] ELSE gate
      /\ UNCHANGED <<deviceVars, message, worker, expired, configured>>
  BY DEF LeaseLapses
<1>2. ASSUME NEW d \in Deliveries
      PROVE  /\ delivery'[d] \in DeliveryRow
             /\ delivery'[d].status = delivery[d].status
             /\ delivery'[d].claim = delivery[d].claim
             /\ delivery'[d].lapsed = IF delivery[d].claim = c THEN TRUE ELSE delivery[d].lapsed
  <2>1. delivery[d] \in DeliveryRow
    BY DEF RowsInv
  <2>2. delivery'[d] = IF delivery[d].claim = c THEN [delivery[d] EXCEPT !.lapsed = TRUE]
                       ELSE delivery[d]
    BY DEF LeaseLapses
  <2> QED BY <2>1, <2>2 DEF DeliveryRow
<1>3. delivery' = [d \in Deliveries |-> delivery'[d]]
  BY DEF LeaseLapses
<1>4. delivery' \in [Deliveries -> DeliveryRow] /\ RowsClaimed(delivery')
  BY <1>2, <1>3 DEF RowsInv, RowsClaimed
<1>5. RowsInv'
  BY <1>1, <1>2, <1>4, RowsKeep
<1>6. DevicesInv' /\ dead' = dead
  BY <1>1, DevicesFrame DEF deviceVars
<1>7. WorkersInv'
  BY <1>1, <1>6, WorkersFrame
<1>8. LeaseInv'
  <2>1. /\ gate' \in [claim : {0} \cup Claims, lapsed : BOOLEAN]
        /\ gate'.claim = gate.claim
        /\ gate'.lapsed = IF gate.claim = c THEN TRUE ELSE gate.lapsed
    BY <1>1 DEF LeaseInv
  <2>2. LeaseIsOne'
    BY <1>2, <2>1 DEF LeaseInv, LeaseIsOne, Lapsed
  <2>3. \A v \in Workers : Mine(v)' = Mine(v)
    BY <1>1, <1>2 DEF Mine, In
  <2>4. LeaseProtects'
    BY <1>1, <2>1, <2>3 DEF LeaseInv, LeaseProtects
  <2> QED BY <2>1, <2>2, <2>4 DEF LeaseInv, Claims, Deliveries
<1> QED BY <1>5, <1>6, <1>7, <1>8

LEMMA OutboxInitially == OutboxInit => OutboxInv
<1> SUFFICES ASSUME OutboxInit PROVE OutboxInv
  OBVIOUS
<1>1. DevicesInv
  BY PushDevicesAssumption
     DEF OutboxInit, DevicesInit, DevicesInv, LoginStatus, DeviceRow, DeviceReason,
         OnlyDeadTokensGo
<1>2. RowsInv
  <2>1. message \in [Messages -> MessageRow] /\ delivery \in [Deliveries -> DeliveryRow]
    BY PushDevicesAssumption DEF OutboxInit, MessageRow, DeliveryRow, DeliveryStatus
  <2> QED BY <2>1 DEF OutboxInit, RowsInv, RowsClaimed, Expanded, Of, FinalStatusIsTrue,
                       finalStatuses
<1>3. WorkersInv
  <2>1. \A w \in Workers : worker[w] = Idle
    BY DEF OutboxInit
  <2>2. Idle.claim = 0 /\ Idle.rows = <<>> /\ Idle.answer = <<>>
    BY DEF Idle
  <2>3. \A w \in Workers : WorkerInv(w)
    BY <2>1, <2>2, IdleRow DEF WorkerInv
  <2> QED BY <2>1, <2>2, <2>3, IdleRow DEF OutboxInit, WorkersInv, ClaimsApart
<1>4. LeaseInv
  <2>1. gate = NoLease /\ \A w \in Workers : DOMAIN worker[w].rows = {}
    BY DEF OutboxInit, Idle
  <2> QED BY <2>1 DEF LeaseInv, LeaseIsOne, LeaseProtects, NoLease
<1> QED BY <1>1, <1>2, <1>3, <1>4 DEF OutboxInv

LEMMA OutboxStep == OutboxInv /\ [OutboxNext]_allVars => OutboxInv'
<1> SUFFICES ASSUME OutboxInv, [OutboxNext]_allVars PROVE OutboxInv'
  OBVIOUS
<1> USE DEF OutboxInv
<1>1. CASE DevicesNext /\ UNCHANGED outboxVars
  <2>1. DevicesInv' /\ dead \subseteq dead'
    BY <1>1, DevicesKeep
  <2> QED BY <1>1, <2>1, RowsFrame, WorkersFrame, LeaseFrame DEF outboxVars
<1>2. CASE UNCHANGED <<deviceVars, message, delivery, gate, worker>> /\ expired \subseteq expired'
  <2>1. DevicesInv' /\ dead' = dead
    BY <1>2, DevicesFrame DEF deviceVars
  <2> QED BY <1>2, <2>1, RowsFrame, WorkersFrame, LeaseFrame
<1>3. ASSUME NEW m \in Messages, NEW audience \in SUBSET Users, Enqueue(m, audience)
      PROVE  OutboxInv'
  BY <1>3, EnqueueKeeps
<1>4. ASSUME NEW w \in Workers, WorkerNext(w) PROVE OutboxInv'
  <2>1. CASE \E m \in Messages, u \in Users : ExpandRecipients(w, m, u)
    BY <2>1, ExpandKeeps
  <2>2. CASE Claim(w)
    BY <2>2, ClaimNothingKeeps, ClaimBatchKeeps DEF Claim
  <2>3. CASE ReadBatch(w)
    BY <2>3, ReadKeeps
  <2>4. CASE \E d \in Deliveries : RecordResult(w, d)
    BY <2>4, RecordKeeps
  <2>5. CASE SendBatch(w)
    BY <2>5, SendKeeps
  <2>6. CASE Release(w) \/ StopWorker(w)
    BY <2>6, LeavingKeeps
  <2>7. CASE FinishMessages(w)
    BY <2>7, FinishKeeps
  <2> QED BY <1>4, <2>1, <2>2, <2>3, <2>4, <2>5, <2>6, <2>7 DEF WorkerNext
<1>5. ASSUME NEW c \in Claims, LeaseLapses(c) PROVE OutboxInv'
  BY <1>5, LapseKeeps
<1>6. ASSUME NEW m \in Messages, MessageExpires(m) PROVE OutboxInv'
  BY <1>2, <1>6 DEF MessageExpires
<1>7. CASE Configure
  BY <1>2, <1>7 DEF Configure
<1>8. CASE UNCHANGED allVars
  BY <1>2, <1>8 DEF allVars, outboxVars
<1> QED BY <1>1, <1>3, <1>4, <1>5, <1>6, <1>7, <1>8 DEF OutboxNext

-----------------------------------------------------------------------------
(* Theorems *)

LEMMA OutboxInvariant == OutboxSpec => []OutboxInv
  BY OutboxInitially, OutboxStep, PTL DEF OutboxSpec

\* The rows of messages and deliveries keep their types, no two workers have the same
\* claim, and exactly the rows under way have one.
THEOREM OutboxTypes == OutboxSpec => []OutboxTypeOK
<1>1. OutboxInv => OutboxTypeOK
  BY DEF OutboxInv, RowsInv, RowsClaimed, MessageRow, DeliveryRow, DeliveryStatus,
         WorkersInv, ClaimsApart, OutboxTypeOK
<1> QED BY <1>1, OutboxInvariant, PTL

\* While a lease lasts nobody but its worker decides about its rows, however many
\* workers stop, outlive their leases and record late results
\* (notification.worker.ts lines 215-337).
THEOREM LeasesProtect == OutboxSpec => []LeaseProtects
<1>1. OutboxInv => LeaseProtects
  BY DEF OutboxInv, LeaseInv
<1> QED BY <1>1, OutboxInvariant, PTL

\* A late answer never switches off a device that has registered a new token
\* (notification.worker.ts line 355).
THEOREM LivingTokensStay == OutboxSpec => []OnlyDeadTokensGo
<1>1. OutboxInv => OnlyDeadTokensGo
  BY DEF OutboxInv, DevicesInv
<1> QED BY <1>1, OutboxInvariant, PTL

\* A final status is never taken back by a late recipient or a late result
\* (notification.worker.ts line 371).
THEOREM FinalStatusesStay == OutboxSpec => []FinalStatusIsTrue
<1>1. OutboxInv => FinalStatusIsTrue
  BY DEF OutboxInv, RowsInv
<1> QED BY <1>1, OutboxInvariant, PTL

-----------------------------------------------------------------------------
(* Attempts *)

TriesFit ==
    \A d \in Deliveries :
        /\ delivery[d].attempts <= MaxAttempts
        /\ delivery[d].status = "NONE" => delivery[d].attempts = 0
        /\ delivery[d].status \in {"PENDING", "RETRY"} => delivery[d].attempts < MaxAttempts

\* A push is tried at most MaxAttempts times, and a row that is not finished is one
\* that the next claim closes or takes, or is under way in a lease that will lapse:
\* none waits with its attempts used up.
RowsGoOn ==
    \A d \in Deliveries :
        /\ delivery[d].attempts <= MaxAttempts
        /\ d \in In(activeStatuses) =>
              \/ d \in Overdue \cup Exhausted \cup Due({})
              \/ delivery[d].status = "PROCESSING" /\ ~Lapsed(d)

\* What a step does to a row.
RowMoves(d) ==
    LET row == delivery[d]
        new == delivery'[d] IN
    \/ /\ new.attempts = row.attempts
       /\ \/ new.status = row.status
          \/ new.status \in {"ACCEPTED", "FAILED", "SKIPPED"}
          \/ new.status = "PENDING" /\ row.status = "NONE"
          \/ new.status = "RETRY" /\ row.attempts < MaxAttempts
    \/ /\ new.attempts = row.attempts + 1 /\ row.attempts < MaxAttempts
       /\ new.status = "PROCESSING"

LEMMA EndedMoves ==
    ASSUME NEW rows \in [Deliveries -> DeliveryRow], NEW ended \in SUBSET Deliveries, NEW status,
           NEW d \in Deliveries
    PROVE  /\ Ended(rows, ended, status)[d].attempts = rows[d].attempts
           /\ Ended(rows, ended, status)[d].status
                = IF d \in ended THEN status ELSE rows[d].status
BY DEF Ended, DeliveryRow

LEMMA SweptMoves ==
    ASSUME RowsInv, NEW old \in SUBSET Attempted, NEW d \in Deliveries
    PROVE  /\ Swept(old)[d].attempts = delivery[d].attempts
           /\ \/ Swept(old)[d].status = delivery[d].status
              \/ Swept(old)[d].status \in {"FAILED", "SKIPPED"}
           /\ DOMAIN Swept(old)[d] = DOMAIN delivery[d]
<1>1. delivery[d] \in DeliveryRow
  BY DEF RowsInv
<1> QED BY <1>1 DEF Swept, Ended, DeliveryRow

LEMMA RowsMove ==
    ASSUME OutboxInv, [OutboxNext]_allVars, NEW d \in Deliveries
    PROVE  RowMoves(d)
<1> USE DEF OutboxInv
<1>1. /\ delivery \in [Deliveries -> DeliveryRow] /\ delivery[d] \in DeliveryRow
      /\ Expanded
  BY DEF RowsInv
<1>2. ASSUME delivery' = delivery PROVE RowMoves(d)
  BY <1>2 DEF RowMoves
<1>3. ASSUME NEW w \in Workers, NEW m \in Messages, NEW u \in Users, ExpandRecipients(w, m, u)
      PROVE  RowMoves(d)
  <2>1. CASE d[1] = m /\ d[2] = u /\ Reachable(d[3], u)
    <3>1. /\ delivery'[d].status = "PENDING" /\ delivery'[d].attempts = delivery[d].attempts
          /\ u \in message[m].waiting
      BY <1>1, <1>3, <2>1 DEF ExpandRecipients, DeliveryRow
    <3>2. delivery[d].status = "NONE"
      BY <1>1, <2>1, <3>1 DEF Expanded, Of
    <3> QED BY <3>1, <3>2 DEF RowMoves
  <2>2. CASE ~(d[1] = m /\ d[2] = u /\ Reachable(d[3], u))
    BY <1>3, <2>2 DEF ExpandRecipients, RowMoves
  <2> QED BY <2>1, <2>2
<1>4. ASSUME NEW w \in Workers, NEW old \in SUBSET Attempted, ClaimNothing(w, old)
      PROVE  RowMoves(d)
  BY <1>4, SweptMoves DEF ClaimNothing, RowMoves
<1>5. ASSUME NEW w \in Workers, NEW old \in SUBSET Attempted, NEW batch,
             ClaimBatch(w, old, batch)
      PROVE  RowMoves(d)
  <2>1. CASE d \in batch
    <3>1. delivery[d].attempts < MaxAttempts
      BY <1>5, <2>1 DEF ClaimBatch, Due
    <3>2. /\ DOMAIN Swept(old)[d] = {"status", "version", "attempts", "claim", "lapsed"}
          /\ Swept(old)[d].attempts = delivery[d].attempts
      BY <1>1, SweptMoves DEF DeliveryRow
    <3>3. delivery'[d] = [Swept(old)[d] EXCEPT !.status = "PROCESSING", !.claim = FreshClaim,
                                               !.lapsed = FALSE, !.attempts = @ + 1]
      BY <1>5, <2>1 DEF ClaimBatch
    <3>4. delivery'[d].status = "PROCESSING" /\ delivery'[d].attempts = delivery[d].attempts + 1
      BY <3>2, <3>3
    <3> QED BY <3>1, <3>4 DEF RowMoves
  <2>2. CASE d \notin batch
    <3>1. delivery'[d] = Swept(old)[d]
      BY <1>5, <2>2 DEF ClaimBatch
    <3> QED BY <3>1, SweptMoves DEF RowMoves
  <2> QED BY <2>1, <2>2
<1>6. ASSUME NEW w \in Workers, ReadBatch(w) PROVE RowMoves(d)
  <2>1. {e \in Mine(w) : ~Sendable(e)} \in SUBSET Deliveries
    BY DEF Mine, In
  <2> QED BY <1>1, <1>6, <2>1, EndedMoves DEF ReadBatch, RowMoves
<1>7. ASSUME NEW w \in Workers, NEW e \in Deliveries, RecordResult(w, e) PROVE RowMoves(d)
  <2>1. PICK status \in ResultStatus(w, e) :
           delivery' = Ended(delivery, IF Recordable(w, e) THEN {e} ELSE {}, status)
    BY <1>7 DEF RecordResult
  <2>2. (IF Recordable(w, e) THEN {e} ELSE {}) \in SUBSET Deliveries
    OBVIOUS
  <2>3. /\ delivery'[d].attempts = delivery[d].attempts
        /\ delivery'[d].status = IF d \in (IF Recordable(w, e) THEN {e} ELSE {})
                                 THEN status ELSE delivery[d].status
    BY <1>1, <2>1, <2>2, EndedMoves
  <2>4. \/ status \in {"ACCEPTED", "FAILED"}
        \/ status = "RETRY" /\ delivery[e].attempts < MaxAttempts
    BY DEF ResultStatus
  <2> QED BY <2>3, <2>4 DEF RowMoves
<1>8. ASSUME NEW w \in Workers, FinishMessages(w) PROVE RowMoves(d)
  <2>1. Overdue \in SUBSET Deliveries
    BY DEF Overdue, In
  <2> QED BY <1>1, <1>8, <2>1, EndedMoves DEF FinishMessages, RowMoves
<1>9. ASSUME NEW c \in Claims, LeaseLapses(c) PROVE RowMoves(d)
  <2>1. delivery'[d] = IF delivery[d].claim = c THEN [delivery[d] EXCEPT !.lapsed = TRUE]
                       ELSE delivery[d]
    BY <1>9 DEF LeaseLapses
  <2> QED BY <1>1, <2>1 DEF RowMoves, DeliveryRow
<1>10. ASSUME NEW w \in Workers, SendBatch(w) \/ Release(w) \/ StopWorker(w)
       PROVE  RowMoves(d)
  BY <1>2, <1>10 DEF SendBatch, Release, StopWorker
<1>11. CASE \/ DevicesNext /\ UNCHANGED outboxVars
            \/ \E m \in Messages : (\E audience \in SUBSET Users : Enqueue(m, audience))
                                   \/ MessageExpires(m)
            \/ Configure \/ UNCHANGED allVars
  BY <1>2, <1>11 DEF outboxVars, allVars, Enqueue, MessageExpires, Configure
<1>12. ASSUME NEW w \in Workers, Claim(w) PROVE RowMoves(d)
  BY <1>4, <1>5, <1>12 DEF Claim
<1> QED BY <1>3, <1>6, <1>7, <1>8, <1>9, <1>10, <1>11, <1>12 DEF OutboxNext, WorkerNext

\* No push is sent more often than the code allows, and none is forgotten: a row
\* whose attempts are used up is closed or under way, never waiting, although results
\* come late, workers stop and leases lapse (notification.worker.ts lines 127-182,
\* 297-327).
THEOREM NobodyIsForgotten == OutboxSpec => []RowsGoOn
<1>1. OutboxInit => TriesFit
  BY OutboxAssumption DEF OutboxInit, TriesFit
<1>2. OutboxInv /\ TriesFit /\ [OutboxNext]_allVars => TriesFit'
  <2> SUFFICES ASSUME OutboxInv, TriesFit, [OutboxNext]_allVars, NEW d \in Deliveries
               PROVE  /\ delivery'[d].attempts <= MaxAttempts
                      /\ delivery'[d].status = "NONE" => delivery'[d].attempts = 0
                      /\ delivery'[d].status \in {"PENDING", "RETRY"}
                            => delivery'[d].attempts < MaxAttempts
    BY DEF TriesFit, Deliveries
  <2>1. delivery[d].attempts \in Nat /\ MaxAttempts \in Nat \ {0}
    BY OutboxAssumption DEF OutboxInv, RowsInv, DeliveryRow
  <2> QED BY <2>1, RowsMove DEF RowMoves, TriesFit
<1>3. OutboxInv /\ TriesFit => RowsGoOn
  <2> SUFFICES ASSUME OutboxInv, TriesFit, NEW d \in Deliveries, d \in In(activeStatuses),
                      d \notin Overdue \cup Exhausted,
                      delivery[d].status = "PROCESSING" => Lapsed(d)
               PROVE  d \in Due({})
    BY DEF RowsGoOn, TriesFit
  <2>1. d \in Waiting
    BY DEF Waiting, In, activeStatuses
  <2>2. delivery[d].attempts < MaxAttempts
    <3>1. delivery[d].attempts \in Nat /\ MaxAttempts \in Nat
      BY OutboxAssumption DEF OutboxInv, RowsInv, DeliveryRow
    <3> QED BY <3>1 DEF TriesFit, Exhausted, In, activeStatuses
  <2> QED BY <2>1, <2>2 DEF Due
<1> QED BY <1>1, <1>2, <1>3, OutboxInvariant, PTL DEF OutboxSpec
=============================================================================

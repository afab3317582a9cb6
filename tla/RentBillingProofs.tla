-------------------------- MODULE RentBillingProofs --------------------------
(***************************************************************************)
(* Proofs about RentBilling for any period, unit, policies, horizon and    *)
(* number of exchanges.  RentOnce alone is not inductive: a period is      *)
(* charged completely only because what an exchange charged for reaches    *)
(* from the start of its version to the end of that period (ExchangeCharges*)
(* and ScheduleFits), and twice by nobody because older rents end where the*)
(* next period starts (RentIsPast).  The end of a window is not the        *)
(* boundary of the engine but less than a second from it: BoundariesNear   *)
(* relates the two, and LeftOut and Lap name what falls in between.        *)
(*                                                                         *)
(* That periods resolve follows from the order of the versions alone       *)
(* (VersionsChain), which needs to know when a version is pending          *)
(* (ExchangeFits). That postpaid rent is charged once needs both: an       *)
(* exchange that is not completed leaves a pending version behind, which   *)
(* stops the engine before it bills into the days that the exchange        *)
(* charges for (PendingBlocks), and afterwards the rent starts where the   *)
(* exchange's charge ends (PostpaidInv), up to the distance of the         *)
(* boundaries.                                                             *)
(*                                                                         *)
(* The rent of an agreement that ended can be billed to its end: periods   *)
(* lie behind the schedule, which closes only at the end (EndingInv).      *)
(***************************************************************************)
EXTENDS RentBilling, WellFoundedInduction, TLAPS

-----------------------------------------------------------------------------
(* Windows *)

\* The window of a moment ends after it, at most a period later.
LEMMA WindowFacts ==
    ASSUME NEW at \in Nat, Anchor <= at
    PROVE  /\ WindowEnd(at) \in Nat
           /\ at < WindowEnd(at)
           /\ WindowEnd(at) <= at + Period
           /\ UnitsLeft(at) \in Nat
<1> DEFINE x == at - Anchor
<1>1. x \in Nat /\ Anchor \in Nat
  BY BillingAssumption
<1>2. x % Period \in 0..(Period - 1)
  BY <1>1, BillingAssumption
<1>3. WindowEnd(at) = at - (x % Period) + Period
  BY DEF WindowEnd
<1>4. x % Period <= x /\ x <= at
  BY <1>1, BillingAssumption
<1> HIDE DEF x
<1>5. WindowEnd(at) \in Nat /\ at < WindowEnd(at) /\ WindowEnd(at) <= at + Period
  BY <1>1, <1>2, <1>3, <1>4, BillingAssumption
<1>6. WindowEnd(at) - at + Unit - 1 \in Nat
  BY <1>5, BillingAssumption
<1>7. \A y \in Nat : y \div Unit \in Nat
  BY BillingAssumption
<1> QED BY <1>5, <1>6, <1>7 DEF UnitsLeft

\* Multiplication keeps order.
LEMMA TimesMonotone ==
    ASSUME NEW p \in Nat, NEW x \in Nat, NEW y \in Nat, x <= y
    PROVE  p * x <= p * y
<1>1. p * (y - x) >= 0
  OBVIOUS
<1>2. p * (y - x) = p * y - p * x
  OBVIOUS
<1> QED BY <1>1, <1>2

\* What is left of a number of periods and less than one more.
LEMMA RestOf ==
    ASSUME NEW a \in Nat, NEW y \in 0..(Period - 1), NEW x \in Nat, x = Period * a + y
    PROVE  x % Period = y
<1> DEFINE c == x \div Period
<1>1. c \in Nat /\ x = Period * c + (x % Period) /\ x % Period \in 0..(Period - 1)
  BY BillingAssumption
<1>2. ~(a + 1 <= c)
  <2>1. Period * (a + 1) = Period * a + Period
    BY <1>1, BillingAssumption
  <2> QED BY <1>1, <2>1, TimesMonotone, BillingAssumption
<1>3. ~(c + 1 <= a)
  <2>1. Period * (c + 1) = Period * c + Period
    BY <1>1, BillingAssumption
  <2> QED BY <1>1, <2>1, TimesMonotone, BillingAssumption
<1>4. a = c
  BY <1>1, <1>2, <1>3
<1> QED BY <1>1, <1>4, BillingAssumption

\* Moments of the period with number q have the engine's period end where it ends.
LEMMA EngineEndOf ==
    ASSUME NEW q \in Nat, NEW at \in Nat,
           Period * q <= at, at < Period * q + Period
    PROVE  EngineEnd(at) = Period * q + Period
<1> DEFINE a == at \div Period
<1>1. a \in Nat /\ at = Period * a + (at % Period) /\ at % Period \in 0..(Period - 1)
  BY BillingAssumption
<1>2. ~(a + 1 <= q)
  <2>1. Period * (a + 1) = Period * a + Period
    BY <1>1, BillingAssumption
  <2> QED BY <1>1, <2>1, TimesMonotone, BillingAssumption
<1>3. ~(q + 1 <= a)
  <2>1. Period * (q + 1) = Period * q + Period
    BY BillingAssumption
  <2> QED BY <1>1, <2>1, TimesMonotone, BillingAssumption
<1>4. a = q
  BY <1>1, <1>2, <1>3
<1> QED BY <1>1, <1>4, BillingAssumption DEF EngineEnd

\* The anchor's boundary is what the anchor has below a second behind the engine's,
\* but in the first moments of the engine's period, which are in the window before.
LEMMA BoundariesNear ==
    ASSUME NEW at \in Nat, Anchor <= at
    PROVE  /\ EngineEnd(at) \in Nat
           /\ \/ WindowEnd(at) = EngineEnd(at) + Anchor
              \/ /\ at % Period < Anchor
                 /\ WindowEnd(at) = EngineEnd(at) - Period + Anchor
<1> DEFINE a == at \div Period
           b == at % Period
           x == at - Anchor
<1>1. /\ a \in Nat /\ at = Period * a + b /\ b \in 0..(Period - 1)
      /\ Anchor \in Nat /\ Anchor < Period /\ Period \in Nat /\ x \in Nat
  BY BillingAssumption
<1>2. Period * a \in Nat
  BY <1>1
<1>3. EngineEnd(at) = Period * a + Period
  <2> HIDE DEF a, b
  <2> QED BY <1>1, <1>2 DEF EngineEnd, b
<1>4. x = Period * a + (b - Anchor)
  <2> HIDE DEF a, b
  <2> QED BY <1>1, <1>2
<1>5. WindowEnd(at) = at - (x % Period) + Period
  BY DEF WindowEnd
<1> HIDE DEF b, x
<1>6. CASE b >= Anchor
  <2>1. x % Period = b - Anchor
    <3>1. b - Anchor \in 0..(Period - 1)
      BY <1>1, <1>6
    <3> QED BY <1>1, <1>2, <1>4, <3>1, RestOf
  <2> HIDE DEF a
  <2> QED BY <1>1, <1>2, <1>3, <1>5, <2>1
<1>7. CASE b < Anchor
  <2>1. a # 0
    <3> HIDE DEF a
    <3>1. Period * 0 = 0
      BY <1>1
    <3> QED BY <1>1, <1>7, <3>1
  <2>2. a - 1 \in Nat /\ Period * a = Period * (a - 1) + Period
    BY <1>1, <2>1
  <2>3. x % Period = Period + b - Anchor
    <3>1. Period + b - Anchor \in 0..(Period - 1)
      BY <1>1, <1>7
    <3>2. x = Period * (a - 1) + (Period + b - Anchor)
      BY <1>1, <1>4, <2>2
    <3> QED BY <1>1, <2>2, <3>1, <3>2, RestOf
  <2> HIDE DEF a
  <2> QED BY <1>1, <1>2, <1>3, <1>5, <1>7, <2>3 DEF b
<1> QED BY <1>1, <1>3, <1>6, <1>7

-----------------------------------------------------------------------------
(* The inductive invariant: how versions follow each other, and where charges
   lie relative to them and to the schedule. *)

Pending(k) == version[k].status = "PENDING"

VersionsChain ==
    /\ Len(version) >= 1
    /\ version[1].from = Anchor /\ version[1].starts = Anchor
    /\ \A k \in DOMAIN version : version[k].from <= now
    /\ \A j, k \in DOMAIN version : j < k => version[j].from <= version[k].from
    /\ \A k \in DOMAIN version : k < Len(version) /\ ~Pending(k + 1)
                                    => version[k].to = version[k + 1].from
    /\ version[Len(version)].to = Never
    /\ \A k \in DOMAIN version : Pending(k) => k = Len(version) /\ k >= 2
    /\ \A k \in DOMAIN version : ~Pending(k) => version[k].from <= version[k].starts

ExchangeFits ==
    /\ exchange.status \in {"ACCEPTED", "HANDED"} <=> Pending(Len(version))
    /\ exchange.status = "HANDED" => /\ version[Len(version)].from <= exchange.handed
                                     /\ exchange.handed <= now

ScheduleFits ==
    /\ schedule.next >= Anchor
    /\ schedule.status = "ACTIVE" =>
          schedule.next = Anchor \/ \E q \in Nat : schedule.next = Period * q

\* An exchange charge is about a version in force since, to the end of the window.
ExchangeCharges ==
    \A c \in charge : c.kind = "PRORATION" =>
        /\ c.version \in DOMAIN version /\ ~Pending(c.version)
        /\ c.from = version[c.version].from
        /\ c.to = WindowEnd(c.from)

RentIsPast == \A c \in charge : c.kind = "RENT" => c.to <= schedule.next

BillingInv ==
    /\ BillingTypeOK
    /\ VersionsChain
    /\ ExchangeFits
    /\ ScheduleFits
    /\ ExchangeCharges
    /\ RentIsPast
    /\ RentOnce

\* Versions and their times have their types.
LEMMA Rows ==
    ASSUME BillingTypeOK
    PROVE  /\ Len(version) \in Nat
           /\ DOMAIN version = 1..Len(version)
           /\ \A k \in DOMAIN version :
                 /\ version[k] \in VersionRow
                 /\ version[k].from \in Nat /\ version[k].to \in Nat
                 /\ version[k].starts \in Nat
<1>1. version \in Seq(VersionRow)
  BY DEF BillingTypeOK
<1>2. \A k \in DOMAIN version : version[k] \in VersionRow
  BY <1>1
<1> QED BY <1>1, <1>2 DEF VersionRow

\* Nothing is before the anchor.
LEMMA FromAnchor ==
    ASSUME BillingTypeOK, VersionsChain, ExchangeFits
    PROVE  /\ Anchor \in Nat
           /\ now \in Nat /\ Anchor <= now
           /\ \A k \in DOMAIN version : Anchor <= version[k].from
           /\ exchange.status = "HANDED" =>
                 exchange.handed \in Nat /\ Anchor <= exchange.handed
<1>1. /\ Anchor \in Nat /\ now \in Nat /\ exchange.handed \in Nat
      /\ Len(version) \in Nat /\ DOMAIN version = 1..Len(version) /\ Len(version) >= 1
      /\ \A k \in DOMAIN version : version[k].from \in Nat
  BY BillingAssumption, Rows DEF BillingTypeOK, VersionsChain
<1>2. \A k \in DOMAIN version : Anchor <= version[k].from
  <2>1. ASSUME NEW k \in DOMAIN version PROVE Anchor <= version[k].from
    <3>1. 1 \in DOMAIN version /\ (k = 1 \/ 1 < k)
      BY <1>1, <2>1
    <3>2. 1 < k => version[1].from <= version[k].from
      BY <2>1, <3>1 DEF VersionsChain
    <3> QED BY <1>1, <2>1, <3>1, <3>2 DEF VersionsChain
  <2> QED BY <2>1
<1>3. Len(version) \in DOMAIN version /\ 1 \in DOMAIN version
  BY <1>1
<1>4. Anchor <= now
  BY <1>1, <1>3 DEF VersionsChain
<1>5. exchange.status = "HANDED" => Anchor <= exchange.handed
  BY <1>1, <1>2, <1>3 DEF ExchangeFits
<1> QED BY <1>1, <1>2, <1>4, <1>5

\* The handover leaves one version in force and nothing charged.
LEMMA InitHolds == BillingInit => BillingInv
<1> SUFFICES ASSUME BillingInit PROVE BillingInv
  OBVIOUS
<1> USE BillingAssumption
<1>1. BillingTypeOK
  BY DEF BillingInit, BillingTypeOK, NoExchange, Never, VersionRow, ChargeRow
<1>2. Len(version) = 1 /\ DOMAIN version = {1}
  BY DEF BillingInit
<1>3. VersionsChain
  BY <1>2 DEF BillingInit, VersionsChain, Pending
<1>4. ExchangeFits
  BY <1>2 DEF BillingInit, ExchangeFits, Pending, NoExchange
<1>5. ScheduleFits
  BY DEF BillingInit, ScheduleFits
<1>6. ExchangeCharges /\ RentIsPast /\ RentOnce
  BY DEF BillingInit, ExchangeCharges, RentIsPast, RentOnce, Before
<1> QED BY <1>1, <1>3, <1>4, <1>5, <1>6 DEF BillingInv

\* What an action does not touch stays in order.
LEMMA FrameKeeps ==
    ASSUME BillingInv, BillingTypeOK',
           UNCHANGED <<version, schedule, charge>>,
           now <= now',
           \/ UNCHANGED exchange
           \/ /\ exchange.status \in {"NONE", "PRESENTED"}
              /\ exchange'.status \in {"NONE", "PRESENTED"}
    PROVE  BillingInv'
<1> USE DEF BillingInv
<1>1. now \in Int /\ now' \in Int
  BY DEF BillingTypeOK
<1>2. \A k \in DOMAIN version : version[k].from \in Nat
  BY Rows
<1>3. VersionsChain'
  BY <1>1, <1>2 DEF VersionsChain, Pending
<1>4. exchange.handed \in Nat
  BY DEF BillingTypeOK
<1>5. ExchangeFits'
  BY <1>1, <1>4 DEF ExchangeFits, Pending
<1>6. ScheduleFits' /\ ExchangeCharges' /\ RentIsPast' /\ RentOnce'
  BY DEF ScheduleFits, ExchangeCharges, RentIsPast, RentOnce, Pending, Before, Covers, LeftOut, Overlap
<1> QED BY <1>3, <1>5, <1>6

-----------------------------------------------------------------------------
(* Types *)

\* An offer's units and start are numbers.
LEMMA OfferTypes ==
    ASSUME NEW policy \in Policies, NEW at \in Nat, Anchor <= at
    PROVE  NewCharge(policy, at) \in Nat /\ BillingStart(policy, at) \in Nat
<1> QED BY WindowFacts DEF NewCharge, BillingStart

\* Completing an exchange concerns the last version, which is pending, and the
\* one before it.
LEMMA CompletesPending ==
    ASSUME BillingInv, Complete
    PROVE  LET n == Len(version)
               at == exchange.handed
           IN  /\ n \in Nat /\ n >= 2 /\ Pending(n)
               /\ n \in DOMAIN version /\ n - 1 \in DOMAIN version
               /\ version' = [version EXCEPT
                     ![n - 1] = [version[n - 1] EXCEPT !.to = at, !.status = "SUPERSEDED"],
                     ![n] = [version[n] EXCEPT !.from = at, !.status = "ACTIVE",
                         !.starts = IF exchange.starts = 0 THEN at ELSE exchange.starts]]
<1> DEFINE n == Len(version)
<1>1. n \in Nat /\ DOMAIN version = 1..n /\ n >= 1
  BY Rows DEF BillingInv, VersionsChain
<1>2. Pending(n)
  BY DEF BillingInv, ExchangeFits, Complete
<1>3. n >= 2
  BY <1>1, <1>2 DEF BillingInv, VersionsChain
<1>4. n \in DOMAIN version /\ n - 1 \in DOMAIN version /\ n - 1 # n
  <2> HIDE DEF n
  <2> QED BY <1>1, <1>3
<1>5. version' = [version EXCEPT
         ![n - 1] = [version[n - 1] EXCEPT !.to = exchange.handed, !.status = "SUPERSEDED"],
         ![n] = [version[n] EXCEPT !.from = exchange.handed, !.status = "ACTIVE",
             !.starts = IF exchange.starts = 0 THEN exchange.handed ELSE exchange.starts]]
  BY <1>4, Zenon DEF Complete
<1> QED BY <1>1, <1>2, <1>3, <1>4, <1>5

\* A period ends at the engine's next boundary, and is cut only at the end of the
\* agreement.  An open schedule is at the anchor or at a boundary.
LEMMA PeriodFacts ==
    ASSUME BillingTypeOK
    PROVE  /\ schedule.next \in Nat /\ agreement.end \in Nat /\ PeriodEnd \in Nat
           /\ NextBoundary(schedule.next) \in Nat
           /\ PeriodEnd <= NextBoundary(schedule.next)
           /\ NextBoundary(schedule.next) <= schedule.next + Period
           /\ PeriodEnd < agreement.end => PeriodEnd = NextBoundary(schedule.next)
<1>1. schedule.next \in Nat /\ agreement.end \in Nat
  BY BillingAssumption DEF BillingTypeOK, Never
<1> QED BY <1>1, BillingAssumption DEF PeriodEnd, NextBoundary, Lesser

\* Every action keeps the types.
LEMMA TypesStep ==
    ASSUME BillingInv, BillingNext
    PROVE  BillingTypeOK'
<1> USE BillingAssumption
<1>0. BillingTypeOK /\ VersionsChain /\ ExchangeFits
  BY DEF BillingInv
<1>1. now \in Nat /\ now <= Horizon /\ Never \in Nat /\ Anchor <= now
  BY <1>0, FromAnchor DEF BillingTypeOK, Never
<1>2. ASSUME NEW policy \in Policies, Present(policy)
      PROVE  BillingTypeOK'
  BY <1>0, <1>1, <1>2, OfferTypes DEF BillingTypeOK, Present, VersionRow, ChargeRow
<1>3. CASE Accept
  <2>1. exchange.starts \in Nat
    BY <1>0 DEF BillingTypeOK
  <2>2. version' \in Seq(VersionRow)
    BY <1>0, <1>1, <1>3, <2>1 DEF BillingTypeOK, Accept, VersionRow
  <2> QED BY <1>0, <1>3, <2>2 DEF BillingTypeOK, Accept
<1>4. CASE HandOver
  BY <1>0, <1>1, <1>4 DEF BillingTypeOK, HandOver
<1>5. CASE Complete
  <2> DEFINE n == Len(version)
             at == exchange.handed
  <2>1. n \in DOMAIN version /\ n - 1 \in DOMAIN version
    BY <1>5, CompletesPending
  <2>2. at \in Nat /\ Anchor <= at /\ exchange.starts \in Nat
    BY <1>0, <1>5, FromAnchor DEF BillingTypeOK, Complete
  <2>3. version' \in Seq(VersionRow)
    <3>1. version \in Seq(VersionRow) /\ version[n] \in VersionRow /\ version[n - 1] \in VersionRow
      BY <1>0, <2>1, Rows DEF BillingTypeOK
    <3>2. /\ [version[n - 1] EXCEPT !.to = at, !.status = "SUPERSEDED"] \in VersionRow
          /\ [version[n] EXCEPT !.from = at, !.status = "ACTIVE",
                 !.starts = IF exchange.starts = 0 THEN at ELSE exchange.starts] \in VersionRow
      BY <2>2, <3>1 DEF VersionRow
    <3>3. version' = [version EXCEPT
             ![n - 1] = [version[n - 1] EXCEPT !.to = at, !.status = "SUPERSEDED"],
             ![n] = [version[n] EXCEPT !.from = at, !.status = "ACTIVE",
                 !.starts = IF exchange.starts = 0 THEN at ELSE exchange.starts]]
      BY <1>5, <2>1, CompletesPending
    <3> QED BY <2>1, <3>1, <3>2, <3>3
  <2>4. charge' \subseteq ChargeRow
    <3>1. WindowEnd(at) \in Nat /\ n \in Nat
      BY <1>0, <2>2, Rows, WindowFacts
    <3> QED BY <1>0, <1>5, <2>2, <3>1 DEF BillingTypeOK, Complete, ChargeRow
  <2> QED BY <1>0, <1>5, <2>3, <2>4 DEF BillingTypeOK, Complete, NoExchange
<1>6. CASE GeneratePeriod
  <2> DEFINE start == schedule.next
             end == PeriodEnd
  <2>1. start \in 0..(Horizon + Period) /\ agreement.end \in 0..Never
    BY <1>0 DEF BillingTypeOK
  <2>2. end \in 0..(Horizon + Period)
    <3>1. start < end /\ (IF mode = "POSTPAID" THEN end <= now ELSE start <= now)
      BY <1>6 DEF GeneratePeriod
    <3>2. /\ start \in Nat /\ end \in Nat /\ end <= NextBoundary(start)
          /\ NextBoundary(start) \in Nat /\ NextBoundary(start) <= start + Period
      BY <1>0, PeriodFacts
    <3> HIDE DEF start, end
    <3> QED BY <1>1, <3>1, <3>2
  <2>3. \A s \in Segments(start, end) : s.version \in Nat /\ s.from \in Nat /\ s.to \in Nat
    BY <1>0, <2>1, <2>2, Rows DEF Segments, Segment, Lesser, Greater
  <2>4. RentCharges(start, end) \subseteq ChargeRow
    BY <2>3 DEF RentCharges, ChargeRow
  <2> QED BY <1>0, <1>6, <2>1, <2>2, <2>4 DEF BillingTypeOK, GeneratePeriod
<1>7. CASE Suspend \/ Resume \/ RequestTermination
  BY <1>0, <1>7 DEF BillingTypeOK, Suspend, Resume, RequestTermination, MoveAgreement
<1>8. CASE EndAgreement
  BY <1>0, <1>1, <1>8 DEF BillingTypeOK, EndAgreement, Never
<1>9. CASE Tick
  BY <1>0, <1>1, <1>9 DEF BillingTypeOK, Tick
<1> QED BY <1>2, <1>3, <1>4, <1>5, <1>6, <1>7, <1>8, <1>9 DEF BillingNext

-----------------------------------------------------------------------------
(* Exchanges keep the versions in order *)

\* A pending version is added at the end.
LEMMA AcceptKeeps ==
    ASSUME BillingInv, Accept, BillingTypeOK'
    PROVE  BillingInv'
<1> DEFINE n == Len(version)
           new == [status |-> "PENDING", from |-> now, to |-> Never,
                   starts |-> exchange.starts]
<1>1. /\ n \in Nat /\ DOMAIN version = 1..n /\ n >= 1 /\ now \in Nat
      /\ \A k \in DOMAIN version : version[k].from \in Nat
  BY Rows DEF BillingInv, VersionsChain, BillingTypeOK
<1>2. \A k \in DOMAIN version : ~Pending(k)
  BY <1>1 DEF BillingInv, VersionsChain, ExchangeFits, Accept
<1>3. /\ Len(version') = n + 1 /\ DOMAIN version' = 1..(n + 1)
      /\ version'[n + 1] = new
      /\ \A k \in 1..n : version'[k] = version[k]
  BY <1>1 DEF Accept, BillingInv, BillingTypeOK
<1>4. /\ \A k \in 1..n : version'[k].status # "PENDING"
      /\ version'[n + 1].status = "PENDING"
  BY <1>1, <1>2, <1>3 DEF Pending
<1>5. now' = now
  BY DEF Accept
<1>6. VersionsChain'
  <2>1. VersionsChain
    BY DEF BillingInv
  <2>2. \A j, k \in 1..n : j < k => version[j].from <= version[k].from
    BY <1>1, <2>1 DEF VersionsChain
  <2>3. \A k \in 1..n : version[k].from <= now /\ version[k].from <= version[k].starts
    BY <1>1, <1>2, <2>1 DEF VersionsChain
  <2>4. version[1].from = Anchor /\ version[1].starts = Anchor
    BY <2>1 DEF VersionsChain
  <2>5. \A k \in 1..n : k < n => version[k].to = version[k + 1].from
    <3>1. ASSUME NEW k \in 1..n, k < n PROVE version[k].to = version[k + 1].from
      <4>1. k + 1 \in DOMAIN version /\ k \in DOMAIN version
        BY <1>1, <3>1
      <4> QED BY <1>2, <2>1, <3>1, <4>1 DEF VersionsChain
    <3> QED BY <3>1
  <2>6. version'[n + 1].from = now /\ version'[n + 1].to = Never
    BY <1>3
  <2> HIDE DEF n, new
  <2>7. \A k \in 1..(n + 1) : version'[k].from <= now'
    BY <1>1, <1>3, <1>5, <2>3, <2>6
  <2>8. \A j, k \in 1..(n + 1) : j < k => version'[j].from <= version'[k].from
    BY <1>1, <1>3, <2>2, <2>3, <2>6
  <2>9. \A k \in 1..(n + 1) : k < n + 1 /\ version'[k + 1].status # "PENDING"
                                  => version'[k].to = version'[k + 1].from
    BY <1>1, <1>3, <1>4, <2>5
  <2>10. \A k \in 1..(n + 1) :
            /\ version'[k].status = "PENDING" => k = n + 1 /\ k >= 2
            /\ version'[k].status # "PENDING" => version'[k].from <= version'[k].starts
    BY <1>1, <1>3, <1>4, <2>3
  <2>11. version'[1].from = Anchor /\ version'[1].starts = Anchor /\ Never' = Never
    BY <1>1, <1>3, <2>4 DEF Never
  <2> QED BY <1>1, <1>3, <2>6, <2>7, <2>8, <2>9, <2>10, <2>11 DEF VersionsChain, Pending
<1>7. ExchangeFits'
  <2>1. exchange'.status = "ACCEPTED"
    BY DEF Accept, BillingInv, BillingTypeOK
  <2> QED BY <1>3, <1>4, <2>1 DEF ExchangeFits, Pending
<1>8. ExchangeCharges'
  BY <1>1, <1>3, <1>4 DEF ExchangeCharges, Accept, BillingInv, Pending
<1>9. ScheduleFits' /\ RentIsPast' /\ RentOnce'
  BY DEF ScheduleFits, RentIsPast, RentOnce, Before, Covers, LeftOut, Overlap, Accept, BillingInv
<1> QED BY <1>6, <1>7, <1>8, <1>9 DEF BillingInv

\* The handover lies between the start of the pending version and now.
LEMMA HandOverKeeps ==
    ASSUME BillingInv, HandOver, BillingTypeOK'
    PROVE  BillingInv'
<1>1. /\ Len(version) \in DOMAIN version /\ now \in Nat
      /\ exchange' = [exchange EXCEPT !.status = "HANDED", !.handed = now]
      /\ exchange'.status = "HANDED" /\ exchange'.handed = now
  BY Rows DEF BillingInv, VersionsChain, BillingTypeOK, HandOver
<1>2. version[Len(version)].from <= now
  BY <1>1 DEF BillingInv, VersionsChain
<1>3. ExchangeFits'
  BY <1>1, <1>2 DEF ExchangeFits, HandOver, BillingInv, Pending
<1>4. VersionsChain'
  BY DEF VersionsChain, HandOver, BillingInv, Pending
<1>5. ScheduleFits' /\ ExchangeCharges' /\ RentIsPast' /\ RentOnce'
  BY DEF ScheduleFits, ExchangeCharges, RentIsPast, RentOnce, Pending, Before, Covers,
         LeftOut, Overlap, HandOver, BillingInv
<1> QED BY <1>3, <1>4, <1>5 DEF BillingInv

\* The last version comes into force at the handover, where the one before ends.
LEMMA CompleteKeeps ==
    ASSUME BillingInv, Complete, BillingTypeOK'
    PROVE  BillingInv'
<1> DEFINE n == Len(version)
           at == exchange.handed
<1>1. /\ n \in Nat /\ n >= 2 /\ Pending(n) /\ DOMAIN version = 1..n /\ now \in Nat
      /\ at \in Nat /\ Anchor <= at /\ exchange.starts \in Nat
      /\ \A k \in DOMAIN version : version[k].from \in Nat /\ version[k].starts \in Nat
  BY Rows, FromAnchor, CompletesPending DEF BillingInv, BillingTypeOK, Complete
<1>2. \A k \in 1..(n - 1) : ~Pending(k)
  BY <1>1 DEF BillingInv, VersionsChain
<1>3. /\ Len(version') = n /\ DOMAIN version' = 1..n
      /\ \A k \in 1..n : k < n - 1 => version'[k] = version[k]
      /\ version'[n - 1] = [version[n - 1] EXCEPT !.to = at, !.status = "SUPERSEDED"]
      /\ version'[n] = [version[n] EXCEPT !.from = at, !.status = "ACTIVE",
             !.starts = IF exchange.starts = 0 THEN at ELSE exchange.starts]
  <2>1. version \in Seq(VersionRow)
    BY DEF BillingInv, BillingTypeOK
  <2>2. n - 1 # n /\ n - 1 \in 1..n /\ n \in 1..n
    <3> HIDE DEF n
    <3> QED BY <1>1
  <2>3. version' = [version EXCEPT
         ![n - 1] = [version[n - 1] EXCEPT !.to = at, !.status = "SUPERSEDED"],
         ![n] = [version[n] EXCEPT !.from = at, !.status = "ACTIVE",
             !.starts = IF exchange.starts = 0 THEN at ELSE exchange.starts]]
    BY CompletesPending
  <2>4. version' \in Seq(VersionRow) /\ DOMAIN version' = 1..n
    BY <1>1, <2>3, BillingTypeOK' DEF BillingTypeOK
  <2>5. Len(version') = n
    <3> HIDE DEF n
    <3> QED BY <1>1, <2>4
  <2> HIDE DEF n
  <2> QED BY <1>1, <2>2, <2>3, <2>4, <2>5
<1>4. /\ \A k \in 1..(n - 1) : /\ version'[k].from = version[k].from
                               /\ version'[k].starts = version[k].starts
                               /\ version'[k].status # "PENDING"
      /\ \A k \in 1..n : k < n - 1 => version'[k].to = version[k].to
      /\ version'[n - 1].to = at
      /\ version'[n].from = at /\ version'[n].to = version[n].to 
      /\ version'[n].status # "PENDING"
      /\ version'[n].starts = IF exchange.starts = 0 THEN at ELSE exchange.starts
  <2>1. version[n - 1] \in VersionRow /\ version[n] \in VersionRow
    <3>1. n - 1 \in DOMAIN version /\ n \in DOMAIN version
      BY CompletesPending
    <3> QED BY <3>1, Rows DEF BillingInv
  <2>2. /\ version'[n - 1].from = version[n - 1].from
        /\ version'[n - 1].starts = version[n - 1].starts
        /\ version'[n - 1].status = "SUPERSEDED" /\ version'[n - 1].to = at
    BY <1>3, <2>1 DEF VersionRow
  <2>3. /\ version'[n].from = at /\ version'[n].to = version[n].to
        /\ version'[n].status = "ACTIVE"
        /\ version'[n].starts = IF exchange.starts = 0 THEN at ELSE exchange.starts
    BY <1>3, <2>1 DEF VersionRow
  <2> HIDE DEF n, at
  <2>4. ASSUME NEW k \in 1..n, k < n - 1
        PROVE  version'[k] = version[k] /\ version[k].status # "PENDING"
    <3>1. version'[k] = version[k]
      BY <1>3, <2>4
    <3>2. k \in 1..(n - 1)
      BY <1>1, <2>4
    <3> QED BY <1>2, <3>1, <3>2 DEF Pending
  <2>5. ASSUME NEW k \in 1..(n - 1)
        PROVE  /\ version'[k].from = version[k].from
               /\ version'[k].starts = version[k].starts
               /\ version'[k].status # "PENDING"
    <3>1. k \in 1..n /\ (k < n - 1 \/ k = n - 1)
      BY <1>1
    <3>2. CASE k < n - 1
      BY <2>4, <3>1, <3>2
    <3>3. CASE k = n - 1
      BY <2>2, <3>3
    <3> QED BY <3>1, <3>2, <3>3
  <2>6. \A k \in 1..n : k < n - 1 => version'[k].to = version[k].to
    BY <2>4
  <2> QED BY <2>2, <2>3, <2>5, <2>6
<1>5. version[n].from <= at /\ at <= now /\ now' = now
  BY DEF BillingInv, ExchangeFits, Complete
<1>6. version'[n].from <= version'[n].starts
  <2>1. exchange.starts \in {0, WindowEnd(at)} /\ at < WindowEnd(at) /\ WindowEnd(at) \in Nat
    BY <1>1, WindowFacts DEF Complete, OfferStands
  <2> HIDE DEF n, at
  <2> QED BY <1>1, <1>4, <2>1
<1>7. VersionsChain'
  <2> HIDE DEF n, at
  <2>1. /\ \A k \in 1..n : version[k].from <= now
        /\ \A j, k \in 1..n : j < k => version[j].from <= version[k].from
        /\ \A k \in 1..n : k < n /\ ~Pending(k + 1) => version[k].to = version[k + 1].from
        /\ version[n].to = Never /\ version[1].from = Anchor /\ version[1].starts = Anchor
        /\ \A k \in 1..n : ~Pending(k) => version[k].from <= version[k].starts
    BY <1>1 DEF BillingInv, VersionsChain, n, at
  <2>2. version'[1].from = Anchor /\ version'[1].starts = Anchor
    BY <1>1, <1>4, <2>1
  <2>3. \A k \in 1..n : version'[k].from <= now'
    BY <1>1, <1>4, <1>5, <2>1
  <2>4. \A j, k \in 1..n : j < k => version'[j].from <= version'[k].from
    BY <1>1, <1>4, <1>5, <2>1
  <2>5. \A k \in 1..n : k < n => version'[k].to = version'[k + 1].from
    BY <1>1, <1>2, <1>4, <2>1
  <2>6. \A k \in 1..n : version'[k].status # "PENDING" /\ version'[k].from <= version'[k].starts
    BY <1>1, <1>2, <1>4, <1>6, <2>1
  <2>7. Never' = Never
    BY DEF Never
  <2>8. version'[n].to = Never'
    BY <1>4, <2>1, <2>7
  <2> QED BY <1>1, <1>3, <2>2, <2>3, <2>4, <2>5, <2>6, <2>8
         DEF VersionsChain, Pending
<1>8. ExchangeFits'
  <2>1. exchange'.status = "NONE"
    BY DEF Complete, NoExchange
  <2> QED BY <1>3, <1>4, <2>1 DEF ExchangeFits, Pending
<1>9. ExchangeCharges'
  <2>1. SUFFICES ASSUME NEW c \in charge', c.kind = "PRORATION"
                 PROVE  /\ c.version \in DOMAIN version'
                        /\ version'[c.version].status # "PENDING"
                        /\ c.from = version'[c.version].from
                        /\ c.to = WindowEnd(c.from)
    BY DEF ExchangeCharges, WindowEnd, Pending
  <2>2. CASE c \in charge
    <3>1. /\ c.version \in DOMAIN version /\ ~Pending(c.version)
          /\ c.from = version[c.version].from
          /\ c.to = WindowEnd(c.from)
      BY <2>1, <2>2 DEF BillingInv, ExchangeCharges
    <3> HIDE DEF n
    <3> QED BY <1>1, <1>3, <1>4, <3>1
  <2>3. CASE c = [kind |-> "PRORATION", version |-> n, from |-> at, to |-> WindowEnd(at)]
    <3>1. c.version = n /\ c.from = at /\ c.to = WindowEnd(at)
      BY <2>3
    <3> HIDE DEF n, at
    <3>2. n \in 1..n
      BY <1>1
    <3> QED BY <1>3, <1>4, <3>1, <3>2
  <2> QED BY <2>1, <2>2, <2>3 DEF Complete
<1>10. \A c \in charge' : c.kind = "RENT" => c \in charge
  BY DEF Complete
<1>11. charge \subseteq charge' /\ schedule' = schedule
  BY DEF Complete
<1>12. ScheduleFits' /\ RentIsPast' /\ RentOnce'
  BY <1>10, <1>11 DEF ScheduleFits, RentIsPast, RentOnce, Before, Covers, LeftOut, Overlap, BillingInv
<1> QED BY <1>7, <1>8, <1>9, <1>12 DEF BillingInv
-----------------------------------------------------------------------------
(* A billed period *)

\* The engine's period that starts at the schedule has a number.
LEMMA PeriodNumber ==
    ASSUME BillingTypeOK, ScheduleFits, schedule.status = "ACTIVE"
    PROVE  \E q \in Nat : /\ Period * q \in Nat
                          /\ Period * q <= schedule.next
                          /\ schedule.next \in {Anchor, Period * q}
                          /\ NextBoundary(schedule.next) = Period * q + Period
<1>1. CASE schedule.next = Anchor
  <2>1. Period * 0 = 0
    BY BillingAssumption
  <2>2. NextBoundary(schedule.next) = 0 + Period
    BY <1>1, BillingAssumption DEF NextBoundary
  <2> QED BY <1>1, <2>1, <2>2, BillingAssumption
<1>2. CASE schedule.next # Anchor
  <2>1. PICK q \in Nat : schedule.next = Period * q
    BY <1>2 DEF ScheduleFits
  <2>2. Period * q \in Nat
    BY <2>1, BillingAssumption
  <2>3. NextBoundary(schedule.next) = Period * q + Period
    BY <1>2, <2>1, <2>2, BillingAssumption DEF NextBoundary
  <2> QED BY <2>1, <2>2, <2>3
<1> QED BY <1>1, <1>2

\* A segment lies in its period and in the time of its version.
LEMMA SegmentFacts ==
    ASSUME BillingTypeOK, NEW start \in Nat, NEW end \in Nat,
           NEW s \in Segments(start, end)
    PROVE  /\ s.version \in DOMAIN version
           /\ s = Segment(s.version, start, end)
           /\ s.from \in Nat /\ s.to \in Nat
           /\ s.from < s.to
           /\ start <= s.from /\ s.to <= end
           /\ version[s.version].from <= s.from
<1>1. PICK k \in DOMAIN version : s = Segment(k, start, end) /\ s.from < s.to
  BY DEF Segments
<1>2. s.version = k
  BY <1>1 DEF Segment
<1>3. version[k].from \in Nat /\ version[k].to \in Nat /\ version[k].starts \in Nat
  BY Rows
<1>4. s.from = Greater(start, Greater(version[k].from, version[k].starts))
  BY <1>1 DEF Segment
<1>5. s.from \in Nat /\ start <= s.from /\ version[k].from <= s.from
  BY <1>3, <1>4 DEF Greater
<1>6. PICK t \in {version[k].to, version[k + 1].starts} :
         s.to = Lesser(end, t) /\ (t = version[k].to \/ k + 1 \in DOMAIN version)
  <2>1. CASE k < Len(version)
    <3>1. k + 1 \in DOMAIN version
      BY <2>1, Rows
    <3> QED BY <1>1, <3>1 DEF Segment
  <2>2. CASE ~(k < Len(version))
    BY <1>1, <2>2 DEF Segment
  <2> QED BY <2>1, <2>2
<1>7. t \in Nat
  BY <1>3, <1>6, Rows
<1>8. s.to \in Nat /\ s.to <= end
  BY <1>6, <1>7 DEF Lesser
<1> QED BY <1>1, <1>2, <1>5, <1>8

\* The rents of a period begin where older ones end, do not overlap, and cover
\* what no exchange has charged for in it.
LEMMA GenerateKeeps ==
    ASSUME BillingInv, GeneratePeriod, BillingTypeOK'
    PROVE  BillingInv'
<1> DEFINE start == schedule.next
           end == PeriodEnd
<1>1. /\ start \in Nat /\ end \in Nat /\ agreement.end \in Nat /\ Anchor <= start
      /\ start < end /\ end <= NextBoundary(start)
      /\ end < agreement.end => end = NextBoundary(start)
  BY PeriodFacts, BillingAssumption DEF BillingInv, GeneratePeriod, ScheduleFits
<1>0. PICK q \in Nat : /\ Period * q \in Nat /\ Period * q <= start
                      /\ NextBoundary(start) = Period * q + Period
  BY PeriodNumber DEF BillingInv, GeneratePeriod
<1>2. Resolves(start, end)
  BY DEF GeneratePeriod
<1>3. /\ charge' = charge \cup RentCharges(start, end)
      /\ schedule'.next = end
      /\ schedule'.status = "ACTIVE" => end < agreement.end
  BY <1>1 DEF GeneratePeriod
<1>4. UNCHANGED <<version, exchange, now>>
  BY DEF GeneratePeriod
<1> HIDE DEF start, end
<1>5. ASSUME NEW c \in RentCharges(start, end)
      PROVE  \E s \in Segments(start, end) :
                /\ c = [kind |-> "RENT", version |-> s.version, from |-> s.from, to |-> s.to]
                /\ c.from \in Nat /\ c.to \in Nat
                /\ start <= c.from /\ c.to <= end
  <2>1. PICK s \in Segments(start, end) :
           c = [kind |-> "RENT", version |-> s.version, from |-> s.from, to |-> s.to]
    BY <1>5 DEF RentCharges
  <2>2. s.from \in Nat /\ s.to \in Nat /\ start <= s.from /\ s.to <= end
    BY <1>1, SegmentFacts DEF BillingInv
  <2> QED BY <2>1, <2>2
<1>6. \A c \in charge : /\ c.from \in Nat /\ c.to \in Nat
                        /\ c.kind = "RENT" => c.to <= start
  BY DEF BillingInv, BillingTypeOK, ChargeRow, RentIsPast, start
<1>7. RentIsPast'
  BY <1>1, <1>3, <1>5, <1>6 DEF RentIsPast
<1>8. ASSUME NEW c \in charge', NEW d \in charge', c # d,
             c.kind = "RENT", d.kind = "RENT", d \in RentCharges(start, end)
      PROVE  ~Overlap(c, d)
  <2>1. PICK t \in Segments(start, end) :
           /\ d = [kind |-> "RENT", version |-> t.version, from |-> t.from, to |-> t.to]
           /\ d.from \in Nat /\ d.to \in Nat /\ start <= d.from
    BY <1>5, <1>8
  <2>2. CASE c \in charge
    BY <1>1, <1>6, <1>8, <2>1, <2>2 DEF Overlap
  <2>3. CASE c \in RentCharges(start, end)
    <3>1. PICK s \in Segments(start, end) :
             /\ c = [kind |-> "RENT", version |-> s.version, from |-> s.from, to |-> s.to]
             /\ c.from \in Nat /\ c.to \in Nat
      BY <1>5, <2>3
    <3>2. s.version # t.version
      <4>1. s # t
        BY <1>8, <2>1, <3>1
      <4>2. s = Segment(s.version, start, end) /\ t = Segment(t.version, start, end)
        BY <1>1, SegmentFacts DEF BillingInv
      <4> QED BY <4>1, <4>2
    <3>3. s.version \in Int /\ t.version \in Int
      BY <1>1, SegmentFacts, Rows DEF BillingInv
    <3>4. s.version < t.version => s.to <= t.from
      BY <1>2 DEF Resolves
    <3>5. t.version < s.version => t.to <= s.from
      BY <1>2 DEF Resolves
    <3>6. c.from = s.from /\ c.to = s.to /\ d.from = t.from /\ d.to = t.to
      BY <2>1, <3>1
    <3>7. c.to <= d.from \/ d.to <= c.from
      BY <3>2, <3>3, <3>4, <3>5, <3>6
    <3> QED BY <2>1, <3>1, <3>7 DEF Overlap
  <2> QED BY <1>3, <2>2, <2>3
<1>9. ASSUME NEW c \in charge', NEW d \in charge', c # d,
             c.kind = "RENT", d.kind = "RENT"
      PROVE  ~Overlap(c, d)
  <2>1. CASE d \in RentCharges(start, end)
    BY <1>8, <1>9, <2>1
  <2>2. CASE c \in RentCharges(start, end)
    <3>1. ~Overlap(d, c)
      BY <1>8, <1>9, <2>2
    <3> QED BY <3>1 DEF Overlap
  <2>3. CASE c \in charge /\ d \in charge
    BY <1>9, <2>3 DEF BillingInv, RentOnce
  <2> QED BY <1>3, <2>1, <2>2, <2>3
<1>10. ASSUME NEW d \in Before(end)
       PROVE  \E c \in charge' : Covers(c, d) \/ LeftOut(c, d)
  <2>1. d \in Nat /\ d \in Anchor..Horizon /\ d < end
    BY <1>10, BillingAssumption DEF Before
  <2>2. CASE d < start
    <3>1. d \in Before(schedule.next)
      BY <2>1, <2>2 DEF Before, start
    <3> QED BY <1>3, <3>1 DEF BillingInv, RentOnce
  <2>3. CASE start <= d
    <3>1. d \in start..(end - 1)
      BY <1>1, <2>1, <2>3
    <3>2. PICK s \in Segments(start, end) : Covers(s, d)
      BY <1>2, <3>1 DEF Resolves
    <3>3. CASE ~Realized(s.version, start, end)
      <4> DEFINE c == [kind |-> "RENT", version |-> s.version, from |-> s.from, to |-> s.to]
      <4>1. c \in RentCharges(start, end)
        BY <3>3 DEF RentCharges
      <4>2. Covers(c, d)
        BY <3>2 DEF Covers
      <4> QED BY <1>3, <4>1, <4>2
    <3>4. CASE Realized(s.version, start, end)
      <4>1. PICK c \in charge : /\ c.kind = "PRORATION" /\ c.version = s.version
                                /\ start <= c.from /\ c.from < end
        BY <3>4 DEF Realized
      <4>2. c.from = version[s.version].from /\ c.to = WindowEnd(c.from)
        BY <4>1 DEF BillingInv, ExchangeCharges
      <4>3. c.from <= s.from /\ s.from \in Nat
        BY <1>1, <4>2, SegmentFacts DEF BillingInv
      <4>4. c.from \in Nat /\ Period * q <= c.from /\ c.from < Period * q + Period
        BY <1>0, <1>1, <1>6, <4>1, BillingAssumption
      <4>5. EngineEnd(c.from) = Period * q + Period
        BY <4>4, EngineEndOf
      <4>6. c.from <= d /\ d < EngineEnd(c.from)
        <5>1. s.from <= d
          BY <3>2 DEF Covers
        <5>2. d < NextBoundary(start) /\ NextBoundary(start) \in Nat
          BY <1>0, <1>1, <2>1, BillingAssumption
        <5> QED BY <1>0, <2>1, <4>3, <4>4, <4>5, <5>1, <5>2
      <4>7. WindowEnd(c.from) \in Nat
        <5>1. Anchor <= c.from
          BY <1>1, <4>1, <4>4, BillingAssumption
        <5> QED BY <4>4, <5>1, WindowFacts
      <4>8. Covers(c, d) \/ LeftOut(c, d)
        BY <2>1, <4>1, <4>2, <4>6, <4>7 DEF Covers, LeftOut
      <4> QED BY <1>3, <4>1, <4>8
    <3> QED BY <3>3, <3>4
  <2> QED BY <1>1, <2>1, <2>2, <2>3
<1>11. RentOnce'
  <2>1. \A d \in Before(schedule'.next) :
           \E c \in charge' : Covers(c, d) \/ LeftOut(c, d)
    BY <1>3, <1>10
  <2> QED BY <1>9, <2>1 DEF RentOnce, Before, Covers, LeftOut, Overlap
<1>12. ScheduleFits'
  <2>1. schedule'.next >= Anchor
    BY <1>1, <1>3, BillingAssumption
  <2>2. CASE schedule'.status = "ACTIVE"
    <3>1. Period * (q + 1) = Period * q + Period
      BY BillingAssumption
    <3>2. end = Period * (q + 1)
      BY <1>0, <1>1, <1>3, <2>2, <3>1
    <3> QED BY <1>3, <2>1, <3>2 DEF ScheduleFits
  <2> QED BY <2>1, <2>2 DEF ScheduleFits
<1>13. VersionsChain' /\ ExchangeFits'
  BY <1>4 DEF VersionsChain, ExchangeFits, Pending, BillingInv
<1>14. ExchangeCharges'
  <2>1. \A c \in charge' : c.kind = "PRORATION" => c \in charge
    BY <1>3, <1>5
  <2> QED BY <1>4, <2>1 DEF ExchangeCharges, Pending, BillingInv
<1> QED BY <1>7, <1>11, <1>12, <1>13, <1>14 DEF BillingInv

-----------------------------------------------------------------------------
(* The theorems *)

\* Every step of the program keeps the invariant.
LEMMA BillingStep ==
    ASSUME BillingInv, [BillingNext]_billingVars
    PROVE  BillingInv'
<1>1. now \in Int
  BY DEF BillingInv, BillingTypeOK
<1>2. CASE BillingNext
  <2>1. BillingTypeOK'
    BY <1>2, TypesStep
  <2>2. ASSUME NEW policy \in Policies, Present(policy)
        PROVE  BillingInv'
    BY <1>1, <2>1, <2>2, FrameKeeps DEF Present
  <2>3. CASE Accept
    BY <2>1, <2>3, AcceptKeeps
  <2>4. CASE HandOver
    BY <2>1, <2>4, HandOverKeeps
  <2>5. CASE Complete
    BY <2>1, <2>5, CompleteKeeps
  <2>6. CASE GeneratePeriod
    BY <2>1, <2>6, GenerateKeeps
  <2>7. CASE Suspend \/ Resume \/ RequestTermination
    BY <1>1, <2>1, <2>7, FrameKeeps DEF Suspend, Resume, RequestTermination, MoveAgreement
  <2>8. CASE EndAgreement
    BY <1>1, <2>1, <2>8, FrameKeeps DEF EndAgreement
  <2>9. CASE Tick
    BY <1>1, <2>1, <2>9, FrameKeeps DEF Tick
  <2> QED BY <1>2, <2>2, <2>3, <2>4, <2>5, <2>6, <2>7, <2>8, <2>9 DEF BillingNext
<1>3. CASE UNCHANGED billingVars
  <2>1. BillingTypeOK'
    BY <1>3 DEF billingVars, BillingInv, BillingTypeOK, Never
  <2> QED BY <1>1, <1>3, <2>1, FrameKeeps DEF billingVars
<1> QED BY <1>2, <1>3

\* The invariant of the argument holds in every state of the program.
THEOREM BillingOrder == BillingSpec => []BillingInv
<1>1. BillingInv /\ [BillingNext]_billingVars => BillingInv'
  BY BillingStep
<1> QED BY <1>1, InitHolds, PTL DEF BillingSpec

\* Every row keeps its type.
THEOREM BillingTypes == BillingSpec => []BillingTypeOK
<1>1. BillingInv => BillingTypeOK
  BY DEF BillingInv
<1> QED BY <1>1, BillingOrder, PTL

\* However exchanges, endings and billing runs meet, with any period, any anchor
\* and any number of exchanges: no moment is in two rent charges, and each one up
\* to the next period is in a rent charge or in one of an exchange, but for the
\* rest of a period that an exchange between its two boundaries leaves out.
THEOREM RentsChargeOnce == BillingSpec => []RentOnce
<1>1. BillingInv => RentOnce
  BY DEF BillingInv
<1> QED BY <1>1, BillingOrder, PTL

-----------------------------------------------------------------------------
(* The next period can be billed *)

\* A set of natural numbers that is not empty has a least one.
LEMMA LeastOne ==
    ASSUME NEW T \in SUBSET Nat, T # {}
    PROVE  \E m \in T : \A x \in T : m <= x
<1>1. PICK m \in T : \A x \in T : <<x, m>> \notin OpToRel(<, Nat)
  BY NatLessThanWellFounded, WFMin
<1>2. \A x \in T : ~(x < m)
  BY <1>1 DEF OpToRel
<1> QED BY <1>2

\* From when the version after k is billed.
Following(k) == IF k < Len(version) THEN version[k + 1].starts ELSE Never

\* Without a pending version and without one that was overtaken, version k is
\* billed from its start to that of the next version.
LEMMA SegmentsFollow ==
    ASSUME BillingInv, ~Unfinished, ~Overtaken,
           NEW start \in Nat, NEW end \in Nat, end <= Never,
           NEW k \in DOMAIN version, version[k].from < end
    PROVE  LET s == Segment(k, start, end)
           IN  /\ s.version = k
               /\ s.from = Greater(start, version[k].starts)
               /\ s.to = Lesser(end, Following(k))
<1> DEFINE n == Len(version)
           s == Segment(k, start, end)
<1>1. /\ n \in Nat /\ DOMAIN version = 1..n /\ k \in 1..n /\ Never \in Nat
      /\ \A j \in 1..n : /\ version[j].from \in Nat /\ version[j].to \in Nat
                         /\ version[j].starts \in Nat
  BY Rows, BillingAssumption DEF BillingInv, Never
<1>2. \A j \in 1..n : ~Pending(j) /\ version[j].from <= version[j].starts
  BY <1>1 DEF Unfinished, Pending, BillingInv, VersionsChain
<1>3. s.version = k /\ s.from = Greater(start, version[k].starts)
  BY <1>1, <1>2 DEF Segment, Greater
<1>4. CASE k < n
  <2>1. k + 1 \in 1..n /\ k + 1 \in DOMAIN version
    BY <1>1, <1>4
  <2>2. version[k].to = version[k + 1].from
    BY <1>2, <1>4, <2>1 DEF BillingInv, VersionsChain
  <2>3. version[k + 1].from <= version[k + 1].starts
    BY <1>2, <2>1
  <2>4. s.to = Lesser(end, IF version[k + 1].from < end
                              /\ version[k + 1].starts > version[k].to
                           THEN version[k + 1].starts ELSE version[k].to)
    BY <1>4 DEF Segment
  <2> HIDE DEF n, s
  <2>5. s.to = Lesser(end, version[k + 1].starts)
    BY <1>1, <2>1, <2>2, <2>3, <2>4 DEF Lesser
  <2> QED BY <1>3, <1>4, <2>5 DEF Following, n, s
<1>5. CASE ~(k < n)
  <2>1. k = n
    <3> HIDE DEF n
    <3> QED BY <1>1, <1>5
  <2>2. version[k].to = Never
    BY <2>1 DEF BillingInv, VersionsChain
  <2>3. s.to = Lesser(end, version[k].to)
    BY <1>5 DEF Segment
  <2> QED BY <1>3, <1>5, <2>2, <2>3 DEF Following
<1> QED BY <1>4, <1>5

\* The segments of any time are in order, and each moment d is in one: that of
\* the first version whose successor is billed only after d.
LEMMA PeriodResolves ==
    ASSUME BillingInv, ~Unfinished, ~Overtaken,
           NEW start \in Nat, NEW end \in Nat, Anchor <= start, end <= Never
    PROVE  Resolves(start, end)
<1> DEFINE n == Len(version)
<1>1. /\ n \in Nat /\ n >= 1 /\ DOMAIN version = 1..n /\ Never \in Nat
      /\ \A j \in 1..n : version[j].from \in Nat /\ version[j].starts \in Nat
  BY Rows, BillingAssumption DEF BillingInv, Never, VersionsChain
<1>2. \A j, k \in 1..n : j < k => version[j].starts <= version[k].starts
  <2>1. \A j, k \in DOMAIN version : j < k => ~(version[j].starts > version[k].starts)
    BY DEF Overtaken
  <2> HIDE DEF n
  <2> QED BY <1>1, <2>1
<1>3. /\ \A j \in 1..n : version[j].from <= version[j].starts
      /\ version[1].starts = Anchor /\ Anchor \in Nat
  BY <1>1, BillingAssumption DEF Unfinished, Pending, BillingInv, VersionsChain
<1>4. \A k \in 1..n : Following(k) \in Nat
  <2>1. ASSUME NEW k \in 1..n, k < n PROVE k + 1 \in 1..n
    BY <1>1, <2>1
  <2> QED BY <1>1, <2>1 DEF Following
<1>5. ASSUME NEW s \in Segments(start, end), NEW t \in Segments(start, end),
             s.version < t.version
      PROVE  s.to <= t.from
  <2>1. PICK j \in 1..n : s = Segment(j, start, end) /\ version[j].from < end
    BY <1>1 DEF Segments
  <2>2. PICK k \in 1..n : t = Segment(k, start, end) /\ version[k].from < end
    BY <1>1 DEF Segments
  <2>3. s.version = j /\ s.to = Lesser(end, Following(j))
    BY <1>1, <2>1, SegmentsFollow
  <2>4. t.version = k /\ t.from = Greater(start, version[k].starts)
    BY <1>1, <2>2, SegmentsFollow
  <2>5. j < k
    BY <1>5, <2>3, <2>4
  <2> HIDE DEF n
  <2>6. j < n /\ j + 1 \in 1..n /\ (j + 1 = k \/ j + 1 < k)
    BY <1>1, <2>5
  <2>7. Following(j) = version[j + 1].starts
    BY <2>6 DEF Following, n
  <2>8. Following(j) <= version[k].starts
    BY <1>1, <1>2, <2>6, <2>7
  <2> QED BY <1>1, <1>4, <2>3, <2>4, <2>8 DEF Lesser, Greater
<1>6. ASSUME NEW d \in start..(end - 1)
      PROVE  \E s \in Segments(start, end) : Covers(s, d)
  <2> DEFINE T == {m \in 1..n : d < Following(m)}
  <2>1. n \in T
    <3>1. Following(n) = Never
      <4>1. ~(n < n)
        <5> HIDE DEF n
        <5> QED BY <1>1
      <4> QED BY <4>1 DEF Following
    <3> HIDE DEF n
    <3> QED BY <1>1, <3>1
  <2>2. PICK k \in T : \A m \in T : k <= m
    <3>1. T \in SUBSET Nat
      OBVIOUS
    <3> QED BY <2>1, <3>1, LeastOne
  <2>3. k \in 1..n /\ d < Following(k)
    BY <2>2
  <2>4. version[k].starts <= d
    <3>1. CASE k = 1
      BY <1>3, <3>1
    <3>2. CASE k # 1
      <4> HIDE DEF n
      <4>1. k - 1 \in 1..n /\ k - 1 < n /\ (k - 1) + 1 = k /\ ~(k <= k - 1)
        BY <1>1, <2>3, <3>2
      <4>2. ~(d < Following(k - 1))
        BY <2>2, <4>1
      <4>3. Following(k - 1) = version[k].starts
        BY <4>1 DEF Following, n
      <4> QED BY <1>1, <2>3, <4>2, <4>3
    <3> QED BY <3>1, <3>2
  <2> HIDE DEF n, T
  <2>5. version[k].from < end
    BY <1>1, <1>3, <2>3, <2>4
  <2> DEFINE s == Segment(k, start, end)
  <2>6. /\ s.from = Greater(start, version[k].starts)
        /\ s.to = Lesser(end, Following(k))
    BY <1>1, <2>3, <2>5, SegmentsFollow
  <2>7. s.from <= d /\ d < s.to /\ s.from < s.to
    BY <1>1, <1>4, <2>3, <2>4, <2>6 DEF Lesser, Greater
  <2>8. s \in Segments(start, end)
    BY <1>1, <2>3, <2>5, <2>7 DEF Segments
  <2> QED BY <2>7, <2>8 DEF Covers
<1> QED BY <1>5, <1>6 DEF Resolves

\* Nothing but an exchange that is not completed and a price that was overtaken
\* keeps the engine from billing the next period, for any period and any number
\* of exchanges.
THEOREM PeriodsResolve == BillingSpec => []NextPeriodResolves
<1>1. ASSUME BillingInv PROVE NextPeriodResolves
  <2>1. /\ schedule.next \in Nat /\ PeriodEnd \in Nat /\ PeriodEnd <= Never
        /\ Anchor <= schedule.next
    <3>1. schedule.next \in Nat /\ schedule.next <= Horizon + Period
      BY <1>1, BillingAssumption DEF BillingInv, BillingTypeOK
    <3>2. agreement.end \in Nat /\ agreement.end <= Never /\ Never \in Nat
      BY <1>1, BillingAssumption DEF BillingInv, BillingTypeOK, Never
    <3>3. Anchor <= schedule.next
      BY <1>1, <3>1, BillingAssumption DEF BillingInv, ScheduleFits
    <3> QED BY <3>1, <3>2, <3>3, BillingAssumption DEF PeriodEnd, NextBoundary, Lesser
  <2> QED BY <1>1, <2>1, PeriodResolves DEF NextPeriodResolves
<1> QED BY <1>1, BillingOrder, PTL

-----------------------------------------------------------------------------
(* The last periods *)

\* What GeneratePeriod asks for before it bills the next period.
CanBillNext ==
    /\ schedule.status = "ACTIVE"
    /\ schedule.next < PeriodEnd
    /\ IF mode = "POSTPAID" THEN PeriodEnd <= now ELSE schedule.next <= now
    /\ \A p \in period : ~Overlap(p, [from |-> schedule.next, to |-> PeriodEnd])
    /\ Billable(PeriodEnd)
    /\ Resolves(schedule.next, PeriodEnd)

\* An agreement that ended has its rent billed, or the next period can be: the
\* job finds no reason to leave it out.
EndedRentCanBeBilled ==
    agreement.status = "ENDED" /\ ~Unfinished /\ ~Overtaken =>
        schedule.next >= agreement.end \/ CanBillNext

\* Periods are behind the schedule, which is closed only when it has reached the
\* end of the agreement; only an agreement that ended has one, and not later
\* than now.
PeriodsArePast == \A p \in period : p.to <= schedule.next
ClosedAtTheEnd == schedule.status = "CLOSED" => schedule.next >= agreement.end
EndIsPast ==
    IF agreement.status = "ENDED" THEN agreement.end <= now
    ELSE agreement.end = Never

EndingInv == BillingTypeOK /\ PeriodsArePast /\ ClosedAtTheEnd /\ EndIsPast

\* CanBillNext is the guard of GeneratePeriod, no less.
LEMMA GuardOfGenerate ==
    GeneratePeriod <=>
        /\ CanBillNext
        /\ period' = period \cup {[from |-> schedule.next, to |-> PeriodEnd]}
        /\ charge' = charge \cup RentCharges(schedule.next, PeriodEnd)
        /\ schedule' = [next |-> PeriodEnd,
                        status |-> IF PeriodEnd >= agreement.end
                                   THEN "CLOSED" ELSE "ACTIVE"]
        /\ UNCHANGED <<now, mode, agreement, version, exchange>>
BY DEF GeneratePeriod, CanBillNext

\* An active agreement's schedule is open, and nothing is billed yet.
LEMMA EndingInit == BillingInit => EndingInv
<1> SUFFICES ASSUME BillingInit PROVE EndingInv
  OBVIOUS
<1>1. BillingTypeOK
  BY InitHolds DEF BillingInv
<1> QED BY <1>1 DEF BillingInit, EndingInv, PeriodsArePast, ClosedAtTheEnd, EndIsPast

\* Steps that leave periods, schedule and agreement alone keep it.
LEMMA EndingFrame ==
    ASSUME EndingInv, BillingTypeOK', UNCHANGED <<schedule, agreement, period>>,
           now' >= now
    PROVE  EndingInv'
<1>1. PeriodsArePast' /\ ClosedAtTheEnd'
  BY DEF EndingInv, PeriodsArePast, ClosedAtTheEnd
<1>2. EndIsPast'
  BY BillingAssumption DEF EndingInv, EndIsPast, BillingTypeOK, Never
<1> QED BY <1>1, <1>2 DEF EndingInv

\* A step of the agreement that does not end it, and the one that does: the
\* schedule of an agreement without an end is never closed.
LEMMA EndingOfAgreement ==
    ASSUME EndingInv, BillingTypeOK',
           Suspend \/ Resume \/ RequestTermination \/ EndAgreement
    PROVE  EndingInv'
<1>1. /\ agreement.status \in {"ACTIVE", "SUSPENDED", "TERMINATION_PENDING"}
      /\ UNCHANGED <<now, schedule, period>>
  BY DEF Suspend, Resume, RequestTermination, EndAgreement, MoveAgreement
<1>2. agreement.end = Never /\ now \in Nat
  BY <1>1 DEF EndingInv, EndIsPast, BillingTypeOK
<1>3. schedule.next <= Horizon + Period /\ schedule.next \in Nat
  BY BillingAssumption DEF EndingInv, BillingTypeOK
<1>4. schedule.status # "CLOSED"
  BY <1>2, <1>3, BillingAssumption DEF EndingInv, ClosedAtTheEnd, Never
<1>5. PeriodsArePast' /\ ClosedAtTheEnd'
  BY <1>1, <1>4 DEF EndingInv, PeriodsArePast, ClosedAtTheEnd
<1>6. EndIsPast'
  <2>1. CASE EndAgreement
    BY <1>1, <1>2, <2>1 DEF EndAgreement, EndIsPast
  <2>2. CASE Suspend \/ Resume \/ RequestTermination
    <3>1. agreement'.status # "ENDED" /\ agreement'.end = Never
      BY <1>2, <2>2 DEF Suspend, Resume, RequestTermination, MoveAgreement, EndingInv, BillingTypeOK
    <3> QED BY <3>1 DEF EndIsPast, Never
  <2> QED BY <2>1, <2>2
<1> QED BY <1>5, <1>6 DEF EndingInv

\* A new period ends where the next one starts, and older ones before.
LEMMA EndingOfGenerate ==
    ASSUME EndingInv, BillingTypeOK', GeneratePeriod
    PROVE  EndingInv'
<1>1. /\ schedule.next \in Nat /\ agreement.end \in Nat /\ PeriodEnd \in Nat
      /\ schedule.next < PeriodEnd
  BY PeriodFacts DEF EndingInv, GeneratePeriod
<1>2. /\ period' = period \cup {[from |-> schedule.next, to |-> PeriodEnd]}
      /\ schedule'.next = PeriodEnd
      /\ schedule'.status = "CLOSED" => PeriodEnd >= agreement.end
      /\ UNCHANGED <<now, agreement>>
  BY DEF GeneratePeriod
<1>3. PeriodsArePast'
  <2> SUFFICES ASSUME NEW p \in period' PROVE p.to <= PeriodEnd
    BY <1>2 DEF PeriodsArePast
  <2>1. CASE p \in period
    <3>1. p.to \in Nat /\ p.to <= schedule.next
      BY <2>1 DEF EndingInv, PeriodsArePast, BillingTypeOK
    <3> QED BY <1>1, <3>1
  <2>2. CASE p = [from |-> schedule.next, to |-> PeriodEnd]
    BY <1>1, <2>2
  <2> QED BY <1>2, <2>1, <2>2
<1>4. ClosedAtTheEnd'
  BY <1>1, <1>2 DEF ClosedAtTheEnd
<1>5. EndIsPast'
  BY <1>2 DEF EndingInv, EndIsPast, Never
<1> QED BY <1>3, <1>4, <1>5 DEF EndingInv

\* Every step keeps it.
LEMMA EndingStep ==
    ASSUME EndingInv, BillingTypeOK', [BillingNext]_billingVars
    PROVE  EndingInv'
<1>1. now \in Int
  BY DEF EndingInv, BillingTypeOK
<1>2. CASE \E policy \in Policies : Present(policy)
  BY <1>1, <1>2, EndingFrame DEF Present
<1>3. CASE Accept \/ HandOver \/ Complete
  BY <1>1, <1>3, EndingFrame DEF Accept, HandOver, Complete
<1>4. CASE GeneratePeriod
  BY <1>4, EndingOfGenerate
<1>5. CASE Suspend \/ Resume \/ RequestTermination \/ EndAgreement
  BY <1>5, EndingOfAgreement
<1>6. CASE Tick
  BY <1>1, <1>6, EndingFrame DEF Tick
<1>7. CASE UNCHANGED billingVars
  BY <1>1, <1>7, EndingFrame DEF billingVars
<1> QED BY <1>2, <1>3, <1>4, <1>5, <1>6, <1>7 DEF BillingNext

\* However the agreement ended, between whichever billing runs and exchanges,
\* nothing but the two exceptions of EndedRentIsBilled keeps the engine from
\* billing what is left, as the final settlement demands before it goes on.
THEOREM EndedRentIsNotStuck == BillingSpec => []EndedRentCanBeBilled
<1>1. ASSUME BillingInv, EndingInv PROVE EndedRentCanBeBilled
  <2> SUFFICES ASSUME agreement.status = "ENDED", ~Unfinished, ~Overtaken,
                      ~(schedule.next >= agreement.end)
               PROVE  CanBillNext
    BY DEF EndedRentCanBeBilled
  <2>1. /\ schedule.next \in Nat /\ agreement.end \in Nat /\ PeriodEnd \in Nat
        /\ now \in Nat /\ now <= Horizon
    <3>1. BillingTypeOK
      BY <1>1 DEF BillingInv
    <3>2. now \in Nat /\ now <= Horizon
      BY <3>1, BillingAssumption DEF BillingTypeOK
    <3> QED BY <3>1, <3>2, PeriodFacts
  <2>2. agreement.end <= now /\ agreement.end # Never /\ schedule.next < agreement.end
    BY <1>1, <2>1, BillingAssumption DEF EndingInv, EndIsPast, Never
  <2>3. schedule.next < PeriodEnd /\ PeriodEnd <= agreement.end
    BY <2>1, <2>2, BillingAssumption DEF PeriodEnd, NextBoundary, Lesser
  <2>4. schedule.status = "ACTIVE"
    BY <1>1, <2>1, <2>2 DEF EndingInv, ClosedAtTheEnd, BillingTypeOK
  <2>5. IF mode = "POSTPAID" THEN PeriodEnd <= now ELSE schedule.next <= now
    BY <2>1, <2>2, <2>3
  <2>6. ASSUME NEW p \in period
        PROVE  ~Overlap(p, [from |-> schedule.next, to |-> PeriodEnd])
    <3>1. p.to \in Nat /\ p.to <= schedule.next
      BY <1>1 DEF EndingInv, PeriodsArePast, BillingTypeOK
    <3> QED BY <2>1, <3>1 DEF Overlap
  <2>7. Billable(PeriodEnd)
    BY <2>2, <2>3 DEF Billable
  <2>8. Resolves(schedule.next, PeriodEnd)
    <3>1. PeriodEnd <= Never
      BY <2>1, <2>2, <2>3, BillingAssumption DEF Never
    <3>2. Anchor <= schedule.next
      BY <1>1, <2>1, BillingAssumption DEF BillingInv, ScheduleFits
    <3> QED BY <1>1, <2>1, <3>1, <3>2, PeriodResolves
  <2> QED BY <2>3, <2>4, <2>5, <2>6, <2>7, <2>8 DEF CanBillNext
<1>2. BillingInv' => BillingTypeOK'
  BY DEF BillingInv
<1>3. BillingSpec => []EndingInv
  <2>1. EndingInv /\ BillingInv' /\ [BillingNext]_billingVars => EndingInv'
    BY <1>2, EndingStep
  <2> QED BY <2>1, EndingInit, BillingOrder, PTL DEF BillingSpec
<1> QED BY <1>1, <1>3, BillingOrder, PTL

-----------------------------------------------------------------------------
(* Rent that is billed afterwards *)

ChargesForRest == {"PRORATE_NEW_ONLY", "PRORATE_BOTH"}

\* PostpaidOnce between a rent and an exchange.
RentMeetsExchange ==
    mode = "POSTPAID" =>
        \A c, d \in charge :
            c.kind = "RENT" /\ d.kind = "PRORATION" /\ Overlap(c, d)
                => version[d.version].to < d.to \/ Lap(c, d) <= Anchor

\* What RentMeetsExchange needs besides the order of versions and charges: no period
\* ends after now, a price that is pending and begins at once begins after what
\* is billed, and an exchange charges only for a price that begins at once.
PostpaidInv ==
    /\ mode = "POSTPAID" => schedule.next <= now
    /\ exchange.policy \in ChargesForRest => exchange.starts = 0
    /\ Pending(Len(version)) =>
          /\ version[Len(version)].starts = exchange.starts
          /\ version[Len(version) - 1].to = Never
          /\ mode = "POSTPAID" /\ exchange.starts = 0
                => schedule.next <= version[Len(version)].from
    /\ \A c \in charge : c.kind = "PRORATION" =>
          version[c.version].starts = version[c.version].from
    /\ RentMeetsExchange

\* No period that reaches into a pending price is billed: of the versions before
\* it, the last one that is billed before the period ends overlaps with it.
LEMMA PendingBlocks ==
    ASSUME BillingInv, PostpaidInv, NEW start \in Nat, NEW end \in Nat, Anchor <= start,
           start < end, end <= Never, Resolves(start, end), Pending(Len(version)),
           version[Len(version)].starts < end
    PROVE  end <= version[Len(version)].from
<1> DEFINE n == Len(version)
<1>1. /\ n \in Nat /\ n >= 2 /\ DOMAIN version = 1..n /\ Never \in Nat
      /\ \A j \in 1..n : /\ version[j].from \in Nat /\ version[j].to \in Nat
                         /\ version[j].starts \in Nat
  <2>1. BillingTypeOK /\ VersionsChain
    BY DEF BillingInv
  <2>2. Never \in Nat
    BY BillingAssumption DEF Never
  <2>3. n \in Nat /\ DOMAIN version = 1..n
    BY <2>1, Rows
  <2>4. n >= 1 /\ n \in DOMAIN version
    BY <2>1, <2>3 DEF VersionsChain
  <2>5. n >= 2
    BY <2>1, <2>4 DEF VersionsChain
  <2> QED BY <2>1, <2>2, <2>3, <2>5, Rows
<1>2. /\ version[1].starts = Anchor /\ Anchor \in Nat
      /\ \A j, k \in 1..n : j < k => version[j].from <= version[k].from
      /\ \A k \in 1..(n - 1) : ~Pending(k) /\ version[k].from <= version[k].starts
      /\ version[n].to = Never /\ version[n - 1].to = Never
      /\ \A k \in 1..n : k < n /\ ~Pending(k + 1) => version[k].to = version[k + 1].from
  <2>1. \A k \in 1..n : Pending(k) => k = n
    BY <1>1 DEF BillingInv, VersionsChain
  <2>2. \A k \in 1..(n - 1) : k \in 1..n /\ k # n
    <3> HIDE DEF n
    <3> QED BY <1>1
  <2>3. /\ Anchor \in Nat /\ version[1].starts = Anchor
        /\ \A j, k \in 1..n : j < k => version[j].from <= version[k].from
        /\ version[n].to = Never /\ version[n - 1].to = Never
        /\ \A k \in 1..n : k < n /\ ~Pending(k + 1) => version[k].to = version[k + 1].from
    <3>1. version[n].to = Never /\ version[n - 1].to = Never
      BY DEF BillingInv, VersionsChain, PostpaidInv
    <3>2. /\ version[1].starts = Anchor
          /\ \A j, k \in DOMAIN version : j < k => version[j].from <= version[k].from
          /\ \A k \in DOMAIN version : k < n /\ ~Pending(k + 1)
                                            => version[k].to = version[k + 1].from
      BY DEF BillingInv, VersionsChain
    <3>3. Anchor \in Nat
      BY BillingAssumption
    <3>4. DOMAIN version = 1..n
      BY <1>1
    <3> HIDE DEF n
    <3> QED BY <3>1, <3>2, <3>3, <3>4, Zenon
  <2>4. \A k \in 1..(n - 1) : ~Pending(k) /\ version[k].from <= version[k].starts
    <3>1. \A k \in DOMAIN version : ~Pending(k) => version[k].from <= version[k].starts
      BY DEF BillingInv, VersionsChain
    <3> QED BY <1>1, <2>1, <2>2, <3>1
  <2> HIDE DEF n
  <2> QED BY <2>3, <2>4
<1>3. version[n].starts < end /\ n <= Len(version) /\ ~(n < Len(version))
  BY <1>1
<1>4. SUFFICES ASSUME version[n].from < end PROVE FALSE
  <2> HIDE DEF n
  <2>1. n \in 1..n
    BY <1>1
  <2>2. version[n].from \in Nat
    BY <1>1, <2>1
  <2> QED BY <1>4, <2>2 DEF n
<1> DEFINE T == {m \in 1..n : \A k \in 1..(n - 1) : m <= k => version[k].starts >= end}
<1>5. n \in T
  <2> HIDE DEF n
  <2> QED BY <1>1
<1>6. PICK m \in T : \A x \in T : m <= x
  <2>1. T \in SUBSET Nat
    OBVIOUS
  <2> QED BY <1>5, <2>1, LeastOne
<1>7. m >= 2 /\ m - 1 \in 1..(n - 1) /\ m - 1 \notin T /\ m \in 1..n
  <2> HIDE DEF n
  <2>1. m # 1
    <3>1. 1 \in 1..(n - 1)
      BY <1>1
    <3>2. ~(version[1].starts >= end)
      BY <1>2
    <3> QED BY <1>6, <3>1, <3>2
  <2> QED BY <1>1, <1>6, <2>1
<1> DEFINE k == m - 1
<1>8. k \in 1..(n - 1) /\ k \in 1..n /\ k < n /\ k + 1 = m
  <2> HIDE DEF n
  <2> QED BY <1>1, <1>7
<1>9. version[k].starts < end
  <2> HIDE DEF n
  <2>1. PICK l \in 1..(n - 1) : k <= l /\ ~(version[l].starts >= end)
    BY <1>7, <1>8
  <2>2. ~(m <= l)
    BY <1>6, <2>1
  <2>3. l = k
    BY <1>8, <2>1, <2>2
  <2>4. version[k].starts \in Nat
    BY <1>1, <1>8
  <2> QED BY <2>1, <2>3, <2>4
<1> HIDE DEF k
<1>10. version[k].from < end
  <2> HIDE DEF n, T
  <2> QED BY <1>1, <1>2, <1>8, <1>9
<1> DEFINE s == Segment(k, start, end)
           t == Segment(n, start, end)
<1>11. /\ s.version = k /\ s.from = Greater(start, version[k].starts)
       /\ s.to = end
  <2>1. s.version = k /\ s.from = Greater(start, Greater(version[k].from, version[k].starts))
    BY DEF Segment
  <2>2. version[k].from <= version[k].starts
    BY <1>2, <1>8
  <2>3. s.to = Lesser(end, IF /\ version[k + 1].from < end
                              /\ version[k + 1].starts > version[k].to
                           THEN version[k + 1].starts ELSE version[k].to)
    BY <1>8 DEF Segment
  <2> HIDE DEF s, n, T
  <2>4. CASE k = n - 1
    <3>1. version[k].to = Never
      BY <1>2, <2>4
    <3>2. ~(version[k + 1].starts > version[k].to)
      <4>1. k + 1 = n /\ version[n].starts \in Nat
        BY <1>1, <2>4
      <4> QED BY <1>1, <1>3, <3>1, <4>1
    <3>3. version[k].from \in Nat /\ version[k].starts \in Nat
      BY <1>1, <1>8
    <3> QED BY <1>1, <2>1, <2>2, <2>3, <3>1, <3>2, <3>3 DEF Lesser, Greater
  <2>5. CASE k # n - 1
    <3>1. m \in 1..(n - 1) /\ m \in 1..n
      BY <1>1, <1>8, <2>5
    <3>2. version[m].starts >= end
      BY <1>6, <3>1 DEF T
    <3>3. version[m].from <= version[n].from /\ version[n].from < end
      BY <1>1, <1>2, <1>4, <3>1
    <3>4. version[k].to = version[m].from
      BY <1>2, <1>8, <3>1
    <3>5. version[m].from \in Nat /\ version[m].starts \in Nat /\ version[n].from \in Nat
      BY <1>1, <3>1
    <3>6. s.to = end
      BY <1>8, <2>3, <3>2, <3>3, <3>4, <3>5 DEF Lesser
    <3>7. version[k].from \in Nat /\ version[k].starts \in Nat
      BY <1>1, <1>8
    <3> QED BY <2>1, <2>2, <3>6, <3>7 DEF Greater
  <2> QED BY <2>4, <2>5
<1>12. /\ t.version = n /\ t.to = end
       /\ t.from = Greater(start, Greater(version[n].from, version[n].starts))
  <2>1. t.to = Lesser(end, version[n].to)
    BY <1>3 DEF Segment
  <2> HIDE DEF n
  <2> QED BY <1>1, <1>2, <2>1 DEF Segment, Lesser
<1>13. /\ version[n].from \in Nat /\ version[n].starts \in Nat
       /\ version[k].starts \in Nat
  BY <1>1, <1>8
<1>14. s \in Segments(start, end) /\ t \in Segments(start, end) /\ t.from < end
  <2> HIDE DEF n, T, s, t
  <2>1. s.from < s.to /\ t.from < t.to
    BY <1>3, <1>4, <1>9, <1>11, <1>12, <1>13 DEF Greater, n
  <2> QED BY <1>1, <1>4, <1>8, <1>10, <1>12, <2>1 DEF Segments, s, t, n
<1>15. end <= t.from
  <2>1. s.version < t.version
    BY <1>8, <1>11, <1>12
  <2> QED BY <1>11, <1>14, <2>1 DEF Resolves
<1>16. t.from \in Nat
  BY <1>12, <1>13 DEF Greater
<1> HIDE DEF t
<1> QED BY <1>14, <1>15, <1>16

LEMMA PostpaidInit == BillingInit => PostpaidInv
<1> SUFFICES ASSUME BillingInit PROVE PostpaidInv
  OBVIOUS
<1>1. Len(version) = 1 /\ version[1].status = "ACTIVE"
  BY DEF BillingInit
<1> QED BY <1>1, BillingAssumption DEF BillingInit, PostpaidInv, RentMeetsExchange, Pending, NoExchange, ChargesForRest

\* Steps that neither bill nor move a price.
LEMMA PostpaidFrame ==
    ASSUME BillingInv, PostpaidInv, UNCHANGED <<version, schedule, charge, mode>>,
           now <= now', now \in Int, now' \in Int,
           \/ exchange'.policy = exchange.policy /\ exchange'.starts = exchange.starts
           \/ /\ ~Pending(Len(version))
              /\ exchange'.policy \in ChargesForRest => exchange'.starts = 0
    PROVE  PostpaidInv'
<1>1. schedule.next \in Int
  BY DEF BillingInv, BillingTypeOK
<1>2. RentMeetsExchange'
  BY DEF PostpaidInv, RentMeetsExchange, Overlap
<1> QED BY <1>1, <1>2 DEF PostpaidInv, Pending, Never, ChargesForRest

LEMMA PresentKeepsPostpaid ==
    ASSUME BillingInv, PostpaidInv, NEW policy \in Policies, Present(policy)
    PROVE  PostpaidInv'
<1>1. ~Pending(Len(version))
  BY DEF Present, BillingInv, ExchangeFits
<1>2. exchange'.policy \in ChargesForRest => exchange'.starts = 0
  BY DEF Present, BillingStart, ChargesForRest
<1>3. now \in Int
  BY DEF BillingInv, BillingTypeOK
<1> QED BY <1>1, <1>2, <1>3, PostpaidFrame DEF Present

\* The pending price begins now or with the next period.
LEMMA AcceptKeepsPostpaid ==
    ASSUME BillingInv, PostpaidInv, Accept
    PROVE  PostpaidInv'
<1> DEFINE n == Len(version)
<1>1. /\ n \in Nat /\ n >= 1 /\ DOMAIN version = 1..n /\ version \in Seq(VersionRow)
  BY Rows DEF BillingInv, VersionsChain, BillingTypeOK
<1>2. /\ Len(version') = n + 1 /\ \A k \in 1..n : version'[k] = version[k]
      /\ version'[n + 1].from = now /\ version'[n + 1].starts = exchange.starts
  BY <1>1 DEF Accept
<1>3. /\ exchange'.starts = exchange.starts /\ exchange'.policy = exchange.policy
      /\ UNCHANGED <<now, mode, schedule, charge>>
  BY DEF Accept, BillingInv, BillingTypeOK
<1>4. version'[n].to = Never /\ (n + 1) - 1 = n
  <2>1. n \in 1..n
    <3> HIDE DEF n
    <3> QED BY <1>1
  <2> QED BY <1>1, <1>2, <2>1 DEF BillingInv, VersionsChain
<1>5. \A c \in charge : c.kind = "PRORATION" =>
         c.version \in 1..n /\ version'[c.version] = version[c.version]
  BY <1>1, <1>2 DEF BillingInv, ExchangeCharges
<1>6. RentMeetsExchange'
  <2> HIDE DEF n
  <2> QED BY <1>3, <1>5 DEF PostpaidInv, RentMeetsExchange, Overlap
<1> HIDE DEF n
<1> QED BY <1>2, <1>3, <1>4, <1>5, <1>6 DEF PostpaidInv, Pending, Never, ChargesForRest

\* The charge of an exchange begins where nothing is billed yet.
LEMMA CompleteKeepsPostpaid ==
    ASSUME BillingInv, PostpaidInv, Complete, BillingInv'
    PROVE  PostpaidInv'
<1> DEFINE n == Len(version)
           at == exchange.handed
           c0 == [kind |-> "PRORATION", version |-> n, from |-> at, to |-> WindowEnd(at)]
<1>1. /\ n \in Nat /\ n >= 2 /\ Pending(n) /\ DOMAIN version = 1..n
      /\ n \in 1..n /\ n - 1 \in 1..n
      /\ version' = [version EXCEPT
             ![n - 1] = [version[n - 1] EXCEPT !.to = at, !.status = "SUPERSEDED"],
             ![n] = [version[n] EXCEPT !.from = at, !.status = "ACTIVE",
                 !.starts = IF exchange.starts = 0 THEN at ELSE exchange.starts]]
  BY Rows, CompletesPending DEF BillingInv
<1>2. /\ UNCHANGED <<now, mode, schedule>> /\ exchange' = NoExchange
      /\ charge' = charge \cup (IF exchange.units = 0 THEN {} ELSE {c0})
      /\ exchange.units = NewCharge(exchange.policy, at)
  BY DEF Complete, OfferStands
<1>3. version[n] \in VersionRow /\ version[n - 1] \in VersionRow
  BY <1>1, Rows DEF BillingInv
<1> HIDE DEF n, at
<1>4. /\ DOMAIN version' = 1..n
      /\ \A k \in 1..n : k # n - 1 /\ k # n => version'[k] = version[k]
      /\ version'[n].from = at /\ version'[n].to = version[n].to
      /\ version'[n].starts = (IF exchange.starts = 0 THEN at ELSE exchange.starts)
  <2>1. n # n - 1
    BY <1>1
  <2>2. /\ DOMAIN version' = 1..n
        /\ \A k \in 1..n : k # n - 1 /\ k # n => version'[k] = version[k]
        /\ version'[n] = [version[n] EXCEPT !.from = at, !.status = "ACTIVE",
                 !.starts = IF exchange.starts = 0 THEN at ELSE exchange.starts]
    BY <1>1, <2>1
  <2> QED BY <1>3, <2>2 DEF VersionRow
<1>10. /\ version'[n - 1].starts = version[n - 1].starts
       /\ version'[n - 1].from = version[n - 1].from
  <2>1. n # n - 1
    BY <1>1
  <2>2. version'[n - 1] = [version[n - 1] EXCEPT !.to = at, !.status = "SUPERSEDED"]
    BY <1>1, <2>1
  <2> QED BY <1>3, <2>2 DEF VersionRow
<1>5. ~Pending(Len(version))'
  <2>1. exchange'.status = "NONE"
    BY <1>2 DEF NoExchange
  <2> QED BY <2>1 DEF BillingInv, ExchangeFits
<1>6. \A c \in charge : c.kind = "PRORATION" => c.version \in 1..n /\ c.version # n
  <2>1. \A c \in charge : c.kind = "PRORATION" =>
           c.version \in DOMAIN version /\ ~Pending(c.version)
    BY DEF BillingInv, ExchangeCharges
  <2> QED BY <1>1, <2>1
<1>7. exchange.units # 0 =>
         /\ exchange.starts = 0
         /\ mode = "POSTPAID" => schedule.next <= at
  <2> SUFFICES ASSUME exchange.units # 0
               PROVE  /\ exchange.starts = 0
                      /\ mode = "POSTPAID" => schedule.next <= at
    OBVIOUS
  <2>1. exchange.starts = 0
    BY <1>2 DEF NewCharge, PostpaidInv, ChargesForRest
  <2>2. version[n].from <= at /\ version[n].from \in Nat /\ at \in Nat /\ schedule.next \in Nat
    BY <1>1, <1>3 DEF BillingInv, ExchangeFits, Complete, VersionRow, BillingTypeOK, n, at
  <2>3. mode = "POSTPAID" => schedule.next <= version[n].from
    BY <1>1, <2>1 DEF PostpaidInv, n
  <2> QED BY <2>1, <2>2, <2>3
<1>8. \A c \in charge' : c.kind = "PRORATION" =>
         version'[c.version].starts = version'[c.version].from
  <2> SUFFICES ASSUME NEW c \in charge', c.kind = "PRORATION"
               PROVE  version'[c.version].starts = version'[c.version].from
    OBVIOUS
  <2>1. CASE c \in charge
    <3>1. version[c.version].starts = version[c.version].from
      BY <2>1 DEF PostpaidInv
    <3> QED BY <1>4, <1>6, <1>10, <2>1, <3>1
  <2>2. CASE c \notin charge
    <3>1. c = c0 /\ exchange.units # 0
      BY <1>2, <2>2
    <3> QED BY <1>4, <1>7, <3>1
  <2> QED BY <2>1, <2>2
<1>9. RentMeetsExchange'
  <2> SUFFICES ASSUME mode = "POSTPAID", NEW c \in charge', NEW d \in charge',
                      c.kind = "RENT", d.kind = "PRORATION", Overlap(c, d),
                      ~(Lap(c, d) <= Anchor)
               PROVE  version'[d.version].to < d.to
    BY <1>2 DEF RentMeetsExchange, Overlap, Lap
  <2>1. c \in charge /\ c.to <= schedule.next /\ c.from \in Nat /\ c.to \in Nat
    BY <1>2 DEF BillingInv, RentIsPast, BillingTypeOK, ChargeRow
  <2>2. CASE d \in charge
    <3>1. version[d.version].to < d.to
      BY <2>1, <2>2 DEF PostpaidInv, RentMeetsExchange
    <3>2. /\ d.from = version[d.version].from /\ d.to = WindowEnd(d.from)
          /\ d.version \in 1..n
      BY <1>1, <2>2 DEF BillingInv, ExchangeCharges
    <3>3. d.from <= now /\ d.from \in Nat /\ now \in 0..Horizon
      BY <1>1, <2>2, <3>2 DEF BillingInv, VersionsChain, BillingTypeOK, ChargeRow
    <3>4. d.to <= d.from + Period /\ d.to \in Nat
      <4>1. Anchor <= d.from
        BY <1>1, <3>2, FromAnchor DEF BillingInv
      <4> QED BY <3>2, <3>3, <4>1, WindowFacts
    <3>5. d.version # n - 1
      <4>1. version[n - 1].to = Never
        BY <1>1 DEF PostpaidInv, n
      <4> QED BY <3>1, <3>3, <3>4, <4>1, BillingAssumption DEF Never
    <3> QED BY <1>4, <1>6, <2>2, <3>1, <3>2, <3>5
  <2>3. CASE d \notin charge
    <3>1. d = c0 /\ exchange.units # 0
      BY <1>2, <2>3
    <3>2. schedule.next <= at
      BY <1>7, <3>1
    <3>3. d.from = at /\ at \in Nat /\ schedule.next \in Nat
      BY <3>1 DEF BillingInv, BillingTypeOK, at
    <3> QED BY <2>1, <3>2, <3>3 DEF Overlap
  <2> QED BY <2>2, <2>3
<1> QED BY <1>2, <1>5, <1>8, <1>9 DEF PostpaidInv, NoExchange, ChargesForRest

\* A rent that the engine adds meets no exchange charge of the period, unless
\* that version was replaced before the period is over.
LEMMA GenerateKeepsPostpaid ==
    ASSUME BillingInv, PostpaidInv, GeneratePeriod
    PROVE  PostpaidInv'
<1> DEFINE start == schedule.next
           end == PeriodEnd
           n == Len(version)
<1>1. /\ start \in Nat /\ end \in Nat /\ end <= NextBoundary(start) /\ start < end
      /\ end <= Never /\ now \in Nat /\ agreement.end <= Never
      /\ Anchor <= start /\ Anchor \in Nat
  <2>1. agreement.end <= Never /\ now \in Nat
    BY BillingAssumption DEF BillingInv, BillingTypeOK, Never
  <2>2. /\ start \in Nat /\ end \in Nat /\ end <= NextBoundary(start) /\ start < end
        /\ Anchor <= start /\ Anchor \in Nat
    BY PeriodFacts, BillingAssumption DEF BillingInv, GeneratePeriod, ScheduleFits
  <2>3. agreement.end \in Nat /\ Never \in Nat /\ schedule.next \in Nat
    BY PeriodFacts, BillingAssumption DEF BillingInv, Never
  <2>4. end <= Never
    BY <2>1, <2>3, BillingAssumption DEF PeriodEnd, NextBoundary, Lesser
  <2> QED BY <2>1, <2>2, <2>4
<1>2. Resolves(start, end)
  BY DEF GeneratePeriod
<1>3. /\ UNCHANGED <<now, mode, version, exchange>>
      /\ charge' = charge \cup RentCharges(start, end)
      /\ schedule'.next = end
      /\ mode = "POSTPAID" => end <= now
  BY DEF GeneratePeriod
<1>4. PICK q \in Nat : /\ Period * q \in Nat /\ Period * q <= start
                      /\ start \in {Anchor, Period * q}
                      /\ NextBoundary(start) = Period * q + Period
  BY PeriodNumber DEF BillingInv, GeneratePeriod
<1> HIDE DEF start, end
<1>5. ASSUME Pending(n), mode = "POSTPAID", exchange.starts = 0
      PROVE  end <= version[n].from
  <2>1. version[n].starts < end
    BY <1>1, <1>5 DEF PostpaidInv
  <2> QED BY <1>1, <1>2, <1>5, <2>1, PendingBlocks
<1>6. ASSUME NEW c \in RentCharges(start, end), NEW d \in charge,
             d.kind = "PRORATION", Overlap(c, d)
      PROVE  version[d.version].to < d.to \/ Lap(c, d) <= Anchor
  <2> DEFINE k == d.version
  <2>1. PICK s \in Segments(start, end) :
           /\ c = [kind |-> "RENT", version |-> s.version, from |-> s.from, to |-> s.to]
           /\ ~Realized(s.version, start, end)
    BY DEF RentCharges
  <2>2. /\ s.from \in Nat /\ s.to \in Nat /\ start <= s.from /\ s.to <= end
        /\ s.from < s.to /\ s.version \in 1..n
    BY <1>1, SegmentFacts, Rows DEF BillingInv
  <2>3. /\ k \in 1..n /\ ~Pending(k) /\ d.from \in Nat /\ d.to \in Nat /\ n \in Nat
        /\ d.from = version[k].from /\ d.to = WindowEnd(d.from) /\ Anchor <= d.from
        /\ version[k].starts = version[k].from
        /\ version[k].to \in Nat /\ version[k].starts \in Nat
    <3>1. /\ k \in DOMAIN version /\ ~Pending(k)
          /\ d.from = version[k].from /\ d.to = WindowEnd(d.from) /\ Anchor <= d.from
          /\ version[k].starts = version[k].from
      BY <1>6, FromAnchor DEF BillingInv, ExchangeCharges, PostpaidInv
    <3>2. d.from \in Nat /\ d.to \in Nat
      BY DEF BillingInv, BillingTypeOK, ChargeRow
    <3> HIDE DEF k
    <3> QED BY <3>1, <3>2, Rows DEF BillingInv
  <2>4. d.from < s.to /\ s.from < d.to
    BY <1>6, <2>1 DEF Overlap
  <2> HIDE DEF k, n
  <2> SUFFICES ASSUME ~(Lap(c, d) <= Anchor)
               PROVE  version[d.version].to < d.to
    OBVIOUS
  <2>14. start + Anchor < d.to
    <3>1. c.from = s.from /\ c.to = s.to
      BY <2>1
    <3> QED BY <1>1, <2>2, <2>3, <3>1 DEF Lap, Lesser, Greater
  <2>15. /\ EngineEnd(d.from) \in Nat
         /\ d.to = EngineEnd(d.from) + Anchor \/ d.to = EngineEnd(d.from) - Period + Anchor
    BY <2>3, BoundariesNear
  <2>5. start <= d.from
    <3> SUFFICES ASSUME d.from < start PROVE FALSE
      BY <1>1, <2>3
    <3>1. start = Period * q
      BY <1>1, <1>4, <2>3
    <3>2. EngineEnd(d.from) <= start
      <4> DEFINE a == d.from \div Period
      <4>1. /\ a \in Nat /\ d.from = Period * a + (d.from % Period)
            /\ d.from % Period \in 0..(Period - 1)
        BY <2>3, BillingAssumption
      <4>2. a + 1 <= q
        <5>1. ~(q <= a)
          <6> SUFFICES ASSUME q <= a PROVE FALSE
            OBVIOUS
          <6>1. Period * q <= Period * a
            BY <4>1, TimesMonotone, BillingAssumption
          <6>2. Period * a \in Nat
            BY <4>1, BillingAssumption
          <6> QED BY <2>3, <3>1, <4>1, <6>1, <6>2, BillingAssumption
        <5> QED BY <4>1, <5>1
      <4>3. Period * (a + 1) = Period * a + Period /\ Period * a \in Nat
        BY <4>1, BillingAssumption
      <4>4. Period * (a + 1) <= Period * q
        BY <4>1, <4>2, TimesMonotone, BillingAssumption
      <4>5. EngineEnd(d.from) = Period * a + Period
        <5> HIDE DEF a
        <5> QED BY <4>1, <4>3, BillingAssumption DEF EngineEnd
      <4> QED BY <3>1, <4>3, <4>4, <4>5
    <3> QED BY <1>1, <2>3, <2>14, <2>15, <3>2, BillingAssumption
  <2>6. d.to >= end
    <3>1. d.from < Period * q + Period /\ Period * q <= d.from
      BY <1>1, <1>4, <2>2, <2>3, <2>4, <2>5, BillingAssumption
    <3>2. EngineEnd(d.from) = Period * q + Period
      BY <1>4, <2>3, <3>1, EngineEndOf
    <3>3. d.to = EngineEnd(d.from) + Anchor
      BY <1>1, <1>4, <2>3, <2>14, <2>15, <3>2, BillingAssumption
    <3> QED BY <1>1, <1>4, <2>3, <3>2, <3>3, BillingAssumption
  <2>7. s.version # k
    <3>1. d.from < end
      BY <1>1, <2>2, <2>3, <2>4
    <3>2. Realized(k, start, end)
      BY <1>6, <2>5, <3>1 DEF Realized, k
    <3> QED BY <2>1, <3>2
  <2> SUFFICES ASSUME ~(version[k].to < d.to) PROVE FALSE
    BY DEF k
  <2>8. end <= version[k].to
    BY <1>1, <2>3, <2>6, BillingAssumption
  <2> DEFINE t == Segment(k, start, end)
  <2>9. t.version = k /\ t.from = d.from /\ t.to = end
    <3>1. /\ t.version = k
          /\ t.from = Greater(start, Greater(version[k].from, version[k].starts))
          /\ t.to = Lesser(end, IF /\ k < n /\ version[k + 1].from < end
                                   /\ version[k + 1].starts > version[k].to
                                THEN version[k + 1].starts ELSE version[k].to)
      BY DEF Segment, n
    <3>2. k < n => version[k + 1].starts \in Nat
      <4>1. k < n => k + 1 \in DOMAIN version
        BY <2>3, Rows DEF BillingInv, n
      <4> QED BY <4>1, Rows DEF BillingInv
    <3> HIDE DEF t
    <3>3. t.to = end
      BY <1>1, <2>3, <2>8, <3>1, <3>2 DEF Lesser
    <3>4. t.from = d.from
      BY <1>1, <2>3, <2>5, <3>1 DEF Greater
    <3> QED BY <3>1, <3>3, <3>4
  <2>10. t \in Segments(start, end)
    <3>1. k \in DOMAIN version
      BY <2>3, Rows DEF BillingInv, n
    <3>2. d.from < end
      BY <1>1, <2>2, <2>3, <2>4
    <3> QED BY <2>3, <2>9, <3>1, <3>2 DEF Segments
  <2> HIDE DEF t
  <2>11. s.version < k => s.to <= t.from
    BY <1>2, <2>9, <2>10 DEF Resolves
  <2>12. k < s.version => t.to <= s.from
    BY <1>2, <2>9, <2>10 DEF Resolves
  <2>13. k \in Int /\ s.version \in Int
    BY <2>2, <2>3
  <2> QED BY <1>1, <2>2, <2>3, <2>4, <2>7, <2>9, <2>11, <2>12, <2>13
<1>7. ASSUME NEW c \in charge', c.kind = "PRORATION" PROVE c \in charge
  BY <1>3, <1>7 DEF RentCharges
<1>8. RentMeetsExchange'
  <2> SUFFICES ASSUME mode = "POSTPAID", NEW c \in charge', NEW d \in charge',
                      c.kind = "RENT", d.kind = "PRORATION", Overlap(c, d)
               PROVE  version[d.version].to < d.to \/ Lap(c, d) <= Anchor
    BY <1>3 DEF RentMeetsExchange, Overlap, Lap
  <2>1. d \in charge
    BY <1>7
  <2>2. CASE c \in charge
    BY <2>1, <2>2 DEF PostpaidInv, RentMeetsExchange
  <2>3. CASE c \notin charge
    BY <1>3, <1>6, <2>1, <2>3
  <2> QED BY <2>2, <2>3
<1> QED BY <1>3, <1>5, <1>7, <1>8 DEF PostpaidInv, Pending, Never

LEMMA PostpaidStep ==
    ASSUME BillingInv, PostpaidInv, BillingInv', [BillingNext]_billingVars
    PROVE  PostpaidInv'
<1>1. now \in Int
  BY DEF BillingInv, BillingTypeOK
<1>2. ASSUME NEW policy \in Policies, Present(policy) PROVE PostpaidInv'
  BY <1>2, PresentKeepsPostpaid
<1>3. CASE HandOver
  <2>1. exchange'.policy = exchange.policy /\ exchange'.starts = exchange.starts
    BY <1>3 DEF HandOver, BillingInv, BillingTypeOK
  <2> QED BY <1>1, <1>3, <2>1, PostpaidFrame DEF HandOver
<1>4. CASE Suspend \/ Resume \/ RequestTermination
  BY <1>1, <1>4, PostpaidFrame DEF Suspend, Resume, RequestTermination, MoveAgreement
<1>5. CASE EndAgreement
  BY <1>1, <1>5, PostpaidFrame DEF EndAgreement
<1>6. CASE Tick
  BY <1>1, <1>6, PostpaidFrame DEF Tick
<1>7. CASE UNCHANGED billingVars
  BY <1>1, <1>7, PostpaidFrame DEF billingVars
<1> QED BY <1>2, <1>3, <1>4, <1>5, <1>6, <1>7, AcceptKeepsPostpaid, CompleteKeepsPostpaid,
           GenerateKeepsPostpaid DEF BillingNext

\* Of two exchanges, the earlier one's version ends where the later one's begins.
LEMMA ChargesMeet ==
    ASSUME BillingInv, PostpaidInv
    PROVE  PostpaidOnce
<1> SUFFICES ASSUME mode = "POSTPAID", NEW c \in charge, NEW d \in charge,
                    c # d, Overlap(c, d)
             PROVE  \/ \E e \in {c, d} :
                           e.kind = "PRORATION" /\ version[e.version].to < e.to
                    \/ Lap(c, d) <= Anchor
  BY DEF PostpaidOnce
<1>1. \A e \in charge : e.kind \in {"RENT", "PRORATION"} /\ e.from \in Nat /\ e.to \in Nat
  BY DEF BillingInv, BillingTypeOK, ChargeRow
<1>2. CASE c.kind = "RENT" /\ d.kind = "RENT"
  BY <1>2 DEF BillingInv, RentOnce
<1>3. CASE c.kind = "RENT" /\ d.kind = "PRORATION"
  BY <1>3 DEF PostpaidInv, RentMeetsExchange
<1>4. CASE d.kind = "RENT" /\ c.kind = "PRORATION"
  <2>1. Overlap(d, c) /\ Lap(d, c) = Lap(c, d)
    BY <1>1 DEF Overlap, Lap, Lesser, Greater
  <2> QED BY <1>4, <2>1 DEF PostpaidInv, RentMeetsExchange
<1>5. ASSUME NEW x \in charge, NEW y \in charge, x.kind = "PRORATION",
             y.kind = "PRORATION", Overlap(x, y), x.version < y.version
      PROVE  version[x.version].to < x.to
  <2> DEFINE j == x.version
             k == y.version
             n == Len(version)
  <2>1. /\ DOMAIN version = 1..n /\ n \in Nat /\ j \in 1..n /\ k \in 1..n
        /\ ~Pending(k) /\ y.from = version[k].from
        /\ \A m \in 1..n : version[m].from \in Nat
    BY <1>5, Rows DEF BillingInv, ExchangeCharges
  <2>2. y.from < x.to
    BY <1>5 DEF Overlap
  <2> HIDE DEF n, j, k
  <2>3. j < k
    BY <1>5 DEF j, k
  <2>4. j + 1 \in 1..n /\ (j + 1 = k \/ j + 1 < k) /\ j < n
    BY <2>1, <2>3
  <2>5. ~Pending(j + 1)
    <3>1. Pending(j + 1) => j + 1 = n
      BY <2>1, <2>4 DEF BillingInv, VersionsChain, n
    <3> QED BY <2>1, <2>4, <3>1
  <2>6. version[j].to = version[j + 1].from
    BY <2>1, <2>4, <2>5 DEF BillingInv, VersionsChain, n
  <2>7. version[j + 1].from <= version[k].from
    <3>1. CASE j + 1 = k
      BY <2>1, <3>1
    <3>2. CASE j + 1 < k
      BY <2>1, <2>4, <3>2 DEF BillingInv, VersionsChain
    <3> QED BY <2>4, <3>1, <3>2
  <2>8. version[j].to < x.to
    BY <1>1, <2>1, <2>2, <2>4, <2>6, <2>7
  <2> QED BY <2>8 DEF j
<1>6. CASE c.kind = "PRORATION" /\ d.kind = "PRORATION"
  <2>1. c.version # d.version
    <3>1. /\ c.from = version[c.version].from /\ c.to = WindowEnd(c.from)
          /\ d.from = version[d.version].from /\ d.to = WindowEnd(d.from)
      BY <1>6 DEF BillingInv, ExchangeCharges
    <3>2. c \in ChargeRow /\ d \in ChargeRow
      BY DEF BillingInv, BillingTypeOK
    <3> QED BY <1>6, <3>1, <3>2 DEF ChargeRow
  <2>2. c.version \in Int /\ d.version \in Int
    BY DEF BillingInv, BillingTypeOK, ChargeRow
  <2>3. Overlap(d, c)
    BY DEF Overlap
  <2> QED BY <1>5, <1>6, <2>1, <2>2, <2>3
<1> QED BY <1>1, <1>2, <1>3, <1>4, <1>6

\* Where rent is billed afterwards nothing is charged twice but the rest of a
\* period for a vehicle that was itself replaced, and less than a second between
\* the two boundaries of a period, with any period, anchor, proration unit and
\* number of exchanges.
THEOREM PostpaidChargesOnce == BillingSpec => []PostpaidOnce
<1>1. BillingInit => BillingInv /\ PostpaidInv
  BY InitHolds, PostpaidInit
<1>2. BillingInv /\ PostpaidInv /\ [BillingNext]_billingVars => BillingInv' /\ PostpaidInv'
  BY BillingStep, PostpaidStep
<1>3. BillingInv /\ PostpaidInv => PostpaidOnce
  BY ChargesMeet
<1> QED BY <1>1, <1>2, <1>3, PTL DEF BillingSpec
=============================================================================

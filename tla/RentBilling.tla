----------------------------- MODULE RentBilling -----------------------------
(***************************************************************************)
(* How the rent of one agreement is charged.  The billing engine turns one *)
(* period after the other into an invoice; exchanges of the vehicle change *)
(* the price in the middle of a period, and the agreement ends on any day. *)
(*                                                                         *)
(*   schedule   RiderBillingSchedule: where the next period starts;        *)
(*   version    RiderAgreementCommercialVersion rows: since when and until *)
(*              when a vehicle's price holds, and from when it is billed;  *)
(*   exchange   the exchange in progress with its latest offer;            *)
(*   period     RiderBillingPeriod rows;                                   *)
(*   charge     RiderCharge rows for time: RENT by the engine, PRORATION   *)
(*              by the exchange, for the rest of the period it falls in.   *)
(*                                                                         *)
(* The clock counts from the second of the handover, in steps that are     *)
(* shorter.  The handover, at Anchor, is the anchor of the schedule and    *)
(* version 1's start.  Periods have a fixed length, as DAILY, WEEKLY,      *)
(* FORTNIGHTLY and CUSTOM ones do, and activate sets a time zone without   *)
(* daylight saving.  Still there are two kinds of boundaries: exchanges    *)
(* count periods from the anchor, the engine drops what it has below a     *)
(* second and counts from there, so that its periods end a little earlier. *)
(*                                                                         *)
(* A price is positive and tells amounts for different times apart;        *)
(* prices, taxes, fees and one-time charges are left out.  A replacement   *)
(* is not offered, held and handed over here as in VehicleExchange: only   *)
(* what billing reads or the prices depend on.                             *)
(*                                                                         *)
(* verifiedOldPeriodPayment looks for rent charges that refer to the       *)
(* agreement or its amendment; those of the engine refer to their billing  *)
(* period.  So no exchange finds the old period paid, no credit arises,    *)
(* PRORATE_OLD_ONLY acts as NO_PRORATION and PRORATE_BOTH as               *)
(* PRORATE_NEW_ONLY.                                                       *)
(***************************************************************************)
EXTENDS Integers, Sequences, FiniteSets

CONSTANTS
    Period,        \* length of a billing period
    Anchor,        \* how far in its second the handover was
    Unit,          \* proration counts begun units: a day or an hour
    Policies,      \* proration policies the client may set, at any time
    Horizon,       \* bound on the clock
    MaxVersions    \* bound on the versions: one, and one for each exchange

ASSUME BillingAssumption ==
    /\ Period \in Nat \ {0}
    /\ Anchor \in 0..(Period - 1)
    /\ Unit \in Nat \ {0}
    /\ Policies \subseteq {"NO_PRORATION", "PRORATE_OLD_ONLY", "PRORATE_NEW_ONLY",
                           "PRORATE_BOTH", "START_NEW_NEXT_BILLING_CYCLE"}
    /\ Horizon \in Nat /\ Anchor <= Horizon
    /\ MaxVersions \in Nat \ {0}

VARIABLES now, mode, schedule, agreement, version, exchange, period, charge

billingVars == <<now, mode, schedule, agreement, version, exchange, period, charge>>

Never == Horizon + Period + 1     \* a time that is not set and not reached
Lesser(a, b) == IF a < b THEN a ELSE b
Greater(a, b) == IF a < b THEN b ELSE a
Before(t) == {d \in Anchor..Horizon : d < t}

\* Row r is about the moment d; rows r and s share a moment.
Covers(r, d) == r.from <= d /\ d < r.to
Overlap(r, s) == r.from < s.to /\ s.from < r.to

VersionRow == [status : {"PENDING", "ACTIVE", "SUPERSEDED"},
               from : Nat, to : Nat, starts : Nat]
ChargeRow == [kind : {"RENT", "PRORATION"}, version : Nat, from : Nat, to : Nat]

NoExchange == [status |-> "NONE", policy |-> "NO_PRORATION",
               units |-> 0, starts |-> 0, handed |-> 0]

\* activate: the schedule is prepaid if the offer asks for a first rent upfront.
BillingInit ==
    /\ now = Anchor
    /\ mode \in {"PREPAID", "POSTPAID"}
    /\ schedule = [next |-> Anchor, status |-> "ACTIVE"]
    /\ agreement = [status |-> "ACTIVE", end |-> Never]
    /\ version = <<[status |-> "ACTIVE", from |-> Anchor, to |-> Never, starts |-> Anchor]>>
    /\ exchange = NoExchange
    /\ period = {}
    /\ charge = {}

-----------------------------------------------------------------------------
(* Exchanges *)

\* billingWindow: where the period that at falls in ends, counted from the anchor.
WindowEnd(at) == at - ((at - Anchor) % Period) + Period

\* prorateExchange: the units of the period that are left, the begun one too.
UnitsLeft(at) == (WindowEnd(at) - at + Unit - 1) \div Unit

NewCharge(policy, at) ==
    IF policy \in {"PRORATE_NEW_ONLY", "PRORATE_BOTH"} THEN UnitsLeft(at) ELSE 0

\* billingStartAt of an offer, 0 for null.
BillingStart(policy, at) ==
    IF policy = "START_NEW_NEXT_BILLING_CYCLE" THEN WindowEnd(at) ELSE 0

\* present prices the exchange as if it happened now, by the policy the client
\* has now.  A rejected or expired offer is replaced by the next one.
Present(policy) ==
    /\ agreement.status = "ACTIVE"
    /\ exchange.status \in {"NONE", "PRESENTED"}
    /\ Len(version) < MaxVersions
    /\ exchange' = [status |-> "PRESENTED", policy |-> policy,
                    units |-> NewCharge(policy, now),
                    starts |-> BillingStart(policy, now), handed |-> 0]
    /\ UNCHANGED <<now, mode, schedule, agreement, version, period, charge>>

\* accept: the version of the replacement waits as PENDING.
Accept ==
    /\ agreement.status = "ACTIVE"
    /\ exchange.status = "PRESENTED"
    /\ exchange' = [exchange EXCEPT !.status = "ACCEPTED"]
    /\ version' = Append(version, [status |-> "PENDING", from |-> now, to |-> Never,
                                   starts |-> exchange.starts])
    /\ UNCHANGED <<now, mode, schedule, agreement, period, charge>>

\* The replacement is handed over: its allocation is ACTIVE from now on.
HandOver ==
    /\ agreement.status = "ACTIVE"
    /\ exchange.status = "ACCEPTED"
    /\ exchange' = [exchange EXCEPT !.status = "HANDED", !.handed = now]
    /\ UNCHANGED <<now, mode, schedule, agreement, version, period, charge>>

\* What was accepted is what it costs at the handover: otherwise complete ends
\* with EXCHANGE_PRORATION_STALE or EXCHANGE_BILLING_CYCLE_STALE, now and later.
OfferStands ==
    /\ exchange.units = NewCharge(exchange.policy, exchange.handed)
    /\ exchange.starts \in {0, WindowEnd(exchange.handed)}

\* complete: the old version ends and the new one counts from the handover.
Complete ==
    LET n == Len(version)
        at == exchange.handed
    IN  /\ agreement.status = "ACTIVE"
        /\ exchange.status = "HANDED"
        /\ OfferStands
        /\ charge' = charge \cup
              IF exchange.units = 0 THEN {}
              ELSE {[kind |-> "PRORATION", version |-> n,
                     from |-> at, to |-> WindowEnd(at)]}
        /\ version' = [version EXCEPT
              ![n - 1] = [@ EXCEPT !.to = at, !.status = "SUPERSEDED"],
              ![n] = [@ EXCEPT !.from = at, !.status = "ACTIVE",
                               !.starts = IF exchange.starts = 0
                                          THEN at ELSE exchange.starts]]
        /\ exchange' = NoExchange
        /\ UNCHANGED <<now, mode, schedule, agreement, period>>

-----------------------------------------------------------------------------
(* The billing engine *)

\* nextBillingBoundary: a period later, without what start has below a second.
\* Only the first start, the anchor, has any.
NextBoundary(start) == (IF start = Anchor THEN 0 ELSE start) + Period

\* The next boundary, or the end of the agreement before it.
PeriodEnd == Lesser(NextBoundary(schedule.next), agreement.end)

\* Faulty: the old price ends with the old vehicle although the new one is deferred.
SegmentUndeferred(k, start, end) ==
    [version |-> k,
     from |-> Greater(start, Greater(version[k].from, version[k].starts)),
     to |-> Lesser(end, version[k].to)]

\* resolveCommercialSegments: what of the time from start to end belongs to
\* version k, among the versions that are effective before the end.
Segment(k, start, end) ==
    LET row == version[k]
        deferred == k < Len(version) /\ version[k + 1].from < end
                    /\ version[k + 1].starts > row.to
    IN  [version |-> k,
         from |-> Greater(start, Greater(row.from, row.starts)),
         to |-> Lesser(end, IF deferred THEN version[k + 1].starts ELSE row.to)]

Segments(start, end) ==
    {s \in {Segment(k, start, end) : k \in {k \in DOMAIN version : version[k].from < end}} :
        s.from < s.to}

\* The segments follow each other without COMMERCIAL_VERSION_OVERLAP and without
\* a time that belongs to none.
Resolves(start, end) ==
    /\ \A s, t \in Segments(start, end) : s.version < t.version => s.to <= t.from
    /\ \A d \in start..(end - 1) : \E s \in Segments(start, end) : Covers(s, d)

\* Faulty: an exchange charge of the period counts for every version.
RealizedByAny(k, start, end) ==
    \E c \in charge : c.kind = "PRORATION" /\ start <= c.from /\ c.from < end

\* Faulty: an exchange at the very start of the period does not count.
RealizedEarlier(k, start, end) ==
    \E c \in charge : /\ c.kind = "PRORATION" /\ c.version = k
                      /\ start < c.from /\ c.from < end

\* The exchange that brought version k charged for it in this period already.
Realized(k, start, end) ==
    \E c \in charge : /\ c.kind = "PRORATION" /\ c.version = k
                      /\ start <= c.from /\ c.from < end

RentCharges(start, end) ==
    {[kind |-> "RENT", version |-> s.version, from |-> s.from, to |-> s.to] :
        s \in {s \in Segments(start, end) : ~Realized(s.version, start, end)}}

\* Faulty: what is left when the agreement ends is not billed.
BillableWhileActive(end) == agreement.status = "ACTIVE"

\* A period is billed while the agreement is active, and up to its end.
Billable(end) ==
    agreement.status = "ACTIVE" \/ (agreement.end # Never /\ end <= agreement.end)

\* generate, called by the hourly job, an operator or the final settlement.
GeneratePeriod ==
    LET start == schedule.next
        end == PeriodEnd
    IN  /\ schedule.status = "ACTIVE"
        /\ start < end
        /\ IF mode = "POSTPAID" THEN end <= now ELSE start <= now
        /\ \A p \in period : ~Overlap(p, [from |-> start, to |-> end])
        /\ Billable(end)
        /\ Resolves(start, end)
        /\ period' = period \cup {[from |-> start, to |-> end]}
        /\ charge' = charge \cup RentCharges(start, end)
        /\ schedule' = [next |-> end,
                        status |-> IF end >= agreement.end THEN "CLOSED" ELSE "ACTIVE"]
        /\ UNCHANGED <<now, mode, agreement, version, exchange>>

-----------------------------------------------------------------------------
(* The agreement and the clock *)

MoveAgreement(from, to) ==
    /\ agreement.status \in from
    /\ agreement' = [agreement EXCEPT !.status = to]
    /\ UNCHANGED <<now, mode, schedule, version, exchange, period, charge>>

Suspend == MoveAgreement({"ACTIVE"}, "SUSPENDED")
RequestTermination == MoveAgreement({"ACTIVE", "SUSPENDED"}, "TERMINATION_PENDING")

\* Only while the rider has the vehicle that the rental began with: it was not
\* exchanged yet, or a later exchange may have brought it back.
Resume ==
    /\ exchange.status \in {"NONE", "HANDED"} /\ Len(version) # 2
    /\ MoveAgreement({"SUSPENDED"}, "ACTIVE")

\* The vehicle is given back, or an operator ends the agreement: TERMINATED or
\* COMPLETED, with the time of it.
EndAgreement ==
    /\ agreement.status \in {"ACTIVE", "SUSPENDED", "TERMINATION_PENDING"}
    /\ agreement' = [status |-> "ENDED", end |-> now]
    /\ UNCHANGED <<now, mode, schedule, version, exchange, period, charge>>

Tick ==
    /\ now < Horizon
    /\ now' = now + 1
    /\ UNCHANGED <<mode, schedule, agreement, version, exchange, period, charge>>

BillingNext ==
    \/ \E policy \in Policies : Present(policy)
    \/ Accept \/ HandOver \/ Complete
    \/ GeneratePeriod
    \/ Suspend \/ Resume \/ RequestTermination \/ EndAgreement
    \/ Tick

BillingSpec == BillingInit /\ [][BillingNext]_billingVars

\* The hourly job, which takes up the twenty active schedules with the oldest
\* next periods, reaches this one.
FairBillingSpec == BillingSpec /\ WF_billingVars(GeneratePeriod)

-----------------------------------------------------------------------------
(* Properties *)

\* Types of the rows.
BillingTypeOK ==
    /\ now \in 0..Horizon
    /\ mode \in {"PREPAID", "POSTPAID"}
    /\ schedule \in [next : 0..(Horizon + Period), status : {"ACTIVE", "CLOSED"}]
    /\ agreement \in [status : {"ACTIVE", "SUSPENDED", "TERMINATION_PENDING", "ENDED"},
                      end : 0..Never]
    /\ version \in Seq(VersionRow)
    /\ exchange \in [status : {"NONE", "PRESENTED", "ACCEPTED", "HANDED"},
                     policy : Policies \cup {"NO_PRORATION"},
                     units : Nat, starts : Nat, handed : Nat]
    /\ period \subseteq [from : Nat, to : Nat]
    /\ charge \subseteq ChargeRow

\* Where the period of the engine that at falls in ends.
EngineEnd(at) == at - (at % Period) + Period

\* What nobody charges: an exchange is handed over in the first moments of a
\* period of the engine, which still belong to the period before by the anchor.
\* It charges up to the anchor's boundary, and the engine leaves out the rest.
LeftOut(c, d) == c.kind = "PRORATION" /\ WindowEnd(c.from) <= d /\ d < EngineEnd(c.from)

\* However exchanges, endings and billing runs meet, no two rents are for the same
\* moment, and each moment before the next period is charged, by a rent or by an
\* exchange, but for what an exchange between the two boundaries leaves out.
RentOnce ==
    /\ \A c, d \in {c \in charge : c.kind = "RENT"} :
          c # d => ~Overlap(c, d)
    /\ \A d \in Before(schedule.next) : \E c \in charge : Covers(c, d) \/ LeftOut(c, d)

\* An accepted exchange is not completed.
Unfinished == \E k \in DOMAIN version : version[k].status = "PENDING"

\* A price that was to begin with the next period was replaced before, by one
\* that begins at once.
Overtaken ==
    \E j, k \in DOMAIN version : j < k /\ version[j].starts > version[k].starts

\* Nothing else keeps a period from being billed: the versions that exchanges
\* leave behind follow each other without overlap or gap.
NextPeriodResolves ==
    ~Unfinished /\ ~Overtaken => Resolves(schedule.next, PeriodEnd)

\* The rent of an agreement that ended is billed up to its end, as the final
\* settlement demands, with the same two exceptions.
EndedRentIsBilled ==
    (agreement.status = "ENDED" /\ ~Unfinished /\ ~Overtaken)
        ~> schedule.next >= agreement.end

\* How long two charges are for the same time.
Lap(c, d) == Lesser(c.to, d.to) - Greater(c.from, d.from)

\* Where rent is billed afterwards nothing is charged twice, with two exceptions:
\* what an exchange charged for a vehicle that was itself replaced before the
\* period was over, and the moments between the engine's boundary and the anchor's.
PostpaidOnce ==
    mode = "POSTPAID" =>
        \A c, d \in charge : c # d /\ Overlap(c, d) =>
            \/ \E e \in {c, d} : e.kind = "PRORATION" /\ version[e.version].to < e.to
            \/ Lap(c, d) <= Anchor

=============================================================================

# EVs Eye in TLA+

EVs Eye is a platform on which fleet operators ("clients") rent electric
vehicles to riders. This directory models the parts of its API server
(`src/apps/api`, NestJS on PostgreSQL through Prisma) in which several actors
meet on shared state, checks the models with TLC and proves what matters most
with TLAPS. Line numbers below are of the files under `src/apps/api/src`.

Contents

1. [The system](#1-the-system)
2. [What is hard about it](#2-what-is-hard-about-it)
3. [Modules](#3-modules)
4. [Runs](#4-runs)
5. [Fairness](#5-fairness)
6. [Findings](#6-findings)
7. [Proofs](#7-proofs)
8. [Not modelled](#8-not-modelled)
9. [Plan](#9-plan)

## 1. The system

One process type serves HTTP, webhooks and cron jobs; several instances may
run. There is no in-memory state worth the name: everything that lasts is in
PostgreSQL. A service method is a sequence of awaited database transactions and
provider calls. The transactions that matter are SERIALIZABLE or take row
locks, so the unit of interleaving is the transaction, and every `await` outside
one is a place where other requests, webhooks, jobs and restarts get in.

| Component | State | Operations | Talks to | Modelled by |
|---|---|---|---|---|
| Billing ledger (`rider-billing/rider-payments`, `wallet/wallet-billing`) | `RiderInvoice` balances, `RiderPayment`, `RiderPaymentAllocation`, wallet settlements | confirm provider payment or refund, record, allocate, reverse, settle from the wallet, void | called by every collection service | RiderInvoices |
| AutoPay (`payments/payment-orchestrator`, `payments/auto-collection`) | `PaymentTransaction`, `PaymentAttempt`, `AutoPayDunningCase` | collect, verify, processWebhook, processDue, reconcileOpen, reconcileDunning | provider, ledger, wallet, mandates | AutoPayCollection |
| Checkout (`payments/checkout-collection`) | `PaymentCollectionRequest`, provider observations, provider events | payInvoice, payOutstanding, payDeposit, verify, webhook | provider, ledger, wallet, deposits | CheckoutCollection |
| Refunds (`payments/payment-refund`) | `PaymentRefund` | request, verify, webhook, reconcilePendingRefunds | provider, ledger | PaymentRefunds |
| Mandates (`payments/mandate`) | `PaymentMandate` | create, authorise, pause, cancel, verify, expire | provider, AutoPay | MandateLifecycle |
| Wallet (`wallet/wallet`), rewards (`rewards`) | `WalletTransaction`, entries, accounts, holds, reward lots | post, reverse, hold, release, expire | everything that moves money | WalletLedger |
| Rental deposits (`rider-deposits`) | deposits, their transactions, refund requests, settlement holds | collect, deduct, refund, transfer, reverse, close | final settlement, deployment | RiderDeposits |
| Final settlement (`final-settlement`) | settlements, deposit applications, refund requests | create, approve, apply, hold, refund, close | ledger, deposits, agreements | FinalSettlement |
| Allocation (`allocations`), inspections (`inspections`), offers (`commercial`), vehicle status (`fleets`) | `Allocation`, agreements, vehicles | reserve, accept, inspect, hand over, deallocate, change status | fleet, offers, payments, KYC | Deployment |
| Submission and return (`vehicle-submissions`, `ride-returns`) | requests, inspections, reports | request, start, report, impose, confirm, cancel | fleet, allocation, billing | VehicleReturns |
| Exchange (`vehicle-exchanges`) | requests, holds of replacements, offers | request, approve, select, offer, pay, hand over, complete | all of custody | VehicleExchange |
| Notifications (`notifications`), sessions (`auth`) | messages, deliveries, leases, devices | enqueue, expand, claim, send, retry, register, refresh, log out | Firebase | NotificationOutbox, PushDevices |
| Razorpay rails (`payments/razorpay`) | orders, captures, leases | deployment payment, penalty payment, AutoPay debit | provider, ledger, allocation | |
| Billing engine (`rider-billing/rider-billing-engine`, `billing-cycle`) | schedules, commercial versions, periods, charges, invoices | generate, finalise, issue, adjust, mark overdue | agreements, exchanges, ledger | RentBilling (`MarkOverdue` in RiderInvoices) |
| Penalties (`submission-penalties`) | penalty invoices, handover exceptions | notify, clear a handover, approve an exception | allocation, ledger | |
| Wallet security deposits (`wallet/security-deposit`) | deposits that share one account of the wallet, holds, return requests | fund, lock, hold, deduct, forfeit, request and approve returns | wallet, its billing, checkout | SecurityDeposits |
| Collections cases (`collections`) | cases, promises, visits | open, assign, promise, escalate, write off | ledger | |
| KYC (`kyc`) | workflow, checks, decisions, circuit state | start, run check, decide, reconcile | verification providers | |
| Readiness and installation (`fleet-readiness`) | tasks, component installations | plan, install, remove | fleet | |
| Referrals, media, attendance, spares, support, partners, legal, administration | records with a status | create, change, close | each other, rarely | |
| Web, site, infrastructure (`src/apps/web`, `src/apps/site`, `src/infra`) | none of their own | show and call the API | API | |

What makes each part correct, in a sentence: invoices and receipts balance
whatever order money arrives in; a rider is charged once for a debt; money the
provider took is credited once; every day of a rental is charged and no day
twice; refunds never exceed what was paid and are
posted once; a deposit pays once and leaves nothing behind when it is closed; a
vehicle is with one rider and comes back once; a message reaches a final status
that is true; and whatever a provider leaves open is settled by a job in the end.

There are four groups of modules. Money:

```
   office, wallet, jobs                       rider, jobs, webhooks
           |                                   |             |
           v                                   v             v
     RiderInvoices  <--- credits ---  AutoPayCollection  CheckoutCollection
       (ledger)                                |             |
        ^     ^                                +-- rows of --+
        |     |                               PaymentCollections
        |   PaymentRefunds                            |
        |     |                                       v
        |     +------------------------>  payment provider (external)
        |                                             ^
   FinalSettlement          MandateLifecycle  --------+
        |                     (may AutoPay charge this rider at all)
        v
   RiderDeposits            WalletLedger  <--  SecurityDeposits
```

Custody of vehicles, where each module adds services to the one above it:

```
   CustodyRows  ->  Deployment  ->  VehicleReturns  ->  VehicleExchange
                                                             |  implements
                                                       VehicleHolding
```

Rent: `RentBilling`, from the handover of a vehicle to the last charge for it.
It ends where the invoice of a period begins, which `RiderInvoices` has as
issued.

Messages: `PushDevices`, and the workers of `NotificationOutbox` on top of it.

## 2. What is hard about it

* **Unknown outcomes.** A provider call that fails or times out may have
  worked. The row becomes UNKNOWN, and jobs and webhooks find out later.
* **Read, await, write.** `verify` reads a row, asks the provider, and writes
  the answer in a later transaction. Answers of overlapping verifications are
  applied in any order; several writes are unconditional.
* **Two tables, one debt.** AutoPay and checkout exclude each other only by
  reading each other's rows in their reservation, and each table has partial
  unique indexes on its active rows. A row that leaves the active statuses too
  early or comes back late passes between them.
* **Operations of several transactions.** The final settlement deducts from a
  deposit, records a receipt, allocates it and notes the application, each in
  a transaction of its own; a handover of a replacement reserves the vehicle and
  notes the allocation. They stop in between and are repeated.
* **Writes by id of what was read before.** The completion of an inspection sets
  an allocation to OTP_PENDING that it has seen at INSPECTION_PENDING, whatever
  was handed over meanwhile; late answers hide a success that other services look
  up by its status.
* **Holds that are not rows of one table.** A replacement vehicle is held by an
  exchange with an expiry, a reserved one by an allocation and by its own
  status; a deposit's money is held by requests and by settlement holds. Each
  service must look at all of them.
* **Leases.** A worker of the outbox may outlive its lease, and its push request
  may outlive the timer that waits for it.
* **Two writers of one price history.** Exchanges write the versions of an
  agreement and charge for the rest of a period, at once or from the next period
  on; the engine, which may bill that period before or after, has to find out
  from the rows which time is charged already. Each computes where a period ends
  with a function of its own, and the two differ by less than a second.
* **Restarts** between the reservation, the call and the write of its result.
* **The ledger goes on meanwhile**: the wallet settles, the office allocates,
  reverses and voids, refunds reserve and leave.

`PROJECT.json` lists each hazard at its line with the properties that cover it.

## 3. Modules

Money is counted in the smallest unit; one rider, one currency. A set of
sources stands for the idempotency identities under which receipts are written:
ids of debits, ids of checkouts, and keys of the office.

**RiderInvoices** — the ledger. `invoice[i]` is status, paid and outstanding
amount of a finalised invoice; `receipt[s]` a `RiderPayment`; `allocation[s][i]`
the unreversed allocation rows as a sequence; `settlement[i]` the wallet
settlements; `cash` the spendable wallet balance. Each action is one
transaction: `ConfirmProviderPayment`, `RecordPayment`, `Allocate`,
`ReverseAllocation`, `ConfirmProviderRefund`, `SettleFromWallet`,
`ReverseSettlement`, `VoidUnpaid`, `MarkOverdue`. The loop that spreads an
amount over invoices in due order is stated as a relation, `IsWaterfall`; next
to it stands a direct translation of the loop, `Spread` (`Listed` is the sorted
list, `Pass` the fold, `Take` one turn of it). That they agree is checked by the
run *checkout* and proved; the other proofs use the relation.

**PaymentCollections** — the rows of both collection services, the partial
unique indexes (`DebitIndexAllows`, `CheckoutIndexAllows`) as predicates on a
write, and `Restart`.

**AutoPayCollection** — one debit is `debit[d]` (the row), `caller[d]` (where
`collect` stands: reserved, about to read the invoice again, about to call,
waiting), `charge[d]` (the provider's side) and `fetched[d]` (answers read and
not applied). `ReserveDebit`, `RecheckInvoice`, `SendDebit`, `ReceiveReply`,
`RecordRejected` and `RecordUncertain` are `collect`; `FetchDebit` is the
first half of `verify`, `ApplyResult` is `applyResult` with `SettleDebit` for a
success and `RecordAnswer` for the rest, including the dunning case they write.
`CollectDue`, `NoteDue`, `ActionRequired`, `NoteSettled` and `ReconcileDunning`
are the hourly job. An answer PENDING also stands for a status the mapper does
not know: both keep the row active and under verification.

**CheckoutCollection** — `session[c]` follows `startProviderCheckout`,
`order[c]` and `tries[c]` are the provider's order and the payments tried on it
(counted by result), `reading[c]` the verifications in progress with what they
have found. `FetchPayments` and `FetchOrder` are the two calls of `verify`,
`ApplyReading` its final write.

**InvoiceCollection** — both services on one ledger, and the refinement
mapping to **CollectionPromise**: per collection a stage (idle, asked,
captured, credited, closed) and its invoices. The promise says that money is
credited at most once and only after capture, that captured money is never
given up, and that automatic charges of one invoice exclude each other.

**PaymentRefunds** — `refund[r]` (the row), `asking[r]` (the call of
`request`), `payout[r]` (the provider), `answers[r]` (read and not applied) and
`posted` (refunds with a ledger entry), on top of the ledger, whose allocations
respect what active refunds reserve (`Held`). `origin[s]` is the checkout or debit
row that the receipt came from, as far as `source` asks for it: `SettleOrigin`
is the settlement that makes the receipt and sets SUCCESS, also again,
`HideOrigin` a write of another status over it (the late UNKNOWN or PENDING of
`startProviderCheckout` and of `collect`, two payments of one order, a mismatch).
`request` finds the source before its reservation (`FindSource`), and each
verification needs it (`FetchRefund`).

**MandateLifecycle** — the AutoPay mandates of one rider. `mandate[m]` is the
row, `profile` the AutoPay flag of the rider's payment profile, `creating[m]`
how far the request that inserted the row got, `remote[m]` the provider's
subscription, `granted` the approvals at the bank, `past` the mandates whose
term is over. `call[k]` is one call in progress: `applyProviderResult` runs in a
READ COMMITTED transaction, so it is `ReadRow`, `LockRow` (the row is written
and locked, the other mandates are looked up) and `CommitRow`; the same slot
holds a `setLocalEnabled` between its lookup and its update. `LoseCall` stands
for every way a call can end without a result. AUTHORIZATION_PENDING is treated
like CREATED by every condition of the code, and CREATED stands for both.

**WalletLedger** — the wallet of one rider. `txn[k]` is the transaction with
idempotency key `k`: its effect on cash, reward and the account of the security
deposits (clearing takes the rest of the double entry), what it does for which
deposit, the transaction it reverses, and what it spent of each lot.
Keys that the code derives (`reward:expire:<lot>`, `CAPTURE-<hold>`) are pairs,
keys of callers are model values. Balances are sums over the entries, as in
`balanceTx`. A posting holds the wallet's row lock and is one action: `Accepts`
is its checks, `Write` the entries and the reversed parent, `LotsAfter` what
happens to the lots. `reverse` reads the original before it has the lock, hence
`AskReversal` and `Reverse`; the reversal of a transaction about a deposit computes
the deposit's status anew (`Reconciled`). The wallet of the ledger's `cash` is an abstraction
of this one. The policy is constant, and wallets are always ACTIVE (nothing in
the code changes it).

**SecurityDeposits** — `security-deposit.service` and what of `wallet-billing`
and `checkout-collection` funds, voids and reverses deposits, on top of the
wallet. `deposit[d]` is the status and whether it was ever locked, `request[r]` a
return request, whose hold has the id `<<"return", r>>`. What a deposit has is
never stored: `Funded`, `Deducted` and `Balance` sum the transactions that name
it, while `Covers` looks at the account that all deposits share. Deposits in
`Invoiced` have an invoice, which is open for what is not funded and void while
the deposit is CANCELLED; their fundings are `Billed` and reversed by billing
(`ReverseFunding`), everything else by the wallet. `Completes` is
`completeReturnTx`, inside the approval or after the money was handed over.

**PushDevices** — logins and the push devices registered in them. `session[s]`
is a login: the chain of `Session` rows that refreshes replace by one another.
A refresh consumes the row (`Consume`) and later creates the next one and moves the
active devices there (`Renew`), or ends in between; the login is CONSUMED
meanwhile, and a logout only switches its devices off. A registration that overlaps
the refresh of its own session may leave the device on the revoked row; it
is then treated like one that is off, which is what a registration followed by
`UnregisterDevice` gives.
`device[i]` is the row of installation `i`: a version that grows when the
installation changes hands, and whether Firebase's answer or somebody else
switched it off. `dead` are the tokens Firebase no longer knows.

**NotificationOutbox** — `message[m]`, `delivery[d]` with attempts, claim and
lease, the `gate` (`PushDispatchState`) that lets one instance at a time send,
and `worker[w]`, which has claimed, read, sent and not yet recorded. `Claim`,
`ReadBatch`, `SendBatch`, `RecordResult`, `Release` and `FinishMessages` are the
steps of a run of the worker; `StopWorker` stops it anywhere, and `LeaseLapses`
lets it outlive its lease. A new claim is any number in use nowhere.

**CustodyRows** — the rows of custody: `vehicle[v]` (its status), `allocation`,
`agreement`, `return`, `submission`, `exchange`. A row that is not there is
`Unused`. Of an allocation, `handed` says that `allocatedAt` is set, and
`returning` that the inspection of its return exists. `overridden` remembers which
vehicles an operator moved by hand, and bounds that.

**Deployment** — `allocations.service` and what of `commercial-lifecycle` and
`fleets` touches vehicles: `Initiate`, `AcceptOffer`, `SubmitPdi`, `HandOver`,
the direct way back (`InitiateDeallocation` and `CompleteDeallocation`, whose
status and inspection are asked for by `MayEnd`), the status policy of vehicles and
changes by hand. `CompleteInspection` is what `inspections.service` writes to the
allocation: `complete` reads INSPECTION_PENDING before its transaction (lines 47-51)
and sets OTP_PENDING by id (lines 153-157), so the action may happen at any time
of an unfinished allocation, also after the handover, and without the plan and the
payment that `SubmitPdi` asks for. A call is taken to be over before the
allocation is COMPLETED.

**VehicleReturns** — `ride-returns` and `vehicle-submissions`: a return is
requested, the vehicle is taken in for a return or an exchange (`Intake`), the
mechanic's report is written, imposed or cancelled, and the confirmation ends
the allocation, the agreement (a return) and frees the vehicle.

**VehicleExchange** — `vehicle-exchanges`, from `CheckExchange` and
`CreateExchange` (the two halves of `request`) to `Complete`. A hold of a
replacement is NONE, RUNNING or LAPSED; `Select` expires what it finds lapsed.

**VehicleHolding** — the abstract specification of custody: a vehicle is free,
promised to a rider, with this rider, and free again. `KeepsHolding` says that
the four modules above implement it; the mapping takes the one unfinished
allocation of a vehicle, and tells by its `handed` whether the vehicle is with
the rider, since its status may be put back by a late inspection.

**RiderDeposits** — `deposit.service`. `deposit[d]` has an available and a funded
amount; `movement[k]` is the transaction with idempotency key `k` (callers'
keys are model values, derived keys pairs, so that a repeated operation meets
its own row), `request[q]` the refund requests and `hold[h]` the holds of the
settlement.

**FinalSettlement** — `final-settlement.service` on the ledger and the deposits.
`call[c]` is an operation in progress: which of its transactions are done and
what it has read. Every step of it is an action, `Stop` abandons it anywhere,
and a repeated operation is a new call. The receipt that pays with deposit `d`
has the source `<<"settlement", d>>`; `AllocatedTo` and `AllocatedFrom` sum the
live allocations of an invoice and of a receipt.

**RentBilling** — the rent of one agreement. `version` is the sequence of
`RiderAgreementCommercialVersion` rows: from when to when a vehicle's price
holds, and from when it is billed (`starts`, the code's billingStartAt).
`exchange` is the exchange in progress with its latest offer; `Present`,
`Accept`, `HandOver` and `Complete` are what billing sees of it, with the prices
of `prorateExchange` and the checks of `complete` (`OfferStands`).
`GeneratePeriod` is one transaction of the engine: `PeriodEnd` is
`NextBoundary` (`nextBillingBoundary`) and the cut at the end of the agreement,
`Segments` and `Resolves` are `resolveCommercialSegments` with its two errors,
`Realized` finds what an exchange has charged for. Charges are kept as the time
they are for. Periods have a fixed length, as all but monthly and quarterly ones do.
The end of a period is computed twice: `WindowEnd` is the `billingWindow` of
exchanges, which adds periods to the anchor to the millisecond; `nextBillingBoundary`
goes through local parts that end with the second, so the boundaries of the engine
lie before those of the anchor by what the anchor has below a second. `Anchor` is
this distance, and the clock starts there. Local time and UTC differ by a constant:
a schedule is created once, with the zone Asia/Kolkata
(`deployment-commercial.service` lines 854-915, `rider-billing-engine.service`
lines 112-119), which has no daylight saving.

**MC…** modules give the constants values. **…Proofs** modules hold theorems:
`RiderInvoicesProofs`, `PaymentProofs` (AutoPay, checkout, refunds and mandates),
`WalletProofs` (the wallet and its security deposits), `OutboxProofs`,
`VehicleCustodyProofs`, `FinalSettlementProofs` and `RentBillingProofs`.
**SumTheorems** has what they use of sums over finite sets.

Some definitions are marked *Faulty* and used by nothing: each is the mutated
form of the definition after it, a bug one could plausibly write there. With it
in place of the original, TLC finds the property named in `PROJECT.json` under
"mutants" violated; so every property is known to be able to fail.

Each module has a type invariant. Those of the ledger, AutoPay, checkout, mandates, refunds,
the wallet, the outbox, custody, deposits, settlement and rent are proved (section 7), whether
a run checks them or not.

## 4. Runs

| Run | Instance | Distinct states | What it shows |
|---|---|---|---|
| autopay | 1 invoice, 2 debits, 1 restart | 141 thousand | credits are captured, dead rows take no money, charges exclude each other, rows tell credits; collected money is credited, dunning closes |
| checkout | 2 invoices (one of them one-time) of 2 and 1, due and created in opposite orders, 1 request, 2 tries, 2 verifications, wallet 1, 1 restart | 81 thousand | invoices equal the rows that pay them, the relation is the loop; orders paid once are credited, requests close |
| collection | 1 invoice, 1 debit, 1 request, 1 restart | 293 thousand | `KeepsThePromise` |
| refunds | 1 invoice, 1 receipt to 2, 2 refunds, 1 restart | 388 thousand | never overpaid, posted once; paid reversals are posted once their source is found for good |
| mandates | 2 mandates, 1 call at a time | 437 thousand | one mandate in force, none active without approval, mandates end after their term |
| wallet | 1 payment, 1 reward of 2, 2 deposits of 2 and 1 (one invoiced), 1 hold, 2 return requests, 2 reversal requests, 4 transactions | 1.12 million | never overdrawn, lots agree with the postings, each transaction reversed once; holds are covered by the deposit's own money, one live return, paid deposits are funded |
| outbox | 1 message, 1 installation, 1 login, 2 tokens, 2 workers, 2 attempts | 469 thousand | a lease protects its worker, only dead tokens are switched off, final statuses are true, messages finish |
| custody | 2 riders, 2 vehicles, 2 allocations, 2 agreements, 1 exchange, 1 vehicle moved by hand | 1.39 million | one holder, promised replacements are kept, current vehicles are held, `KeepsHolding` |
| exit | 2 deposits of 2 and 1, an invoice of 2, 1 key of the office, 1 request, 1 hold, 1 excess refund, 1 call at a time | 1.47 million | what a deposit lacks was deducted, closed deposits are empty, a deposit pays once and as deducted, accepted refunds can be paid, completed ones were paid |
| billing | periods of 4, anchor 1 after the engine's boundaries, units of 2, 3 policies, 2 exchanges, times to 10 | 593 thousand | rent never twice and without a gap but for what is left out between the boundaries, postpaid time charged once but for the distance of the boundaries, periods resolve, the rent of an ended agreement is billed |
| exchange_continues | 2 riders, 3 vehicles, 2 allocations, 2 exchanges | violation | the first finding below |
| wallet_blocks_closing | 2 invoices of 3 and 1, wallet 2 | violation | the second |

Why the bounds are enough. Every interference modelled is between two actors on
one invoice, one mandate, one vehicle, one delivery or one deposit: two debits, a
debit and a request, a verification and its older sibling, a refund and an
allocation, two refunds, a return and an exchange, two workers, a stopped call
and its repetition. Two of each, with one restart, already produces every pair
of overlapping calls and every stale answer; a third actor could only repeat
what the second did. Amounts are small but not degenerate: an amount can
be less than, equal to and more than what an invoice owes, and two invoices make
the order of the loop matter.

The bounds have names. `MaxReceipt` bounds the receipts of the office,
`MaxTries` the payments tried on one order, `MaxReads` the verifications of one
request at a time, `MaxCrashes` and `MaxRestarts` the restarts, `MaxVersion` the
registrations of a device, `BatchSize` and `MaxAttempts` are constants of the
code made small, `MaxOverridden` the vehicles that operators move by hand, and
`MaxMove` what one posting of the wallet or the deposits moves: a reward of 2 is
spent in two steps or is left over. `MaxPostings` bounds the transactions of the
wallet: four are funding, deduction, return and a reversal, or two fundings, a
reversal and the second funding of the same deposit. The deposit of 2 can be
funded, held and deducted in parts next to the whole one of 1, whose money is what
covers a mistake; one reward shows how lots follow postings and reversals, not the
order between lots. `Calls` bounds the calls in progress. One
call on two mandates already meets the creation, the hourly job, the other
mandate and the bank between its steps; one call of the settlement stops
anywhere and meets its own remains when it is repeated, and the office, refunds
and transfers between its steps. The two allocations of *custody* are the old vehicle and
its replacement, one vehicle of each rider, or one vehicle before and after it came
back; three of them at a time are left to the proofs.
The proofs of section 7 have no bounds: any number of debits, mandates, calls,
vehicles and deposits. `Rows` in *custody* is a symmetry of riders, vehicles,
allocations and agreements, `MCSymmetry` in *wallet* one of keys and requests; the
two runs have only safety properties, and nothing in the modules orders these
values.

In *collection* one debit and one checkout meet, so that automatic charges of one
invoice exclude each other holds there for want of a second; that part of
`CollectionPromise` is checked by `ChargesExclusive` in *autopay*, where two debits
compete, and for any number of both by the theorem `CollectionKeepsThePromise`. In
*exit* a call meets another only by what a stopped one left behind: that two calls in
progress overlap is covered by the theorems of `FinalSettlementProofs` alone.

In *billing* time is counted in quarters of a period: an exchange is offered,
accepted, handed over and completed in the same unit, another one, another
period, or on the boundary, and begun units are charged, so an offer may or may
not stand at the handover. `Horizon` leaves room for two periods and a part of
the third, `MaxVersions` for two exchanges, which is what it takes for one to
overtake another. `Anchor` is one such quarter: a handover of an exchange can fall
between the engine's boundary and the anchor's, and on either of them. In the code the
distance is below a second and periods are days; nothing but the order of these times
matters. PRORATE_OLD_ONLY and PRORATE_BOTH act as two of the policies
that are there (see the module).

The one login of *outbox* is refreshed, logged out or neither while messages are
under way; the device of the run can lose and regain its session between any two
steps of a worker. In *refunds* the source row of the receipt is written over and
settled again any number of times.

In *autopay* a void during a charge has the same effect as a payment by the
wallet, which the proofs cover as well. Two verifications at a time are needed
for a stale answer; `fetched[d]` and `answers[r]` are sets and have no bound of
their own.

`CHECK_DEADLOCK FALSE` is set wherever a system with a finite number of
collections, rows or messages may come to rest, or the clock stops at its bound.

## 5. Fairness

The liveness runs assume weak fairness, action by action, of

* the hourly jobs, for each row they select (`ReconcileDebit`,
  `ReconcileCheckout`, `ReconcileRefund`, `NoteSettled`): `auto-collection`
  lines 341-453 and `payment-refund` lines 465-489. The jobs take a batch of 50 or
  100 rows, debits and checkouts by their last update, refunds by `requestedAt`, the
  oldest first. That a row is reached assumes that
  fewer rows than the batch are stuck in errors, which the code does not
  guarantee (see the hazards). A verification of a refund throws while the source
  of its receipt is not found (`payment-refund` line 326); fairness of
  `ReconcileRefund` says nothing about such a row, and `PaidReversalIsPosted`
  therefore speaks of refunds whose source is found for good from some point on;
* the billing of a period (`GeneratePeriod`): the hourly job takes the twenty
  active schedules with the oldest next periods
  (`rider-billing-engine` lines 780-794). That it reaches this one assumes that
  fewer than twenty older ones can not be billed, which the code does not
  guarantee either;
* applying an answer that was read, and the second call of a verification: the
  code runs on unless the process stops, and then the job starts again;
* the webhook of a successful payment: the provider repeats it until it is
  answered 200, and a verification that failed leaves a FAILED event that the
  hourly job takes up (`checkout-collection` lines 837-864, `auto-collection`
  lines 406-437);
* the provider: charges run, payments end, orders expire, refunds are paid or
  fail.

Strong fairness is assumed once: `ExpireMandate` waits for a row that calls lock
and release again and again, and PostgreSQL serves those who wait for a row lock
in turn; `EndTransaction` says that a transaction holding a row ends.

Of the outbox, weak fairness is assumed of looking up recipients, of claiming, of
the clean-up after a batch (`Release`; a send ends by its own timer of 45
seconds), of `FinishMessages` and of the end of leases: the timer of the worker
calls every instance every few seconds (`notification.worker` lines 103-215).
That instances do not stop for ever is not assumed of any one of them: as long
as somebody claims, the message finishes. Nothing is assumed of sends and of
results; an attempt that is never recorded counts as one.

Nothing is assumed of the rider, the office, or of the loss of requests and
replies. CREATING debits are not in the selection of the job, and no liveness is
claimed for them.

## 6. Findings

Two disagreements of the code with itself or its documents are runs:

* **exchange_continues** — `select` sets every other exchange to EXPIRED whose
  hold on the same vehicle ran out (`vehicle-exchange.service` lines 351-359),
  whatever its rider's state. When the old vehicle of that rider has come back,
  the agreement is active without a vehicle and without an exchange; no
  operation leaves EXPIRED, and a new request needs an active allocation. The
  message for a lapsed hold in `exchange-errors.ts` says "Please select it
  again", and `PROJECT_DOCUMENTATION.md` line 219 that an exchange continues.
* **wallet_blocks_closing** — the reconciliation that `close` demands
  (`rider-billing.service` lines 681-708, `final-settlement.service` lines
  1809-1825) compares the paid amount of every invoice with the allocations of
  receipts. The wallet pays invoices through a table of its own, which it does
  not read: after one invoice paid from the wallet, the agreement can not be
  closed, with nothing owed.

Observations made while modelling, without a run of their own. The models do
what the code does in each case, and the properties are stated around it, as
named here:

* *Collections.* `applyResult` throws when the invoice was voided while the
  charge was scheduled (`payment-orchestrator` lines 373-381): the collected
  money is credited to nothing and the job fetches the row for ever
  (`PROJECT_DOCUMENTATION.md` line 287; `CapturedIsCredited` excepts it).
  `verify` closes a request as EXPIRED or FAILED (`checkout-collection` lines
  777-797) while its order can still be paid, and the next request is accepted
  (line 279 of the document; what holds is `PaidCheckoutIsCredited`). A debit
  that stopped before its call stays CREATING, and no job looks at it.
* *Refunds.* Two returns, each within the unallocated money of the receipt but
  not together, are both accepted (`payment-refund` lines 208-212); when both
  were paid, the second can not be posted. `NeverOverpaid` holds. Each verification
  looks up the checkout or debit in the status SUCCESS (lines 80-120, 326), and a
  late answer to the creation of the order sets PENDING or UNKNOWN over it
  (`checkout-collection` lines 481-531; `payment-orchestrator` lines 283-286). A later
  verification that finds one payment repairs the row; when it finds two, line 590
  leaves it UNKNOWN for good, and a reversal that the provider has paid by then is
  never posted.
* *Wallet.* When a spend of an expired reward is reversed, the lot is AVAILABLE
  again (`wallet.service` line 132), but the key of its expiry is used
  (`reward.service` line 108): the rest stays in the balance and can not be
  spent. A posting checks every account, so with a minimum balance above the
  balance also credits are refused (`wallet.service` line 96).
* *Security deposits.* `WalletService.reverse` of a funding asks only whether
  the account of all deposits can pay (`wallet.service` lines 93-97, 219): the
  funding of a locked or deducted deposit is reversed with the money of another
  one, and its own balance is negative; the reversal through billing refuses
  that (`wallet-billing.service` line 200). `DepositsStayCovered` excepts deposits
  with a reversed transaction. A forfeiture of all that is not held sets FORFEITED
  (`security-deposit.service` lines 646-649) and a return of it REFUNDED (line
  1057), after which what was held can neither be deducted nor returned. The hold
  of a return request can be released like any other (line 700): the request then
  fails with RETURN_HOLD_MISSING for ever and the deposit stays
  REFUND_REQUESTED. A checkout that is paid after its invoice was voided funds
  the CANCELLED deposit and makes it PAID (`checkout-collection` lines 659-687).
* *Mandates.* `setLocalEnabled` updates by id the mandate it found ACTIVE
  before (`mandate.service` line 549); a restart before the provider call leaves
  a CREATING row that nothing closes (line 333).
* *Settlement.* After a stop behind a deduction that took the whole deposit,
  `applyDeposit` can not be repeated (`final-settlement.service` line 871), and
  `close` looks at the application rows only, so the agreement is settled with a
  deduction that paid nothing. A deduction of a settlement can be reversed while
  its receipt stays. `requestRefund` repeated after a stop finds no refundable
  amount. `hold` reads what is available outside the transaction that inserts
  it, and reversals and transfers of deposits look at neither holds nor
  requests. Late unconditional writes of the status can follow SETTLED.
* *Custody.* An agreement that is completed while its allocation is
  DEALLOCATION_INITIATED makes the confirmation of the submission fail for
  ever. No service cancels an allocation that was not handed over: its vehicle
  stays reserved until an operator changes the status by hand, and the
  allocation row still keeps others from it (which is why `OneHolder` holds).
  `complete` of an inspection reads the allocation and the inspection before its
  transaction and updates both by id (`inspections.service` lines 47-54, 153-157):
  of two overlapping calls the later can set OTP_PENDING over an allocation that was
  handed over meanwhile (`inspections.service.spec.ts` tests two calls one after the
  other). The rider keeps the vehicle, which is what `CurrentVehicleIsHeld` and
  `KeepsHolding` say, but the allocation can not be given back any more: returns,
  exchanges, submissions and deallocations ask for ACTIVE; only a
  deallocation that had begun before can end. The same write skips the plan and the
  payment that `submitPdi` asks for.
* *Billing.* `generateDue` never gets past twenty schedules that can not be
  billed (`rider-billing-engine` lines 780-794): those of an agreement that was
  prepaid beyond its end stay ACTIVE (BILLING_CUTOFF_REACHED, line 219), and any
  error other than a conflict ends the job. While an exchange is accepted and
  not completed, the two versions overlap and the period is not billed, nor the
  final one. `complete` refuses an offer whose price has changed with the day,
  and nothing can renew an accepted offer, although the message says "Refresh
  the offer before continuing" (`exchange-errors.ts` lines 33-34). When the
  client changes its policy between two exchanges of one period, from the next
  cycle to at once, the segments overlap for good. These are the two exceptions
  of `NextPeriodResolves`. `verifiedOldPeriodPayment` looks for rent charges
  that refer to the agreement or the amendment (`vehicle-exchange.service` lines
  114-143); the engine writes the billing period there (lines 375-377), so no
  exchange ever credits the paid rest of the old period: a prepaid period is
  charged again for the days after the exchange, and a vehicle that is itself
  replaced in the period in which it came is charged to its end. `PostpaidOnce`
  excepts the latter. Exchanges count periods from the anchor to the millisecond
  (`exchange-math` lines 7-59), the engine drops what is below a second
  (`billing-cycle` lines 6-40), on its first period. An exchange that charges to the
  end of the window and the postpaid rent after it overlap by that much (`Lap`).
  And when an exchange is handed over after the engine's boundary and before the
  anchor's, it charges to the latter, less than a second, and the engine, which finds a
  charge of this version in its period (`Realized`), bills none of the rest: a
  whole period of the new vehicle is charged by nobody. `RentOnce` excepts it by
  name (`LeftOut`). For monthly periods the window of an exchange is computed
  in UTC with a day that drifts, the schedule in local time with the day of the
  anchor, and they may differ by more.

## 7. Proofs

TLC has checked every formula before it was proved, the inductive invariants on
the instances of section 4.

`SumTheorems` is about `SumFunctionOnSet` of the community modules, a recursive
function on the subsets of a finite set that takes out some element of each.
That any element may be taken out first (`SumTakesOut`) is proved by induction over the
subsets: were there a counterexample, there would be one of least cardinality
(`LeastNatural`, `SubsetInduction`, stated for sets of subsets since the prover can not
instantiate an operator). The rest follows: putting an element in, changing one
summand, monotony, disjoint unions, renaming. These lemmas carry every result below about
totals, balances and lots.

`RiderInvoicesProofs` proves for every set of invoices and receipts, every
total and every bound that `LedgerSpec` keeps `LedgerTypeOK` and `BalanceKept`.
Both are inductive. The types carry the arithmetic: `outstanding` is a natural
number, which is where `IsWaterfall` matters, because no invoice may take more
than it owes. There is a lemma per transaction, which the composed systems use
again. From the types it also proves

* `InvoicesBalance` (`InvoiceBalanced`): the paid amount of an invoice is the sum of
  the unreversed allocations of all receipts and of its wallet settlements;
* `ReceiptMoneyIsConserved`: the amount of a receipt is what its rows pay, what
  waits on it and what was returned.

Both are sums over a set of sums over a sequence: a transaction appends a row,
marks one or marks all of an invoice, and only the summand it touches changes.

`WaterfallIsDetermined` is about the relation `IsWaterfall` that stands for the loop over
the invoices: in every state and for every amount it has exactly one result, so the
model neither blocks a payment nor lets it choose. There is a result because one more
unit can always go to the first invoice that is not full (induction over the
amount), and two results would differ first at some invoice, where the one that takes less
leaves money unspent. `WaterfallsAreTheLoop` (`WaterfallIsTheLoop`) adds that the one
result is that of the loop. The list of the targets in the order of their ranks exists
by induction over their number (the target of least rank comes first); the loop over it
is a recursive function, unfolded by induction over the turns; and after n turns the
first n invoices are full or nothing remains, which is the relation once the list is
through. As exactly one result satisfies the relation, it is this one.

Several services use the ledger at once, and none of their modules repeats its
proofs. `LedgerOperation` is a transaction of `RiderInvoices` or a step that leaves its
rows alone, and `LedgerUse` the specification that allows nothing else. Of it the module
proves, for any number of callers,

* `LedgerIsSoundInUse`: types, balances, the sums of invoices and of receipts;
* `OnlyWalletRowsBreakReconcile`: the invoice part of `reconcile` fails exactly in the
  states where an unreversed wallet settlement pays an invoice that is not VOID.
  This is the other side of the finding of the run *wallet_blocks_closing*: that run shows
  one state in which a correct ledger does not reconcile, the theorem that there
  are no others.

`CollectionsUseTheLedger`, `RefundsUseTheLedger` and `SettlementsUseTheLedger` then show
that each composed system implements `LedgerUse`, one action at a time, and
`CallersKeepTheLedgerSound` and `SettlementLedgerIsSound` draw the conclusion
for AutoPay, checkout, both together, refunds and the final settlement.

`PaymentProofs` proves for every set of debits, checkouts, invoices and every
number of restarts

* `CreditsAreCaptured`: a receipt of a debit means that the provider collected,
  with the reserved amount;
* `DeadRowsAreSafe`: a FAILED or CANCELLED row has no charge that took or may
  take money;
* `RowsTellCredit`: rows and receipts agree;
* `NoDoubleCharge`: two debits of one invoice never both took or may take money.

None of these is inductive alone. `NoDoubleCharge` follows from the unique index
only if a row outside the active statuses has a dead charge; that needs to know
where the caller stands (a request that has not left can still be cancelled) and
what answers are in hand (a FAILED in hand means the charge has failed, whatever
order answers are applied in). `DebitInv(d)` states, for one debit, how status,
caller, charge, answers in hand and receipt fit together; `LiveRowsExclusive`
that the rows of one invoice that may take money are at most one. `AutoPayInv`
is their conjunction with the types; it is shown to hold initially, to be
preserved by each action and to imply the four properties. `AutoPayIsSafeWithCheckouts`
carries them over to the system in which checkouts run next to AutoPay, and
`CollectionTypes` its types.

Liveness needs that what the provider took is never refused by the ledger. That half is
a state property and proved: `CollectedMoneyCanBeCredited` says of a debit or order
whose payment was captured, and which has no receipt yet, that its row is still looked
at, that no unique index keeps it from SUCCESS, and that its amount is positive and can
be spread over its invoices as they are by then (a debit's settlement is refused all
the same when its invoice was voided, as `CapturedIsCredited` says);
`CheckoutCreditsAreCaptured` that a receipt of an order means a payment of that order.
They need that a row that was ever reserved asks for a positive amount
(`DebitsAsk`) and, for each order, how its row, its readings and its receipt
fit together (`CreditInv`). `CapturedIsCredited` and `PaidCheckoutIsCredited` add, by TLC
and under fairness, that the credit happens.

`CollectionKeepsThePromise` is the refinement `KeepsThePromise` for the two services
together: every step is a step of `CollectionPromise` or a stutter. It needs
`CheckoutInv(c)`, that an order exists only after it was asked for, and that a
reading which found a payment stays true. `Advance` is what a step may
do to the stage of one collection; each action moves at most one, except a
restart. The attempt to prove this changed the abstract specification: a restart
closes all collections whose call has not left in one step, so `GiveUp` takes a set of
them. TLC, with one debit and one request of one invoice, had never seen two.

Of refunds it proves, for any number of receipts, refunds and restarts,

* `ProviderNeverOverpays` (`NeverOverpaid`): what the provider has paid or may still
  pay back of a receipt is at most what it collected;
* `RefundsArePostedOnce` (`RefundsAddUp`): the returned amount of a receipt is the
  sum of the refunds posted for it, all of them paid.

`RefundRowInv(r)` states for a refund how row, call, payout, answers in hand and
ledger entry fit together: a row that reserves nothing any more is one that will
not be paid. `RefundInv` adds that the reservations of a receipt and what
it has returned are within its amount. `RefundTypes` are the types.
`PaidReversalsCanBePosted` is the safety half of `PaidReversalIsPosted`: as long as the
reversal of a payment that the provider paid is not posted, the job looks at its row, and
`ConfirmProviderRefund` finds the receipt refundable, whatever else was allocated,
reversed or returned of it meanwhile. The verification itself also needs the source
of the receipt, which is not a matter of the ledger. Beside `RefundInv` it needs that an accepted reversal
takes the whole receipt (`ReversalInv`) and that two refunds which pay out are together
within it (`TwoPayOut`), so there is no other.

Of mandates it proves, for every set of mandates and any number of overlapping
calls `MandateTypes`, `OneInForce` (never two mandates in force within their
term) and `ActivesAreGranted` (no row ACTIVE or PAUSED without approval).
`OneInForce` needs that a row outside the open statuses has nothing left at the
provider that could come to life (`RowsInv`), that this is also true of what
every call in progress is about to write (`CallsInv`), and that the unique index
leaves one open row (`OneOpen`); `MandateInv` is their conjunction with the
types. The lemmas `BankStep`, `CallStep` and `RowStep` split the preservation
by what an action writes. `EndedMandatesStay` is what the proof can say of
`ExpiredMandateEnds`: a row may be made chargeable again by an answer that was
fetched before the mandate ended, but once the provider has ended it, the row is not
chargeable and no such answer is in hand (`Settled`), this stays so forever. That
the state is reached is checked by TLC.

`OutboxProofs` proves for any messages, recipients, installations, workers, attempts and
batches `OutboxTypes` and

* `LeasesProtect` (`LeaseProtects`): while its lease lasts a worker is the only one
  to decide about its rows, unless their message expires;
* `LivingTokensStay` (`OnlyDeadTokensGo`);
* `FinalStatusesStay` (`FinalStatusIsTrue`).

`OutboxInv` has `LeaseIsOne` (a lease runs out at the gate and on its rows at the same
time, so whoever finds the gate open finds the rows lapsed and nobody protected),
`Expanded` (a row comes from a recipient who does not wait any more, so expanding another
one overwrites nothing) and `WorkerInv` (rows in hand were read under a claim, and INVALID is
an answer about a token that is dead). That workers do not share claims rests on
`ClaimsSuffice`: there are more claims than rows, gate and workers can have, by
counting. A final status stays because a message that is done has no active row
(`DoneIsQuiet`) and nothing but active rows is ever written (`RowsKeep`).

`NobodyIsForgotten` (`RowsGoOn`) is the safety half of `MessageFinishes`: no push is sent
more than `MaxAttempts` times, and a row that is not final is under the lease of a worker, or
due to be claimed, or to be ended as overdue or exhausted. The attempts are counted when a row is
claimed, so a worker that stops after sending has used one up (`TriesFit`).

`VehicleCustodyProofs` proves for any number of riders, vehicles, allocations,
agreements and exchanges `CustodyTypes`, `VehiclesHaveOneHolder` and
`VehiclesGoAndComeBack`, the refinement of `VehicleHolding`. The argument is
about what a step can do to allocations (`AllocationStep`): it leaves rider,
vehicle and status of each alone, begins one for a vehicle that no unfinished
allocation is about, moves one along its life, or puts one back to OTP_PENDING, which
does not undo its handover. `StepsOfAllocations` shows
this of every action, with the types; the rest needs no action any more. From
it follow `OneHolderKept`, and with one holder per vehicle the mapping
is a function of that one allocation (`HolderOfOne`), so that beginning,
handing over and ending are the three steps of the abstract specification and
everything else is a stutter (`HoldingStep`). That only a vehicle which was handed
over comes back (`HandedFirst`) can not be read from the status, which an inspection may
have put back: the end of an allocation asks for the inspection of its return, and
that exists only since it was in hand. That the status of the vehicle is
*not* part of the argument is the point: operators change it by hand.

`AcceptedReplacementIsKept` (`PromiseKept`) is about the other holds. A vehicle
that no operator touched has no holder while it is AVAILABLE (`FreeIsFree`), so a
hold begins on a vehicle without one; from then on only its exchange can
give it to anybody (`HoldIsKept`), because `initiate` looks for holds and
`select` for the status. The status *is* part of this argument, which is why the property
excepts what was moved by hand.

`AgreementsHaveTheirVehicle` (`CurrentVehicleIsHeld`) relates agreements to
allocations, which name each other in one direction only. `CustodyLinks` is
the invariant: one live agreement per rider and per current vehicle (`RidersApart`,
`VehiclesApart`); the plan of an allocation is an agreement of its rider
(`PlanIsTheRiders`), that of a replacement the agreement of its exchange
(`ReplacementIsLinked`, `HandoverIsLinked`), that of a return the agreement which asked
for it (`ReturnIsLinked`); a pending agreement is the plan of whatever its
rider has of its vehicle already (`PendingWaits`). Each part was found where the proof
of the next one failed: an allocation may outlive its agreement and
be offered for another one, and the last part is what an activation needs then.

`WalletProofs` proves for any keys, lots, holds, deposits, requests and amounts

* `WalletTypes`: the rows keep their types (`LedgerInv`);
* `NoAccountIsOverdrawn` (`NeverOverdrawn`): no posting, reversal or release of a hold
  leaves the cash that is not held below minus the credit limit, or the rewards or the
  account of the deposits below zero;
* `ReversalsAreUnique` (`ReversedOnce`), although `reverse` reads the
  original before it has the lock;
* `LotsAreConserved` (`LotConserved`): what a reward was credited is left in its lot, or
  a transaction that stands has taken it;
* `PaidDepositsAreFunded` (`PaidIsFunded`) and `OneReturnIsOpen` (`OneLiveReturn`);
* `HeldMoneyIsCovered` (`DepositsStayCovered`): what is held of a deposit is its own
  money, as long as none of its transactions was reversed.

A balance is a sum over all transactions, so each step is first shown to add one
transaction or to change nothing (`StepShape`), and what a sum over the new ledger
is follows. For the lots, `LotInv` is the conjunction of `LotConserved` with
`AvailableLots` (only an available lot has something left), `CreditedFirst`
(nothing happens to a lot before its credit), `SpentWithin` (a transaction takes
no more from lots than from the rewards) and `RewardsCovered` (the lots never
have more than the reward balance): without the last two a reversal could give back to
lots what the reversed transaction never took. The deposits need to know which kinds of
transactions name a deposit (`KindsFit`, `FundedUpTo`), and that an open
request still has its hold, or was cut off from it (`RequestsHold`,
`LockedIsFunded`, `ReturnIsWhole`).

`FinalSettlementProofs` proves for any deposits, amounts and any number of
overlapping calls

* `ExitTypes`: no balance of a deposit, a receipt or an invoice becomes negative;
* `ClosedStaysEmpty`: a closed deposit holds no money and nobody waits for any,
  because whatever moves or asks for money opens it or refuses;
* `DepositsPayOnce`: deduction, receipt and application of a deposit agree;
* `CompletedRefundsWerePaid`;
* `GapsAreDeducted` (`GapIsDeducted`): what a deposit was funded with and does not have
  any more are its deductions that were not taken back;
* `ReservedMoneyStays` (`ExcessStaysPayable`): a payout that was accepted can be made.

The third and fourth need to say what a call knows at each of its steps (`CallsKnow`):
one that has deducted relies on the row under its key, one that has paid on the
request being completed. This stays true while other calls go on because those
rows are written once (`Kept`, `ReceiptsKept`, `KnowledgeStays`). `ExitInv` is
the conjunction with the types, `ClosedHoldsNothing` and the shape of the rows
under settlement keys; `ExitInvariant` is its theorem. The lemmas of the ledger
are used as they are. The last two are sums. `MovementsFit` says that a movement
moved what its row tells and that no two rows take back the same one. `ReceiptsFit`
says that a receipt adds up (`ReceiptMoneyIsConserved`) and that what
payouts reserve is unallocated: a receipt leaves CONFIRMED only when it is
returned in full, and then nothing is left that another payout could wait for.

`RentBillingProofs` proves for any period, anchor and unit, any set of policies, any
number of exchanges and any horizon

* `BillingTypes`: no time or amount becomes negative;
* `RentsChargeOnce`: no two rent charges share a moment, and each moment before the
  next period is in a charge, except the rest of a period in which an exchange was
  handed over before the anchor's boundary (`LeftOut`);
* `PeriodsResolve`: without an unfinished exchange and an overtaken price the
  versions resolve into segments of the next period, so it can be billed.

`RentOnce` is not inductive: a segment is skipped when an exchange has charged
for it, so one must know how far that charge reaches. It begins where its version
does (`ExchangeCharges`) and ends with a window, not with the period of the engine.
Active schedules stand at the anchor or at multiples of the period (`ScheduleFits`), so
where the engine's period ends follows from any moment in it (`EngineEndOf`), and the
end of the window is `Anchor` after that or, in the first moments of the period,
`Anchor` after its start (`BoundariesNear`). In the first case the exchange
charges for everything the engine skips, in the second the rest is `LeftOut`. `VersionsChain` says how versions follow each other, and
`ExchangeFits` when the last of them is pending; `BillingInv` is the conjunction
with the types and `BillingOrder` its theorem. `PeriodsResolve` needs the order
of the versions only: version k is billed until version k + 1 starts
(`SegmentsFollow`), and the segment of a moment is that of the least k whose
successor starts later (`LeastOne`, from the well-foundedness of the natural
numbers).

`PostpaidChargesOnce` (`PostpaidOnce`) needs both halves. The next period is never
ahead of the clock, an exchange that is not completed leaves a pending version which
keeps the engine from billing into its days (`PendingBlocks`), and after the
completion the rent starts where the engine's period ends, which is at most `Anchor`
before the charge of the exchange does (`Lap`). `PostpaidInv` has
these, with `RentMeetsExchange` for pairs of charges.

`EndedRentIsNotStuck` (`EndedRentCanBeBilled`) is the safety half of
`EndedRentIsBilled`: when the agreement has ended, its rent is billed up to the end or
the whole guard of `GeneratePeriod` holds (`CanBillNext`; `GuardOfGenerate` shows that
it is the guard), with the two exceptions named there. `EndingInv` says that periods lie
behind the schedule, that a schedule closes only at the end of the agreement and that
this end is not in the future.

Only model-checked is what eventually happens: temporal properties under fairness, and
ENABLED, are outside the prover's reach. These are the liveness properties of AutoPay,
checkout, refunds, mandates, billing and outbox. For most of them the part that
is a matter of safety is proved, as said above: the guards that could keep the step
away for good do not.

The assumptions on constants (`LedgerAssumption`, `CollectionAssumption`,
`AutoPayAssumption`, `CheckoutAssumption`, `RefundAssumption`,
`WalletAssumption`, `KeyAssumption`, `SecurityAssumption`, `PushDevicesAssumption`, `OutboxAssumption`,
`CustodyAssumption`, `DepositAssumption`, `SettlementAssumption`,
`BillingAssumption`) say that
amounts and bounds are natural numbers, totals positive, orders injective, ids
and keys distinct, and sets finite where a sum or a count ranges over them (each
state of a database has finitely many rows); TLC evaluates them in every run.

## 8. Not modelled

In the modelled components of money: the log of payment observations and
attempts (written, read by no decision here); amounts that the provider reports
wrongly (an error before any write of money); the Razorpay branches; checkouts
of deposits and penalties, and with these the limits per invoice that only a payment of
penalties gives; idempotency keys of requests (a repeated request
reads the row and verifies it, which is the action `FetchDebit` or
`FetchRefund`); several riders, clients and currencies, which share no state.
`RiderInvoices` keeps only the spendable balance of the wallet; the entries
behind it are in `WalletLedger`, which is not composed with it yet.

In custody: agreements run in the SIMPLE readiness mode. The switches that keep a
vehicle out of allocation (`allocationEnabled`, an administrator's block) are
flipped back at any time and are dropped. The steps of the deployment workflow
(training, pairing, payment) are folded into the guard of `SubmitPdi`; deposits,
penalties and one time passwords decide only whether a step may be taken now,
so they show as steps that need not be taken. `startReturn` and `confirmReturn`
of exchanges are refused for every request that needs a submission, which is the
default. A cancelled return is the row the next request uses, and equals no
row. A transfer between hubs is a move off the road and back.

In deposits and the final settlement: all statuses of a deposit other than
CLOSED are OPEN, since no condition tells them apart; a forfeiture moves what a
refund moves, an adjustment debit what a deduction moves, under the same
conditions, and are these. Left out are rider credits, refunds of receipts
through the provider, charges and notes of the last period, assessments,
mechanic's checks, the rule that another person approves, and switches of
policy. Reading a receipt and allocating it is one step. The deposits' own
reconciliation is not a guard of `close`: what it sums is `GapIsDeducted`. The
only receipts of the run *exit* are those of deposits, and the wallet pays
nothing there. One call at a time runs in TLC; that calls overlap is covered by
the proofs.

In the wallet's security deposits: the creation of deposits and their invoices
(they are there from the start); what the policy may forbid (deductions, returns)
is allowed, and cash is what it settles invoices with first; an invoice of an
agreement has a line for each of its deposits, here each deposit has an invoice of
its own, so one checkout funds one deposit; what a checkout pays beyond the rest of
the deposit goes to clearing accounts only. That the rider has no vehicle and no
agreement is asked before a return and left to the environment. The two persons
of an approval are not told apart.

In the billing engine: prices, taxes, credits, one-time charges and the invoice
that a period becomes (its balance is `RiderInvoices`); monthly and quarterly
calendars and time zones; the twenty schedules of one run of the job; the
revision of an agreement by an operator; holding and handing over the
replacement (`VehicleExchange`), of which only the times matter here. `Resume`
needs the vehicle the rental began with, which is stated by the number of
versions.

In the outbox: templates, the read flags of the inbox, SMS; the delays between
retries, which are choices.

Not modelled at all: Razorpay rails, provider settlement reports, penalties,
collections cases, readiness
tasks and installations, KYC, one time passwords and refresh tokens, referrals,
media, attendance, spares, and the web application, the site and the
infrastructure. `PROJECT.json` gives a reason for each. Most of the repository
by lines is the web application (pages and forms without a protocol of their
own) and create, read, update and delete with permission checks.

## 9. Plan

In this order; each module with its run, and proofs where marked (P).

1. `PenaltyClearance`: debt digests and handover exceptions, a guard of
   `HandOver` (P: no handover on an exception for another debt).
2. `RentBilling` in front of the ledger: the invoice of a period with one-time
   charges and credits, and the monthly calendar as a function.
3. Provider refunds of receipts and rider credits in `FinalSettlement`, and the
   wallet as a payer next to the deposits.
4. `MandateLifecycle` composed with the reservation of AutoPay: no charge on a
   mandate that is not active when the debit is reserved.
5. `SecurityDeposits`: deposits that are created on the way, invoices of several
   deposits; composition of `WalletLedger` with `cash` of the ledger.
6. `KycWorkflow`, `AuthSession`: attempts, circuit state, one time passwords.
7. Razorpay rails, `CollectionsCase`, referrals, installations.
8. Proofs: `WalletLedger` as a use of the ledger's `cash` (`LedgerUse`), once the two are
   composed (5).

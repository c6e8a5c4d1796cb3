# Formal verification of SaatDin

SaatDin insures gig workers against disruptions of their zone: a worker buys a
week of cover, the backend watches weather, traffic, air quality, store outages
and reports of unrest, raises claims by itself, and pays them out. This
directory holds TLA+ models of that system, TLC configurations that check them
on small instances, and TLAPS proofs of their main properties for instances of
any size.

All models are translated from the code; paths below are relative to the
repository root. `PROJECT.json` maps every definition to its source lines.

| module | what it is | proofs |
| --- | --- | --- |
| `CoverageLedger` | abstract specification: what the billing service promises | |
| `Billing` | the Spring billing service: orders, webhooks, coverage, outbox | `BillingProofs` |
| `Claims` | claims, review, payouts and escalations of the FastAPI backend | `ClaimsProofs` |
| `SettlementLedger` | abstract specification: what claims and payouts promise | |
| `Policy` | registration, plan queue, premiums, weeks, loyalty, the coverage gate | `WorkerProofs` |
| `Otp` | one-time passwords | `WorkerProofs` |
| `PayoutAccounts` | the UPI accounts payouts are sent to | `WorkerProofs` |
| `ZoneLock` | workers' reports of unrest and their corroboration | `AlertProofs` |
| `Triggers` | how the monitor decides that a zone has an alert | `AlertProofs` |
| `Signals` | uploads of location signals and the three checks of them | `ScoringProofs` |
| `FraudScore` | the anomaly score of a claim (extends `Signals`) | `ScoringProofs` |
| `CoClaims` | rings of workers who claim together | `CoClaimsProofs` |
| `MCBackend` | the last eight side by side, with constants for TLC and 3 configurations | `BackendProofs` |
| `MCBilling`, `MCClaims` | constants for TLC, with 5 and 4 configurations | |
| `FiniteFacts` | finite sets, maxima, sums, powers, induction over sets: no model, lemmas only | itself |

To check: `tlc -workers 2 -config MCBilling_webhooks.cfg MCBilling` and
`tlapm BillingProofs.tla`.

---------------------------------------------------------------------------

## 1. Inventory of the system

| component | state | what is hard | module |
| --- | --- | --- | --- |
| Payment orders (`billing-service/.../order`) | `payment_orders`: immutable columns and a status | concurrent and retried creations of a key; a status poll that reads without a lock and writes at its commit | `Billing` |
| Provider webhooks, payment ledger (`.../payment`, `.../outbox`) | transactions, receipts, outbox, two kinds of locks | events repeated, late, out of order, contradictory; processes die | `Billing` |
| Coverage (`.../coverage`) | `coverage_periods` | the index compares first days, the query whole weeks | `Billing` |
| Sandbox provider (`.../provider`) | none | | `Billing` (its events) |
| Claims and review (`api/claims.py`, `api/admin.py`) | `claims` | no transactions; claims reviewed twice, or by two | `Claims` |
| Claim payouts (`services/payouts.py`) | `payout_transfers` | settled before the cap is counted; transfer and link are two statements | `Claims` |
| Escalations (`core/db.py:1317-1380`) | `claim_escalations` | escalations race with late reviews | `Claims` |
| Trigger monitor (`services/trigger_monitor.py`) | readings, an in-memory state per zone | outages, restarts and forced alerts among samples; deduplication reads long before the insert | `Triggers`, `Claims` |
| Payout accounts (`api/payouts.py`) | two slots of an account and a flag | verification reads, and marks later | `PayoutAccounts` |
| ZoneLock reports (`api/triggers.py:121-220`, `services/zonelock_nlp.py`) | `zonelock_reports` | reports list, count, confirm while others insert; dates compared as text | `ZoneLock` |
| Profile and plan queue (`api/workers.py`, `core/dependencies.py`) | the worker's plan and queued plan | read, then overwritten by phone alone | `Policy` |
| Policy, premiums, loyalty (`api/policy.py`, `services/coverage.py`) | `premium_payments`, or the billing service's answers | two questions about different weeks; cycles that begin a minute late | `Policy` |
| Billing client (`services/billing_client.py`) | none | every failure reads as "not covered" | `Policy`, `Claims` |
| One-time passwords (`api/auth.py`) | one row per phone | a verification deletes or counts by phone what a send has replaced | `Otp` |
| Location signals (`api/workers.py`, `core/db.py`) | events and the newest row | each upload starts a second one nobody waits for | `Signals` |
| Signal validation (`services/*_validation.py`) | none | stale data, jumps among steady pings | `Signals` |
| Fraud scoring (`services/fraud_*.py`) | the loaded model | a language model decides near the threshold; features must be storable | `FraudScore` |
| Co-claim graph (`services/co_claim_*.py`) | runs and clusters | components of pairs, decay of risk | `CoClaims` |
| Premium model, zones, readings; Flutter; Android; infrastructure | | see section 8 | |

The Flutter app calls FastAPI; FastAPI calls the billing service (orders,
coverage) over HTTP with a two-second limit. The payment provider calls the
billing service. The scheduler calls the trigger monitor, which reads what
`Triggers` models, then for each worker scores (`FraudScore`), asks billing for
coverage, inserts a claim and calls `initiate_claim_payout` (`Claims`), which
asks for the account (`PayoutAccounts`). ZoneLock reports call the monitor's
forced trigger. Between the modules only refusals and inputs cross: coverage
and the account can only refuse (`RefuseAccount`), a score can only hold a
claim (`h` of `ScanWorker`), an alert can only start a scan. Each module
therefore lets its neighbours do what they like with these inputs, and what is
checked of it holds in every composition.

---------------------------------------------------------------------------

## 2. The billing service: `Billing`

### State

| variable | code |
| --- | --- |
| `status`, `info` | `payment_orders`: the status; the columns that never change |
| `txn` | `payment_transactions`, by provider payment id |
| `coverage` | `coverage_periods.status`, by order |
| `receipts` | `webhook_receipts`, by provider event id |
| `outbox` | `outbox_events`: number of rows of each type, by order |
| `creator`, `handler`, `reader` | where each request's transaction stands |
| `sent` | events the provider has issued (environment) |
| `answers` | history: successful answers of `create` |
| `now` | the `Clock` |

### Actions

A request is one PostgreSQL transaction. Its steps are divided where another
transaction can come in between: at each lock it may wait for and at its
commit. What it read before is kept in its own record (`seen`).

| actions | code |
| --- | --- |
| `CreateLock`, `CreateInsert`, `CreateRollback` | `PaymentOrderService.create` |
| `Deliver`, `LockEvent`, `LockOrder` | `WebhookProcessingService.process` up to validation |
| `Process` (`CanCapture`/`Capture`, `CanFail`, `CanRefund`/`Refund`) | its switch and commit |
| `Reject`, `HandlerCrash` | an exception or a death: everything rolled back |
| `ReadOrder`, `WriteExpired`, `ReaderCrash` | `PaymentOrderQueryService.getOwned` |
| `Emit` | the provider (external) |

The constraints of `V1__create_billing_schema.sql` are guards: a violated
constraint raises, so the step is a `Reject`. Locks are not variables: a lock is
held exactly while a thread stands between two of its steps, and
`KeyLockFree`, `EventLockFree`, `RowLockFree` say so.

Abstractions. The clock is one monotone counter, so `update()`'s check that
time does not move backwards cannot fail and is left out. There is one provider,
so uniqueness "per provider" is uniqueness. A delivered event is one whose HMAC
verified. Refused requests (404, 409, a poll that has nothing to expire) change
nothing and are no step. `CREATED` is never persisted: `createNew` moves the
order to PENDING before it saves it. The advisory locks of keys and of events
hash into one space; a collision only makes one wait for the other and is left
out. Batch coverage queries are repeated single ones.

### Properties

- `MoneyBacksCoverage`: an order has coverage exactly when one payment of it was
  captured, active exactly while that is not refunded. There is no constraint
  "one payment per order"; the row lock and `markPaid` stand in for it.
- `StatusAgreesWithCoverage`, `ReceiptsMatchEffects`, `OutboxMatchesReceipts`.
- `LockedReadIsCurrent`: what a webhook read under the row lock holds when it
  commits, although status polls take no lock to read.
- `CoverageUnambiguous`: a date has one active period. The unique index is only
  on first days; that first days are Mondays makes it enough.
- `IdempotentAnswers`, `CreationNeverCollides`: races of creations and retries.
- `OnlyReceiptedEventsMoveMoney`: what a step never does.
- `ImplementsLedger`: every behaviour is one of `CoverageLedger`. That revoked
  coverage stays revoked (`RevocationIsFinal`) follows from it; it has a theorem
  and no run.
- `OrderTransitions`: statuses follow the design's table (without polls; see finding 1).
- `WebhooksFinish`, `PaidIsCovered`, `RefundEndsCoverage`: liveness.

### Runs

| run | instance | what it shows |
| --- | --- | --- |
| `webhooks` | 2 orders of one worker's week, 3 events, 2 payments, 2 webhook threads, a poll, a creator | money, coverage, receipts and outbox agree; the refinement |
| `weeks` | 2 orders in neighbouring weeks at two prices, 2 creators, 2 keys, no polls | races of creations, dates, wrong amounts, the transition table |
| `live` | 1 order, 2 events, 2 webhook threads, a poll | liveness |
| `poll_race` | 1 order, a poll | finding 1 |
| `repeated_refund` | 1 order, 3 events | finding 2 |

Why the bounds are enough to see the interesting cases: two webhook threads are
what a race needs; three events let one be paid, refunded and contradicted, or
two orders compete and one be refunded; two payments let one order be paid
twice; one tick past `Lifetime` lets an order expire. In `weeks` polls are left
out because with them `OrderTransitions` fails (finding 1). Deadlock is
checked in every billing run: a provider redelivers for ever.

### Fairness

A thread that waits for a lock of PostgreSQL is queued and gets it in turn:
strong fairness of `LockEvent` and `LockOrder`. A thread that waits for nothing
commits or rolls back: weak fairness of `Process` and `Reject`. The provider
delivers an event until it is answered without error: strong fairness of
`Redeliver`, which is what payment providers do and what the receipts are for.
Processes do not die for ever: `CrashesStop`. No fairness is assumed of the
provider's `Emit`, of creations or of polls.

---------------------------------------------------------------------------

## 3. Claims and payouts: `Claims`

### State

| variable | code |
| --- | --- |
| `row`, `status`, `linked` | `claims`: the columns that never change, the status, `payout_transfer_id` |
| `transfer` | `payout_transfers.claim_id` |
| `escalation` | `claim_escalations` |
| `scan` | monitor and forced triggers: the claim about to be inserted |
| `payer` | threads in `initiate_claim_payout` and its `except` |
| `review` | what is left of a `review_claim` after the payout |
| `submitter`, `escalator` | requests of `/claims/submit` and `/claims/{id}/escalate` |
| `overlapped`, `abandoned`, `demoted` | history, used only to state properties |

### Actions

`core/db.py` runs each statement on a pooled connection in autocommit; there
are no transactions. So one step is one statement, with what the handler does
with its result up to the next one.

| actions | code |
| --- | --- |
| `SubmitCheck`, `SubmitInsert` | `submit_claim` |
| `ScanWorker`, `ForceWorker`, `InsertClaim` | one worker in a cycle, or in a forced trigger |
| `Reload` | `update_claim_status` reads the claim back, `initiate_claim_payout` looks at its link |
| `CheckPass`, `RefuseByCap`, `RefuseAccount`, `Pay`, `Link` | `initiate_claim_payout` |
| `Block` | the callers' `except ValueError` |
| `Approve`, `Reject`, `Hold`, `Close` | `review_claim` |
| `EscalateCheck`, `EscalateFlag`, `EscalateInsert` | `escalate_claim` (`core/db.py`) |
| `CrashPayer`, `CrashScan`, `CrashReview`, `CrashEscalator` | a thread or the process dies |

Abstractions. `MaxDays` is a constant per worker: plan changes are queued to a
Monday (module `Policy`). The anomaly
score (module `FraudScore`), velocity spike and account age are one Boolean input, `h`. Coverage and
the UPI account can only refuse (`RefuseAccount`). The escalation a review names
is taken to be one of its claim, as the dashboard sends it. The admin log is
only ever inserted into and is left out. There is at most one monitor
(`SchedulerAssumption`): APScheduler runs one instance of a job (its default; the
first cycle at start-up is awaited before the scheduler starts) in the one
process that is started. Day 0 is a Monday and the clock counts from there.

### Properties

- `PaidOnce`: a claim is paid at most once however often it is approved, unless
  two payouts of it were at work together or one died between its two
  statements. These are the two windows the code leaves open: `Reload` sees only
  a link that was already written.
- `SettledIsBacked`, `SettledIsPaid`: settling comes first and the payout after,
  so a refusal must take the status back.
- `CapKept`: the cap is counted after the claim was settled. This order, which
  looks odd, is what makes concurrent payouts of one worker safe: each sees the
  other's day.
- `AutoClaimsSpaced`: the deduplication window holds whatever became of the
  first claim.
- `EscalatedIsQueued`: an escalated claim has an open escalation, even when
  escalations race and a review of an earlier one ends late.
- `ImplementsSettlement`: every behaviour is one of `SettlementLedger`, a book in
  which a claim is filed, settled, unsettled, paid by a transfer, and its payout
  finished or dead. It says together what the properties above say apart, of every
  step: what was filed and every transfer stay; a transfer is written only for a
  claim whose payout is under way, that is settled and whose day fits the plan unless
  it was demoted, and a second one only after one of the two events that excuse it. The book takes `overlapped` for its
  `excused`, `demoted` for its `waived`, and the claims some thread is paying for
  `underway`; it says exactly when a claim enters them, so they excuse no more than
  that.

### Runs

| run | instance | what it shows |
| --- | --- | --- |
| `claim_payouts` | 1 claim of a forced trigger, an admin, an escalating worker, 2 transfers, 2 escalations, crashes | `PaidOnce`, `SettledIsBacked`, `EscalatedIsQueued`, `SettledIsPaid`, `ImplementsSettlement` |
| `claim_cap` | 3 claims, the monitor, manual claims, an admin, Friday to Sunday, a two-day plan | `CapKept`, `AutoClaimsSpaced` (2.2 million states, some minutes) |
| `claim_cap_early` | 2 claims, 2 days | finding 3 |
| `claim_cap_escalated` | 3 claims, 3 days | finding 4 |

Bounds. A double payment needs two payouts of a claim - the forced trigger's and
an admin's, or two of an admin's - or one crash, and two transfers. The cap needs
one more day than the plan allows (three for Basic), and two payers;
`ImplementsSettlement` was checked on that instance too (three minutes, beside the
two invariants), and stays out of the run for its length. A late close
needs two escalations. Days 4 to 6 end a week. `Window = 0` makes the window one
tick. Deadlock is not checked: the identifiers and the clock run out, after which
no step is left.

Fairness (`claim_payouts`): weak fairness of each thread's payout steps. The event
loop resumes a coroutine whose await has returned, database calls return, and
the billing client gives up after two seconds. No fairness is assumed of
reviews, the monitor or escalations. `SettledIsPaid` leaves out the claims a
thread died at, because nothing in the code takes up a payout whose process died.

---------------------------------------------------------------------------

## 4. The other parts of the backend: `MCBackend`

Eight more modules model the parts of the backend that share no state with each
other. As in `Claims`, a step is one database statement with what the handler
does before the next one, because nothing is a transaction. Identities are by
phone alone, so one worker (one phone, one zone) stands for all.

`MCBackend` composes them: `focus`, chosen at the start, is the part that moves
in a behaviour, the others stand still. Nothing is lost, as no action of one
reads a variable of another; `FraudScore` extends `Signals` and the focus
"scoring" moves both. The focus "signals" interleaves two uploads of positions as
they are captured, without metadata, which no step of theirs looks at; "scoring"
files a claim beside one upload from the zone, with metadata, that may be late.

### `Policy`

*Actions:* every request goes through `get_current_worker` (`ReadDue`,
`ApplyDue`, `LoadWorker`), then a handler: `GetPolicy`, `UpdatePlan`,
`UpdateProfile`, `RecordPayment` + `SchedulePaid`, `CreateOrder` +
`QueueRegistered`, or registration; `CoverWeek` and `RevokeWeek` are the billing
service's. `PolicyStatus`, `CleanStreak`, `LoyaltyPercent`, `ActiveCoverage` are
what is answered.
*Time* is cut where comparisons change: Monday's first minute, in which the date
is already the new week's and its cycle has not begun; the rest of Monday; the
other days.
*Properties:* `QueuedPlanKept` (a queued plan stays until its week and is the
plan from then on), `CoverageBoughtAhead` (no week is bought once it runs),
`ShownIsReal` (a policy that reads active is one whose claims pass the gate).
*Bounds:* three requests (one that queues, one that reads the queue, one that
applies it late), two weeks, workers with no past and with three paid weeks, so
that a fourth gives the discount.

### `Otp`

*Actions:* `SendCheck`, `SaveOtp`, `SmsAccepted`/`SmsFailed`, `DeleteUnsent`;
`VerifyCheck`, then `Increment`, `DeleteRefused` or `Accept`. A verification
writes by phone alone, on whatever the row holds by then.
*Properties:* `GuessesBounded`, `CodeSpentOnce`, `DeliveredIsStored`. Their
exceptions (`doubled`, `spoiled`) are exactly the windows the code leaves: two
verifications that read a code before either deletes it, and a late write over a
newer row.
*Bounds:* two sends, two verifications, two attempts. A sender is used once, a
verifier as often as it likes.

### `PayoutAccounts`

*Actions:* `UpsertWorker`, `UpdateAccount` (a new account clears the flag),
`ReadAccount` and `MarkVerified`, `DropCheck`.
*Property:* `PaidToConfirmed`: the account a payout goes to was read by a
verification or is registration's, and is well formed; the exception, `swapped`,
is an account replaced between the two statements of a verification.

### `ZoneLock`

*Actions:* `CreateReport`, `ListReports` (the window, the category and the
similarity of tokens), `ReadCount` and `WriteCount` (two statements),
`MarkClaimed`, `ForceZone`, `DropReport`. A date compared as text is modelled by
what it does: a report of the cutoff's own day is never recent.
*Properties:* `ConfirmedByTwo`; `CorroboratedIsConfirmed` is finding 5.
*Bounds:* three reports of two workers, a day of two ticks: the cutoff falls on
the reports' day, where the comparison fails, and on the day before, where it
holds.

### `Signals` and `FraudScore`

*Actions:* `BeginUpload`, `InsertPing`, `SelectTrail`, `UpsertSignal`,
`PurgeStale` of a request and of the task it starts; `ReadTower`, `ReadMotion`,
`ReadGps`, `ScoreByModel`, `ScoreDisabled`, `ScoreFails`, `CreateScored`,
`LoadModel`. What is measured in floating point is counted in whole units
(quarters of an hour, metres, ten-thousandths of a score) and quotients are cut.
The forest's raw score and the language model's answer are inputs.
*Properties:* `NewestSignalKept`, `JumpNeverRewarded`, `StaleIsNeutral`,
`ReviewOnlyNearThreshold`; `SignalsAdviseOnly` is finding 6.
*Bounds:* two uploads with their two tasks; trails of two past pings, steady or
with a jump, to which the uploads add more; places at the centre and six
kilometres away (a jump is more than five); raw scores on both sides of the
threshold, which adjustments bring within the margin or carry beyond it.

### `CoClaims`

*Operators:* `Edges` (pairs with support), `Reach` (the queue of
`_connected_components`, a recursive function of the set reached so far),
`Components`, `Risk` (a fraction, over one denominator), levels.
*Actions:* `FileCoClaim`, `StartRun`, `ComputeRun`, `FinishRun`, `FailRun`.
*Properties:* `RingsAreWhole` (clusters are the classes of connection by
supported pairs), `RiskDecays`. They are stated of the computation over claims
dated as text; over the database's rows, whose dates are not text
(`co_claim_graph.py:38`), `ComputeRun` finds nothing.
*Bounds:* four workers and three groups in two buckets: enough for a chain of three
pairs and for two rings side by side.

### `Triggers`

*Actions:* `PollRain` and `PollKinds` (a scheduled poll that ends at rain, or
reads air and traffic), `ForceAlert`, `RestartMonitor`. Readings of a kind are a
set, each known by its poll: a tick or a restart moves the polls on, so no two
share one, and the newest `n` are those with fewer than `n` later ones.
*Property:* `SustainedForHours`: an alert that says "for four hours" has its
samples, however outages, earlier alerts, forced triggers and restarts fall;
each restart polls at once and may shorten the window by one.
*Bounds:* air with a window of three polls and traffic of one, four ticks, one
restart.

### Runs

| run | instance | what it shows |
| --- | --- | --- |
| `backend_all` | every focus, 627,000 states, some three minutes | all properties above |
| `backend_zonelock` | the focus "zonelock" | finding 5 |
| `backend_signals` | the focus "scoring" | finding 6 |

Symmetric are the model values that no definition tells apart: requests, codes,
verifiers, plans, members and accounts. Deadlock is not checked: requests are
used once and the clocks stop. No fairness is assumed.

---------------------------------------------------------------------------

## 5. Findings

Each is a run that TLC ends with a counterexample.

1. `poll_race`: `PaymentOrderQueryService.getOwned` reads an order without a
   lock and writes EXPIRED by id alone. A poll that read PENDING overwrites the
   PAID of a webhook that committed meanwhile. The coverage stays active, but a
   later refund is rejected because the order is EXPIRED. The design document
   says that any other transition does not modify records.
2. `repeated_refund`: a second REFUNDED event under another id writes a second
   `coverage.revoked` row, though the design document calls repeated
   notifications idempotent.
3. `claim_cap_early`: the cap counts the day of the claim that is being paid, as
   it is settled already, and compares with `>=`: each plan pays one day less
   than the table in `PROJECT_INFO.md` promises.
4. `claim_cap_escalated`: escalating a paid claim takes its day out of the count,
   so a worker can be paid on more days than the plan allows.

5. `backend_zonelock`: `report_zonelock` compares `str(created_at)`, with a blank
   between date and time, with `isoformat()`, with a `T` there (`triggers.py:153`).
   A report of the cutoff's own UTC date is never recent, so two workers' reports
   of one afternoon confirm nothing, against "Auto-confirms if 2+ workers report
   same event within 30 minutes" (`triggers.py:127`).
6. `backend_signals`: the scored features carry datetimes of the GPS and motion
   checks, and `create_claim` writes them with `json.dumps` (`db.py:435`), which
   raises. A worker who has sent a location signal can file no scored claim, and
   in the monitor the exception ends the scan of every zone behind.

`CapKept` says what the cap does ensure: claims that were not moved after their
payout stay within it.

### Other disagreements met on the way

No run states these; the models contain what the code does.

- The task an upload starts (`update_worker_gps`) uploads the position again,
  alone, and overwrites the row's tower and motion metadata with NULL, though
  scoring is to use them (`PROJECT_INFO.md:130`).
- `PROJECT_INFO.md:78` describes another loyalty cycle than `policy.py:118-131`.
- `record_premium_payment` with "paid" queues the current plan over a queued
  upgrade (`policy.py:396`).
- A retried create-order after a plan change is a conflict instead of the order.
- Reports without a category corroborate reports of any (`triggers.py:172`).
- Repeated forced triggers pay the same workers again (`trigger_monitor.py:226`).
- `_parse_claim_events` keeps only dates that are text (`co_claim_graph.py:38`),
  and a run that dies stays "running".
- Low variance of pings is rewarded, where `PROJECT_INFO.md:113` calls it suspect.
- A traffic speed of 0 is taken as no answer; a rain alert ends the poll before
  air and traffic are read; the scheduled refresh overwrites a forced state.
- An approval whose payout is refused still resolves the escalation
  (`admin.py:306`), and two escalation requests at once insert two rows.

---------------------------------------------------------------------------

## 6. What is proved

Theorems hold for every number of orders, keys, events, claims, workers, requests
and threads, any plan, any window and any clock, under the assumptions the modules
name. They say of the constants what the code enforces or what the encoding needs:
first days are Mondays (`RequestsAssumption`), one monitor
(`SchedulerAssumption`), a window shorter than a day (`ZoneLockAssumption`),
a well-formed default account (`PayoutAccountsAssumption`), finite sets of
uploads and stored pings (`PastAssumption`), of cells in one upload
(`TelemetryAssumption`; the schema allows sixteen) and of workers and claims
(`CoClaimsAssumption`); the rest are types and null values
(`ClockAssumption`, `NullsAssumption`, `ThreadAssumption`, `PlanAssumption`,
`PolicyAssumption`, `NoRowAssumption`, `OtpAssumption`, `NoReportAssumption`,
`TriggersAssumption`, `SignalsAssumption`, `FraudAssumption`). TLC evaluates all of
them in the runs.

Every safety invariant and action property of the passing runs has a theorem.

### `BillingProofs`

The properties are not inductive by themselves. `Inv` has five layers, each
preserved by every step given the layers before it:

1. `Types`: `TypeOK`, and a thread that is not idle holds an event, a key or an
   order.
2. `Rows`: an order has columns exactly when it exists; events name existing
   orders; a payment belongs to one order.
3. `Keyed`: the advisory lock excludes; keys are unique; answers are right.
4. `Locks`: no two handlers hold one event or one order; a handler inside an
   event has no receipt for it; what it read is current. The last needs that
   `WriteExpired` waits for the row lock.
5. `Money`: transactions, coverage, statuses and receipts fit. Only here does the
   content of `process` matter; `AtCommit` collects what the layers give a
   handler that commits.

From it follow the invariants (`MoneyCorrect`, `StatusCorrect`,
`ReceiptsCorrect`, `LockedReadCorrect`, `CreationIdempotent`,
`CreationNeverFails`, `CoverageCorrect`), the action properties (`OnlyReceipted`, `RevocationFinal`),
and `LedgerImplemented`: capture maps to `Activate`, refund to `Revoke`, a
creation to `Place`, all else to a stutter. `CoverageCorrect` rests on
`MondaysApart`: two multiples of seven with a day in common to their weeks are
equal. `AnnouncementsMatch` counts: receipts are finite, each commit adds one to
the receipts of its order and status and to no other (`ReceiptAdded`), and the
outbox follows.

`OnlyPollsLeaveTheTable` says of every step, polls included, that a status leaves
the design's table only where `WriteExpired` overwrites what it read before: what
finding 1 shows is the one way out. `TransitionsFollowTheTable` is its corollary
for the instances without readers that the run `weeks` checks.

### `ClaimsProofs`

1. `Typed`: `TypeOK`, and busy threads name a claim.
2. `Refs`: what rows and threads name exists; no claim is from the future; a
   payer about to link holds a transfer of its claim.
3. `OnePayout` (for `PaidOnce`): outside `overlapped` one payer works at a claim;
   one that has passed its check found it unpaid; a paid claim is linked or about
   to be.
4. `SettledIsBacked`, inductive as it stands.
5. `Queued` (for `EscalatedIsQueued`): the open escalation is one that no
   unfinished review names, so no late `Close` can end it.
6. `Spaced` (for `AutoClaimsSpaced`): between the monitor's check and its insert
   no other claim of the monitor appears; time only widens the gap.
7. `StaysSettled` and `Capped` (for `CapKept`): a claim that is paid or past the
   check, and never demoted, is settled, so the count of any later check sees its
   day. `PledgedDays` adds to the paid claims those about to be paid; only
   `CheckPass` adds to them, and it has counted them all (`CappedByCheck`). The
   rest is that the days are finitely many (between 0 and `MaxTime`) and that a
   week starts no later than its days.

The theorems are `TypeCorrect`, `PaidAtMostOnce`, `SettledClaimsAreBacked`,
`EscalatedClaimsAreQueued`, `AutoClaimsAreSpaced`, `WeeklyCapHolds` and
`SettlementImplemented`. The last maps each action to the book: the two inserts to
`File`, an approval to `Settle`, a demotion to `Unsettle`, `Pay` to `Pay`, the end
of a payout to `Finish` or, when it dies after `Pay`, to `Die`; the rest stutters.
`PayWithinPlan` is its core: the days the book counts, with the day to be paid, are
among the pledged ones, which `Capped` bounds. It needs one more invariant, `Dated`:
claims are raised within the bounds of the clock.

### `WorkerProofs`: plans, one-time passwords, accounts

- `RequestsKept` (what a request under way has read is a row, and one that is to
  apply a plan read it due) gives `QueuedPlansArrive`. For `WeeksAreBoughtAhead`
  instants are cut at `3n`; for `WhatIsShownIsReal` a clean streak of four is four
  weeks in a row, by the cardinality of the run of weeks.
- `OtpInv` has layers `Codes`, `Attempts`, `Sessions`, `Newest`. `Attempts` relates
  the row's count, the comparisons made, and the verifications that have compared
  and not counted yet; the bound is their number.
- `AccountsInv`: the flag of a slot is set only for an account that was read, is
  the default one, or has been swapped in.

### `AlertProofs`: reports and readings

- `MatchesKept` (what a request matched exists and is another worker's) and
  `ConfirmationsKept` give `ConfirmationsNeedTwoWorkers`; similarity plays no part.
- `ReadingsKept` orders the readings of a kind: a later poll has a later or the
  same tick, and a reading's place among the polls is its tick and at most the
  restarts so far. So a set of readings has at most as many members as it has
  ticks and restarts (`TicksOfReadings`): the newest `n`, all beyond the threshold,
  spread over as many ticks but for one a restart, and an answer within the
  threshold lies before them (`AlertIsSustained`).

### `ScoringProofs`: signals and scores

- `UploadsKept`: a new ping's rank is above all ranks stored, saved or under way,
  though old pings are purged (`NewestSignalStays`). The largest rank exists because
  the sets are finite.
- `RowsKept`: the summary a row or an upload carries is the one computed of a
  finite set of stored pings. If two of these that follow each other are a jump
  apart, the sum of the jumps counts it (`JumpIsCounted`), and what the adjustments
  make of such a summary lowers the score (`JumpLowersScore`).
- `ScoresKept`: readings of rows that were old when the filing began do not count
  (`OldIsSilent`), whatever the uploads do meanwhile (`OldSignalsAreNeutral`), and an
  outcome that differs from the raw score's was reviewed within the margin
  (`ReviewsDecideNearThreshold`).
- `ScoringTyped` needs that sums and maxima over a trail or over cells are integers.

### `CoClaimsProofs`: rings

`Reach` is recursive over the set reached so far. `Closure`, the least set that
holds the start and is closed under the supported pairs, satisfies the recursion
(`ClosureReaches`), and whatever satisfies it is the closure (`ReachIsClosure`, by
induction on the set of workers not reached yet). Closures of two workers are
equal or disjoint (`ComponentsMeet`), hence `ComponentsAreRings`.
`RisksDecay` compares sums term by term (`SumFunction` over finite sets, by induction
over the set) and then four products over one denominator.

### `BackendProofs`: the composition

`PartsAreImplemented`: a step of `MCBackend` is a step of one part and leaves the
variables of every other alone, so the whole implements the specification of each
part. `BackendTyped` and `PartsKeepTheirPromises` then collect what is proved of the
parts into the invariants and action properties that `backend_all` checks.

### Only model-checked

Liveness (`WebhooksFinish`, `PaidIsCovered`, `RefundEndsCoverage`, `SettledIsPaid`)
rests on fairness and `ENABLED`, which are beyond the prover; so are the
counterexamples of the findings, and that the mutants break the properties.
Induction over data goes through only where the data is a finite set: the library's
induction theorems, which take an operator, are replaced by `NatSetInduction` and
`SubsetInduction` of `FiniteFacts`, which speak of the set of values a statement
holds for.

---------------------------------------------------------------------------

## 7. Plan

Money and cover came first, because they are what the system is for; then what
decides about claims. Done: `CoverageLedger`, `Billing`, `SettlementLedger`,
`Claims`, `ZoneLock`,
`Otp`, `Policy` (with the plan queue and loyalty), `PayoutAccounts`, `Signals`,
`FraudScore`, `CoClaims`, `Triggers`, and a proof of every safety property the
passing runs check. What could be added:

1. `Purchase`: the app's retries and the billing client's timeouts composed with
   `Billing`.
2. `Policy` composed with the cap of `Claims` (a changing `MaxDays`).

## 8. Not modelled, and why

- Premium model, zones and external readings: numerical predictions, a read cache
  of a static table, HTTP calls. What the services answer is an input of
  `Triggers`. Text classification, the isolation forest and the language models
  are inputs too.
- Flutter client and Android bridge: user interface and platform sensors.
- Infrastructure of both services: start-up, configuration, API keys, formatting,
  metrics, listings that only read; the migration and seeding scripts, which are
  run by hand. HMAC and hashing are taken to work.
- Amounts of premiums and payouts, of which no decision depends but the amount a
  webhook must match (in `Billing`).
- The outbox has no publisher in this repository, so delivery of announcements
  cannot be stated. `register_device_fingerprint` has no caller.
- What repeating a forced trigger should do, and whether a refusal after a billing
  timeout is retried, no document says; no property is stated.

# ChurchOS back end: specification, model checking and proofs

This directory specifies the parts of the ChurchOS API (`src/src/`, NestJS with
Prisma/PostgreSQL, Redis, BullMQ workers) in which several requests, timers and
outside services act on the same rows. Every module is translated from the
TypeScript and SQL sources; `PROJECT.json` maps each definition to its lines.

    tlc -workers 2 -config SubscriptionBilling.cfg MCSubscriptionBilling.tla
    tlapm SubscriptionBillingProofs.tla

## 1. The system

The API process serves browsers, mobile devices and provider callbacks. A worker
process runs timers (`@Cron`) and queue consumers. Both share PostgreSQL and
Redis; nothing else is shared, and no lock is held over a call to an outside
service. That is where the difficult behaviour comes from: a handler reads a
row, awaits a provider, and writes the row, while another handler of the same
row does the same.

| Component (sources under `src/src/`) | State | Operations | What is hard | What makes it correct |
|---|---|---|---|---|
| subscription billing (`billing/`) | `platform_subscriptions`, `subscription_payments`, quotes in Redis | quote, schedule, checkout, reconcilePayment | three callers settle one payment over an await; late success of an attempt that was replaced; time-outs after the provider stored the link | one pending attempt, no success without money, one applied payment per state, access never reduced, a settled payment is final, kept money is recorded |
| payment recovery worker (`billing/payment-reconciliation.service.ts`) | cursor, running flag | two-minute scan | pages over a changing set, restarts | every unsettled payment is visited |
| subscription pricing | quotes, exchange rates | saveQuote, getQuote | age of a quote | a quote is sold only against the state it was computed from |
| plan entitlements and capacities (`billing/entitlements.ts`, migration `20261019140000`) | counts behind a trigger, reserved seats | insert, reserve, release | concurrent inserts, downgrade below the count | no insert beyond the limit, no seat leaked |
| company e-mail outbox (`company-email/`) | `company_email_notifications` | enqueue, dispatch, retryPending | leases that expire under their holder, lost answers, old copies of the row | one sender, at most one copy delivered, retries stop, nothing due is forgotten |
| giving: online payments and receipts (`giving/giving.service.ts`) | `transactions`, receipt numbers | initiate, verify, callback, cash | verify against callback, count-plus-one numbers | no receipt without the money, no paid gift written off, a number repeats only when it was contested |
| giving: recurring charges | `recurring_giving`, nightly jobs | dispatch, charge, pause, resume, cancel | row written back from before the charge, jobs that come twice | no early charge without a fault |
| payment accounts and gateways | credentials | initialise, verify | external | none of their own; environment of the payment modules |
| events and tickets (`events/events.service.ts`) | registrations, tickets, tiers | register, confirm payment, cancel, check in | capacity counted before the insert, cancellation during payment | a ticket was charged, admissions agree, the cancelled stay out |
| authentication and second factor (`auth/`) | factor, recovery codes, approved sessions | setup, activate, verify, approve, disable | one code used twice at once, approval over a replaced enrolment | a code works once, a session is approved only by the current factor |
| roles and permissions | role rows, Redis cache | edit role, compute, invalidate | reader fills the cache after the edit cleared it | no stale grant beyond the time to live |
| response cache (`common/interceptors/`) | version and entry keys | read-through, bump | fill after invalidation, failed bump | read-your-writes |
| rate limiter | counters, in-memory fallback | count, reset | Redis loss | window limits |
| offline sync: device mutations (`sync/offline.service.ts`) | receipts, row versions | push | repeated and concurrent mutations | once per mutation, no lost update |
| offline sync: change queue (`sync/sync.service.ts`) | change rows, cursors | push, pull, bootstrap, purge | commit order against cursor order, retention | devices converge, a mutation is applied once |
| outbound webhooks (`webhooks/`) | deliveries, jobs | notify, attempt, deactivate | the note of a failure beside the next try | what is shown follows what arrived |
| broadcasts (`broadcast/`) | broadcast, recipients, job | create, edit, cancel, process | cancel against the worker, tries that overlap | everybody served, nobody twice, a cancellation stands |
| outbound messages (`queues/processors/*-outbound`) | none | send | at-least-once queues | - |
| nightly jobs | job keys | dispatch | midnight, stalls | once a day |
| attendance sessions (`attendance/`) | services, sessions, check-ins | record, attach | details before, during, after the session row; who may look for which session | of the check-ins that looked for a session only those that raced stay loose |
| asset register (`assets/`) | assets, loans, depreciation | loan, return, dispose, archive, book a year | two loans, a return that makes a disposed asset active, half a booking, bookings around New Year | open loans only by races, a ledger torn only by a change of year |
| forms (`forms/`) | submissions | submit online, by link, by device, review | limit checked without the lock | devices keep the limit, all pass it only by races |
| appointments; members, families, visitors; church, branches, departments, cell groups; profiles; pastoral care, sermons, media, templates, custom fields | rows | create, edit, archive | single-row edits | foreign keys |
| notifications; integrations; WhatsApp inbox and assistant; reports and analytics; platform plumbing | little | I/O | - | - |

How they interact: a settlement of `billing` queues its confirmation in the
e-mail outbox inside its own transaction and calls `dispatch` after the commit;
the recovery worker calls `reconcilePayment`; `entitlements` reads the
subscription that `billing` moves; staff invitations reserve a seat and store
their e-mail in the outbox in one transaction; events and giving call the same
gateway adapters; the nightly jobs start recurring charges through the queue;
offline sync writes the rows of attendance, forms and members. `PROJECT.json`
lists all components with their status and all hazards at the line where they
bite.

## 2. Plan

The order: first what moves money or access, then what promises something to
a device or a person, then registers.

1. `SubscriptionBilling`, `PaidAccess`; 2. `CompanyEmail`; 3. `PaymentRecovery`;
   4. `OfflineSync`: modelled, checked, proved.
5. `EventTickets`; 6. `PlanCapacity`, `Authenticator`, `ResponseCache`,
   `PermissionCache`, `Broadcasts`; 7. `OnlineGiving`, `RecurringGiving`, `SyncFeed`,
   `WebhookDelivery`, `AttendanceSessions`, `AssetRegister`, `FormSubmissions`:
   modelled, checked, every safety property proved.
8. Left for later: the rate limiter; series and visitors of events; the parts of
   giving, members and profiles that section 6 names.

Each module has a small instance that reaches its hazards (two actors on one
row, one crash, one lost answer), a type invariant, the properties named by its
hazards and, where it holds for every instance, an inductive invariant and a
proof. Modules that are proved about use no RECURSIVE operator, declare their
constants with named assumptions and have one action per step between two awaits.

## 3. Modules

### SubscriptionBilling and PaidAccess

One church; churches share no row. Every await of the code is a step boundary,
every transaction under `SELECT ... FOR UPDATE` on the church is one step.

| Variable | Code |
|---|---|
| `sub`, `scheduled` | the `platform_subscriptions` row |
| `quotes` | quotes in Redis, dropped when their time to live is over |
| `order`, `status`, `outcome`, `url` | `subscription_payments`: frozen facts, `status`, `application_status`, `checkout_url` |
| `phase`, `handed` | the request between its commit and the provider's answer; payment pages that reached a browser |
| `gw` | what the provider holds for a reference (external) |
| `rec` | runs of `reconcilePayment`: reading, awaiting, about to settle |
| `emails`, `grant` | the confirmation stored with the settlement, if one is: `enqueue` stores none for a church without a valid address (`company-email.service.ts:117-123`); history of what each payment bought |

`Quote` and `Checkout` are `quote` and the transaction of `checkout` (the slot,
the release of abandoned rows, the checks against the quote); `CheckoutReturns`,
`CheckoutFails`, `CheckoutDies` are what can follow the commit;
`CheckoutResumes` hands a pending link out again. `ReconcileStart` is the
unlocked read, `ReconcileAnswered` and `ReconcileStops` the provider's answer or
its absence, `ReconcileFailed`, `ReconcileApplied`, `ReconcileReviewed` and
`ReconcileLost` the settlement. Amounts are a match or a mismatch; calendar
arithmetic (`subscriptionEnd`) is addition of ticks; exchange rates decide
amounts only. `PaidAccess` is the promise: a charge is accounted for at most
once, as access or as a case for review, and nothing else moves access.

### CompanyEmail

One row per event key and several concurrent runs of `dispatch`, of which one
(`Scanner`) is the retry timer's. A run is at one of the awaits of `dispatch`:
`read` (the row was fetched), `claim` or `expire` (the clock was read, the
update is under way), `sending` (the provider is called), `confirmed` or
`unconfirmed` (its answer is in hand). `run[w].row` is the copy of the row the
code goes on using, `run[w].time` the clock value it keeps. `Scan` is the query
of `retryPending`; `batch` what its loop has not dispatched yet. The provider
(`Takes`, `KeyKnown`) answers a known idempotency key with the first result and
forgets keys after `KeyLife`; a request whose sender gave up may still arrive
(`late`) or be lost.

The attempt number serves for the random lease token: both change with every
claim, and equality is all the code asks of a token.

### PaymentRecovery

The scan of the recovery worker: `cursor`, the rest of the current `page`, and
the set of candidates, which checkouts and settlements change at any place of
the order. `page = {}` is `running = false`. `owed` is a history variable: what
a pass that started at the front has not visited.

### OfflineSync

The transactions in which `push` decides mutations of contacts, one per member
of `Workers`, under READ COMMITTED: every statement sees what was committed
before it. `now` is the clock of all servers.

| Variable | Code |
|---|---|
| `requests` | what devices have put on the wire; any of it may arrive at any time, any number of times |
| `receipt` | `offline_receipts`: the content (its hash) and the stored result |
| `record` | the `members` or `visitors` row of an id: absent, present or archived, with `updated_at` (`version`) |
| `run` | a transaction under way: it holds the advisory lock of its mutation; after `Read` it has `existing` in `found` |
| `answers` | what devices were told; an acknowledgement may get lost |
| `applied`, `record[e].edition`, `payload.seen` | history: which write met which content, and which content its device had seen |

`Begin` is the lock and the missing receipt, `Replay` the lock and a receipt,
`Read` the query of `person`, `Apply`, `Conflict` and `Invalid` the write (or
its refusal) with the receipt and the commit, `Collide` an insert that meets a
row of that id, `Fails` a failure before the commit. `Refuse` is a request that
`push` turns away before or after the lock without a receipt. The phone number
check and the validation are the choice of `Invalid`. `Online` and `Purge` stand
for the domain pages and the nightly purge; they stamp a row with the time, and
two writes never fall into the same millisecond of one record. That is an
assumption: `updated_at` has milliseconds, and equal stamps would mean an equal
version of different content.

### EventTickets

One event with one tier and its members. A registration, its payment and its
ticket share a name of `Regs`, since `registration_id` and `payment_reference`
are unique columns; a name is used once. The modelled requests are members of
`Workers`; each step is what happens between two awaits that matter. The event may
be switched between free and paid (`Register` takes both).

| Variable | Code |
|---|---|
| `reg` | `event_registrations`: `payment_status`, whether `ticket_id` is set (`linked`), `checked_in`; `gone` is a deleted row |
| `ticket` | `tickets`: `status` and `is_used` |
| `txn` | `transactions.status` of the payment |
| `gw`, `sent` | the payment page of the provider, and the callbacks it has not been answered (external) |
| `attendance` | the row of (event, member), with the ticket it came from or `"hand"` |
| `run` | a request: where it is, the rows it read (`seen`, `reg`, `member`) |

`Register` to `OpenPage` are `registerForEvent`, `Assign` and `Assigned`
`createTicket`, `HandleWebhook` to `ConfirmBooked` the callback at
`integrations/payments/webhook`, `ConfirmCharged` the callback of the event,
`Settle` and `SettleLost` the transaction of `confirmTicketPayment`,
`Cancel` to `DeleteReg` `cancelRegistration`, `Scan` and `Admit` `validateTicket`,
`CheckIn` to `Mark` `checkInAttendee` and its bulk form, `WalkIn` the transaction of
`walkInCheckIn`. `Dies` ends a request between two steps. `Spare` is a bound: a
request that may insert starts only while a name is left for it.

### Requests

What all the modules below share: `req[p]` is where request `p` waits (the name
of the await), the row it works on and what it has read. `Begins`, `GoesTo`,
`Ends` move one request, `Dies` loses the rest of a handler to a crash or an await
that throws. Between two awaits a handler is one step; a transaction that the
database runs by itself is one step too. `Requests` has no code of its own: it is
how Node runs any handler.

### PlanCapacity

The trigger `churchos_check_capacity` and everything that meets it. `plan` is what
the church's plan has room for (`ChangePlan` moves it under the others), `row` the
members and branches that count, `staff` the profiles, `seat` the reservations with
their maker, `identity` the accounts at the identity provider, `churchLock` the
transaction that holds the church's row. `AddRow` and `CommitRow` are an insert from
the trigger's count to its commit; `InviteUser`, `ReserveStaffSeat`, `CommitSeat`,
`GenerateLink`, `CreateProfile`, `CommitProfile`, `ReleaseStaffSeat` an invitation;
`SeatExpires` the fifteen minutes. `Deactivate`, `Activate` and the deletion of an
account free and take seats besides.

### Authenticator

One user. `factor` is the `profile_authenticators` row (revision, last time step,
set of recovery codes and which are unused), `approved` the sessions that were let
through and under which revision, `challenge` the pending sign-ins. `Setup` and
`Activate` are an enrolment, `Verify` and `SpendCode` a code from its check to the
conditional update that spends it, `Approve` and `Upsert` the approval, `Disable`,
`RegenerateRecoveryCodes`, `ReplaceRecoveryCodes` what a code may be spent on,
`Revoke` the password changes and logouts, `Accepted` what `assertSession` lets in.
`proven`, `spent` and `reused` are history. `Password` is the revision of a
password-only approval.

### ResponseCache and PermissionCache

`ResponseCache`: `content` counts what the database holds, `version` is the key
`cache:ver:<church>`, `entry` the answers by version, `hint` the version each
process remembers. `Get`, `Load`, `Store` are a read, `Write` and `Bump` a write;
`ExpireVersion` and `CacheDies` are Redis forgetting and refusing. A version is the
number of writes that issued one, since the code draws it at random and asks only
for equality. `PermissionCache`: `role` and `granted` are the rows of a role name,
`cached` the key. `GetPermissionsForRole`, `FindRoleRecord`, `ResolvePermissions`
and `Remember` are a read; `SetPermissionsForRole`, `Replace`, `InvalidateCache` a
change. `raced` holds the requests whose reading a change has overtaken.

### SyncFeed

`feed` holds the `sync_queue` rows by stamp and id, `open` the transactions that
were stamped and are not committed, `device` each device's cursor, local copy and
page. `Begin` and `PushChanges` start a transaction, `Commit` makes its row visible
(and decides whether a pushed change applies), `PullPage`, `Apply`, `Hydrate`,
`LosePage` are a pull, `LoseCursor`, `Bootstrap`, `Snapshot`, `ReadCollections` a
device that starts over, `CleanupExpiredChanges` the retention. `skipped`,
`twisted`, `purged`, `forgotten`, `applied` and `twice` are history: the reasons
for which a device may differ, each written down where it arises.

### Broadcasts

`broadcast` is the status column, `recipient` the rows of `broadcast_recipients`,
`sendJob` the job `broadcast-<id>` with its tries and holder, `message` how many
messages each recipient was queued. `CreateBroadcast`, `InsertRecipients`,
`AddSendJob`, `MarkStarted` are `create`; `ReadStatus` to `MarkSent` are
`processBroadcast`; `StallSendJob` is a lock renewed too late, `SendThrows` a try
that failed. `mishaps` counts what may send twice: a run lost beside a message, and
an overlap. `settled` says the broadcast was cancelled when nothing was left that
overwrites it.

### WebhookDelivery

`subscription` (active, archived), `allowed` (the plan), `delivery` (the row), its
`postJob` and the `endpoint`. `Notify`, `CreateDelivery`, `QueueDelivery` are
`notifySubscribers`; `TakeDelivery` to `Succeeds` are one run; `OnFailed` is the
worker's event, which writes beside the next try. `accidents` counts lost answers,
stalls and overtaken notes.

### OnlineGiving and RecurringGiving

`OnlineGiving`: `gift` is the `transactions` row with the number of its receipt,
`page` and `event` the gateway (external). `InitializePayment`, `GatewayOpens`,
`MarkFailed` open a payment; `VerifyPayment` (browser) and `HandleWebhook`, then
`AskGateway`, `Confirm`, `WriteFailed` settle it; `RecordCash` and `InsertCash` are
gifts in cash. `ChargeRecurring` and `InsertRecurring` are the row that
`processRecurringCharge` stores for a charge (`giving.service.ts:1775-1797`).
`NextNumber` is the count plus one. Two things about the count
are easy to miss. A recurring charge is stored under its fund, with a number, also
when it was refused, so it takes a place in the fund's count; but the number itself
is drawn for a category named "Recurring", which a church is taken not to have, so it is
always 1 and of another series (`series = None`). Hence the numbers of a fund have gaps where
recurring charges lie, and recurring charges all have the same number, without any
overlap. And the count is of the rows created in a year, while a gift may be confirmed
in the next, or confirmed a second time (after a late failure, or a refused recurring
charge that is paid later), and so not add to it. A number is `contested` (history)
when two requests have drawn it at once or a request has drawn it for such a gift.
`RecurringGiving`: `schedule` is the row, `job` the jobs by
schedule and date, `charged` the card. `DispatchRecurringCharges` and `AddJob` are
the night, `TakeJob`, `ChargeAuthorization`, `RecordCharge`, `NextCharge`, `Strike`
the charge, which writes back the row it read before; `early` and `faults` are
history.

### AttendanceSessions, AssetRegister, FormSubmissions

`AttendanceSessions`: one service on one date, with a session per branch.
`RecordAttendance` and its bulk form take the check-ins, `FindSession` looks for the
session, `CheckIn` stores; `RecordSession`, `InsertSession`, `AttachDetails` store the
head count and take over what is there. Who may look, and what is taken over, depends
on the branch: a check-in of a service of one branch looks for that branch's session;
of a service for the whole church it looks for the session of whoever records it, and
the headquarters, who have no branch, find none (`LookedFor`,
`attendance-session-links.ts:15-16`). A session of a service for the whole church takes
over only the people of its own branch, and so no visitor who only left a name
(`Takes`, `attendance-sessions.service.ts:329-336`). Such check-ins stay loose without
any race, which is what the code means by unassigned details; `LooseFollowRaces` is
about the others, those that looked for a session whose `AttachDetails` would have
taken them. Services stand for events, departments and cell groups too, which use the
same functions (the headquarters' look-up for an event falls back on the same branch).
People do not change their branch. `UpdateService` moves a service to another branch
without what was recorded of it.

`AssetRegister`: `CreateLoan` and `Lend`, `ReturnLoan`, `TakeBack` and `SetStatus` are
each one handler cut at its awaits. A return sets the asset "active" whatever it was:
lent out by another open loan, or disposed. A booking is cut at each of its
four awaits: `CreateDepreciation` reads the asset and its newest entry, `LookUp` takes
the year from the clock and looks for its entry, `Book` inserts, `SetValue` writes the
asset. `NewYear` may come between any two. Then a booking that read the asset last year
may insert this year's entry from what the year before closed at, beside a late booking
of last year, and the ledger is torn: `late` (history) marks an entry whose year is not
the one its asset was read in, and `LedgerIsContinuous` excepts it and its neighbours.
`Opening` and `DepreciationAmount` are the arithmetic of the ledger, in whole numbers.

`FormSubmissions`: three ways in, of which the device's
(`SubmitOffline`, `Commit`) holds an advisory lock and the other two
(`SubmitForm`, `SubmitByPublicToken`, `Insert`) do not; `UpdateForm` and `EditForm`
are the conditional write of an edit.

### MCRegisters and MCServices: several modules in one run

Components that share no row are checked in one run each for the registers and for
the services: a variable `part`, chosen in `Init`, says whose behaviour this one
is, and the variables of the others stand still. The state space is the sum of the
parts' spaces, not their product, so nothing is lost by it; only `req` is shared,
and only one part moves it. The asset register is two parts, `loans` and `values`:
nothing that decides a loan reads the ledger or the year, nor the other way round, so a
claim about either is decided with the other left out. Both share categories, assets and
their status. The parts take their values from the same few names
(`x`, `y`), which makes one symmetry serve all of them. Properties are joined by
what they are about: a run's property is the conjunction of the claims of one
component.

## 4. What the runs check

| Run | Instance | Shows |
|---|---|---|
| `billing_races` | 2 attempts, 2 reconciliations, 2 plans, a scheduled change, 3 ticks | `OnePending`, `SuccessWasCharged`, `OneAppliedPerBase`, `ConfirmationsAreTrue`, `SuccessIsFinal`, `AccessNeverReduced`, and `KeepsPromise` (refinement of `PaidAccess`) |
| `billing_recovery` | 2 attempts, the recovery worker only | `ChargedIsRecorded` (liveness) |
| `email_leases` | 1 message, 3 runs, lease 3, window 6, 9 ticks | `OneSender`, `SentWasAccepted`, `NoDuplicateDelivery`, `RetriesStop`, `SettledIsFinal`, `FirstAttemptFixed` |
| `email_recovery` | 2 messages, the timer only, page 1 | `DueIsTaken` (liveness) |
| `payment_recovery` | 5 payments, pages of 2, 1 restart | `PassCovers`, `EveryCandidateVisited` (liveness) |
| `offline_sync` | 2 mutations, 1 record, 2 transactions, 3 requests, 3 ticks, 1 failure | `AppliedOnce`, `NoLostUpdate`, `AnswersAreTrue` |
| `event_tickets` | 1 member, 2 registrations, 2 requests, 1 death | `TypeOK`, `TicketWasCharged`, `AdmissionsAgree`, `CancelledStaysOut`, `AnsweredHasTicket` |
| `registers` | 2 requests; 1 asset, 2 loans, 1 change of year; 3 submissions, 2 users, limit 1; 2 members, 1 branch, 2 staff, 2 plans; 2 people of a branch and a visitor | `TypeOK`, `RegisterAgrees`, `LimitsHold`, `LooseFollowRaces`, `GrowsWithinPlan` |
| `services` | 2 requests; 2 sessions, 1 recovery code, 2 sets; 2 processes, 3 writes; 2 permissions; 1 device, 2 records, 2 changes; 2 recipients, 3 tries, 2 mishaps; 1 delivery, 3 tries, 2 accidents; 2 gifts, 1 fund; 1 schedule, 4 days, 1 fault | `TypeOK`, `FactorHolds`, `AnsweredWritesAreSeen`, `StaleFollowsRaces`, `FeedReaches`, `AudienceIsServed`, `CancelStands`, `ShownFollowsAccidents`, `GiftsAgree`, `EarlyChargesAreFaults` |
| `broadcast_scheduled` | 1 recipient, no mishap | a disagreement between the developer guide and the code (section 7) |
| `recurring_cancelled` | 1 schedule, no fault | a disagreement between a controller's description and the code (section 7) |
| `sync_skipped` | 1 device, 1 record, 2 transactions | a disagreement between a comment and the code (section 7) |

The type invariants of billing, outbox, recovery and offline mutations are proved
(section 5) and not checked again; those of the other modules are checked in
`event_tickets`, `registers` and `services`.

What the joined properties say: `RegisterAgrees` is `LoansFollowRaces` (open loans
of one asset never exceed the requests at once) and `LedgerIsContinuous` (a year opens
with what the last one closed at, unless the year changed during one of the two
bookings);
`LimitsHold` is `DevicesAreSerialised` and `LimitFollowsRaces`; `FactorHolds` is
`CodesAreSpentOnce` and `AcceptedHaveAnswered`; `FeedReaches` is `DevicesConverge`
and `MutationsApplyOnce`; `AudienceIsServed` is `MessagesFollowMishaps` and
`SentLeavesNobodyOut`; `GiftsAgree` is `ReceiptsArePaid`, `PaidIsNotWrittenOff` and
`RepeatsAreContested` (a number of a fund is given twice, or exceeds the count, only if
it was contested). Several bound what races may do by what caused it: the code checks
without a lock, so a limit may be passed, but only by the requests that overlapped,
and a message sent twice, a card charged early or a delivery shown wrong is due to a
fault of its own. A change that lets the damage outgrow its cause is what these
properties find.

Bounds. Two attempts and two plans are what a purchase, an upgrade and a late
success of the attempt before it need; two runs of `reconcilePayment` are enough for
a stale read and the settlement that makes it stale, and with two a third adds no
order of two settlements of one row that is not there already. Three ticks let a
quote, a grace period, a month and an upgraded month run out. In the outbox,
three runs are a holder whose lease expires, its successor, and one with an
older copy; nine ticks let the window of six outlast two leases of three. Two
messages and a page of one make the retry timer leave a message behind. Five
payments and pages of two give a full page, a last page that is not full, and
one that is exactly full. Two mutations of one record, of which one is sent with two
contents, are two devices and a rebound id; mutations of different records
share nothing. Two registrations of one member are one that is cancelled and the
next; two requests are a reader and the writer it misses.

In `registers` and `services` two requests at once are the reader and the writer, or
the two that pass one check. Beside them the bounds are: two loans of one
asset are the two that pass one check; a year and the one before it make a
ledger of two entries, with the bookings that overlap the change; a limit of one is passed by the second of two requests; two
plans, of which one is smaller, are an upgrade and a downgrade below the count; three
people are two of the branch and a visitor who only left a name, whom no session of a
service for the whole church takes over, and a batch of one is passed by two requests;
larger batches and more branches are left to the proof. `MaxRevision = 1` is one enrolment with
its removal: enrolments replaced by another are covered by the proof, which has no
bound. Two sets of recovery codes are a regeneration; two time steps and the tolerance
of one are a code that comes back after an older one. Three writes are one that is
read, one that overtakes the reader and one whose version is set in between; two
changes are one behind a cursor and the one that moved it, and two records make the
one that moved it another's (see section 5); the three
tries and two mishaps exhaust a job with an overlap in it; two gifts of one fund are
two numbers, or a number and the place a recurring charge takes; an interval of two in four days is two due dates with a night between them. `MaxWrites`,
`MaxChanges`, `MaxVersion`, `LastTick`, `LastDay`, `LastYear`, `LastGivingYear`,
`LastStep`, `MaxSet`, `MaxRevision`, `MaxMishaps`, `MaxAccidents`, `MaxFaults`,
`MaxDeaths`, `MaxQuotes`, `MaxNow` and `MaxCrashes` bound counters that have no bound
in the code; `Spare` lets a transaction of the feed begin only while a number is left
for its row, as its namesake does for registrations.

The runs set `CHECK_DEADLOCK FALSE` where a clock or a supply of names is
bounded: the model stops there, the system does not.

Symmetry is used in safety runs only: over payment references, messages,
mutations, transactions, members, sessions and requests that the modules do not
order and treat alike.

Fairness.
* `RecoveryFairness`: the worker runs every two minutes (`@Cron('0 */2 * * * *')`)
  and rotates through all candidates, which is what `payment_recovery` shows; a
  run may die anywhere, but not at the same point for ever, hence strong
  fairness of its steps. The provider is not required to be fair: money that is
  reversed, and a payment that outlives the seven days, are the exceptions
  `ChargedIsRecorded` names.
* `RetryFairness`: the timer runs every minute (`@Cron('15 * * * * *')`) in
  every worker process; again not every scan dies at the same point. No
  fairness is assumed of requests, providers, or the clock.
* `PaymentRecovery`: weak fairness of the timer and of its loop. The loop ends
  because each provider call has a 15 s abort signal. Restarts are bounded
  (`MaxCrashes`): a worker that restarts in every pass never gets to the end.
* `BroadcastFairSpec`, for the disagreement of `broadcast_scheduled` only: handlers
  go on, a waiting job is taken, time passes. Under all of this the scheduled
  broadcast is still not sent.
* `FairSpec` of `OfflineSync`, for `OfflineRetries.cfg` only: a device repeats what
  has no answer (strong fairness of `Begin`, since the lock comes and goes) and a
  transaction runs to its end.
* The other modules assume none: their properties are of safety.
  `AnsweredHasTicket` says that the provider, which repeats a callback until it is
  answered, is answered only when the charge has its ticket.

Mutants. The `Slip...` operators beside a definition are plausible bugs of it
(a dropped guard, a stale value, a swapped order); under the run's own
configuration each makes the property it belongs to fail.

## 5. What is proved

With tlapm, for every value of the constants that satisfies the named
assumptions of the modules: every invariant and every action property of the runs.

| Module | Theorems |
|---|---|
| `SubscriptionBillingProofs` | `TypeCorrect`, `OnePendingHolds`, `SuccessWasChargedHolds`, `OneAppliedPerBaseHolds`, `ConfirmationsAreTrueHolds`, `AccessNeverReducedHolds`, `SuccessIsFinalHolds`, and the refinement `LedgerKeepsPromise` |
| `CompanyEmailProofs` | `TypeCorrect`, `MailCorrect`, `OneSenderHolds`, `NoDuplicateDeliveryHolds`, `RetriesStopHolds`, `SentWasAcceptedHolds`, `FirstAttemptFixedHolds`, `SettledIsFinalHolds` |
| `PaymentRecoveryProofs` | `RecoveryCorrect`, `PassCoversHolds` |
| `OfflineSyncProofs` | `TypeCorrect`, `OfflineCorrect`, `AppliedOnceHolds`, `NoLostUpdateHolds`, `AnswersAreTrueHolds` |
| `EventTicketsProofs` | `TicketCorrect`, `TypeCorrect`, `TicketWasChargedHolds`, `AdmissionsAgreeHolds`, `CancelledStaysOutHolds`, `AnsweredHasTicketHolds` |
| `RegisterProofs` | `GrowsWithinPlanHolds`, `LooseFollowRacesHolds`, `LimitsHoldHolds`, `RegisterAgreesHolds`, `RegistersTyped` |
| `AccessProofs` | `FactorAlwaysHolds`, `AnsweredWritesAreSeenHolds`, `StaleFollowsRacesHolds`, `FeedReachesHolds` |
| `DeliveryProofs` | `CancelStandsHolds`, `AudienceIsServedHolds`, `ShownFollowsAccidentsHolds`, `GiftsAgreeHolds`, `EarlyChargesAreFaultsHolds`, `ServicesTyped` |

The assumptions say that bounds and limits are numbers, that what is counted is
finite (requests at once, rows, people), that no name stands for two kinds of row, and
that `None` is none of them. Two say more: `TimingAssumption` and `BillingAssumption`,
see below.

The argument for the ledger (`LedgerInv`). `OneAppliedPerBase` is not inductive:
it needs that an applied payment moved the subscription strictly past the state
it was priced against, in the order of (end of period, rank of plan), and that
nothing moves it back (`AppliedIsPast`); for upgrades that needs the rank of
what was quoted (`QuotesSound`, `OrdersSound`). `SuccessWasCharged` needs that a
positive answer in hand stays true while it waits for the lock
(`AnswersAreTrue`), which the provider guarantees: a charge can be reversed but
not undone. `OutcomeFollowsStatus` ties the two columns the claim writes
together and makes "accounted for once" a fact about `outcome`. For the
confirmations, `WelcomeInv` says that every period bought lies before the paid date
and that a church whose paid date is set has an applied payment that bought a period.
A settlement begins at the paid date or later; so what it buys is the first period
exactly when nothing was paid before, which is what the code asks, and a later
settlement never comes before an earlier one. A confirmation may be missing, and
nothing is said of a payment without one.

The argument for the outbox (`MailInv`). The claim's `WHERE` clause compares
neither the attempt count nor the date of the first attempt, both of which the
code then writes or uses from the copy it read. That is safe only because an
attempt that the copy missed left a lease or a delay behind that outlasts the
copy (`OutdatedIsBlocked`, from `StepsInTime`), or closed the row. So who
waits for the provider holds the lease, and it outlasts the wait
(`SendersHoldLease`), tokens of two attempts differ (`TokensDiffer`), and every
request leaves and arrives inside the life of the key (`KeysFollowFirst`,
`LateInWindow`).

`TimingAssumption` is where these claims depend on numbers. In the code: lease
120 s against 15 s of provider call plus one database answer, 30 s of least
backoff against one database answer, 23 h of retries against 24 h of key life.
The wait for a database answer is an assumption: a connection is opened within
15 s (`prisma/pool-config.ts`), but no statement has a time limit, and hosts are assumed to share a clock;
with a stall of two minutes at the wrong place two runs may send at once, and
only the provider's key protects the recipient.

The argument for the scan: what a pass still owes lies in the current page or
behind the cursor (`OwedIsAhead`).

The argument for offline mutations (`OfflineInv`). The advisory lock has one
holder and a holder's mutation has no receipt (`OneHolder`, `RunOK`), so an
effect, which always commits with its receipt, is the first of its mutation
(`ReceiptsTell`). A version never comes back with other content: every write
raises it, and a row that was purged left a version in the past
(`VersionsGrow`). Hence an update whose base is the version of the row that was
read, and whose write found that version again, met the content its device
knew, whatever was committed between the two statements.

The argument for the plan (`PlanInv`). A transaction that adds holds the church's
row from its count to its commit (`LockIsHeld`), and what happens meanwhile only
makes room: nothing that grows runs without the lock, and a plan changes only
under it. So the room it counted is still there (`RoomIsKept`).

The argument for events (`TicketInv`). Between two awaits a request knows little of the
rows it works on, and `Knows` says what, place by place: who is about to link a ticket
has stored one, who is about to settle has the provider's answer. None of it is
undone, because rows only move forward (`Forward`). The page of a registration
is opened by the request that stored it and no other (`OneOpener`), so a charge, once
made, stays; a ticket that was sold comes only from a step that has asked the provider.
For admissions (`AdmissionsAgree`), a ticket is used and its attendance written in one
transaction, and who will mark a registration as checked in has found its member
inside (`Knows`).

The arguments for the other registers. For attendance (`AttendanceInv`): a session
is of one branch, and once it has taken over its details, a check-in that looked for it
and that it would have taken comes in loose only if its request looked before the
session was stored; whatever such a request still has to store is counted in `Late`,
and storing it trades one place for the other. For forms (`FormInv`): the device that
holds the lock will still
find what it found (`HolderIsClear`), since only devices add to what devices
count; every other request that found the limit unreached is counted beside the
answers, and trades its place for the one it stores. For assets (`AssetInv`): the same
trade for loans (`LoansAreCounted`). For the ledger, who has read the asset this year
has read what its last entry closed at, and it still is the last unless this year
was booked meanwhile, in which case the key refuses a second entry (`BookersAgree`).
If the year has changed since, the entry is marked late when it is inserted; and an
entry of last year that comes after one of this year was read last year, so it or
the other is late.

The argument for the second factor (`AuthInv`). The revision of an enrolment that
is not yet written is known to it alone (`NewRevisionsAreUnknown`), so whoever is
accepted under the revision in force answered under it (`ApprovalsWereAnswered`).
The codes spent of the enrolment in force are those its row refuses: time steps up
to the last, recovery codes struck out, and those of sets replaced before
(`SpentAreRefused`). The writes compare exactly what makes this so; a bug that
drops one of the comparisons is a mutant.

The argument for the caches (`CacheInv`, `PermissionInv`). A version is used once:
nothing is stored under one that is not issued yet (`NewVersionsAreEmpty`), so a late
store under the current version has read what was answered by then
(`LateStoresAreRecent`). For permissions, whatever changes the rows marks every
request that has read them and not stored its answer (`ReadsAreCurrent`), and a
role gets its kind once.

The argument for the feed (`FeedInv`). Of a record whose changes came in their
order the last row that is kept tells whether the record is there (`LastTells`). A
device agrees with the server on it, or a row of it is still coming
(`ComingOrThere`): after the device's cursor, and also after the one that is kept for
it, since the device may have to fall back on that. A page whose row
is hydrated with a later state is put right by the row of that later state. The
attempt to prove `FeedReaches` corrected the model: with one record, a change committed
behind the kept cursor is stamped before another change of the same record, which is an
exception anyway, and TLC had nothing to object. With two, the page of one record moves
the kept cursor, a slow transaction of the other commits behind it, and a device that
falls back on the kept cursor never pulls that row.
The exception (`skipped`) now names the kept cursor beside the device's own, and the
run has two records.

The argument for broadcasts. That a settled cancellation is final
(`CancelledInv`) is a matter of who may still write the status. That nobody gets
more messages than one and the mishaps (`AudienceInv`) needs a count: whoever may
still send a recipient a message - a run that has the recipient on its list or will
list it, or the job that waits for a run - is counted beside the messages sent
(`SendersFollowMishaps`). The job is handed to a run and back one for one, a
message uses its sender up, and only a mishap makes two of one. It starts from
nobody: until the job is added there is no run and no message
(`CreationIsFirst`). Nobody is left out since a run has every pending recipient on
its list (`PendingAreListed`).

The argument for webhooks (`WebhookInv`). As for broadcasts, with posts: those the
endpoint accepted, the runs under way and the job that waits are never more than one
and the accidents (`PostsFollowAccidents`). Until a delivery is queued nothing runs on
it (`MadeFirst`); without an accident one run holds the job from its beginning to its
end (`JobIsHeld`), so what was accepted is noted before the job is over
(`NothingIsLost`).

The argument for gifts (`GivingInv`). A page is opened by one request
(`OneOpens`) and what is paid stays paid, so what the gateway said of a gift
remains true while the request goes on with it (`GiftOK`). For the
numbers (`NumbersInv`): nothing ever leaves the count, so a number that was drawn is at
most one more than the count of its fund and year, and stays so (`DrawnOK`). If
it is not contested, its gift adds to the count, so when it is written it is within
the count, which no number drawn later is; and what was drawn before by another would
have been contested (`ReceiptOK`).

The argument for recurring charges (`RecurringInv`) is a balance (`FaultsPay`). On one
side: the early charges so far, the jobs that may still charge, and the schedules that
fell due again before their interval had passed. On the other: the faults, and one for
every schedule whose pending charge is in its time. A charge in its time pays
for itself, an early one was paid for when its job was doubled or its schedule fell due
again, and whoever doubles or loses something adds a fault. At most one job runs at a
time (`OneAtATime`).

Types (`TypeCorrect`, `RegistersTyped`, `ServicesTyped`). Where a number is bounded the
bound needs an argument of its own: a job that waits has a try left, a version that was
issued has a write that ended, a factor in force has a set of codes.

Only model-checked: liveness (`ChargedIsRecorded`, `DueIsTaken`,
`EveryCandidateVisited`), which the prover does not do, and the disagreements of
section 7, which are counterexamples. What `DepreciationAmount` sums up to over the
years of an asset is left to neither: `LedgerIsContinuous` says that years join.

## 6. What is not modelled

The components marked `not_modelled` in `PROJECT.json`: the rate limiter (windows
and an in-memory fallback: no business state depends on it), adapters of gateways
and messages (their answers are the environment of the modules), and record
keeping, text, media and reports, which have no state shared between concurrent
steps beyond one row. They are the larger part of the source by its lines: queries,
data transfer objects, validation, documentation and templates.

Inside the modelled components: amounts, currencies and exchange rates,
authorisation, e-mail contents, the calendar; of events, visitors, series,
quantities above one ticket, and the editing of events and tiers; of giving,
pledges, reports and the editing of transactions; of the second factor, wrong
codes and the limits on attempts, and the migration of older factors; of the
feed, scopes and the fields of a change; of assets, maintenance and documents; of
forms, the validation of values. The signature check of the provider callback is
not modelled: every caller may ask for any payment, as in the code.

## 7. Findings

With a run each:

* `developer-guide.content.ts:1159` says that a scheduled broadcast is sent at its
  time. `create` queues a job only for one that is sent at once, and nothing
  selects those that fall due (`ScheduledIsSent` is violated, under fairness of
  everything the code runs).
* `giving.controller.ts:445` says of the cancellation of a recurring gift that no
  further charge is made. `processRecurringCharge` writes `is_active` from the row
  it read before it waited for the provider, so a cancellation in between is
  undone, and the card charged again (`CancelledIsNotCharged` is violated).
* `sync.service.ts:370` says that a client with its own cursor skips no change.
  Rows are paged by the start of their transaction and visible from its commit
  (`NothingIsSkipped` is violated).

Reproduced by the modules, with a configuration that shows it beside the runs
(`tlc -config <file> <MC module>` ends with the counterexample):

* `billing.service.ts:282` promises "one payable attempt per church". The code
  keeps one *pending* attempt. A declined try frees the slot although its page
  still takes money (`OnePayable`, `SubscriptionOnePayable.cfg`); access is bought
  once, the other payment ends in review.
* `docs/OFFLINE-WORKSPACE.md:11` says that `retry` indicates a temporary failure.
  A creation whose id belongs to an archived row finds no `existing` row and fails
  on the primary key; that is no `HttpException`, no receipt is written, and every
  try is answered `retry` (`RetriesEnd`, `OfflineRetries.cfg`).
* `events.service.ts:994` says that registration fails at capacity. The count is
  read with the event and the row is inserted after several awaits, so the
  last place is given twice (`CapacityKept`, `EventCapacity.cfg`).
* `giving.service.ts:710` says that a payment in a terminal state is skipped. The
  state is the one read before the provider was asked, so a failure overwrites a
  success the browser has booked meanwhile (`SettledPaymentIsFinal`,
  `EventSettled.cfg`).

Seen in the modelled code while writing the modules, reproduced by them, but
without a configuration of its own:

* `billing.service.ts:333`: the second `calculateQuote` under the church lock is
  called for its checks and its result dropped, so an upgrade quoted before the
  lapse is sold after it; its payment ends in review (`OneAppliedPerBase`).
* `events.service.ts:1875`: a cancellation cancels the ticket it saw; a
  confirmation that commits between its read and its delete leaves a paid
  ticket without a registration. It admits nobody (`CancelledStaysOut`).
* `giving.service.ts:711`: after a declined try was recorded, the success of the
  next try on the same page is skipped and the registration stays pending; the
  exception of `AnsweredHasTicket`. A gift that was confirmed may likewise be
  overwritten by a late failure; the exception of `PaidIsNotWrittenOff`.
* `events.service.ts:1193`: when the provider refuses the page, the pending
  registration stays and blocks the next one until it is cancelled.
* `services/receipt.service.ts:206` calls the number unique; it is a count plus one
  (`giving.service.ts:2139`), and two confirmations at once draw the same; so do gifts
  confirmed twice or in the year after they were created. The exceptions of
  `RepeatsAreContested`.
* `giving.service.ts:1775`: the receipts of recurring charges are numbered for a
  category named "Recurring", so where a church has none of that name they are all
  number 1 of their year; they are stored under the real category, refused ones too, so the numbers of
  that category skip one for each.
* `assets.service.ts:1061`: the asset is read before the year is taken from the clock.
  Bookings of one asset around New Year may leave a ledger whose years do not join, the
  exception of `LedgerIsContinuous`.
* `assets.service.ts:1322`: a return makes an asset active that has another open
  loan, or that was disposed of while it was out.
* `attendance-session-links.ts:15`: what the headquarters record of a service for the
  whole church never finds the session of a branch, whenever it was stored.
* `broadcast.service.ts:143` queues the job before it sets the status, and the
  worker sets the status without looking at it again: a cancellation in between is
  overwritten, and `sent` may become `sending`. The exception of `CancelStands`.
* `webhooks.service.ts:207`: a delivery row whose job could not be queued is never
  picked up; the note of a failed try may land after the success of the next.
  A deactivated subscription has no way back.
* `entitlements.ts:74`: between the commit of the profile and the release of its
  reservation the address is in both tables; the trigger leaves the row's own
  reservation out of its count, but another insert counts the seat twice and may
  be refused although there is room.
* `cache.interceptor.ts:156` says that stale data can never be served. A write
  whose version Redis refuses leaves the old answers valid until they expire; the
  reason why `AnsweredWritesAreSeen` speaks of answers given with the version set.

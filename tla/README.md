# Plenna API: specifications, model checking and proofs

TLA+ specifications of the stateful core of this repository (its books, charges,
jobs, queues, sign-in and migrations), the TLC configurations that check them on
small instances, and proofs of central results for every instance. Paths are relative to `src/` inside the repository
(`modules/...`); `PROJECT.json` maps every definition to the lines it models.

## 1. The system

Plenna API is a multi-tenant NestJS back end over MySQL 8 (InnoDB, REPEATABLE
READ, pooled connections), with Redis and two BullMQ workers. An HTTP request or
a job runs one asynchronous call chain; every `await` is a point where other
requests, in this process or another, run. The only coordination is MySQL's: row
locks, unique keys and transactions (`MySQLDatabase.transaction`, whose
connection travels in an `AsyncLocalStorage`).

| Component | State | Operations | Hard behaviour |
|---|---|---|---|
| Financial event chain (`Finance/core/financial-events`) | `financial_events` | `register`: last event FOR UPDATE, number, hash, INSERT | first event has nothing to lock; blocked reads; ids out of commit order |
| Ledger engine (`Finance/core/ledger`) | `ledger_event_processing`, `ledger_entries` | `process`: mark, build, save two entries | failure between statements |
| Transfers | `transfer` | `create` registers two events; `revertTransfer` | second event fails |
| Payments | `payment`, status of an entity | `registerPayment`, `deletePayment` | check before the transaction; sums over concurrent rows; row data taken from the client as sent |
| Expenses, revenues | `expense`, `revenue` | create a series, edit one row or the series, delete, status | edits overwrite status, outside any transaction; deletion against payment |
| Invoices | `invoices`, `expense.idInvoice` | associate, create the next one, status | two creations of the next invoice; errors swallowed inside a transaction |
| Charges (`billing/charges`) | `charges`, `charges_processing`, `charges_events`, `revenue.status` | create, processing, awaiting, paid, cancel, expire, refund, failed | validation without a lock; three tables and the chain kept in step; lock order |
| Ledger snapshots | `ledger_snapshots` | daily job per account | reads spread over several statements |
| Ledger monthly build | `ledger_monthly_builds` | build, close previous period, schedule | 16 parallel reads; month turn |
| Appointments | BullMQ schedulers, in-memory map, settings | schedule, unschedule, execute | clear and add; restart; several processes |
| Authentication, users | `refresh_token`, `user`, Redis counters and reset tokens | login, refresh, revoke, reset, rate limit; create, update, delete a user | delete and insert; a refresh during a logout; a whole row written back |
| Migrations | `migrations` table, schema | before-deploy, execute, status | DDL commits; two instances |
| Tenant modules and cache | `client_modules`, `user_modules`, Redis | save, read through cache | stale fill after invalidation |
| E-mail queue | BullMQ jobs | enqueue, send, retry | at-least-once; locks that run out |
| The rest | | read-only dashboards and reports, CRUD, gateway stub | none of its own |

How they interact. Payments, transfers, expenses, revenues and charges all call
`FinancialEventsService.register` inside their own transaction; `register` calls
the `LedgerEngine`. So the row lock on a tenant's last event orders all
money-moving requests of the tenant, and code that runs after `register` leans
on that. Snapshots and monthly builds read what those transactions commit, when
the appointments queue makes them. Charges and payments both write the status of
a revenue. The reset of a password and the appointment of upcoming expenses put
mails into the e-mail queue.

What makes each correct: the chain is one hash chain without gaps, each event
balanced and each request all or nothing; a stored status is what the payments
imply, and the ledger what they add up to; a snapshot is the balance at its
event; a charge's status, history, events and revenue agree; a closed month
stays closed and the open one catches up with the books; two invoices of a card
never fall due on one day; an appointment has one scheduler; a mail is sent, and
again only for a reason; a session ends with its logout and a reset token is
used once; a migration that counts as applied was applied.

## 2. Modules

| Module | Models | State and actions |
|---|---|---|
| `LedgerRules` | `ledger.resolver.ts`, the enums | pure operators: amounts, signs and liquidity of the two entries of an event |
| `EventLog` | what the chain promises | one append-only log per tenant; a request appends all its events at once |
| `EventChain` | `register`, `LedgerEngine`, `MySQLDatabase.transaction` | one variable per table, one `pc` per transaction; every await is an action (`LockLastEvent`, `TakeId`, `WriteEvent`, `MarkProcessed`, `SaveOrigin`, ...); implements `EventLog` |
| `Payments` | payment, reversal, status, edit and deletion of entities | committed tables, plus what a transaction has written (`row`, `posted`, `written`) until `Commit`; `SaveReposted` is a payment with an id or a reversal date from the client; `register` is two steps, `AskTip` (the gap above the tip of the chain is locked) and `Register` |
| `Charges` | the life of a charge, and the other writers of its revenue's status | committed `status` and `revenue`, tables as sets of rows (`history` with its ids), locks in `held`; `register` is `AskTip` and `Register` here too, and locks the row `LastEvent`; `ByHand` are payment, edit and deletion of the revenue |
| `LedgerSnapshots` | the snapshot job of one account | each read of the job is an action; `Post` commits an event |
| `Obligations` | creation and edits of expenses and revenues, invoices of a card, transfers | tables of one tenant; a creation keeps a `draft` until `Commit`; an edit commits row by row (`SaveItem`); `Associate`, `CreateInvoice`, `PlaceOnFound`, `PlaceOnCreated` are the loop that places expenses on invoices; `SearchInvoice` and `PostInvoice` are `POST /invoices/create` |
| `MonthlyBuild` | `LedgerMonthlyBuildService` | one action per aggregate read, closing, upsert; the nightly job and the requested rebuild; `Tick` turns the month |
| `Appointments` | `AppointmentsQueueService`, its callers, initializers | BullMQ schedulers in `queue`, the `memory` of two processes, `settings`; clear, add and upsert are separate awaits; `Crash` restarts both processes |
| `EmailQueue` | enqueue, worker, mailer | one record per job; `Take`, `Send`, `Finish`, `Retry`, `Stall`, deaths; lock times from the environment |
| `Sessions` | guards, `AuthService`, `ResetPasswordService`, `UsersService` | Redis (`hits`, `expiring`, `key`), tables `user` and `rows`, the static list `ignored`; one action per await |
| `SchemaHistory` | the 21 classes of `migrations/versions` | data: what each statement needs, adds and removes |
| `Migrations` | runner, repository, CLI, entrypoint | `registry`, schema `db`; `pc` per container; a statement per step, transactions in `work`, `ImplicitCommit` before a DDL statement |
| `LedgerJobs_proofs` | `LedgerSnapshots`, `MonthlyBuild` and `Obligations` | their inductive invariants, lemmas and theorems |
| `..._proofs` | the module before the underscore | its inductive invariants, lemmas and theorems |
| `MC...` | instances for TLC | constants, symmetry |

How the modules compose. `MonthlyBuild` EXTENDS `Obligations`: its `Next` is the
jobs of the build together with every action of the requests whose books it
reads. `Migrations` EXTENDS `SchemaHistory`. `EventChain` and `Obligations` EXTEND
`LedgerRules`. `Payments`, `Charges`, `Obligations` and `LedgerSnapshots` do not
repeat the interior of `register`. They use two results about it that are proved
for every instance: `OneWriter` (between its insert and its end a transaction is
the only one of its tenant past that point, which `Payments`, `Charges` and
`Obligations` model as a lock on the tip of the chain) and `CommitsBehind`
(events become visible in the order of their ids, the guard of `Post` in
`LedgerSnapshots`).

How MySQL is modelled, as the code uses it:

* A plain SELECT in a transaction reads from a view fixed at the transaction's
  first plain SELECT; a locking read or UPDATE acts on the latest row. In
  `Payments` the view is taken when `register` has returned (`seen`), because
  the first plain SELECT of a payment comes after its FOR UPDATE; in
  `Obligations` likewise for the invoices a creation sees.
* `SELECT ... ORDER BY sequenceNumber DESC LIMIT 1 FOR UPDATE` that blocks on a
  row returns that row when it is granted, even when a newer one exists by
  then (`GrantLock`), or scans again (`Rescan`): both are allowed.
* The same SELECT reads the index downwards and locks the gap above the tip
  before it waits for the tip, and an INSERT of an event waits for everybody who
  has that gap. So two transactions that both wait for the tip lock each other
  out as soon as one of them is granted it. `Payments` and `Charges`, which say
  what cycles of lock waits there are, have these locks: the state `tip` is a
  transaction with the gap, and `Register` needs that nobody else is there.
  `EventChain` leaves them out. They could only block there, or end a request as
  a victim, which `Fail` may do anywhere; its properties speak of no lock cycle,
  and a cycle at the gap ends with a victim, as its liveness assumes.
* `save` of a row whose id the client sent is an UPDATE of all columns where the
  id is that one, of no row if there is none (`OverwritePayment`).
* AUTO_INCREMENT hands out an id before the insert checks keys, and never again.
* Any await may throw (`Fail`); ROLLBACK removes what the transaction wrote.
  A cycle of lock waits ends with one member of a minimal cycle rolled back.
* A DDL statement commits what was open and takes effect at once, and what
  follows it in its version is outside any transaction (`Migrations`; no version
  of today is transactional, the instance and the proofs allow it).

How BullMQ and Redis are modelled, as the code uses them: a scheduler is found by
its key and replaced by `upsertJobScheduler`; a worker's lock on a job is renewed
while the worker lives and the renewal comes before the lock runs out; a job
whose lock ran out is handed out again, at most `MaxStalled` times; INCR is
atomic, EXPIRE is another call; GETDEL reads and deletes in one.

Data is abstract: amounts are small integers, a hash is the content it was
computed from, a password is named after the request that set it, dates are days
in months of equal length, texts are left out.

## 3. Runs

| Run | Question | Instance and why it is enough |
|---|---|---|
| `chain_safety` | Is the chain intact, balanced and atomic, with one writer, and does it implement `EventLog`? | 3 requests, 2 tenants, requests of one or two events, one of which fails half way for the tenant without account 1. Two requests race for the first event, the third meets their commit or rollback |
| `chain_liveness` | Does every request end? | 3 requests of 1 tenant, so that two wait for the third |
| `payments_status` | Do status and ledger follow the payments? | 4 requests, an expense and a revenue of value 2, payments of 2 and -1, reversals of 1 and 2, each of any payment of the tenant and booked on either entity: partial, full, over-paid and reversed all occur |
| `payments_all` | Are reversals marked, which deadlocks exist, does everything end? | 3 requests of every kind, payments with an id or a reversal date from the client included, on two installments and an invoice |
| `payments_reversed_twice` | see the finding | 3 requests on one expense |
| `snapshots` | Does a snapshot miss an event? | 2 overlapping jobs, ids up to 3 with gaps, threshold 2 instead of 50 |
| `charges` | Do charge, history, events and revenue agree, which deadlocks exist? | 4 requests of any kind, 2 revenues created pending or paid, one with account and gateway: a charge is created and moved three times, or a creation races with others and with writers by hand |
| `migrations` | Is what counts as applied applied, do the classes fit in their order? | all 21 versions and one more that is transactional and has a DDL statement among its inserts, 2 containers started 3 times in all: they overlap, and one dies and comes back on what it left; 2 rows of `bank_account` to move |
| `appointments` | One scheduler per appointment, settings that agree, internal jobs that come back? | 2 requests, both processes, 1 restart at any point, one client's and one internal appointment, old and new key formats |
| `mails` | Is a mail lost, repeated without a reason, held twice? | 2 mails, 2 workers, 2 attempts instead of 5, 1 death, 3 environments: the default lock, a renewal later than the lock, a lock shorter than any renewal |
| `sessions` | End of sessions, reset tokens, passwords | 3 requests of any of 9 kinds, 2 users, limit 2 instead of 5 so that the third attempt is refused, 1 restart |
| `monthly_build` | Do invoices differ, do the rows of the months hold what they say, does the open one catch up? | 2 requests out of 6 pairs, both jobs, 2 months of 4 days, 1 failing statement, one event aggregate and the liquid balance of the 16 (they are read alike); a month with one earlier and one current build in every overlap |

The properties, in words, stand above their definitions. What each run found
holds, except the run of the finding.

Bounds. `MaxId` (`LedgerSnapshots`), `MaxMonth` and `MaxFailures` (`Obligations`),
`MaxStarts` (`Migrations`), `MaxCrashes` (`Appointments`), `MaxDeaths`
(`EmailQueue`) and `MaxRestarts` (`Sessions`) bound counters; elsewhere the number
of requests bounds everything. Requests end and nothing follows, so deadlock is
not checked where all of them may have ended; which lock cycles there are is
stated as a property (`KnownDeadlocks` of `Payments` and of `Charges`), and that
they end by `EveryRequestEnds`. Symmetry over requests, jobs or containers is used only
without liveness.

### Fairness

| Property | Assumes | Why the code justifies it |
|---|---|---|
| `EventChain!EveryRequestEnds`, `Payments!EveryRequestEnds` | weak fairness of `Progress(t)` | MySQL answers a statement that is not blocked, grants a free lock, and breaks deadlocks |
| `InternalComesBack` | weak fairness of the initializers, of the queue calls of an actor, and of the writes that follow | a process that is up gets on with what it has begun, and the container's worker starts with its initializers; no crash has to happen |
| `EveryMailEnds` | weak fairness of taking, sending and finishing of each worker, of the retry delay and the stall check | workers poll, a provider answers or times out, BullMQ's timers fire |
| `CatchesUp` | weak fairness of the jobs of the build | the nightly job recurs and its statements return; a rebuild need not be asked for |

No request has to start, none has to fail, crash or be repeated.

### Findings

`payments_reversed_twice` is a run that TLC must find violated: the check for an
earlier reversal (`payment.service.ts:62`) is outside the transaction, so one
payment may be reversed twice.

Met while modelling, and not runs of their own, since no doc or test of the
repository states the opposite in a form to check, or the point is one line:

* The Redis counter of README.md:97 does not exist; two first events of a tenant
  take number 1, and one request fails on the unique key.
* Two payments of a tenant, or any two operations that register an event, can
  deadlock at the tip of the chain, as described in section 2; one of the two
  requests fails with an error nobody retries.
* `PaymentInicialDataDTO` has no minimum: a negative amount is stored as sent,
  while the event books its magnitude the other way. A payment with an `id`
  overwrites the row of that id, whose entity and amount change, and books an
  event of its own; `reversed` and `reversal` are stored as sent. In each case
  the payment table and the ledger disagree: `CashFollowsPayments` and
  `ReversedIsMarked` say so in their conditions (`NoReposts`, `NoNegatives`).
* `deletePayment` looks its payment up by id alone: a reversal can be reversed,
  and the reversal is booked on whatever entity and amount the client names.
* The EXPIRE of a rate limit counter is a call of its own that only the first
  attempt makes. If it fails, or the API stops before it, the counter stays for
  ever and the address is refused from then on, although the answer is to try
  again in a moment. An error of Redis lets every request through, so the limit
  bounds nothing while Redis fails: no property speaks of it.
* `DeleteExpense` reads payments without a lock, and may cancel an expense that
  has just been paid. `getById` of invoices indexes a promise, so paying an
  invoice always fails.
* Entries of events that commit between the snapshot job's reads are in the
  balance of two snapshots (`NoEventMissed` is the other direction).
* The UPDATE of a charge does not repeat the condition that was validated: a
  cancel may overwrite a payment. `refund` calls the gateway before it writes. A
  failed charge stays in `charges_processing`, and its revenue can have no other.
* A revenue is created with the status the client sends, and an edit writes back
  the one its form had: either may say what no charge and no payment does.
* An edit of an expense runs outside any transaction and writes back the status
  its form was loaded with. Installments of a series can land on one invoice.
* `transfers.update` cannot be reached over HTTP; `revertTransfer` marks nothing.
* `scheduleRebuild` names its job's type 5 where the worker knows 4; the worker
  dispatches by the job's name, so it runs. A rebuild that failed keeps its job
  id, and later requests for it are ignored until it is removed. An event after
  the last build of a month never enters that month's row.
* bcrypt compares 72 bytes, which all signed refresh tokens of a user share: a
  stored token matches any of the user's.
* `JwtStrategy` gives a `userId`, `updateUser` compares `requester.id`: whoever is
  not an admin is always refused. `updateUser` adds 'password' to a static list of
  ignored columns, so that users created afterwards in that process are inserted
  without one, until a restart; bank accounts have the same pattern.
* The migrations create `charges` without the columns `gateway` and `createdAt`
  the code uses. Two containers that start together run the same statements;
  some of them cannot be repeated and fail.

## 4. Proofs

For any values of the constants that meet the named assumptions, all of which
TLC evaluates on the instances. They say that constants are numbers or lists, that
the names of one thing are not those of another, and what the code itself checks of
a request; those a reader may ask
about are `OpsAssumption` of `Payments` (the amount of a payment is any integer;
that of a reversal or an edit is at least 0, which their DTOs demand with
`@Min(0)`; a deletion has an entity to delete), `StatusesAssumption` of `Charges`
(clients send statuses of the enumeration), `SettingsAssumption` and `WorkersAssumption` of `EmailQueue` (lock
times and attempts are numbers, at least one attempt, nobody is no worker),
`DaysAssumption` and `InstallmentsAssumption` of `Obligations` (a month has days, the
days of the card are among them, a fixed series has rows), `PlanAssumption` of
`Migrations` (versions and the statements of a phase are lists) and
`WorkerAssumption`, `SystemAssumption` and `InternalAssumption` of
`Appointments` (the container's worker is no request, the system's settings row
is no appointment's, there is an internal appointment).

Each proof has the same outline: a property speaks of what is committed or over,
so it is not inductive; the invariant adds what an actor has under way where it
stands; one lemma per action, one step under it per conjunct the action touches.
Each invariant was checked with TLC on the run's instance before it was proved.

`EventChain_proofs`, about any requests, tenants, accounts and calls:

* `TypeCorrect`: `TypeOK`. It is inductive.
* `ChainCorrect`: `ChainIntact`. A commit makes several events visible at once, so
  `ChainInv` adds what the code knows before a commit: `Written` (a transaction
  that has inserted stands past its insert), `UniqueKey` (the key holds among all
  rows, running ones included), `Linked` (each row links to one that is committed
  or of the same transaction) and `TipsKnown` (what `getLastEvent` returned is
  such a row, or there was none). A rollback removes nobody's predecessor,
  because only its own writer builds on an uncommitted row.
* `OneWriterCorrect` and `CommitsBehindCorrect`. Both compare events that may
  be far apart in the chain; walking back one link at a time would need an
  induction. `OrderInv` adds to `ChainInv` that below an event every number is
  taken by an event with a smaller id that is committed or of the same writer
  (`Dense`), and that ids are handed out in order (`IdsOrdered`).
* `DoubleEntryCorrect`: `DoubleEntry`. `LedgerInv` adds that ids are given once
  (`IdsUnique`) and how far the event in hand is booked where its writer stands
  (`Booking`), so that a rollback, which removes by event id, takes exactly its
  own rows.
* `RequestAtomicCorrect`: `RequestAtomic`. `AtomicInv` says that a transaction has
  the events of its first calls, numbered one after the other (`Progressed`).
  They stay neighbours because the row it wrote first keeps the tenant's others
  out: a lock is on a committed row or one's own (`LocksSolid`), and between two
  of its events the newest of the tenant is its own (`KeepsTenant`).
* `LogCorrect`: `ImplementsEventLog`, the refinement. The initial state is an empty
  log; a commit appends its request's calls, because its numbers are those behind
  the committed prefix; every other step leaves the log alone. Nothing is appended
  that the ledger could not book (`CallsBookable`).

`Payments_proofs`, about any requests, entities and amounts, from `PaymentsInv`:
what a request has at hand where it stands (`RequestOK`), ids given once
(`IdsOK`), one holder of the chain (`OneHolder`), and, where the clients send no
ids or reversal dates, which event belongs to which row and which row is reversed.

* `TypeCorrect`: `TypeOK`, whatever the clients send.
* `CashFollowsPaymentsCorrect`: `CashFollowsPayments`. What the clients must not do
  for it is part of the property: send a negative amount (the row keeps the sign,
  the event does not), an id (one row, two events) or a reversal date. Reversals
  may be of any payment and booked on any entity, edits and deletions may come in
  between. It needs that `Total`, a fold, grows by what is added and does not
  change when a row is marked. No induction is available for that (see below); it
  is proved by taking a smallest set that would be a counterexample, which the
  library's well-founded order of finite sets provides.
* `ReversedIsMarkedCorrect`: `ReversedIsMarked`, under the condition on ids and
  reversal dates only; negative amounts do it no harm.
* `StatusFollowsPaymentsCorrect`: `StatusFollowsPayments`, under `OnlyPaid` (the
  requests of the instance are payments and reversals, as in `payments_status`:
  an edit or a deletion overwrites the status), with negative amounts. `ViewOK` is
  the point: from the moment `register` returned until the commit only one request
  holds the chain, so the payments it saw are still the ones there when it commits.
* `KnownDeadlocksCorrect`: `KnownDeadlocks`, with the gap locks, whatever the clients
  send. A request that waits at the gap waits for one that is there too, or for the
  holder of the chain; the holder waits for the row of an entity, which only a
  deletion holds, or for the payment it marks, which only a payment with that id
  holds. The three causes are what is left.

`Charges_proofs`, about any requests and revenues, from `ChargesInv`: what a request
wrote and is about to commit where it stands (`RequestOK`, `RowsOK`), exactly
which locks it holds (`LocksOK`), and that what it logged last is the last row
of its charge (`LastWord`).

* `HistoryEndsInStatusCorrect`: `HistoryEndsInStatus`. It rests on the lock on the
  charge from the UPDATE to the commit, although the validation has none. The last
  row is the one with the highest id; `loadHistory` sorts by `createdAt`, which has
  seconds, so it may show two rows of one second in another order.
* `RevenueFollowsChargeCorrect`, `OneChargePerRevenueCorrect` and
  `BookedFollowsHistoryCorrect`: the unique key of `charges_processing` and the
  rows of a request being removed together make them inductive with the rest. A
  revenue may be created with any status; what the first excuses are revenues that
  somebody has paid, edited or deleted by hand (`WrittenByHand`).
* `KnownDeadlocksCorrect`: `KnownDeadlocks`. Apart from the cycles at the gap, somebody
  in a cycle waits for a revenue; of those who wait, only a creation holds one; and
  who waits for the revenue of a charge that is only being created has no charge, it
  pays by hand.
* `TypeCorrect`: `TypeOK`.

`LedgerJobs_proofs` has two parts. About the snapshots, for any jobs and ids, from
`SnapshotsInv`:

* `NoEventMissedCorrect`: `NoEventMissed`. What a job starts from misses nothing and
  what it added up covers the rest up to the event it knows of; both survive the
  events that commit meanwhile, because their ids are larger.
* `SnapshotsTypeCorrect`: `TypeOK`.

About the monthly build, for any requests, any calendar and any number of months,
from `MonthlyInv`, that is `ObligationsInv` and `BuildsInv`:

* `InvoicesDifferCorrect`: `InvoicesDiffer`. `InOrder` is stronger: each invoice falls
  due after every one made before it. The next one is computed from the newest
  the transaction sees, so it keeps the order only if nobody else adds one
  meanwhile (`SeesAll`). `POST /invoices/create` and creations that register nothing
  make invoices without the chain's lock, and those may collide; the property is
  about cards without one. A creation that registers events holds the chain from
  before it reads the invoices until its commit (`DraftOK`, `OneRegisters`), and as
  long as no invoice was made without that lock nobody does. The arithmetic of
  the dates is in `NextIsLater`, for months of any length.
* `RowOfItsMonthCorrect`: `RowOfItsMonth`. `JobOK` says that a build is of a month
  that has begun and has read no more events than there are; events are only
  appended (`EventsGrow`), and a month is closed by a build of a later one.
* `HistoryStandsCorrect`: `HistoryStands`, an action property, from the same
  invariant: only `Close` and `Upsert` write the table.

`Appointments_proofs`, about any requests, keys and restarts, from `AppointmentsInv`:

* `OneSchedulerCorrect`: `OneScheduler`. `ActorOK` says what an actor knows of the
  old release's scheduler of its key: it saw it and is about to remove it, or it
  is gone and, as nobody adds one, stays gone.
* `SettingsAgreeCorrect`: `SettingsAgree`. On a key nothing disturbed at most one actor
  is at work (`Alone`), and where it stands says what the queue holds (`Clean`).
* `TypeCorrect`: `TypeOK`, which no run repeats.

`EmailQueue_proofs`, about any mails, workers, deaths and lock times, from `MailInv`:

* `NoMailLostCorrect`: `NoMailLost`, and `TypeCorrect`: `TypeOK`, which no run repeats.
* `SentAgainCorrect`: `SentAgainForAReason`. `SendsOK` counts the mails that are still
  going to leave: a worker that lost its job may send once more (`Strays`), and
  the stall that took the job away pays for it.
* `OneWorkerCorrect`: `OneWorkerPerMail`, from `LockOwns`: a lock that is always
  renewed in time is never taken away.

`Sessions_proofs`, about any requests and users, any limit above 0 and any number
of restarts, from `IInv`, in which `Stands` says what kind of request stands where:

* `SignedOut`: `SessionEnds`. A save of a token in the middle would break it, so
  `OnlyLoginSaves` says that whoever is about to save a token of a user who is
  signed out is signing in; a refresh would have had to find a row, and
  `SessionEnds` says there is none.
* `ResetTokenOnce`: `ResetOnce`. `Taken` follows one token: nobody holds it before
  its mail or while it is in Redis, GETDEL hands it to one request, and that
  request has not used it.
* `NewestPassword`: `PasswordKept`, inductive with the types.

`Migrations_proofs`, about any versions with any statements, transactional or not,
with DDL statements anywhere in them, and any number of containers, starts and deaths, from `MigrationsInv`. It looks at
one run: the statements it has behind it took effect, or are in its open
transaction (`BehindOK`; `AllHeld` and `NothingHeld` say which, before and after a
DDL statement ended it); and in the execute phase every version it does not have
left to run was applied, by itself, by another run, or before it read the registry
(`RunOK`). Nothing that took effect is undone, so what one run knows survives the
steps of the others.

* `SuccessIsAppliedCorrect`: `SuccessIsApplied`. At its end nothing is missing behind
  the run; a failure registered late can only take the success back.
* `RanIsPrefixCorrect`: `RanIsPrefix`. A run is at the oldest of the versions it has
  left, so all the older ones were applied.
* `TypeCorrect`: `TypeOK`, which no run repeats.

Only model-checked: `FailsOnlyOnRepeats` of `Migrations`. It is about the 21 classes
as they are, and a proof would be an enumeration of them, which is what TLC does;
what is left open there is the number of containers. Liveness
(`EveryRequestEnds`, `EveryMailEnds`, `InternalComesBack`, `CatchesUp`) stays with
TLC: the prover does not reason about fairness and ENABLED. No module uses a
RECURSIVE operator, so all of them can be proved about. What a fold computes for
every input would take an induction over data, which the provers cannot
instantiate; `Total` in `Payments` is the one place that needed it, and the order
of finite sets was enough.

## 5. Not modelled, and the plan

Abstracted inside what is modelled: floating point sums and DECIMAL columns,
texts, pool exhaustion, gap locks outside `Payments` and `Charges`, the customer and
billing rule a charge looks up (its lookup may fail, `Fail`), edits of a revenue's account between two events
of its charge, the strength rules of `PasswordValidator` (a password is accepted
or the request ends), access tokens (signed, stored nowhere), the three aggregates
of a monthly build over charges, column types and the values an UPDATE of a
migration writes. Repeats of a MODIFY by a container that lags behind are in
`Migrations` as statements, what they make of the columns is not. `BaseSchema` is
what all the files of `sql/` leave, which were run by hand. The filter
`status <> 'paid'` of the invoices a creation looks for is left out, because no
invoice becomes paid: `updateStatus` of an invoice always fails
(`InvoiceNotFound` of `Payments`). `PlaceOnFound` is exercised for creations; an edit that moves
expenses to an invoice found already runs the same action but is not reached in
the instance of `monthly_build`.

Not modelled:

* Tenant modules and their cache (`saas`, `client-modules`): CRUD around a cache
  that is filled on a miss and dropped on a change. The stale fill is listed as a
  hazard without a property: the code does nothing against it.
* Bank accounts: CRUD and one opening event, which is a request of `EventChain`.
* Deletion of a series of revenues: the mirror image of the expense's in
  `Payments`. That of one revenue is in `Charges`.
* Entity persistence: builds the text of INSERT and UPDATE; the models use its
  effect (the static list of ignored columns is in `Sessions`).
* Webhooks: not imported by the application; the service calls they would make
  are operations of `Charges`. The gateway is a stub with one answer.
* Dashboards, reports, categories, customers, credit cards, billing rules:
  read-only, or single statements without state of their own.
* The vendored stand-in of BullMQ.

Covered in part, as the notes of the hazards in `PROJECT.json` say: `NoEventMissed`
does not exclude that two snapshots have one event twice; `HistoryEndsInStatus` lets
a cancellation overwrite a payment; `RowOfItsMonth` looks at one of the aggregates
of a build and at the balance; `CatchesUp` is about the nightly job, not about a
rebuild whose failed job keeps its id; `SessionEnds` leaves out a session ended
while a token was being saved, and a session lost between the two statements of a
save; and nothing bounds the attempts that get through while Redis fails.

Every safety invariant that a run expects to hold is proved for all values of the
constants, but for `FailsOnlyOnRepeats`. What further work would start with are the hazards without a property
in `PROJECT.json`, the cache of the tenant modules first.

# A TLA+ model of the payment and billing system

This directory holds a formal model of the billing API in `src/apps/api`
(NestJS, Prisma, PostgreSQL) and of the admin pages over it in `src/apps/web`:
modules in TLA+, configurations that check them with TLC on small instances, and
theorems about them checked with TLAPS for every instance. `PROJECT.json` maps
every definition to the lines it models. Paths below are relative to
`src/apps/api/src/` unless they say otherwise.

Run a check with `tlc -workers 2 -config X.cfg M` (the table of runs names the
module of each configuration) and the proofs with `tlapm XProofs.tla`.

## 1. The system

One Node process serves an API; PostgreSQL, at its default isolation level
Read Committed, keeps all state. Requests run concurrently: every `await` lets
another request go on, and every database transaction takes one connection of
a bounded pool.

| Component | State it keeps | Operations that change it |
|---|---|---|
| CreditsService (`billing/credits.service.ts`) | `credits.balance` (INTEGER), `credit_transactions` with an idempotency key | addCredits, deductCredits, refundCredits, each in a transaction of its own |
| LedgerService (`billing/ledger.service.ts`) | `ledger_accounts.balance`, `ledger_entries`, `ledger_transactions` (unique key) | getOrCreate...Account, recordTransaction, in the caller's transaction |
| AuthorizeNetWebhookController (`gateways/authorize-net/`) | `processed_webhooks` (primary key: event id), charge records | handleWebhook |
| SolanaConfirmationController (`gateways/solana/`) | the same, by transaction hash | handleConfirmation |
| RefundsService (`refunds/`) | `refund_requests` | create, approve, deny, process |
| DisputesService (`disputes/`) | `disputes`, `dispute_evidence` | createDispute, attachEvidence, setOutcome |
| SubscriptionsService (`billing/subscriptions.service.ts`) | `subscriptions`, `gateway_subscriptions` | createOrUpdateFromGateway, cancelAtPeriodEnd, cancelImmediately, reactivate |
| Gateway adapters | in the process's memory: refund log, charges | refundCharge, registerCharge |
| Simulator (`simulator/`) | none of its own | posts rebills, chargebacks and confirmations to the webhook routes; resetUser deletes a user's rows |
| Admin pages (`src/apps/web/src/app/admin/`) | a list or a dispute as it was loaded, the row that is acted on, an error | approve, process; evidence, outcome; the loads that follow |
| PlansService, BillingConfigService | rows that nothing writes | none |
| Authentication, users' pages | none that the services read | they call the routes |

How they interact:

- The webhook handlers open one transaction (the *outer* one), insert the
  dedup row, and call SubscriptionsService, DisputesService and LedgerService
  with that transaction. CreditsService does not take a transaction: it opens
  its own (the *inner* one), on a second connection, while the outer one waits.
- RefundsService calls the gateway first, then opens an outer transaction for
  the ledger reversal and `paymentRefundId`, with an inner deduction of
  credits, and at last sets the status in a statement of its own.
- DisputesService records an outcome in an outer transaction with a ledger
  booking, an inner grant of credits for WON, and the status.
- Retries come from outside: gateways redeliver what was not answered with
  200, admins press a button again. Nothing inside the process retries.
- What the admins press is decided by their pages, which show a status read
  earlier and disable a button while its call is on its way. Nothing at the
  server keeps two calls on one row apart but the database.

What makes this hard, and what the properties are about:

- **Read, check, await, write.** A status is checked on a row that is not
  locked; a key is looked up among committed rows. Uniqueness comes from
  unique keys (dedup id, dispute id, ledger key) and from row locks, and from
  nothing else.
- **Two transactions for one request.** What the inner transaction commits
  stays when the outer one rolls back, expires or dies with the process.
- **Failures everywhere**: lost answers, rollbacks, timeouts, a pool without a
  free connection, a gateway that fails after it has paid, a restart.
- **Read, then insert.** An upsert that updates nothing (accounts, charge records) is
  a read and an insert: it locks no row that is there, and fails with P2002 where
  another transaction creates the row in between.
- **Order**: events arrive more than once, late, and overtaken by others; the
  lists of a page overtake each other.
- **One charge, several stories**: it may be refunded, charged back, won and
  lost, and its user may be reset while any of it is under way.

What makes each component correct:

| Component | Correct when |
|---|---|
| Credits | no balance leaves its range; balance and log agree; a key moves credits once; a success is recorded; every call is answered |
| Ledger | debits equal credits; balances are the sum of their entries; a key posts once, whole or not at all; callers deadlock in one known way only |
| Webhooks | an event's own writes happen once, with its dedup row; an event is acknowledged once it has taken effect, with one known exception; every event is settled in the end |
| Refunds | the reversal and `paymentRefundId` are one fact; nothing moves before the review; an approved request is paid once between two restarts, never after its link, and gets to PROCESSED |
| Disputes | one outcome, booked once, that stays; credits come back once; an outcome that is recorded until it succeeds gets there |
| Subscriptions | the plan is the one that was paid for; access comes back by new payments only |
| Admin pages | no button and no spinner waits for nothing; what is shown is stored, as long as the admin makes one call at a time; what is asked is settled in the end; a patient admin's calls never overlap |
| All together | the books balance, and the rows of disputes and requests explain what is in them |

## 2. Modules

| Module | Models |
|---|---|
| `Credits` | CreditsService: calls as transactions with lookup, row lock, write, commit |
| `CreditAccount` | abstract: an account on which an operation is one step, once per key |
| `CreditsProofs` | theorems about `Credits`, and that it implements `CreditAccount` |
| `Ledger` | LedgerService inside the transactions of its callers |
| `Journal` | abstract: a journal into which a whole movement is posted in one step |
| `LedgerProofs` | theorems about `Ledger`, and that it implements `Journal` |
| `Webhooks` | both webhook controllers: dedup row, outer and inner transaction, pool |
| `Inbox` | abstract: an inbox that handles each event once, in one step |
| `WebhooksProofs` | theorems about `Webhooks`, and that it implements `Inbox` |
| `Refunds` | RefundsService with the gateway adapters it calls |
| `RefundsPage` | the admin's page of refund requests over `Refunds` |
| `RefundsProofs` | theorems about `Refunds` and `RefundsPage` |
| `Disputes` | DisputesService |
| `DisputeCase` | abstract: a case that is opened, argued and decided once |
| `DisputePage` | the admin's page of one dispute over `Disputes` |
| `DisputesProofs` | theorems about `Disputes`, that it implements `DisputeCase`, and about `DisputePage` |
| `Subscriptions` | SubscriptionsService under webhooks, the user's calls and resets |
| `SubscriptionsProofs` | theorems about `Subscriptions` |
| `Billing` | the simulator's events, refunds, disputes and resets of a user over one set of books |
| `BillingProofs` | theorems about `Billing` |
| `SumFacts` | lemmas about sums over finite sets, for the proofs about balances |
| `MCx` | the instance of module `x` for TLC: keys, amounts, events, plans |

The modules compose in two directions. `RefundsPage` and `DisputePage` extend the
service below them: the page's steps take the service's actions as they are and
decide when they happen. `Billing` puts the components side by side and takes each
database transaction as one step, which is what the finer modules show: a key
posts once and whole (`Ledger` implements `Journal`), credits move once per key
(`Credits` implements `CreditAccount`), an event's writes come with its dedup row
(`Webhooks` implements `Inbox`).

A step of a model is what one database statement, or one commit, makes visible
to others. Statements that nobody else can see (inserts that no unique key
guards, reads of one's own rows) belong to the step before or after them.

**Credits.** `stage[c]` is how far call `c` has come. `Call` is the arrival with
the lookup of the key (`Looked`: refused, found, missed); `UpsertIncrement` is
the upsert of addCredits and refundCredits, which takes the row lock;
`SelectForUpdate` is the `SELECT ... FOR UPDATE` of deductCredits with its check
of the balance; `Commit` makes balance and log row visible, and leaves open
whether the caller hears of it, so that it may call again with the same key.
`Rollback` stands for an error, a timeout and a crash alike. `Apart` is the set
of keys whose calls their callers never let overlap: the code has nothing but
the lookup to protect a key, and two overlapping calls with one key both move
credits, so "once per key" is a promise to these callers only.

**Ledger.** A posting goes through `UpsertAccount` and `CreateAccount`,
`RecordTransaction` (validation, lookup), `CreateTransaction` (the unique key: waits for an open
insert, fails after a committed one), `ApplyEntry` per entry with the account's
row lock, and `Commit`. `ReversalPlan`, `WonPlan` and `LostPlan` are what the
three callers ask for, in their order of accounts. The upserts of accounts have
`update: {}`, for which Prisma reads and, where it finds nothing, inserts:
`UpsertAccount` takes a row that is there as it is and locks nothing,
`CreateAccount` waits for another open insert and fails once that is committed.
The row locks come with the increments, in the order of the entries. `Init`
starts from a database without accounts or from the seeded one.

**Webhooks.** `pc[h]` is where handler `h` is, `outer[h]` the state of its outer
transaction. `Receive` is the fast path, `OpenOuter` takes a connection,
`InsertDedup` waits for an open insert of the id and takes P2002 for "already
processed", `ApplyEvent` dispatches on the event, `WriteDispute` inserts the
chargeback's dispute, `FindRow` and `CreateRow` are the upserts that update nothing
(the ledger accounts of a chargeback, taken as one row, and the charge record),
whose P2002 both controllers take for "already processed" as well. `rows` are those
that are committed; `OthersCreate` is any other service that makes the accounts. The
upserts of subscriptions and of credits have something to update, are one statement
each and raise no P2002. `InnerLookup` and `InnerCommit` are CreditsService on its
second connection, `CommitOuter` commits the rest. `Expire` is Prisma's timeout of
an outer transaction under a running handler, `AcquireTimeout` a pool without a free
connection; `InnerRollback`, `OuterRollback` and `Crash` are the other faults. What
the event's writes are is left to the other modules; `writes` and `effects` count
that they were made, `reversals` the chargebacks among them.

**Refunds.** `ReadForReview` and `Review` are approve and deny: a read with its
check, later an update by id alone. `ReadForProcess` and `Dispatch` are the start
of processRefund; `RefundCharge` the gateway with its key log (`answers`) and, on
Authorize.net, its marked charges; `LookupKey`, `InsertReversal`, `Link` and
`CommitOuter` the outer transaction; `LookupCredits` and `MoveCredits` the inner
one; `MarkProcessed` and `RecordError` the last statement and the catch block.
The gateways' logs are Maps in the process: `Crash` empties them and counts
`restarts`. Whether a deduction finds enough credits is left open.

**RefundsPage.** `call[k]` is what a call of the page waits for, `row[k]` the row it
is about; `acting` is the one row whose button is disabled, `loading` the spinner.
`Click` sends the POST that fits the status *shown*, `Reach` is that POST at the
server, which may refuse it. `Answered` starts the reload, `Refused` is the catch
block, `End` the finally block, which enables every button. `ReadList` and `Loaded`
are apart, so that lists overtake each other. `LoseAnswer` and `LoadFails` are the
network's faults, and `Reopen` forgets what the page knew while the server goes on.
`serial` is history: since the page was opened there was one call at a time.

**Disputes.** `ReadForEvidence`, `CreateEvidence` and `SubmitEvidence` are
attachEvidence, three awaits without a transaction. `SetOutcome` is the check of
setOutcome, then `LookupKey`, `InsertBooking`, `LookupCredits`, `RestoreCredits`,
`UpdateStatus` and `CommitOutcome` its transaction. `Apart` is the set of disputes on
which admins do not overlap two calls; nothing in the service enforces it.

**DisputePage.** The page of one dispute (`on`, the id in its URL). `step` is what it
waits for: it acts once at a time, and a click disables every button until its POST
(`ask`) has been answered and the dispute loaded again. `by` is the handler that works
on the click. `Serve` and `ServerFails` are the service's steps together with what
the page hears of them. On a dispute of `Apart` (`Patient`) the admin waits for the
answer, and the connection holds until it is there; on the others `Reopen` and
`LoseCall` may come while the server works, and the service then sees two calls.

**Subscriptions.** `Deliver` to `Commit` are one event (`draft` is the row that an
open transaction has written and nobody sees yet); `CancelAtPeriodEnd`,
`Reactivate` and `CancelImmediately` read and check, `UpdateForUser` writes later.
`ResetUser` deletes the rows under all of them and leaves the dedup rows.

**Billing.** `SimulateCardRebill`, `SimulateSolanaConfirmation` and `SimulateChargeback`
are the simulator's events, each delivered and handled; any number of notices may be
about one charge. An admin's call (`call`) reads a row, is overtaken by events,
requests and resets, and then writes what it decided on its read: `ProcessRefund`
with `BookRefund` and `MarkProcessed`, `SetOutcome` with `RecordWon` and `RecordLost`.
`Abort` is its failure, with or without the credits that commit apart. `ResetUser`
deletes disputes, requests, postings and credits, and keeps the balances of the
ledger accounts, the charge records and the dedup rows; `left` is history, the
balances at that time. Amounts are numbers here, so that the account decides
whether a deduction goes through.

## 3. Runs

Runs that must pass:

| Run | Shows | Bounds |
|---|---|---|
| `MCCredits` | see the properties in section 4; `ImplementsAccount`; liveness `CallsAnswered` | 3 calls, 2 users, 2 keys of which one is `Apart`, amounts 0 and 2, a column that overflows above 3, one user starting with 2 and one without a row |
| `MCLedger` | `ImplementsJournal`, `CirclesAreOpposed` and the balances of the ledger | 3 postings, every caller's plan, an unbalanced one, one with a missing account, keys shared between plans; no accounts or the seeded ones |
| `MCWebhooks` | dedup row and writes, with every fault; `AckedIsSettledOrBeaten` | 3 handlers, pool of 2, a purchase, two chargeback events of it and one of nothing, 2 faults |
| `MCWebhooksSettle` | credits once per key without expiry; `ImplementsInbox`; liveness `EventsSettle` | 2 handlers, pool of 3, a confirmation told below and at its depth, a chargeback, the start of a subscription, a purchase with an invalid reference, 1 fault |
| `MCRefunds` | reversal and `paymentRefundId`, and payments, with every fault: a restart empties the gateways' logs | 2 requests, 2 calls at a time, both gateways, both types, 2 faults |
| `MCRefundsOnce` | the page over the service, without expiry: credits deducted once, `SerialPageIsTrue`; liveness `RequestSettles` | 1 request of either type, 2 calls at a time, 2 faults |
| `MCDisputes` | the page over the service: `KeepsCallsApart`, bookings and statuses; `ImplementsCase`; liveness `OutcomeReached` | 1 dispute in each behaviour, that of a patient admin (`d1`, in `Apart`) or of an impatient one (`d2`), 2 calls at a time, 1 fault, 1 lost request or answer |
| `MCSubscriptions` | plan and payments agree | 3 requests at a time, two payments and a failed charge, resets and rollbacks without bound |
| `MCBilling` | the books balance and are explained by the rows | 2 charges, one by card and one on chain, 3 notices of which two are about one charge, 2 refund requests, 1 reset |

Runs that find a disagreement with a text of the repository:

| Run | Property | What TLC finds |
|---|---|---|
| `MCWebhooksSkip` | `SkippedOnlyIfSpent` | a deduction that gets no connection is skipped like one without credits |
| `MCRefundsDouble` | `GrantedAtMostOnce` | two calls on a CREDITS request grant it twice |
| `MCDisputesRace` | `OutcomesExclude` | one admin, who opens the page of a dispute again while the server works, gets WON and LOST both booked |

Why the bounds are enough. The races of this code are between two requests on
one row or key; a third request adds one that comes while they race, or a retry
that meets both. Two users or requests show that steps on one do not
disturb another. A retry needs one fault, a retry of a retry two. Amounts 0 and
2 against a limit of 3 give a refused amount, a deduction that fits once, and an
increment that overflows. Two keys, one of them shared, make a posting find its
own and another's row. In `MCBilling` the second notice of the first charge, the
two requests and the payment on chain give every order of a refund, a chargeback
and an outcome of one charge, with amounts that the account holds and amounts
that it does not. A stale row on the page takes two lists and a write between
them, which one request and two calls have. A lost event takes two handlers, or one and
`OthersCreate`, which make one row. An event that ends a subscription goes the way of
one that starts it, without the charge record, and is in no run of `Webhooks`. `MaxFaults` bounds the faults of the
server, the gateways and the network behind `RefundsPage`, `MaxLosses` the requests
and answers that `DisputePage` loses, `MaxResets` the resets of `Billing`; each is a
guard of those actions, and `Credits`, `Ledger` and `Subscriptions` have no such
bound. The counters (`effects`, `creditRows`, `paid`, `booked`, ...) have none
either: their properties bound them, or each increment consumes a handler's run
or a fault. Symmetry is used in runs without liveness only.

## 4. Properties

*Credits.* `FundsReserved` (what the row lock protects), `BalanceMatchesLog` (lost
updates), `AtMostOncePerKey` for keys in `Apart`, `SuccessIsRecorded` (a hit on the
key is never that of a transaction that rolled back), `CallsAnswered`,
`ImplementsAccount`.

*Ledger.* `BalanceMatchesEntries` (no increment is lost, doubled or left behind by a
rollback), `CirclesAreOpposed` (the callers take the accounts in different orders;
the only deadlock that this leads to is one between a reversal and a WON of one
user, section 6), `ImplementsJournal` (whole, valid movements, one per key). Of all
accounts together `TrialBalance` says that those which debits raise hold as much as
those which credits raise, `OneTransactionPerKey` that no key has two transactions,
and `DoneIsPosted` that a caller which committed has its key in the journal; these
three are stated as theorems only.

*Webhooks.* `EffectsExactlyOnce`, `OneReversalPerCharge` (also for two events of one
charge), `AckedIsSettledOrBeaten` (an event is answered with success once it has
taken effect, credits included, or when its handler has lost the race for the
account or the charge record it was to make; nothing else loses an event),
`CreditsAtMostOnce`, `EventsSettle`, `ImplementsInbox`. The inbox has no handlers
and no transactions. What it keeps of them is what the code lets others see: credits
move (`Move`) in a step of their own, ahead of the one that handles their event
(`Handle`), an answer may be lost, and an event may be lost (`Lose`) where somebody
else made a row that it was to make. A confirmation below the depth is only ever
answered. With `Once` (no expiry, one id per key) they move once per key and never
for an event that is done; without it, the inbox promises this of the event's own
writes only.

*Refunds.* `ReversedOnceWithId`, `ReversedIsPaid`, `NothingBeforeReview`,
`ProcessedIsDone`, `DeductedAtMostOnce`, `PaidOncePerLife` (the payments of a
request exceed the restarts by one at the most) and `PaidUnlinked` (no payment
follows the `paymentRefundId`, whatever call, retry or restart comes).

*RefundsPage.* `SerialPageIsTrue`, `RequestSettles`, and, as a theorem only, `WaitsForACall`:
a call on another row overwrites the row the page acts on, the end of either
enables both, and still the page never waits for a call that is over.

*Disputes and their page.* `OutcomeBookedOnce` (a status and its booking agree) on
every dispute; `RestoredAtMostOnce` and `ImplementsCase` on those in `Apart`;
`KeepsCallsApart` (the page implements the calls of `Disputes`, so that a patient
admin's dispute is the documented case); `OutcomeReached`.

*Subscriptions.* `PlanIsPaidFor`, `OnlyNewPaymentsActivate`.

*Billing.* `BooksBalance` (over all accounts, also after a reset) and
`RowsExplainBooks` (each dispute that is not WON and each request with a
`paymentRefundId` has reversed its amount once, each LOST dispute has cost one fee).

Each property comes with a mutation of the model, the way a plausible bug in the
code would read (the definitions marked `Bug:`), under which TLC refutes it.

### Fairness

- `SF` of a handler's own steps: the process and the database run every request
  on. Strong, because a step that waits for a row lock, for another insert of
  its key or for a connection is enabled only from time to time; PostgreSQL and
  the pool serve their queues in order, so that a waiter is not overtaken for ever.
- `SF` of the redelivery of each event without a 200 (`Webhooks`): the payment
  gateways of the documentation redeliver until they are answered.
- `SF` of the page's own steps (`PageStep`): fetch, answer, catch and finally blocks
  run in a browser that stays open.
- `SF` of `Click` on each row of `RefundsPage` and of `Click("WON")` on `DisputePage`, and
  of `Reopen` where the page shows an error or lacks the request or the dispute: an
  admin who presses what can be pressed and looks again where something is
  missing. The recovery paths that the documentation describes are these retries.
  Nothing in the code makes them; `RequestSettles` and `OutcomeReached` say that
  they suffice, which is what the guards for recovery are for.
- No fairness for faults, arrivals, evidence, denials, resets or the user's calls.

## 5. Proofs

TLAPS checks these for every value of the constants that satisfies the modules'
named assumptions (bounds are naturals, events, plans and requests are of their
types, `Apart` is a subset).

| Module | Theorems, with the property each states |
|---|---|
| `CreditsProofs` | `CreditsTypes` (`TypeOK`), `NoOverdraft` (`BalanceInRange`), `LockedCheckHolds` (`FundsReserved`), `KeyedEffectsHappenOnce` (`AtMostOncePerKey`), `SuccessIsCommitted` (`SuccessIsRecorded`), `LogExplainsBalance` (`BalanceMatchesLog`), `CreditsImplementAccount` (`ImplementsAccount`) |
| `LedgerProofs` | `LedgerTypes` (`TypeOK`), `EntriesExplainBalances` (`BalanceMatchesEntries`), `BooksAreInBalance` (`TrialBalance`), `KeysAreUnique` (`OneTransactionPerKey`), `SuccessIsPosted` (`DoneIsPosted`), `LedgerImplementsJournal` (`ImplementsJournal`), `CirclesNeedOpposites` (`CirclesAreOpposed`) |
| `WebhooksProofs` | `WebhooksTypes` (`TypeOK`), `WritesHappenOnce` (`EffectsExactlyOnce`), `ChargesAreReversedOnce` (`OneReversalPerCharge`), `AcknowledgedIsSettledOrBeaten` (`AckedIsSettledOrBeaten`), `CreditsMoveOnce` (`CreditsAtMostOnce`), `WebhooksImplementInbox` (`ImplementsInbox`) |
| `RefundsProofs` | `RefundsTypes` (`TypeOK`), `ReversalsGoWithIds` (`ReversedOnceWithId`), `ReversalsArePaid` (`ReversedIsPaid`), `ReviewComesFirst` (`NothingBeforeReview`), `ProcessedIsExecuted` (`ProcessedIsDone`), `RefundsPaidOncePerLife` (`PaidOncePerLife`), `LinkedRefundsStayPaid` (`PaidUnlinked`), `RefundsDeductOnce` (`DeductedAtMostOnce`); behind the page: `PageWaits` (`WaitsForACall`), `PageKeepsTypes` (`PageTypeOK`), `PageKeepsPromises` (the invariants of `Refunds`), `PagePaysOnce` (`PaidOncePerLife` and `PaidUnlinked`), `PageDeductsOnce` (`DeductedAtMostOnce`), `SerialPagesAreTrue` (`SerialPageIsTrue`) |
| `DisputesProofs` | `OutcomesBookedOnce` (`OutcomeBookedOnce`), `OutcomesExcluded` (`OneOutcome`), `RestoredOnce` (`RestoredAtMostOnce`), `DecisionsAreTerminal` (`TerminalStays`), `DisputesImplementCase` (`ImplementsCase`), `DisputePageTypes` (`PageTypeOK`), `PageKeepsApart` (`KeepsCallsApart`), `PageImplementsCase` (`ImplementsCase`, from the page) |
| `SubscriptionsProofs` | `SubscriptionsTypes` (`TypeOK`), `PlansArePaidFor` (`PlanIsPaidFor`), `ActivationsAreNew` (`OnlyNewPaymentsActivate`) |
| `BillingProofs` | `BillingTypes` (`TypeOK`), `BooksStayBalanced` (`BooksBalance`), `RowsExplainTheBooks` (`RowsExplainBooks`) |

Assumptions beyond those on types and bounds: two events with one id are the same
kind of event about the same charge (`IdsAssumption`, which deduplication by id
takes for granted). Some theorems name theirs in their statement:
`CreditsMoveOnce` needs that outer transactions do not expire under their handlers
and that a purchase or a refund is told of under one id (`OneIdPerKey`; the events of
one chargeback may differ in theirs, as its dispute holds the key), which is the inbox's
`Once`; `RefundsDeductOnce` and `PageDeductsOnce` need
the former; `CirclesNeedOpposites` is about plans that are those of the code's three
callers (`Caller`), for any users, amounts and keys.

- *Credits.* `BalanceInRange` alone is not inductive: a commit writes a balance that
  was checked two steps earlier. `CreditsInv` adds that what was checked under
  the row lock still holds (`FundsReserved`), that a call in the log is over or is
  answered by its own row (`LogIsFinal`), and that a call in its transaction has
  a positive amount. `KeyInv` adds that a call in flight with a key in `Apart` is
  the only one, and finds no committed row; a commit is then the key's first.
  `LogInv` is the sum itself: a commit adds one row, of the amount that it adds to
  the balance, and no other step touches either.
- *Ledger.* `LedgerInv` says that from its insert to its commit a transaction is the
  only one with its key, which no committed transaction has, and that what it
  posts was validated. A commit then maps to one `Post` of the journal, and every
  other step to none. `LockInv` (`HoldsInOrder`) says what a transaction holds:
  accounts that it has created, and those that its entries have moved so far. An
  upsert waits for a transaction that is at a later upsert (they come in the order
  expense, asset, revenue) or past them; an insert waits for one that is at its
  entries; and there a first entry waits for nobody who waits at its first. So every
  circle has transactions at their second entry, each holding the account of its
  first, and a circle of those has a reversal and a WON of one user that wait for
  each other (`CircleIsOpposed`). `BookInv` says that each balance
  is the sum, over the committed postings, of what each of them adds there: a
  commit adds one posting, which `LedgerInv` says was not among them. For
  `TrialInv`, a valid posting shifts both sides alike (`SidesCancel`), provided that every
  account it names is visible when it commits (`Opened`): an account that an upsert
  of the same transaction creates becomes visible with it, at balance 0.
- *Webhooks.* `WebhooksInv` says of the dedup id (`IdsHeld`) and of the dispute
  (`DisputesHeld`) that an open outer transaction has inserted what `LedgerInv` says
  of keys, and that only a handler past its insert has written. `MoneyInv` adds that
  a handler which has come to its commit has granted what its event grants
  (`Granted`), and that one in the credits transaction moves a natural number
  (`Moving`). An answer with success then comes from the fast path, from a unique key
  or from the commit, each of which settles the event, or from `CreateRow`, where the
  handler was beaten to a row. `OnceInv` adds that such a handler is inside its outer transaction
  (`InsideOuter`), where it is alone with its id, and has found no row of its key
  (`Unmoved`). For the inbox, `TellInv` says that what an outer transaction writes is
  what its event is about (`Told`: a chargeback writes unless its charge is reversed
  already), `DeepEnough` that no handler works on a confirmation below the depth. The
  commit of credits is then a `Move`, the outer commit a `Handle`, an answer without a
  commit an `Answer` or, for a handler that was beaten, a `Lose`; `OthersCreate` is an
  `Appear`, and every other step, a crash too, is none.
- *Refunds.* `Stages` (`StageOf`) says what a handler at each place has read and may
  rely on, `KeysHeld` that an uncommitted reversal has its key for itself, and
  `GatewayPaid` that what the gateway's log answers, or a charge is marked with, was
  paid. Nothing of this bounds the payments, as the log is lost in a restart. `LogInv`
  does: what was paid in this life of the process is in the log (`Logged`), and so
  is the answer of each call that is past the gateway, or is still to call it for a
  request which another call has linked meanwhile (`AnswerKnown`). Such a call is
  answered from the log; a later one finds the link. `DeductInv` says
  that a handler in the credits transaction holds the request's row (`RowsHeld`, the
  lock that writing `paymentRefundId` takes) and that nothing was deducted before
  (`Undeducted`): the lookup of the credits key, which sees committed rows only,
  suffices under that lock.
- *RefundsPage.* `PageInv` adds which calls are about a row (`Waiting`); the server's
  invariants carry over because the page only starts its actions or refuses them.
  `SerialInv` says of a page used one call at a time that at most one call is under
  way, that only a call which waits for its answer is being worked on, and that a
  list that has been read is still right.
- *Disputes.* `DisputesInv` says where a call is (`Stages`), that an uncommitted booking
  has its key for itself (`KeysHeld`), that on a dispute in `Apart` there is one call
  (`KeptApart`), and that such a dispute has the status of its booking
  (`BookedIsStatus`). For the page, `Awaited` says that on a dispute of a patient admin
  a handler at work is the one that the page waits for; `KeptApart` then follows
  from the page instead of being assumed of the callers.
- *Subscriptions.* `Drafts` says what an open transaction has written, `IdsHeld` that
  it has its dedup id for itself, `RowLocked` that one transaction at a time has
  written the row.
- *Billing.* `BillingInv` is `TypeOK` and `BooksBalance`: every posting the code makes
  moves the accounts by amounts that cancel. `RowsExplainBooks` says nothing of the
  keys, so a step could find its key posted and change the row without the
  accounts. `RowsInv` excludes that: a key is posted only together with what its
  row says (`KeysMatchRows`), and the call of an admin, when it writes, finds its row
  as it was read, or finds none, or finds one of a later birth (`CallIsCurrent`). Every
  posting that goes with a change of a row is then new, and `BooksInv`, the sums of
  claims and requests against what the last reset left, is kept. The assets follow
  from the balance of the books.
- *Sums.* A balance is a sum over a set of rows, and `SumFunctionOnSet` takes the rows
  in an order of its own. That the order does not matter, and what becomes of a sum
  when a row comes, goes or changes (`SumGrows`, `SumShrinks`, `SumChanges`, `SumByGroup`),
  needs induction over finite sets. The library's induction theorems have a
  predicate for parameter, which the provers cannot instantiate; `SumFacts` proves
  induction for a *set* of naturals or of subsets instead, from the theorem that
  such a set has a least element (`WFMin`), and the lemmas on sums from that.

Left to TLC: liveness (`CallsAnswered`, `EventsSettle`, `RequestSettles`, `OutcomeReached`),
for which the provers have neither fairness nor `ENABLED`. Every safety property
that a run checks and that the model satisfies is also a theorem.

## 6. Disagreements met while modelling

Those with a run are in section 3. Others that the code shows and that have no
run of their own here:

- **Expiry.** When an outer webhook transaction times out while its credits
  transaction runs, the dedup row is gone and a redelivery may grant a second
  time beside the first (`MCWebhooksSettle` with `Expiry = TRUE` and
  `CreditsAtMostOnce`); `docs/SOLUTION_DIAGRAMS.md:466` says exactly once.
- **Inner before outer.** A crash between the two commits leaves credits moved
  without the dedup row. The redelivery finds the key and completes the event;
  until then the two differ, where `authorize-net-webhook.controller.ts:95` says
  "Atomic".
- **A reversal and a WON of one user deadlock.** The reversal of a refund or a
  chargeback moves revenue first and the user's account second, handleWon the other
  way round, and the upserts before them lock no account that is there. Postgres'
  detector rolls one of them back: a webhook answers 500 and is delivered again, an
  admin gets an error and tries again. `CirclesAreOpposed` says that there is no other
  deadlock among the bookings.
- **An event can be lost.** `authorize-net-webhook.controller.ts:36` says "If the side
  effect throws, the dedup row is rolled back and the event will be retried." Every
  P2002 counts as "already processed" there (`:105`) and in the Solana controller
  (`:87`), also that of an upsert with `update: {}`: where another transaction creates
  the account or the charge record between its read and its insert, the event is
  answered with 200, its dedup row and writes are rolled back, and nobody tells of it
  again. It takes a user's first chargeback, or two events of one charge (the start of
  a subscription and its `charge.approved`). `AckedIsSettled` says what the comment
  says; with it in place of `AckedIsSettledOrBeaten` `MCWebhooks` shows the loss. In a
  refund or an outcome, which are no webhooks, the same P2002 is an error that the
  admin sees.
- **A restart pays again.** `README.md:19` of the repository says "retries can't
  double-refund", and `docs/SOLUTION_DIAGRAMS.md:126` "Retry is safe: gateway idempotent
  on key". The adapters keep their keys in a Map of the process
  (`authorize-net.gateway.ts:77`): where it ends between the refund and the commit, the
  retry pays again. `PaidAtMostOnce` in place of `PaidOncePerLife` in `MCRefunds` shows it.
- **Late writes of RefundsService.** Two overlapping reviews overwrite each other,
  also after the processing; a failing attempt records its error on a row that
  another one has processed, where the page (`page.tsx:159`) no longer shows it; a
  failure of the last update records none.
- **The row the page acts on** (`page.tsx:64`) is overwritten by a click on another
  row, and the end of either call enables the buttons of both. `WaitsForACall` holds
  nevertheless, for any number of rows (`PageWaits`), and a second call on a row neither pays (but after a
  restart before the link) nor deducts again.
- **A second refund of one charge** gets an id made from the transaction instead
  of the existing one (`authorize-net.gateway.ts:97`).
- **The chargeback fee** is booked against the user's asset account;
  `docs/SOLUTION_DIAGRAMS.md:254` and `:306` say it is untouched, and
  `docs/architecture.md:165` agrees with the code.
- **Two outcomes that overlap**, WON and WON, restore credits one after the other: the
  second waits at its booking until the first has committed, unless Prisma has expired
  the first one while its credits were on their way. `RestoredAtMostOnce` is about
  disputes whose calls are kept apart, and says nothing of these.
- **Evidence that overlaps an outcome** takes a decided dispute back to
  EVIDENCE_SUBMITTED; on the page this needs an admin who opens it again while the
  server works (dispute `d2` of `MCDisputes`, of which `TerminalStays` says nothing).
- **WON that fails after its credits moved**, followed by LOST, keeps them; and
  WON gives back credits that the chargeback may never have deducted.
- **cancelAtPeriodEnd** may mark a subscription that was cancelled in between, and
  nothing acts on the mark when the period is over.
- **A late payment** activates again: `billing/subscriptions.service.ts:8` says "A
  failed charge cancels the subscription and removes access immediately", and a
  payment event that is delivered after the failed charge which followed it gives
  access back. An old plan that is delivered after a new one replaces it likewise.
  `OnlyNewPaymentsActivate` is what does hold.
- **resetUser** is to "Reset all simulator state for a given user"
  (`simulator/simulator.service.ts:153`); it keeps the balances of the ledger accounts,
  the charge records and the dedup rows. The accounts then hold more than their
  entries say, and a transaction hash that is confirmed again is "already
  processed".
- **Renewals grant no credits.** `authorize-net-webhook.controller.ts:47` has a renewal
  "activate sub + grant credits", and `README.md:112` of the repository expects a rebill
  to "grant credits exactly once"; the code grants none for subscription events, and
  neither do `Webhooks` and `Billing`.
- **WON without a reversal to reverse**: `docs/SOLUTION_DIAGRAMS.md:243` has handleWon
  "log error and skip re-reversal" where the dispute has no `ledgerReversalTxnId`; the
  code never looks at it but for the metadata, and books the WON.
- **A confirmation without a number** of confirmations compares as false with the
  required depth and is settled at once (`solana-confirmation.controller.ts:60`).

## 7. Not modelled

- PlansService and BillingConfigService only read; their fee is a number in the
  ledger's plans and in `Billing`.
- HMAC and authentication: only events and calls that pass them are modelled.
- createSubscription and cancelSubscription of the gateways: no service calls
  them. buildSignedWebhook and buildConfirmationEvent only format.
- The pages of users (billing, refund request, home), which show rows and post
  forms, and the list of disputes, which links to the page of one. The calls that
  users make are actions of `Subscriptions` and `Refunds` that overlap and repeat.
- On `DisputePage`, a POST of a closed page that is still on its way to the server.
- In `Refunds` and `Disputes`, amounts: whether a deduction finds enough credits is
  left open there and decided in `Billing`. Rates between cents and credits, which
  the code does not have; periods and dates, descriptions, metadata.
- In `Webhooks`, deadlocks: they are among the rollbacks of `OuterRollback`, and
  `CirclesAreOpposed` of `Ledger` says which there are. The two ledger accounts of a
  chargeback are one row there, and the accounts of one user.
- Isolation levels other than the default, replicas, several API processes (two
  processes behave like more handlers, with a gateway memory each).

## 8. Plan

Done, in this order: `Credits` with its abstract account, `Ledger` with its
journal, `Webhooks` with its inbox, `Refunds`, `Disputes` with its case,
`Subscriptions`; the admin pages over the services; `Billing` over all of them;
theorems about each.

Left, extending the model: `Webhooks` with the writes of `Subscriptions` in place of
`writes`; amounts in `Refunds` and `Disputes`; overlapping admin calls in `Billing`; the
page where a user asks for a refund.

Left, proving: that `Billing` is what the finer modules implement, by a refinement
of each.

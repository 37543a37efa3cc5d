# Verification of daibilet

The repository is a ticket shop: a NestJS backend over Postgres (Prisma), Redis
and BullMQ, with Next.js frontends. This directory models in TLA+ the parts in
which state is changed by several actors: checkout, fulfilment and refunds, the
suppliers' money and papers, idempotency keys, reviews, and the synchronisation of
the catalog. TLC checks the models; TLAPS proves part of what is checked.

File names below are relative to `src/packages/backend/src/`.

## 1. Inventory

### What the system consists of

| Component | State | Operations | Talks to |
|---|---|---|---|
| State machines (`checkout/checkout-state-machine.ts`) | none: three tables | `tryTransition*`, `canTransition*`, `is*Terminal` | called by most handlers |
| Webhook ingestion (`checkout/checkout.controller.ts`, `payment-event-log`, `webhook-idempotency`) | `PaymentEventLog`, `ProcessedWebhookEvent` | receive a YooKassa or a generic event, deduplicate, queue | YooKassa calls it; it adds jobs |
| Checkout (`checkout/checkout.service.ts`, `payment.service.ts`) | `CheckoutSession`, `OrderRequest`, `PaymentIntent` | create a session, quick request, package; pay, mark paid/failed, cancel | YooKassa, the ledger, promo codes |
| Confirmation (`supplier/supplier.controller.ts`, `partner/partner.controller.ts`, `admin/admin-checkout.controller.ts`) | the same rows | confirm or reject an order, set a session's status | state machines |
| Expiry cron (`scheduler/order-expiry.service.ts`) | the same rows | expire orders and sessions past `expiresAt` | state machines |
| Fulfillment (`checkout/fulfillment.service.ts`, `queue/fulfillment.processor.ts`, `checkout/providers/*`) | `FulfillmentItem` | create items, reserve, confirm, retry, escalate, complete | booking providers, queue |
| Refunds (`checkout/refund.service.ts`, `admin/admin-reconciliation.controller.ts`) | items, `PaymentIntent` | automatic, partial and full refund; force refund, retry | YooKassa |
| Failed jobs (`admin/failed-jobs.service.ts`) | BullMQ's failed set | list, retry | queue |
| Refund requests (`checkout/fulfillment-refund-request.service.ts`, `refund-eligibility.ts`) | `RefundRequest`, items, `availableTickets` | create, approve, reject, process; crossed by a full refund | YooKassa, refunds |
| Supplier finance (`supplier-finance/*`, `ledger/*`, `admin/admin-payouts.controller.ts`, `supplier/supplier.controller.ts`) | ledger, payouts, disputes, settlements, documents | sale, payout request, decide, pay, dispute, settle, issue, cancel | checkout books sales |
| Idempotency (`common/idempotency.service.ts`) | `IdempotencyKey` | run once per key | orders and cache endpoints |
| Catalog sync (`scheduler/scheduler.service.ts`, `queue/sync.processor.ts`, `catalog/tc-sync.service.ts`, `tep-sync.service.ts`) | jobs with fixed ids, events, the map of cities | timers, worker with a hard timeout, retries, full and incremental run, run by hand | Ticketscloud, Teplohod, cache |
| Cache (`cache/cache.service.ts`) | Redis entries | read through, invalidate after a sync | readers, sync |
| Reviews (`catalog/review.service.ts`, `supplier/supplier-reviews.service.ts`, `scheduler/review-scheduler.service.ts`, `queue/review-task.processor.ts`) | `Review`, votes, answers, disputes, requests, ratings | write, confirm, moderate, rate, vote, answer, dispute, ask, remind, clean up | mail, event and venue pages |
| Promo codes, gift certificates (`pricing/promo-code.service.ts`, `checkout.service.ts`) | `usedCount`, balances | validate, mark used, apply | checkout |
| Partner webhooks (`partner/partner-webhook.*`) | a queue | deliver events to partners | nothing in the repository enqueues one |
| Catalog queries, landing pages, blog, search, widgets | content | editing and reading | none of the above |
| Accounts, chat, support, EDO, media, mail | their own rows | CRUD and I/O | none of the above |
| Frontends (`packages/frontend*`, `packages/shared`) | browser state | call the backend | backend |

### How a sale runs

1. A session is created: from a cart with order requests (PENDING_CONFIRMATION),
   from instant offers (CONFIRMED), as a package (STARTED), or as a redirect.
2. Supplier, partner or administrator confirms the orders, which confirms the
   session; or 30 minutes pass and the cron expires both.
3. The buyer posts `/pay` with an idempotency key. The handler looks for an
   intent, calls YooKassa, and stores the intent.
4. YooKassa delivers `payment.succeeded`, as often as it takes to get a 200.
   The handler inserts it into `PaymentEventLog` and adds a job.
5. The worker (concurrency 1) marks the intent PAID and the session COMPLETED in
   one transaction, creates one item per line, reserves and confirms each.
6. A line that fails is retried by a cron job, then escalated to FAILED; after 15
   minutes another cron refunds it.

### What is hard about it

Every handler is a chain of awaits over rows it does not lock. It reads, asks a
state machine about what it has read, and writes by id without a condition.
Handlers overlap; the administrator runs the worker's code outside the queue;
the backend restarts in the middle; YooKassa repeats, overlaps and loses calls;
BullMQ retries jobs (three attempts, one stall). What should nevertheless hold (some
of it does not; sections 3 and 5 say which):

| Component | Properties that make it correct |
|---|---|
| Ingestion | one job per event; none lost; no record ahead of its work |
| Checkout | only admissible transitions; one active intent; one charge; a charge is booked, once; nothing payable that nobody confirmed |
| Fulfillment | CONFIRMED lines are really booked, once; every line ends delivered or refunded |
| Refunds | REFUNDED means returned; no line returned twice; no more than was lost |
| Refund requests | money of a position returned once; marks and seats follow money; a position waits exactly while a request is open |
| Supplier finance | a balance is spent once; nothing is decided under a dispute; a document number is given once |
| Idempotency | a key runs once, and again only after a failure; every claim ends |
| Reviews | only what was vetted is shown; ratings count what is shown; who is asked gets the mail |
| Catalog sync | a run covers what it has loaded; readers are not left with old data; the catalog catches up |
| Seats, promo codes, certificates | a limit is not exceeded by concurrent buyers |

`PROJECT.json` lists each hazard at its line, with the property that covers it.

## 2. Modules

    StateMachines      the tables, as sets of <<from, actor, to>>
    EventDelivery      abstract: each event becomes one job
    WebhookIngest        implements it
    WebhookIngestProofs  theorems about WebhookIngest
    Checkout           session, orders, intents and all who write them
    CheckoutProofs
    OrderSettlement    abstract: each line is delivered or refunded, once
    Fulfillment          implements it for the lines of a paid session
    FulfillmentProofs
    RefundRequests     requests for single positions, and the full refund
    RefundRequestsProofs
    SupplierAccount    abstract: an account that holds what is asked for
    SupplierFinance      implements it, and issues the numbered documents
    SupplierFinanceProofs
    Idempotency        run, step by step, and two operations of an order
    IdempotencyProofs
    Reviews            reviews, ratings, votes, answers, disputes, timed tasks
    ReviewsProofs
    CatalogSync        timers, queue, worker, feeds, cities and cache
    CatalogSyncProofs
    MC*                instances for TLC

`Checkout` and `Fulfillment` both extend `StateMachines`. The three state
modules meet at the queue: `WebhookIngest` ends where a job is added, `Checkout`
takes the job up to `markPaid`, `Fulfillment` from `markPaid` on.

**WebhookIngest.** A running HTTP handler is a program counter and an event;
each action is one await of `handleYookassaWebhook` or `handlePaymentWebhook`.
`eventLog` and `processed` are the two tables with their unique indexes. `Throw`
ends one handler, `Crash` all. An answer may be lost, so the provider delivers an
event again that was fully handled.

**Checkout.** One session. A running handler is the sequence of steps it has yet
to take (`todo`), decided from what it has read: so a stale decision is visible
in the state. Starting an action is the read and the guard; `SetOrder`,
`SetSession`, `SetIntent`, `CommitPaid` are the writes. `Begin` does not start a
handler that would write nothing. The payment at YooKassa and the job of its
event are external. `Roles` says which callers take part.

**Fulfillment.** One session after its payment. As in `Checkout`, with the reads
between awaits as steps too, since `executeFulfillment`, `checkCompletion` and
`partialRefund` decide from them. The providers return what their adapters can. Only
TC's calls out (`CallsOut`): it creates a new order per call, can fail at both calls,
and turns a timeout into a refusal to be retried, so that an order may exist that
nobody was told of (`lost`), or a confirmation that the program takes for a failure.
Our own adapter can refuse to reserve; the partner's accepts everything; neither asks
anybody, so `booked`, what a provider has confirmed, only ever holds TC lines. Lines of
TEPLOHOD use the TC adapter. YooKassa's answer to a refund may have the status
`canceled` (`canceled`); the code goes on as if the money had been returned, and so
does `CallRefund`.
The payment may arrive late: besides CONFIRMED, the session may be EXPIRED or
CANCELLED when `markPaid` runs. It keeps that status, the intent becomes PAID and
its lines are fulfilled (`payment.service.ts:349`); the run `fulfil_serial` starts from
CONFIRMED and EXPIRED, which stands for both statuses that no payment moves.

**RefundRequests.** One paid session with positions of one price. A running
handler is a record: role, next step, the row it works on, what it has read. A
transaction is one step as far as it writes; what it reads before its first write
is a step of its own, since PostgreSQL's default isolation lets another commit in
between (`CreateCheck`/`CreateInsert`, `RejectRead`/`RejectWrite`). The provider
(`Call`) answers a key it knows again, refuses what exceeds the captured amount,
may refuse or leave the caller without an answer, and may answer that the refund is
`canceled`, which no handler tells from one that was made.

**SupplierFinance.** One supplier. `Balance` is the sum of the ledger, `Pending`
that of open requests; both are read by a payout request in steps of their own
before it inserts. `Decide` is the administrator's PATCH; `SumLedger` and `Pay`
the two halves of a payment's transaction. `OpenDispute` blocks what is pending,
`ResolveDispute` unblocks everything, as the code does. A handler that issues
documents takes all numbers first (`NextNumber`), validates, then drafts and
renders one document after another; the three overlap between handlers.

**Idempotency.** Each await of `run` is an action, and so are those of the two
handlers that use it for an order. A statement may fail anywhere, the backend may
restart anywhere.

**Reviews.** One event and its venue. No handler uses a transaction, so each read
and each write that depends on it are two actions. Timed tasks are one process.
A row of the database stands for a fresh id: it is used again only when no
handler and no rating refers to it.

**CatalogSync.** The two jobs with their fixed ids, the worker (one job at a time),
and the runs, which outlive a job that was timed out. `cities` is the map that
belongs to the service and not to the run. The queue keeps a finished job under its
id and ignores an `add` with that id (`Obstructs`), so each timer gets one job. `POST
sync/all` is two runs, one for each feed, of which the later one goes on to invalidate;
if one throws, the other ends without (kind `dropped`). The cache is one entry that is
fresh, stale, or put back late by a reader that was under way when it was removed;
`Invalidate` may fail at Redis, which nobody is told.

In the last five modules a behaviour has a *scene*: who acts in it, and which
handlers may overlap. A property that the code keeps only when handlers do not
overlap, or only as its pages use it, names the scenes it is claimed for, and the
same run shows the other properties with everything at once.

### What the models leave out

* Amounts, receipts, mail, logs, metrics and audit records. `Fulfillment` keeps
  prices and a discount, since the choice between partial and full refund
  depends on them.
* Several sessions: rows of different sessions meet only in seats, promo codes
  and the ledger, which are planned.
* The clock: `due` is one flag, because session and orders get the same 30
  minutes; in `Fulfillment` a delay may be over at any later moment.
* Some neighbouring reads are one step: the lookup of the intent and `markPaid`'s
  own read; the two lookups of `createPaymentIntent` (a row of the same key that
  appears between them makes the second answer conflict instead of the first
  answer it); the count and the `createMany` of `startFulfillment` (only the
  worker runs it, one job at a time).
* The job `payment-paid`, which only the generic endpoint adds: it runs
  `startFulfillment` and `executeFulfillment` as the job of YooKassa's event does.
* A TC adapter without a configured API, which refuses every line.
* `resolvedBy` is always null: `resolveItem` writes the word `admin` into a uuid
  column and always throws.
* Every intent is taken to have a supplier with a positive amount, so that
  `markPaid` always books a sale (`BookedOnce`); without one it books none.
* Seats and certificates at checkout; promo codes (section 6).
* `RefundRequests`: tickets without a date and redeemed ones, for which eligibility
  has two more conditions; different prices.
* `SupplierFinance`: reports, reconciliation, the text and files of documents, the
  period of a settlement (one per supplier).
* `Idempotency`: what the mail says; a mail that could not be sent is a result.
* `Reviews`: photos, evidence files, the log of accepted requests, a review of both
  an event and a venue, the rating taken over from a feed, and all listings.
* `CatalogSync`: classification, tags, combined events, duplicates, sessions,
  offers and landing pages (so also what `POST sync/all` does about these after it has
  invalidated); the hours the incremental timer skips; `POST tc/reset-and-sync`, which
  first marks every event deleted (`catalog.controller.ts:362`); jobs an administrator
  adds or retries; that the queue drops kept jobs beyond 50 and 20, which two ids
  do not reach. One `POST sync/all` at a time.
* Booking by hand: `resolveItem` (see above) and the adapters' `cancel` and `getStatus`,
  which have no caller here.
* YooKassa is taken to answer a known idempotency key with the result it has and
  to refuse a refund beyond the captured amount.

## 3. Runs

| Run | Question | Instance |
|---|---|---|
| `ingest_deliveries` | is each event queued once, and nothing recorded early? | 2 handlers, a YooKassa event, two generic ones, 2 faults; fairness |
| `checkout_serial` | are writes admissible and charges single when handlers do not overlap? | 2 orders, 2 keys, 2 faults, all callers but the package form and the administrator's edit of a session |
| `checkout_overlap` | is money that was taken ever forgotten? | 3 handlers at once (2 requests and the worker), 1 key, 1 fault, all callers but those that give up an intent; fairness |
| `fulfil_overlap` | is a TC line CONFIRMED that TC has not confirmed, or a line or intent REFUNDED ahead of YooKassa's answer? | 2 lines (partner and TC), worker and an administrator who retries, refunds lines or everything at once, no fault but timeouts of TC |
| `fulfil_serial` | do marks REFUNDED follow answers through crashes; is a settled line ever unsettled, or too much returned, and does every line get settled? | 4 lines, one per adapter and an EXTERNAL one, worker and administrator in turn, 1 fault; fairness |
| `fulfil_double_refund` | is a line returned twice? (expects a violation) | 3 lines of our own, worker only, 1 fault |
| `idempotency` | does a key run again only after a failure, and does every claim end? | 2 calls, a key of each operation, 3 runs of a key, 2 faults; fairness |
| `refund_requests` | do money, marks, seats and open requests agree? | 2 positions, 3 requests, 2 handlers, 2 faults, 6 scenes |
| `supplier_finance` | is a balance spent once, a dispute heeded, a number unique? | 2 payouts, 2 disputes, 2 handlers, 6 numbers, 1 fault, 5 scenes |
| `reviews` | is only vetted text shown, and rated, and does the mail go out? | 2 reviews, 2 buyers, 2 handlers, 1 fault, 7 scenes; fairness |
| `catalog_sync` | does a run cover what it loaded, is the cache emptied, do jobs end? | 3 events in 2 cities, 2 runs, 2 tries, 2 faults, 10 scenes; fairness |
| `catalog_never_again` | does the catalog catch up with its feeds? (violation) | the same, no fault, one feed changes; fairness |

Deadlock is not checked where the system does stop: every event answered, every
line settled, every request decided. `Checkout` never stops, for the expiry cron can always run.

### Bounds

* Handlers: a race of this code is one handler writing between another's read
  and write, so two suffice; `checkout_overlap` takes three because buyer, cron
  and worker write the same session.
* `MaxFaults` is 1 or 2 (0 in `fulfil_overlap`): one fault interrupts, the second interrupts the
  recovery. `ChargeIsBooked` is claimed for one fault only: two stalls of a job
  make BullMQ give up.
* `MaxAttempts`, `MaxRetryAttempts`, `MaxJobAttempts` = 3 and `MaxStalls` = 1 are
  the code's and BullMQ's own values, not bounds.
* `MaxOrders` = 1 stops counting a line's TC orders at one; the runs ask whether there
  is one. (`OneOrder` of section 4 is about a second and is proved for any bound.)
  `Items` of three platform lines lets one line be refunded, a second fail, and a
  third keep the refund partial; `fulfil_overlap` makes do with two, as its
  properties are about single lines.
* Overlap and faults of `Fulfillment` are in two runs, for together they have too many
  states; the theorems `ConfirmedWasBooked` and `RefundedWasAnswered` join them.
* `Price` is 1 for each line and `Discount` 0: refunds differ by which lines they
  cover. (With a discount see section 5.)
* `MaxRuns` = 3 in `idempotency`: a run, its repetition, and one beside it.
* Three requests for two positions let one position be asked for again after a
  rejection or failure while the other has a request of its own.
* `MaxNumbers` = 6 is two sets of three documents; the act and the invoice share a
  sequence, so numbers meet within a set and between two.
* Two disputes of one report: one that was resolved and one that is open.
* In `catalog_sync` two tries of a job stand for the code's number of attempts:
  one that fails and is repeated, one that fails for good. A feed changes once
  (`MaxVersion`), before, during or after any run. Two runs in progress are one
  owned by the queue and one that outlived its job or was started by hand.
* `reviews` has as many buyers as rows, so that duplicates and distinct authors
  both occur.

### Fairness

Handlers have weak fairness: nothing in the event loop stops a pending
continuation but the faults the model has of its own. `Receive` and `TakeJob` are
strongly fair, for they are disabled again and again while the (bounded) pool of
handlers, or the one worker, is busy; YooKassa redelivers until it is answered
200, and the queue is first in, first out. `RunRetry` and `RunCompensate` are
added by a cron every minute. In `Idempotency` a call goes on (WF of `Handle`). In
`Reviews` timed tasks go on and begin again (`CronStep`, `Reminding`, which a busy
cron disables, hence strong), links grow old and are cleaned up. In `CatalogSync`
the timer of the full sync fires, the worker takes jobs, a run that does not hang
goes on, one that hangs meets its timeout, a delayed job becomes due and cached
entries expire. The incremental timer and readers have none. No fairness is assumed
of buyers, suppliers, administrators, payments or faults. `LinesSettle` is claimed of
behaviours in which nothing but the providers fails and no administrator interferes
(`Unattended`): one who resets a line again and again keeps it open.

## 4. Proofs

`WebhookIngestProofs`, from `IngestAssumption` alone (the kinds of events are
disjoint and `NoEvent` is none of them), for any number of handlers, events and
faults:

* `TypeAndGate`: `GateInv`, that is `TypeOK` and four facts: a handler carries an
  event (`CarriesEvent`), one that is past the gate has its event logged
  (`PastGateIsLogged`), no two handlers owe the job of one event (`OneOwner`), and
  nobody owes a job that has been added (`QueuedHasNoOwner`). "At most one job" is
  not inductive: before adding, a handler must know that no other may add.
* `QueuedAtMostOnce`: `AtMostOneJob`, a consequence.
* `RecordedIsDone`: `RecordedWorkIsDone`, with the further conjunct
  `AboutToRecord`: a handler about to insert the row has run the event's handler
  and added its job.
* `ImplementsDelivery`: `DeliversAtMostOnce`. `AddJob` of a YooKassa event is
  `Deliver` of the abstract module, every other step stutters.
* `TypeCorrect`: `TypeOK`, the first part of `GateInv`.
* `AnsweredIsSafe`: `AnsweredIsQueuedOrUnderWay`. A duplicate is answered because
  its event is in the log, so the invariant is about the log and not about the
  answers (`LoggedIsSafe`): while nothing fails, each logged event is queued, or some
  handler owes its job.

The mutual exclusion is carried by the unique index of `PaymentEventLog`: the
insert of `LogOnce` is the one step that makes a new owner.

`IdempotencyProofs`, for any number of calls, keys and faults:

* `TypeCorrect`: `TypeOK`, from `TypeInv`, which adds that a call under way has a key.
* `RunsAreLicensed`: `OneRunPerLicence`. It is not inductive, since it is silent
  about calls that have found a key FAILED and not yet deleted the row.
  `Licences` counts a call about to delete as a licence taken and a row as one in
  use: runs plus calls about to delete never exceed calls that found FAILED plus
  the row. `FailureIsKnown` ties FAILED to a failure.

`RefundRequestsProofs`, for any numbers. The first two hold in any scene, so with
every handler overlapping every other, and lost answers:

* `TypeCorrect`: `TypeOK`, with the fact that handlers work on rows that exist
  (`OnItsRow`).
* `RefundedWasAnswered`: `RefundedIsAnswered`: marks and seats follow an answer of YooKassa,
  whatever it says (with `canceled` no money has moved, see section 5). What is missing from it is what a handler knows between answer and write (`AnswerIsKnown`), and that a request
  that has given back its seats is decided and never leaves that state
  (`SeatsOfDecided`): the conditional update from PROCESSING is what carries it.

The other two speak of calm scenes: handlers take turns, or only `process` overlaps
itself while the provider always agrees. `HandlersFlow` says once how a handler
moves from step to step, and `RolesAreKept` who is under way together.

* `PendingIsRequested`: `PendingHasRequest`. A handler writes from what it has read
  before, so the invariant is that this is still so (`Sound`): a creation about to
  insert still has no rival, a rejection the status it saw, and whoever processes a
  request works on the only live request of its position. Two who process one
  request are kept apart by the conditional claim; the one that lost ends.
* `MoneyReturnedOnce`: `ReturnedOnce`. The provider's books need a bound of their own
  (`PaidBound`: it never returns more than was captured), a return belongs to a
  request that is live or COMPLETED (`ReturnedIsLive`), and a refusal is final
  (`FailIsKnown`, `FailedIsRefused`): only so may a request that FAILED be followed by
  another one for the same position. `WholeOrParts` excludes the full refund
  beside a partial one.

`SupplierFinanceProofs`, for any handlers, required documents and crashes:

* `NumbersStayUnique`: `NumbersAreUnique`, from `NumberInv`: the numbers a handler
  has taken and not yet written (`Unwritten`) differ from each other and from
  those of the documents, and none is beyond its sequence. The atomic increment
  makes a new number larger than all of them; inserting the document moves it
  from the plan to the table; a crash drops the plan and never the number.
* `TypeCorrect`: `TypeOK`. Whether a row may be written depends on what a task carries
  from its earlier steps, hence `TaskFits`.
* `DisputesFreeze`: `DisputedIsFrozen`, where the endpoints are used as the pages
  offer them and one at a time (`AsOffered`; section 5 says what happens otherwise).
  A task that was admitted keeps its reason while it runs (`Admitted`: one that opens
  a dispute found none open, one that decides found its request not blocked); what
  a dispute covers stays pending and blocked (`CoveredStay`), so the two never meet.
* `HoldsAndPays`: `KeepsAccount`, the refinement of `SupplierAccount`, in the same
  scenes. The balance is a sum over entries and the amount held a sum over pending
  requests; `MoneyHeld` and `MoneyFreed` say what one row adds or takes. A payment
  takes what was held since a request has an entry exactly when it is PAID
  (`RowsAccounted`), and the account is never overdrawn since a task is still
  `Entitled` to what it is about to write: sales may be booked after it has read the
  balance, but these only add to it.

`FulfillmentProofs`, for any lines, adapters, prices, discount and administrators.
The first three hold with any overlap and any number of faults:

* `TypeCorrect`: `TypeOK`. `JobHasTries` says that a job that may still run has tries
  left, or the counters of failures and stalls would leave their range. That a refund
  is an amount of money is a fact about sums over sets: `SumOver` and the lemmas
  around it (`SumWithout`, `SumOfBoth`, `SumOfPart`) derive how a sum grows with its set
  from the definition in the community modules.
* `ConfirmedWasBooked`: `ConfirmedIsBooked`, of TC lines; `RefundedWasAnswered`:
  `RefundedIsAnswered`, of an answer of whatever status. Both speak of rows, and neither is inductive: the reason
  why a mark is right lies in the steps a handler has still to take. A step is
  `Backed` if what it will mark has happened outside (the provider has confirmed,
  YooKassa has returned), or if the refund it waits for comes before it in the same
  handler. The invariant is that every step of every handler is backed. It survives
  the steps of others because the world outside only grows (`OutsideGrows`), and a
  handler's own since a step is replaced by backed ones (`BackedReplaced`); a
  failed call, a refused refund or a crash drops steps and marks nothing.

The others rest on the plans that occur (`Form`, `PlansStay`, again with any overlap):
steps that lead in to `executeFulfillment`; steps through the lines, where two steps
ahead for one line are its mark RESERVED and its confirmation (`GoesThrough`); a
refund, its call before the marks, which are of different lines (`PartCall`,
`FullCall`).

* `OneOrder`: `OneAnsweredOrder`, which has no run of its own, if no administrator has
  the fulfillment run beside the queue (section 5 has the second order that this
  makes); administrators may refund, at any time and as many as there are. It counts the orders TC has reported; a timed-out
  call may have made one more (`lost`). The TC adapter orders at every call, so what
  counts is whether the worker comes back to the line: `OnceTaken` says that it has no
  step left that reserves it, and that the row says so, or will (the mark RESERVED is
  ahead) before the worker reads the rows again.
* `LossesCoverRefunds`: `RefundsCoverLosses`, and `SettlesOnce`: `LinesSettleOnce`, the
  refinement of `OrderSettlement`. Both are about handlers in turn (`MaxOverlap` = 1),
  with administrators who retry and refund lines but do not refund the whole session;
  the second where nothing is taken off the total, since else a full refund takes
  confirmed lines along (section 5). `StepIsRight` says that a step finds the rows as
  they were when it was decided on: a line that is worked on is still open, what
  `findPaid` carries is what is lost, a mark REFUNDED meets a FAILED row, and a full
  refund is on its way only when the lost lines are worth all that was paid
  (`Reached`). `Given` are the lines marked REFUNDED and those a handler that has
  YooKassa's answer is about to mark; `BooksInTurn` says that the books never exceed
  what they are worth. When everything is lost, the lines lost are all of them, as each
  has a price (`WorthAll`): that is why a full refund settles no line again.

`CheckoutProofs`, for any orders, keys, overlaps and faults. As in `Fulfillment`,
what a handler will write lies in its plan. `Plannable(S)` says which steps handlers
decide on in a state; `PlansStay`, proved once over all actions, says that a set S
that holds them all holds every plan afterwards too. It is used with three sets:

* `TypeCorrect`: `TypeOK`, for any callers. The set is `FittingSteps`, steps whose
  row and status belong together.
* `ChargesAreAccounted`: `ChargeIsAccounted`, if no role gives up an intent
  (`NobodyGivesUp`: neither the buyer's cancel nor the generic webhook, see
  section 5). The set is `AgreeingSteps`: what a handler will write to an intent is
  what YooKassa has said. A payment that has ended stays as it is, so a plan stays
  right however old it is. With `IntentsAgree`, the worker that takes a job always
  finds a move to PAID, and `WorkerCommits` says that it does not finish before.
* `CompletedIsPaid`: `CompletedHasPaidIntent`, if moreover no administrator sets
  sessions by hand. The set is `OtherSteps`: only the commit of `markPaid` completes
  a session, and a PAID intent stays PAID.

The last part is about handlers in turn (`MaxOverlap` = 1), for any orders, keys and
faults, and any callers unless one is named. Then what a handler has read is still
so when it writes, since nobody else may write. `PlanIsRight` lists the plans that
occur (one step; the order and the session of a confirmation; the cron's orders
followed by the session) and says for each that its steps are edges of the tables
from the rows as they are. `InTurn` joins it with what the rows keep among
themselves (`RowsInTurn`): of a session's intents one at most stands (`OneStands`),
sales match PAID intents, and a session that is offered for payment has a confirmed
order or its confirmation is under way. `StoredForSession` says that a
session with an intent is payable or has ended, and that it is no longer payable once
an intent is PAID. The cron is the hard case: it expires the orders one by one and the session last, and may be stopped
in between; `ExpiryIsRight` says that what it still has before it are PENDING orders,
each once, and then a session that was not payable.

* `OneActiveIntent`, `ChargedOnce`, `SalesMatchPayments`: `AtMostOneActiveIntent`,
  `ChargedAtMostOnce`, `BookedOnce`.
* `PayableIsConfirmed`: `PayableCartHasConfirmedOrder`, if no administrator sets
  sessions by hand.
* `CompletedIsPaidInTurn`: `CompletedHasPaidIntent` once more, now whoever gives up
  intents: what is PAID has no way out of the table (`WritesAllowed`).
* `StatusesFollowTables`: the action property `WritesFollowTables`, if the package
  form, which asks no table, takes no part.

The run `checkout_serial` checks these with bounds on keys and faults;
`checkout_overlap` checks `ChargeIsAccounted` with a bounded number of the same
handlers.

`ReviewsProofs`, for any rows, buyers, voters and faults:

* `TypeCorrect`: `TypeOK`. As in `SupplierFinance`, a handler's task carries what its
  later steps need (`Fits`).
* `ShownIsVetted`: `OnlyVettedIsShown`. That a shown review was confirmed by its
  address holds under every overlap, where moderators send what their page offers
  (`ConfirmedInv`, which includes the moderator's decision under way). The dispute
  and the answer need handlers in turn: then whoever is under way still sees the
  rows it has read (`Current`), and a row that nobody works on is `Sound`.
* `FiguresFollow`: `FiguresAreCurrent`, when handlers have run in turn and none has
  died. A figure may be old while the handler that will store it is under way:
  `FigureInv` says of each that it is right, or that somebody is counting
  (`Tallying`, `Counting`) from rows that are still so.

`CatalogSyncProofs`, for any events, cities, feeds, runs and tries:

* `TypeCorrect`: `TypeOK`. The types of the queue need that a job is active exactly
  while one run owns it (`OwnedInv`) and that a job to be tried has tries left.
* `FullRunCovers`: `RunCovers`, for runs that start from the queue, alone and
  without an exception. `Accounts` says of a run at each stage what it has still to
  write (`Ahead`), what it has written (`Covers`: every other event is at least as
  new as in the feed it loaded) and which cities the shared map holds (`Knows`). It is
  the last that a second run would destroy, by clearing the map.
* `StaleOnlyDuringRuns`: `StaleWhileSyncing`, where nothing throws, hangs or restarts,
  Redis answers and Ticketscloud is not synchronised by hand alone. A run outlives every
  write it makes and invalidates as its last step; of the two of `POST sync/all` the
  earlier one ends without, but then the other is still under way (`OtherHalf`,
  `StaleInv`).

In each of these modules the steps of a handler are described once, by what
they change in its task and by which tables they leave alone; the proofs about
properties cite those lemmas and open only the actions that matter.

The assumptions on constants (`CheckoutAssumption`, `FulfillmentAssumption`, `IngestAssumption`, `IdempotencyAssumption`,
`RefundAssumption`, `FinanceAssumption`, `ReviewAssumption`, `SyncAssumption`) are
evaluated by the runs. Some sets are assumed finite where a property counts them or a
handler goes through them: orders, lines, positions, requests, payouts,
calls, voters, handlers. The lemmas on sums stand twice, about the `SumOver` of either
module.

Only model-checked: liveness (`DeliversEach`, `ChargeIsBooked`, `LinesSettle`,
`ClaimEnds`, `RequestIsMailed`, `JobsEnd`), which is beyond the prover. Every
invariant, action property and refinement of the passing runs has its theorem. Where
a theorem has a hypothesis about the scene, the run has the same scene: the theorem
removes the bounds on rows, callers and faults.

## 5. Where code and docs part

Two have a run that shows them:

* `fulfil_double_refund`: the key of a partial refund is made of the lines that are
  FAILED at the moment. A restart between two marks, or a lost answer and one more
  failed line, changes the key, and a line is returned twice (`refund.service.ts:137`).
* `catalog_never_again`: finished jobs keep their fixed ids (`removeOnComplete: 50`,
  `removeOnFail: 20`), and BullMQ ignores an `add` with an id it has. After its first job
  each timer adds none, though `scheduler.service.ts:18` says finished jobs do not
  block. `JobsEnd` is what remains: a job that was added comes to its end.

The others were met while modelling; most are the reason why a property is claimed
for some scenes or roles only.

**Checkout and fulfilment**

* A failure between the insert into `PaymentEventLog` and `queue.add` loses the
  event. The redelivery is a duplicate and answered 200; the payment stays unbooked
  (`checkout.controller.ts:138`). `AnsweredIsQueuedOrUnderWay` is claimed
  while nothing fails.
* Updates by id without a condition take a session out of COMPLETED, EXPIRED or
  CANCELLED when handlers overlap (`order-expiry.service.ts:118`), which
  `checkout-state-machine.ts:76` excludes.
* Two concurrent `/pay` with different keys both find no active intent and both
  create one (`payment.service.ts:93`).
* YooKassa may answer a refund with `status: 'canceled'` (`yookassa.types.ts:78`).
  `createYookassaRefund` hands the status on; `refund.service.ts` never looks at it and
  marks REFUNDED, which `schema.prisma:2451` calls a refund carried out, though no
  money was returned; `fulfillment-refund-request.service.ts:256` does the same and
  releases seats. It is why runs and theorems speak of YooKassa's answer
  (`RefundedIsAnswered`), and why the outcome "refunded" of `OrderSettlement` is what
  the row says.
* A partner's line becomes CONFIRMED, "confirmed by the provider" (`schema.prisma:2447`),
  though its adapter asks nobody (`partner-booking.provider.ts:57`); so does a line of our
  own. It is why `ConfirmedIsBooked` is about TC lines.
* The TC adapter returns a timeout as retryable (`tc-booking.provider.ts:55`), the retry
  creates a second order, and the idempotency key it is given goes no further.
  `OneAnsweredOrder` is what remains.
* A confirmation at TC whose answer is lost counts as failed: the line may end FAILED
  and refunded while the order at TC is confirmed (`tc-booking.provider.ts`).
* A TC line whose confirmation fails stays RESERVED; `retryPendingItems` selects
  PENDING and RESERVING (`fulfillment.service.ts:305`), so it is never retried,
  escalated or refunded.
* `partialRefund` compares undiscounted prices with a discounted amount: with a
  promo code one lost line can make the refund full, and confirmed lines become
  REFUNDED (`refund.service.ts:123`).
* `createPaymentIntent` asks for AWAITING_PAYMENT as `system`, which the table
  grants to `admin` only: the session stays CONFIRMED and, as CONFIRMED has no
  transition to EXPIRED either, never expires (`payment.service.ts:268`).
* `updatePackageContacts` writes CONFIRMED over STARTED or VALIDATED, a move the
  table has for nobody (`checkout.service.ts:1392`). It is why the package form is
  not in `checkout_serial`.
* `markPaid` completes the session before its items exist, while
  `cart-partitioning.ts:122` keeps COMPLETED for when all lines are settled.
* `processOnce` looks up, runs and then inserts: two overlapping deliveries to the
  generic endpoint both run the handler.
* A buyer may cancel an intent whose payment is still open at YooKassa; if it then
  succeeds, the job fails three times and nobody returns the money. It is why the
  roles that give up an intent are not in `checkout_overlap`.
* An administrator's retry of a TC line that became FAILED at its third, failed,
  confirmation makes a second order. It is why `OneAnsweredOrder` is claimed
  without the administrator.

**Refund requests**

* A late `failRefund` overwrites COMPLETED: its updates have no condition, though
  the comment at `fulfillment-refund-request.service.ts:178` wants one winner.
* After a lost answer of YooKassa the request is FAILED and the position
  CONFIRMED; a new request has a new key, and the money is returned again.
* Two overlapping creations both find no request and both insert one.
* `reject` reads before `process` claims and writes after it has returned the money:
  the ticket is valid again.
* A full refund under an open request, then a refusal of the latter: the position
  becomes CONFIRMED. `process` does not look at the intent.
* `completeRefund` adds to `availableTickets`, which no sale takes from; a full
  refund gives nothing back.

**Supplier finance**

* PATCH to PAID twice books a second entry, and PAID may go back to NEW; the page
  offers neither (`admin-payouts.controller.ts:94`).
* A payout's check of the balance and its insert are not atomic: two requests are
  checked against one balance; nor are the check and the entry of a payment.
* Requests made after a dispute was opened are not blocked, and closing a dispute
  unblocks all requests, those of another report's dispute too
  (`supplier-dispute.service.ts:146`); docs/Diary.md:1175 has no such exceptions.
  `resolveDispute` closes a closed dispute again.
* Issuing documents again for a settlement issues a second set. A cancelled
  document is overwritten ISSUED when its rendering ends. Nothing keeps a period
  from having two settlements. `generateReport` adds negated PAYOUT entries.

**Idempotency keys**

* Two calls that both read FAILED: the second deletes the row with which the first
  has claimed the key and runs the handler beside it, though line 5 of the service
  says it runs once.
* A crash inside `run` leaves IN_PROGRESS for ever: every later call is a conflict.
* Rows never expire, and two endpoints have default keys made of the order or the
  scope alone (`admin-orders.controller.ts:248`, `admin-cache.controller.ts:45`): a
  second resend or invalidation is answered from the store and does nothing. A
  mail that failed is stored as DONE.

**Reviews**

* The unique index over address, event and venue never refuses anything, as one of
  the two targets is always NULL; overlapping creations make two reviews.
* `verifyEmail` deletes a review with an old link before it looks at its status; a
  second click that read before the first wrote sends a published review back to
  the moderators.
* The venue's rating counts the reviews of its events, but moderating those does
  not compute it anew; overlapping recalculations may store the older figure.
* A dispute resolved with DELETE is closed before the review is removed; a crash
  in between leaves the review.
* Any buyer's link from a request confirms any address, and more than once.
* A text may change after it was sent to the moderators if the edit overlaps.

**Catalog sync**

* A run that was timed out goes on: Ticketscloud's part never sees the abort. It
  and the next run share the map of cities, which each clears: events are passed
  over, those of Teplohod move to Moscow.
* A sync of Ticketscloud by hand does not invalidate the cache, though
  `cache.service.ts:203` asks for it after every sync; nor does a run that throws,
  nor the other half of a `POST sync/all` of which one throws.
* `invalidatePattern` swallows what Redis throws (`cache.service.ts:149`): a run then ends
  with old entries left, until they expire.
* A reader that was under way puts back what was just removed, until it expires.
* A feed that fails is a result, not an error: the job counts as done and is not
  repeated.

**Elsewhere**

* `resolveItem` writes the word `admin` into a uuid column and always fails
  (`admin-reconciliation.controller.ts:283`).
* Seats are counted, and promo codes validated, before the rows that use them are
  written; a gift certificate is never made ACTIVATED.

## 6. Plan

1. Proofs: `ChargeIsAccounted` with the roles that give up an intent, for handlers in turn.
2. `Capacity`: seats, promo codes and certificates: a limit read before an insert
   that counts against it.
3. Reports and reconciliation of the supplier's ledger.
4. A composition of ingestion, checkout and fulfilment.

## 7. Not modelled

* Promo codes, seats and gift certificates: planned (2).
* Partner webhooks: nothing calls `enqueue`.
* Catalog queries, search, landing pages, blog, widgets, and the classification
  of events: queries and text processing without a protocol between steps.
* Accounts, chat, support, EDO, media, mail: CRUD and I/O.
* Frontends, seeds, tests and scripts: callers of the backend, or data.

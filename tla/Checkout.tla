------------------------------- MODULE Checkout -------------------------------
(***************************************************************************)
(* One checkout session, its order requests and its payment intents, and   *)
(* every handler of the backend that writes their statuses: the buyer's    *)
(* endpoints, the supplier's and partner's, the administrator's, the       *)
(* expiry cron, and the worker of the fulfillment queue.                   *)
(*                                                                         *)
(* No handler holds a row between its read and its write: it reads, asks   *)
(* the state machine (StateMachines) about the rows it has read, and then  *)
(* updates by id, unconditionally, one await after the other.  So a        *)
(* running handler is the sequence of steps it has still to take, decided  *)
(* from rows that may have changed since.  Handlers interleave; a crash    *)
(* drops what is left of them.                                             *)
(*                                                                         *)
(* The provider's half of a payment and the queue are external.  A payment *)
(* event is queued once (module WebhookIngest).                            *)
(***************************************************************************)
EXTENDS Naturals, FiniteSets, SequencesExt, StateMachines

CONSTANTS
  Orders,       \* order requests of the session, if it comes from a cart
  Keys,         \* idempotency keys the buyer sends to POST /checkout/:id/pay
  Procs,        \* HTTP requests and cron runs that may be in progress
  Worker,       \* the worker of the fulfillment queue (concurrency 1)
  NoId,
  Origins,      \* the statuses in which the session may have been created
  Roles,        \* the callers that are active in this instance
  MaxOverlap,   \* bound: handlers in progress at one time
  MaxFaults     \* bound: crashes, failed calls

CartStatuses    == {"PENDING_CONFIRMATION", "REDIRECTED"}
PackageStatuses == {"STARTED", "VALIDATED"}
GiftStatuses    == {"CONFIRMED"}
AllRoles == {"buyer", "supplier", "admin", "adminSession", "cron", "package",
             "cancel", "generic", "worker"}

MaxAttempts == 3   \* attempts of a 'yookassa-webhook' job
MaxStalls   == 1   \* BullMQ re-runs a job found stalled after a restart once

ASSUME CheckoutAssumption ==
  /\ IsFiniteSet(Orders)
  /\ Origins \subseteq CartStatuses \cup PackageStatuses \cup GiftStatuses
  /\ Roles \subseteq AllRoles
  /\ Worker \notin Procs
  /\ MaxOverlap \in Nat /\ MaxFaults \in Nat
  /\ NoId \notin Orders \cup Keys
  /\ Orders \cap Keys = {}

VARIABLES
  session,    \* CheckoutSession.status
  orders,     \* OrderRequest.status, or "none"
  intents,    \* PaymentIntent.status by idempotencyKey, or "none"
  sales,      \* SALE entries in the supplier's ledger, by intent
  due,        \* expiresAt has passed: 30 minutes for the session and its orders
  todo,       \* the steps each handler has still to take
  payments,   \* external: the provider's payment under a key
  jobs,       \* external: the queue's job for the event of a payment
  faults

vars == <<session, orders, intents, sales, due, todo, payments, jobs, faults>>
rows == <<session, orders, intents, sales>>

Everyone == Procs \cup {Worker}

StepKinds == {"setOrder", "setSession", "setIntent", "expireSession",
              "findIntents", "createPayment", "insertIntent", "commitPaid"}

Do(kind, id, to) == [do |-> kind, id |-> id, to |-> to]

HandlerSteps == [do : StepKinds, id : Orders \cup Keys \cup {NoId},
         to : CheckoutStatuses \cup OrderStatuses \cup PaymentStatuses \cup {"none"}]

JobStates == {"none", "waiting", "active", "completed", "failed"}

TypeOK ==
  /\ session \in CheckoutStatuses
  /\ orders \in [Orders -> OrderStatuses \cup {"none"}]
  /\ intents \in [Keys -> PaymentStatuses \cup {"none"}]
  /\ sales \in [Keys -> Nat]
  /\ due \in BOOLEAN
  /\ todo \in [Everyone -> Seq(HandlerSteps)]
  /\ payments \in [Keys -> {"none", "open", "succeeded", "canceled"}]
  /\ jobs \in [Keys -> [state : JobStates, failures : Nat, stalls : Nat]]
  /\ faults \in Nat

\* createCheckoutSession, createGiftCertificateCheckoutSession, createPackage.
Init ==
  /\ session \in Origins
  /\ \/ session \in CartStatuses /\ orders = [o \in Orders |-> "PENDING"]
     \/ session \notin CartStatuses /\ orders = [o \in Orders |-> "none"]
  /\ intents = [k \in Keys |-> "none"]
  /\ sales = [k \in Keys |-> 0]
  /\ due = FALSE
  /\ todo = [p \in Everyone |-> <<>>]
  /\ payments = [k \in Keys |-> "none"]
  /\ jobs = [k \in Keys |-> [state |-> "none", failures |-> 0, stalls |-> 0]]
  /\ faults = 0

-----------------------------------------------------------------------------
(***************************************************************************)
(* Handlers begin: they read, and decide what to write.                    *)
(***************************************************************************)
Busy == {p \in Everyone : todo[p] # <<>>}

\* A handler that decides to write nothing is not started: it changes nothing.
Begin(p, steps) ==
  /\ todo[p] = <<>> /\ steps # <<>>
  /\ Cardinality(Busy) < MaxOverlap
  /\ todo' = [todo EXCEPT ![p] = steps]
  /\ UNCHANGED <<rows, due, payments, faults>>

SetSessionIfAllowed(to, actor) ==
  IF TryCheckout(session, to, actor) = "allowed"
  THEN <<Do("setSession", NoId, to)>> ELSE <<>>

\* A bug the code avoids: the order's own status is not asked about.
SupplierDecidesAnyOrder(p, o, to) ==
  /\ "supplier" \in Roles
  /\ to \in {"CONFIRMED", "REJECTED"}
  /\ orders[o] # "none"
  /\ Begin(p, <<Do("setOrder", o, to)>> \o SetSessionIfAllowed(
                 IF to = "CONFIRMED" THEN "CONFIRMED" ELSE "CANCELLED", "admin"))
  /\ UNCHANGED jobs

\* A bug the code avoids: the session is written ahead of the order.
SupplierDecidesSessionFirst(p, o, to) ==
  /\ "supplier" \in Roles
  /\ to \in {"CONFIRMED", "REJECTED"}
  /\ orders[o] # "none" /\ TryOrder(orders[o], to, "admin") = "allowed"
  /\ Begin(p, SetSessionIfAllowed(
                IF to = "CONFIRMED" THEN "CONFIRMED" ELSE "CANCELLED", "admin")
              \o <<Do("setOrder", o, to)>>)
  /\ UNCHANGED jobs

\* confirmOrder and rejectOrder of the supplier's and of the partner's API.
SupplierDecides(p, o, to) ==
  /\ "supplier" \in Roles
  /\ to \in {"CONFIRMED", "REJECTED"}
  /\ orders[o] # "none" /\ TryOrder(orders[o], to, "admin") = "allowed"
  /\ Begin(p, <<Do("setOrder", o, to)>> \o SetSessionIfAllowed(
                 IF to = "CONFIRMED" THEN "CONFIRMED" ELSE "CANCELLED", "admin"))
  /\ UNCHANGED jobs

\* confirmRequest and rejectRequest of the administrator: the order only.
AdminDecides(p, o, to) ==
  /\ "admin" \in Roles
  /\ to \in {"CONFIRMED", "REJECTED"}
  /\ orders[o] # "none" /\ TryOrder(orders[o], to, "admin") = "allowed"
  /\ Begin(p, <<Do("setOrder", o, to)>>)
  /\ UNCHANGED jobs

\* updateSession of the administrator.
AdminUpdatesSession(p, to) ==
  /\ "adminSession" \in Roles
  /\ Begin(p, SetSessionIfAllowed(to, "admin"))
  /\ UNCHANGED jobs

\* updatePackageContacts.
FillContacts(p) ==
  /\ "package" \in Roles
  /\ session \in PackageStatuses
  /\ Begin(p, <<Do("setSession", NoId, "CONFIRMED")>>)
  /\ UNCHANGED jobs

\* handleExpireRequests: one bulk read of the orders, then one of the sessions.
RunExpiry(p) ==
  /\ "cron" \in Roles
  /\ LET expired == {o \in Orders : due /\ orders[o] = "PENDING"}
         writes == {Do("setOrder", o, "EXPIRED") : o \in expired}
     IN Begin(p, Append(SetToSeq(writes), Do("expireSession", NoId, "EXPIRED")))
  /\ UNCHANGED jobs

\* createPaymentIntent reads the session first; the step carries what it saw.
Pay(p, k) ==
  /\ "buyer" \in Roles
  /\ session \in {"CONFIRMED", "AWAITING_PAYMENT"}
  /\ Begin(p, <<Do("findIntents", k, session)>>)
  /\ UNCHANGED jobs

\* cancelIntent.
CancelIntent(p, k) ==
  /\ "cancel" \in Roles
  /\ intents[k] # "none" /\ TryPayment(intents[k], "CANCELLED", "user") = "allowed"
  /\ Begin(p, <<Do("setIntent", k, "CANCELLED")>>)
  /\ UNCHANGED jobs

\* A bug the code avoids: the no-op answer for a PAID intent is not honoured.
MarkPaidAgain(k) ==
  IF TryPayment(intents[k], "PAID", "system") # "denied"
  THEN <<Do("commitPaid", k,
            IF TryCheckout(session, "COMPLETED", "system") = "allowed"
            THEN "COMPLETED" ELSE "none")>>
  ELSE <<>>

\* A bug the code avoids: the two updates of markPaid without a transaction.
MarkPaidInTwoWrites(k) ==
  IF TryPayment(intents[k], "PAID", "system") = "allowed"
  THEN SetSessionIfAllowed("COMPLETED", "system") \o <<Do("setIntent", k, "PAID")>>
  ELSE <<>>

MarkPaidSteps(k) ==
  IF TryPayment(intents[k], "PAID", "system") = "allowed"
  THEN <<Do("commitPaid", k,
            IF TryCheckout(session, "COMPLETED", "system") = "allowed"
            THEN "COMPLETED" ELSE "none")>>
  ELSE <<>>

\* A bug the code avoids: the provider's word for the status is stored.
MarkFailedAsProvider(k) ==
  IF TryPayment(intents[k], "FAILED", "system") = "allowed"
  THEN <<Do("setIntent", k, "canceled")>> ELSE <<>>

MarkFailedSteps(k) ==
  IF TryPayment(intents[k], "FAILED", "system") = "allowed"
  THEN <<Do("setIntent", k, "FAILED")>> ELSE <<>>

\* simulatePaid, and the handler of the generic webhook.
GenericEvent(p, k) ==
  /\ "generic" \in Roles
  /\ intents[k] # "none"
  /\ \/ Begin(p, MarkPaidSteps(k))
     \/ Begin(p, MarkFailedSteps(k))
  /\ UNCHANGED jobs

-----------------------------------------------------------------------------
(***************************************************************************)
(* The worker runs the job of a payment's event.                           *)
(***************************************************************************)
SetJob(k, state) == jobs' = [jobs EXCEPT ![k].state = state]

\* A bug the code avoids: the job is added without `attempts`.
OnlyAttempt(job) == [job EXCEPT !.failures = @ + 1, !.state = "failed"]

FailedAttempt(job) ==
  LET n == IF job.failures < MaxAttempts THEN job.failures + 1 ELSE MaxAttempts
  IN [job EXCEPT !.failures = n,
                 !.state = IF n = MaxAttempts THEN "failed" ELSE "waiting"]

\* A bug the code avoids: the job is acknowledged before its work is done.
TakeJobAndAcknowledge(k) ==
  /\ "worker" \in Roles
  /\ jobs[k].state = "waiting"
  /\ todo[Worker] = <<>>
  /\ Begin(Worker, IF payments[k] = "succeeded" THEN MarkPaidSteps(k)
                   ELSE MarkFailedSteps(k))
  /\ SetJob(k, "completed")

\* handleYookassaWebhook: no intent, or nothing to write, ends the job well; a
\* refused transition is an exception.
TakeJob(k) ==
  /\ "worker" \in Roles
  /\ jobs[k].state = "waiting"
  /\ \A j \in Keys : jobs[j].state # "active"
  /\ LET to == IF payments[k] = "succeeded" THEN "PAID" ELSE "FAILED"
         steps == IF to = "PAID" THEN MarkPaidSteps(k) ELSE MarkFailedSteps(k)
         answer == TryPayment(intents[k], to, "system")
     IN \/ /\ intents[k] # "none" /\ answer = "allowed"
           /\ Begin(Worker, steps)
           /\ SetJob(k, "active")
        \/ /\ intents[k] = "none" \/ answer = "noOp"
           /\ SetJob(k, "completed")
           /\ UNCHANGED <<rows, due, todo, payments, faults>>
        \/ /\ intents[k] # "none" /\ answer = "denied"
           /\ jobs' = [jobs EXCEPT ![k] = FailedAttempt(@)]
           /\ UNCHANGED <<rows, due, todo, payments, faults>>

FinishJob(k) ==
  /\ jobs[k].state = "active"
  /\ todo[Worker] = <<>>
  /\ SetJob(k, "completed")
  /\ UNCHANGED <<rows, due, todo, payments, faults>>

\* FailedJobsService.retryJob.
RetryFailedJob(k) ==
  /\ "admin" \in Roles
  /\ jobs[k].state = "failed"
  /\ SetJob(k, "waiting")
  /\ UNCHANGED <<rows, due, todo, payments, faults>>

-----------------------------------------------------------------------------
(***************************************************************************)
(* Handlers go on: one read or one write each.                             *)
(***************************************************************************)
Next1(p, kind) == todo[p] # <<>> /\ Head(todo[p]).do = kind
Step1(p)  == Head(todo[p])
Drop1(p)  == todo' = [todo EXCEPT ![p] = Tail(@)]
Then(p, steps) == todo' = [todo EXCEPT ![p] = steps]

SetOrder(p) ==
  /\ Next1(p, "setOrder")
  /\ orders' = [orders EXCEPT ![Step1(p).id] = Step1(p).to]
  /\ Drop1(p)
  /\ UNCHANGED <<session, intents, sales, due, payments, jobs, faults>>

SetSession(p) ==
  /\ Next1(p, "setSession")
  /\ session' = Step1(p).to
  /\ Drop1(p)
  /\ UNCHANGED <<orders, intents, sales, due, payments, jobs, faults>>

SetIntent(p) ==
  /\ Next1(p, "setIntent")
  /\ intents' = [intents EXCEPT ![Step1(p).id] = Step1(p).to]
  /\ Drop1(p)
  /\ UNCHANGED <<session, orders, sales, due, payments, jobs, faults>>

\* The second half of handleExpireRequests.
ExpireSession(p) ==
  /\ Next1(p, "expireSession")
  /\ Then(p, IF session \notin CheckoutTerminal /\ due
             THEN SetSessionIfAllowed("EXPIRED", "system") ELSE <<>>)
  /\ UNCHANGED <<rows, due, payments, jobs, faults>>

\* A bug the code avoids: only the idempotency key is looked up.
FindIntentOfKey(p) ==
  /\ Next1(p, "findIntents")
  /\ LET k == Step1(p).id
     IN Then(p, IF intents[k] = "none"
                THEN <<Do("createPayment", k, Step1(p).to)>> ELSE <<>>)
  /\ UNCHANGED <<rows, due, payments, jobs, faults>>

\* createPaymentIntent: the intent of this key is returned, another active one
\* is a conflict.
FindIntents(p) ==
  /\ Next1(p, "findIntents")
  /\ LET k == Step1(p).id
         free == /\ intents[k] = "none"
                 /\ \A j \in Keys : intents[j] \notin {"PENDING", "PROCESSING"}
     IN Then(p, IF free THEN <<Do("createPayment", k, Step1(p).to)>> ELSE <<>>)
  /\ UNCHANGED <<rows, due, payments, jobs, faults>>

\* createYookassaPayment: the provider knows the key and makes one payment of it.
OpenPayment(k) == payments' = [payments EXCEPT ![k] = IF @ = "none" THEN "open" ELSE @]

\* Then the decision about AWAITING_PAYMENT, from the session as first read.
CreatePayment(p) ==
  /\ Next1(p, "createPayment")
  /\ LET k == Step1(p).id
         awaiting == TryCheckout(Step1(p).to, "AWAITING_PAYMENT", "system")
     IN /\ OpenPayment(k)
        /\ Then(p, (IF awaiting = "allowed"
                    THEN <<Do("setSession", NoId, "AWAITING_PAYMENT")>> ELSE <<>>)
                   \o <<Do("insertIntent", k, "PENDING")>>)
  /\ UNCHANGED <<rows, due, jobs, faults>>

\* paymentIntent.create: a second row of the same key is refused (P2002).
InsertIntent(p) ==
  /\ Next1(p, "insertIntent")
  /\ intents' = [intents EXCEPT ![Step1(p).id] = IF @ = "none" THEN "PENDING" ELSE @]
  /\ Drop1(p)
  /\ UNCHANGED <<session, orders, sales, due, payments, jobs, faults>>

\* The transaction of markPaid.  recordSale is awaited inside it but writes
\* through another connection, and its failure is only logged.
CommitPaid(p) ==
  /\ Next1(p, "commitPaid")
  /\ LET k == Step1(p).id
     IN /\ intents' = [intents EXCEPT ![k] = "PAID"]
        /\ session' = IF Step1(p).to = "COMPLETED" THEN "COMPLETED" ELSE session
        /\ \/ sales' = [sales EXCEPT ![k] = @ + 1] /\ UNCHANGED faults
           \/ faults < MaxFaults /\ faults' = faults + 1 /\ UNCHANGED sales
  /\ Drop1(p)
  /\ UNCHANGED <<orders, due, payments, jobs>>

Continue(p) == \/ SetOrder(p) \/ SetSession(p) \/ SetIntent(p) \/ ExpireSession(p)
               \/ FindIntents(p) \/ CreatePayment(p) \/ InsertIntent(p) \/ CommitPaid(p)

-----------------------------------------------------------------------------
(***************************************************************************)
(* The world: time, the buyer at the provider's page, failures.            *)
(***************************************************************************)
Expire ==
  /\ ~due
  /\ due' = TRUE
  /\ UNCHANGED <<rows, todo, payments, jobs, faults>>

\* The buyer has the payment's URL once the intent is stored.
BuyerPays(k) ==
  /\ payments[k] = "open" /\ intents[k] # "none"
  /\ payments' = [payments EXCEPT ![k] = "succeeded"]
  /\ SetJob(k, "waiting")
  /\ UNCHANGED <<rows, due, todo, faults>>

ProviderCancels(k) ==
  /\ payments[k] = "open"
  /\ payments' = [payments EXCEPT ![k] = "canceled"]
  /\ SetJob(k, "waiting")
  /\ UNCHANGED <<rows, due, todo, faults>>

Fault == faults < MaxFaults /\ faults' = faults + 1

AfterThrow(job) == IF job.state = "active" THEN FailedAttempt(job) ELSE job

AfterRestart(job) ==
  IF job.state # "active" THEN job
  ELSE [job EXCEPT !.stalls = @ + 1,
                   !.state = IF job.stalls < MaxStalls THEN "waiting" ELSE "failed"]

\* One await of a handler throws; of markPaid, possibly after the ledger write.
Throw(p) ==
  /\ Fault
  /\ todo[p] # <<>>
  /\ Then(p, <<>>)
  /\ jobs' = IF p = Worker THEN [k \in Keys |-> AfterThrow(jobs[k])] ELSE jobs
  /\ \/ UNCHANGED sales
     \/ /\ Next1(p, "commitPaid")
        /\ sales' = [sales EXCEPT ![Step1(p).id] = @ + 1]
  /\ UNCHANGED <<session, orders, intents, due, payments>>

Crash ==
  /\ Fault
  /\ Busy # {}
  /\ todo' = [p \in Everyone |-> <<>>]
  /\ jobs' = [k \in Keys |-> AfterRestart(jobs[k])]
  /\ UNCHANGED <<rows, due, payments>>

Next ==
  \/ \E p \in Procs :
       \/ \E o \in Orders, to \in OrderStatuses :
            SupplierDecides(p, o, to) \/ AdminDecides(p, o, to)
       \/ \E to \in CheckoutStatuses : AdminUpdatesSession(p, to)
       \/ FillContacts(p) \/ RunExpiry(p)
       \/ \E k \in Keys : Pay(p, k) \/ CancelIntent(p, k) \/ GenericEvent(p, k)
  \/ \E k \in Keys : TakeJob(k) \/ FinishJob(k) \/ RetryFailedJob(k)
                     \/ BuyerPays(k) \/ ProviderCancels(k)
  \/ \E p \in Everyone : Continue(p) \/ Throw(p)
  \/ Expire \/ Crash

Spec == Init /\ [][Next]_vars

\* The event loop resumes a handler, the worker takes its jobs and the cron
\* fires again and again; nobody is obliged to pay, confirm or click.
Fairness ==
  /\ \A p \in Everyone : WF_vars(Continue(p))
  /\ \A k \in Keys : SF_vars(TakeJob(k)) /\ WF_vars(FinishJob(k))

FairSpec == Spec /\ Fairness

-----------------------------------------------------------------------------
(***************************************************************************)
(* When handlers do not overlap, every write of a status, by whichever     *)
(* handler and after whatever crash, follows an edge of the declared       *)
(* tables.                                                                 *)
(***************************************************************************)
WritesFollowTables ==
  [][/\ CanByAnyone(CheckoutTransitions, session, session')
     /\ \A o \in Orders : CanByAnyone(OrderTransitions, orders[o], orders'[o])
     /\ \A k \in Keys : \/ intents[k] = "none"
                        \/ CanByAnyone(PaymentTransitions, intents[k], intents'[k])
    ]_vars

(***************************************************************************)
(* "Is there no active (PENDING/PROCESSING) intent of this session yet?"   *)
(* (payment.service.ts:93, answered 409): a session has at most one intent *)
(* that may still be paid.  Holds while requests do not overlap; two       *)
(* concurrent POST /pay with different keys break it.                      *)
(***************************************************************************)
AtMostOneActiveIntent ==
  \A j, k \in Keys : {intents[j], intents[k]} \subseteq {"PENDING", "PROCESSING"}
                       => j = k

(***************************************************************************)
(* Unless something failed, a sale is in the supplier's ledger once for    *)
(* each intent that is PAID, and for no other: retries, repeated events    *)
(* and cancellations included, as long as handlers do not overlap.         *)
(***************************************************************************)
BookedOnce ==
  faults = 0 => \A k \in Keys : sales[k] = IF intents[k] = "PAID" THEN 1 ELSE 0

(***************************************************************************)
(* The buyer is charged twice for a session only if one of the two intents *)
(* was given up (cancelled by the buyer, or declared FAILED) while its     *)
(* payment was still open at the provider.                                 *)
(***************************************************************************)
GivenUp(k) == intents[k] \in {"CANCELLED", "FAILED"}

ChargedAtMostOnce ==
  \A j, k \in Keys :
    payments[j] = "succeeded" /\ payments[k] = "succeeded" /\ j # k
      => GivenUp(j) \/ GivenUp(k)

(***************************************************************************)
(* Where no administrator has set the session by hand, a cart with         *)
(* requests that the buyer may pay for has an order that was confirmed,    *)
(* even when the supplier's handler died between its two writes: the order *)
(* is written first.                                                       *)
(***************************************************************************)
PayableCartHasConfirmedOrder ==
  session \in {"CONFIRMED", "AWAITING_PAYMENT"} /\ (\E o \in Orders : orders[o] # "none")
    => \E o \in Orders : orders[o] = "CONFIRMED"

(***************************************************************************)
(* Money taken is never forgotten: a payment that has succeeded is booked  *)
(* on its intent, or the intent still waits and a job of the queue knows   *)
(* of it, through any overlap, exception or restart.                       *)
(***************************************************************************)
ChargeIsAccounted ==
  \A k \in Keys : payments[k] = "succeeded" =>
    \/ intents[k] = "PAID"
    \/ intents[k] = "PENDING" /\ jobs[k].state \in {"waiting", "active", "failed"}

(***************************************************************************)
(* Where no administrator has set the session by hand, it is COMPLETED     *)
(* only with a PAID intent, also after a crash: the two are written in one *)
(* transaction.                                                            *)
(***************************************************************************)
CompletedHasPaidIntent ==
  session = "COMPLETED" => \E k \in Keys : intents[k] = "PAID"

(***************************************************************************)
(* A successful payment ends up on its intent, in spite of one exception   *)
(* or restart while its job is running.                                    *)
(***************************************************************************)
ChargeIsBooked ==
  \A k \in Keys : payments[k] = "succeeded" ~> intents[k] = "PAID"
=============================================================================

----------------------------- MODULE Fulfillment -----------------------------
(***************************************************************************)
(* What happens to the line items of one session from the job of its       *)
(* successful payment on: FulfillmentService (create the items, reserve,   *)
(* confirm, retry, escalate), RefundService (automatic compensation,       *)
(* partial and full refund), the worker and crons that run them, and the   *)
(* administrator's endpoints that run the same code outside the queue.     *)
(*                                                                         *)
(* As in module Checkout a running handler is the sequence of awaits it    *)
(* has still to take; what a step has read travels in the steps after it.  *)
(* The booking providers and YooKassa's refunds are external: a provider   *)
(* call has the outcomes its adapter can return.                           *)
(*                                                                         *)
(* Time is not counted: a retry that was scheduled may be due, and the 15  *)
(* minutes of the administrator may be over, at any later moment.          *)
(***************************************************************************)
EXTENDS Naturals, FiniteSets, SequencesExt, FiniteSetsExt, StateMachines

CONSTANTS
  Items,         \* line items of offersSnapshot
  NoItem,
  External,      \* those whose purchaseFlow is EXTERNAL
  Provider,      \* booking adapter of each item: INTERNAL, PARTNER or TC
  Price,         \* lineTotal of each item
  Discount,      \* what promo code and gift certificate take off the total
  Paying,        \* statuses the session may have when the payment arrives
  Worker,        \* the worker of the fulfillment queue (concurrency 1)
  Admins,        \* administrator requests that may be in progress
  AdminRoles,    \* what they do: subset of {"retry", "partial", "full"}
  MaxOverlap,    \* bound: handlers in progress at one time
  MaxOrders,     \* bound: how far the orders of one item are counted
  MaxFaults      \* bound: crashes, failed or timed-out calls

Platform  == Items \ External
Total(is) == MapThenSumSet(LAMBDA i : Price[i], is)
Captured  == Total(Platform) - Discount

MaxRetryAttempts == 3
MaxJobAttempts   == 3
MaxStalls        == 1

ItemStatuses == {"none", "PENDING", "RESERVING", "RESERVED", "CONFIRMED",
                 "FAILED", "REFUNDED"}
Settled      == {"CONFIRMED", "FAILED", "CANCELLED", "REFUNDED"}  \* FULFILLMENT_TERMINAL

ASSUME FulfillmentAssumption ==
  /\ IsFiniteSet(Items) /\ External \subseteq Items /\ NoItem \notin Items
  /\ Provider \in [Items -> {"INTERNAL", "PARTNER", "TC"}]
  /\ Price \in [Items -> Nat \ {0}]
  /\ Discount \in Nat /\ Discount < Total(Platform)
  /\ Paying \subseteq CheckoutStatuses
  /\ AdminRoles \subseteq {"retry", "partial", "full"}
  /\ Worker \notin Admins
  /\ MaxOverlap \in Nat /\ MaxFaults \in Nat /\ MaxOrders \in Nat \ {0}

VARIABLES
  session,      \* CheckoutSession.status
  intent,       \* PaymentIntent.status
  items,        \* the FulfillmentItem row of each line
  todo,         \* the steps each handler has still to take
  job,          \* the 'yookassa-webhook' job of the payment
  orders,       \* external: TC's orders that the adapter was told of, by item
  lost,         \* external: items with an order at TC whose answer never came
  booked,       \* external: items whose order TC has confirmed
  refunds,      \* external: refunds YooKassa has made, by idempotency key
  canceled,     \* external: keys YooKassa has answered with status 'canceled'
  faults

vars == <<session, intent, items, todo, job, orders, lost, booked, refunds, canceled, faults>>
outside == <<orders, lost, booked, refunds, canceled>>

Everyone == Admins \cup {Worker}

Row == [status : ItemStatuses, attempts : Nat, retry : BOOLEAN,
        escalated : BOOLEAN, refunded : BOOLEAN]

\* What a refund is made for: some items, or all of the session.
FullKey    == {NoItem}
RefundKeys == (SUBSET Items) \cup {FullKey}

StepKinds == {"markPaid", "start", "findItems", "setReserving", "reserve",
  "setReserved", "confirm", "setConfirmed", "fail", "setRetry", "setFailed", "checkItems",
  "completeSession", "resetFailed", "findFailed", "findPaid", "readIntent",
  "refund", "setRefunded", "setIntentRefunded", "refundAll"}

\* A step: what to do, for which item, with which number, for which set of items.
Do(kind)           == [do |-> kind, item |-> NoItem, n |-> 0, of |-> {}]
DoItem(kind, i)    == [Do(kind) EXCEPT !.item = i]
DoCount(kind, i, n) == [DoItem(kind, i) EXCEPT !.n = n]
DoSet(kind, is)    == [Do(kind) EXCEPT !.of = is]

HandlerSteps == [do : StepKinds, item : Items \cup {NoItem}, n : Nat,
                 of : RefundKeys]

StateTyped ==
  /\ session \in CheckoutStatuses
  /\ intent \in PaymentStatuses
  /\ items \in [Items -> Row]
  /\ todo \in [Everyone -> Seq(HandlerSteps)]
  /\ job \in [state : {"waiting", "active", "completed", "failed"},
              failures : 0..MaxJobAttempts, stalls : 0..(MaxStalls + 1)]
  /\ orders \in [Items -> 0..MaxOrders]
  /\ lost \subseteq Items
  /\ booked \subseteq Items
  /\ canceled \subseteq RefundKeys
  /\ faults \in Nat

TypeOK == /\ StateTyped
          /\ refunds \subseteq [key : RefundKeys, amount : Nat]

NoRow == [status |-> "none", attempts |-> 0, retry |-> FALSE,
          escalated |-> FALSE, refunded |-> FALSE]

\* The payment has succeeded and its event is in the queue.
Init ==
  /\ session \in Paying
  /\ intent = "PENDING"
  /\ items = [i \in Items |-> NoRow]
  /\ todo = [p \in Everyone |-> <<>>]
  /\ job = [state |-> "waiting", failures |-> 0, stalls |-> 0]
  /\ orders = [i \in Items |-> 0]
  /\ lost = {}
  /\ booked = {}
  /\ refunds = {}
  /\ canceled = {}
  /\ faults = 0

-----------------------------------------------------------------------------
(***************************************************************************)
(* Handlers begin.                                                         *)
(***************************************************************************)
Busy == {p \in Everyone : todo[p] # <<>>}

Begin(p, steps) ==
  /\ todo[p] = <<>>
  /\ Cardinality(Busy) < MaxOverlap
  /\ todo' = [todo EXCEPT ![p] = steps]
  /\ UNCHANGED <<session, intent, items, outside, faults>>

WorkerIdle == todo[Worker] = <<>> /\ job.state # "active"

\* processPaymentEvent: markPaid, startFulfillment, executeFulfillment.
TakeJob ==
  /\ WorkerIdle /\ job.state = "waiting"
  /\ Begin(Worker, <<Do("markPaid"), Do("start"), Do("findItems")>>)
  /\ job' = [job EXCEPT !.state = "active"]

FinishJob ==
  /\ job.state = "active" /\ todo[Worker] = <<>>
  /\ job' = [job EXCEPT !.state = "completed"]
  /\ UNCHANGED <<session, intent, items, todo, outside, faults>>

\* The 'fulfillment-retry' job of the cron: retryPendingItems.
RunRetry ==
  /\ WorkerIdle
  /\ \E i \in Items : /\ items[i].status \in {"PENDING", "RESERVING"}
                      /\ items[i].retry /\ items[i].attempts < MaxRetryAttempts
  /\ Begin(Worker, <<Do("findItems")>>)
  /\ UNCHANGED job

\* The 'auto-compensate' job of the cron: autoCompensate.
RunCompensate ==
  /\ WorkerIdle
  /\ \E i \in Items : /\ items[i].status = "FAILED"
                      /\ items[i].escalated /\ ~items[i].refunded
  /\ Begin(Worker, <<Do("findFailed")>>)
  /\ UNCHANGED job

\* retryFulfillment and forceRefund of the administrator.
AdminRetries(p) ==
  /\ "retry" \in AdminRoles
  /\ Begin(p, <<Do("resetFailed"), Do("findItems")>>)
  /\ UNCHANGED job

AdminRefunds(p) ==
  /\ \/ "partial" \in AdminRoles /\ Begin(p, <<Do("findFailed")>>)
     \/ "full" \in AdminRoles /\ Begin(p, <<Do("readIntent")>>)
  /\ UNCHANGED job

\* An exception in a job: BullMQ tries again, three times in all.
JobAfterThrow ==
  IF job.state # "active" THEN job
  ELSE [job EXCEPT !.failures = @ + 1,
                   !.state = IF job.failures + 1 >= MaxJobAttempts
                             THEN "failed" ELSE "waiting"]

-----------------------------------------------------------------------------
(***************************************************************************)
(* Handlers go on.  Replace(p, steps) puts what a step has decided in the  *)
(* place of the step.                                                      *)
(***************************************************************************)
At(p, kind) == todo[p] # <<>> /\ Head(todo[p]).do = kind
Cur(p)      == Head(todo[p])
Replace(p, steps) == todo' = [todo EXCEPT ![p] = steps \o Tail(@)]
Done(p)     == Replace(p, <<>>)

\* markPaid, as in module Checkout: intent and session in one transaction.  A
\* refused transition throws, and fails the attempt of the job.
MarkPaid(p) ==
  /\ At(p, "markPaid")
  /\ LET answer == TryPayment(intent, "PAID", "system")
     IN \/ /\ answer = "allowed"
           /\ intent' = "PAID"
           /\ session' = IF TryCheckout(session, "COMPLETED", "system") = "allowed"
                         THEN "COMPLETED" ELSE session
           /\ Done(p)
           /\ UNCHANGED job
        \/ /\ answer = "noOp"
           /\ Done(p)
           /\ UNCHANGED <<session, intent, job>>
        \/ /\ answer = "denied"
           /\ todo' = [todo EXCEPT ![p] = <<>>]
           /\ job' = JobAfterThrow
           /\ UNCHANGED <<session, intent>>
  /\ UNCHANGED <<items, outside, faults>>

\* startFulfillment: nothing if there are items already.
Start(p) ==
  /\ At(p, "start")
  /\ items' = IF \E i \in Items : items[i].status # "none" THEN items
              ELSE [i \in Items |-> [NoRow EXCEPT !.status = "PENDING"]]
  /\ Done(p)
  /\ UNCHANGED <<session, intent, job, outside, faults>>

\* executeFulfillment reads the items once, and goes through what it has read.
Each(kind, is) == [n \in 1..Cardinality(is) |-> DoItem(kind, SetToSeq(is)[n])]

\* A bug the code avoids: RESERVED items are picked up again as well.
FindUnconfirmed(p) ==
  /\ At(p, "findItems")
  /\ LET open == {i \in Platform :
                    items[i].status \in {"PENDING", "RESERVING", "RESERVED"}}
     IN Replace(p, Append(Each("setReserving", open), Do("checkItems")))
  /\ UNCHANGED <<session, intent, items, job, outside, faults>>

FindItems(p) ==
  /\ At(p, "findItems")
  /\ LET open == {i \in Platform : items[i].status \in {"PENDING", "RESERVING"}}
     IN Replace(p, Append(Each("setReserving", open), Do("checkItems")))
  /\ UNCHANGED <<session, intent, items, job, outside, faults>>

\* provider.reserve follows.
SetReserving(p) ==
  /\ At(p, "setReserving")
  /\ LET i == Cur(p).item
     IN /\ items' = [items EXCEPT ![i].status = "RESERVING"]
        /\ Replace(p, <<DoItem("reserve", i)>>)
  /\ UNCHANGED <<session, intent, job, outside, faults>>

SetStatus(p, kind, status) ==
  /\ At(p, kind)
  /\ items' = [items EXCEPT ![Cur(p).item].status = status]
  /\ Done(p)
  /\ UNCHANGED <<session, intent, job, outside, faults>>

SetReserved(p)  == SetStatus(p, "setReserved", "RESERVED")
SetConfirmed(p) == SetStatus(p, "setConfirmed", "CONFIRMED")

\* reserve of our own adapter, by whether its refusal may be retried; the
\* partner's adapter always accepts, TC's calls out and may always be retried.
InternalRefusals == {0, 1}
PartnerRefusals  == {}
TcRefusals       == {1}

Refusals(i) == CASE Provider[i] = "INTERNAL" -> InternalRefusals
                 [] Provider[i] = "PARTNER"  -> PartnerRefusals
                 [] Provider[i] = "TC"       -> TcRefusals

\* Only the TC adapter calls out.  It creates an order at each call, and pays
\* no heed to the idempotency key; the others name a reservation after the item
\* and ask nobody.
CallsOut(i) == Provider[i] = "TC"

AfterReserve(i) ==
  IF ~CallsOut(i) THEN orders
  ELSE [orders EXCEPT ![i] = IF @ < MaxOrders THEN @ + 1 ELSE @]

\* A call that times out is a refusal to the adapter, and may leave an order.
Refuse(p, i) ==
  /\ \E retryable \in Refusals(i) : Replace(p, <<DoCount("fail", i, retryable)>>)
  /\ UNCHANGED orders
  /\ \/ UNCHANGED lost
     \/ CallsOut(i) /\ lost' = lost \cup {i}

\* A bug the code avoids: a reservation is taken for a confirmed order.
ReserveIsEnough(p) ==
  /\ At(p, "reserve")
  /\ LET i == Cur(p).item
     IN \/ /\ Replace(p, <<DoItem("setReserved", i), DoItem("setConfirmed", i)>>)
           /\ orders' = AfterReserve(i)
           /\ UNCHANGED lost
        \/ Refuse(p, i)
  /\ UNCHANGED <<session, intent, items, job, booked, refunds, canceled, faults>>

\* provider.reserve.
Reserve(p) ==
  /\ At(p, "reserve")
  /\ LET i == Cur(p).item
     IN \/ /\ Replace(p, <<DoItem("setReserved", i), DoItem("confirm", i)>>)
           /\ orders' = AfterReserve(i)
           /\ UNCHANGED lost
        \/ Refuse(p, i)
  /\ UNCHANGED <<session, intent, items, job, booked, refunds, canceled, faults>>

\* provider.confirm: the others accept without asking anybody.  A failure may be
\* retried, and TC may have confirmed all the same, its answer being lost.
Confirm(p) ==
  /\ At(p, "confirm")
  /\ LET i == Cur(p).item
     IN \/ /\ Replace(p, <<DoItem("setConfirmed", i)>>)
           /\ booked' = IF CallsOut(i) THEN booked \cup {i} ELSE booked
        \/ /\ CallsOut(i)
           /\ Replace(p, <<DoCount("fail", i, 1)>>)
           /\ booked' \in {booked, booked \cup {i}}
  /\ UNCHANGED <<session, intent, items, job, orders, lost, refunds, canceled, faults>>

\* A bug the code avoids: off by one, the last attempt is scheduled for a retry
\* that retryPendingItems does not select.
ReadAttemptsOffByOne(p) ==
  /\ At(p, "fail")
  /\ LET i == Cur(p).item
         n == items[i].attempts + 1
         again == Cur(p).n = 1 /\ n <= MaxRetryAttempts
     IN Replace(p, <<DoCount(IF again THEN "setRetry" ELSE "setFailed", i, n)>>)
  /\ UNCHANGED <<session, intent, items, job, outside, faults>>

\* handleItemFailure reads attemptCount and decides; its step brings 1 if the
\* failure is retryable and 0 if not.
ReadAttempts(p) ==
  /\ At(p, "fail")
  /\ LET i == Cur(p).item
         n == items[i].attempts + 1
         again == Cur(p).n = 1 /\ n < MaxRetryAttempts
     IN Replace(p, <<DoCount(IF again THEN "setRetry" ELSE "setFailed", i, n)>>)
  /\ UNCHANGED <<session, intent, items, job, outside, faults>>

\* Retry later, leaving the status alone.
SetRetry(p) ==
  /\ At(p, "setRetry")
  /\ items' = [items EXCEPT ![Cur(p).item].attempts = Cur(p).n,
                            ![Cur(p).item].retry = TRUE]
  /\ Done(p)
  /\ UNCHANGED <<session, intent, job, outside, faults>>

\* A bug the code avoids: a status the schema does not have.
SetEscalated(p) ==
  /\ At(p, "setFailed")
  /\ items' = [items EXCEPT ![Cur(p).item].status = "ESCALATED"]
  /\ Done(p)
  /\ UNCHANGED <<session, intent, job, outside, faults>>

SetFailed(p) ==
  /\ At(p, "setFailed")
  /\ items' = [items EXCEPT ![Cur(p).item].attempts = Cur(p).n,
                            ![Cur(p).item].status = "FAILED",
                            ![Cur(p).item].escalated = TRUE]
  /\ Done(p)
  /\ UNCHANGED <<session, intent, job, outside, faults>>

\* checkCompletion: the items, then the session.
CheckItems(p) ==
  /\ At(p, "checkItems")
  /\ LET rows == {i \in Items : items[i].status # "none"}
         fulfilled == rows # {} /\ \A i \in rows : items[i].status \in Settled
     IN Replace(p, IF fulfilled THEN <<Do("completeSession")>> ELSE <<>>)
  /\ UNCHANGED <<session, intent, items, job, outside, faults>>

CompleteSession(p) ==
  /\ At(p, "completeSession")
  /\ session' = IF TryCheckout(session, "COMPLETED", "system") = "allowed"
                THEN "COMPLETED" ELSE session
  /\ Done(p)
  /\ UNCHANGED <<intent, items, job, outside, faults>>

\* A bug the code avoids: the reset is not restricted to FAILED items.
ResetUnconfirmed(p) ==
  /\ At(p, "resetFailed")
  /\ items' = [i \in Items |->
       IF items[i].status \in {"none", "CONFIRMED"} THEN items[i]
       ELSE [NoRow EXCEPT !.status = "PENDING"]]
  /\ Done(p)
  /\ UNCHANGED <<session, intent, job, outside, faults>>

\* updateMany of retryFulfillment.
ResetFailed(p) ==
  /\ At(p, "resetFailed")
  /\ items' = [i \in Items |->
       IF items[i].status # "FAILED" THEN items[i]
       ELSE [items[i] EXCEPT !.status = "PENDING", !.attempts = 0,
                             !.retry = FALSE, !.escalated = FALSE]]
  /\ Done(p)
  /\ UNCHANGED <<session, intent, job, outside, faults>>

-----------------------------------------------------------------------------
(***************************************************************************)
(* Refunds.                                                                *)
(***************************************************************************)

\* A bug the code avoids: items refunded before are summed up once more.
FindFailedOrRefunded(p) ==
  /\ At(p, "findFailed")
  /\ LET gone == {i \in Items : items[i].status \in {"FAILED", "REFUNDED"}}
     IN Replace(p, IF gone = {} THEN <<>> ELSE <<DoSet("findPaid", gone)>>)
  /\ UNCHANGED <<session, intent, items, job, outside, faults>>

\* partialRefund: the FAILED items; the step carries them on.
FindFailed(p) ==
  /\ At(p, "findFailed")
  /\ LET failed == {i \in Items : items[i].status = "FAILED"}
     IN Replace(p, IF failed = {} THEN <<>> ELSE <<DoSet("findPaid", failed)>>)
  /\ UNCHANGED <<session, intent, items, job, outside, faults>>

\* A bug the code avoids: the items are marked before YooKassa is called.
FindPaidAndMark(p) ==
  /\ At(p, "findPaid")
  /\ LET failed == Cur(p).of
     IN Replace(p,
          IF intent # "PAID" THEN <<>>
          ELSE IF Total(failed) >= Captured THEN <<Do("readIntent")>>
          ELSE Append(Each("setRefunded", failed), DoSet("refund", failed)))
  /\ UNCHANGED <<session, intent, items, job, outside, faults>>

\* The PAID intent; a sum that reaches its amount becomes a full refund.
FindPaid(p) ==
  /\ At(p, "findPaid")
  /\ LET failed == Cur(p).of
     IN Replace(p,
          IF intent # "PAID" THEN <<>>
          ELSE IF Total(failed) >= Captured THEN <<Do("readIntent")>>
          ELSE <<DoSet("refund", failed)>> \o Each("setRefunded", failed))
  /\ UNCHANGED <<session, intent, items, job, outside, faults>>

\* A bug the code avoids: the intent is marked before YooKassa is called.
ReadIntentAndMark(p) ==
  /\ At(p, "readIntent")
  /\ Replace(p, IF TryPayment(intent, "REFUNDED", "system") = "allowed"
                THEN <<Do("setIntentRefunded"), DoSet("refund", FullKey),
                       Do("refundAll")>>
                ELSE <<>>)
  /\ UNCHANGED <<session, intent, items, job, outside, faults>>

\* fullRefund reads the intent again.
ReadIntent(p) ==
  /\ At(p, "readIntent")
  /\ Replace(p, IF TryPayment(intent, "REFUNDED", "system") = "allowed"
                THEN <<DoSet("refund", FullKey), Do("setIntentRefunded"),
                       Do("refundAll")>>
                ELSE <<>>)
  /\ UNCHANGED <<session, intent, items, job, outside, faults>>

Refunded == MapThenSumSet(LAMBDA r : r.amount, refunds)

\* createYookassaRefund.  The key is made of the intent and, for a partial
\* refund, the items.  YooKassa answers a known key as it has answered before,
\* and refuses to return more than was captured; the refusal is an exception.
\* It may also answer that the refund is 'canceled': no money is returned, and
\* RefundService, which does not look at the status, goes on all the same.
RefundOf(key)  == [key |-> key, amount |-> IF key = FullKey THEN Captured ELSE Total(key)]
Returned(key)  == \E r \in refunds : r.key = key
Known(key)     == Returned(key) \/ key \in canceled
Refusable(key) == ~Known(key) /\ Refunded + RefundOf(key).amount > Captured

YookassaReturns(key) ==
  /\ key \notin canceled /\ ~Refusable(key)
  /\ refunds' = IF Returned(key) THEN refunds ELSE refunds \cup {RefundOf(key)}
  /\ UNCHANGED canceled

YookassaCancels(key) ==
  /\ ~Returned(key)
  /\ canceled' = canceled \cup {key}
  /\ UNCHANGED refunds

CallRefund(p) ==
  /\ At(p, "refund")
  /\ LET key == Cur(p).of
     IN \/ YookassaReturns(key) /\ Done(p)
        \/ YookassaCancels(key) /\ Done(p)
        \/ /\ Refusable(key)
           /\ todo' = [todo EXCEPT ![p] = <<>>]
           /\ UNCHANGED <<refunds, canceled>>
  /\ UNCHANGED <<session, intent, items, job, orders, lost, booked, faults>>

SetRefunded(p) ==
  /\ At(p, "setRefunded")
  /\ items' = [items EXCEPT ![Cur(p).item].status = "REFUNDED",
                            ![Cur(p).item].refunded = TRUE]
  /\ Done(p)
  /\ UNCHANGED <<session, intent, job, outside, faults>>

SetIntentRefunded(p) ==
  /\ At(p, "setIntentRefunded")
  /\ intent' = "REFUNDED"
  /\ Done(p)
  /\ UNCHANGED <<session, items, job, outside, faults>>

\* updateMany of fullRefund: every item of the session.
RefundAll(p) ==
  /\ At(p, "refundAll")
  /\ items' = [i \in Items |->
       IF items[i].status = "none" THEN items[i]
       ELSE [items[i] EXCEPT !.status = "REFUNDED", !.refunded = TRUE]]
  /\ Done(p)
  /\ UNCHANGED <<session, intent, job, outside, faults>>

-----------------------------------------------------------------------------
Continue(p) ==
  \/ MarkPaid(p) \/ Start(p) \/ FindItems(p)
  \/ SetReserving(p) \/ Reserve(p) \/ SetReserved(p) \/ Confirm(p) \/ SetConfirmed(p)
  \/ ReadAttempts(p) \/ SetRetry(p) \/ SetFailed(p) \/ CheckItems(p) \/ CompleteSession(p)
  \/ ResetFailed(p)
  \/ FindFailed(p) \/ FindPaid(p) \/ ReadIntent(p) \/ CallRefund(p)
  \/ SetRefunded(p) \/ SetIntentRefunded(p) \/ RefundAll(p)

Fault == faults < MaxFaults /\ faults' = faults + 1

JobAfterRestart ==
  IF job.state # "active" THEN job
  ELSE [job EXCEPT !.stalls = @ + 1,
                   !.state = IF job.stalls < MaxStalls THEN "waiting" ELSE "failed"]

\* A call throws; YooKassa may have answered all the same.  The adapters catch
\* what their calls throw.
Throw(p) ==
  /\ Fault
  /\ todo[p] # <<>> /\ ~At(p, "reserve") /\ ~At(p, "confirm")
  /\ todo' = [todo EXCEPT ![p] = <<>>]
  /\ job' = IF p = Worker THEN JobAfterThrow ELSE job
  /\ \/ UNCHANGED <<refunds, canceled>>
     \/ At(p, "refund") /\ (YookassaReturns(Cur(p).of) \/ YookassaCancels(Cur(p).of))
  /\ UNCHANGED <<session, intent, items, orders, lost, booked>>

Crash ==
  /\ Fault
  /\ Busy # {}
  /\ todo' = [p \in Everyone |-> <<>>]
  /\ job' = JobAfterRestart
  /\ UNCHANGED <<session, intent, items, outside>>

Next ==
  \/ TakeJob \/ FinishJob \/ RunRetry \/ RunCompensate \/ Crash
  \/ \E p \in Admins : AdminRetries(p) \/ AdminRefunds(p)
  \/ \E p \in Everyone : Continue(p) \/ Throw(p)

Spec == Init /\ [][Next]_vars

\* Handlers run on, and the worker gets to every job: the queue is first in,
\* first out, and the scheduler adds both cron jobs each minute.
Fairness ==
  /\ \A p \in Everyone : WF_vars(Continue(p))
  /\ SF_vars(TakeJob) /\ WF_vars(FinishJob)
  /\ SF_vars(RunRetry) /\ SF_vars(RunCompensate)

FairSpec == Spec /\ Fairness

-----------------------------------------------------------------------------
(***************************************************************************)
(* A TC line shown to the buyer as CONFIRMED has an order at TC that TC    *)
(* has confirmed, whoever ran the handlers and however they were           *)
(* interrupted.  The other adapters confirm without asking anybody.        *)
(***************************************************************************)
ConfirmedIsBooked ==
  \A i \in Items : items[i].status = "CONFIRMED" /\ CallsOut(i) =>
                    i \in booked /\ orders[i] >= 1

(***************************************************************************)
(* A line or an intent marked REFUNDED has an answer of YooKassa: the mark *)
(* never precedes the answer to a refund that covers it, whatever crashes  *)
(* and failures there are and whoever refunds beside.                      *)
(***************************************************************************)
RefundedIsAnswered ==
  /\ intent = "REFUNDED" => Known(FullKey)
  /\ \A i \in Items : items[i].status = "REFUNDED" =>
       \/ Known(FullKey)
       \/ \E r \in refunds : i \in r.key
       \/ \E key \in canceled : i \in key

(***************************************************************************)
(* As long as nothing but the provider fails, a line whose order TC has    *)
(* reported is never reserved again: a second order only comes of one      *)
(* whose answer was lost.  It is the choice of the items executeFulfillment *)
(* picks up that sees to this, for the adapter ignores the key.            *)
(***************************************************************************)
OneAnsweredOrder == faults = 0 => \A i \in Items : orders[i] <= 1

(***************************************************************************)
(* No more money is returned than the lines that were lost are worth,      *)
(* while handlers do not overlap and nothing but the provider fails.       *)
(***************************************************************************)
RefundsCoverLosses ==
  faults = 0 => Refunded <= Total({i \in Items : items[i].status \in {"FAILED", "REFUNDED"}})

(***************************************************************************)
(* The outcome of a line as the buyer sees it, and OrderSettlement's       *)
(* promise: about every platform line, and about those whose provider      *)
(* cannot fail once it has reserved.                                       *)
(***************************************************************************)
Outcome(row) == CASE row.status = "CONFIRMED" -> "delivered"
                  [] row.status = "REFUNDED"  -> "refunded"
                  [] row.status \notin {"CONFIRMED", "REFUNDED"} -> "open"

Sure == {i \in Platform : ~CallsOut(i)}

AllLines  == INSTANCE OrderSettlement
  WITH Lines <- Platform, outcome <- [i \in Platform |-> Outcome(items[i])]
SureLines == INSTANCE OrderSettlement
  WITH Lines <- Sure, outcome <- [i \in Sure |-> Outcome(items[i])]

\* Nothing but the provider fails, and no administrator interferes.
Unattended == faults = 0 /\ \A a \in Admins : todo[a] = <<>>

\* While handlers do not overlap no line is settled twice, or unsettled, by
\* whatever retries, refunds and restarts.
LinesSettleOnce == AllLines!SettledOnce

\* And left to the worker and the crons, a sure line does get settled, whatever
\* becomes of the lines beside it.
LinesSettle == []Unattended => SureLines!EachSettles

(***************************************************************************)
(* "One and the same key on all retries of one refund operation"           *)
(* (payment.service.ts:785): a line is never returned twice.  A retry      *)
(* after a crash, or after another line has failed, has another key.       *)
(***************************************************************************)
NoLineIsReturnedTwice ==
  \A i \in Items : Cardinality({r \in refunds : i \in r.key}) <= 1
=============================================================================

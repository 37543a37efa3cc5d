---------------------------- MODULE WebhookIngest ----------------------------
(***************************************************************************)
(* From an HTTP delivery of a payment event to a job of the fulfillment    *)
(* queue: CheckoutController.handleYookassaWebhook and                     *)
(* handlePaymentWebhook, with PaymentEventLogService.logOnce and           *)
(* WebhookIdempotencyService.processOnce inlined.                          *)
(*                                                                         *)
(* Deliveries run concurrently, one per handler.  Every await is a step of *)
(* its own: the insert into PaymentEventLog, the lookup in                 *)
(* ProcessedWebhookEvent, the handler function, the insert into            *)
(* ProcessedWebhookEvent.  The provider redelivers an event until it sees  *)
(* the answer 200, and may do so while an earlier delivery is running.     *)
(***************************************************************************)
EXTENDS Naturals, FiniteSets

CONSTANTS
  Handlers,         \* HTTP deliveries that may be running at one time
  YookassaEvents,   \* events of POST /checkout/webhook/yookassa
  GenericPaid,      \* events PAID / succeeded of POST /checkout/webhook/payment
  GenericFailed,    \* events FAILED / canceled of the same endpoint
  NoEvent,          \* the event of an idle handler
  MaxFaults         \* bound: process crashes, failed database or queue calls

Events == YookassaEvents \cup GenericPaid \cup GenericFailed

ASSUME IngestAssumption ==
  /\ MaxFaults \in Nat
  /\ YookassaEvents \cap GenericPaid = {}
  /\ YookassaEvents \cap GenericFailed = {}
  /\ GenericPaid \cap GenericFailed = {}
  /\ NoEvent \notin Events

VARIABLES
  eventLog,      \* rows of PaymentEventLog: unique (provider, eventType, paymentId)
  processed,     \* rows of ProcessedWebhookEvent: unique dedupeKey
  jobs,          \* jobs[e]: jobs added to the fulfillment queue for e
  handlerRuns,   \* handlerRuns[e]: times processOnce has called its handler for e
  pc,            \* next await of each handler
  ev,            \* the event each handler carries
  answered,      \* events the provider has seen a 200 for
  faults         \* faults so far

vars == <<eventLog, processed, jobs, handlerRuns, pc, ev, answered, faults>>

Steps == {"idle", "log", "find", "handle", "addJob", "record"}

TypeOK ==
  /\ eventLog \subseteq YookassaEvents
  /\ processed \subseteq Events
  /\ jobs \in [Events -> Nat]
  /\ handlerRuns \in [Events -> Nat]
  /\ pc \in [Handlers -> Steps]
  /\ ev \in [Handlers -> Events \cup {NoEvent}]
  /\ answered \subseteq Events
  /\ faults \in Nat

Init ==
  /\ eventLog = {}
  /\ processed = {}
  /\ jobs = [e \in Events |-> 0]
  /\ handlerRuns = [e \in Events |-> 0]
  /\ pc = [h \in Handlers |-> "idle"]
  /\ ev = [h \in Handlers |-> NoEvent]
  /\ answered = {}
  /\ faults = 0

-----------------------------------------------------------------------------
Goto(h, step) == pc' = [pc EXCEPT ![h] = step] /\ UNCHANGED ev

Leave(h) == /\ pc' = [pc EXCEPT ![h] = "idle"]
            /\ ev' = [ev EXCEPT ![h] = NoEvent]

\* The handler returns 200; the answer may be lost on its way to the provider.
Answer(h) == /\ Leave(h)
             /\ \/ answered' = answered \cup {ev[h]}
                \/ UNCHANGED answered

\* A bug the code avoids: generic events share YooKassa's audit log.
ReceiveAndLogAll(h, e) ==
  /\ pc[h] = "idle"
  /\ e \notin answered
  /\ pc' = [pc EXCEPT ![h] = "log"]
  /\ ev' = [ev EXCEPT ![h] = e]
  /\ UNCHANGED <<eventLog, processed, jobs, handlerRuns, answered, faults>>

\* The provider (re)delivers an event it has no answer for.
Receive(h, e) ==
  /\ pc[h] = "idle"
  /\ e \notin answered
  /\ pc' = [pc EXCEPT ![h] = IF e \in YookassaEvents THEN "log" ELSE "find"]
  /\ ev' = [ev EXCEPT ![h] = e]
  /\ UNCHANGED <<eventLog, processed, jobs, handlerRuns, answered, faults>>

\* A bug the code avoids: the log is appended to without its unique index.
LogOnceWithoutUniqueIndex(h) ==
  /\ pc[h] = "log"
  /\ eventLog' = eventLog \cup {ev[h]}
  /\ Goto(h, "find")
  /\ UNCHANGED <<processed, jobs, handlerRuns, answered, faults>>

\* logOnce: the unique index admits one insert; a duplicate is answered 200.
LogOnce(h) ==
  /\ pc[h] = "log"
  /\ \/ /\ ev[h] \notin eventLog
        /\ eventLog' = eventLog \cup {ev[h]}
        /\ Goto(h, "find")
        /\ UNCHANGED answered
     \/ /\ ev[h] \in eventLog
        /\ Answer(h)
        /\ UNCHANGED eventLog
  /\ UNCHANGED <<processed, jobs, handlerRuns, faults>>

\* A bug the code avoids: an event in the audit log counts as processed.
FindLogged(h) ==
  /\ pc[h] = "find"
  /\ \/ /\ ev[h] \in eventLog
        /\ Answer(h)
     \/ /\ ev[h] \notin eventLog
        /\ Goto(h, "handle")
        /\ UNCHANGED answered
  /\ UNCHANGED <<eventLog, processed, jobs, handlerRuns, faults>>

\* processOnce, first lookup.
FindProcessed(h) ==
  /\ pc[h] = "find"
  /\ \/ /\ ev[h] \in processed
        /\ Answer(h)
     \/ /\ ev[h] \notin processed
        /\ Goto(h, "handle")
        /\ UNCHANGED answered
  /\ UNCHANGED <<eventLog, processed, jobs, handlerRuns, faults>>

\* A bug the code avoids: the row is inserted before the handler is awaited.
RunHandlerAfterRecord(h) ==
  /\ pc[h] = "handle"
  /\ handlerRuns' = [handlerRuns EXCEPT ![ev[h]] = @ + 1]
  /\ processed' = processed \cup {ev[h]}
  /\ Goto(h, IF ev[h] \in GenericFailed THEN "record" ELSE "addJob")
  /\ UNCHANGED <<eventLog, jobs, answered, faults>>

\* processOnce calls the handler.  The generic handler awaits markPaid or
\* markFailed first; the YooKassa one goes straight to the queue.
RunHandler(h) ==
  /\ pc[h] = "handle"
  /\ handlerRuns' = [handlerRuns EXCEPT ![ev[h]] = @ + 1]
  /\ Goto(h, IF ev[h] \in GenericFailed THEN "record" ELSE "addJob")
  /\ UNCHANGED <<eventLog, processed, jobs, answered, faults>>

\* fulfillmentQueue.add('yookassa-webhook' | 'payment-paid').
AddJob(h) ==
  /\ pc[h] = "addJob"
  /\ jobs' = [jobs EXCEPT ![ev[h]] = @ + 1]
  /\ Goto(h, "record")
  /\ UNCHANGED <<eventLog, processed, handlerRuns, answered, faults>>

\* processOnce, the insert; P2002 means that a concurrent delivery was faster.
RecordProcessed(h) ==
  /\ pc[h] = "record"
  /\ processed' = processed \cup {ev[h]}
  /\ Answer(h)
  /\ UNCHANGED <<eventLog, jobs, handlerRuns, faults>>

\* The pending await of one handler throws: no write, no 200.
Throw(h) ==
  /\ pc[h] # "idle"
  /\ faults < MaxFaults
  /\ faults' = faults + 1
  /\ Leave(h)
  /\ UNCHANGED <<eventLog, processed, jobs, handlerRuns, answered>>

\* The backend restarts: every running handler is gone, the tables stay.
Crash ==
  /\ \E h \in Handlers : pc[h] # "idle"
  /\ faults < MaxFaults
  /\ faults' = faults + 1
  /\ pc' = [h \in Handlers |-> "idle"]
  /\ ev' = [h \in Handlers |-> NoEvent]
  /\ UNCHANGED <<eventLog, processed, jobs, handlerRuns, answered>>

Step(h) == \/ LogOnce(h) \/ FindProcessed(h) \/ RunHandler(h)
           \/ AddJob(h)  \/ RecordProcessed(h)

Next == \/ \E h \in Handlers : Step(h) \/ Throw(h)
        \/ \E h \in Handlers, e \in Events : Receive(h, e)
        \/ Crash

Spec == Init /\ [][Next]_vars

\* A running handler goes on, and the provider does not give up on an event.
\* Receive is strongly fair: a busy pool of handlers is a bound of the model.
Fairness == /\ \A h \in Handlers : WF_vars(Step(h))
            /\ \A e \in Events : SF_vars(\E h \in Handlers : Receive(h, e))

FairSpec == Spec /\ Fairness

-----------------------------------------------------------------------------
\* A handler that has passed the gate of the event log and not yet queued e.
OwesJob(h, e) == ev[h] = e /\ pc[h] \in {"find", "handle", "addJob"}

\* What a handler that has got this far has established; the four together
\* with TypeOK are the inductive invariant of WebhookIngestProofs.
CarriesEvent ==
  \A h \in Handlers : /\ pc[h] # "idle" => ev[h] \in Events
                      /\ pc[h] = "log" => ev[h] \in YookassaEvents

PastGateIsLogged ==
  \A h \in Handlers : pc[h] \notin {"idle", "log"} /\ ev[h] \in YookassaEvents
                        => ev[h] \in eventLog

OneOwner ==
  \A e \in YookassaEvents : \A g, h \in Handlers :
    OwesJob(g, e) /\ OwesJob(h, e) => g = h

QueuedHasNoOwner ==
  \A e \in YookassaEvents :
    /\ jobs[e] <= 1
    /\ jobs[e] = 1 => e \in eventLog /\ \A h \in Handlers : ~OwesJob(h, e)

AboutToRecord ==
  \A h \in Handlers :
    /\ pc[h] \in {"addJob", "record"} => handlerRuns[ev[h]] >= 1
    /\ pc[h] = "record" /\ ev[h] \notin GenericFailed => jobs[ev[h]] >= 1

(***************************************************************************)
(* However the provider repeats and overlaps its deliveries, and wherever  *)
(* they crash, a YooKassa event produces at most one 'yookassa-webhook'    *)
(* job: the insert of PaymentEventLog is the gate.                         *)
(***************************************************************************)
AtMostOneJob == \A e \in YookassaEvents : jobs[e] <= 1

(***************************************************************************)
(* A ProcessedWebhookEvent row is never written ahead of the work it       *)
(* vouches for: its handler has run, and its job, if it has one, is in the *)
(* queue.                                                                  *)
(***************************************************************************)
RecordedWorkIsDone ==
  \A e \in processed : /\ handlerRuns[e] >= 1
                       /\ e \notin GenericFailed => jobs[e] >= 1

(***************************************************************************)
(* As long as nothing has failed, an event the provider has been told is   *)
(* accepted is in the queue, or a handler that will put it there is        *)
(* running: answering a duplicate with 200 before the first delivery has   *)
(* finished is harmless.                                                   *)
(***************************************************************************)
AnsweredIsQueuedOrUnderWay ==
  faults = 0 => \A e \in answered \ GenericFailed :
                  jobs[e] >= 1 \/ \E h \in Handlers : OwesJob(h, e)

(***************************************************************************)
(* Ingestion implements EventDelivery.                                     *)
(***************************************************************************)
Delivery == INSTANCE EventDelivery
  WITH Events <- YookassaEvents, delivered <- [e \in YookassaEvents |-> jobs[e]]

\* Every step queues at most one event, and none a second time.
DeliversAtMostOnce == Delivery!AtMostOnce

\* And either something fails, or every event gets its job.
DeliversEach == <>(faults > 0) \/ Delivery!EachDelivered
=============================================================================

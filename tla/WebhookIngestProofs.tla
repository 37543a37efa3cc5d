------------------------- MODULE WebhookIngestProofs -------------------------
(***************************************************************************)
(* Theorems about WebhookIngest for any number of handlers, events and     *)
(* faults.                                                                 *)
(*                                                                         *)
(* AtMostOneJob is not inductive: a handler about to call queue.add would  *)
(* break it if the job were there already.  GateInv adds why that cannot   *)
(* be: only the handler whose insert into PaymentEventLog succeeded gets   *)
(* past the gate, it is the only one, and its job is not in the queue yet. *)
(***************************************************************************)
EXTENDS WebhookIngest, TLAPS

GateInv == TypeOK /\ CarriesEvent /\ PastGateIsLogged /\ OneOwner /\ QueuedHasNoOwner

(***************************************************************************)
(* Types, the gate and its single owner hold in every reachable state.     *)
(***************************************************************************)
THEOREM TypeAndGate == Spec => []GateInv
<1>1. Init => GateInv
  BY IngestAssumption DEF Init, GateInv, TypeOK, CarriesEvent, PastGateIsLogged,
     OneOwner, QueuedHasNoOwner, OwesJob, Steps, Events
<1>2. GateInv /\ [Next]_vars => GateInv'
  <2> SUFFICES ASSUME GateInv, [Next]_vars PROVE GateInv'
    OBVIOUS
  <2> USE IngestAssumption DEF GateInv, Events
  <2>1. ASSUME NEW h \in Handlers, NEW e \in Events, Receive(h, e) PROVE GateInv'
    BY <2>1 DEF Receive, TypeOK, CarriesEvent, PastGateIsLogged, OneOwner,
       QueuedHasNoOwner, OwesJob, Steps
  <2>2. ASSUME NEW h \in Handlers, LogOnce(h) PROVE GateInv'
    BY <2>2 DEF LogOnce, Goto, Answer, Leave, TypeOK, CarriesEvent, PastGateIsLogged,
       OneOwner, QueuedHasNoOwner, OwesJob, Steps
  <2>3. ASSUME NEW h \in Handlers, FindProcessed(h) PROVE GateInv'
    BY <2>3 DEF FindProcessed, Goto, Answer, Leave, TypeOK, CarriesEvent,
       PastGateIsLogged, OneOwner, QueuedHasNoOwner, OwesJob, Steps
  <2>4. ASSUME NEW h \in Handlers, RunHandler(h) PROVE GateInv'
    BY <2>4 DEF RunHandler, Goto, TypeOK, CarriesEvent, PastGateIsLogged, OneOwner,
       QueuedHasNoOwner, OwesJob, Steps
  <2>5. ASSUME NEW h \in Handlers, AddJob(h) PROVE GateInv'
    BY <2>5 DEF AddJob, Goto, TypeOK, CarriesEvent, PastGateIsLogged, OneOwner,
       QueuedHasNoOwner, OwesJob, Steps
  <2>6. ASSUME NEW h \in Handlers, RecordProcessed(h) PROVE GateInv'
    BY <2>6 DEF RecordProcessed, Answer, Leave, TypeOK, CarriesEvent,
       PastGateIsLogged, OneOwner, QueuedHasNoOwner, OwesJob, Steps
  <2>7. ASSUME NEW h \in Handlers, Throw(h) PROVE GateInv'
    BY <2>7 DEF Throw, Leave, TypeOK, CarriesEvent, PastGateIsLogged, OneOwner,
       QueuedHasNoOwner, OwesJob, Steps
  <2>8. CASE Crash
    BY <2>8 DEF Crash, TypeOK, CarriesEvent, PastGateIsLogged, OneOwner,
       QueuedHasNoOwner, OwesJob, Steps
  <2>9. CASE UNCHANGED vars
    BY <2>9 DEF vars, TypeOK, CarriesEvent, PastGateIsLogged, OneOwner,
       QueuedHasNoOwner, OwesJob
  <2>10. QED
    BY <2>1, <2>2, <2>3, <2>4, <2>5, <2>6, <2>7, <2>8, <2>9 DEF Next, Step
<1>3. QED
  BY <1>1, <1>2, PTL DEF Spec

\* Every row, counter and handler has its type.
THEOREM TypeCorrect == Spec => []TypeOK
<1>1. GateInv => TypeOK
  BY DEF GateInv
<1>2. QED
  BY <1>1, TypeAndGate, PTL

(***************************************************************************)
(* A YooKassa event is queued at most once, whatever the number of         *)
(* overlapping deliveries, crashes and failed calls.                       *)
(***************************************************************************)
THEOREM QueuedAtMostOnce == Spec => []AtMostOneJob
<1>1. GateInv => AtMostOneJob
  BY DEF GateInv, QueuedHasNoOwner, AtMostOneJob
<1>2. QED
  BY <1>1, TypeAndGate, PTL

-----------------------------------------------------------------------------
RecordInv == RecordedWorkIsDone /\ AboutToRecord

\* Inductive with the progress each handler has made, AboutToRecord.
LEMMA RecordsAreKept == GateInv /\ RecordInv /\ [Next]_vars => RecordInv'
<1> SUFFICES ASSUME GateInv, RecordInv, [Next]_vars PROVE RecordInv'
  OBVIOUS
<1> USE IngestAssumption DEF GateInv, RecordInv, Events
<1>1. ASSUME NEW h \in Handlers, NEW e \in Events, Receive(h, e) PROVE RecordInv'
  BY <1>1 DEF Receive, TypeOK, RecordedWorkIsDone, AboutToRecord, Steps
<1>2. ASSUME NEW h \in Handlers, LogOnce(h) PROVE RecordInv'
  BY <1>2 DEF LogOnce, Goto, Answer, Leave, TypeOK, RecordedWorkIsDone,
     AboutToRecord, Steps
<1>3. ASSUME NEW h \in Handlers, FindProcessed(h) PROVE RecordInv'
  BY <1>3 DEF FindProcessed, Goto, Answer, Leave, TypeOK, RecordedWorkIsDone,
     AboutToRecord, Steps
<1>4. ASSUME NEW h \in Handlers, RunHandler(h) PROVE RecordInv'
  <2>1. ev[h] \in Events /\ handlerRuns[ev[h]] \in Nat
    BY <1>4 DEF RunHandler, TypeOK, CarriesEvent
  <2>2. handlerRuns' = [handlerRuns EXCEPT ![ev[h]] = @ + 1] /\ UNCHANGED jobs
    BY <1>4 DEF RunHandler
  <2>3. \A e \in Events : handlerRuns[e] >= 1 => handlerRuns'[e] >= 1
    BY <2>1, <2>2 DEF TypeOK
  <2>4. handlerRuns'[ev[h]] >= 1
    BY <2>1, <2>2 DEF TypeOK
  <2>5. RecordedWorkIsDone'
    BY <2>2, <2>3, <1>4 DEF RunHandler, RecordedWorkIsDone, TypeOK
  <2>6. AboutToRecord'
    BY <2>1, <2>2, <2>3, <2>4, <1>4 DEF RunHandler, Goto, AboutToRecord, TypeOK,
       CarriesEvent, Steps
  <2>7. QED BY <2>5, <2>6
<1>5. ASSUME NEW h \in Handlers, AddJob(h) PROVE RecordInv'
  <2>1. ev[h] \in Events /\ jobs[ev[h]] \in Nat
    BY <1>5 DEF AddJob, TypeOK, CarriesEvent
  <2>2. jobs' = [jobs EXCEPT ![ev[h]] = @ + 1] /\ UNCHANGED handlerRuns
    BY <1>5 DEF AddJob
  <2>3. \A e \in Events : jobs[e] >= 1 => jobs'[e] >= 1
    BY <2>1, <2>2 DEF TypeOK
  <2>4. jobs'[ev[h]] >= 1
    BY <2>1, <2>2 DEF TypeOK
  <2>5. RecordedWorkIsDone'
    BY <2>2, <2>3, <1>5 DEF AddJob, RecordedWorkIsDone, TypeOK
  <2>6. AboutToRecord'
    BY <2>1, <2>2, <2>3, <2>4, <1>5 DEF AddJob, Goto, AboutToRecord, TypeOK,
       CarriesEvent, Steps
  <2>7. QED BY <2>5, <2>6
<1>6. ASSUME NEW h \in Handlers, RecordProcessed(h) PROVE RecordInv'
  BY <1>6 DEF RecordProcessed, Answer, Leave, TypeOK, RecordedWorkIsDone,
     AboutToRecord, Steps, CarriesEvent
<1>7. ASSUME NEW h \in Handlers, Throw(h) PROVE RecordInv'
  BY <1>7 DEF Throw, Leave, TypeOK, RecordedWorkIsDone, AboutToRecord, Steps
<1>8. CASE Crash
  BY <1>8 DEF Crash, RecordedWorkIsDone, AboutToRecord
<1>9. CASE UNCHANGED vars
  BY <1>9 DEF vars, RecordedWorkIsDone, AboutToRecord
<1>10. QED
  BY <1>1, <1>2, <1>3, <1>4, <1>5, <1>6, <1>7, <1>8, <1>9 DEF Next, Step

\* No row and no job at the start.
LEMMA RecordsAtStart == Init => RecordInv
BY DEF Init, RecordInv, RecordedWorkIsDone, AboutToRecord

(***************************************************************************)
(* A ProcessedWebhookEvent row always vouches for work that was done.      *)
(***************************************************************************)
THEOREM RecordedIsDone == Spec => []RecordedWorkIsDone
<1>1. RecordInv => RecordedWorkIsDone
  BY DEF RecordInv
<1>2. QED
  BY <1>1, RecordsAtStart, RecordsAreKept, TypeAndGate, PTL DEF Spec

-----------------------------------------------------------------------------
Safe(e) == jobs[e] >= 1 \/ \E h \in Handlers : OwesJob(h, e)

\* An event in the log is as safe as an answered one: its duplicates are answered
\* because it is in the log.
LoggedIsSafe == faults = 0 => \A e \in eventLog : Safe(e)

\* A step of one handler that does not drop its own event keeps every event safe.
LEMMA StaysSafe ==
  ASSUME NEW h \in Handlers, NEW e \in Events, Safe(e), jobs[e] >= 1 => jobs'[e] >= 1,
         \A g \in Handlers : g # h => pc'[g] = pc[g] /\ ev'[g] = ev[g],
         OwesJob(h, e) => OwesJob(h, e)' \/ jobs'[e] >= 1
  PROVE  Safe(e)'
BY DEF Safe, OwesJob

(***************************************************************************)
(* Before the first fault, an event that was answered with 200 is in the   *)
(* queue or on its way there: for any number of overlapping deliveries,    *)
(* duplicates and lost answers.                                            *)
(***************************************************************************)
THEOREM AnsweredIsSafe == Spec => []AnsweredIsQueuedOrUnderWay
<1> DEFINE SafeInv == AnsweredIsQueuedOrUnderWay /\ LoggedIsSafe
<1>1. Init => SafeInv
  BY DEF Init, AnsweredIsQueuedOrUnderWay, LoggedIsSafe
<1>2. GateInv /\ RecordInv /\ SafeInv /\ [Next]_vars => SafeInv'
  <2> SUFFICES ASSUME GateInv, RecordInv, SafeInv, [Next]_vars PROVE SafeInv'
    OBVIOUS
  <2> DEFINE Kept == \A e \in Events \ GenericFailed : Safe(e) => Safe(e)'
  <2>a. /\ faults \in Nat /\ jobs \in [Events -> Nat] /\ answered \subseteq Events
        /\ eventLog \subseteq YookassaEvents /\ processed \subseteq Events
        /\ pc \in [Handlers -> Steps] /\ ev \in [Handlers -> Events \cup {NoEvent}]
        /\ YookassaEvents \subseteq Events /\ YookassaEvents \cap GenericFailed = {}
    BY IngestAssumption DEF GateInv, TypeOK, Events
  <2>b. /\ faults = 0 => \A e \in answered \ GenericFailed : Safe(e)
        /\ faults = 0 => \A e \in eventLog : Safe(e)
    BY DEF AnsweredIsQueuedOrUnderWay, LoggedIsSafe, Safe
  <2>c. ASSUME Kept, faults' = faults,
               faults = 0 => \A e \in (answered' \ answered) \ GenericFailed : Safe(e)',
               faults = 0 => \A e \in eventLog' \ eventLog : Safe(e)',
               eventLog' \subseteq YookassaEvents, answered' \subseteq Events
        PROVE  SafeInv'
    <3>1. ASSUME faults = 0, NEW e \in eventLog' PROVE Safe(e)'
      BY <2>a, <2>b, <2>c, <3>1
    <3>2. ASSUME faults = 0, NEW e \in answered' \ GenericFailed PROVE Safe(e)'
      BY <2>a, <2>b, <2>c, <3>2
    <3>3. QED
      BY <2>c, <3>1, <3>2 DEF AnsweredIsQueuedOrUnderWay, LoggedIsSafe, Safe
  <2>d. ASSUME faults' # 0 PROVE SafeInv'
    BY <2>d DEF AnsweredIsQueuedOrUnderWay, LoggedIsSafe
  <2>1. ASSUME NEW h \in Handlers, NEW e \in Events, Receive(h, e) PROVE SafeInv'
    <3>1. Kept
      BY <2>1, <2>a, StaysSafe DEF Receive, OwesJob
    <3>2. QED
      BY <2>1, <2>a, <2>c, <3>1 DEF Receive
  <2>2. ASSUME NEW h \in Handlers, LogOnce(h) PROVE SafeInv'
    <3>1. PICK d \in YookassaEvents : d = ev[h] /\ pc[h] = "log"
      BY <2>2 DEF LogOnce, GateInv, CarriesEvent
    <3>2. Kept
      BY <2>2, <2>a, <3>1, StaysSafe DEF LogOnce, Goto, Answer, Leave, OwesJob
    <3>3. CASE d \notin eventLog
      <4>1. OwesJob(h, d)'
        BY <2>2, <2>a, <3>1, <3>3 DEF LogOnce, Goto, OwesJob
      <4>2. Safe(d)' /\ eventLog' = eventLog \cup {d} /\ answered' = answered
        BY <2>2, <3>1, <3>3, <4>1 DEF LogOnce, Goto, Safe
      <4>3. QED
        BY <2>2, <2>a, <2>c, <3>1, <3>2, <4>2 DEF LogOnce
    <3>4. CASE d \in eventLog
      <4>1. faults = 0 => Safe(d)'
        BY <2>a, <2>b, <3>1, <3>2, <3>4
      <4>2. eventLog' = eventLog /\ answered' \subseteq answered \cup {d}
        BY <2>2, <3>1, <3>4 DEF LogOnce, Answer
      <4>3. QED
        BY <2>2, <2>a, <2>c, <3>1, <3>2, <4>1, <4>2 DEF LogOnce
    <3>5. QED
      BY <3>3, <3>4
  <2>3. ASSUME NEW h \in Handlers, FindProcessed(h) PROVE SafeInv'
    <3>1. PICK d \in Events : d = ev[h] /\ pc[h] = "find"
      BY <2>3 DEF FindProcessed, GateInv, CarriesEvent
    <3>2. CASE d \in processed
      <4>1. d \notin GenericFailed => jobs[d] >= 1 /\ jobs'[d] >= 1
        BY <2>3, <3>2 DEF FindProcessed, RecordInv, RecordedWorkIsDone
      <4>2. Kept
        BY <2>3, <2>a, <3>1, <3>2, <4>1, StaysSafe DEF FindProcessed, Answer, Leave, OwesJob
      <4>3. answered' \subseteq answered \cup {d}
        BY <2>3, <3>1, <3>2 DEF FindProcessed, Answer
      <4>4. QED
        BY <2>3, <2>a, <2>c, <3>1, <4>1, <4>2, <4>3 DEF FindProcessed, Safe
    <3>3. CASE d \notin processed
      <4>1. Kept
        BY <2>3, <2>a, <3>1, <3>3, StaysSafe DEF FindProcessed, Goto, OwesJob
      <4>2. QED
        BY <2>3, <2>a, <2>c, <3>1, <3>3, <4>1 DEF FindProcessed
    <3>4. QED
      BY <3>2, <3>3
  <2>4. ASSUME NEW h \in Handlers, RunHandler(h) PROVE SafeInv'
    <3>1. Kept
      BY <2>4, <2>a, StaysSafe DEF RunHandler, Goto, OwesJob
    <3>2. QED
      BY <2>4, <2>a, <2>c, <3>1 DEF RunHandler
  <2>5. ASSUME NEW h \in Handlers, AddJob(h) PROVE SafeInv'
    <3>1. ev[h] \in Events
      BY <2>5 DEF AddJob, GateInv, CarriesEvent
    <3>2. \A e \in Events : jobs'[e] = IF e = ev[h] THEN jobs[e] + 1 ELSE jobs[e]
      BY <2>5, <2>a, <3>1 DEF AddJob
    <3>3. /\ \A e \in Events : jobs[e] >= 1 => jobs'[e] >= 1
          /\ jobs'[ev[h]] >= 1
      BY <2>a, <3>1, <3>2
    <3>4. Kept
      BY <2>5, <2>a, <3>3, StaysSafe DEF AddJob, Goto, OwesJob
    <3>5. QED
      BY <2>5, <2>a, <2>c, <3>4 DEF AddJob
  <2>6. ASSUME NEW h \in Handlers, RecordProcessed(h) PROVE SafeInv'
    <3>1. PICK d \in Events : d = ev[h] /\ pc[h] = "record"
      BY <2>6 DEF RecordProcessed, GateInv, CarriesEvent
    <3>2. d \notin GenericFailed => jobs[d] >= 1 /\ jobs'[d] >= 1
      BY <2>6, <3>1 DEF RecordProcessed, RecordInv, AboutToRecord
    <3>3. Kept
      BY <2>6, <2>a, <3>1, StaysSafe DEF RecordProcessed, Answer, Leave, OwesJob
    <3>4. answered' \subseteq answered \cup {d}
      BY <2>6, <3>1 DEF RecordProcessed, Answer
    <3>5. QED
      BY <2>6, <2>a, <2>c, <3>1, <3>2, <3>3, <3>4 DEF RecordProcessed, Safe
  <2>7. ASSUME NEW h \in Handlers, Throw(h) PROVE SafeInv'
    BY <2>7, <2>a, <2>d DEF Throw
  <2>8. CASE Crash
    BY <2>8, <2>a, <2>d DEF Crash
  <2>9. CASE UNCHANGED vars
    BY <2>9 DEF vars, AnsweredIsQueuedOrUnderWay, LoggedIsSafe, Safe, OwesJob
  <2>10. QED
    BY <2>1, <2>2, <2>3, <2>4, <2>5, <2>6, <2>7, <2>8, <2>9 DEF Next, Step
<1>3. QED
  BY <1>1, <1>2, RecordsAtStart, RecordsAreKept, TypeAndGate, PTL DEF Spec
-----------------------------------------------------------------------------
(***************************************************************************)
(* Ingestion implements the safety half of EventDelivery: the tables start *)
(* with nothing delivered, and every step of a handler either delivers one *)
(* event for the first time or delivers nothing.                           *)
(***************************************************************************)
THEOREM ImplementsDelivery == Spec => DeliversAtMostOnce
<1> DEFINE delivered == [e \in YookassaEvents |-> jobs[e]]
<1>1. Init => Delivery!Init
  BY DEF Init, Delivery!Init, Events
<1>2. GateInv /\ [Next]_vars => [Delivery!Next]_delivered
  <2> SUFFICES ASSUME GateInv, [Next]_vars PROVE [Delivery!Next]_delivered
    OBVIOUS
  <2>1. ASSUME NEW h \in Handlers, AddJob(h) PROVE [Delivery!Next]_delivered
    <3>1. jobs' = [jobs EXCEPT ![ev[h]] = @ + 1]
      BY <2>1 DEF AddJob
    <3>2. ASSUME NEW e \in YookassaEvents, ev[h] = e
          PROVE  Delivery!Next
      <4>1. jobs[e] = 0
        BY <2>1, <3>2 DEF AddJob, GateInv, QueuedHasNoOwner, OwesJob, TypeOK, Events
      <4>2. \A d \in YookassaEvents : jobs'[d] = IF d = e THEN 1 ELSE jobs[d]
        BY <3>1, <3>2, <4>1 DEF GateInv, TypeOK, Events
      <4>3. [d \in YookassaEvents |-> jobs'[d]] = [delivered EXCEPT ![e] = 1]
        BY <4>2
      <4>4. Delivery!Deliver(e)
        BY <4>1, <4>3 DEF Delivery!Deliver
      <4>5. QED
        BY <4>4 DEF Delivery!Next
    <3>3. CASE ev[h] \notin YookassaEvents
      BY <3>1, <3>3 DEF GateInv, TypeOK, Events
    <3>4. QED
      BY <3>2, <3>3
  <2>2. CASE UNCHANGED jobs
    BY <2>2
  <2>3. QED
    BY <2>1, <2>2 DEF Next, Step, Receive, LogOnce, FindProcessed, RunHandler,
       RecordProcessed, Throw, Crash, vars
<1>3. QED
  BY <1>1, <1>2, TypeAndGate, PTL DEF Spec, DeliversAtMostOnce, Delivery!AtMostOnce
=============================================================================

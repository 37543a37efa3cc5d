---------------------------- MODULE CheckoutProofs ----------------------------
(***************************************************************************)
(* Theorems about Checkout for any orders, keys, callers and faults: the   *)
(* first part for handlers that overlap, the last for handlers in turn.    *)
(*                                                                         *)
(* What a handler will write was decided when it began, and is in the      *)
(* steps it has still to take.  Plannable says which steps the handlers    *)
(* decide on in a state; a set of steps that holds them all holds every    *)
(* plan (PlansStay), for types and for the first two safety theorems.      *)
(*                                                                         *)
(* When handlers do not overlap, more is true of a plan: every step of it  *)
(* is right for the rows as they are now (PlanIsRight).                    *)
(***************************************************************************)
EXTENDS Checkout, SequenceTheorems, FiniteSetTheorems, TLAPS

(***************************************************************************)
(* What SetToSeq returns: handlers go through the rows of a query one      *)
(* after the other, and the order is not specified.                        *)
(***************************************************************************)
\* A finite set as a sequence: as long as the set is large, of its members, each once.
LEMMA SetAsSequence ==
  ASSUME NEW S, IsFiniteSet(S)
  PROVE  /\ Cardinality(S) \in Nat
         /\ SetToSeq(S) \in [1..Cardinality(S) -> S]
         /\ SetToSeq(S) \in Seq(S)
         /\ IsInjective(SetToSeq(S))
<1>1. PICK n \in Nat : ExistsBijection(1..n, S)
  BY FS_NatBijection
<1>2. Cardinality(S) = n
  BY <1>1, FS_CountingElements
<1>3. \E f \in [1..Cardinality(S) -> S] : IsInjective(f)
  BY <1>1, <1>2 DEF ExistsBijection, Bijection, Injection, Surjection, IsInjective
<1>4. /\ SetToSeq(S) \in [1..Cardinality(S) -> S] /\ IsInjective(SetToSeq(S))
      /\ Cardinality(S) \in Nat
  BY <1>2, <1>3 DEF SetToSeq
<1>5. QED
  BY <1>4

-----------------------------------------------------------------------------
\* A step's number and status belong to what it does.
Fits(s) ==
  /\ s.do = "setOrder" => s.id \in Orders /\ s.to \in OrderStatuses
  /\ s.do = "setSession" => s.to \in CheckoutStatuses
  /\ s.do = "setIntent" => s.id \in Keys /\ s.to \in PaymentStatuses
  /\ s.do \in {"findIntents", "createPayment"} => s.id \in Keys /\ s.to \in CheckoutStatuses
  /\ s.do \in {"insertIntent", "commitPaid"} => s.id \in Keys

FittingSteps == {s \in HandlerSteps : Fits(s)}

TypeInv == TypeOK /\ todo \in [Everyone -> Seq(FittingSteps)]

JobRecords == [state : JobStates, failures : Nat, stalls : Nat]

\* The steps the handlers decide on in this state are among S.
Plannable(S) ==
  /\ \A o \in Orders, to \in {"CONFIRMED", "REJECTED", "EXPIRED"} : Do("setOrder", o, to) \in S
  /\ \A to \in {"CONFIRMED", "CANCELLED", "EXPIRED", "AWAITING_PAYMENT"} :
       Do("setSession", NoId, to) \in S
  /\ "adminSession" \in Roles => \A to \in CheckoutStatuses : Do("setSession", NoId, to) \in S
  /\ Do("expireSession", NoId, "EXPIRED") \in S
  /\ \A k \in Keys : /\ \A to \in CheckoutStatuses : /\ Do("findIntents", k, to) \in S
                                                     /\ Do("createPayment", k, to) \in S
                     /\ Do("insertIntent", k, "PENDING") \in S
                     /\ "cancel" \in Roles => Do("setIntent", k, "CANCELLED") \in S
                     /\ "generic" \in Roles \/ payments[k] = "succeeded" =>
                          Do("commitPaid", k, "COMPLETED") \in S /\ Do("commitPaid", k, "none") \in S
                     /\ "generic" \in Roles \/ (payments[k] # "succeeded" /\ jobs[k].state # "none") =>
                          Do("setIntent", k, "FAILED") \in S

(***************************************************************************)
(* Plans.                                                                  *)
(***************************************************************************)
\* A step built by Do is a step of a handler, with the fields it was given.
LEMMA DoIsStep ==
  ASSUME NEW kind \in StepKinds, NEW id \in Orders \cup Keys \cup {NoId},
         NEW to \in CheckoutStatuses \cup OrderStatuses \cup PaymentStatuses \cup {"none"}
  PROVE  /\ Do(kind, id, to) \in HandlerSteps
         /\ Do(kind, id, to).do = kind /\ Do(kind, id, to).id = id /\ Do(kind, id, to).to = to
BY DEF Do, HandlerSteps

\* Asking the table for a session's move adds that write or nothing.
LEMMA SessionPlan ==
  ASSUME NEW S, NEW to, NEW actor, Do("setSession", NoId, to) \in S
  PROVE  SetSessionIfAllowed(to, actor) \in Seq(S)
<1>1. <<>> \in Seq(S) /\ <<Do("setSession", NoId, to)>> \in Seq(S)
  OBVIOUS
<1>2. QED
  BY <1>1 DEF SetSessionIfAllowed

\* markPaid decides on one commit, which completes the session or leaves it.
LEMMA PaidPlan ==
  ASSUME NEW S, NEW k, Do("commitPaid", k, "COMPLETED") \in S, Do("commitPaid", k, "none") \in S
  PROVE  MarkPaidSteps(k) \in Seq(S)
<1>1. <<>> \in Seq(S) /\ <<Do("commitPaid", k, "COMPLETED")>> \in Seq(S)
      /\ <<Do("commitPaid", k, "none")>> \in Seq(S)
  OBVIOUS
<1>2. QED
  BY <1>1 DEF MarkPaidSteps

\* markFailed decides on one write of FAILED, or on nothing.
LEMMA FailedPlan ==
  ASSUME NEW S, NEW k, Do("setIntent", k, "FAILED") \in S
  PROVE  MarkFailedSteps(k) \in Seq(S)
<1>1. <<>> \in Seq(S) /\ <<Do("setIntent", k, "FAILED")>> \in Seq(S)
  OBVIOUS
<1>2. QED
  BY <1>1 DEF MarkFailedSteps

\* The expiry cron decides on a write per overdue order, then on the session.
LEMMA ExpiryPlan ==
  ASSUME NEW S, NEW E \in SUBSET Orders, \A o \in Orders : Do("setOrder", o, "EXPIRED") \in S,
         Do("expireSession", NoId, "EXPIRED") \in S
  PROVE  Append(SetToSeq({Do("setOrder", o, "EXPIRED") : o \in E}),
                Do("expireSession", NoId, "EXPIRED")) \in Seq(S)
<1>1. PICK W : W = {Do("setOrder", o, "EXPIRED") : o \in E}
  OBVIOUS
<1>2. IsFiniteSet(E)
  BY CheckoutAssumption, FS_Subset
<1>3. IsFiniteSet(W)
  <2>1. PICK f : f = [o \in E |-> Do("setOrder", o, "EXPIRED")]
    OBVIOUS
  <2>2. f \in Surjection(E, W)
    BY <1>1, <2>1 DEF Surjection
  <2>3. QED
    BY <1>2, <2>2, FS_Surjection
<1>4. SetToSeq(W) \in Seq(W) /\ W \subseteq S
  BY <1>1, <1>3, SetAsSequence
<1>5. SetToSeq(W) \in Seq(S)
  BY <1>4
<1>6. QED
  BY <1>1, <1>5

\* A handler that begins with steps of S leaves every plan within S.
LEMMA PlanBegins ==
  ASSUME NEW S, todo \in [Everyone -> Seq(S)], NEW p \in Everyone, NEW steps \in Seq(S),
         Begin(p, steps)
  PROVE  todo' \in [Everyone -> Seq(S)]
BY DEF Begin

\* The steps of every HTTP handler and of the cron, when they begin, are within S.
LEMMA BeginningsArePlanned ==
  ASSUME NEW S, Plannable(S), TypeOK, todo \in [Everyone -> Seq(S)], NEW p \in Procs,
         \/ \E o \in Orders, to \in OrderStatuses :
              SupplierDecides(p, o, to) \/ AdminDecides(p, o, to)
         \/ \E to \in CheckoutStatuses : AdminUpdatesSession(p, to)
         \/ FillContacts(p) \/ RunExpiry(p)
         \/ \E k \in Keys : Pay(p, k) \/ CancelIntent(p, k) \/ GenericEvent(p, k)
  PROVE  todo' \in [Everyone -> Seq(S)]
<1>1. p \in Everyone
  BY DEF Everyone
<1>2. ASSUME NEW o \in Orders, NEW to \in OrderStatuses, SupplierDecides(p, o, to)
      PROVE  todo' \in [Everyone -> Seq(S)]
  <2>1. PICK to2 \in {"CONFIRMED", "CANCELLED"} :
          Begin(p, <<Do("setOrder", o, to)>> \o SetSessionIfAllowed(to2, "admin"))
    BY <1>2 DEF SupplierDecides
  <2>2. <<Do("setOrder", o, to)>> \in Seq(S)
    BY <1>2 DEF SupplierDecides, Plannable
  <2>3. SetSessionIfAllowed(to2, "admin") \in Seq(S)
    BY SessionPlan DEF Plannable
  <2>4. <<Do("setOrder", o, to)>> \o SetSessionIfAllowed(to2, "admin") \in Seq(S)
    BY <2>2, <2>3
  <2>5. QED
    BY <1>1, <2>1, <2>4, PlanBegins
<1>3. ASSUME NEW o \in Orders, NEW to \in OrderStatuses, AdminDecides(p, o, to)
      PROVE  todo' \in [Everyone -> Seq(S)]
  <2>1. Begin(p, <<Do("setOrder", o, to)>>) /\ Do("setOrder", o, to) \in S
    BY <1>3 DEF AdminDecides, Plannable
  <2>2. <<Do("setOrder", o, to)>> \in Seq(S)
    BY <2>1
  <2>3. QED
    BY <1>1, <2>1, <2>2, PlanBegins
<1>4. ASSUME NEW to \in CheckoutStatuses, AdminUpdatesSession(p, to)
      PROVE  todo' \in [Everyone -> Seq(S)]
  BY <1>1, <1>4, SessionPlan, PlanBegins DEF AdminUpdatesSession, Plannable
<1>5. ASSUME FillContacts(p) PROVE todo' \in [Everyone -> Seq(S)]
  <2>1. <<Do("setSession", NoId, "CONFIRMED")>> \in Seq(S)
    BY DEF Plannable
  <2>2. QED
    BY <1>1, <1>5, <2>1, PlanBegins DEF FillContacts
<1>6. ASSUME RunExpiry(p) PROVE todo' \in [Everyone -> Seq(S)]
  <2>1. PICK E \in SUBSET Orders :
          Begin(p, Append(SetToSeq({Do("setOrder", o, "EXPIRED") : o \in E}),
                          Do("expireSession", NoId, "EXPIRED")))
    BY <1>6 DEF RunExpiry
  <2>2. QED
    BY <1>1, <2>1, ExpiryPlan, PlanBegins DEF Plannable
<1>7. ASSUME NEW k \in Keys, Pay(p, k) PROVE todo' \in [Everyone -> Seq(S)]
  <2>1. <<Do("findIntents", k, session)>> \in Seq(S)
    BY DEF Plannable, TypeOK
  <2>2. QED
    BY <1>1, <1>7, <2>1, PlanBegins DEF Pay
<1>8. ASSUME NEW k \in Keys, CancelIntent(p, k) PROVE todo' \in [Everyone -> Seq(S)]
  <2>1. <<Do("setIntent", k, "CANCELLED")>> \in Seq(S)
    BY <1>8 DEF Plannable, CancelIntent
  <2>2. QED
    BY <1>1, <1>8, <2>1, PlanBegins DEF CancelIntent
<1>9. ASSUME NEW k \in Keys, GenericEvent(p, k) PROVE todo' \in [Everyone -> Seq(S)]
  <2>1. MarkPaidSteps(k) \in Seq(S) /\ MarkFailedSteps(k) \in Seq(S)
    BY <1>9, PaidPlan, FailedPlan DEF Plannable, GenericEvent
  <2>2. QED
    BY <1>1, <1>9, <2>1, PlanBegins DEF GenericEvent
<1>10. QED
  BY <1>2, <1>3, <1>4, <1>5, <1>6, <1>7, <1>8, <1>9

\* So are those of the worker when it takes a job.
LEMMA WorkIsPlanned ==
  ASSUME NEW S, Plannable(S), todo \in [Everyone -> Seq(S)], NEW k \in Keys, TakeJob(k)
  PROVE  todo' \in [Everyone -> Seq(S)]
<1>1. Worker \in Everyone
  BY DEF Everyone
<1>2. CASE todo' = todo
  BY <1>2
<1>3. CASE /\ payments[k] = "succeeded" /\ Begin(Worker, MarkPaidSteps(k))
  <2>1. MarkPaidSteps(k) \in Seq(S)
    BY <1>3, PaidPlan DEF Plannable
  <2>2. QED
    BY <1>1, <1>3, <2>1, PlanBegins
<1>4. CASE /\ payments[k] # "succeeded" /\ Begin(Worker, MarkFailedSteps(k))
  <2>1. MarkFailedSteps(k) \in Seq(S)
    BY <1>4, FailedPlan DEF Plannable, TakeJob
  <2>2. QED
    BY <1>1, <1>4, <2>1, PlanBegins
<1>5. \/ todo' = todo
      \/ payments[k] = "succeeded" /\ Begin(Worker, MarkPaidSteps(k))
      \/ payments[k] # "succeeded" /\ Begin(Worker, MarkFailedSteps(k))
  BY DEF TakeJob
<1>6. QED
  BY <1>2, <1>3, <1>4, <1>5

\* The step at the head of a handler.
LEMMA HeadFits ==
  ASSUME NEW S, todo \in [Everyone -> Seq(S)], NEW p \in Everyone, todo[p] # <<>>
  PROVE  Step1(p) \in S /\ Tail(todo[p]) \in Seq(S)
BY DEF Step1

\* And those a handler adds on its way: a payment looked up, made and stored.
LEMMA StepsArePlanned ==
  ASSUME NEW S \in SUBSET FittingSteps, Plannable(S), todo \in [Everyone -> Seq(S)],
         NEW p \in Everyone, Continue(p)
  PROVE  todo' \in [Everyone -> Seq(S)]
<1>1. todo[p] # <<>>
  BY DEF Continue, SetOrder, SetSession, SetIntent, ExpireSession, FindIntents,
         CreatePayment, InsertIntent, CommitPaid, Next1
<1>2. Step1(p) \in S /\ Tail(todo[p]) \in Seq(S)
  BY <1>1, HeadFits
<1>3. ASSUME NEW s \in Seq(S), todo' = [todo EXCEPT ![p] = s]
      PROVE  todo' \in [Everyone -> Seq(S)]
  BY <1>3
<1>4. CASE Drop1(p)
  BY <1>2, <1>3, <1>4 DEF Drop1
<1>5. CASE ExpireSession(p)
  <2>1. SetSessionIfAllowed("EXPIRED", "system") \in Seq(S) /\ <<>> \in Seq(S)
    BY SessionPlan DEF Plannable
  <2>2. QED
    BY <1>3, <1>5, <2>1 DEF ExpireSession, Then
<1>6. CASE FindIntents(p)
  <2>1. PICK k, to : k = Step1(p).id /\ to = Step1(p).to
    OBVIOUS
  <2>2. k \in Keys /\ to \in CheckoutStatuses
    BY <1>2, <1>6, <2>1 DEF FindIntents, Next1, Step1, FittingSteps, Fits
  <2>3. <<Do("createPayment", k, to)>> \in Seq(S) /\ <<>> \in Seq(S)
    BY <2>2 DEF Plannable
  <2>4. QED
    BY <1>3, <1>6, <2>1, <2>3 DEF FindIntents, Then
<1>7. CASE CreatePayment(p)
  <2>1. PICK k : k = Step1(p).id
    OBVIOUS
  <2>2. k \in Keys
    BY <1>2, <1>7, <2>1 DEF CreatePayment, Next1, Step1, FittingSteps, Fits
  <2>3. <<Do("setSession", NoId, "AWAITING_PAYMENT")>> \in Seq(S) /\ <<>> \in Seq(S)
        /\ <<Do("insertIntent", k, "PENDING")>> \in Seq(S)
    BY <2>2 DEF Plannable
  <2>4. PICK first \in Seq(S) : Then(p, first \o <<Do("insertIntent", k, "PENDING")>>)
    BY <1>7, <2>1, <2>3 DEF CreatePayment
  <2>5. first \o <<Do("insertIntent", k, "PENDING")>> \in Seq(S)
    BY <2>3
  <2>6. QED
    BY <1>3, <2>4, <2>5 DEF Then
<1>8. QED
  BY <1>4, <1>5, <1>6, <1>7
     DEF Continue, SetOrder, SetSession, SetIntent, InsertIntent, CommitPaid

\* A set that holds what handlers decide on holds every plan.
LEMMA PlansStay ==
  ASSUME NEW S \in SUBSET FittingSteps, Plannable(S), TypeOK,
         todo \in [Everyone -> Seq(S)], [Next]_vars
  PROVE  todo' \in [Everyone -> Seq(S)]
<1>1. ASSUME NEW p \in Procs,
             \/ \E o \in Orders, to \in OrderStatuses :
                  SupplierDecides(p, o, to) \/ AdminDecides(p, o, to)
             \/ \E to \in CheckoutStatuses : AdminUpdatesSession(p, to)
             \/ FillContacts(p) \/ RunExpiry(p)
             \/ \E k \in Keys : Pay(p, k) \/ CancelIntent(p, k) \/ GenericEvent(p, k)
      PROVE  todo' \in [Everyone -> Seq(S)]
  BY <1>1, BeginningsArePlanned
<1>2. ASSUME NEW k \in Keys, TakeJob(k) PROVE todo' \in [Everyone -> Seq(S)]
  BY <1>2, WorkIsPlanned
<1>3. ASSUME NEW p \in Everyone, Continue(p) PROVE todo' \in [Everyone -> Seq(S)]
  BY <1>3, StepsArePlanned
<1>4. <<>> \in Seq(S)
  OBVIOUS
<1>5. ASSUME NEW p \in Everyone, Throw(p) PROVE todo' \in [Everyone -> Seq(S)]
  BY <1>4, <1>5 DEF Throw, Then
<1>6. CASE Crash
  BY <1>4, <1>6 DEF Crash
<1>7. ASSUME todo' = todo PROVE todo' \in [Everyone -> Seq(S)]
  BY <1>7
<1>8. ASSUME NEW k \in Keys,
             FinishJob(k) \/ RetryFailedJob(k) \/ BuyerPays(k) \/ ProviderCancels(k)
      PROVE  todo' = todo
  BY <1>8 DEF FinishJob, RetryFailedJob, BuyerPays, ProviderCancels
<1>9. Expire \/ UNCHANGED vars => todo' = todo
  BY DEF Expire, vars
<1>10. QED
  BY <1>1, <1>2, <1>3, <1>5, <1>6, <1>7, <1>8, <1>9 DEF Next

(***************************************************************************)
(* Types.                                                                  *)
(***************************************************************************)
\* Whoever calls, handlers decide only on steps that fit their rows.
LEMMA FittingPlans == TypeOK => Plannable(FittingSteps)
<1> SUFFICES ASSUME TypeOK PROVE Plannable(FittingSteps)
  OBVIOUS
<1>1. \A kind \in StepKinds, id \in Orders \cup Keys \cup {NoId},
         to \in CheckoutStatuses \cup OrderStatuses \cup PaymentStatuses \cup {"none"} :
        /\ Do(kind, id, to) \in HandlerSteps
        /\ Do(kind, id, to).do = kind /\ Do(kind, id, to).id = id /\ Do(kind, id, to).to = to
  BY DoIsStep
<1>2. \A o \in Orders, to \in OrderStatuses : Do("setOrder", o, to) \in FittingSteps
  BY <1>1 DEF FittingSteps, Fits, StepKinds
<1>3. \A to \in CheckoutStatuses : Do("setSession", NoId, to) \in FittingSteps
  BY <1>1 DEF FittingSteps, Fits, StepKinds
<1>4. \A to \in CheckoutStatuses : Do("expireSession", NoId, to) \in FittingSteps
  BY <1>1 DEF FittingSteps, Fits, StepKinds
<1>5. \A k \in Keys, to \in CheckoutStatuses :
        Do("findIntents", k, to) \in FittingSteps /\ Do("createPayment", k, to) \in FittingSteps
  BY <1>1 DEF FittingSteps, Fits, StepKinds
<1>6. \A k \in Keys, to \in PaymentStatuses :
        Do("insertIntent", k, to) \in FittingSteps /\ Do("setIntent", k, to) \in FittingSteps
  BY <1>1 DEF FittingSteps, Fits, StepKinds
<1>7. \A k \in Keys, to \in CheckoutStatuses \cup {"none"} : Do("commitPaid", k, to) \in FittingSteps
  BY <1>1 DEF FittingSteps, Fits, StepKinds
<1>8. QED
  BY <1>2, <1>3, <1>4, <1>5, <1>6, <1>7
     DEF Plannable, CheckoutStatuses, OrderStatuses, PaymentStatuses

\* An attempt that failed, and a restart, leave a job to be tried again or failed.
LEMMA JobAfterFault ==
  ASSUME NEW j \in JobRecords
  PROVE  /\ FailedAttempt(j) \in JobRecords /\ FailedAttempt(j).state \in {"waiting", "failed"}
         /\ AfterThrow(j) \in JobRecords /\ AfterRestart(j) \in JobRecords
         /\ j.state = "active" => AfterThrow(j).state \in {"waiting", "failed"}
                                  /\ AfterRestart(j).state \in {"waiting", "failed"}
         /\ j.state # "active" => AfterThrow(j) = j /\ AfterRestart(j) = j
<1>1. j.failures \in Nat /\ j.stalls \in Nat /\ j.state \in JobStates
  BY DEF JobRecords
<1>2. PICK n \in Nat, s \in {"waiting", "failed"} :
        FailedAttempt(j) = [j EXCEPT !.failures = n, !.state = s]
  <2>1. PICK n : n = IF j.failures < MaxAttempts THEN j.failures + 1 ELSE MaxAttempts
    OBVIOUS
  <2>2. n \in Nat
    BY <1>1, <2>1 DEF MaxAttempts
  <2>3. FailedAttempt(j) = [j EXCEPT !.failures = n,
                                     !.state = IF n = MaxAttempts THEN "failed" ELSE "waiting"]
    BY <2>1 DEF FailedAttempt
  <2>4. QED
    BY <2>2, <2>3
<1>3. FailedAttempt(j) = [state |-> s, failures |-> n, stalls |-> j.stalls]
  BY <1>2 DEF JobRecords
<1>4. FailedAttempt(j) \in JobRecords /\ FailedAttempt(j).state \in {"waiting", "failed"}
  BY <1>1, <1>2, <1>3 DEF JobRecords, JobStates
<1>5. CASE j.state # "active"
  BY <1>4, <1>5 DEF AfterThrow, AfterRestart
<1>6. CASE j.state = "active"
  <2>1. PICK s2 \in {"waiting", "failed"} :
          AfterRestart(j) = [j EXCEPT !.stalls = j.stalls + 1, !.state = s2]
    BY <1>6 DEF AfterRestart
  <2>2. AfterRestart(j) = [state |-> s2, failures |-> j.failures, stalls |-> j.stalls + 1]
    BY <2>1 DEF JobRecords
  <2>3. AfterRestart(j) \in JobRecords /\ AfterRestart(j).state \in {"waiting", "failed"}
    BY <1>1, <2>1, <2>2 DEF JobRecords, JobStates
  <2>4. QED
    BY <1>4, <1>6, <2>3 DEF AfterThrow
<1>7. QED
  BY <1>4, <1>5, <1>6

\* The job of one event is written at a time.
LEMMA SetJobSets ==
  ASSUME jobs \in [Keys -> JobRecords], NEW k \in Keys, NEW s \in JobStates, SetJob(k, s)
  PROVE  /\ jobs' \in [Keys -> JobRecords] /\ jobs'[k].state = s
         /\ \A j \in Keys : j # k => jobs'[j] = jobs[j]
<1>1. PICK r \in JobRecords : r = jobs[k]
  OBVIOUS
<1>2. PICK r2 : r2 = [state |-> s, failures |-> r.failures, stalls |-> r.stalls]
  OBVIOUS
<1>3. r2 = [r EXCEPT !.state = s] /\ r2 \in JobRecords /\ r2.state = s
  BY <1>2 DEF JobRecords
<1>4. jobs' = [jobs EXCEPT ![k] = r2]
  BY <1>1, <1>3 DEF SetJob
<1>5. QED
  BY <1>3, <1>4

\* What becomes of a job in a step, whoever takes it.
JobMoves(k) ==
  \/ jobs'[k] = jobs[k]
  \/ jobs'[k].state = "active" /\ TakeJob(k)
  \/ jobs'[k].state = "completed" /\ (TakeJob(k) \/ FinishJob(k))
  \/ jobs'[k].state = "waiting" /\ (BuyerPays(k) \/ ProviderCancels(k))
  \/ jobs[k].state # "none" /\ jobs'[k].state \in {"waiting", "failed"}

\* Each job keeps its type and moves as JobMoves says, in every step of the system.
LEMMA JobsMove ==
  ASSUME TypeOK, [Next]_vars
  PROVE  jobs' \in [Keys -> JobRecords] /\ \A k \in Keys : JobMoves(k)
<1>1. jobs \in [Keys -> JobRecords]
  BY DEF TypeOK, JobRecords
<1>2. CASE jobs' = jobs
  BY <1>1, <1>2 DEF JobMoves
<1>3. ASSUME NEW k \in Keys,
             FinishJob(k) \/ RetryFailedJob(k) \/ BuyerPays(k) \/ ProviderCancels(k)
      PROVE  jobs' \in [Keys -> JobRecords] /\ \A j \in Keys : JobMoves(j)
  <2>1. \/ FinishJob(k) /\ SetJob(k, "completed")
        \/ jobs[k].state # "none" /\ SetJob(k, "waiting")
        \/ (BuyerPays(k) \/ ProviderCancels(k)) /\ SetJob(k, "waiting")
    BY <1>3 DEF FinishJob, RetryFailedJob, BuyerPays, ProviderCancels
  <2>2. "completed" \in JobStates /\ "waiting" \in JobStates
    BY DEF JobStates
  <2>3. QED
    BY <1>1, <2>1, <2>2, SetJobSets DEF JobMoves
<1>4. ASSUME NEW k \in Keys, TakeJob(k)
      PROVE  jobs' \in [Keys -> JobRecords] /\ \A j \in Keys : JobMoves(j)
  <2>1. \/ SetJob(k, "active")
        \/ SetJob(k, "completed")
        \/ jobs[k].state # "none" /\ jobs' = [jobs EXCEPT ![k] = FailedAttempt(jobs[k])]
    BY <1>4 DEF TakeJob
  <2>2. "completed" \in JobStates /\ "active" \in JobStates
    BY DEF JobStates
  <2>3. CASE SetJob(k, "active") \/ SetJob(k, "completed")
    BY <1>1, <1>4, <2>2, <2>3, SetJobSets DEF JobMoves
  <2>4. CASE jobs[k].state # "none" /\ jobs' = [jobs EXCEPT ![k] = FailedAttempt(jobs[k])]
    BY <1>1, <2>4, JobAfterFault DEF JobMoves
  <2>5. QED
    BY <2>1, <2>3, <2>4
<1>5. ASSUME \/ jobs' = [k \in Keys |-> AfterThrow(jobs[k])]
             \/ jobs' = [k \in Keys |-> AfterRestart(jobs[k])]
      PROVE  jobs' \in [Keys -> JobRecords] /\ \A j \in Keys : JobMoves(j)
  <2>1. ASSUME NEW k \in Keys PROVE jobs'[k] \in JobRecords /\ JobMoves(k)
    <3>1. PICK j \in JobRecords : j = jobs[k]
      BY <1>1
    <3>2. jobs'[k] = AfterThrow(j) \/ jobs'[k] = AfterRestart(j)
      BY <1>5, <3>1
    <3>3. QED
      BY <3>1, <3>2, JobAfterFault DEF JobMoves
  <2>2. QED
    BY <1>5, <2>1
<1>6. ASSUME NEW p \in Procs,
             \/ \E o \in Orders, to \in OrderStatuses :
                  SupplierDecides(p, o, to) \/ AdminDecides(p, o, to)
             \/ \E to \in CheckoutStatuses : AdminUpdatesSession(p, to)
             \/ FillContacts(p) \/ RunExpiry(p)
             \/ \E k \in Keys : Pay(p, k) \/ CancelIntent(p, k) \/ GenericEvent(p, k)
      PROVE  jobs' = jobs
  BY <1>6 DEF SupplierDecides, AdminDecides, AdminUpdatesSession, FillContacts, RunExpiry,
              Pay, CancelIntent, GenericEvent
<1>7. ASSUME NEW p \in Everyone, Continue(p) PROVE jobs' = jobs
  BY <1>7 DEF Continue, SetOrder, SetSession, SetIntent, ExpireSession, FindIntents,
              CreatePayment, InsertIntent, CommitPaid
<1>8. ASSUME NEW p \in Everyone, Throw(p)
      PROVE  jobs' = jobs \/ jobs' = [k \in Keys |-> AfterThrow(jobs[k])]
  BY <1>8 DEF Throw
<1>9. /\ Expire \/ UNCHANGED vars => jobs' = jobs
      /\ Crash => jobs' = [k \in Keys |-> AfterRestart(jobs[k])]
  BY DEF Expire, Crash, vars
<1>10. QED
  BY <1>2, <1>3, <1>4, <1>5, <1>6, <1>7, <1>8, <1>9 DEF Next

\* What becomes of an intent and of a payment in a step.
IntentMoves(k) ==
  \/ intents'[k] = intents[k]
  \/ intents[k] = "none" /\ intents'[k] = "PENDING"
  \/ \E p \in Everyone : /\ Next1(p, "commitPaid") /\ Step1(p).id = k
                         /\ intents'[k] = "PAID"
  \/ \E p \in Everyone : /\ Next1(p, "setIntent") /\ Step1(p).id = k
                         /\ intents'[k] = Step1(p).to

PaymentMoves(k) ==
  \/ payments'[k] = payments[k]
  \/ payments[k] = "none" /\ payments'[k] = "open"
  \/ payments'[k] = "succeeded" /\ BuyerPays(k)
  \/ payments'[k] = "canceled" /\ ProviderCancels(k)

\* Handlers that begin leave the rows alone.
LEMMA BeginningsWriteNothing ==
  ASSUME NEW p \in Procs,
         \/ \E o \in Orders, to \in OrderStatuses :
              SupplierDecides(p, o, to) \/ AdminDecides(p, o, to)
         \/ \E to \in CheckoutStatuses : AdminUpdatesSession(p, to)
         \/ FillContacts(p) \/ RunExpiry(p)
         \/ \E k \in Keys : Pay(p, k) \/ CancelIntent(p, k) \/ GenericEvent(p, k)
  PROVE  UNCHANGED <<session, orders, intents, sales, due, payments, faults>>
BY DEF SupplierDecides, AdminDecides, AdminUpdatesSession, FillContacts, RunExpiry, Pay,
       CancelIntent, GenericEvent, Begin, rows

\* A step of a handler writes what it was decided to write.
LEMMA StepWrites ==
  ASSUME TypeInv, NEW p \in Everyone, Continue(p)
  PROVE  /\ session' \in CheckoutStatuses
         /\ orders' \in [Orders -> OrderStatuses \cup {"none"}]
         /\ intents' \in [Keys -> PaymentStatuses \cup {"none"}]
         /\ sales' \in [Keys -> Nat] /\ due' = due /\ faults' \in Nat
         /\ payments' \in [Keys -> {"none", "open", "succeeded", "canceled"}]
         /\ \A k \in Keys : IntentMoves(k) /\ PaymentMoves(k)
<1>1. todo[p] # <<>>
  BY DEF Continue, SetOrder, SetSession, SetIntent, ExpireSession, FindIntents,
         CreatePayment, InsertIntent, CommitPaid, Next1
<1>2. PICK s \in FittingSteps : s = Step1(p)
  BY <1>1, HeadFits DEF TypeInv
<1>3. TypeOK /\ s.do = Head(todo[p]).do
  BY <1>2 DEF TypeInv, Step1
<1>4. CASE SetOrder(p)
  <2>1. s.to \in OrderStatuses /\ orders' = [orders EXCEPT ![s.id] = s.to]
        /\ UNCHANGED <<session, intents, sales, due, payments, faults>>
    BY <1>2, <1>3, <1>4 DEF SetOrder, Next1, FittingSteps, Fits
  <2>2. QED
    BY <1>3, <2>1 DEF TypeOK, IntentMoves, PaymentMoves
<1>5. CASE SetSession(p)
  <2>1. s.to \in CheckoutStatuses /\ session' = s.to
        /\ UNCHANGED <<orders, intents, sales, due, payments, faults>>
    BY <1>2, <1>3, <1>5 DEF SetSession, Next1, FittingSteps, Fits
  <2>2. QED
    BY <1>3, <2>1 DEF TypeOK, IntentMoves, PaymentMoves
<1>6. CASE SetIntent(p)
  <2>1. s.id \in Keys /\ s.to \in PaymentStatuses /\ intents' = [intents EXCEPT ![s.id] = s.to]
        /\ UNCHANGED <<session, orders, sales, due, payments, faults>>
    BY <1>2, <1>3, <1>6 DEF SetIntent, Next1, FittingSteps, Fits
  <2>2. intents'[s.id] = s.to /\ \A k \in Keys : k # s.id => intents'[k] = intents[k]
    BY <1>3, <2>1 DEF TypeOK
  <2>3. \A k \in Keys : IntentMoves(k)
    BY <1>2, <1>6, <2>2 DEF SetIntent, IntentMoves
  <2>4. QED
    BY <1>3, <2>1, <2>3 DEF TypeOK, PaymentMoves
<1>7. CASE ExpireSession(p) \/ FindIntents(p)
  <2>1. UNCHANGED <<session, orders, intents, sales, due, payments, faults>>
    BY <1>7 DEF ExpireSession, FindIntents, rows
  <2>2. QED
    BY <1>3, <2>1 DEF TypeOK, IntentMoves, PaymentMoves
<1>8. CASE CreatePayment(p)
  <2>1. s.id \in Keys /\ OpenPayment(s.id)
        /\ UNCHANGED <<session, orders, intents, sales, due, faults>>
    BY <1>2, <1>3, <1>8 DEF CreatePayment, Next1, FittingSteps, Fits, rows
  <2>2. \/ payments' = payments
        \/ payments[s.id] = "none" /\ payments' = [payments EXCEPT ![s.id] = "open"]
    BY <1>3, <2>1 DEF OpenPayment, TypeOK
  <2>3. QED
    BY <1>3, <2>1, <2>2 DEF TypeOK, IntentMoves, PaymentMoves
<1>9. CASE InsertIntent(p)
  <2>1. s.id \in Keys
        /\ intents' = [intents EXCEPT ![s.id] =
                         IF intents[s.id] = "none" THEN "PENDING" ELSE intents[s.id]]
        /\ UNCHANGED <<session, orders, sales, due, payments, faults>>
    BY <1>2, <1>3, <1>9 DEF InsertIntent, Next1, FittingSteps, Fits
  <2>2. \/ intents' = intents
        \/ intents[s.id] = "none" /\ intents' = [intents EXCEPT ![s.id] = "PENDING"]
    BY <1>3, <2>1 DEF TypeOK
  <2>3. "PENDING" \in PaymentStatuses
    BY DEF PaymentStatuses
  <2>4. QED
    BY <1>3, <2>1, <2>2, <2>3 DEF TypeOK, IntentMoves, PaymentMoves
<1>10. CASE CommitPaid(p)
  <2>1. /\ s.id \in Keys /\ intents' = [intents EXCEPT ![s.id] = "PAID"]
        /\ session' \in {session, "COMPLETED"}
        /\ (sales' = [sales EXCEPT ![s.id] = sales[s.id] + 1] \/ sales' = sales)
        /\ (faults' = faults \/ faults' = faults + 1)
        /\ UNCHANGED <<orders, due, payments>>
    BY <1>2, <1>3, <1>10 DEF CommitPaid, Next1, FittingSteps, Fits
  <2>2. "PAID" \in PaymentStatuses /\ "COMPLETED" \in CheckoutStatuses
    BY DEF PaymentStatuses, CheckoutStatuses
  <2>3. intents'[s.id] = "PAID" /\ \A k \in Keys : k # s.id => intents'[k] = intents[k]
    BY <1>3, <2>1 DEF TypeOK
  <2>4. \A k \in Keys : IntentMoves(k)
    BY <1>2, <1>10, <2>3 DEF CommitPaid, IntentMoves
  <2>5. sales' \in [Keys -> Nat] /\ faults' \in Nat
    BY <1>3, <2>1 DEF TypeOK
  <2>6. QED
    BY <1>3, <2>1, <2>2, <2>4, <2>5 DEF TypeOK, PaymentMoves
<1>11. QED
  BY <1>4, <1>5, <1>6, <1>7, <1>8, <1>9, <1>10 DEF Continue

\* Rows keep their types, and intents and payments move as IntentMoves and PaymentMoves say.
LEMMA RowsMove ==
  ASSUME TypeInv, [Next]_vars
  PROVE  /\ session' \in CheckoutStatuses
         /\ orders' \in [Orders -> OrderStatuses \cup {"none"}]
         /\ intents' \in [Keys -> PaymentStatuses \cup {"none"}]
         /\ sales' \in [Keys -> Nat] /\ due' \in BOOLEAN /\ faults' \in Nat
         /\ payments' \in [Keys -> {"none", "open", "succeeded", "canceled"}]
         /\ \A k \in Keys : IntentMoves(k) /\ PaymentMoves(k)
<1>1. TypeOK
  BY DEF TypeInv
<1>2. CASE UNCHANGED <<session, orders, intents, sales, due, payments, faults>>
  BY <1>1, <1>2 DEF TypeOK, IntentMoves, PaymentMoves
<1>3. CASE \E p \in Everyone : Continue(p)
  BY <1>1, <1>3, StepWrites DEF TypeOK
<1>4. ASSUME NEW k \in Keys, BuyerPays(k) \/ ProviderCancels(k)
      PROVE  /\ payments' \in [Keys -> {"none", "open", "succeeded", "canceled"}]
             /\ \A j \in Keys : PaymentMoves(j)
             /\ UNCHANGED <<session, orders, intents, sales, due, faults>>
  <2>1. PICK s \in {"succeeded", "canceled"} :
          /\ payments' = [payments EXCEPT ![k] = s]
          /\ (s = "succeeded" /\ BuyerPays(k)) \/ (s = "canceled" /\ ProviderCancels(k))
    BY <1>4 DEF BuyerPays, ProviderCancels
  <2>2. payments'[k] = s /\ \A j \in Keys : j # k => payments'[j] = payments[j]
    BY <1>1, <2>1 DEF TypeOK
  <2>3. \A j \in Keys : PaymentMoves(j)
    BY <2>1, <2>2 DEF PaymentMoves
  <2>4. payments' \in [Keys -> {"none", "open", "succeeded", "canceled"}]
    BY <1>1, <2>1 DEF TypeOK
  <2>5. QED
    BY <1>4, <2>3, <2>4 DEF BuyerPays, ProviderCancels, rows
<1>5. ASSUME NEW p \in Everyone, Throw(p)
      PROVE  /\ sales' \in [Keys -> Nat] /\ faults' \in Nat
             /\ UNCHANGED <<session, orders, intents, due, payments>>
  <2>1. /\ sales' = sales \/ sales' = [sales EXCEPT ![Step1(p).id] = sales[Step1(p).id] + 1]
        /\ faults' = faults + 1
        /\ UNCHANGED <<session, orders, intents, due, payments>>
    BY <1>5 DEF Throw, Fault
  <2>2. QED
    BY <1>1, <2>1 DEF TypeOK
<1>6. CASE Crash
  BY <1>1, <1>6 DEF Crash, Fault, rows, TypeOK, IntentMoves, PaymentMoves
<1>7. CASE Expire
  BY <1>1, <1>7 DEF Expire, rows, TypeOK, IntentMoves, PaymentMoves
<1>8. ASSUME NEW k \in Keys, TakeJob(k) \/ FinishJob(k) \/ RetryFailedJob(k)
      PROVE  UNCHANGED <<session, orders, intents, sales, due, payments, faults>>
  BY <1>8 DEF TakeJob, FinishJob, RetryFailedJob, Begin, rows
<1>9. CASE UNCHANGED vars
  BY <1>2, <1>9 DEF vars
<1>10. CASE \E p \in Everyone : Throw(p)
  BY <1>1, <1>5, <1>10 DEF TypeOK, IntentMoves, PaymentMoves
<1>11. CASE \E k \in Keys : BuyerPays(k) \/ ProviderCancels(k)
  BY <1>1, <1>4, <1>11 DEF TypeOK, IntentMoves
<1>12. QED
  BY <1>2, <1>3, <1>6, <1>7, <1>8, <1>9, <1>10, <1>11, BeginningsWriteNothing DEF Next

\* The initial states are typed, and no handler has a plan.
LEMMA InitIsTyped == Init => TypeInv
<1> SUFFICES ASSUME Init PROVE TypeInv
  OBVIOUS
<1>1. session \in CheckoutStatuses
  BY CheckoutAssumption
     DEF Init, CartStatuses, PackageStatuses, GiftStatuses, CheckoutStatuses
<1>2. orders \in [Orders -> OrderStatuses \cup {"none"}]
  BY DEF Init, OrderStatuses
<1>3. PICK j : j = [state |-> "none", failures |-> 0, stalls |-> 0]
  OBVIOUS
<1>4. j \in JobRecords
  BY <1>3 DEF JobRecords, JobStates
<1>5. jobs \in [Keys -> JobRecords]
  BY <1>3, <1>4 DEF Init
<1>6. todo \in [Everyone -> Seq(FittingSteps)] /\ todo \in [Everyone -> Seq(HandlerSteps)]
  BY DEF Init
<1>7. QED
  BY <1>1, <1>2, <1>5, <1>6 DEF Init, TypeInv, TypeOK, JobRecords

\* Every step keeps the types: plans by PlansStay, rows and jobs by RowsMove and JobsMove.
LEMMA NextKeepsTypes == TypeInv /\ [Next]_vars => TypeInv'
<1> SUFFICES ASSUME TypeInv, [Next]_vars PROVE TypeInv'
  OBVIOUS
<1>1. todo' \in [Everyone -> Seq(FittingSteps)]
  BY FittingPlans, PlansStay DEF TypeInv
<1>2. FittingSteps \subseteq HandlerSteps
  BY DEF FittingSteps
<1>3. todo' \in [Everyone -> Seq(HandlerSteps)]
  BY <1>1, <1>2
<1>4. jobs' \in [Keys -> JobRecords]
  BY JobsMove DEF TypeInv
<1>5. QED
  BY <1>1, <1>3, <1>4, RowsMove DEF TypeInv, TypeOK, JobRecords

\* Every row, payment, job and plan has its type, whoever calls, for any overlap and
\* faults; the proof needs that a planned step has a status of the kind of its row.
THEOREM TypeCorrect == Spec => []TypeOK
<1>1. TypeInv => TypeOK
  BY DEF TypeInv
<1>2. QED
  BY <1>1, InitIsTyped, NextKeepsTypes, PTL DEF Spec

(***************************************************************************)
(* Money taken is never forgotten, where nobody gives an intent up while   *)
(* its payment is open.                                                    *)
(***************************************************************************)
NobodyGivesUp == Roles \cap {"cancel", "generic"} = {}

\* What a handler will write to an intent is what the provider has said.
Agrees(s) ==
  /\ s.do = "setIntent" => s.to = "FAILED" /\ payments[s.id] = "canceled"
  /\ s.do = "commitPaid" => payments[s.id] = "succeeded"

AgreeingSteps == {s \in FittingSteps : Agrees(s)}

PlansAgree == todo \in [Everyone -> Seq(AgreeingSteps)]

IntentsAgree ==
  \A k \in Keys :
    /\ intents[k] \in {"none", "PENDING", "PAID", "FAILED"}
    /\ intents[k] = "PAID" => payments[k] = "succeeded"
    /\ intents[k] = "FAILED" => payments[k] = "canceled"
    /\ jobs[k].state # "none" => payments[k] \in {"succeeded", "canceled"}

\* An active job is not done before its intent is PAID.
WorkerCommits ==
  \A k \in Keys : jobs[k].state = "active" /\ payments[k] = "succeeded" =>
    intents[k] = "PAID" \/ (Next1(Worker, "commitPaid") /\ Step1(Worker).id = k)

AccountInv == TypeInv /\ PlansAgree /\ IntentsAgree /\ WorkerCommits /\ ChargeIsAccounted

\* The answers of the table that the worker meets.
LEMMA AnswersToPaid ==
  /\ TryPayment("PENDING", "PAID", "system") = "allowed"
  /\ TryPayment("PAID", "PAID", "system") = "noOp"
BY DEF TryPayment, TryTransition, PaymentTransitions, Moves

\* A payment that has ended stays as it is.
LEMMA PaymentsStay ==
  ASSUME NEW k \in Keys, PaymentMoves(k), payments[k] \in {"succeeded", "canceled"}
  PROVE  payments'[k] = payments[k]
BY DEF PaymentMoves, BuyerPays, ProviderCancels

\* Who moves the worker on.
LEMMA WorkerMoves ==
  ASSUME TypeOK, [Next]_vars
  PROVE  \/ todo'[Worker] = todo[Worker]
         \/ Continue(Worker) \/ Throw(Worker) \/ Crash
         \/ todo[Worker] = <<>>
<1>1. todo \in [Everyone -> Seq(HandlerSteps)] /\ Worker \in Everyone
  BY DEF TypeOK, Everyone
<1>2. ASSUME NEW p \in Procs,
             \/ \E o \in Orders, to \in OrderStatuses :
                  SupplierDecides(p, o, to) \/ AdminDecides(p, o, to)
             \/ \E to \in CheckoutStatuses : AdminUpdatesSession(p, to)
             \/ FillContacts(p) \/ RunExpiry(p)
             \/ \E k \in Keys : Pay(p, k) \/ CancelIntent(p, k) \/ GenericEvent(p, k)
      PROVE  todo'[Worker] = todo[Worker]
  <2>1. \E steps : todo' = [todo EXCEPT ![p] = steps]
    BY <1>2 DEF SupplierDecides, AdminDecides, AdminUpdatesSession, FillContacts, RunExpiry,
                Pay, CancelIntent, GenericEvent, Begin
  <2>2. p # Worker
    BY CheckoutAssumption
  <2>3. QED
    BY <1>1, <2>1, <2>2
<1>3. ASSUME NEW p \in Everyone, Continue(p), p # Worker PROVE todo'[Worker] = todo[Worker]
  <2>1. \E steps : todo' = [todo EXCEPT ![p] = steps]
    BY <1>3 DEF Continue, SetOrder, SetSession, SetIntent, ExpireSession, FindIntents,
                CreatePayment, InsertIntent, CommitPaid, Drop1, Then
  <2>2. QED
    BY <1>1, <1>3, <2>1
<1>4. ASSUME NEW p \in Everyone, Throw(p), p # Worker PROVE todo'[Worker] = todo[Worker]
  BY <1>1, <1>4 DEF Throw, Then
<1>5. ASSUME NEW k \in Keys, TakeJob(k) PROVE todo' = todo \/ todo[Worker] = <<>>
  BY <1>5 DEF TakeJob, Begin
<1>6. ASSUME NEW k \in Keys,
             FinishJob(k) \/ RetryFailedJob(k) \/ BuyerPays(k) \/ ProviderCancels(k)
      PROVE  todo' = todo
  BY <1>6 DEF FinishJob, RetryFailedJob, BuyerPays, ProviderCancels
<1>7. Expire \/ UNCHANGED vars => todo' = todo
  BY DEF Expire, vars
<1>8. QED
  BY <1>2, <1>3, <1>4, <1>5, <1>6, <1>7 DEF Next

\* If nobody gives up an intent, handlers decide only on steps that agree with the payments.
LEMMA AgreeingPlans ==
  ASSUME NobodyGivesUp, AccountInv
  PROVE  Plannable(AgreeingSteps)
<1>1. Plannable(FittingSteps)
  BY FittingPlans DEF AccountInv, TypeInv
<1>2. "cancel" \notin Roles /\ "generic" \notin Roles
  BY DEF NobodyGivesUp
<1>3. \A kind, id, to : Do(kind, id, to).do = kind /\ Do(kind, id, to).id = id
                        /\ Do(kind, id, to).to = to
  BY DEF Do
<1>4. \A s \in FittingSteps : s.do \notin {"setIntent", "commitPaid"} => s \in AgreeingSteps
  BY DEF AgreeingSteps, Agrees
<1>5. \A k \in Keys : payments[k] = "succeeded" =>
        Do("commitPaid", k, "COMPLETED") \in AgreeingSteps
        /\ Do("commitPaid", k, "none") \in AgreeingSteps
  BY <1>1, <1>3 DEF Plannable, AgreeingSteps, Agrees
<1>6. \A k \in Keys : payments[k] # "succeeded" /\ jobs[k].state # "none" =>
        Do("setIntent", k, "FAILED") \in AgreeingSteps
  BY <1>1, <1>3 DEF Plannable, AgreeingSteps, Agrees, AccountInv, IntentsAgree
<1>7. QED
  BY <1>1, <1>2, <1>3, <1>4, <1>5, <1>6 DEF Plannable

\* What is written to an intent in a step, and never to one that is PAID.
LEMMA IntentsMove ==
  ASSUME AccountInv, NEW k \in Keys, IntentMoves(k)
  PROVE  \/ intents'[k] = intents[k]
         \/ intents[k] = "none" /\ intents'[k] = "PENDING"
         \/ intents'[k] = "PAID" /\ payments[k] = "succeeded"
         \/ intents'[k] = "FAILED" /\ payments[k] = "canceled"
<1>1. ASSUME NEW p \in Everyone, todo[p] # <<>> PROVE Agrees(Step1(p))
  <2>1. PICK S : S = AgreeingSteps
    OBVIOUS
  <2>2. Step1(p) \in S
    BY <1>1, <2>1, HeadFits DEF AccountInv, PlansAgree
  <2>3. QED
    BY <2>1, <2>2 DEF AgreeingSteps
<1>2. ASSUME NEW p \in Everyone, Next1(p, "commitPaid"), Step1(p).id = k
      PROVE  payments[k] = "succeeded"
  BY <1>1, <1>2 DEF Next1, Step1, Agrees
<1>3. ASSUME NEW p \in Everyone, Next1(p, "setIntent"), Step1(p).id = k
      PROVE  Step1(p).to = "FAILED" /\ payments[k] = "canceled"
  BY <1>1, <1>3 DEF Next1, Step1, Agrees
<1>4. QED
  BY <1>2, <1>3 DEF IntentMoves

\* Every step keeps the account: no intent leaves PAID, no paid job is marked done unbooked.
LEMMA NextKeepsAccount ==
  ASSUME NobodyGivesUp, AccountInv, [Next]_vars
  PROVE  AccountInv'
<1>1. TypeInv /\ TypeOK /\ TypeInv'
  BY NextKeepsTypes DEF AccountInv, TypeInv
<1>2. \A k \in Keys : IntentMoves(k) /\ PaymentMoves(k) /\ JobMoves(k)
  BY <1>1, RowsMove, JobsMove
<1>3. jobs \in [Keys -> JobRecords]
  BY <1>1 DEF TypeOK, JobRecords
<1>4. PlansAgree'
  <2>1. PICK S : S = AgreeingSteps
    OBVIOUS
  <2>2. S \in SUBSET FittingSteps /\ Plannable(S) /\ todo \in [Everyone -> Seq(S)]
    BY <2>1, AgreeingPlans DEF AgreeingSteps, AccountInv, PlansAgree
  <2>3. todo' \in [Everyone -> Seq(S)]
    BY <1>1, <2>2, PlansStay
  <2>4. S \subseteq AgreeingSteps'
    <3>1. ASSUME NEW s \in S PROVE s \in FittingSteps /\ Agrees(s)'
      <4>1. s \in FittingSteps /\ Agrees(s)
        BY <2>1 DEF AgreeingSteps
      <4>2. s.do \in {"setIntent", "commitPaid"} => s.id \in Keys
        BY <4>1 DEF FittingSteps, Fits
      <4>3. QED
        BY <1>2, <4>1, <4>2, PaymentsStay DEF Agrees
    <3>2. QED
      BY <3>1 DEF AgreeingSteps
  <2>5. QED
    BY <2>3, <2>4 DEF PlansAgree
<1>5. ASSUME NEW k \in Keys, jobs'[k].state # "none"
      PROVE  payments'[k] \in {"succeeded", "canceled"}
  <2>1. CASE jobs[k].state # "none"
    BY <1>2, <2>1, PaymentsStay DEF AccountInv, IntentsAgree
  <2>2. CASE jobs[k].state = "none"
    <3>1. BuyerPays(k) \/ ProviderCancels(k)
      BY <1>2, <1>5, <2>2 DEF JobMoves, TakeJob, FinishJob
    <3>2. QED
      BY <1>1, <3>1 DEF BuyerPays, ProviderCancels, TypeOK
  <2>3. QED
    BY <2>1, <2>2
<1>6. IntentsAgree'
  <2>1. ASSUME NEW k \in Keys
        PROVE  /\ intents'[k] \in {"none", "PENDING", "PAID", "FAILED"}
               /\ intents'[k] = "PAID" => payments'[k] = "succeeded"
               /\ intents'[k] = "FAILED" => payments'[k] = "canceled"
    BY <1>2, IntentsMove, PaymentsStay DEF AccountInv, IntentsAgree
  <2>2. QED
    BY <1>5, <2>1 DEF IntentsAgree
<1>7. ASSUME NEW k \in Keys, payments'[k] = "succeeded"
      PROVE  \/ intents'[k] = "PAID"
             \/ intents'[k] = "PENDING" /\ jobs'[k].state \in {"waiting", "active", "failed"}
  <2>1. CASE payments[k] # "succeeded"
    <3>1. BuyerPays(k)
      BY <1>2, <1>7, <2>1 DEF PaymentMoves
    <3>2. intents[k] = "PENDING" /\ intents' = intents
      BY <3>1, <2>1 DEF BuyerPays, AccountInv, IntentsAgree, rows
    <3>3. jobs'[k].state = "waiting"
      BY <1>3, <3>1, SetJobSets DEF BuyerPays, JobStates
    <3>4. QED
      BY <3>2, <3>3
  <2>2. CASE payments[k] = "succeeded" /\ intents[k] = "PAID"
    BY <1>2, <2>2, IntentsMove
  <2>3. CASE payments[k] = "succeeded" /\ intents[k] = "PENDING"
    <3>1. jobs[k].state \in {"waiting", "active", "failed"}
      BY <2>3 DEF AccountInv, ChargeIsAccounted
    <3>2. intents'[k] \in {"PENDING", "PAID"}
      BY <1>2, <2>3, IntentsMove
    <3>3. ASSUME TakeJob(k) PROVE jobs'[k].state # "completed"
      <4>1. SetJob(k, "active")
        BY <2>3, <3>3, AnswersToPaid DEF TakeJob
      <4>2. QED
        BY <1>3, <4>1, SetJobSets DEF JobStates
    <3>4. ~FinishJob(k)
      BY <2>3 DEF FinishJob, AccountInv, WorkerCommits, Next1
    <3>5. jobs'[k].state \in {"waiting", "active", "failed"}
      BY <1>2, <3>1, <3>3, <3>4 DEF JobMoves
    <3>6. QED
      BY <3>2, <3>5
  <2>4. QED
    BY <2>1, <2>2, <2>3 DEF AccountInv, ChargeIsAccounted
<1>8. ASSUME NEW k \in Keys, jobs'[k].state = "active", payments'[k] = "succeeded"
      PROVE  intents'[k] = "PAID" \/ (Next1(Worker, "commitPaid") /\ Step1(Worker).id = k)'
  <2>1. TakeJob(k) \/ jobs'[k] = jobs[k]
    BY <1>2, <1>8 DEF JobMoves
  <2>2. CASE TakeJob(k) /\ jobs'[k] # jobs[k]
    <3>1. UNCHANGED <<payments, intents>>
      BY <2>2 DEF TakeJob, Begin, rows
    <3>2. CASE intents[k] = "PAID"
      BY <3>1, <3>2
    <3>3. CASE intents[k] = "PENDING"
      <4>1. Begin(Worker, MarkPaidSteps(k))
        BY <1>8, <2>2, <3>1, <3>3, AnswersToPaid DEF TakeJob
      <4>2. PICK to : MarkPaidSteps(k) = <<Do("commitPaid", k, to)>>
        BY <3>3, AnswersToPaid DEF MarkPaidSteps
      <4>3. PICK s : s = Do("commitPaid", k, to)
        OBVIOUS
      <4>4. s.do = "commitPaid" /\ s.id = k
        BY <4>3 DEF Do
      <4>5. todo'[Worker] = <<s>>
        BY <1>1, <4>1, <4>2, <4>3 DEF Begin, TypeOK, Everyone
      <4>6. QED
        BY <4>4, <4>5 DEF Next1, Step1
    <3>4. QED
      BY <1>8, <3>1, <3>2, <3>3 DEF AccountInv, ChargeIsAccounted
  <2>3. CASE jobs'[k] = jobs[k]
    <3>1. payments[k] = "succeeded"
      <4>1. ~BuyerPays(k)
        BY <1>3, <1>8, <2>3, SetJobSets DEF BuyerPays, JobStates
      <4>2. QED
        BY <1>2, <1>8, <4>1 DEF PaymentMoves
    <3>2. CASE intents[k] = "PAID"
      BY <1>2, <3>1, <3>2, IntentsMove
    <3>3. CASE Next1(Worker, "commitPaid") /\ Step1(Worker).id = k
      <4>1. todo[Worker] # <<>> /\ Worker \in Everyone
        BY <3>3 DEF Next1, Everyone
      <4>2. CASE todo'[Worker] = todo[Worker]
        BY <3>3, <4>2 DEF Next1, Step1
      <4>3. CASE Continue(Worker)
        <5>1. CommitPaid(Worker)
          BY <3>3, <4>3 DEF Continue, SetOrder, SetSession, SetIntent, ExpireSession,
                            FindIntents, CreatePayment, InsertIntent, Next1
        <5>2. intents' = [intents EXCEPT ![k] = "PAID"]
          BY <3>3, <5>1 DEF CommitPaid
        <5>3. QED
          BY <1>1, <5>2 DEF TypeOK
      <4>4. CASE Throw(Worker) \/ Crash
        <5>1. PICK j \in JobRecords : j = jobs[k]
          BY <1>3
        <5>2. jobs'[k] = AfterThrow(j) \/ jobs'[k] = AfterRestart(j)
          BY <4>4, <5>1 DEF Throw, Crash
        <5>3. QED
          BY <1>8, <2>3, <5>1, <5>2, JobAfterFault
      <4>5. QED
        BY <1>1, <4>1, <4>2, <4>3, <4>4, WorkerMoves
    <3>4. QED
      BY <1>8, <2>3, <3>1, <3>2, <3>3 DEF AccountInv, WorkerCommits
  <2>4. QED
    BY <2>1, <2>2, <2>3
<1>9. QED
  <2>1. ChargeIsAccounted'
    BY <1>7 DEF ChargeIsAccounted
  <2>2. WorkerCommits'
    BY <1>8 DEF WorkerCommits
  <2>3. QED
    BY <1>1, <1>4, <1>6, <2>1, <2>2 DEF AccountInv

\* Initially nothing was paid, so nothing is to be accounted for.
LEMMA InitIsAccounted == Init => AccountInv
<1> SUFFICES ASSUME Init PROVE AccountInv
  OBVIOUS
<1>1. TypeInv
  BY InitIsTyped
<1>2. PlansAgree
  BY DEF Init, PlansAgree
<1>3. \A k \in Keys : intents[k] = "none" /\ payments[k] = "none" /\ jobs[k].state = "none"
  BY DEF Init
<1>4. QED
  BY <1>1, <1>2, <1>3 DEF AccountInv, IntentsAgree, WorkerCommits, ChargeIsAccounted

\* A payment that has succeeded is booked on its intent, or a job of the queue
\* knows of it: for any handlers that overlap, exceptions and restarts, where
\* neither buyer nor generic webhook gives up an intent by hand.
THEOREM ChargesAreAccounted ==
  ASSUME NobodyGivesUp
  PROVE  Spec => []ChargeIsAccounted
<1>1. AccountInv => ChargeIsAccounted
  BY DEF AccountInv
<1>2. AccountInv /\ [Next]_vars => AccountInv'
  BY NextKeepsAccount
<1>3. QED
  BY <1>1, <1>2, InitIsAccounted, PTL DEF Spec

(***************************************************************************)
(* A completed session has been paid for.                                  *)
(***************************************************************************)
\* No handler but markPaid has decided to complete the session.
OtherSteps == {s \in FittingSteps : s.do = "setSession" => s.to # "COMPLETED"}

CompletedInv ==
  AccountInv /\ todo \in [Everyone -> Seq(OtherSteps)] /\ CompletedHasPaidIntent

\* Without the administrator's edit only markPaid decides to complete a session.
LEMMA OtherPlans ==
  ASSUME TypeOK, "adminSession" \notin Roles
  PROVE  Plannable(OtherSteps)
<1>1. Plannable(FittingSteps)
  BY FittingPlans
<1>2. \A kind, id, to : Do(kind, id, to).do = kind /\ Do(kind, id, to).to = to
  BY DEF Do
<1>3. \A s \in FittingSteps : s.do # "setSession" \/ s.to # "COMPLETED" => s \in OtherSteps
  BY DEF OtherSteps
<1>4. QED
  BY <1>1, <1>2, <1>3 DEF Plannable

\* Who writes the status of the session.
LEMMA SessionMoves ==
  ASSUME TypeInv, [Next]_vars
  PROVE  \/ session' = session
         \/ \E p \in Everyone : Next1(p, "setSession") /\ session' = Step1(p).to
         \/ \E p \in Everyone : CommitPaid(p)
<1>1. \A p \in Everyone : Continue(p) =>
        \/ session' = session
        \/ Next1(p, "setSession") /\ session' = Step1(p).to
        \/ CommitPaid(p)
  BY DEF Continue, SetOrder, SetSession, SetIntent, ExpireSession, FindIntents,
         CreatePayment, InsertIntent, rows
<1>2. ASSUME NEW k \in Keys, \/ TakeJob(k) \/ FinishJob(k) \/ RetryFailedJob(k)
                             \/ BuyerPays(k) \/ ProviderCancels(k)
      PROVE  session' = session
  BY <1>2 DEF TakeJob, FinishJob, RetryFailedJob, BuyerPays, ProviderCancels, Begin, rows
<1>3. \A p \in Everyone : Throw(p) => session' = session
  BY DEF Throw
<1>4. Expire \/ Crash \/ UNCHANGED vars => session' = session
  BY DEF Expire, Crash, rows, vars
<1>5. QED
  BY <1>1, <1>2, <1>3, <1>4, BeginningsWriteNothing DEF Next

\* A session becomes COMPLETED in the commit that marks its intent PAID, which stays PAID.
LEMMA CompletedStays ==
  ASSUME "adminSession" \notin Roles, TypeInv, todo \in [Everyone -> Seq(OtherSteps)],
         CompletedHasPaidIntent, [Next]_vars,
         \A k \in Keys : intents[k] = "PAID" => intents'[k] = "PAID"
  PROVE  todo' \in [Everyone -> Seq(OtherSteps)] /\ CompletedHasPaidIntent'
<1>1. TypeInv' /\ TypeOK
  BY NextKeepsTypes DEF TypeInv
<1>2. todo' \in [Everyone -> Seq(OtherSteps)]
  BY <1>1, OtherPlans, PlansStay DEF OtherSteps
<1>3. CASE \E p \in Everyone : CommitPaid(p)
  <2>1. PICK p \in Everyone : CommitPaid(p)
    BY <1>3
  <2>2. todo[p] # <<>> /\ Step1(p).do = "commitPaid"
    BY <2>1 DEF CommitPaid, Next1, Step1
  <2>3. Step1(p) \in FittingSteps
    BY <1>1, <2>2, HeadFits DEF TypeInv
  <2>4. PICK k \in Keys : k = Step1(p).id
    BY <2>2, <2>3 DEF FittingSteps, Fits
  <2>5. intents' = [intents EXCEPT ![k] = "PAID"]
    BY <2>1, <2>4 DEF CommitPaid
  <2>6. intents'[k] = "PAID"
    BY <1>1, <2>5 DEF TypeOK
  <2>7. QED
    BY <1>2, <2>6 DEF CompletedHasPaidIntent
<1>4. CASE \E p \in Everyone : Next1(p, "setSession") /\ session' = Step1(p).to
  <2>1. PICK p \in Everyone : Next1(p, "setSession") /\ session' = Step1(p).to
    BY <1>4
  <2>2. Step1(p) \in OtherSteps /\ Step1(p).do = "setSession"
    BY <2>1, HeadFits DEF Next1, Step1
  <2>3. session' # "COMPLETED"
    BY <2>1, <2>2 DEF OtherSteps
  <2>4. QED
    BY <1>2, <2>3 DEF CompletedHasPaidIntent
<1>5. CASE session' = session
  BY <1>2, <1>5 DEF CompletedHasPaidIntent
<1>6. QED
  BY <1>3, <1>4, <1>5, SessionMoves

LEMMA NextKeepsCompleted ==
  ASSUME NobodyGivesUp, "adminSession" \notin Roles, CompletedInv, [Next]_vars
  PROVE  CompletedInv'
<1>1. AccountInv' /\ TypeInv /\ TypeOK
  BY NextKeepsAccount DEF CompletedInv, AccountInv, TypeInv
<1>2. \A k \in Keys : intents[k] = "PAID" => intents'[k] = "PAID"
  BY <1>1, RowsMove, IntentsMove DEF CompletedInv, AccountInv, IntentsAgree
<1>3. QED
  BY <1>1, <1>2, CompletedStays DEF CompletedInv

\* No session is created COMPLETED.
LEMMA InitIsCompleted == Init => CompletedInv
<1> SUFFICES ASSUME Init PROVE CompletedInv
  OBVIOUS
<1>1. AccountInv
  BY InitIsAccounted
<1>2. todo \in [Everyone -> Seq(OtherSteps)]
  BY DEF Init
<1>3. session # "COMPLETED"
  BY CheckoutAssumption DEF Init, CartStatuses, PackageStatuses, GiftStatuses
<1>4. QED
  BY <1>1, <1>2, <1>3 DEF CompletedInv, CompletedHasPaidIntent

\* A session is COMPLETED only with a PAID intent, for any handlers that overlap,
\* exceptions and restarts, where moreover no administrator sets it by hand.
THEOREM CompletedIsPaid ==
  ASSUME NobodyGivesUp, "adminSession" \notin Roles
  PROVE  Spec => []CompletedHasPaidIntent
<1>1. CompletedInv => CompletedHasPaidIntent
  BY DEF CompletedInv
<1>2. CompletedInv /\ [Next]_vars => CompletedInv'
  BY NextKeepsCompleted
<1>3. QED
  BY <1>1, <1>2, InitIsCompleted, PTL DEF Spec

(***************************************************************************)
(* Handlers in turn: MaxOverlap = 1.  Then what a handler has read is      *)
(* still so when it writes, and its plan is right for the rows as they     *)
(* are (PlanIsRight), whoever calls, whatever crashes.                     *)
(***************************************************************************)
Payable  == {"CONFIRMED", "AWAITING_PAYMENT"}
Standing == {"PENDING", "PROCESSING", "PAID"}

NoneStands == \A j \in Keys : intents[j] \notin Standing
IsCart == \E o \in Orders : orders[o] # "none"
SomeOrderConfirmed == \E o \in Orders : orders[o] = "CONFIRMED"

\* A cart that no administrator edits is offered for payment by a confirmed order.
OfferedFor(to, confirmed) == to \in Payable /\ IsCart /\ "adminSession" \notin Roles => confirmed

MayBecome(to) ==
  \/ \E a \in Actors : <<session, a, to>> \in CheckoutTransitions
  \/ "package" \in Roles /\ session \in PackageStatuses /\ to = "CONFIRMED"

RightForOrder(s) == s.do = "setOrder" /\ s.id \in Orders /\ s.to \in OrderTerminal
                    /\ orders[s.id] = "PENDING"
RightForSession(s) == s.do = "setSession" /\ MayBecome(s.to)

\* A plan of one step.
StepIsRight(s) ==
  \/ s.do = "setOrder" /\ RightForOrder(s)
  \/ s.do = "setSession" /\ RightForSession(s) /\ OfferedFor(s.to, SomeOrderConfirmed)
  \/ s.do = "setIntent" /\ s.id \in Keys /\ s.to \in {"FAILED", "CANCELLED"}
                        /\ intents[s.id] \in {"PENDING", "PROCESSING"}
  \/ s.do = "commitPaid" /\ s.id \in Keys /\ intents[s.id] \in {"PENDING", "PROCESSING"}
     /\ s.to = IF TryCheckout(session, "COMPLETED", "system") = "allowed" THEN "COMPLETED" ELSE "none"
  \/ s.do = "findIntents" /\ s.id \in Keys /\ session \in Payable
  \/ s.do \in {"createPayment", "insertIntent"} /\ s.id \in Keys /\ session \in Payable
     /\ intents[s.id] = "none" /\ NoneStands

\* The supplier's plan: the order, then the session.
PairIsRight(s, t) ==
  /\ RightForOrder(s) /\ RightForSession(t)
  /\ OfferedFor(t.to, s.to = "CONFIRMED")

\* The cron's plan: the orders it found PENDING, each once, then the session.
ExpiryIsRight(steps) ==
  /\ steps # <<>> /\ steps[Len(steps)].do = "expireSession"
  /\ \A n \in 1..(Len(steps) - 1) : RightForOrder(steps[n])
  /\ \A m, n \in 1..(Len(steps) - 1) : m # n => steps[m].id # steps[n].id

PlanIsRight(steps) ==
  \/ steps = <<>>
  \/ Len(steps) = 1 /\ StepIsRight(steps[1])
  \/ Len(steps) = 2 /\ PairIsRight(steps[1], steps[2])
  \/ ExpiryIsRight(steps)

OneBusy == \A p, q \in Everyone : todo[p] # <<>> /\ todo[q] # <<>> => p = q
PlansAreRight == \A p \in Everyone : \E plan \in {todo[p]} : PlanIsRight(plan)

\* An intent is stored while the session may be paid for; a session left that way ended.
StoredForSession ==
  \A k \in Keys : /\ intents[k] # "none" => session \in Payable \cup CheckoutTerminal
                  /\ intents[k] = "PAID" => session \notin Payable
                  /\ payments[k] = "succeeded" => intents[k] # "none"
                  /\ intents[k] \in Standing \cup {"none", "FAILED", "CANCELLED"}
OneStands == \A j, k \in Keys : {intents[j], intents[k]} \subseteq Standing => j = k
CartIsNoPackage == IsCart => session \notin PackageStatuses

RowsInTurn ==
  /\ StoredForSession /\ OneStands /\ CartIsNoPackage /\ BookedOnce
  /\ OfferedFor(session, SomeOrderConfirmed)

InTurn == TypeInv /\ OneBusy /\ PlansAreRight /\ RowsInTurn

\* An order is decided once: only PENDING has a way out.
LEMMA TableOfOrders ==
  ASSUME NEW from, NEW to
  PROVE  /\ \A a \in Actors : TryOrder(from, to, a) = "allowed" => from = "PENDING" /\ to \in OrderTerminal
         /\ from = "PENDING" /\ to \in OrderTerminal => CanByAnyone(OrderTransitions, from, to)
BY DEF TryOrder, TryTransition, OrderTransitions, Moves, OrderTerminal, CanByAnyone, Actors

\* Nothing leaves a session that ended, and the system may not ask for AWAITING_PAYMENT.
LEMMA TableOfSessions ==
  ASSUME NEW from, NEW to
  PROVE  /\ \A a \in Actors : TryCheckout(from, to, a) = "allowed" => <<from, a, to>> \in CheckoutTransitions
         /\ TryCheckout(from, "AWAITING_PAYMENT", "system") # "allowed"
         /\ from \in Payable => TryCheckout(from, "COMPLETED", "system") = "allowed"
         /\ \A a \in Actors : <<from, a, to>> \in CheckoutTransitions =>
              /\ from \notin CheckoutTerminal
              /\ from \in Payable => to \in {"AWAITING_PAYMENT"} \cup CheckoutTerminal
              /\ from \notin PackageStatuses => to \notin PackageStatuses
BY DEF TryCheckout, TryTransition, CheckoutTransitions, Moves, CheckoutTerminal, Payable,
       PackageStatuses, Actors

\* Only an intent that is active may become PAID, FAILED or CANCELLED.
LEMMA TableOfIntents ==
  ASSUME NEW from
  PROVE  /\ TryPayment(from, "PAID", "system") = "allowed" => from \in {"PENDING", "PROCESSING"}
         /\ TryPayment(from, "FAILED", "system") = "allowed" => from \in {"PENDING", "PROCESSING"}
         /\ TryPayment(from, "CANCELLED", "user") = "allowed" => from \in {"PENDING", "PROCESSING"}
         /\ from \in {"PENDING", "PROCESSING"} =>
              \A to \in {"PAID", "FAILED", "CANCELLED"} : CanByAnyone(PaymentTransitions, from, to)
BY DEF TryPayment, TryTransition, PaymentTransitions, Moves, CanByAnyone, Actors

\* A plan is right for the session, the orders and the intents, and for nothing else.
LEMMA SameRows ==
  ASSUME UNCHANGED <<session, orders, intents>>, NEW steps, PlanIsRight(steps)
  PROVE  PlanIsRight(steps)'
<1>1. \A s : (RightForOrder(s) <=> RightForOrder(s)') /\ (RightForSession(s) <=> RightForSession(s)')
  BY DEF RightForOrder, RightForSession, MayBecome
<1>2. \A to : OfferedFor(to, SomeOrderConfirmed) <=> OfferedFor(to, SomeOrderConfirmed)'
  BY DEF OfferedFor, IsCart, SomeOrderConfirmed
<1>3. \A s : StepIsRight(s) => StepIsRight(s)'
  BY <1>1, <1>2 DEF StepIsRight, NoneStands
<1>4. \A s, t : PairIsRight(s, t) => PairIsRight(s, t)'
  BY <1>1 DEF PairIsRight, OfferedFor, IsCart
<1>5. ExpiryIsRight(steps) => ExpiryIsRight(steps)'
  BY <1>1 DEF ExpiryIsRight
<1> QED
  BY <1>3, <1>4, <1>5 DEF PlanIsRight

\* The first step of a plan, and what is left after it.
LEMMA FirstAndRest ==
  ASSUME NEW plan \in Seq(FittingSteps), plan # <<>>
  PROVE  /\ Head(plan) = plan[1] /\ plan[1] \in FittingSteps /\ Len(plan) \in Nat \ {0}
         /\ Tail(plan) \in Seq(FittingSteps) /\ Len(Tail(plan)) = Len(plan) - 1
         /\ \A n \in 1..(Len(plan) - 1) : Tail(plan)[n] = plan[n + 1]
         /\ Len(plan) = 1 => Tail(plan) = <<>>
<1>1. PICK L \in Nat : L = Len(plan)
  OBVIOUS
<1>2. L # 0 /\ plan = [n \in 1..L |-> plan[n]]
  BY <1>1
<1>3. Head(plan) = plan[1] /\ plan[1] \in FittingSteps /\ Tail(plan) \in Seq(FittingSteps)
  BY <1>1, <1>2
<1>4. Len(Tail(plan)) = L - 1
  BY <1>1, <1>2
<1>5. \A n \in 1..(L - 1) : Tail(plan)[n] = plan[n + 1]
  BY <1>1, <1>2
<1>6. L = 1 => Tail(plan) = <<>>
  <2>1. \A s \in Seq(FittingSteps) : Len(s) = 0 => s = <<>>
    BY EmptySeq
  <2>2. L = 1 => Len(Tail(plan)) = 0
    BY <1>4
  <2> QED
    BY <1>3, <2>1, <2>2
<1> QED
  BY <1>1, <1>2, <1>3, <1>4, <1>5, <1>6

\* Only an order's step has something behind it.
LEMMA StepsAlone ==
  ASSUME NEW plan \in Seq(FittingSteps), plan # <<>>, PlanIsRight(plan), plan[1].do # "setOrder"
  PROVE  /\ Len(plan) = 1
         /\ plan[1].do # "expireSession" => StepIsRight(plan[1])
<1>1. Len(plan) \in Nat \ {0}
  BY FirstAndRest
<1>2. ~PairIsRight(plan[1], plan[2])
  BY DEF PairIsRight, RightForOrder
<1>3. ASSUME ExpiryIsRight(plan)
      PROVE  Len(plan) = 1 /\ plan[1].do = "expireSession"
  <2>1. ~(1 \in 1..(Len(plan) - 1))
    BY <1>3 DEF ExpiryIsRight, RightForOrder
  <2>2. \A L \in Nat \ {0} : ~(1 \in 1..(L - 1)) => L = 1
    OBVIOUS
  <2>3. Len(plan) = 1
    BY <1>1, <2>1, <2>2
  <2> QED
    BY <1>3, <2>3 DEF ExpiryIsRight
<1> QED
  BY <1>2, <1>3 DEF PlanIsRight

\* While a handler works no other does, and none begins.
LEMMA OthersRest ==
  ASSUME OneBusy, NEW p \in Everyone, todo[p] # <<>>, NEW q \in Everyone, q # p
  PROVE  todo[q] = <<>>
BY DEF OneBusy

\* The bound on overlap: a handler begins when every other has finished.
LEMMA NoneBegins ==
  ASSUME MaxOverlap = 1, OneBusy, NEW p \in Everyone, NEW steps, Begin(p, steps)
  PROVE  \A q \in Everyone : todo[q] = <<>>
<1> SUFFICES ASSUME NEW q \in Everyone, todo[q] # <<>> PROVE FALSE
  OBVIOUS
<1>1. Busy = {q}
  BY DEF Busy, OneBusy
<1>2. Cardinality(Busy) = 1
  BY <1>1, FS_Singleton
<1> QED
  BY <1>2 DEF Begin

\* A handler that begins with a right plan.
LEMMA BeginsRight ==
  ASSUME MaxOverlap = 1, InTurn, NEW p \in Everyone, NEW steps, Begin(p, steps), PlanIsRight(steps)
  PROVE  OneBusy' /\ PlansAreRight' /\ RowsInTurn'
<1>1. \A q \in Everyone : todo[q] = <<>>
  BY NoneBegins DEF InTurn
<1>2. /\ \A q \in Everyone : todo'[q] = IF q = p THEN steps ELSE <<>>
      /\ UNCHANGED <<session, orders, intents, sales, due, payments, faults>>
  BY <1>1 DEF Begin, rows, InTurn, TypeInv
<1>3. PlanIsRight(steps)' /\ PlanIsRight(<<>>)'
  BY <1>2, SameRows DEF PlanIsRight
<1>4. OneBusy' /\ PlansAreRight'
  BY <1>2, <1>3 DEF OneBusy, PlansAreRight
<1> QED
  BY <1>2, <1>4 DEF InTurn, RowsInTurn, StoredForSession, OneStands, CartIsNoPackage, BookedOnce,
     OfferedFor, IsCart, SomeOrderConfirmed

\* A handler that goes on with a right plan, or stops.
LEMMA GoesRight ==
  ASSUME InTurn, NEW p \in Everyone, todo[p] # <<>>, NEW rest,
         todo' = [todo EXCEPT ![p] = rest], PlanIsRight(rest)'
  PROVE  OneBusy' /\ PlansAreRight'
<1>1. \A q \in Everyone : todo'[q] = IF q = p THEN rest ELSE <<>>
  BY OthersRest DEF InTurn, TypeInv
<1>2. PlanIsRight(<<>>)'
  BY DEF PlanIsRight
<1> QED
  BY <1>1, <1>2 DEF OneBusy, PlansAreRight

\* A right step is a right plan.
LEMMA OneStepIsRight ==
  ASSUME NEW s, StepIsRight(s)
  PROVE  PlanIsRight(<<s>>)
<1>1. Len(<<s>>) = 1 /\ <<s>>[1] = s
  OBVIOUS
<1> QED
  BY <1>1 DEF PlanIsRight

\* What the table allows to become of the session is a right step.
LEMMA SessionIsRight ==
  ASSUME NEW a \in Actors, NEW to, TryCheckout(session, to, a) = "allowed",
         OfferedFor(to, SomeOrderConfirmed)
  PROVE  StepIsRight(Do("setSession", NoId, to))
BY TableOfSessions DEF StepIsRight, RightForSession, MayBecome, Do

\* The supplier decides on a PENDING order, and on the session after it.
LEMMA SupplierIsRight ==
  ASSUME InTurn, NEW o \in Orders, NEW to \in {"CONFIRMED", "REJECTED"},
         TryOrder(orders[o], to, "admin") = "allowed",
         NEW toSession, toSession = IF to = "CONFIRMED" THEN "CONFIRMED" ELSE "CANCELLED"
  PROVE  PlanIsRight(<<Do("setOrder", o, to)>> \o SetSessionIfAllowed(toSession, "admin"))
<1>s. PICK s : s = Do("setOrder", o, to)
  OBVIOUS
<1>t. PICK t : t = Do("setSession", NoId, toSession)
  OBVIOUS
<1>1. RightForOrder(s) /\ s.do = "setOrder" /\ s.to = to
  BY <1>s, TableOfOrders DEF RightForOrder, Do, OrderTerminal, Actors
<1>2. CASE TryCheckout(session, toSession, "admin") = "allowed"
  <2>1. RightForSession(t) /\ t.to = toSession
    BY <1>2, <1>t, TableOfSessions DEF RightForSession, MayBecome, Do, Actors
  <2>2. PairIsRight(s, t)
    BY <1>1, <2>1 DEF PairIsRight, OfferedFor, Payable
  <2>3. PICK plan : plan = <<s>> \o <<t>>
    OBVIOUS
  <2>4. <<s>> \in Seq({s, t}) /\ <<t>> \in Seq({s, t})
    OBVIOUS
  <2>5. Len(plan) = 2 /\ plan[1] = s /\ plan[2] = t
    BY <2>3, <2>4, ConcatProperties
  <2>6. PlanIsRight(plan)
    BY <2>2, <2>5 DEF PlanIsRight
  <2> QED
    BY <1>2, <1>s, <1>t, <2>3, <2>6 DEF SetSessionIfAllowed
<1>3. CASE TryCheckout(session, toSession, "admin") # "allowed"
  <2>1. <<s>> \o SetSessionIfAllowed(toSession, "admin") = <<s>>
    <3>1. SetSessionIfAllowed(toSession, "admin") = <<>>
      BY <1>3 DEF SetSessionIfAllowed
    <3>2. <<s>> \o <<>> = <<s>>
      OBVIOUS
    <3> QED
      BY <3>1, <3>2
  <2>2. StepIsRight(s)
    BY <1>1 DEF StepIsRight
  <2> QED
    BY <1>s, <2>1, <2>2, OneStepIsRight
<1> QED
  BY <1>2, <1>3

\* The cron's plan names every overdue order once.
LEMMA CronIsRight ==
  ASSUME NEW E \in SUBSET Orders, \A o \in E : orders[o] = "PENDING"
  PROVE  PlanIsRight(Append(SetToSeq({Do("setOrder", o, "EXPIRED") : o \in E}),
                            Do("expireSession", NoId, "EXPIRED")))
<1>1. PICK W : W = {Do("setOrder", o, "EXPIRED") : o \in E}
  OBVIOUS
<1>2. IsFiniteSet(W)
  <2>1. IsFiniteSet(E)
    BY CheckoutAssumption, FS_Subset
  <2>2. PICK f : f = [o \in E |-> Do("setOrder", o, "EXPIRED")]
    OBVIOUS
  <2>3. f \in Surjection(E, W)
    BY <1>1, <2>2 DEF Surjection
  <2> QED
    BY <2>1, <2>3, FS_Surjection
<1>3. PICK w : w = SetToSeq(W)
  OBVIOUS
<1>4. PICK L \in Nat : L = Cardinality(W)
  BY <1>2, SetAsSequence
<1>5. w \in [1..L -> W] /\ w \in Seq(W) /\ \A m, n \in 1..L : w[m] = w[n] => m = n
  BY <1>2, <1>3, <1>4, SetAsSequence DEF IsInjective
<1>6. \A s \in W : RightForOrder(s) /\ s = Do("setOrder", s.id, "EXPIRED")
  BY <1>1 DEF RightForOrder, Do, OrderTerminal
<1>7. PICK last : last = Do("expireSession", NoId, "EXPIRED")
  OBVIOUS
<1>8. PICK steps : steps = Append(w, last)
  OBVIOUS
<1>9. /\ steps # <<>> /\ Len(steps) = L + 1 /\ steps[L + 1] = last
      /\ \A n \in 1..L : steps[n] = w[n]
  BY <1>5, <1>8
<1>10. last.do = "expireSession"
  BY <1>7 DEF Do
<1>11. \A m, n \in 1..L : m # n => w[m].id # w[n].id
  BY <1>5, <1>6
<1>12. ExpiryIsRight(steps)
  BY <1>5, <1>6, <1>9, <1>10, <1>11 DEF ExpiryIsRight
<1> QED
  BY <1>1, <1>3, <1>7, <1>8, <1>12 DEF PlanIsRight

\* markPaid, markFailed and cancelIntent ask about the intent they write.
LEMMA IntentIsRight ==
  ASSUME NEW k \in Keys
  PROVE  /\ PlanIsRight(MarkPaidSteps(k)) /\ PlanIsRight(MarkFailedSteps(k))
         /\ TryPayment(intents[k], "CANCELLED", "user") = "allowed" =>
              PlanIsRight(<<Do("setIntent", k, "CANCELLED")>>)
<1>0. PlanIsRight(<<>>)
  BY DEF PlanIsRight
<1>1. ASSUME TryPayment(intents[k], "PAID", "system") = "allowed"
      PROVE  PlanIsRight(MarkPaidSteps(k))
  <2>a. PICK to : to = IF TryCheckout(session, "COMPLETED", "system") = "allowed"
                       THEN "COMPLETED" ELSE "none"
    OBVIOUS
  <2>b. PICK s : s = Do("commitPaid", k, to)
    OBVIOUS
  <2>1. s.do = "commitPaid" /\ s.id = k /\ s.to = to
    BY <2>b DEF Do
  <2>2. MarkPaidSteps(k) = <<s>>
    BY <1>1, <2>a, <2>b DEF MarkPaidSteps
  <2>3. intents[k] \in {"PENDING", "PROCESSING"}
    BY <1>1, TableOfIntents
  <2>4. StepIsRight(s)
    BY <2>a, <2>1, <2>3 DEF StepIsRight
  <2> QED
    BY <2>2, <2>4, OneStepIsRight
<1>2. ASSUME NEW to \in {"FAILED", "CANCELLED"}, intents[k] \in {"PENDING", "PROCESSING"}
      PROVE  PlanIsRight(<<Do("setIntent", k, to)>>)
  <2>1. StepIsRight(Do("setIntent", k, to))
    BY <1>2 DEF StepIsRight, Do
  <2> QED
    BY <2>1, OneStepIsRight
<1>3. PlanIsRight(MarkPaidSteps(k))
  BY <1>0, <1>1 DEF MarkPaidSteps
<1> QED
  BY <1>0, <1>2, <1>3, TableOfIntents DEF MarkFailedSteps

\* A request, a run of the cron, or the worker with a job, begins.
Beginning ==
  \/ \E p \in Procs :
       \/ \E o \in Orders, to \in OrderStatuses :
            SupplierDecides(p, o, to) \/ AdminDecides(p, o, to)
       \/ \E to \in CheckoutStatuses : AdminUpdatesSession(p, to)
       \/ FillContacts(p) \/ RunExpiry(p)
       \/ \E k \in Keys : Pay(p, k) \/ CancelIntent(p, k) \/ GenericEvent(p, k)
  \/ \E k \in Keys : TakeJob(k) /\ todo' # todo

\* Every handler, the cron and the worker begin with a right plan.
LEMMA BeginnersAreRight ==
  ASSUME MaxOverlap = 1, InTurn, Beginning
  PROVE  /\ \E p \in Everyone : \E steps : Begin(p, steps) /\ PlanIsRight(steps)
         /\ UNCHANGED rows
<1>e. Procs \subseteq Everyone /\ Worker \in Everyone
  BY DEF Everyone
<1>w. \A p, steps : Begin(p, steps) => UNCHANGED rows
  BY DEF Begin
<1>0. PlanIsRight(<<>>)
  BY DEF PlanIsRight
<1>1. ASSUME NEW p \in Procs, NEW o \in Orders, NEW to \in OrderStatuses, SupplierDecides(p, o, to)
      PROVE  \E steps : Begin(p, steps) /\ PlanIsRight(steps)
  <2>1. PICK toSession : toSession = IF to = "CONFIRMED" THEN "CONFIRMED" ELSE "CANCELLED"
    OBVIOUS
  <2>2. /\ to \in {"CONFIRMED", "REJECTED"} /\ TryOrder(orders[o], to, "admin") = "allowed"
        /\ Begin(p, <<Do("setOrder", o, to)>> \o SetSessionIfAllowed(toSession, "admin"))
    BY <1>1, <2>1 DEF SupplierDecides
  <2> QED
    BY <2>1, <2>2, SupplierIsRight
<1>2. ASSUME NEW p \in Procs, NEW o \in Orders, NEW to \in OrderStatuses, AdminDecides(p, o, to)
      PROVE  \E steps : Begin(p, steps) /\ PlanIsRight(steps)
  <2>1. StepIsRight(Do("setOrder", o, to))
    BY <1>2, TableOfOrders DEF AdminDecides, StepIsRight, RightForOrder, Do, OrderTerminal, Actors
  <2> QED
    BY <1>2, <2>1, OneStepIsRight DEF AdminDecides
<1>3. ASSUME NEW p \in Procs, NEW to \in CheckoutStatuses, AdminUpdatesSession(p, to)
      PROVE  \E steps : Begin(p, steps) /\ PlanIsRight(steps)
  <2>1. OfferedFor(to, SomeOrderConfirmed) /\ Begin(p, SetSessionIfAllowed(to, "admin"))
    BY <1>3 DEF AdminUpdatesSession, OfferedFor
  <2>2. TryCheckout(session, to, "admin") = "allowed" =>
          PlanIsRight(<<Do("setSession", NoId, to)>>)
    BY <2>1, SessionIsRight, OneStepIsRight DEF Actors
  <2> QED
    BY <1>0, <2>1, <2>2 DEF SetSessionIfAllowed
<1>4. ASSUME NEW p \in Procs, FillContacts(p)
      PROVE  \E steps : Begin(p, steps) /\ PlanIsRight(steps)
  <2>1. "package" \in Roles /\ session \in PackageStatuses /\ ~IsCart
    BY <1>4 DEF FillContacts, InTurn, RowsInTurn, CartIsNoPackage
  <2>2. StepIsRight(Do("setSession", NoId, "CONFIRMED"))
    BY <2>1 DEF StepIsRight, RightForSession, MayBecome, OfferedFor, Do
  <2> QED
    BY <1>4, <2>2, OneStepIsRight DEF FillContacts
<1>5. ASSUME NEW p \in Procs, RunExpiry(p)
      PROVE  \E steps : Begin(p, steps) /\ PlanIsRight(steps)
  <2>1. PICK E \in SUBSET Orders :
          /\ \A o \in E : orders[o] = "PENDING"
          /\ Begin(p, Append(SetToSeq({Do("setOrder", o, "EXPIRED") : o \in E}),
                             Do("expireSession", NoId, "EXPIRED")))
    BY <1>5 DEF RunExpiry
  <2> QED
    BY <2>1, CronIsRight
<1>6. ASSUME NEW p \in Procs, NEW k \in Keys, Pay(p, k)
      PROVE  \E steps : Begin(p, steps) /\ PlanIsRight(steps)
  <2>1. StepIsRight(Do("findIntents", k, session))
    BY <1>6 DEF Pay, StepIsRight, Do, Payable
  <2> QED
    BY <1>6, <2>1, OneStepIsRight DEF Pay
<1>7. ASSUME NEW p \in Procs, NEW k \in Keys, CancelIntent(p, k) \/ GenericEvent(p, k)
      PROVE  \E steps : Begin(p, steps) /\ PlanIsRight(steps)
  BY <1>7, IntentIsRight DEF CancelIntent, GenericEvent
<1>8. ASSUME NEW k \in Keys, TakeJob(k), todo' # todo
      PROVE  \E steps : Begin(Worker, steps) /\ PlanIsRight(steps)
  <2>1. Begin(Worker, MarkPaidSteps(k)) \/ Begin(Worker, MarkFailedSteps(k))
    BY <1>8 DEF TakeJob
  <2> QED
    BY <2>1, IntentIsRight
<1> QED
  BY <1>e, <1>w, <1>1, <1>2, <1>3, <1>4, <1>5, <1>6, <1>7, <1>8 DEF Beginning

(***************************************************************************)
(* What one step of a handler with a right plan writes.                    *)
(***************************************************************************)
\* The edges of the tables that a step writes along.
WritesAllowed ==
  /\ session' = session \/ MayBecome(session')
  /\ \A o \in Orders : orders'[o] = orders[o] \/ (orders[o] = "PENDING" /\ orders'[o] \in OrderTerminal)
  /\ \A k \in Keys : \/ intents'[k] = intents[k]
                     \/ intents[k] = "none"
                     \/ intents[k] \in {"PENDING", "PROCESSING"}
                        /\ intents'[k] \in {"PAID", "FAILED", "CANCELLED"}

\* A step that ends as it should: with allowed writes, and a right plan for what is left.
Ends(p) ==
  /\ WritesAllowed /\ RowsInTurn'
  /\ \E rest : todo' = [todo EXCEPT ![p] = rest] /\ PlanIsRight(rest)'

\* The first step of a right plan, when nothing follows it.
LEMMA LastStep ==
  ASSUME InTurn, NEW p \in Everyone, NEW kind, Next1(p, kind), kind \notin {"setOrder", "expireSession"}
  PROVE  /\ StepIsRight(Step1(p)) /\ Step1(p).do = kind /\ Step1(p) \in FittingSteps
         /\ Drop1(p) => todo' = [todo EXCEPT ![p] = <<>>]
<1>1. PICK plan \in Seq(FittingSteps) : plan = todo[p]
  BY DEF InTurn, TypeInv
<1>2. plan # <<>> /\ PlanIsRight(plan) /\ Step1(p) = Head(plan) /\ Head(plan).do = kind
  BY <1>1 DEF Next1, InTurn, PlansAreRight, Step1
<1>3. Head(plan) = plan[1] /\ plan[1] \in FittingSteps
  BY <1>2, FirstAndRest
<1>4. Len(plan) = 1 /\ StepIsRight(plan[1])
  BY <1>2, <1>3, StepsAlone
<1>5. Tail(plan) = <<>>
  BY <1>2, <1>4, FirstAndRest
<1> QED
  BY <1>1, <1>2, <1>3, <1>4, <1>5 DEF Drop1

\* A handler that has finished has a right plan.
LEMMA NothingLeft == PlanIsRight(<<>>)'
BY DEF PlanIsRight

\* An order that is decided was PENDING; what is left of the plan is right still.
LEMMA OrderEnds ==
  ASSUME InTurn, NEW p \in Everyone, SetOrder(p)
  PROVE  Ends(p)
<1>1. PICK plan \in Seq(FittingSteps) : plan = todo[p]
  BY DEF InTurn, TypeInv
<1>2. PICK s : s = plan[1]
  OBVIOUS
<1>3. PICK rest : rest = Tail(plan)
  OBVIOUS
<1>4. /\ plan # <<>> /\ PlanIsRight(plan) /\ s.do = "setOrder" /\ Head(plan) = s
      /\ s \in FittingSteps /\ Len(plan) \in Nat \ {0}
      /\ rest \in Seq(FittingSteps) /\ Len(rest) = Len(plan) - 1
      /\ \A n \in 1..(Len(plan) - 1) : rest[n] = plan[n + 1]
      /\ Len(plan) = 1 => rest = <<>>
  BY <1>1, <1>2, <1>3, FirstAndRest DEF SetOrder, Next1, InTurn, PlansAreRight
<1>5. /\ orders' = [orders EXCEPT ![s.id] = s.to]
      /\ todo' = [todo EXCEPT ![p] = rest]
      /\ UNCHANGED <<session, intents, sales, due, payments, jobs, faults>>
  BY <1>1, <1>3, <1>4 DEF SetOrder, Step1, Drop1
<1>6. RightForOrder(s)
  <2>1. CASE Len(plan) = 1 /\ StepIsRight(plan[1])
    BY <1>2, <1>4, <2>1 DEF StepIsRight
  <2>2. CASE Len(plan) = 2 /\ PairIsRight(plan[1], plan[2])
    BY <1>2, <2>2 DEF PairIsRight
  <2>3. CASE ExpiryIsRight(plan)
    <3>1. Len(plan) # 1
      BY <1>2, <1>4, <2>3 DEF ExpiryIsRight
    <3>2. \A L \in Nat \ {0} : L # 1 => 1 \in 1..(L - 1)
      OBVIOUS
    <3> QED
      BY <1>2, <1>4, <2>3, <3>1, <3>2 DEF ExpiryIsRight
  <2> QED
    BY <1>4, <2>1, <2>2, <2>3 DEF PlanIsRight
<1>7. orders \in [Orders -> OrderStatuses \cup {"none"}]
  BY DEF InTurn, TypeInv, TypeOK
<1>8. /\ s.id \in Orders /\ orders[s.id] = "PENDING" /\ s.to \in OrderTerminal /\ orders'[s.id] = s.to
      /\ \A o \in Orders : o # s.id => orders'[o] = orders[o]
  BY <1>5, <1>6, <1>7 DEF RightForOrder
<1>9. /\ IsCart' = IsCart
      /\ SomeOrderConfirmed => SomeOrderConfirmed'
      /\ s.to = "CONFIRMED" => SomeOrderConfirmed'
  BY <1>8 DEF IsCart, SomeOrderConfirmed, OrderTerminal
<1>10. WritesAllowed /\ RowsInTurn'
  BY <1>5, <1>8, <1>9 DEF WritesAllowed, InTurn, RowsInTurn, StoredForSession, OneStands,
     CartIsNoPackage, BookedOnce, OfferedFor
<1>11. PlanIsRight(rest)'
  <2>1. CASE Len(plan) = 1
    BY <1>4, <2>1, NothingLeft
  <2>2. CASE Len(plan) = 2 /\ PairIsRight(plan[1], plan[2])
    <3>1. PICK t : t = plan[2]
      OBVIOUS
    <3>2. Len(rest) = 1 /\ rest[1] = t
      BY <1>4, <2>2, <3>1
    <3>3. /\ t.do = "setSession" /\ MayBecome(t.to)
          /\ OfferedFor(t.to, s.to = "CONFIRMED")
      BY <1>2, <2>2, <3>1 DEF PairIsRight, RightForSession
    <3>4. MayBecome(t.to)' /\ OfferedFor(t.to, SomeOrderConfirmed)'
      BY <1>5, <1>9, <3>3 DEF MayBecome, OfferedFor
    <3>5. StepIsRight(t)'
      BY <3>3, <3>4 DEF StepIsRight, RightForSession
    <3> QED
      BY <3>2, <3>5 DEF PlanIsRight
  <2>3. CASE Len(plan) # 1 /\ ExpiryIsRight(plan)
    <3>1. PICK L \in Nat : L = Len(rest) /\ L # 0 /\ Len(plan) = L + 1
      BY <1>4, <2>3
    <3>2. rest # <<>> /\ rest[L].do = "expireSession"
      BY <1>4, <2>3, <3>1 DEF ExpiryIsRight
    <3>3. \A n \in 1..(L - 1) : n + 1 \in 1..(Len(plan) - 1) /\ rest[n] = plan[n + 1] /\ n + 1 # 1
      BY <1>4, <3>1
    <3>4. 1 \in 1..(Len(plan) - 1)
      BY <3>1
    <3>5. \A n \in 1..(L - 1) : RightForOrder(rest[n]) /\ rest[n].id # s.id
      BY <1>2, <2>3, <3>3, <3>4 DEF ExpiryIsRight
    <3>6. \A r : RightForOrder(r) /\ r.id # s.id => RightForOrder(r)'
      BY <1>8 DEF RightForOrder
    <3>7. \A m, n \in 1..(L - 1) : m # n => rest[m].id # rest[n].id
      <4>1. \A m, n \in 1..(L - 1) : m # n => m + 1 # n + 1
        OBVIOUS
      <4> QED
        BY <2>3, <3>3, <4>1 DEF ExpiryIsRight
    <3>8. ExpiryIsRight(rest)'
      BY <3>1, <3>2, <3>5, <3>6, <3>7 DEF ExpiryIsRight
    <3> QED
      BY <3>8 DEF PlanIsRight
  <2> QED
    BY <1>4, <2>1, <2>2, <2>3 DEF PlanIsRight
<1> QED
  BY <1>5, <1>10, <1>11 DEF Ends

\* The session moves along an edge, and never to be paid for once more.
LEMMA SessionEnds ==
  ASSUME InTurn, NEW p \in Everyone, SetSession(p)
  PROVE  Ends(p)
<1>1. PICK s \in FittingSteps : s = Step1(p)
  BY LastStep DEF SetSession
<1>2. /\ StepIsRight(s) /\ s.do = "setSession"
      /\ todo' = [todo EXCEPT ![p] = <<>>] /\ session' = s.to
      /\ UNCHANGED <<orders, intents, sales, due, payments, jobs, faults>>
  BY <1>1, LastStep DEF SetSession
<1>3. MayBecome(s.to) /\ OfferedFor(s.to, SomeOrderConfirmed)
  BY <1>2 DEF StepIsRight, RightForSession
<1>4. /\ session \notin CheckoutTerminal
      /\ session \in Payable => s.to \in {"AWAITING_PAYMENT"} \cup CheckoutTerminal
      /\ session \notin PackageStatuses => s.to \notin PackageStatuses
  <2>1. CASE \E a \in Actors : <<session, a, s.to>> \in CheckoutTransitions
    BY <2>1, TableOfSessions
  <2>2. CASE "package" \in Roles /\ session \in PackageStatuses /\ s.to = "CONFIRMED"
    BY <2>2 DEF CheckoutTerminal, PackageStatuses, Payable
  <2> QED
    BY <1>3, <2>1, <2>2 DEF MayBecome
<1>5. WritesAllowed
  BY <1>2, <1>3 DEF WritesAllowed, MayBecome
<1>6. StoredForSession'
  BY <1>2, <1>4 DEF InTurn, RowsInTurn, StoredForSession, Payable
<1>7. RowsInTurn'
  BY <1>2, <1>3, <1>4, <1>6 DEF InTurn, RowsInTurn, OneStands, CartIsNoPackage, BookedOnce,
     OfferedFor, IsCart, SomeOrderConfirmed
<1> QED
  BY <1>2, <1>5, <1>7, NothingLeft DEF Ends

\* An intent is given up while it may still be paid.
LEMMA IntentEnds ==
  ASSUME InTurn, NEW p \in Everyone, SetIntent(p)
  PROVE  Ends(p)
<1>1. PICK s \in FittingSteps : s = Step1(p)
  BY LastStep DEF SetIntent
<1>2. /\ StepIsRight(s) /\ s.do = "setIntent"
      /\ todo' = [todo EXCEPT ![p] = <<>>] /\ intents' = [intents EXCEPT ![s.id] = s.to]
      /\ UNCHANGED <<session, orders, sales, due, payments, jobs, faults>>
  BY <1>1, LastStep DEF SetIntent
<1>3. s.id \in Keys /\ s.to \in {"FAILED", "CANCELLED"} /\ intents[s.id] \in {"PENDING", "PROCESSING"}
  BY <1>2 DEF StepIsRight
<1>4. intents'[s.id] = s.to /\ \A k \in Keys : k # s.id => intents'[k] = intents[k]
  BY <1>2, <1>3 DEF InTurn, TypeInv, TypeOK
<1>5. WritesAllowed
  BY <1>2, <1>3, <1>4 DEF WritesAllowed
<1>6. StoredForSession' /\ OneStands' /\ BookedOnce'
  BY <1>2, <1>3, <1>4 DEF InTurn, RowsInTurn, StoredForSession, OneStands, BookedOnce, Standing
<1>7. RowsInTurn'
  BY <1>2, <1>6 DEF InTurn, RowsInTurn, CartIsNoPackage, OfferedFor, IsCart, SomeOrderConfirmed
<1> QED
  BY <1>2, <1>5, <1>7, NothingLeft DEF Ends

\* Nothing is written while the cron and POST /pay look at the rows.
LEMMA LooksEnd ==
  ASSUME InTurn, NEW p \in Everyone, NEW rest, todo' = [todo EXCEPT ![p] = rest],
         PlanIsRight(rest), UNCHANGED <<session, orders, intents, sales, faults>>,
         \A k \in Keys : payments'[k] = payments[k] \/ payments'[k] = "open"
  PROVE  Ends(p)
<1>1. RowsInTurn'
  BY DEF InTurn, RowsInTurn, StoredForSession, OneStands, CartIsNoPackage, BookedOnce,
     OfferedFor, IsCart, SomeOrderConfirmed
<1> QED
  BY <1>1, SameRows DEF Ends, WritesAllowed

\* The cron asks the table about the session as it is now.
LEMMA ExpiryEnds ==
  ASSUME InTurn, NEW p \in Everyone, ExpireSession(p)
  PROVE  Ends(p)
<1>1. PICK rest : /\ todo' = [todo EXCEPT ![p] = rest]
                  /\ rest = <<>> \/ rest = SetSessionIfAllowed("EXPIRED", "system")
  BY DEF ExpireSession, Then
<1>2. OfferedFor("EXPIRED", SomeOrderConfirmed)
  BY DEF OfferedFor, Payable
<1>3. TryCheckout(session, "EXPIRED", "system") = "allowed" =>
        PlanIsRight(<<Do("setSession", NoId, "EXPIRED")>>)
  BY <1>2, SessionIsRight, OneStepIsRight DEF Actors
<1>4. PlanIsRight(rest)
  BY <1>1, <1>3 DEF SetSessionIfAllowed, PlanIsRight
<1> QED
  BY <1>1, <1>4, LooksEnd DEF ExpireSession, rows

\* A payment is made when no intent stands.
LEMMA SearchEnds ==
  ASSUME InTurn, NEW p \in Everyone, FindIntents(p)
  PROVE  Ends(p)
<1>1. PICK s \in FittingSteps : s = Step1(p)
  BY LastStep DEF FindIntents
<1>2. s.id \in Keys /\ session \in Payable
  BY <1>1, LastStep DEF FindIntents, StepIsRight
<1>3. PICK t : t = Do("createPayment", s.id, s.to)
  OBVIOUS
<1>4. t.do = "createPayment" /\ t.id = s.id
  BY <1>3 DEF Do
<1>5. PICK rest :
        /\ todo' = [todo EXCEPT ![p] = rest]
        /\ \/ rest = <<>>
           \/ /\ rest = <<t>> /\ intents[s.id] = "none"
              /\ \A j \in Keys : intents[j] \notin {"PENDING", "PROCESSING"}
  BY <1>1, <1>3 DEF FindIntents, Then
<1>6. CASE rest = <<t>>
  <2>1. NoneStands
    BY <1>2, <1>5, <1>6 DEF NoneStands, Standing, InTurn, RowsInTurn, StoredForSession
  <2>2. StepIsRight(t)
    BY <1>2, <1>4, <1>5, <1>6, <2>1 DEF StepIsRight
  <2> QED
    BY <1>5, <1>6, <2>2, OneStepIsRight, LooksEnd DEF FindIntents, rows
<1>7. CASE rest = <<>>
  BY <1>5, <1>7, LooksEnd DEF FindIntents, rows, PlanIsRight
<1> QED
  BY <1>5, <1>6, <1>7

\* The table never lets the system ask for AWAITING_PAYMENT, so the intent is next.
LEMMA PaymentEnds ==
  ASSUME InTurn, NEW p \in Everyone, CreatePayment(p)
  PROVE  Ends(p)
<1>1. PICK s \in FittingSteps : s = Step1(p)
  BY LastStep DEF CreatePayment
<1>2. s.id \in Keys /\ session \in Payable /\ intents[s.id] = "none" /\ NoneStands
  BY <1>1, LastStep DEF CreatePayment, StepIsRight
<1>3. PICK t : t = Do("insertIntent", s.id, "PENDING")
  OBVIOUS
<1>4. StepIsRight(t)
  BY <1>2, <1>3 DEF StepIsRight, Do
<1>5. todo' = [todo EXCEPT ![p] = <<>> \o <<t>>]
  BY <1>1, <1>3, TableOfSessions DEF CreatePayment, Then
<1>6. <<>> \o <<t>> = <<t>>
  <2>1. <<t>> \in Seq({t})
    OBVIOUS
  <2> QED
    BY <2>1, ConcatEmptySeq
<1>7. \A k \in Keys : payments'[k] = payments[k] \/ payments'[k] = "open"
  BY <1>1, <1>2 DEF CreatePayment, OpenPayment, InTurn, TypeInv, TypeOK
<1> QED
  BY <1>4, <1>5, <1>6, <1>7, OneStepIsRight, LooksEnd DEF CreatePayment, rows

\* The new intent is the only one that stands.
LEMMA InsertEnds ==
  ASSUME InTurn, NEW p \in Everyone, InsertIntent(p)
  PROVE  Ends(p)
<1>1. PICK s \in FittingSteps : s = Step1(p)
  BY LastStep DEF InsertIntent
<1>2. s.id \in Keys /\ session \in Payable /\ intents[s.id] = "none" /\ NoneStands
  BY <1>1, LastStep DEF InsertIntent, StepIsRight
<1>3. /\ todo' = [todo EXCEPT ![p] = <<>>] /\ intents' = [intents EXCEPT ![s.id] = "PENDING"]
      /\ UNCHANGED <<session, orders, sales, due, payments, jobs, faults>>
  BY <1>1, <1>2, LastStep DEF InsertIntent
<1>4. intents'[s.id] = "PENDING" /\ \A k \in Keys : k # s.id => intents'[k] = intents[k]
  BY <1>2, <1>3 DEF InTurn, TypeInv, TypeOK
<1>5. WritesAllowed
  BY <1>2, <1>3, <1>4 DEF WritesAllowed
<1>6. StoredForSession' /\ OneStands' /\ BookedOnce'
  BY <1>2, <1>3, <1>4 DEF InTurn, RowsInTurn, StoredForSession, OneStands, BookedOnce, Standing,
     NoneStands
<1>7. RowsInTurn'
  BY <1>3, <1>6 DEF InTurn, RowsInTurn, CartIsNoPackage, OfferedFor, IsCart, SomeOrderConfirmed
<1> QED
  BY <1>3, <1>5, <1>7, NothingLeft DEF Ends

\* A payment is booked once, and ends the session if it could still be paid for.
LEMMA CommitEnds ==
  ASSUME InTurn, NEW p \in Everyone, CommitPaid(p)
  PROVE  Ends(p)
<1>1. PICK s \in FittingSteps : s = Step1(p)
  BY LastStep DEF CommitPaid
<1>2. /\ s.id \in Keys /\ intents[s.id] \in {"PENDING", "PROCESSING"}
      /\ s.to = IF TryCheckout(session, "COMPLETED", "system") = "allowed" THEN "COMPLETED" ELSE "none"
  BY <1>1, LastStep DEF CommitPaid, StepIsRight
<1>3. /\ todo' = [todo EXCEPT ![p] = <<>>] /\ intents' = [intents EXCEPT ![s.id] = "PAID"]
      /\ session' = IF s.to = "COMPLETED" THEN "COMPLETED" ELSE session
      /\ \/ sales' = [sales EXCEPT ![s.id] = sales[s.id] + 1] /\ UNCHANGED faults
         \/ faults' = faults + 1 /\ UNCHANGED sales
      /\ UNCHANGED <<orders, due, payments, jobs>>
  BY <1>1, LastStep DEF CommitPaid
<1>t. TypeOK
  BY DEF InTurn, TypeInv
<1>4. intents'[s.id] = "PAID" /\ \A k \in Keys : k # s.id => intents'[k] = intents[k]
  BY <1>2, <1>3, <1>t DEF TypeOK
<1>5. /\ session' \notin Payable /\ session' \in CheckoutTerminal
      /\ session' = session \/ MayBecome(session')
  <2>1. session \in Payable \cup CheckoutTerminal
    BY <1>2 DEF InTurn, RowsInTurn, StoredForSession
  <2>2. CASE TryCheckout(session, "COMPLETED", "system") = "allowed"
    BY <1>2, <1>3, <2>2, TableOfSessions DEF MayBecome, Payable, CheckoutTerminal, Actors
  <2>3. CASE TryCheckout(session, "COMPLETED", "system") # "allowed"
    <3>1. session' = session /\ session \notin Payable
      BY <1>2, <1>3, <2>3, TableOfSessions
    <3> QED
      BY <2>1, <3>1
  <2> QED
    BY <2>2, <2>3
<1>6. WritesAllowed
  BY <1>2, <1>3, <1>4, <1>5 DEF WritesAllowed, MayBecome
<1>7. StoredForSession' /\ OneStands'
  BY <1>2, <1>3, <1>4, <1>5 DEF InTurn, RowsInTurn, StoredForSession, OneStands, Standing
<1>8. BookedOnce'
  <2> SUFFICES ASSUME faults' = 0 PROVE \A k \in Keys : sales'[k] = IF intents'[k] = "PAID" THEN 1 ELSE 0
    BY DEF BookedOnce
  <2>1. faults = 0 /\ sales' = [sales EXCEPT ![s.id] = sales[s.id] + 1]
    BY <1>3, <1>t DEF TypeOK
  <2>2. \A k \in Keys : sales[k] = IF intents[k] = "PAID" THEN 1 ELSE 0
    BY <2>1 DEF InTurn, RowsInTurn, BookedOnce
  <2>3. sales'[s.id] = 1 /\ \A k \in Keys : k # s.id => sales'[k] = sales[k]
    <3>1. sales[s.id] = 0
      BY <1>2, <2>2
    <3>2. sales' = [sales EXCEPT ![s.id] = 1]
      BY <2>1, <3>1
    <3> QED
      BY <1>2, <1>t, <3>2 DEF TypeOK
  <2> QED
    BY <1>4, <2>2, <2>3
<1>9. RowsInTurn'
  BY <1>3, <1>5, <1>7, <1>8 DEF InTurn, RowsInTurn, CartIsNoPackage, OfferedFor, CheckoutTerminal,
     PackageStatuses, IsCart
<1> QED
  BY <1>3, <1>6, <1>9, NothingLeft DEF Ends

(***************************************************************************)
(* Every step keeps the rows and the plans in order.                       *)
(***************************************************************************)
\* A step in which no plan is touched, and no row of the session.
LEMMA RestKeeps ==
  ASSUME InTurn, UNCHANGED <<session, orders, intents, sales, todo, faults>>,
         \A k \in Keys : payments'[k] = "succeeded" => intents[k] # "none"
  PROVE  OneBusy' /\ PlansAreRight' /\ RowsInTurn' /\ WritesAllowed
<1>1. PlansAreRight'
  BY SameRows DEF InTurn, PlansAreRight
<1>2. OneBusy' /\ WritesAllowed
  BY DEF InTurn, OneBusy, WritesAllowed
<1>3. RowsInTurn'
  BY DEF InTurn, RowsInTurn, StoredForSession, OneStands, CartIsNoPackage, BookedOnce,
     OfferedFor, IsCart, SomeOrderConfirmed
<1> QED
  BY <1>1, <1>2, <1>3

\* A fault drops plans, and may book a sale: the rows of the session stay.
LEMMA FaultKeeps ==
  ASSUME InTurn, UNCHANGED <<session, orders, intents, payments>>, Fault,
         \A p \in Everyone : todo'[p] = todo[p] \/ todo'[p] = <<>>
  PROVE  OneBusy' /\ PlansAreRight' /\ RowsInTurn' /\ WritesAllowed
<1>1. \A p \in Everyone : \E plan \in {todo'[p]} : PlanIsRight(plan)'
  <2> SUFFICES ASSUME NEW p \in Everyone PROVE \E plan \in {todo'[p]} : PlanIsRight(plan)'
    OBVIOUS
  <2>1. CASE todo'[p] = todo[p]
    BY <2>1, SameRows DEF InTurn, PlansAreRight
  <2>2. CASE todo'[p] = <<>>
    BY <2>2, NothingLeft
  <2> QED
    BY <2>1, <2>2
<1>2. OneBusy' /\ WritesAllowed
  BY DEF InTurn, OneBusy, WritesAllowed
<1>3. faults' # 0
  BY DEF Fault, InTurn, TypeInv, TypeOK
<1>4. RowsInTurn'
  BY <1>3 DEF InTurn, RowsInTurn, StoredForSession, OneStands, CartIsNoPackage, BookedOnce,
     OfferedFor, IsCart, SomeOrderConfirmed
<1> QED
  BY <1>1, <1>2, <1>4 DEF PlansAreRight

\* Every step keeps the rows and the plans in order, and writes along the tables.
LEMMA StepKeepsTurn ==
  ASSUME MaxOverlap = 1, InTurn, [Next]_vars
  PROVE  InTurn' /\ WritesAllowed
<1>t. TypeInv' /\ TypeOK
  BY NextKeepsTypes DEF InTurn, TypeInv
<1> SUFFICES OneBusy' /\ PlansAreRight' /\ RowsInTurn' /\ WritesAllowed
  BY <1>t DEF InTurn
<1>1. CASE Beginning
  <2>1. \E p \in Everyone : \E steps : Begin(p, steps) /\ PlanIsRight(steps)
    BY <1>1, BeginnersAreRight
  <2>2. UNCHANGED rows
    BY <1>1, BeginnersAreRight
  <2>3. OneBusy' /\ PlansAreRight' /\ RowsInTurn'
    BY <2>1, BeginsRight
  <2> QED
    BY <2>2, <2>3 DEF WritesAllowed, rows
<1>2. ASSUME NEW p \in Everyone, Continue(p)
      PROVE  OneBusy' /\ PlansAreRight' /\ RowsInTurn' /\ WritesAllowed
  <2>1. Ends(p)
    BY <1>2, OrderEnds, SessionEnds, IntentEnds, ExpiryEnds, SearchEnds, PaymentEnds, InsertEnds,
       CommitEnds DEF Continue
  <2>2. todo[p] # <<>>
    BY <1>2 DEF Continue, SetOrder, SetSession, SetIntent, ExpireSession, FindIntents,
       CreatePayment, InsertIntent, CommitPaid, Next1
  <2>3. PICK rest : todo' = [todo EXCEPT ![p] = rest] /\ PlanIsRight(rest)'
    BY <2>1 DEF Ends
  <2>4. OneBusy' /\ PlansAreRight'
    BY <2>2, <2>3, GoesRight
  <2> QED
    BY <2>1, <2>4 DEF Ends
<1>3. ASSUME NEW p \in Everyone, Throw(p)
      PROVE  OneBusy' /\ PlansAreRight' /\ RowsInTurn' /\ WritesAllowed
  <2>1. /\ UNCHANGED <<session, orders, intents, payments>> /\ Fault
        /\ \A q \in Everyone : todo'[q] = todo[q] \/ todo'[q] = <<>>
    BY <1>3, <1>t DEF Throw, Then, TypeOK
  <2> QED
    BY <2>1, FaultKeeps
<1>4. CASE Crash
  BY <1>4, FaultKeeps DEF Crash, rows
<1>5. ASSUME NEW k \in Keys, BuyerPays(k) \/ ProviderCancels(k)
      PROVE  OneBusy' /\ PlansAreRight' /\ RowsInTurn' /\ WritesAllowed
  <2>1. UNCHANGED <<session, orders, intents, sales, todo, faults>>
    BY <1>5 DEF BuyerPays, ProviderCancels, rows
  <2>2. \A j \in Keys : payments'[j] = "succeeded" => intents[j] # "none"
    BY <1>5, <1>t DEF BuyerPays, ProviderCancels, TypeOK, InTurn, RowsInTurn, StoredForSession
  <2> QED
    BY <2>1, <2>2, RestKeeps
<1>6. CASE UNCHANGED <<session, orders, intents, sales, todo, payments, faults>>
  BY <1>6, RestKeeps DEF InTurn, RowsInTurn, StoredForSession
<1>7. Expire \/ UNCHANGED vars => UNCHANGED <<session, orders, intents, sales, todo, payments, faults>>
  BY DEF Expire, rows, vars
<1>8. ASSUME NEW k \in Keys, FinishJob(k) \/ RetryFailedJob(k) \/ (TakeJob(k) /\ todo' = todo)
      PROVE  UNCHANGED <<session, orders, intents, sales, todo, payments, faults>>
  BY <1>8 DEF FinishJob, RetryFailedJob, TakeJob, Begin, rows
<1> QED
  BY <1>1, <1>2, <1>3, <1>4, <1>5, <1>6, <1>7, <1>8 DEF Next, Beginning

\* Initially nobody has a plan, and nothing was paid.
LEMMA StartsInTurn == Init => InTurn
<1> SUFFICES ASSUME Init PROVE InTurn
  OBVIOUS
<1>1. TypeInv
  BY InitIsTyped
<1>2. OneBusy /\ PlansAreRight
  BY DEF Init, OneBusy, PlansAreRight, PlanIsRight
<1>3. IsCart => session \in CartStatuses
  BY DEF Init, IsCart
<1>4. RowsInTurn
  BY <1>3 DEF Init, RowsInTurn, StoredForSession, OneStands, CartIsNoPackage, BookedOnce, OfferedFor,
     CartStatuses, PackageStatuses, Payable, Standing
<1> QED
  BY <1>1, <1>2, <1>4 DEF InTurn

\* So in every reachable state what a handler is about to write is right.
LEMMA AlwaysInTurn == ASSUME MaxOverlap = 1 PROVE Spec => []InTurn
<1>1. InTurn /\ [Next]_vars => InTurn'
  BY StepKeepsTurn
<1> QED
  BY <1>1, StartsInTurn, PTL DEF Spec

\* A session has at most one intent that may still be paid, whoever calls and
\* whatever fails, when no two handlers overlap.
THEOREM OneActiveIntent ==
  ASSUME MaxOverlap = 1
  PROVE  Spec => []AtMostOneActiveIntent
<1>1. InTurn => AtMostOneActiveIntent
  BY DEF InTurn, RowsInTurn, OneStands, Standing, AtMostOneActiveIntent
<1> QED
  BY <1>1, AlwaysInTurn, PTL

\* Then the buyer is charged twice only after one of two intents was given up
\* while its payment was still open at the provider.
THEOREM ChargedOnce ==
  ASSUME MaxOverlap = 1
  PROVE  Spec => []ChargedAtMostOnce
<1>1. InTurn => ChargedAtMostOnce
  BY DEF InTurn, RowsInTurn, StoredForSession, OneStands, Standing, ChargedAtMostOnce, GivenUp
<1> QED
  BY <1>1, AlwaysInTurn, PTL

\* And a sale is booked once for each intent that is PAID, as long as nothing fails.
THEOREM SalesMatchPayments ==
  ASSUME MaxOverlap = 1
  PROVE  Spec => []BookedOnce
<1>1. InTurn => BookedOnce
  BY DEF InTurn, RowsInTurn
<1> QED
  BY <1>1, AlwaysInTurn, PTL

\* A cart that may be paid for has a confirmed order, after every exception and
\* restart, where no administrator sets the session by hand.
THEOREM PayableIsConfirmed ==
  ASSUME MaxOverlap = 1, "adminSession" \notin Roles
  PROVE  Spec => []PayableCartHasConfirmedOrder
<1>1. InTurn => PayableCartHasConfirmedOrder
  BY DEF InTurn, RowsInTurn, OfferedFor, Payable, IsCart, SomeOrderConfirmed,
     PayableCartHasConfirmedOrder
<1> QED
  BY <1>1, AlwaysInTurn, PTL

\* And it is COMPLETED only with a PAID intent, though buyers and webhooks may give
\* intents up: what is PAID has no way out of the table (markPaid's transaction).
THEOREM CompletedIsPaidInTurn ==
  ASSUME MaxOverlap = 1, "adminSession" \notin Roles
  PROVE  Spec => []CompletedHasPaidIntent
<1> DEFINE Inv == todo \in [Everyone -> Seq(OtherSteps)] /\ CompletedHasPaidIntent
<1>1. Init => Inv
  BY InitIsCompleted DEF CompletedInv
<1>2. InTurn /\ Inv /\ [Next]_vars => Inv'
  <2> SUFFICES ASSUME InTurn, Inv, [Next]_vars PROVE Inv'
    OBVIOUS
  <2>1. \A k \in Keys : intents[k] = "PAID" => intents'[k] = "PAID"
    BY StepKeepsTurn DEF WritesAllowed
  <2> QED
    BY <2>1, CompletedStays DEF InTurn
<1> QED
  BY <1>1, <1>2, AlwaysInTurn, PTL DEF Spec

\* Every write of a status follows an edge of its table, by whichever handler and
\* after whatever crash; only the package form never asks the table.
THEOREM StatusesFollowTables ==
  ASSUME MaxOverlap = 1, "package" \notin Roles
  PROVE  Spec => WritesFollowTables
<1> DEFINE Follows == /\ CanByAnyone(CheckoutTransitions, session, session')
                      /\ \A o \in Orders : CanByAnyone(OrderTransitions, orders[o], orders'[o])
                      /\ \A k \in Keys : \/ intents[k] = "none"
                                         \/ CanByAnyone(PaymentTransitions, intents[k], intents'[k])
<1>1. InTurn /\ [Next]_vars => [Follows]_vars
  <2> SUFFICES ASSUME InTurn, [Next]_vars PROVE Follows
    OBVIOUS
  <2>1. WritesAllowed
    BY StepKeepsTurn
  <2>2. CanByAnyone(CheckoutTransitions, session, session')
    BY <2>1 DEF WritesAllowed, MayBecome, CanByAnyone
  <2>3. \A o \in Orders : CanByAnyone(OrderTransitions, orders[o], orders'[o])
    <3>1. \A from, to : from = to \/ (from = "PENDING" /\ to \in OrderTerminal) =>
            CanByAnyone(OrderTransitions, from, to)
      BY TableOfOrders DEF CanByAnyone
    <3> QED
      BY <2>1, <3>1 DEF WritesAllowed
  <2>4. \A k \in Keys : \/ intents[k] = "none"
                        \/ CanByAnyone(PaymentTransitions, intents[k], intents'[k])
    <3>1. \A from, to : \/ from = to
                        \/ from \in {"PENDING", "PROCESSING"} /\ to \in {"PAID", "FAILED", "CANCELLED"}
                        => CanByAnyone(PaymentTransitions, from, to)
      BY TableOfIntents DEF CanByAnyone
    <3> QED
      BY <2>1, <3>1 DEF WritesAllowed
  <2> QED
    BY <2>2, <2>3, <2>4
<1> QED
  BY <1>1, AlwaysInTurn, PTL DEF Spec, WritesFollowTables
=============================================================================

---------------------------- MODULE RefundRequests ----------------------------
(***************************************************************************)
(* Refund requests for single positions of one paid checkout session, made *)
(* and decided by administrators, and the refund of the whole payment      *)
(* that may cross them.  The money is moved by the payment provider, which *)
(* answers a key it knows as it has answered before and never returns more *)
(* than it captured.  It may also answer that a refund is 'canceled', with *)
(* no money returned; no handler looks at the status of the answer.        *)
(*                                                                         *)
(* A transaction is one step as far as it writes; what it has read before  *)
(* its first write may be stale.                                           *)
(***************************************************************************)
EXTENDS Naturals, FiniteSets

CONSTANTS
  Items,      \* FulfillmentItem rows of the session, all of one price
  Requests,   \* RefundRequest rows
  Nobody,
  Procs,      \* requests of the administrators that may be in progress
  Scenes,     \* who acts, which handlers overlap, how the provider answers
  MaxFaults   \* bound: crashes, refusals and lost answers

Roles == {"create", "approve", "reject", "process", "full", "clock"}

ASSUME RefundAssumption ==
  /\ Nobody \notin Items \cup Requests /\ Items \cap Requests = {}
  /\ IsFiniteSet(Items) /\ IsFiniteSet(Requests)
  /\ Scenes \subseteq [roles : SUBSET Roles, together : SUBSET Roles,
                       answers : SUBSET {"refused", "lost", "canceled"}]
  /\ MaxFaults \in Nat

VARIABLES
  scene,      \* who acts in this behaviour
  session,    \* EventSession: "ahead", "started" or "canceled"
  intent,     \* PaymentIntent.status
  item,       \* FulfillmentItem.status
  request,    \* the RefundRequest rows
  released,   \* how many times completeRefund has raised availableTickets
  returned,   \* keys of the refunds the provider has made; Nobody is the full one
  canceled,   \* keys it has answered with a refund that is canceled
  doing,      \* what each handler does next and what it has read
  faults

vars == <<scene, session, intent, item, request, released, returned, canceled, doing,
          faults>>

\* what the provider has done
money == <<returned, canceled>>

Active == {"CREATED", "APPROVED", "PROCESSING"}
Decided == {"COMPLETED", "REJECTED", "FAILED"}
NoRow == [status |-> "none", item |-> Nobody]

Tasks == {"idle", "check", "insert", "readReject", "writeReject", "read", "claim",
          "call", "complete", "fail", "readIntent", "callFull", "markIntent", "markItems"}

\* seen: what this handler has read of the row it works on.
Idle == [role |-> "none", do |-> "idle", on |-> Nobody, seen |-> "none", pending |-> FALSE]

Handlers == [role : Roles \cup {"none"}, do : Tasks, on : Items \cup Requests \cup {Nobody},
             seen : Active \cup {"none"}, pending : BOOLEAN]

TypeOK ==
  /\ scene \in Scenes
  /\ session \in {"ahead", "started", "canceled"}
  /\ intent \in {"PAID", "REFUNDED"}
  /\ item \in [Items -> {"CONFIRMED", "REFUND_PENDING", "REFUNDED"}]
  /\ request \in [Requests -> [status : Active \cup Decided, item : Items] \cup {NoRow}]
  /\ released \in [Items -> Nat]
  /\ returned \subseteq Requests \cup {Nobody}
  /\ canceled \subseteq Requests \cup {Nobody}
  /\ doing \in [Procs -> Handlers]
  /\ faults \in 0..MaxFaults

Init ==
  /\ scene \in Scenes
  /\ session = "ahead"
  /\ intent = "PAID"
  /\ item = [i \in Items |-> "CONFIRMED"]
  /\ request = [r \in Requests |-> NoRow]
  /\ released = [i \in Items |-> 0]
  /\ returned = {}
  /\ canceled = {}
  /\ doing = [p \in Procs |-> Idle]
  /\ faults = 0

RequestsOf(i) == {r \in Requests : request[r].item = i}

-----------------------------------------------------------------------------
(***************************************************************************)
(* Handlers.  Those in scene.together may run at the same time.            *)
(***************************************************************************)
Busy == {p \in Procs : doing[p].do # "idle"}

Begin(role, p, do, on) ==
  /\ role \in scene.roles
  /\ doing[p].do = "idle"
  /\ Busy # {} => {role} \cup {doing[q].role : q \in Busy} \subseteq scene.together
  /\ doing' = [doing EXCEPT ![p] = [Idle EXCEPT !.role = role, !.do = do, !.on = on]]
  /\ UNCHANGED <<scene, session, intent, item, request, released, money, faults>>

At(p, task) == doing[p].do = task
Go(p, task) == doing' = [doing EXCEPT ![p].do = task]
Finish(p) == doing' = [doing EXCEPT ![p] = Idle]

\* A restart ends the handler; what it has written stays.
Crash(p) ==
  /\ ~At(p, "idle") /\ faults < MaxFaults
  /\ Finish(p)
  /\ faults' = faults + 1
  /\ UNCHANGED <<scene, session, intent, item, request, released, money>>

\* The event session begins, or is cancelled.
SessionMoves ==
  /\ "clock" \in scene.roles
  /\ \E to \in {"started", "canceled"} :
       /\ session # "canceled" /\ session # to
       /\ session' = to
  /\ UNCHANGED <<scene, intent, item, request, released, money, doing, faults>>

-----------------------------------------------------------------------------
(***************************************************************************)
(* createForItem: one transaction that looks for a request and for the     *)
(* right to a refund and then inserts.                                     *)
(***************************************************************************)
\* evaluateRefundEligibility, for a ticket of a session.
Eligible(i) == item[i] = "CONFIRMED" /\ session # "started"

NoRequestYet(i) ==
  \A r \in RequestsOf(i) : request[r].status \notin Active \cup {"COMPLETED"}

CreateCheck(p) ==
  /\ At(p, "check")
  /\ LET i == doing[p].on IN
       IF NoRequestYet(i) /\ intent = "PAID" /\ Eligible(i)
       THEN Go(p, "insert") ELSE Finish(p)
  /\ UNCHANGED <<scene, session, intent, item, request, released, money, faults>>

CreateInsert(p) ==
  /\ At(p, "insert")
  /\ \E r \in Requests :
       /\ request[r] = NoRow
       /\ request' = [request EXCEPT ![r] = [status |-> "CREATED", item |-> doing[p].on]]
  /\ item' = [item EXCEPT ![doing[p].on] = "REFUND_PENDING"]
  /\ Finish(p)
  /\ UNCHANGED <<scene, session, intent, released, money, faults>>

\* approve: one conditional update.
Approve(r) ==
  /\ "approve" \in scene.roles
  /\ Busy = {} \/ "approve" \in scene.together
  /\ request[r].status = "CREATED"
  /\ request' = [request EXCEPT ![r].status = "APPROVED"]
  /\ UNCHANGED <<scene, session, intent, item, released, money, doing, faults>>

\* A mistake: a request that is being processed may still be rejected.
RejectReadActive(p) ==
  /\ At(p, "readReject")
  /\ LET row == request[doing[p].on] IN
       IF row.status \in Active
       THEN doing' = [doing EXCEPT ![p].do = "writeReject",
                                   ![p].pending = item[row.item] = "REFUND_PENDING"]
       ELSE Finish(p)
  /\ UNCHANGED <<scene, session, intent, item, request, released, money, faults>>

RejectRead(p) ==
  /\ At(p, "readReject")
  /\ LET row == request[doing[p].on] IN
       IF row.status \in {"CREATED", "APPROVED"}
       THEN doing' = [doing EXCEPT ![p].do = "writeReject",
                                   ![p].pending = item[row.item] = "REFUND_PENDING"]
       ELSE Finish(p)
  /\ UNCHANGED <<scene, session, intent, item, request, released, money, faults>>

\* A mistake: reject leaves the position waiting.
RejectForgets(p) ==
  /\ At(p, "writeReject")
  /\ request' = [request EXCEPT ![doing[p].on].status = "REJECTED"]
  /\ Finish(p)
  /\ UNCHANGED <<scene, session, intent, item, released, money, faults>>

RejectWrite(p) ==
  /\ At(p, "writeReject")
  /\ LET r == doing[p].on IN
       /\ request' = [request EXCEPT ![r].status = "REJECTED"]
       /\ item' = IF doing[p].pending
                  THEN [item EXCEPT ![request[r].item] = "CONFIRMED"] ELSE item
  /\ Finish(p)
  /\ UNCHANGED <<scene, session, intent, released, money, faults>>

-----------------------------------------------------------------------------
(***************************************************************************)
(* process.                                                                *)
(***************************************************************************)
ProcessRead(p) ==
  /\ At(p, "read")
  /\ LET status == request[doing[p].on].status IN
       IF status \in Decided THEN Finish(p)
       ELSE doing' = [doing EXCEPT ![p].do = "claim", ![p].seen = status]
  /\ UNCHANGED <<scene, session, intent, item, request, released, money, faults>>

\* A mistake: process completes the request it has claimed without asking the provider.
CompleteFirst(p) ==
  /\ At(p, "claim")
  /\ request[doing[p].on].status \in Active
  /\ request' = [request EXCEPT ![doing[p].on].status = "PROCESSING"]
  /\ Go(p, "complete")
  /\ UNCHANGED <<scene, session, intent, item, released, money, faults>>

Claim(p) ==
  /\ At(p, "claim")
  /\ LET r == doing[p].on IN
       \/ /\ request[r].status \in {"CREATED", "APPROVED"}
          /\ request' = [request EXCEPT ![r].status = "PROCESSING"]
          /\ Go(p, "call")
       \/ /\ request[r].status \notin {"CREATED", "APPROVED"}
          /\ IF "PROCESSING" \in {doing[p].seen, request[r].status}
             THEN Go(p, "call") ELSE Finish(p)
          /\ UNCHANGED request
  /\ UNCHANGED <<scene, session, intent, item, released, money, faults>>

\* The provider: a known key is answered again, a new one if the money is there.
Captured == Cardinality(Items)
Paid(keys) == IF Nobody \in keys THEN Captured + Cardinality(keys \ {Nobody})
              ELSE Cardinality(keys)

Returns(key) ==
  /\ key \notin canceled /\ Paid(returned \cup {key}) <= Captured
  /\ returned' = returned \cup {key}
  /\ UNCHANGED canceled

Cancels(key) ==
  /\ "canceled" \in scene.answers /\ key \notin returned
  /\ canceled' = canceled \cup {key}
  /\ UNCHANGED returned

\* createYookassaRefund: answered, refused, or given up after fifteen seconds
\* whatever has become of it; next is the handler's step after the answer.
Call(p, key, made, threw) ==
  \/ (Returns(key) \/ Cancels(key)) /\ made /\ UNCHANGED faults
  \/ /\ key \notin canceled /\ Paid(returned \cup {key}) > Captured
     /\ threw /\ UNCHANGED <<returned, canceled, faults>>
  \/ /\ "refused" \in scene.answers /\ key \notin returned \cup canceled
     /\ faults < MaxFaults
     /\ threw /\ faults' = faults + 1 /\ UNCHANGED money
  \/ /\ "lost" \in scene.answers /\ faults < MaxFaults
     /\ Returns(key) \/ Cancels(key) \/ UNCHANGED money
     /\ threw /\ faults' = faults + 1

CallProvider(p) ==
  /\ At(p, "call")
  /\ Call(p, doing[p].on, Go(p, "complete"), Go(p, "fail"))
  /\ UNCHANGED <<scene, session, intent, item, request, released>>

\* completeRefund
CompleteRefund(p) ==
  /\ At(p, "complete")
  /\ LET r == doing[p].on
         i == request[r].item IN
       IF request[r].status = "PROCESSING"
       THEN /\ request' = [request EXCEPT ![r].status = "COMPLETED"]
            /\ item' = [item EXCEPT ![i] = "REFUNDED"]
            /\ released' = [released EXCEPT ![i] = @ + 1]
       ELSE UNCHANGED <<request, item, released>>
  /\ Finish(p)
  /\ UNCHANGED <<scene, session, intent, money, faults>>

\* failRefund: both updates are unconditional.
FailRefund(p) ==
  /\ At(p, "fail")
  /\ LET r == doing[p].on IN
       /\ request' = [request EXCEPT ![r].status = "FAILED"]
       /\ item' = [item EXCEPT ![request[r].item] = "CONFIRMED"]
  /\ Finish(p)
  /\ UNCHANGED <<scene, session, intent, released, money, faults>>

-----------------------------------------------------------------------------
(***************************************************************************)
(* fullRefund of the payment, from the reconciliation page.                *)
(***************************************************************************)
FullRead(p) ==
  /\ At(p, "readIntent")
  /\ IF intent = "PAID" THEN Go(p, "callFull") ELSE Finish(p)
  /\ UNCHANGED <<scene, session, intent, item, request, released, money, faults>>

FullCall(p) ==
  /\ At(p, "callFull")
  /\ Call(p, Nobody, Go(p, "markIntent"), Finish(p))
  /\ UNCHANGED <<scene, session, intent, item, request, released>>

MarkIntent(p) ==
  /\ At(p, "markIntent")
  /\ intent' = "REFUNDED"
  /\ Go(p, "markItems")
  /\ UNCHANGED <<scene, session, item, request, released, money, faults>>

\* A mistake: fullRefund writes a status the position does not have.
MarkItemsMisspelt(p) ==
  /\ At(p, "markItems")
  /\ item' = [i \in Items |-> "RETURNED"]
  /\ Finish(p)
  /\ UNCHANGED <<scene, session, intent, request, released, money, faults>>

MarkItems(p) ==
  /\ At(p, "markItems")
  /\ item' = [i \in Items |-> "REFUNDED"]
  /\ Finish(p)
  /\ UNCHANGED <<scene, session, intent, request, released, money, faults>>

-----------------------------------------------------------------------------
Exists(r) == request[r] # NoRow

Ask ==
  \E p \in Procs :
    \/ \E i \in Items : Begin("create", p, "check", i)
    \/ \E r \in Requests : Exists(r) /\ Begin("reject", p, "readReject", r)
    \/ \E r \in Requests : Exists(r) /\ Begin("process", p, "read", r)
    \/ Begin("full", p, "readIntent", Nobody)

Step(p) ==
  \/ CreateCheck(p) \/ CreateInsert(p)
  \/ RejectRead(p) \/ RejectWrite(p)
  \/ ProcessRead(p) \/ Claim(p) \/ CallProvider(p) \/ CompleteRefund(p) \/ FailRefund(p)
  \/ FullRead(p) \/ FullCall(p) \/ MarkIntent(p) \/ MarkItems(p)

Next ==
  \/ Ask
  \/ \E p \in Procs : Step(p) \/ Crash(p)
  \/ \E r \in Requests : Approve(r)
  \/ SessionMoves

Spec == Init /\ [][Next]_vars

-----------------------------------------------------------------------------
(***************************************************************************)
(* Properties.                                                             *)
(***************************************************************************)
ReturnsOf(i) == RequestsOf(i) \cap returned
AnswersOf(i) == RequestsOf(i) \cap (returned \cup canceled)

\* An item is marked as refunded only when the provider has answered for its
\* money, for a request about it or for the whole payment, and its seats go
\* back on sale once for each request so answered: process and fullRefund
\* write after the answer, and the status is taken from PROCESSING by one
\* caller, however often and however concurrently a request is processed.
RefundedIsAnswered ==
  \A i \in Items :
    /\ item[i] = "REFUNDED" => AnswersOf(i) # {} \/ Nobody \in returned \cup canceled
    /\ released[i] <= Cardinality(AnswersOf(i))

\* What follows needs handlers that do not overlap, except that one request
\* may be processed by two calls while the provider answers both.
Calm == scene.together = {} \/ (scene.together = {"process"} /\ scene.answers = {})
Heard == Calm /\ "lost" \notin scene.answers

\* The money of a position is returned at most once, whatever is created,
\* rejected, processed, interrupted and tried again.
ReturnedOnce ==
  Heard => \A i \in Items :
    Cardinality(ReturnsOf(i)) + (IF Nobody \in returned THEN 1 ELSE 0) <= 1

\* A position waits for a refund exactly while one request about it is
\* open; a full refund alone may close the position under an open request.
PendingHasRequest ==
  Calm => \A i \in Items :
    LET open == {r \in RequestsOf(i) : request[r].status \in Active} IN
      /\ Cardinality(open) <= 1
      /\ item[i] = "REFUND_PENDING" => open # {}
      /\ open # {} /\ "full" \notin scene.roles => item[i] = "REFUND_PENDING"
=============================================================================

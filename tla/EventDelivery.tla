---------------------------- MODULE EventDelivery ----------------------------
(***************************************************************************)
(* What webhook ingestion promises, with none of its machinery: every      *)
(* provider event is turned into exactly one job of the fulfillment queue  *)
(* (checkout/webhook-idempotency.service.ts: "process a webhook exactly    *)
(* once").  WebhookIngest is shown to implement it.                        *)
(***************************************************************************)
EXTENDS Naturals

CONSTANT Events

VARIABLE delivered      \* delivered[e]: how many jobs event e has produced

Init == delivered = [e \in Events |-> 0]

Deliver(e) == /\ delivered[e] = 0
              /\ delivered' = [delivered EXCEPT ![e] = 1]

Next == \E e \in Events : Deliver(e)

\* No event is delivered twice.
AtMostOnce == Init /\ [][Next]_delivered

\* And none is forgotten.
EachDelivered == \A e \in Events : <>(delivered[e] = 1)
=============================================================================

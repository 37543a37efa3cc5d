--------------------------- MODULE OrderSettlement ---------------------------
(***************************************************************************)
(* What the buyer of a paid order is promised, line by line: the line is   *)
(* either delivered or refunded, once and for all, and one of the two does *)
(* happen (cart-partitioning.ts:122-123, fulfillment.service.ts:11).       *)
(***************************************************************************)
CONSTANT Lines

VARIABLE outcome      \* "open", "delivered" or "refunded" for each line

Init == outcome = [l \in Lines |-> "open"]

Settle(l) == /\ outcome[l] = "open"
             /\ \E o \in {"delivered", "refunded"} :
                  outcome' = [outcome EXCEPT ![l] = o]

\* A full refund settles several lines in one statement.
SettleMany == \E ls \in SUBSET Lines :
  /\ \A l \in ls : outcome[l] = "open"
  /\ outcome' = [l \in Lines |-> IF l \in ls THEN "refunded" ELSE outcome[l]]

Next == SettleMany \/ \E l \in Lines : Settle(l)

SettledOnce == Init /\ [][Next]_outcome

EachSettles == \A l \in Lines : <>(outcome[l] # "open")
=============================================================================

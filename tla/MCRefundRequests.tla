-------------------------- MODULE MCRefundRequests --------------------------
(***************************************************************************)
(* An instance of RefundRequests for TLC.                                  *)
(***************************************************************************)
EXTENDS RefundRequests, TLC

PerItem == Roles \ {"full"}

Alone     == [roles |-> PerItem, together |-> {}, answers |-> {"refused"}]
AloneLost == [roles |-> PerItem, together |-> {}, answers |-> {"refused", "lost"}]
WithFull  == [roles |-> Roles, together |-> {}, answers |-> {"refused", "canceled"}]
Repeated  == [roles |-> PerItem, together |-> {"process"}, answers |-> {}]
AllAtOnce == [roles |-> Roles \ {"clock"}, together |-> Roles, answers |-> {"refused", "lost"}]
Canceling == [roles |-> {"create", "process", "full"}, together |-> {"process", "full"},
              answers |-> {"lost", "canceled"}]
MCScenes  == {Alone, AloneLost, WithFull, Repeated, AllAtOnce, Canceling}

RefundSymmetry == Permutations(Items) \cup Permutations(Requests) \cup Permutations(Procs)
=============================================================================

---------------------------- MODULE MCFulfillment ----------------------------
(***************************************************************************)
(* Instances of Fulfillment for TLC.  Items are numbered; NoItem is 0.     *)
(***************************************************************************)
EXTENDS Fulfillment

EachOne == [i \in Items |-> 1]

\* The adapters: item 1 of our own, item 2 of a partner, the others of TC.
MixedProviders == [i \in Items |-> CASE i = 1 -> "INTERNAL" [] i = 2 -> "PARTNER"
                                     [] OTHER -> "TC"]
InternalOnly   == [i \in Items |-> "INTERNAL"]

PaidInTime == {"CONFIRMED"}
PaidLate   == {"CONFIRMED", "EXPIRED"}
=============================================================================

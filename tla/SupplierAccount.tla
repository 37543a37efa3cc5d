--------------------------- MODULE SupplierAccount ---------------------------
(***************************************************************************)
(* What a supplier's account promises: a request for a payout holds part   *)
(* of the balance, never more than is free, and a payout takes what was    *)
(* held (supplier.controller.ts:929, "availableToRequest").                *)
(***************************************************************************)
EXTENDS Naturals

VARIABLES
  balance,   \* sum of the ledger
  held       \* what pending requests have asked for

Init == balance = 0 /\ held = 0

Deposit == balance' > balance /\ balance' \in Nat /\ UNCHANGED held
Hold    == held' > held /\ held' <= balance /\ held' \in Nat /\ UNCHANGED balance
Release == held' < held /\ held' \in Nat /\ UNCHANGED balance

\* What leaves the balance is what was held for it.
PayOut ==
  /\ balance' < balance /\ balance' \in Nat
  /\ held' \in Nat /\ held - held' = balance - balance'

Solvent == Init /\ [][Deposit \/ Hold \/ Release \/ PayOut]_<<balance, held>>
=============================================================================

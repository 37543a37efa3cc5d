---------------------------- MODULE StateMachines ----------------------------
(***************************************************************************)
(* The three declarative transition tables of                              *)
(* checkout/checkout-state-machine.ts and the functions that consult them. *)
(*                                                                         *)
(* A table is a set of triples <<from, actor, to>>.  The functions are     *)
(* pure: they read a status, they never write one.  Whether the handlers   *)
(* of the backend obey their answers is what module Checkout is about.     *)
(***************************************************************************)

Actors == {"user", "admin", "system"}

CheckoutStatuses ==
  {"STARTED", "VALIDATED", "REDIRECTED", "PENDING_CONFIRMATION", "CONFIRMED",
   "AWAITING_PAYMENT", "COMPLETED", "EXPIRED", "CANCELLED"}

OrderStatuses == {"PENDING", "CONFIRMED", "REJECTED", "EXPIRED"}

PaymentStatuses ==
  {"PENDING", "PROCESSING", "PAID", "FAILED", "CANCELLED", "REFUNDED"}

\* One row of a table: from a status, by an actor, to each of a set of statuses.
Moves(from, actor, targets) == {from} \X {actor} \X targets

CheckoutTransitions ==
  UNION {
    Moves("STARTED", "user", {"VALIDATED", "CANCELLED"}),
    Moves("STARTED", "system", {"EXPIRED"}),
    Moves("VALIDATED", "user", {"REDIRECTED", "PENDING_CONFIRMATION"}),
    Moves("VALIDATED", "system", {"EXPIRED"}),
    Moves("VALIDATED", "admin", {"CANCELLED"}),
    Moves("REDIRECTED", "system", {"COMPLETED", "EXPIRED"}),
    Moves("REDIRECTED", "admin", {"COMPLETED", "CANCELLED"}),
    Moves("PENDING_CONFIRMATION", "admin", {"CONFIRMED", "CANCELLED"}),
    Moves("PENDING_CONFIRMATION", "system", {"EXPIRED"}),
    Moves("CONFIRMED", "admin", {"AWAITING_PAYMENT", "COMPLETED", "CANCELLED"}),
    Moves("CONFIRMED", "system", {"COMPLETED"}),
    Moves("AWAITING_PAYMENT", "system", {"COMPLETED", "EXPIRED"}),
    Moves("AWAITING_PAYMENT", "admin", {"COMPLETED", "CANCELLED"}) }

CheckoutTerminal == {"COMPLETED", "EXPIRED", "CANCELLED"}

OrderTransitions ==
  UNION {
    Moves("PENDING", "admin", {"CONFIRMED", "REJECTED"}),
    Moves("PENDING", "system", {"EXPIRED"}) }

OrderTerminal == {"CONFIRMED", "REJECTED", "EXPIRED"}

PaymentTransitions ==
  UNION {
    Moves("PENDING", "user", {"CANCELLED"}),
    Moves("PENDING", "system", {"PROCESSING", "PAID", "FAILED"}),
    Moves("PROCESSING", "system", {"PAID", "FAILED"}),
    Moves("PROCESSING", "user", {"CANCELLED"}),
    Moves("PAID", "admin", {"REFUNDED"}),
    Moves("PAID", "system", {"REFUNDED"}) }

PaymentTerminal == {"PAID", "FAILED", "CANCELLED", "REFUNDED"}

-----------------------------------------------------------------------------
\* try*: the answer { allowed, noOp } as one of three words.
TryTransition(table, from, to, actor) ==
  CASE from = to                          -> "noOp"
    [] from # to /\ <<from, actor, to>> \in table    -> "allowed"
    [] from # to /\ <<from, actor, to>> \notin table -> "denied"

TryCheckout(from, to, actor) == TryTransition(CheckoutTransitions, from, to, actor)
TryOrder(from, to, actor)    == TryTransition(OrderTransitions, from, to, actor)
TryPayment(from, to, actor)  == TryTransition(PaymentTransitions, from, to, actor)

\* can*(from, to) without an actor: some actor may make the move.
CanByAnyone(table, from, to) ==
  from = to \/ \E a \in Actors : <<from, a, to>> \in table
=============================================================================

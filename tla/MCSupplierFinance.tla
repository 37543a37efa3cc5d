-------------------------- MODULE MCSupplierFinance --------------------------
(***************************************************************************)
(* An instance of SupplierFinance for TLC.  The payouts with their         *)
(* disputes and the settlements with their documents meet only in the      *)
(* profile, so a behaviour shows one or the other.                         *)
(***************************************************************************)
EXTENDS SupplierFinance, TLC

Payments  == {"sale", "supplier", "admin"}
Offered1  == [roles |-> Payments \cup {"profile", "dispute"}, overlap |-> 1]
AnyMove1  == [roles |-> Payments \cup {"api", "dispute"}, overlap |-> 1]
AnyMove2  == [roles |-> Payments \cup {"api"}, overlap |-> 2]
Papers1   == [roles |-> {"sale", "settle", "issue", "cancel"}, overlap |-> 1]
Papers2   == [roles |-> {"sale", "settle", "issue"}, overlap |-> 2]
MCScenes  == {Offered1, AnyMove1, AnyMove2, Papers1, Papers2}

FinanceSymmetry == Permutations(Payouts) \cup Permutations(Disputes) \cup Permutations(Procs)
=============================================================================

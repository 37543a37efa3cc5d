------------------------------ MODULE MCCheckout ------------------------------
(***************************************************************************)
(* Instances of Checkout for TLC.                                          *)
(***************************************************************************)
EXTENDS Checkout

\* Every caller that cannot take back an intent.
ChargeRoles  == AllRoles \ {"cancel", "generic"}
\* Every caller but the package form, which does not ask the state machine, and
\* the administrator's edit of a session.
TableRoles   == AllRoles \ {"package", "adminSession"}

FromCart    == {"PENDING_CONFIRMATION"}
FromPackage == PackageStatuses
ToBePaid    == FromCart \cup FromPackage \cup {"CONFIRMED"}
NotPackage  == CartStatuses \cup {"CONFIRMED"}

KeySymmetry == Permutations(Keys)
=============================================================================

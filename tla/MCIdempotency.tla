---------------------------- MODULE MCIdempotency ----------------------------
(***************************************************************************)
(* An instance of Idempotency for TLC.                                     *)
(***************************************************************************)
EXTENDS Idempotency

CONSTANTS resend, retry

BothKeys == {resend, retry}
=============================================================================

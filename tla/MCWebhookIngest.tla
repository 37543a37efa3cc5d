--------------------------- MODULE MCWebhookIngest ---------------------------
(***************************************************************************)
(* WebhookIngest for TLC; the configuration names its handlers and events. *)
(***************************************************************************)
EXTENDS WebhookIngest
=============================================================================

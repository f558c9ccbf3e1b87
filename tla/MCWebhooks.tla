----------------------------- MODULE MCWebhooks -----------------------------
(* Constants are given in the configuration. *)
EXTENDS Webhooks
=============================================================================

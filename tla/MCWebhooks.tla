----------------------------- MODULE MCWebhooks -----------------------------
(* An instance of Webhooks for TLC: one delivery, the dispatcher of a server *)
(* and an inline drain, whose process may end.                               *)
EXTENDS Webhooks

CONSTANTS server, inline

Batches == [d \in Dispatcher |-> 1]
TwoRetries == [i \in 1..2 |-> i]
=============================================================================

----------------------------- MODULE MCWebhooks -----------------------------
(* Two schedulers and two deliveries to one endpoint. *)
EXTENDS Webhooks, TLC

CONSTANTS d1, d2, e1, s1, s2

MCEndpointOf == [d \in {d1, d2} |-> e1]
=============================================================================

------------------------- MODULE MCWebhookDelivery -------------------------
(* Small instances of WebhookDelivery.                                     *)
EXTENDS WebhookDelivery, TLC

CONSTANTS e1, e2, d1, d2

(* Two deliveries to one endpoint, so that passes share its counter.       *)
SharedEndpoint == d1 :> e1 @@ d2 :> e1

(* One delivery to each of two endpoints.                                  *)
TwoEndpoints == d1 :> e1 @@ d2 :> e2

Symmetric == Permutations(Pass)
=============================================================================

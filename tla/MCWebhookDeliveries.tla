------------------------ MODULE MCWebhookDeliveries -------------------------
(* The instance of WebhookDeliveries that TLC checks: requests and URLs    *)
(* differ in nothing but their names.                                      *)
EXTENDS WebhookDeliveries, TLC

Symmetry == Permutations(Urls) \cup Permutations(Editors) \cup Permutations(Clients)
=============================================================================

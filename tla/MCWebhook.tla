------------------------------- MODULE MCWebhook -------------------------------
(* Two deliveries, which are alike, beside the watcher. *)
EXTENDS Webhook, TLC
CONSTANTS r1, r2, d1, d2, w
AlikeDeliveries == Permutations(Deliveries)
===============================================================================

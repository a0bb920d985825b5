--------------------------- MODULE MCWebhookIntake ---------------------------
(* Instances of WebhookIntake for TLC. *)
EXTENDS WebhookIntake, TLC

DeliverySymmetry == Permutations(Deliveries)
===============================================================================

------------------------ MODULE MCWebhookDeliveries ------------------------
(* WebhookDeliveries instantiated for TLC. *)
EXTENDS WebhookDeliveries
=============================================================================

-------------------------- MODULE MCWebhookDelivery --------------------------
(* A small instance of the webhook deliveries. *)
EXTENDS WebhookDelivery
=============================================================================

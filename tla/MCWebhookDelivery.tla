------------------------- MODULE MCWebhookDelivery -------------------------
(* TLC instance of WebhookDelivery.                                         *)
EXTENDS WebhookDelivery, TLC
=============================================================================

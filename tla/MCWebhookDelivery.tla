-------------------------- MODULE MCWebhookDelivery --------------------------
(* Instances of WebhookDelivery for TLC. *)
EXTENDS WebhookDelivery

CONSTANTS ev1, e1, w1, w2

AllEvents == [e \in Endpoints |-> Events]
TwoDelays == <<1, 2>>
=============================================================================

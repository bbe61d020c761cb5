------------------------- MODULE MCReminderDelivery -------------------------
(* Instances of ReminderDelivery for TLC. *)
EXTENDS ReminderDelivery

CONSTANTS n1, n2, w1, w2

OneRetry   == <<1>>
TwoRetries == <<1, 3>>
=============================================================================

------------------------- MODULE MCNotificationDelivery -------------------------
(* One account; t1 is a test delivery, n1 a push notification. *)
EXTENDS NotificationDelivery

CONSTANTS t1, n1, u1

MCOwner == [d \in Deliveries |-> u1]
MCStatusDelay == <<1, 2, 3>>
MCSendBackoff == <<1, 2>>
MCSingleBackoff == <<1>>
=============================================================================

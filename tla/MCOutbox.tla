------------------------------ MODULE MCOutbox ------------------------------
(* One account and one delivery of it, either a test delivery or a push notification. *)
EXTENDS MCNotificationDelivery

VARIABLE only  \* the delivery of this behaviour

OthersAbsent == \A d \in Deliveries \ {only} : row[d] = NoRow /\ d \notin cleared

MCInit == Init /\ only \in Deliveries

MCNext == Next /\ UNCHANGED only /\ OthersAbsent'

MCSpec == MCInit /\ [][MCNext]_<<vars, only>> /\ Fairness
=============================================================================

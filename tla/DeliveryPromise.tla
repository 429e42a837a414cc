---------------------------- MODULE DeliveryPromise ----------------------------
(***************************************************************************)
(* What the outbox promises about each delivery, without rows, leases,     *)
(* answers or crashes: a delivery is pushed at most once, one that was     *)
(* dropped never, and neither comes back to the queue.                     *)
(***************************************************************************)
EXTENDS Naturals

CONSTANT Deliveries

VARIABLES phase, pushes

Phases == {"none", "queued", "dropped", "ended"}

Init == /\ phase = [d \in Deliveries |-> "none"]
        /\ pushes = [d \in Deliveries |-> 0]

Unpushed(d) == pushes[d] = 0 /\ pushes'[d] = 0

Submit(d) == phase[d] = "none" /\ phase'[d] \in {"queued", "dropped"} /\ Unpushed(d)

Drop(d) == phase[d] = "queued" /\ phase'[d] = "dropped" /\ Unpushed(d)

\* The outcome may be unknown when the row ends, so a push can still follow.
End(d) == phase[d] = "queued" /\ phase'[d] = "ended" /\ pushes'[d] = pushes[d]

Push(d) == /\ phase[d] \in {"queued", "ended"} /\ phase'[d] = phase[d]
           /\ pushes[d] = 0 /\ pushes'[d] = 1

Stay(d) == phase'[d] = phase[d] /\ pushes'[d] = pushes[d]

\* One step of the system may move several deliveries.
Next == /\ phase' \in [Deliveries -> Phases]
        /\ pushes' \in [Deliveries -> 0..1]
        /\ \A d \in Deliveries : Submit(d) \/ Drop(d) \/ End(d) \/ Push(d) \/ Stay(d)

Spec == Init /\ [][Next]_<<phase, pushes>>
=============================================================================

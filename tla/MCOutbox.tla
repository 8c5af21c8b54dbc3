------------------------------ MODULE MCOutbox ------------------------------
(* The outbox with two requests, each in a replica of its own. *)
EXTENDS Outbox

CONSTANTS p1, p2, q1, q2, o1, o2

MCReplicaOf == [r \in Requests |-> IF r = q1 THEN p1 ELSE p2]
=============================================================================

----------------------------- MODULE MCGateway -----------------------------
(* The gateway with a request of each kind, handled by one replica. *)
EXTENDS Gateway

CONSTANTS g1, book, find, pay, track

MCKindOf == [r \in Requests |-> CASE r = book -> "createBooking"
                                  [] r = find -> "getBooking"
                                  [] r = pay -> "createPayment"
                                  [] r = track -> "getHistory"]
MCReplicaOf == [r \in Requests |-> g1]
=============================================================================

---------------------------- MODULE MCReadModel ----------------------------
(* ReadModel with two or three events of one booking. *)
EXTENDS ReadModel

CONSTANTS b1

MCBookingOf == [m \in Messages |-> b1]
=============================================================================

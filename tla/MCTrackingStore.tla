--------------------------- MODULE MCTrackingStore ---------------------------
(* Small instances of TrackingStore for TLC. *)
EXTENDS TrackingStore, TLC

CONSTANTS b1, m1, m2, m3, w1, w2, w3, p1, p2

\* Two events of one booking, one of each way to read the version, or three.
MCBookingOfTwo == m1 :> b1 @@ m2 :> b1
MCKindOfTwo == m1 :> "OrderPicked" @@ m2 :> "OrderDelivered"
MCBookingOf == m1 :> b1 @@ m2 :> b1 @@ m3 :> b1
MCKindOf == m1 :> "BookingAdd" @@ m2 :> "OrderPicked" @@ m3 :> "OrderDelivered"

\* One handler call in each of two replicas; or two and one.
MCReplicaOfTwo == w1 :> p1 @@ w2 :> p2
MCReplicaOf == w1 :> p1 @@ w2 :> p1 @@ w3 :> p2
=============================================================================

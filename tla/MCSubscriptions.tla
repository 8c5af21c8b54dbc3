--------------------------- MODULE MCSubscriptions ---------------------------
(* Small instances of Subscriptions for TLC. *)
EXTENDS Subscriptions

CONSTANTS paid, changed, onPaid, onChanged, m1, m2

\* The start-up of Booking.API: two events, a handler each.
MCStartup == <<<<paid, onPaid>>, <<changed, onChanged>>>>
MCEventOf == m1 :> paid @@ m2 :> changed
=============================================================================

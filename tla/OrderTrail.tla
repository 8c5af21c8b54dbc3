----------------------------- MODULE OrderTrail -----------------------------
(***************************************************************************)
(* What the tracking service promises, without workers, versions, locks or *)
(* transactions: every booking has a trail to which events are only ever   *)
(* appended; a change of status is announced only for an event that is on  *)
(* its trail; a message is settled (the bus will not deliver it again)     *)
(* only after its event is on the trail and, when its kind asks for it,    *)
(* announced.  An event may be on a trail more than once: the bus delivers *)
(* at least once and the service does not look for duplicates.             *)
(* TrackingStore implements this module.                                   *)
(***************************************************************************)
EXTENDS Naturals, Sequences

CONSTANTS Bookings,    \* aggregate ids
          Messages,    \* the integration events ever sent to the subscription
          BookingOf,   \* BookingOf[m]: the booking that message m is about
          Announcing   \* the messages whose handler publishes OrderStatusChanged

VARIABLES trail,       \* trail[b]: the events appended for booking b, in order
          announced,   \* messages for which OrderStatusChanged was published
          settled      \* messages the bus was told to forget

trailVars == <<trail, announced, settled>>

OnTrail(m) == \E i \in DOMAIN trail[BookingOf[m]] : trail[BookingOf[m]][i] = m

Init == /\ trail = [b \in Bookings |-> <<>>]
        /\ announced = {}
        /\ settled = {}

Extend(m) == /\ trail' = [trail EXCEPT ![BookingOf[m]] = Append(@, m)]
             /\ UNCHANGED <<announced, settled>>

Announce(m) == /\ m \in Announcing
               /\ OnTrail(m)
               /\ announced' = announced \cup {m}
               /\ UNCHANGED <<trail, settled>>

Settle(m) == /\ OnTrail(m)
             /\ m \in Announcing => m \in announced
             /\ settled' = settled \cup {m}
             /\ UNCHANGED <<trail, announced>>

Next == \E m \in Messages : Extend(m) \/ Announce(m) \/ Settle(m)

Spec == Init /\ [][Next]_trailVars
=============================================================================

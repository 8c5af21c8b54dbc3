--------------------------- MODULE OrderLifecycle ---------------------------
(***************************************************************************)
(* An order on its way through the services, each with its own database,   *)
(* that know of each other only by the events on the topic: Booking.API    *)
(* (BookingService), Tracking.API (its abstraction OrderTrail, which       *)
(* TrackingStore implements), Payment.API (save, then publish, as in       *)
(* Gateway) and the shipping application, in which a clerk reports what    *)
(* happens to an order.                                                    *)
(***************************************************************************)
EXTENDS Naturals, Sequences, FiniteSets

CONSTANTS Bookings,       \* order ids
          Payments,       \* payments, each also the PaymentProcessed about it
          ShippingEvents, \* OrderPicked, OrderTransit, OrderDelivered
          Reports,        \* OrderStatusChanged messages
          OrderOf,        \* OrderOf[e]: the order of a payment or shipping event
          StatusOf,       \* StatusOf[e]: the status that shipping event e reports
          CauseOf,        \* CauseOf[m]: the shipping event that report m is about
          Puts,           \* PUT requests to Booking.API
          PutOrder,       \* PutOrder[t]: the order that PUT t is for
          PutValue,       \* PutValue[t]: the payment id it brings, of any payment or none
          Workers,        \* concurrent calls of the handlers of Booking.API
          MaxDeliveries,  \* bound: MaxDeliveryCount of the subscriptions
          MaxRecordings,  \* bound: how often Tracking appends one event
          MaxFailures,    \* bound: failures of Booking.API
          None, NoWorker

ASSUME OrderOfAssumption == OrderOf \in [Payments \cup ShippingEvents -> Bookings]
ASSUME CauseOfAssumption == CauseOf \in [Reports -> ShippingEvents]
ASSUME StatusOfAssumption == \A e \in ShippingEvents :
                               StatusOf[e] \notin {None, "PaymentProcessed"}
ASSUME PutOrderAssumption == PutOrder \in [Puts -> Bookings]
ASSUME BoundsAssumption == MaxFailures \in Nat /\ MaxRecordings \in Nat
ASSUME BusAssumption == MaxDeliveries \in Nat \ {0} /\ NoWorker \notin Workers
ASSUME EventsAssumption == /\ Payments \cap Reports = {}
                           /\ Puts \cap (Payments \cup Reports) = {}
                           /\ Bookings \cap (Payments \cup ShippingEvents) = {}
                           /\ Payments \cap ShippingEvents = {}

ASSUME NoneAssumption ==
  None \notin Payments \cup Reports \cup Puts \cup
              {"Pending", "Completed", "Canceled", "PaymentProcessed"}

VARIABLES
  booked, row, request, announced, served,   \* Booking.API: see BookingService
  state, deliveries, owner, pc, task, loaded,
  paying,      \* paying[p]: the POST of payment p in Payment.API
  shipped,     \* the shipping events that were published
  trail,       \* trail[b]: the events of order b in the database of Tracking
  reported,    \* the shipping events for which Tracking published a report
  tracked,     \* the messages that are settled in the subscription of Tracking
  failures     \* how often Booking.API failed

Messages == Payments \cup Reports
bookingVars == <<booked, row, request, announced, state, deliveries, owner, served,
                 pc, task, loaded>>
trailVars == <<trail, reported, tracked>>
vars == <<bookingVars, paying, shipped, trailVars, failures>>

\* A task of Booking.API: the order it is about, its kind and what it brings.
Tasks == Messages \cup Puts
OrderFor == [t \in Tasks |-> IF t \in Puts THEN PutOrder[t]
                             ELSE IF t \in Payments THEN OrderOf[t]
                             ELSE OrderOf[CauseOf[t]]]
KindFor == [t \in Tasks |-> IF t \in Puts THEN "Put"
                            ELSE IF t \in Payments THEN "PaymentCompleted"
                            ELSE "OrderStatusChanged"]
Brings == [t \in Tasks |-> IF t \in Puts THEN PutValue[t]
                           ELSE IF t \in Payments THEN t
                           ELSE StatusOf[CauseOf[t]]]
Brought == {Brings[t] : t \in Tasks} \ {None}

Booking == INSTANCE BookingService WITH
  BookingOf <- OrderFor, KindOf <- KindFor, ValueOf <- Brings, Values <- Brought,
  Faults <- {"error", "expiry", "crash"}

\* An order stands for the BookingAdd about it.
Tracked == Bookings \cup Payments \cup ShippingEvents

\* The order that an event is about.
Subject(e) == IF e \in Bookings THEN e ELSE OrderOf[e]

Trail == INSTANCE OrderTrail WITH
  Messages <- Tracked,
  BookingOf <- [e \in Tracked |-> Subject(e)],
  Announcing <- ShippingEvents, announced <- reported, settled <- tracked

-----------------------------------------------------------------------------
\* Event e is in the subscription of Tracking.
OnTopic(e) == \/ e \in announced
              \/ e \in Payments /\ paying[e] = "published"
              \/ e \in shipped

Recordings(e) == LET h == trail[Subject(e)] IN Cardinality({i \in DOMAIN h : h[i] = e})

\* The user knows the order: the web page goes on to the payment with its id.
IsKnown(b) == request[b] = "created"

Init ==
  /\ Booking!Init
  /\ paying = [p \in Payments |-> "none"]
  /\ shipped = {}
  /\ Trail!Init
  /\ failures = 0

(* Payment.API *)

\* PaymentService.AddAsync: the payment is saved ...
SavePayment(p) ==
  /\ IsKnown(OrderOf[p])
  /\ paying[p] = "none"
  /\ paying' = [paying EXCEPT ![p] = "saved"]
  /\ UNCHANGED <<bookingVars, shipped, trailVars, failures>>

\* Mutant: ... after PaymentProcessed is published.
PublishUnsavedPayment(p) ==
  /\ IsKnown(OrderOf[p])
  /\ paying[p] = "none"
  /\ Booking!Send(p)
  /\ UNCHANGED <<paying, shipped, trailVars, failures>>

\* ... and PaymentProcessed is published, to Booking and to Tracking, ...
PublishPayment(p) ==
  /\ paying[p] = "saved"
  /\ paying' = [paying EXCEPT ![p] = "published"]
  /\ Booking!Send(p)
  /\ UNCHANGED <<shipped, trailVars, failures>>

\* ... unless that fails.
PublishPaymentFails(p) ==
  /\ paying[p] = "saved"
  /\ paying' = [paying EXCEPT ![p] = "failed"]
  /\ UNCHANGED <<bookingVars, shipped, trailVars, failures>>

(* The shipping application *)

\* The clerk reports what happened to a known order.
Ship(e) ==
  /\ IsKnown(OrderOf[e])
  /\ e \notin shipped
  /\ shipped' = shipped \cup {e}
  /\ UNCHANGED <<bookingVars, paying, trailVars, failures>>

(* Tracking.API *)

\* Event e is appended to the trail of its order, once or, when it is delivered
\* again, more often.
Record(e) ==
  /\ OnTopic(e)
  /\ e \notin tracked
  /\ Recordings(e) < MaxRecordings
  /\ Trail!Extend(e)
  /\ UNCHANGED <<bookingVars, paying, shipped, failures>>

\* Mutant: the change of status is published before the event is saved.
ReportUnrecorded(e) ==
  /\ e \in shipped
  /\ reported' = reported \cup {e}
  /\ \E m \in Reports : CauseOf[m] = e /\ Booking!Send(m)
  /\ UNCHANGED <<trail, tracked, paying, shipped, failures>>

\* OrderStatusChanged is published; the reports with one cause bound how often.
Report(e) ==
  /\ e \notin tracked
  /\ Trail!Announce(e)
  /\ \E m \in Reports : CauseOf[m] = e /\ Booking!Send(m)
  /\ UNCHANGED <<paying, shipped, failures>>

\* The message is completed.
Finish(e) ==
  /\ e \notin tracked
  /\ Trail!Settle(e)
  /\ UNCHANGED <<bookingVars, paying, shipped, failures>>

(* Booking.API *)

\* It creates orders, and handles its messages and PUTs.
Create(b) ==
  /\ Booking!SaveBooking(b) \/ Booking!PublishBooking(b) \/ Booking!PublishBookingFails(b)
  /\ UNCHANGED <<paying, shipped, trailVars, failures>>

\* A client changes the payment id of an order.
AcceptPut(w, t) ==
  /\ Booking!Accept(w, t)
  /\ UNCHANGED <<paying, shipped, trailVars, failures>>

HandleTask(w) ==
  /\ Booking!Work(w)
  /\ UNCHANGED <<paying, shipped, trailVars, failures>>

DeliverMessage ==
  /\ Booking!Deliver
  /\ UNCHANGED <<paying, shipped, trailVars, failures>>

\* The lock of a message whose handler is gone expires.
FreeLock(m) ==
  /\ state[m] = "locked"
  /\ task[owner[m]] # m
  /\ Booking!Expire(m)
  /\ UNCHANGED <<paying, shipped, trailVars, failures>>

\* A handler throws, a lock expires under its handler, or the process dies.
Fail ==
  /\ failures < MaxFailures
  /\ failures' = failures + 1
  /\ \/ \E w \in Workers : Booking!Error(w)
     \/ \E m \in Messages :
          state[m] = "locked" /\ task[owner[m]] = m /\ Booking!Expire(m)
     \/ Booking!Crash
  /\ UNCHANGED <<paying, shipped, trailVars>>

-----------------------------------------------------------------------------
Track(e) == Record(e) \/ Report(e) \/ Finish(e)

Next == \/ \E b \in Bookings : Create(b)
        \/ \E p \in Payments : SavePayment(p) \/ PublishPayment(p) \/ PublishPaymentFails(p)
        \/ \E e \in ShippingEvents : Ship(e)
        \/ \E e \in Tracked : Track(e)
        \/ \E w \in Workers : HandleTask(w) \/ \E t \in Puts : AcceptPut(w, t)
        \/ DeliverMessage
        \/ \E m \in Messages : FreeLock(m)
        \/ Fail

Spec == Init /\ [][Next]_vars

\* What the services do by themselves, without a user, a clerk or a failure.
Progress == \/ \E w \in Workers : HandleTask(w)
            \/ DeliverMessage
            \/ \E m \in Messages : FreeLock(m)
            \/ \E e \in Tracked : Track(e)

\* The services do not stop as long as there is something to do.  Nothing keeps one
\* going for ever, so each gets its turn.
Fairness == WF_vars(Progress)

FairSpec == Spec /\ Fairness

-----------------------------------------------------------------------------
(* Properties *)

\* Every variable has its type.
TypeOK ==
  /\ Booking!TypeOK
  /\ paying \in [Payments -> {"none", "saved", "published", "failed"}]
  /\ shipped \subseteq ShippingEvents
  /\ trail \in [Bookings -> Seq(Tracked)]
  /\ reported \subseteq ShippingEvents
  /\ tracked \subseteq Tracked
  /\ failures \in 0..MaxFailures

\* Booking is never ahead of Tracking: the status of an order is that of a
\* payment of it or of an event on its trail, although it passed through two
\* subscriptions and a copy of the row that may be old.
StatusIsTracked ==
  \A b \in Bookings : row[b]["OrderStatus"] \notin {None, "PaymentProcessed"} =>
    \E e \in ShippingEvents : /\ OrderOf[e] = b
                              /\ StatusOf[e] = row[b]["OrderStatus"]
                              /\ Trail!OnTrail(e)

\* Order b is completed, and has its payment id unless a PUT may have taken it.
Settled(b) == /\ row[b]["BookingState"] = "Completed"
              /\ Booking!Paid(b) \/ Booking!PutsNull(b)

\* Booking is never ahead of Payment: an order is completed only when a payment of it is
\* saved, and a payment id that it carries is that of one, unless a PUT brought it; a
\* completed order without a payment id lost it to a PUT.
PaidIsCharged ==
  \A b \in Bookings :
    /\ row[b]["BookingState"] = "Completed" =>
         Settled(b) /\ \E p \in Payments : OrderOf[p] = b /\ paying[p] # "none"
    /\ row[b]["PaymentID"] # None =>
         \/ \E p \in Payments : OrderOf[p] = b /\ paying[p] # "none" /\ row[b]["PaymentID"] = p
         \/ \E t \in served : PutOrder[t] = b /\ row[b]["PaymentID"] = PutValue[t]

\* README.md, line 24: the services "eventualy get consistent": as long as
\* Booking.API fails less often than a message is delivered, every announced
\* order, published payment and shipping event ends up on the trail of its order
\* in Tracking, and Booking knows of the payment and of some status, whatever PUTs
\* come in between.
EventuallyConsistent ==
  /\ \A b \in Bookings : b \in announced ~> Trail!OnTrail(b)
  /\ \A p \in Payments :
       paying[p] = "published" ~> Trail!OnTrail(p) /\ Settled(OrderOf[p])
  /\ \A e \in ShippingEvents :
       e \in shipped ~> Trail!OnTrail(e) /\ row[OrderOf[e]]["OrderStatus"] # None
=============================================================================

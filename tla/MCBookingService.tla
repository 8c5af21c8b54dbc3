-------------------------- MODULE MCBookingService --------------------------
(* Small instances of BookingService for TLC. *)
EXTENDS BookingService, TLC

CONSTANTS b1, pay, change, deliver, put, clear

\* A payment, a change of status and two PUTs of one order, one with another payment
\* id and one with none.
MCBookingOf == pay :> b1 @@ change :> b1 @@ put :> b1 @@ clear :> b1
MCKindOf == pay :> "PaymentCompleted" @@ change :> "OrderStatusChanged" @@ put :> "Put"
            @@ clear :> "Put"
MCValueOf == pay :> "payment1" @@ change :> "OrderPicked" @@ put :> "payment2"
             @@ clear :> None
MCValues == {"payment1", "payment2", "OrderPicked", "OrderDelivered"}

\* The whole life of an order, no PUT.
MCBookingOfLife == pay :> b1 @@ change :> b1 @@ deliver :> b1
MCKindOfLife == pay :> "PaymentCompleted" @@ change :> "OrderStatusChanged"
                @@ deliver :> "OrderStatusChanged"
MCValueOfLife == pay :> "payment1" @@ change :> "OrderPicked"
                 @@ deliver :> "OrderDelivered"
=============================================================================

--------------------------- MODULE BookingService ---------------------------
(***************************************************************************)
(* The booking service: orders are created over HTTP (save the row, then   *)
(* publish BookingAdd: two writes, no transaction around them), changed by *)
(* the handlers of PaymentProcessed and OrderStatusChanged and by PUT.     *)
(* Every change loads the row, changes its entity and lets Entity          *)
(* Framework write the columns whose value differs from the loaded one;    *)
(* there is no concurrency token, so handlers of one order overwrite each  *)
(* other column by column.                                                 *)
(***************************************************************************)
EXTENDS PeekLock

\* Messages are the events sent to the subscription "booking", Workers the
\* concurrent calls, message handlers and PUTs.
CONSTANTS Bookings,       \* booking order ids
          Puts,           \* PUT requests
          BookingOf,      \* BookingOf[t]: the booking of task t
          KindOf,         \* KindOf[t]: what task t asks for
          ValueOf,        \* ValueOf[t]: the payment id or the status it brings
          Values,         \* payment ids and order statuses, not null
          Faults,         \* which of AllFaults may happen
          None            \* null, for a column or a task

Tasks == Messages \cup Puts
AllFaults == {"error", "expiry", "crash"}

PaymentKinds == {"PaymentCompleted", "PaymentCanceled", "PaymentPending"}
MessageKinds == PaymentKinds \cup {"OrderStatusChanged"}

ASSUME BookingOfAssumption == BookingOf \in [Tasks -> Bookings]
ASSUME KindOfAssumption == /\ \A m \in Messages : KindOf[m] \in MessageKinds
                           /\ \A t \in Puts : KindOf[t] = "Put"
\* An event always has its value; the body of a PUT may leave the payment id out.
ASSUME ValueOfAssumption == /\ ValueOf \in [Tasks -> Values \cup {None}]
                            /\ \A m \in Messages : ValueOf[m] \in Values
ASSUME FaultsAssumption == Faults \subseteq AllFaults
ASSUME TasksAssumption == Messages \cap Puts = {}
ASSUME NoneAssumption ==
  None \notin Tasks \cup Values \cup
              {"Pending", "Completed", "Canceled", "PaymentProcessed"}

VARIABLES
  booked,      \* the bookings that have a row
  row,         \* row[b]: the columns of booking b
  request,     \* request[b]: the POST that creates b
  announced,   \* the bookings whose BookingAdd is on the topic
  served,      \* the PUT requests that were accepted
  pc,          \* pc[w]: the next step of worker w
  task,        \* task[w]: what w works on
  loaded       \* loaded[w]: the row as w's DbContext loaded it

bookVars == <<booked, row>>
createVars == <<request, announced>>
workerVars == <<pc, task, loaded>>
vars == <<booked, row, request, announced, state, deliveries, owner, served, pc,
          task, loaded>>

Columns == {"PaymentID", "BookingState", "OrderStatus"}
BookingStates == {"Pending", "Completed", "Canceled"}
Rows == [Columns -> Values \cup BookingStates \cup {"PaymentProcessed", None}]

-----------------------------------------------------------------------------
(* Helpers *)

\* A new BookingOrder: pending, neither paid nor on its way.
NewRow == [c \in Columns |-> IF c = "BookingState" THEN "Pending" ELSE None]

\* Mutant: the payment's status is taken for the state of the order.
ChangedByPaymentStatus(t, r) ==
  CASE KindOf[t] \in PaymentKinds ->
         [r EXCEPT !["PaymentID"] = ValueOf[t],
                   !["BookingState"] = KindOf[t],
                   !["OrderStatus"] = "PaymentProcessed"]
    [] KindOf[t] = "OrderStatusChanged" -> [r EXCEPT !["OrderStatus"] = ValueOf[t]]
    [] KindOf[t] = "Put" -> [r EXCEPT !["PaymentID"] = ValueOf[t]]

\* What the handler of task t makes of the entity r it loaded.  A PUT sets whatever
\* payment id its caller sent, also one of no payment, also null.
Changed(t, r) ==
  CASE KindOf[t] = "PaymentCompleted" ->
         [r EXCEPT !["PaymentID"] = ValueOf[t],
                   !["BookingState"] = "Completed",
                   !["OrderStatus"] = "PaymentProcessed"]
    [] KindOf[t] = "PaymentCanceled" -> [r EXCEPT !["BookingState"] = "Canceled"]
    [] KindOf[t] = "PaymentPending" -> [r EXCEPT !["BookingState"] = "Pending"]
    [] KindOf[t] = "OrderStatusChanged" -> [r EXCEPT !["OrderStatus"] = ValueOf[t]]
    [] KindOf[t] = "Put" -> [r EXCEPT !["PaymentID"] = ValueOf[t]]

\* Mutant: "_context.Bookings.Update(bookingOrder)", which marks every column.
WrittenWhole(new, old, stored) == new

\* SaveChanges: the columns of the entity that differ from what was loaded are
\* written over the stored row, the others are left alone.
Written(new, old, stored) ==
  [c \in Columns |-> IF new[c] # old[c] THEN new[c] ELSE stored[c]]

WBooking(w) == BookingOf[task[w]]
HoldsLock(w) == LocksMessage(w, task[w])

Goto(w, step) == pc' = [pc EXCEPT ![w] = step]
\* The call returns; its scope, and the entity its DbContext loaded, are gone.
Rest(w) == /\ Goto(w, "idle")
           /\ task' = [task EXCEPT ![w] = None]
           /\ loaded' = [loaded EXCEPT ![w] = NewRow]

\* The work ends with an exception: a message is abandoned if its lock is still
\* held, a PUT is answered with an error.
Fails(w) ==
  /\ IF task[w] \in Messages THEN AbandonMessage(w, task[w]) ELSE UNCHANGED busVars
  /\ Rest(w)
  /\ UNCHANGED <<bookVars, createVars, served>>

-----------------------------------------------------------------------------
Init ==
  /\ booked = {}
  /\ row = [b \in Bookings |-> NewRow]
  /\ request = [b \in Bookings |-> "none"]
  /\ announced = {}
  /\ BusInit
  /\ served = {}
  /\ pc = [w \in Workers |-> "idle"]
  /\ task = [w \in Workers |-> None]
  /\ loaded = [w \in Workers |-> NewRow]

(* CreateBookingCommandHandler *)

\* Mutant: the event is published first.
SaveBookingLast(b) ==
  /\ request[b] = "none"
  /\ request' = [request EXCEPT ![b] = "saved"]
  /\ announced' = announced \cup {b}
  /\ UNCHANGED <<bookVars, busVars, served, workerVars>>

\* The new order is saved in the local database.
SaveBooking(b) ==
  /\ request[b] = "none"
  /\ booked' = booked \cup {b}
  /\ request' = [request EXCEPT ![b] = "saved"]
  /\ UNCHANGED <<row, announced, busVars, served, workerVars>>

\* The event is published; the caller gets the reference.
PublishBooking(b) ==
  /\ request[b] = "saved"
  /\ announced' = announced \cup {b}
  /\ request' = [request EXCEPT ![b] = "created"]
  /\ UNCHANGED <<bookVars, busVars, served, workerVars>>

\* Publishing throws: the caller gets a 500, the row stays.
PublishBookingFails(b) ==
  /\ "error" \in Faults
  /\ request[b] = "saved"
  /\ request' = [request EXCEPT ![b] = "failed"]
  /\ UNCHANGED <<bookVars, announced, busVars, served, workerVars>>

-----------------------------------------------------------------------------
(* Changes of an order *)

\* Payment, Tracking publish an event; its order may be one that does not exist.
Send(m) ==
  /\ Put(m)
  /\ UNCHANGED <<bookVars, createVars, served, workerVars>>

Receive(w, m) ==
  /\ pc[w] = "idle"
  /\ Lock(w, m)
  /\ Goto(w, "find")
  /\ task' = [task EXCEPT ![w] = m]
  /\ UNCHANGED <<bookVars, createVars, served, loaded>>

\* A PUT request arrives.
Accept(w, t) ==
  /\ pc[w] = "idle"
  /\ t \notin served
  /\ served' = served \cup {t}
  /\ Goto(w, "find")
  /\ task' = [task EXCEPT ![w] = t]
  /\ UNCHANGED <<bookVars, createVars, busVars, loaded>>

\* FindByIdAsync.
Find(w) ==
  /\ pc[w] = "find"
  /\ WBooking(w) \in booked
  /\ loaded' = [loaded EXCEPT ![w] = row[WBooking(w)]]
  /\ Goto(w, "save")
  /\ UNCHANGED <<bookVars, createVars, busVars, served, task>>

\* No such order: a message handler dereferences null, which abandons the
\* message; a PUT returns.
FindNothing(w) ==
  /\ pc[w] = "find"
  /\ WBooking(w) \notin booked
  /\ Fails(w)

\* UpdateAsync; a PUT is done.
Save(w) ==
  /\ pc[w] = "save"
  /\ row' = [row EXCEPT ![WBooking(w)] =
               Written(Changed(task[w], loaded[w]), loaded[w], @)]
  /\ IF task[w] \in Messages
       THEN Goto(w, "complete") /\ UNCHANGED <<task, loaded>>
       ELSE Rest(w)
  /\ UNCHANGED <<booked, createVars, busVars, served>>

Complete(w) ==
  /\ pc[w] = "complete"
  /\ Settle(w, task[w])
  /\ Rest(w)
  /\ UNCHANGED <<bookVars, createVars, served>>

CompleteTooLate(w) ==
  /\ pc[w] = "complete"
  /\ ~HoldsLock(w)
  /\ Fails(w)

-----------------------------------------------------------------------------
(* Faults *)

Error(w) ==
  /\ "error" \in Faults
  /\ pc[w] # "idle"
  /\ Fails(w)

Expire(m) ==
  /\ state[m] = "locked"
  /\ "expiry" \in Faults \/ task[owner[m]] # m
  /\ Release(m)
  /\ UNCHANGED <<bookVars, createVars, served, workerVars>>

\* The one replica dies: its handlers and its requests end where they are.
Crash ==
  /\ "crash" \in Faults
  /\ (\E w \in Workers : pc[w] # "idle") \/ (\E b \in Bookings : request[b] = "saved")
  /\ pc' = [w \in Workers |-> "idle"]
  /\ task' = [w \in Workers |-> None]
  /\ loaded' = [w \in Workers |-> NewRow]
  /\ request' = [b \in Bookings |->
                   IF request[b] = "saved" THEN "failed" ELSE request[b]]
  /\ UNCHANGED <<bookVars, announced, busVars, served>>

-----------------------------------------------------------------------------
Work(w) == Find(w) \/ FindNothing(w) \/ Save(w) \/ Complete(w) \/ CompleteTooLate(w)

Deliver == \E w \in Workers, m \in Messages : Receive(w, m)

Next == \/ \E b \in Bookings : \/ SaveBooking(b)
                               \/ PublishBooking(b)
                               \/ PublishBookingFails(b)
        \/ \E m \in Messages : Send(m) \/ Expire(m)
        \/ Deliver
        \/ \E w \in Workers : (\E t \in Puts : Accept(w, t)) \/ Work(w) \/ Error(w)
        \/ Crash

Spec == Init /\ [][Next]_vars

\* A started handler goes on, the bus delivers to an idle worker, the lock of a
\* dead worker expires.
Fairness == /\ \A w \in Workers : WF_vars(Work(w))
            /\ WF_vars(Deliver)
            /\ \A m \in Messages : WF_vars(Expire(m) /\ task[owner[m]] # m)

FairSpec == Spec /\ Fairness

-----------------------------------------------------------------------------
(* Properties *)

\* Every variable has its type.
TypeOK ==
  /\ booked \subseteq Bookings
  /\ row \in [Bookings -> Rows]
  /\ request \in [Bookings -> {"none", "saved", "created", "failed"}]
  /\ announced \subseteq Bookings
  /\ BusTypeOK
  /\ served \subseteq Puts
  /\ pc \in [Workers -> {"idle", "find", "save", "complete"}]
  /\ task \in [Workers -> Tasks \cup {None}]
  /\ loaded \in [Workers -> Rows]

\* Nobody hears of an order that has no row.
AnnouncedIsBooked == announced \subseteq booked

Paid(b) == row[b]["PaymentID"] # None /\ row[b]["BookingState"] = "Completed"

\* A PUT without a payment id was accepted for order b.
PutsNull(b) == \E t \in served : BookingOf[t] = b /\ ValueOf[t] = None

\* When the bus forgets a payment, the order is completed and has a payment id, which
\* only a PUT without one can take from it; when it forgets a change of status, the
\* order has a status.  Whatever handlers wrote the row from older copies before,
\* since or in between: they write only the columns that they changed.
CompletedIsKept ==
  \A m \in Messages :
    state[m] = "completed" =>
      LET b == BookingOf[m] IN
        /\ b \in booked
        /\ KindOf[m] = "PaymentCompleted" => /\ row[b]["BookingState"] = "Completed"
                                             /\ Paid(b) \/ PutsNull(b)
        /\ KindOf[m] = "OrderStatusChanged" => row[b]["OrderStatus"] # None

\* Worker w saves a PUT for order b that has no payment id.
SavesNull(w, b) == /\ pc[w] = "save" /\ WBooking(w) = b
                   /\ task[w] \in Puts /\ ValueOf[task[w]] = None

\* No step takes a payment back: a completed order stays completed, and what takes its
\* payment id is the save of a PUT without one, never a handler of an event, however
\* old the row is that it loaded.  Payment only reports completed payments
\* (PaymentService.cs, line 31), so the messages of the runs have no other.
PaymentIsFinal ==
  [][\A b \in Bookings : Paid(b) => /\ row'[b]["BookingState"] = "Completed"
                                    /\ Paid(b)' \/ \E w \in Workers : SavesNull(w, b)]_row

\* Every sent event is applied or dead-lettered, also one for an order that
\* does not exist, whatever fails.
EverySentIsSettled ==
  \A m \in Messages :
    state[m] = "available" ~> state[m] \in {"completed", "dead"}

\* README.md, line 20: "The order will have state that will define its current
\* status": once every event is handled, an order that was reported as delivered
\* is delivered.
StatusIsCurrent ==
  (\A m \in Messages : state[m] = "completed") =>
    \A m \in Messages :
      ValueOf[m] = "OrderDelivered" => row[BookingOf[m]]["OrderStatus"] = "OrderDelivered"
=============================================================================

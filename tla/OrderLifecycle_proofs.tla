------------------------ MODULE OrderLifecycle_proofs ------------------------
(***************************************************************************)
(* Proofs about OrderLifecycle, for any orders, payments, events, calls    *)
(* and failures: whatever a message says was true when it was sent and     *)
(* stays true, and a row shows what messages said; the services behave as  *)
(* their own modules say; and nothing gets lost between them.              *)
(***************************************************************************)
EXTENDS OrderLifecycle, TLAPS

\* What message m says is true in the service that sent it.
Sound(m) == /\ m \in Payments => paying[m] # "none"
            /\ m \in Reports => Trail!OnTrail(CauseOf[m])

\* Row r says only true things about order b.
SoundStatus(b, r) ==
  r["OrderStatus"] \notin {None, "PaymentProcessed"} =>
    \E e \in ShippingEvents : /\ OrderOf[e] = b
                              /\ StatusOf[e] = r["OrderStatus"]
                              /\ Trail!OnTrail(e)

\* A payment of order b is saved.
Charged(b) == \E p \in Payments : OrderOf[p] = b /\ paying[p] # "none"

\* One of the PUTs in S is for order b and has no payment id.
NullIn(S, b) == \E t \in S : OrderFor[t] = b /\ Brings[t] = None

SoundPayment(S, b, r) ==
  /\ r["BookingState"] = "Completed" => Charged(b) /\ (r["PaymentID"] # None \/ NullIn(S, b))
  /\ r["PaymentID"] # None =>
       \/ \E p \in Payments : OrderOf[p] = b /\ paying[p] # "none" /\ r["PaymentID"] = p
       \/ \E t \in S : PutOrder[t] = b /\ r["PaymentID"] = PutValue[t]

-----------------------------------------------------------------------------
(* The inductive invariant *)

SentInv == \A m \in Messages : state[m] # "unsent" => Sound(m)

\* A busy call has a message that was sent or a PUT that was accepted; the order it
\* loaded was not paid when it is not paid now, unless a PUT may have taken the payment.
WorkerInv ==
  \A w \in Workers :
    /\ pc[w] # "idle" => \/ task[w] \in Messages /\ state[task[w]] # "unsent"
                         \/ task[w] \in served
    /\ pc[w] = "complete" => task[w] \in Messages
    /\ pc[w] = "save" /\ loaded[w]["PaymentID"] # None =>
         row[OrderFor[task[w]]]["PaymentID"] # None \/ NullIn(served, OrderFor[task[w]])

RowInv == \A b \in Bookings : SoundStatus(b, row[b]) /\ SoundPayment(served, b, row[b])

Inv == TypeOK /\ SentInv /\ WorkerInv /\ RowInv

\* Facts in the services are only ever added.
Grown ==
  /\ served \subseteq served'
  /\ \A p \in Payments : paying[p] # "none" => paying'[p] # "none"
  /\ \A e \in ShippingEvents : Trail!OnTrail(e) => Trail!OnTrail(e)'

-----------------------------------------------------------------------------
(* Rows *)

LEMMA OrderForType == ASSUME NEW t \in Tasks PROVE OrderFor[t] \in Bookings
  BY OrderOfAssumption, CauseOfAssumption, PutOrderAssumption DEF OrderFor, Tasks, Messages

LEMMA PutsAreNoMessages == ASSUME NEW t \in Puts PROVE t \notin Messages /\ t \in Tasks
  BY EventsAssumption DEF Messages, Tasks

\* What a handler makes of a row.
LEMMA ChangedByPayment ==
  ASSUME NEW m \in Payments, NEW r
  PROVE  Booking!Changed(m, r) = [r EXCEPT !["PaymentID"] = m,
                                           !["BookingState"] = "Completed",
                                           !["OrderStatus"] = "PaymentProcessed"]
<1>1. KindFor[m] = "PaymentCompleted" /\ Brings[m] = m
  BY EventsAssumption DEF KindFor, Brings, Tasks, Messages
<1> QED
  BY <1>1 DEF Booking!Changed

LEMMA ChangedByReport ==
  ASSUME NEW m \in Reports, NEW r
  PROVE  Booking!Changed(m, r) = [r EXCEPT !["OrderStatus"] = StatusOf[CauseOf[m]]]
<1>1. KindFor[m] = "OrderStatusChanged" /\ Brings[m] = StatusOf[CauseOf[m]]
  BY EventsAssumption DEF KindFor, Brings, Tasks, Messages
<1> QED
  BY <1>1 DEF Booking!Changed, Booking!PaymentKinds

LEMMA ChangedByPut ==
  ASSUME NEW t \in Puts, NEW r
  PROVE  Booking!Changed(t, r) = [r EXCEPT !["PaymentID"] = PutValue[t]]
<1>1. KindFor[t] = "Put" /\ Brings[t] = PutValue[t]
  BY DEF KindFor, Brings, Tasks
<1> QED
  BY <1>1 DEF Booking!Changed, Booking!PaymentKinds

\* What a task brings may be in a row.
LEMMA BroughtType == ASSUME NEW t \in Tasks PROVE Brings[t] \in Brought \cup {None}
  BY DEF Brought

LEMMA NewRowIs ==
  /\ Booking!NewRow \in Booking!Rows
  /\ Booking!NewRow["PaymentID"] = None
  /\ Booking!NewRow["OrderStatus"] = None
  /\ Booking!NewRow["BookingState"] = "Pending"
  BY DEF Booking!NewRow, Booking!Rows, Booking!Columns, Booking!BookingStates

\* One save, from a row that may be old.
LEMMA WrittenIsSound ==
  ASSUME NEW S, NEW m \in Messages \cup S, m \in Tasks, m \in Messages => Sound(m),
         NEW old \in Booking!Rows, NEW stored \in Booking!Rows, NEW b, b = OrderFor[m],
         old["PaymentID"] # None => stored["PaymentID"] # None \/ NullIn(S, b),
         SoundStatus(b, stored), SoundPayment(S, b, stored)
  PROVE  LET new == Booking!Written(Booking!Changed(m, old), old, stored) IN
           /\ new \in Booking!Rows
           /\ stored["PaymentID"] # None => new["PaymentID"] # None \/ NullIn(S, b)
           /\ SoundStatus(b, new)
           /\ SoundPayment(S, b, new)
<1> DEFINE c == Booking!Changed(m, old)
           new == Booking!Written(c, old, stored)
<1>1. \A k \in Booking!Columns : new[k] = IF c[k] # old[k] THEN c[k] ELSE stored[k]
  BY DEF Booking!Written
<1>2. CASE m \in Payments
  <2>1. c = [old EXCEPT !["PaymentID"] = m, !["BookingState"] = "Completed",
                        !["OrderStatus"] = "PaymentProcessed"]
    BY <1>2, ChangedByPayment
  <2>2. /\ c["PaymentID"] = m
        /\ c["BookingState"] = "Completed"
        /\ c["OrderStatus"] = "PaymentProcessed"
    BY <2>1 DEF Booking!Rows, Booking!Columns
  <2>3. m \in Brought /\ m # None /\ b = OrderOf[m] /\ paying[m] # "none"
    BY <1>2, NoneAssumption, EventsAssumption, BroughtType
       DEF Brings, OrderFor, Sound, Messages, Tasks
  <2>4. new \in Booking!Rows
    BY <2>2, <2>3 DEF Booking!Written, Booking!Rows, Booking!Columns, Booking!BookingStates
  <2>5. SoundStatus(b, new)
    BY <2>2, <1>1 DEF SoundStatus, Booking!Columns
  <2>6. stored["PaymentID"] # None => new["PaymentID"] # None \/ NullIn(S, b)
    BY <2>2, <2>3, <1>1 DEF Booking!Columns
  <2>7. Charged(b) /\ (new["PaymentID"] # None \/ NullIn(S, b))
    BY <2>2, <2>3, <1>1, <1>2 DEF Charged, Booking!Columns
  <2>8. new["PaymentID"] = m \/ new["PaymentID"] = stored["PaymentID"]
    BY <2>2, <1>1 DEF Booking!Columns
  <2>9. SoundPayment(S, b, new)
    BY <1>2, <2>3, <2>7, <2>8 DEF SoundPayment
  <2> QED
    BY <2>4, <2>5, <2>6, <2>9
<1>3. CASE m \in Reports
  <2> DEFINE e == CauseOf[m]
  <2>0. /\ m \notin Payments /\ e \in ShippingEvents /\ b = OrderOf[e] /\ Trail!OnTrail(e)
        /\ StatusOf[e] \in Brought \cup {None}
    BY <1>3, EventsAssumption, CauseOfAssumption, BroughtType
       DEF Brings, OrderFor, Sound, Messages, Tasks
  <2>1. c = [old EXCEPT !["OrderStatus"] = StatusOf[e]]
    BY <1>3, ChangedByReport
  <2>2. /\ c["PaymentID"] = old["PaymentID"]
        /\ c["BookingState"] = old["BookingState"]
        /\ c["OrderStatus"] = StatusOf[e]
    BY <2>1 DEF Booking!Rows, Booking!Columns
  <2>3. new \in Booking!Rows
    BY <2>0, <2>2 DEF Booking!Written, Booking!Rows, Booking!Columns
  <2>4. SoundStatus(b, new)
    BY <2>0, <2>2, <1>1 DEF SoundStatus, Booking!Columns
  <2>5. /\ new["PaymentID"] = stored["PaymentID"]
        /\ new["BookingState"] = stored["BookingState"]
    BY <2>2, <1>1 DEF Booking!Columns
  <2>6. SoundPayment(S, b, new)
    BY <2>5 DEF SoundPayment
  <2> QED
    BY <2>3, <2>4, <2>5, <2>6
<1>4. CASE m \in Puts
  <2>0. /\ m \in S /\ b = PutOrder[m] /\ Brings[m] = PutValue[m]
        /\ PutValue[m] \in Brought \cup {None}
    BY <1>4, PutsAreNoMessages, BroughtType DEF Brings, OrderFor, Tasks
  <2>1. c = [old EXCEPT !["PaymentID"] = PutValue[m]]
    BY <1>4, ChangedByPut
  <2>2. /\ c["PaymentID"] = PutValue[m]
        /\ c["BookingState"] = old["BookingState"]
        /\ c["OrderStatus"] = old["OrderStatus"]
    BY <2>1 DEF Booking!Rows, Booking!Columns
  <2>3. new \in Booking!Rows
    BY <2>0, <2>2 DEF Booking!Written, Booking!Rows, Booking!Columns
  <2>4. /\ new["PaymentID"] = PutValue[m] \/ new["PaymentID"] = stored["PaymentID"]
        /\ new["BookingState"] = stored["BookingState"]
        /\ new["OrderStatus"] = stored["OrderStatus"]
    BY <2>2, <1>1 DEF Booking!Columns
  <2>5. PutValue[m] = None => NullIn(S, b)
    BY <2>0 DEF NullIn
  <2>6. SoundPayment(S, b, new)
    BY <2>0, <2>4, <2>5 DEF SoundPayment
  <2> QED
    BY <2>3, <2>4, <2>5, <2>6 DEF SoundStatus
<1> QED
  BY <1>2, <1>3, <1>4 DEF Messages, Tasks

-----------------------------------------------------------------------------
(* Steps *)

LEMMA GrownSound ==
  ASSUME Grown, NEW m \in Messages, Sound(m)
  PROVE  Sound(m)'
  BY CauseOfAssumption DEF Grown, Sound

LEMMA GrownRow ==
  ASSUME Grown, NEW b \in Bookings, NEW r, SoundStatus(b, r), SoundPayment(served, b, r)
  PROVE  /\ (r["OrderStatus"] \notin {None, "PaymentProcessed"} =>
               \E e \in ShippingEvents : /\ OrderOf[e] = b
                                         /\ StatusOf[e] = r["OrderStatus"]
                                         /\ Trail!OnTrail(e)')
         /\ r["BookingState"] = "Completed" =>
              Charged(b)' /\ (r["PaymentID"] # None \/ NullIn(served', b))
         /\ r["PaymentID"] # None =>
              \/ \E p \in Payments : /\ OrderOf[p] = b /\ paying'[p] # "none"
                                     /\ r["PaymentID"] = p
              \/ \E t \in served' : PutOrder[t] = b /\ r["PaymentID"] = PutValue[t]
  BY DEF Grown, SoundStatus, SoundPayment, Charged, NullIn

LEMMA UnchangedGrown ==
  ASSUME UNCHANGED <<paying, trailVars>>, served \subseteq served'
  PROVE  Grown
<1>1. paying' = paying /\ trail' = trail
  BY DEF trailVars
<1>2. \A e \in ShippingEvents : Trail!OnTrail(e)' <=> Trail!OnTrail(e)
  BY <1>1 DEF Trail!OnTrail, Subject, Tracked
<1> QED
  BY <1>1, <1>2 DEF Grown

\* A step that changes no row, sends only sound messages, and whose calls begin,
\* end or stay as they are.
LEMMA QuietStep ==
  ASSUME Inv, Grown, UNCHANGED row,
         \A m \in Messages : state'[m] # "unsent" => state[m] # "unsent" \/ Sound(m)',
         \A m \in Messages : state[m] # "unsent" => state'[m] # "unsent",
         \A w \in Workers :
           \/ pc'[w] = "idle"
           \/ pc'[w] = pc[w] /\ task'[w] = task[w] /\ loaded'[w] = loaded[w]
           \/ pc'[w] = "find" /\ task'[w] \in Messages /\ state'[task'[w]] # "unsent"
           \/ pc'[w] = "find" /\ task'[w] \in served'
  PROVE  SentInv' /\ WorkerInv' /\ RowInv'
<1>1. SentInv'
  BY GrownSound DEF Inv, SentInv
<1>2. WorkerInv'
  <2> SUFFICES ASSUME NEW w \in Workers
               PROVE  /\ pc'[w] # "idle" =>
                           \/ task'[w] \in Messages /\ state'[task'[w]] # "unsent"
                           \/ task'[w] \in served'
                      /\ pc'[w] = "complete" => task'[w] \in Messages
                      /\ pc'[w] = "save" /\ loaded'[w]["PaymentID"] # None =>
                           \/ row'[OrderFor[task'[w]]]["PaymentID"] # None
                           \/ NullIn(served', OrderFor[task'[w]])
    BY DEF WorkerInv
  <2> QED
    BY DEF Inv, WorkerInv, Grown, NullIn
<1>3. RowInv'
  BY GrownRow DEF Inv, RowInv, SoundStatus, SoundPayment
<1> QED
  BY <1>1, <1>2, <1>3

LEMMA ReleaseType ==
  ASSUME Booking!BusTypeOK, NEW m \in Messages, state[m] = "locked", Booking!Release(m)
  PROVE  /\ Booking!BusTypeOK'
         /\ \A n \in Messages : state'[n] # "unsent" <=> state[n] # "unsent"
  BY DEF Booking!BusTypeOK, Booking!States, Booking!Release

\* The other steps of Booking.API leave the facts alone.
Aside == UNCHANGED <<paying, shipped, trailVars>> /\ failures' \in 0..MaxFailures

LEMMA TypeAside ==
  ASSUME Inv, Aside, Booking!TypeOK'
  PROVE  TypeOK'
  BY DEF Inv, Aside, TypeOK, trailVars

LEMMA QuietAside ==
  ASSUME Inv, Aside, Booking!TypeOK', UNCHANGED row, served \subseteq served',
         \A m \in Messages : state'[m] # "unsent" <=> state[m] # "unsent",
         \A w \in Workers :
           \/ pc'[w] = "idle"
           \/ pc'[w] = pc[w] /\ task'[w] = task[w] /\ loaded'[w] = loaded[w]
           \/ pc'[w] = "find" /\ task'[w] \in Messages /\ state'[task'[w]] # "unsent"
           \/ pc'[w] = "find" /\ task'[w] \in served'
  PROVE  Inv'
<1>1. Grown
  BY UnchangedGrown DEF Aside
<1>2. SentInv' /\ WorkerInv' /\ RowInv'
  BY <1>1, QuietStep
<1> QED
  BY <1>2, TypeAside DEF Inv

LEMMA CreateInv == ASSUME Inv, Aside, NEW b \in Bookings, Create(b) PROVE Inv'
<1>1. Booking!SaveBooking(b) \/ Booking!PublishBooking(b) \/ Booking!PublishBookingFails(b)
  BY DEF Create
<1>2. UNCHANGED <<row, state, deliveries, owner, served, pc, task, loaded>>
  BY <1>1 DEF Booking!SaveBooking, Booking!PublishBooking, Booking!PublishBookingFails,
              Booking!bookVars, Booking!busVars, Booking!workerVars
<1>3. Booking!TypeOK'
  BY <1>1, <1>2 DEF Booking!SaveBooking, Booking!PublishBooking, Booking!PublishBookingFails,
                    Booking!bookVars, Inv, TypeOK, Booking!TypeOK, Booking!BusTypeOK
<1> QED
  BY <1>2, <1>3, QuietAside

LEMMA FailsInv == ASSUME Inv, Aside, NEW w \in Workers, Booking!Fails(w) PROVE Inv'
<1>1. /\ Booking!BusTypeOK'
      /\ \A n \in Messages : state'[n] # "unsent" <=> state[n] # "unsent"
  <2>1. CASE task[w] \in Messages /\ Booking!LocksMessage(w, task[w])
    BY <2>1, ReleaseType DEF Booking!Fails, Booking!AbandonMessage, Booking!LocksMessage,
                             Inv, TypeOK, Booking!TypeOK
  <2>2. CASE ~(task[w] \in Messages /\ Booking!LocksMessage(w, task[w]))
    BY <2>2 DEF Booking!Fails, Booking!AbandonMessage, Inv, TypeOK, Booking!TypeOK,
                Booking!BusTypeOK, Booking!busVars
  <2> QED
    BY <2>1, <2>2
<1>2. /\ pc' = [pc EXCEPT ![w] = "idle"]
      /\ task' = [task EXCEPT ![w] = None]
      /\ loaded' = [loaded EXCEPT ![w] = Booking!NewRow]
      /\ UNCHANGED <<booked, row, request, announced, served>>
  BY DEF Booking!Fails, Booking!Rest, Booking!Goto, Booking!bookVars, Booking!createVars
<1>3. Booking!TypeOK'
  BY <1>1, <1>2, NewRowIs DEF Inv, TypeOK, Booking!TypeOK
<1>4. \A v \in Workers : \/ pc'[v] = "idle"
                         \/ pc'[v] = pc[v] /\ task'[v] = task[v] /\ loaded'[v] = loaded[v]
  BY <1>2 DEF Inv, TypeOK, Booking!TypeOK
<1> QED
  BY <1>1, <1>2, <1>3, <1>4, QuietAside

LEMMA ExpireInv == ASSUME Inv, Aside, NEW m \in Messages, Booking!Expire(m) PROVE Inv'
<1>1. /\ state[m] = "locked" /\ Booking!Release(m)
      /\ UNCHANGED <<booked, row, request, announced, served, pc, task, loaded>>
  BY DEF Booking!Expire, Booking!bookVars, Booking!createVars, Booking!workerVars
<1>2. /\ Booking!BusTypeOK'
      /\ \A n \in Messages : state'[n] # "unsent" <=> state[n] # "unsent"
  BY <1>1, ReleaseType DEF Inv, TypeOK, Booking!TypeOK
<1>3. Booking!TypeOK'
  BY <1>1, <1>2 DEF Inv, TypeOK, Booking!TypeOK
<1> QED
  BY <1>1, <1>2, <1>3, QuietAside

LEMMA CrashInv == ASSUME Inv, Aside, Booking!Crash PROVE Inv'
<1>1. /\ \A w \in Workers : pc'[w] = "idle"
      /\ UNCHANGED <<row, state, deliveries, owner, served>>
  BY DEF Booking!Crash, Booking!bookVars, Booking!busVars
<1>2. Booking!TypeOK'
  BY <1>1, NewRowIs DEF Booking!Crash, Booking!bookVars, Inv, TypeOK, Booking!TypeOK,
                        Booking!BusTypeOK
<1> QED
  BY <1>1, <1>2, QuietAside

LEMMA ReceiveInv ==
  ASSUME Inv, Aside, NEW w \in Workers, NEW m \in Messages, Booking!Receive(w, m)
  PROVE  Inv'
<1>1. /\ state[m] = "available"
      /\ state' = [state EXCEPT ![m] = "locked"]
      /\ owner' = [owner EXCEPT ![m] = w]
      /\ deliveries' = [deliveries EXCEPT ![m] = @ + 1]
      /\ pc' = [pc EXCEPT ![w] = "find"]
      /\ task' = [task EXCEPT ![w] = m]
      /\ UNCHANGED <<booked, row, request, announced, served, loaded>>
  BY DEF Booking!Receive, Booking!Lock, Booking!Goto, Booking!bookVars, Booking!createVars
<1>2. Booking!TypeOK'
  BY <1>1 DEF Inv, TypeOK, Booking!TypeOK, Booking!BusTypeOK, Booking!States, Booking!Tasks
<1>3. \A n \in Messages : state'[n] # "unsent" <=> state[n] # "unsent"
  BY <1>1 DEF Inv, TypeOK, Booking!TypeOK, Booking!BusTypeOK
<1>4. \A v \in Workers :
        \/ pc'[v] = pc[v] /\ task'[v] = task[v] /\ loaded'[v] = loaded[v]
        \/ pc'[v] = "find" /\ task'[v] \in Messages /\ state'[task'[v]] # "unsent"
  BY <1>1 DEF Inv, TypeOK, Booking!TypeOK, Booking!BusTypeOK
<1> QED
  BY <1>1, <1>2, <1>3, <1>4, QuietAside

LEMMA CompleteInv == ASSUME Inv, Aside, NEW w \in Workers, Booking!Complete(w) PROVE Inv'
<1>1. /\ task[w] \in Messages /\ state[task[w]] = "locked"
      /\ state' = [state EXCEPT ![task[w]] = "completed"]
      /\ owner' = [owner EXCEPT ![task[w]] = NoWorker]
      /\ pc' = [pc EXCEPT ![w] = "idle"]
      /\ task' = [task EXCEPT ![w] = None]
      /\ loaded' = [loaded EXCEPT ![w] = Booking!NewRow]
      /\ UNCHANGED <<booked, row, request, announced, served, deliveries>>
  BY DEF Booking!Complete, Booking!Settle, Booking!LocksMessage, Booking!Rest, Booking!Goto,
         Booking!bookVars, Booking!createVars, Inv, WorkerInv
<1>2. Booking!TypeOK'
  BY <1>1, NewRowIs DEF Inv, TypeOK, Booking!TypeOK, Booking!BusTypeOK, Booking!States
<1>3. \A n \in Messages : state'[n] # "unsent" <=> state[n] # "unsent"
  BY <1>1 DEF Inv, TypeOK, Booking!TypeOK, Booking!BusTypeOK
<1>4. \A v \in Workers : \/ pc'[v] = "idle"
                         \/ pc'[v] = pc[v] /\ task'[v] = task[v] /\ loaded'[v] = loaded[v]
  BY <1>1 DEF Inv, TypeOK, Booking!TypeOK
<1> QED
  BY <1>1, <1>2, <1>3, <1>4, QuietAside

\* A loaded row is the row of that moment.
LEMMA FindInv == ASSUME Inv, Aside, NEW w \in Workers, Booking!Find(w) PROVE Inv'
<1> DEFINE b == OrderFor[task[w]]
<1>1. task[w] \in Tasks /\ b \in Bookings
  BY OrderForType DEF Booking!Find, Inv, WorkerInv, TypeOK, Booking!TypeOK, Tasks
<1>2. /\ loaded' = [loaded EXCEPT ![w] = row[b]]
      /\ pc' = [pc EXCEPT ![w] = "save"]
      /\ UNCHANGED <<booked, row, request, announced, served, task, state, deliveries, owner>>
  BY DEF Booking!Find, Booking!WBooking, Booking!Goto, Booking!bookVars, Booking!createVars,
         Booking!busVars
<1>3. Booking!TypeOK'
  BY <1>1, <1>2 DEF Inv, TypeOK, Booking!TypeOK, Booking!BusTypeOK
<1>4. Grown
  BY <1>2, UnchangedGrown DEF Aside
<1>5. SentInv'
  BY <1>2, <1>4, GrownSound DEF Inv, SentInv
<1>6. RowInv'
  BY <1>2, <1>4, GrownRow DEF Inv, RowInv, SoundStatus, SoundPayment
<1>7. pc[w] # "idle"
  BY DEF Booking!Find
<1>8. WorkerInv'
  BY <1>1, <1>2, <1>7 DEF Inv, WorkerInv, TypeOK, Booking!TypeOK
<1> QED
  BY <1>3, <1>5, <1>6, <1>8, TypeAside DEF Inv

LEMMA SaveInv == ASSUME Inv, Aside, NEW w \in Workers, Booking!Save(w) PROVE Inv'
<1> DEFINE m == task[w]
           b == OrderFor[m]
           new == Booking!Written(Booking!Changed(m, loaded[w]), loaded[w], row[b])
<1>1. /\ pc[w] = "save" /\ m \in Messages \cup served /\ m \in Tasks /\ b \in Bookings
      /\ m \in Messages => Sound(m)
      /\ loaded[w]["PaymentID"] # None => row[b]["PaymentID"] # None \/ NullIn(served, b)
      /\ loaded[w] \in Booking!Rows /\ row[b] \in Booking!Rows
      /\ SoundStatus(b, row[b]) /\ SoundPayment(served, b, row[b])
  <2>1. pc[w] = "save"
    BY DEF Booking!Save
  <2>2. m \in Messages \cup served /\ m \in Tasks /\ (m \in Messages => state[m] # "unsent")
    BY <2>1, PutsAreNoMessages DEF Inv, WorkerInv, TypeOK, Booking!TypeOK, Tasks
  <2> QED
    BY <2>1, <2>2, OrderForType DEF Inv, WorkerInv, SentInv, RowInv, TypeOK, Booking!TypeOK
<1>2. /\ new \in Booking!Rows
      /\ row[b]["PaymentID"] # None => new["PaymentID"] # None \/ NullIn(served, b)
      /\ SoundStatus(b, new) /\ SoundPayment(served, b, new)
  BY <1>1, WrittenIsSound
<1>3. /\ row' = [row EXCEPT ![b] = new]
      /\ UNCHANGED <<booked, request, announced, served, state, deliveries, owner>>
  BY DEF Booking!Save, Booking!WBooking, Booking!createVars, Booking!busVars
<1>4. \/ /\ m \in Messages /\ pc' = [pc EXCEPT ![w] = "complete"]
         /\ UNCHANGED <<task, loaded>>
      \/ /\ pc' = [pc EXCEPT ![w] = "idle"]
         /\ task' = [task EXCEPT ![w] = None]
         /\ loaded' = [loaded EXCEPT ![w] = Booking!NewRow]
  BY DEF Booking!Save, Booking!Goto, Booking!Rest
<1>5. Booking!TypeOK'
  BY <1>1, <1>2, <1>3, <1>4, NewRowIs DEF Inv, TypeOK, Booking!TypeOK, Booking!BusTypeOK
<1>6. Grown
  BY <1>3, UnchangedGrown DEF Aside
<1>7. SentInv'
  BY <1>3, <1>6, GrownSound DEF Inv, SentInv
<1>8. RowInv'
  <2> SUFFICES ASSUME NEW c \in Bookings
               PROVE  SoundStatus(c, row[c])' /\ SoundPayment(served, c, row[c])'
    BY DEF RowInv
  <2>1. SoundStatus(c, row'[c]) /\ SoundPayment(served, c, row'[c])
    BY <1>2, <1>3 DEF Inv, RowInv, TypeOK, Booking!TypeOK
  <2> QED
    BY <2>1, <1>6, GrownRow DEF SoundStatus, SoundPayment
<1>9. WorkerInv'
  <2>1. \A c \in Bookings :
          row[c]["PaymentID"] # None => row'[c]["PaymentID"] # None \/ NullIn(served, c)
    BY <1>2, <1>3 DEF Inv, TypeOK, Booking!TypeOK
  <2> SUFFICES ASSUME NEW v \in Workers, pc'[v] # "idle"
               PROVE  /\ \/ task'[v] \in Messages /\ state'[task'[v]] # "unsent"
                         \/ task'[v] \in served'
                      /\ pc'[v] = "complete" => task'[v] \in Messages
                      /\ pc'[v] = "save" /\ loaded'[v]["PaymentID"] # None =>
                           \/ row'[OrderFor[task'[v]]]["PaymentID"] # None
                           \/ NullIn(served', OrderFor[task'[v]])
    BY DEF WorkerInv
  <2>2. /\ pc[v] # "idle" /\ task'[v] = task[v]
        /\ pc'[v] = "save" => pc[v] = "save" /\ loaded'[v] = loaded[v]
        /\ pc'[v] = "complete" => pc[v] = "complete" \/ v = w
        /\ v = w => m \in Messages
    BY <1>1, <1>3, <1>4 DEF Inv, TypeOK, Booking!TypeOK
  <2>3. task[v] \in Tasks
    BY <2>2 DEF Inv, WorkerInv, TypeOK, Booking!TypeOK, Tasks
  <2> QED
    BY <1>3, <2>1, <2>2, <2>3, OrderForType DEF Inv, WorkerInv
<1> QED
  BY <1>5, <1>7, <1>8, <1>9, TypeAside DEF Inv

\* A PUT comes with what its client likes.
LEMMA AcceptInv ==
  ASSUME Inv, Aside, NEW w \in Workers, NEW t \in Puts, Booking!Accept(w, t)
  PROVE  Inv'
<1>1. /\ served' = served \cup {t}
      /\ pc' = [pc EXCEPT ![w] = "find"]
      /\ task' = [task EXCEPT ![w] = t]
      /\ UNCHANGED <<booked, row, request, announced, loaded, state, deliveries, owner>>
  BY DEF Booking!Accept, Booking!Goto, Booking!bookVars, Booking!createVars, Booking!busVars
<1>2. Booking!TypeOK'
  BY <1>1 DEF Inv, TypeOK, Booking!TypeOK, Booking!BusTypeOK, Booking!Tasks
<1>3. \A v \in Workers :
        \/ pc'[v] = pc[v] /\ task'[v] = task[v] /\ loaded'[v] = loaded[v]
        \/ pc'[v] = "find" /\ task'[v] \in served'
  BY <1>1 DEF Inv, TypeOK, Booking!TypeOK
<1> QED
  BY <1>1, <1>2, <1>3, QuietAside

\* The steps of the other services: what they send is sound.
LEMMA SendInv ==
  ASSUME Inv, Grown, NEW m \in Messages, Sound(m)', Booking!Send(m),
         paying' \in [Payments -> {"none", "saved", "published", "failed"}],
         reported' \subseteq ShippingEvents,
         UNCHANGED <<shipped, trail, tracked, failures>>
  PROVE  Inv'
<1>1. /\ state' = [state EXCEPT ![m] = "available"]
      /\ UNCHANGED <<booked, row, request, announced, served, pc, task, loaded, deliveries, owner>>
  BY DEF Booking!Send, Booking!Put, Booking!bookVars, Booking!createVars, Booking!workerVars
<1>2. Booking!TypeOK'
  BY <1>1 DEF Inv, TypeOK, Booking!TypeOK, Booking!BusTypeOK, Booking!States
<1>3. TypeOK'
  BY <1>2 DEF Inv, TypeOK
<1>4. /\ \A n \in Messages : state[n] # "unsent" => state'[n] # "unsent"
      /\ \A n \in Messages : state'[n] # "unsent" => state[n] # "unsent" \/ Sound(n)'
  BY <1>1 DEF Inv, TypeOK, Booking!TypeOK, Booking!BusTypeOK
<1>5. SentInv' /\ WorkerInv' /\ RowInv'
  BY <1>1, <1>4, QuietStep
<1> QED
  BY <1>3, <1>5 DEF Inv

LEMMA SilentInv ==
  ASSUME Inv, Grown, UNCHANGED bookingVars, TypeOK'
  PROVE  Inv'
<1>1. SentInv' /\ WorkerInv' /\ RowInv'
  BY QuietStep DEF bookingVars
<1> QED
  BY <1>1 DEF Inv

LEMMA PaymentInv ==
  ASSUME Inv, NEW p \in Payments,
         SavePayment(p) \/ PublishPayment(p) \/ PublishPaymentFails(p)
  PROVE  Inv'
<1>0. served' = served
  BY DEF SavePayment, PublishPayment, PublishPaymentFails, bookingVars, Booking!Send
<1>1. UNCHANGED <<shipped, trail, reported, tracked, failures>>
  BY DEF SavePayment, PublishPayment, PublishPaymentFails, trailVars
<1>2. /\ paying' \in [Payments -> {"none", "saved", "published", "failed"}]
      /\ \A q \in Payments : paying[q] # "none" => paying'[q] # "none"
      /\ PublishPayment(p) => paying'[p] # "none"
  BY DEF SavePayment, PublishPayment, PublishPaymentFails, Inv, TypeOK
<1>3. Grown
  BY <1>1, <1>2, <1>0 DEF Grown, Trail!OnTrail, Subject, Tracked
<1>4. CASE PublishPayment(p)
  <2>1. p \in Messages /\ Booking!Send(p)
    BY <1>4 DEF PublishPayment, Messages
  <2>2. Sound(p)'
    BY <1>2, <1>4, EventsAssumption DEF Sound
  <2>3. reported' \subseteq ShippingEvents
    BY <1>1 DEF Inv, TypeOK
  <2> QED
    BY <1>1, <1>2, <1>3, <2>1, <2>2, <2>3, SendInv
<1>5. CASE SavePayment(p) \/ PublishPaymentFails(p)
  <2>1. UNCHANGED bookingVars
    BY <1>5 DEF SavePayment, PublishPaymentFails
  <2>2. TypeOK'
    BY <1>1, <1>2, <2>1 DEF bookingVars, Inv, TypeOK, Booking!TypeOK, Booking!BusTypeOK
  <2> QED
    BY <1>3, <2>1, <2>2, SilentInv
<1> QED
  BY <1>4, <1>5

LEMMA ShipInv == ASSUME Inv, NEW e \in ShippingEvents, Ship(e) PROVE Inv'
<1>1. UNCHANGED <<bookingVars, paying, trailVars, failures>> /\ shipped' \subseteq ShippingEvents
  BY DEF Ship, Inv, TypeOK
<1>2. Grown
  BY <1>1, UnchangedGrown DEF bookingVars
<1>3. TypeOK'
  BY <1>1 DEF bookingVars, trailVars, Inv, TypeOK, Booking!TypeOK, Booking!BusTypeOK
<1> QED
  BY <1>1, <1>2, <1>3, SilentInv

LEMMA SubjectType == ASSUME NEW e \in Tracked PROVE Subject(e) \in Bookings
  BY OrderOfAssumption DEF Tracked, Subject

\* A trail only grows.
LEMMA RecordInv == ASSUME Inv, NEW e \in Tracked, Record(e) PROVE Inv'
<1>1. /\ UNCHANGED <<bookingVars, paying, shipped, reported, tracked, failures>>
      /\ trail' = [trail EXCEPT ![Subject(e)] = Append(@, e)]
  BY DEF Record, Trail!Extend
<1>2. Subject(e) \in Bookings /\ trail \in [Bookings -> Seq(Tracked)]
  BY SubjectType DEF Inv, TypeOK
<1>3. trail' \in [Bookings -> Seq(Tracked)]
  BY <1>1, <1>2
<1>4. TypeOK'
  BY <1>1, <1>3 DEF bookingVars, Inv, TypeOK, Booking!TypeOK, Booking!BusTypeOK
<1>5. ASSUME NEW f \in ShippingEvents, Trail!OnTrail(f) PROVE Trail!OnTrail(f)'
  <2>1. f \in Tracked /\ Subject(f) \in Bookings
    BY SubjectType DEF Tracked
  <2>2. PICK i \in DOMAIN trail[Subject(f)] : trail[Subject(f)][i] = f
    BY <2>1, <1>5 DEF Trail!OnTrail
  <2>3. i \in DOMAIN trail'[Subject(f)] /\ trail'[Subject(f)][i] = f
    BY <1>1, <1>2, <2>1, <2>2
  <2> QED
    BY <2>1, <2>3 DEF Trail!OnTrail, Subject
<1>6. Grown
  BY <1>1, <1>5 DEF Grown, bookingVars
<1> QED
  BY <1>1, <1>4, <1>6, SilentInv

\* What Tracking reports is on the trail.
LEMMA ReportInv == ASSUME Inv, NEW e \in Tracked, Report(e) PROVE Inv'
<1>1. PICK m \in Reports : CauseOf[m] = e /\ Booking!Send(m)
  BY DEF Report
<1>2. /\ UNCHANGED <<trail, tracked, paying, shipped, failures>>
      /\ e \in ShippingEvents /\ reported' = reported \cup {e} /\ Trail!OnTrail(e)
  BY DEF Report, Trail!Announce
<1>3. Grown /\ Trail!OnTrail(e)'
  BY <1>1, <1>2 DEF Booking!Send, Grown, Trail!OnTrail, Subject, Tracked
<1>4. m \in Messages /\ Sound(m)'
  BY <1>1, <1>3, EventsAssumption DEF Sound, Messages
<1>5. /\ paying' \in [Payments -> {"none", "saved", "published", "failed"}]
      /\ reported' \subseteq ShippingEvents
  BY <1>2 DEF Inv, TypeOK
<1> QED
  BY <1>1, <1>2, <1>3, <1>4, <1>5, SendInv

LEMMA FinishInv == ASSUME Inv, NEW e \in Tracked, Finish(e) PROVE Inv'
<1>1. /\ UNCHANGED <<bookingVars, paying, shipped, trail, reported, failures>>
      /\ tracked' = tracked \cup {e}
  BY DEF Finish, Trail!Settle
<1>2. TypeOK'
  BY <1>1 DEF bookingVars, Inv, TypeOK, Booking!TypeOK, Booking!BusTypeOK
<1>3. Grown
  BY <1>1 DEF bookingVars, Grown, Trail!OnTrail, Subject, Tracked
<1> QED
  BY <1>1, <1>2, <1>3, SilentInv

-----------------------------------------------------------------------------
(* All steps *)

LEMMA InitInv == Init => Inv
<1> SUFFICES ASSUME Init PROVE Inv
  OBVIOUS
<1>1. Booking!Init /\ Trail!Init
  BY DEF Init
<1>2. TypeOK
  BY <1>1, NewRowIs, BoundsAssumption
     DEF Init, Booking!Init, Booking!BusInit, Trail!Init, TypeOK, Booking!TypeOK,
         Booking!BusTypeOK, Booking!States
<1>3. SentInv /\ WorkerInv
  BY <1>1 DEF Booking!Init, Booking!BusInit, SentInv, WorkerInv
<1>4. RowInv
  BY <1>1, NewRowIs DEF Booking!Init, RowInv, SoundStatus, SoundPayment
<1> QED
  BY <1>2, <1>3, <1>4 DEF Inv

LEMMA NextInv == Inv /\ [Next]_vars => Inv'
<1> SUFFICES ASSUME Inv, [Next]_vars PROVE Inv'
  OBVIOUS
<1>0. failures \in 0..MaxFailures /\ MaxFailures \in Nat
  BY BoundsAssumption DEF Inv, TypeOK
<1>1. ASSUME NEW b \in Bookings, Create(b) PROVE Inv'
  BY <1>0, <1>1, CreateInv DEF Create, Aside
<1>2. ASSUME NEW p \in Payments,
             SavePayment(p) \/ PublishPayment(p) \/ PublishPaymentFails(p)
      PROVE Inv'
  BY <1>2, PaymentInv
<1>3. ASSUME NEW e \in ShippingEvents, Ship(e) PROVE Inv'
  BY <1>3, ShipInv
<1>4. ASSUME NEW e \in Tracked, Track(e) PROVE Inv'
  BY <1>4, RecordInv, ReportInv, FinishInv DEF Track
<1>5. ASSUME NEW w \in Workers, HandleTask(w) PROVE Inv'
  <2>1. Aside /\ Booking!Work(w)
    BY <1>0, <1>5 DEF HandleTask, Aside
  <2> QED
    BY <2>1, FindInv, SaveInv, CompleteInv, FailsInv
       DEF Booking!Work, Booking!FindNothing, Booking!CompleteTooLate
<1>6. ASSUME DeliverMessage PROVE Inv'
  <2>1. Aside
    BY <1>0, <1>6 DEF DeliverMessage, Aside
  <2>2. PICK w \in Workers, m \in Messages : Booking!Receive(w, m)
    BY <1>6 DEF DeliverMessage, Booking!Deliver
  <2> QED
    BY <2>1, <2>2, ReceiveInv
<1>7. ASSUME NEW m \in Messages, FreeLock(m) PROVE Inv'
  BY <1>0, <1>7, ExpireInv DEF FreeLock, Aside
<1>8. ASSUME Fail PROVE Inv'
  <2>1. Aside
    BY <1>0, <1>8 DEF Fail, Aside
  <2>2. CASE \E w \in Workers : Booking!Error(w)
    BY <2>1, <2>2, FailsInv DEF Booking!Error
  <2>3. CASE \E m \in Messages : Booking!Expire(m)
    BY <2>1, <2>3, ExpireInv
  <2>4. CASE Booking!Crash
    BY <2>1, <2>4, CrashInv
  <2> QED
    BY <1>8, <2>2, <2>3, <2>4 DEF Fail
<1>9. CASE UNCHANGED vars
  <2>1. UNCHANGED <<bookingVars, paying, trailVars, shipped, failures>>
    BY <1>9 DEF vars
  <2>2. TypeOK'
    BY <2>1 DEF bookingVars, trailVars, Inv, TypeOK, Booking!TypeOK, Booking!BusTypeOK
  <2> QED
    BY <2>1, <2>2, UnchangedGrown, SilentInv DEF bookingVars
<1>10. ASSUME NEW w \in Workers, NEW t \in Puts, AcceptPut(w, t) PROVE Inv'
  BY <1>0, <1>10, AcceptInv DEF AcceptPut, Aside
<1> QED
  BY <1>1, <1>2, <1>3, <1>4, <1>5, <1>6, <1>7, <1>8, <1>9, <1>10 DEF Next

-----------------------------------------------------------------------------
(* Theorems *)

\* Every variable of the composed services has its type.
THEOREM TypeCorrect == Spec => []TypeOK
<1>1. Inv => TypeOK
  BY DEF Inv
<1> QED
  BY <1>1, InitInv, NextInv, PTL DEF Spec

\* The status of an order is that of a payment of it or of an event on its trail.
THEOREM StatusesAreTracked == Spec => []StatusIsTracked
<1>1. Inv => StatusIsTracked
  BY DEF Inv, RowInv, SoundStatus, StatusIsTracked
<1> QED
  BY <1>1, InitInv, NextInv, PTL DEF Spec

\* An order is completed only when Payment.API has saved a payment for it, and its payment
\* id is that of one or of a PUT.
THEOREM PaidOrdersAreCharged == Spec => []PaidIsCharged
<1>1. Inv => PaidIsCharged
  <2>1. \A b \in Bookings : NullIn(served, b) => Booking!PutsNull(b)
    BY DEF NullIn, Booking!PutsNull
  <2> QED
    BY <2>1 DEF Inv, RowInv, SoundPayment, Charged, PaidIsCharged, Settled, Booking!Paid
<1> QED
  BY <1>1, InitInv, NextInv, PTL DEF Spec

-----------------------------------------------------------------------------
(***************************************************************************)
(* The services in the composition.  Booking.API and Tracking.API behave   *)
(* in it as their own modules say, so what is proved about BookingService  *)
(* holds here: its lemmas are taken from BookingService_proofs, once its   *)
(* assumptions are shown to hold of the constants it gets.                 *)
(***************************************************************************)

Orders == INSTANCE BookingService_proofs WITH
  BookingOf <- OrderFor, KindOf <- KindFor, ValueOf <- Brings, Values <- Brought,
  Faults <- {"error", "expiry", "crash"}

\* The constants of the composition are some that BookingService allows.
LEMMA OrdersAssumptions ==
  /\ Orders!MaxDeliveriesAssumption /\ Orders!NoWorkerAssumption
  /\ Orders!BookingOfAssumption /\ Orders!KindOfAssumption /\ Orders!ValueOfAssumption
  /\ Orders!FaultsAssumption /\ Orders!TasksAssumption /\ Orders!NoneAssumption
<1>1. Orders!MaxDeliveriesAssumption /\ Orders!NoWorkerAssumption
  BY BusAssumption DEF Orders!MaxDeliveriesAssumption, Orders!NoWorkerAssumption
<1>2. Orders!BookingOfAssumption
  BY OrderForType DEF Orders!BookingOfAssumption, OrderFor, Orders!Tasks, Tasks
<1>3. Orders!KindOfAssumption
  BY EventsAssumption
     DEF Orders!KindOfAssumption, KindFor, Tasks, Orders!MessageKinds, Orders!PaymentKinds,
         Messages
<1>4. Orders!ValueOfAssumption
  <2>1. ASSUME NEW m \in Messages PROVE Brings[m] # None
    BY EventsAssumption, NoneAssumption, StatusOfAssumption, CauseOfAssumption
       DEF Brings, Messages, Tasks
  <2>2. Brings = [t \in Tasks |-> Brings[t]]
    BY DEF Brings
  <2> QED
    BY <2>1, <2>2, BroughtType DEF Orders!ValueOfAssumption, Orders!Tasks, Tasks
<1>5. Orders!FaultsAssumption /\ Orders!TasksAssumption
  BY PutsAreNoMessages
     DEF Orders!FaultsAssumption, Orders!AllFaults, Orders!TasksAssumption
<1>6. Orders!NoneAssumption
  BY NoneAssumption DEF Orders!NoneAssumption, Orders!Tasks, Messages, Brought
<1> QED BY <1>1, <1>2, <1>3, <1>4, <1>5, <1>6

LEMMA OrdersAreCompleted == Orders!OnlyCompleted
  BY EventsAssumption DEF Orders!OnlyCompleted, KindFor, Tasks, Messages

LEMMA OrdersInit == Orders!Init => Orders!Inv
  BY OrdersAssumptions, Orders!InitInv
  DEF Orders!InitInv, Orders!MaxDeliveriesAssumption, Orders!NoWorkerAssumption,
      Orders!BookingOfAssumption, Orders!KindOfAssumption, Orders!ValueOfAssumption,
      Orders!FaultsAssumption, Orders!TasksAssumption, Orders!NoneAssumption

LEMMA OrdersNext == Orders!Inv /\ [Orders!Next]_(Orders!vars) => Orders!Inv'
  BY OrdersAssumptions, OrdersAreCompleted, Orders!NextInv
  DEF Orders!NextInv, Orders!MaxDeliveriesAssumption, Orders!NoWorkerAssumption,
      Orders!BookingOfAssumption, Orders!KindOfAssumption, Orders!ValueOfAssumption,
      Orders!FaultsAssumption, Orders!TasksAssumption, Orders!NoneAssumption

\* Every step is one of Booking.API or none.
LEMMA BookingStep == [Next]_vars => [Booking!Next]_(Booking!vars)
<1> SUFFICES ASSUME Next PROVE Booking!Next \/ UNCHANGED bookingVars
  BY DEF vars, bookingVars, Booking!vars
<1>1. ASSUME NEW b \in Bookings, Create(b) PROVE Booking!Next
  BY <1>1 DEF Create, Booking!Next
<1>2. ASSUME NEW m \in Messages, Booking!Send(m) PROVE Booking!Next
  BY <1>2 DEF Booking!Next
<1>3. ASSUME NEW p \in Payments,
             SavePayment(p) \/ PublishPayment(p) \/ PublishPaymentFails(p)
      PROVE  Booking!Next \/ UNCHANGED bookingVars
  BY <1>2, <1>3 DEF SavePayment, PublishPayment, PublishPaymentFails, Messages
<1>4. ASSUME NEW e \in Tracked, Track(e) PROVE Booking!Next \/ UNCHANGED bookingVars
  BY <1>2, <1>4 DEF Track, Record, Report, Finish, Messages
<1>5. ASSUME NEW w \in Workers, HandleTask(w) PROVE Booking!Next
  BY <1>5 DEF HandleTask, Booking!Next
<1>6. CASE DeliverMessage
  BY <1>6 DEF DeliverMessage, Booking!Next
<1>7. ASSUME NEW m \in Messages, FreeLock(m) PROVE Booking!Next
  BY <1>7 DEF FreeLock, Booking!Next
<1>8. CASE Fail
  BY <1>8 DEF Fail, Booking!Next
<1>9. ASSUME NEW e \in ShippingEvents, Ship(e) PROVE UNCHANGED bookingVars
  BY <1>9 DEF Ship
<1>10. ASSUME NEW w \in Workers, NEW t \in Puts, AcceptPut(w, t) PROVE Booking!Next
  BY <1>10 DEF AcceptPut, Booking!Next
<1> QED BY <1>1, <1>3, <1>4, <1>5, <1>6, <1>7, <1>8, <1>9, <1>10 DEF Next

\* Every step is one of Tracking.API or none.
LEMMA TrailStep == [Next]_vars => [Trail!Next]_(Trail!trailVars)
<1> SUFFICES ASSUME Next PROVE Trail!Next \/ UNCHANGED trailVars
  BY DEF vars, trailVars, Trail!trailVars
<1>1. ASSUME NEW e \in Tracked, Track(e) PROVE Trail!Next
  BY <1>1 DEF Track, Record, Report, Finish, Trail!Next
<1>2. CASE \E e \in Tracked : Track(e)
  BY <1>1, <1>2
<1>3. CASE ~\E e \in Tracked : Track(e)
  BY <1>3 DEF Next, Create, SavePayment, PublishPayment, PublishPaymentFails, Ship,
              HandleTask, AcceptPut, DeliverMessage, FreeLock, Fail
<1> QED BY <1>2, <1>3

\* The composition adds nothing to the services and assumes nothing of them that
\* their own modules do not say: seen from Booking.API it is BookingService, seen from
\* Tracking.API it is OrderTrail.
THEOREM RefinesServices == Spec => Booking!Spec /\ Trail!Spec
<1>1. Init => Booking!Init /\ Trail!Init
  BY DEF Init
<1> QED
  BY <1>1, BookingStep, TrailStep, PTL DEF Spec, Booking!Spec, Trail!Spec

-----------------------------------------------------------------------------
(***************************************************************************)
(* Nothing is missed: the safety half of EventuallyConsistent.  What a     *)
(* service saved and published is waiting for Booking, or Booking has it.  *)
(* It takes three facts to follow an event through the two subscriptions:  *)
(* Tracking forgets it only when it is reported, a report was sent, and    *)
(* a message that was sent stays in the subscription until it is applied.  *)
(***************************************************************************)

\* Booking has yet to handle m, or has given up.
Waiting(m) == state[m] \in {"available", "locked", "dead"}

NothingMissed ==
  /\ \A p \in Payments : paying[p] = "published" => Waiting(p) \/ Settled(OrderOf[p])
  /\ \A e \in ShippingEvents : e \in tracked =>
       /\ Trail!OnTrail(e)
       /\ \/ \E m \in Reports : CauseOf[m] = e /\ Waiting(m)
          \/ row[OrderOf[e]]["OrderStatus"] # None

WasSent(m) == state[m] \notin {"unsent", "filtered"}

PublishedWasSent ==
  /\ \A p \in Payments : paying[p] = "published" => WasSent(p)
  /\ \A e \in reported : \E m \in Reports : CauseOf[m] = e /\ WasSent(m)

SettledIsReported ==
  \A e \in ShippingEvents : e \in tracked => Trail!OnTrail(e) /\ e \in reported

MissedInv == TypeOK /\ Orders!Inv /\ PublishedWasSent /\ SettledIsReported

\* The two instances of BookingService are one.
LEMMA SameInit == Booking!Init <=> Orders!Init
  BY DEF Booking!Init, Orders!Init, Booking!BusInit, Orders!BusInit, Booking!NewRow,
         Orders!NewRow, Booking!Columns, Orders!Columns

LEMMA SameNext == [Booking!Next]_(Booking!vars) => [Orders!Next]_(Orders!vars)
<1>1. ASSUME NEW b \in Bookings
      PROVE  /\ Booking!SaveBooking(b) <=> Orders!SaveBooking(b)
             /\ Booking!PublishBooking(b) <=> Orders!PublishBooking(b)
             /\ Booking!PublishBookingFails(b) <=> Orders!PublishBookingFails(b)
  BY DEF Booking!SaveBooking, Orders!SaveBooking, Booking!PublishBooking,
         Orders!PublishBooking, Booking!PublishBookingFails, Orders!PublishBookingFails,
         Booking!bookVars, Orders!bookVars, Booking!busVars, Orders!busVars,
         Booking!workerVars, Orders!workerVars
<1>2. ASSUME NEW m \in Messages
      PROVE  /\ Booking!Send(m) <=> Orders!Send(m)
             /\ Booking!Expire(m) <=> Orders!Expire(m)
  BY DEF Booking!Send, Orders!Send, Booking!Put, Orders!Put, Booking!Expire, Orders!Expire,
         Booking!Release, Orders!Release, Booking!bookVars, Orders!bookVars,
         Booking!createVars, Orders!createVars, Booking!workerVars, Orders!workerVars
<1>3. ASSUME NEW w \in Workers, NEW m \in Messages
      PROVE  Booking!Receive(w, m) <=> Orders!Receive(w, m)
  BY DEF Booking!Receive, Orders!Receive, Booking!Lock, Orders!Lock, Booking!Goto,
         Orders!Goto, Booking!bookVars, Orders!bookVars, Booking!createVars,
         Orders!createVars
<1>4. ASSUME NEW w \in Workers
      PROVE  /\ Booking!FindNothing(w) <=> Orders!FindNothing(w)
             /\ Booking!CompleteTooLate(w) <=> Orders!CompleteTooLate(w)
             /\ Booking!Error(w) <=> Orders!Error(w)
  <2>1. Booking!Fails(w) <=> Orders!Fails(w)
    BY DEF Booking!Fails, Orders!Fails, Booking!AbandonMessage, Orders!AbandonMessage,
           Booking!LocksMessage, Orders!LocksMessage, Booking!Release, Orders!Release,
           Booking!Rest, Orders!Rest, Booking!Goto, Orders!Goto, Booking!NewRow,
           Orders!NewRow, Booking!Columns, Orders!Columns, Booking!bookVars,
           Orders!bookVars, Booking!createVars, Orders!createVars, Booking!busVars,
           Orders!busVars
  <2>2. Booking!WBooking(w) = Orders!WBooking(w) /\ (Booking!HoldsLock(w) <=> Orders!HoldsLock(w))
    BY DEF Booking!WBooking, Orders!WBooking, Booking!HoldsLock, Orders!HoldsLock,
           Booking!LocksMessage, Orders!LocksMessage
  <2> QED
    BY <2>1, <2>2 DEF Booking!FindNothing, Orders!FindNothing, Booking!CompleteTooLate,
                      Orders!CompleteTooLate, Booking!Error, Orders!Error
<1>5. ASSUME NEW w \in Workers
      PROVE  /\ Booking!Find(w) <=> Orders!Find(w)
             /\ Booking!Complete(w) <=> Orders!Complete(w)
  BY DEF Booking!Find, Orders!Find, Booking!Complete, Orders!Complete, Booking!Settle,
         Orders!Settle, Booking!LocksMessage, Orders!LocksMessage, Booking!WBooking,
         Orders!WBooking, Booking!Rest, Orders!Rest, Booking!Goto, Orders!Goto,
         Booking!NewRow, Orders!NewRow, Booking!Columns, Orders!Columns, Booking!bookVars,
         Orders!bookVars, Booking!createVars, Orders!createVars, Booking!busVars,
         Orders!busVars
<1>6. ASSUME NEW w \in Workers PROVE Booking!Save(w) <=> Orders!Save(w)
  BY DEF Booking!Save, Orders!Save, Booking!WBooking, Orders!WBooking, Booking!Written,
         Orders!Written, Booking!Changed, Orders!Changed, Booking!Rest, Orders!Rest,
         Booking!Goto, Orders!Goto, Booking!NewRow, Orders!NewRow, Booking!Columns,
         Orders!Columns, Booking!createVars, Orders!createVars, Booking!busVars,
         Orders!busVars
<1>7. Booking!Crash <=> Orders!Crash
  BY DEF Booking!Crash, Orders!Crash, Booking!NewRow, Orders!NewRow, Booking!Columns,
         Orders!Columns, Booking!bookVars, Orders!bookVars, Booking!busVars, Orders!busVars
<1>8. Booking!vars = Orders!vars /\ Booking!vars' = Orders!vars'
  BY DEF Booking!vars, Orders!vars
<1>9. ASSUME NEW w \in Workers, NEW t \in Puts
      PROVE  Booking!Accept(w, t) <=> Orders!Accept(w, t)
  BY DEF Booking!Accept, Orders!Accept, Booking!Goto, Orders!Goto, Booking!bookVars,
         Orders!bookVars, Booking!createVars, Orders!createVars, Booking!busVars,
         Orders!busVars
<1> QED
  BY <1>1, <1>2, <1>3, <1>4, <1>5, <1>6, <1>7, <1>8, <1>9
  DEF Booking!Next, Orders!Next, Booking!Deliver, Orders!Deliver, Booking!Work, Orders!Work

\* What a step does to the subscription of Booking.
LEMMA SentStays ==
  ASSUME TypeOK, [Booking!Next]_(Booking!vars), NEW m \in Messages, WasSent(m)
  PROVE  WasSent(m)'
<1> USE DEF WasSent
<1>t. state \in [Messages -> Booking!States]
  BY DEF TypeOK, Booking!TypeOK, Booking!BusTypeOK
<1>1. ASSUME NEW n \in Messages, Booking!Release(n) PROVE WasSent(m)'
  BY <1>t, <1>1 DEF Booking!Release
<1>2. ASSUME NEW w \in Workers, Booking!Fails(w) PROVE WasSent(m)'
  BY <1>1, <1>2 DEF Booking!Fails, Booking!AbandonMessage, Booking!busVars
<1>3. ASSUME NEW n \in Messages, Booking!Send(n) \/ Booking!Expire(n) PROVE WasSent(m)'
  BY <1>t, <1>1, <1>3 DEF Booking!Send, Booking!Put, Booking!Expire
<1>4. ASSUME NEW w \in Workers, NEW n \in Messages, Booking!Receive(w, n) PROVE WasSent(m)'
  BY <1>t, <1>4 DEF Booking!Receive, Booking!Lock
<1>5. ASSUME NEW w \in Workers, Booking!Complete(w) PROVE WasSent(m)'
  BY <1>t, <1>5 DEF Booking!Complete, Booking!Settle
<1>6. ASSUME NEW w \in Workers, Booking!Work(w) \/ Booking!Error(w) PROVE WasSent(m)'
  BY <1>2, <1>5, <1>6 DEF Booking!Work, Booking!Find, Booking!FindNothing, Booking!Save,
                          Booking!CompleteTooLate, Booking!Error, Booking!busVars
<1>7. CASE UNCHANGED Booking!busVars
  BY <1>7 DEF Booking!busVars
<1> QED
  BY <1>3, <1>4, <1>6, <1>7
  DEF Booking!Next, Booking!Deliver, Booking!SaveBooking, Booking!PublishBooking,
      Booking!PublishBookingFails, Booking!Accept, Booking!Crash, Booking!vars,
      Booking!busVars

\* An event stays on its trail.
LEMMA TrailGrows ==
  ASSUME TypeOK, [Trail!Next]_(Trail!trailVars), NEW e \in ShippingEvents, Trail!OnTrail(e)
  PROVE  Trail!OnTrail(e)'
<1>1. e \in Tracked /\ Subject(e) \in Bookings
  BY SubjectType DEF Tracked
<1>2. PICK i \in DOMAIN trail[Subject(e)] : trail[Subject(e)][i] = e
  BY <1>1 DEF Trail!OnTrail
<1>3. CASE UNCHANGED trail
  BY <1>3 DEF Trail!OnTrail, Subject, Tracked
<1>4. ASSUME NEW f \in Tracked, Trail!Extend(f) PROVE Trail!OnTrail(e)'
  <2>1. trail' = [trail EXCEPT ![Subject(f)] = Append(@, f)] /\ Subject(f) \in Bookings
    BY <1>4, SubjectType DEF Trail!Extend
  <2>2. trail[Subject(e)] \in Seq(Tracked)
    BY <1>1 DEF TypeOK
  <2>3. i \in DOMAIN trail'[Subject(e)] /\ trail'[Subject(e)][i] = e
    BY <1>1, <1>2, <2>1, <2>2 DEF TypeOK
  <2> QED BY <1>1, <2>3 DEF Trail!OnTrail, Subject
<1> QED BY <1>3, <1>4 DEF Trail!Next, Trail!Announce, Trail!Settle, Trail!trailVars

LEMMA MissedInit == Init => MissedInv
<1> SUFFICES ASSUME Init PROVE MissedInv
  OBVIOUS
<1>1. TypeOK /\ Orders!Inv
  BY InitInv, SameInit, OrdersInit DEF Init, Inv
<1>2. PublishedWasSent /\ SettledIsReported
  BY DEF Init, Trail!Init, PublishedWasSent, SettledIsReported
<1> QED BY <1>1, <1>2 DEF MissedInv

LEMMA MissedNext == MissedInv /\ TypeOK' /\ [Next]_vars => MissedInv'
<1> SUFFICES ASSUME MissedInv, TypeOK', [Next]_vars PROVE MissedInv'
  OBVIOUS
<1> USE DEF MissedInv
<1>1. Orders!Inv'
  BY BookingStep, SameNext, OrdersNext
<1>2. \A m \in Messages : WasSent(m) => WasSent(m)'
  BY BookingStep, SentStays
<1>3. ASSUME NEW p \in Payments, paying'[p] = "published", paying[p] # "published"
      PROVE  WasSent(p)'
  <2>1. PublishPayment(p)
    BY <1>3 DEF Next, vars, Create, SavePayment, PublishPayment, PublishPaymentFails, Ship,
                Track, Record, Report, Finish, HandleTask, AcceptPut, DeliverMessage, FreeLock,
                Fail, TypeOK
  <2> QED
    BY <2>1 DEF PublishPayment, Booking!Send, Booking!Put, WasSent, TypeOK,
                Booking!TypeOK, Booking!BusTypeOK, Messages
<1>4. ASSUME NEW e \in reported', e \notin reported
      PROVE  \E m \in Reports : CauseOf[m] = e /\ WasSent(m)'
  <2>1. Report(e)
    BY <1>4 DEF Next, vars, trailVars, Create, SavePayment, PublishPayment,
                PublishPaymentFails, Ship, Track, Record, Report, Finish, HandleTask,
                AcceptPut, DeliverMessage, FreeLock, Fail, Trail!Extend, Trail!Announce, Trail!Settle
  <2> QED
    BY <2>1 DEF Report, Booking!Send, Booking!Put, WasSent, TypeOK, Booking!TypeOK,
                Booking!BusTypeOK, Messages
<1>5. PublishedWasSent'
  BY <1>2, <1>3, <1>4 DEF PublishedWasSent, Messages
<1>6. ASSUME NEW e \in ShippingEvents, e \in tracked' PROVE Trail!OnTrail(e)' /\ e \in reported'
  <2>1. Trail!OnTrail(e) /\ e \in reported
    <3>1. CASE e \in tracked
      BY <3>1 DEF SettledIsReported
    <3>2. CASE e \notin tracked
      <4>1. PICK f \in Tracked : Trail!Settle(f)
        BY <1>6, <3>2, TrailStep DEF Trail!Next, Trail!Extend, Trail!Announce,
                                     Trail!trailVars
      <4>2. f = e
        BY <1>6, <3>2, <4>1 DEF Trail!Settle
      <4> QED BY <4>1, <4>2 DEF Trail!Settle
    <3> QED BY <3>1, <3>2
  <2>2. reported \subseteq reported'
    BY TrailStep DEF Trail!Next, Trail!Extend, Trail!Announce, Trail!Settle, Trail!trailVars
  <2> QED BY <2>1, <2>2, TrailStep, TrailGrows
<1>7. SettledIsReported'
  BY <1>6 DEF SettledIsReported
<1> QED BY <1>1, <1>5, <1>7

LEMMA MissedProperty == MissedInv => NothingMissed
<1> SUFFICES ASSUME MissedInv PROVE NothingMissed
  OBVIOUS
<1>1. ASSUME NEW m \in Messages, WasSent(m), ~Waiting(m)
      PROVE  /\ m \in Payments => Settled(OrderOf[m])
             /\ m \in Reports => row[OrderOf[CauseOf[m]]]["OrderStatus"] # None
  <2>1. state[m] = "completed"
    BY <1>1 DEF WasSent, Waiting, MissedInv, TypeOK, Booking!TypeOK, Booking!BusTypeOK,
                Booking!States
  <2>2. Orders!Applied(served, m, row[OrderFor[m]])
    BY <2>1 DEF MissedInv, Orders!Inv, Orders!CompletedInv
  <2>3. m \in Tasks /\ m \notin Puts
    BY EventsAssumption DEF Tasks, Messages
  <2>4. CASE m \in Payments
    <3>1. KindFor[m] = "PaymentCompleted" /\ OrderFor[m] = OrderOf[m] /\ m \notin Reports
      BY <2>3, <2>4, EventsAssumption DEF KindFor, OrderFor
    <3>2. Orders!NullIn(served, OrderFor[m]) => Booking!PutsNull(OrderFor[m])
      BY DEF Orders!NullIn, Booking!PutsNull
    <3> QED
      BY <2>2, <3>1, <3>2 DEF Orders!Applied, Settled, Booking!Paid
  <2>5. CASE m \in Reports
    <3>1. /\ KindFor[m] = "OrderStatusChanged" /\ m \notin Payments
          /\ OrderFor[m] = OrderOf[CauseOf[m]]
      BY <2>3, <2>5, EventsAssumption DEF KindFor, OrderFor
    <3> QED
      BY <2>2, <3>1 DEF Orders!Applied
  <2> QED
    BY <2>4, <2>5 DEF Messages
<1>2. ASSUME NEW p \in Payments, paying[p] = "published"
      PROVE  Waiting(p) \/ Settled(OrderOf[p])
  BY <1>1, <1>2 DEF MissedInv, PublishedWasSent, Messages
<1>3. ASSUME NEW e \in ShippingEvents, e \in tracked
      PROVE  /\ Trail!OnTrail(e)
             /\ \/ \E m \in Reports : CauseOf[m] = e /\ Waiting(m)
                \/ row[OrderOf[e]]["OrderStatus"] # None
  <2>1. Trail!OnTrail(e) /\ e \in reported
    BY <1>3 DEF MissedInv, SettledIsReported
  <2>2. PICK m \in Reports : CauseOf[m] = e /\ WasSent(m)
    BY <2>1 DEF MissedInv, PublishedWasSent
  <2> QED BY <1>1, <2>1, <2>2 DEF Messages
<1> QED BY <1>2, <1>3 DEF NothingMissed

\* Whatever fails and however often: a published payment, and a shipping event that
\* Tracking has done with, is known to Booking or its message still waits there or
\* was given up.  No event gets lost on its way through the services.
THEOREM NothingIsMissed == Spec => []NothingMissed
<1>1. Spec => []TypeOK
  BY TypeCorrect
<1> QED
  BY <1>1, MissedInit, MissedNext, MissedProperty, PTL DEF Spec
=============================================================================

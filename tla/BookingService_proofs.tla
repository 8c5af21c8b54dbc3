------------------------ MODULE BookingService_proofs ------------------------
(***************************************************************************)
(* Proofs about BookingService, for any orders, messages, PUTs and         *)
(* concurrent calls: what a handler has written is never undone by another *)
(* that loaded the order before, as long as Payment reports no payment but *)
(* completed ones; only a PUT without a payment id takes one away.         *)
(***************************************************************************)
EXTENDS BookingService, TLAPS

\* PaymentService.cs, line 31: every payment that is saved is a completed one.
OnlyCompleted ==
  \A m \in Messages : KindOf[m] \in {"PaymentCompleted", "OrderStatusChanged"}

\* One of the PUTs in S is for order b and has no payment id.
NullIn(S, b) == \E t \in S : BookingOf[t] = b /\ ValueOf[t] = None

\* What row r of order b has of a payment and of a status, row s has too; the payment id
\* may be lost to a PUT in S.
Kept(S, b, r, s) ==
  /\ r["PaymentID"] # None => s["PaymentID"] # None \/ NullIn(S, b)
  /\ r["OrderStatus"] # None => s["OrderStatus"] # None
  /\ r["BookingState"] = "Completed" => s["BookingState"] = "Completed"

\* Row r shows that task t was applied to it.
Applied(S, t, r) ==
  /\ KindOf[t] = "PaymentCompleted" =>
       /\ r["PaymentID"] # None \/ NullIn(S, BookingOf[t])
       /\ r["BookingState"] = "Completed"
  /\ KindOf[t] = "OrderStatusChanged" => r["OrderStatus"] # None

-----------------------------------------------------------------------------
(* Rows *)

LEMMA ChangedType ==
  ASSUME OnlyCompleted, NEW t \in Tasks, NEW r \in Rows
  PROVE  Changed(t, r) \in Rows
<1>1. ValueOf[t] \in Values \cup {None}
  BY ValueOfAssumption
<1>2. CASE t \in Messages /\ KindOf[t] = "PaymentCompleted"
  BY <1>1, <1>2 DEF Changed, Rows, Columns, BookingStates, PaymentKinds
<1>3. CASE t \in Messages /\ KindOf[t] = "OrderStatusChanged"
  BY <1>1, <1>3 DEF Changed, Rows, Columns, BookingStates, PaymentKinds
<1>4. CASE t \in Puts
  BY <1>1, <1>4, KindOfAssumption DEF Changed, Rows, Columns, BookingStates,
                                      PaymentKinds
<1> QED
  BY <1>2, <1>3, <1>4 DEF OnlyCompleted, Tasks

LEMMA WrittenType ==
  ASSUME NEW new \in Rows, NEW old \in Rows, NEW stored \in Rows
  PROVE  Written(new, old, stored) \in Rows
  BY DEF Written, Rows

LEMMA NewRowType == NewRow \in Rows
  BY DEF NewRow, Rows, Columns, BookingStates

\* The columns that a handler writes.
LEMMA ChangedColumns ==
  ASSUME OnlyCompleted, NEW t \in Tasks, NEW r \in Rows
  PROVE  LET c == Changed(t, r) IN
           /\ c["PaymentID"] # r["PaymentID"] =>
                c["PaymentID"] # None \/ (t \in Puts /\ ValueOf[t] = None)
           /\ c["OrderStatus"] # r["OrderStatus"] => c["OrderStatus"] # None
           /\ c["BookingState"] # r["BookingState"] => c["BookingState"] = "Completed"
           /\ KindOf[t] = "PaymentCompleted" =>
                c["PaymentID"] # None /\ c["BookingState"] = "Completed"
           /\ KindOf[t] = "OrderStatusChanged" => c["OrderStatus"] # None
<1>1. t \in Messages => ValueOf[t] # None
  BY ValueOfAssumption, NoneAssumption
<1>2. "PaymentProcessed" # None
  BY NoneAssumption
<1>3. CASE t \in Messages /\ KindOf[t] = "PaymentCompleted"
  BY <1>1, <1>2, <1>3 DEF Changed, Rows, Columns
<1>4. CASE t \in Messages /\ KindOf[t] = "OrderStatusChanged"
  BY <1>1, <1>4 DEF Changed, Rows, Columns, PaymentKinds
<1>5. CASE t \in Puts
  <2>1. Changed(t, r) = [r EXCEPT !["PaymentID"] = ValueOf[t]]
    BY <1>5, KindOfAssumption DEF Changed, PaymentKinds
  <2> QED
    BY <1>5, <2>1, KindOfAssumption DEF Rows, Columns
<1> QED
  BY <1>3, <1>4, <1>5 DEF OnlyCompleted, Tasks

\* A save undoes nothing of the stored row, however old the loaded one is, unless it
\* is that of a PUT without a payment id.
LEMMA WrittenKeeps ==
  ASSUME OnlyCompleted, NEW t \in Tasks, NEW old \in Rows, NEW stored \in Rows,
         NEW S, t \in Puts /\ ValueOf[t] = None => t \in S
  PROVE  Kept(S, BookingOf[t], stored, Written(Changed(t, old), old, stored))
  BY ChangedColumns DEF Kept, NullIn, Written, Rows, Columns

\* A save takes effect, also where it writes what it loaded.
LEMMA WrittenApplies ==
  ASSUME OnlyCompleted, NEW t \in Tasks, NEW old \in Rows, NEW stored \in Rows,
         NEW S, Kept(S, BookingOf[t], old, stored)
  PROVE  Applied(S, t, Written(Changed(t, old), old, stored))
  BY ChangedColumns DEF Kept, Applied, Written, Rows, Columns

LEMMA AppliedKept ==
  ASSUME NEW S, NEW t, NEW r, NEW s, Applied(S, t, r), Kept(S, BookingOf[t], r, s)
  PROVE  Applied(S, t, s)
  BY DEF Applied, Kept

LEMMA KeptRefl == ASSUME NEW S, NEW b, NEW r PROVE Kept(S, b, r, r)
  BY DEF Kept

LEMMA KeptTrans ==
  ASSUME NEW S, NEW b, NEW r, NEW s, NEW t, Kept(S, b, r, s), Kept(S, b, s, t)
  PROVE  Kept(S, b, r, t)
  BY DEF Kept

\* More PUTs excuse more.
LEMMA MorePuts ==
  ASSUME NEW S, NEW T, S \subseteq T
  PROVE  /\ \A b, r, s : Kept(S, b, r, s) => Kept(T, b, r, s)
         /\ \A t, r : Applied(S, t, r) => Applied(T, t, r)
<1>1. \A b : NullIn(S, b) => NullIn(T, b)
  BY DEF NullIn
<1> QED
  BY <1>1 DEF Kept, Applied

-----------------------------------------------------------------------------
(* The inductive invariant *)

WorkerInv ==
  \A w \in Workers :
    /\ pc[w] # "idle" => task[w] \in Messages \cup served
    /\ pc[w] = "complete" => task[w] \in Messages
    /\ pc[w] \in {"save", "complete"} => WBooking(w) \in booked
    /\ pc[w] = "save" => Kept(served, WBooking(w), loaded[w], row[WBooking(w)])
    /\ pc[w] = "complete" => Applied(served, task[w], row[WBooking(w)])

CompletedInv ==
  \A m \in Messages :
    state[m] = "completed" => BookingOf[m] \in booked /\ Applied(served, m, row[BookingOf[m]])

CreateInv == /\ \A b \in Bookings : request[b] # "none" => b \in booked
             /\ announced \subseteq booked

Inv == TypeOK /\ WorkerInv /\ CompletedInv /\ CreateInv

LEMMA InitInv == Init => Inv
  BY NewRowType
     DEF Init, Inv, TypeOK, WorkerInv, CompletedInv, CreateInv, States, vars, BusInit,
         BusTypeOK

\* Releasing a lock completes nothing.
LEMMA ReleaseType ==
  ASSUME TypeOK, NEW m \in Messages, Release(m)
  PROVE  /\ state' \in [Messages -> States]
         /\ deliveries' \in [Messages -> Nat]
         /\ owner' \in [Messages -> Workers \cup {NoWorker}]
         /\ \A n \in Messages : state'[n] = "completed" => state[n] = "completed"
  BY DEF TypeOK, Release, States, BusTypeOK

LEMMA FailsInv ==
  ASSUME Inv, NEW w \in Workers, Fails(w)
  PROVE  Inv'
<1>1. /\ state' \in [Messages -> States]
      /\ deliveries' \in [Messages -> Nat]
      /\ owner' \in [Messages -> Workers \cup {NoWorker}]
      /\ \A n \in Messages : state'[n] = "completed" => state[n] = "completed"
  <2>1. CASE task[w] \in Messages /\ HoldsLock(w)
    BY <2>1, ReleaseType DEF Fails, HoldsLock, AbandonMessage, Inv
  <2>2. CASE ~(task[w] \in Messages /\ HoldsLock(w))
    BY <2>2 DEF Fails, HoldsLock, AbandonMessage, Inv, TypeOK, BusTypeOK, busVars
  <2> QED
    BY <2>1, <2>2
<1>2. /\ pc' = [pc EXCEPT ![w] = "idle"]
      /\ task' = [task EXCEPT ![w] = None]
      /\ loaded' = [loaded EXCEPT ![w] = NewRow]
      /\ UNCHANGED <<booked, row, request, announced, served>>
  BY DEF Fails, Rest, Goto, bookVars, createVars
<1>3. TypeOK'
  BY <1>1, <1>2, NewRowType DEF Inv, TypeOK, BusTypeOK
<1>4. WorkerInv'
  BY <1>2 DEF Inv, TypeOK, WorkerInv, WBooking
<1>5. CompletedInv' /\ CreateInv'
  BY <1>1, <1>2 DEF Inv, CompletedInv, CreateInv
<1> QED
  BY <1>3, <1>4, <1>5 DEF Inv

LEMMA SaveInv ==
  ASSUME OnlyCompleted, Inv, NEW w \in Workers, Save(w)
  PROVE  Inv'
<1> DEFINE b == WBooking(w)
           new == Written(Changed(task[w], loaded[w]), loaded[w], row[b])
<1>1. /\ task[w] \in Messages \cup served /\ task[w] \in Tasks
      /\ b \in booked /\ b \in Bookings /\ b = BookingOf[task[w]]
      /\ loaded[w] \in Rows /\ row[b] \in Rows
      /\ Kept(served, b, loaded[w], row[b])
  BY DEF Inv, Save, WorkerInv, TypeOK, WBooking, Tasks
<1>2. /\ new \in Rows
      /\ Kept(served, b, row[b], new)
      /\ Applied(served, task[w], new)
  <2>1. Changed(task[w], loaded[w]) \in Rows
    BY <1>1, ChangedType
  <2>2. task[w] \in Puts /\ ValueOf[task[w]] = None => task[w] \in served
    BY <1>1, TasksAssumption
  <2>3. new \in Rows
    BY <1>1, <2>1, WrittenType
  <2>4. Kept(served, BookingOf[task[w]], row[b], new)
    BY <1>1, <2>2, WrittenKeeps
  <2>5. Applied(served, task[w], new)
    BY <1>1, WrittenApplies
  <2> QED
    BY <1>1, <2>3, <2>4, <2>5
<1>3. row' = [row EXCEPT ![b] = new] /\ UNCHANGED <<booked, createVars, busVars, served>>
  BY DEF Save
<1>4. \/ task[w] \in Messages /\ pc' = [pc EXCEPT ![w] = "complete"] /\ UNCHANGED <<task, loaded>>
      \/ /\ pc' = [pc EXCEPT ![w] = "idle"]
         /\ task' = [task EXCEPT ![w] = None]
         /\ loaded' = [loaded EXCEPT ![w] = NewRow]
  BY DEF Save, Goto, Rest
<1>5. TypeOK'
  BY <1>1, <1>2, <1>3, <1>4, NewRowType DEF Inv, TypeOK, createVars, busVars, BusTypeOK
<1>6. ASSUME NEW c \in Bookings PROVE Kept(served, c, row[c], row'[c])
  BY <1>1, <1>2, <1>3, KeptRefl DEF Inv, TypeOK
<1>7. WorkerInv'
  <2> SUFFICES ASSUME NEW v \in Workers
               PROVE  /\ pc'[v] # "idle" => task'[v] \in Messages \cup served'
                      /\ pc'[v] = "complete" => task'[v] \in Messages
                      /\ pc'[v] \in {"save", "complete"} => WBooking(v)' \in booked'
                      /\ pc'[v] = "save" =>
                           Kept(served', WBooking(v)', loaded'[v], row'[WBooking(v)'])
                      /\ pc'[v] = "complete" => Applied(served', task'[v], row'[WBooking(v)'])
    BY DEF WorkerInv
  <2>1. CASE v = w
    BY <1>1, <1>2, <1>3, <1>4, <2>1 DEF Inv, TypeOK, WBooking
  <2>2. CASE v # w
    <3>1. pc'[v] = pc[v] /\ task'[v] = task[v] /\ loaded'[v] = loaded[v]
      BY <1>4, <2>2 DEF Inv, TypeOK
    <3>2. CASE pc[v] \in {"save", "complete"}
      <4>1. task[v] \in Tasks /\ WBooking(v) \in Bookings /\ WBooking(v)' = WBooking(v)
        BY <3>1, <3>2, BookingOfAssumption DEF Inv, WorkerInv, WBooking, TypeOK, Tasks
      <4>2. Kept(served, WBooking(v), row[WBooking(v)], row'[WBooking(v)])
        BY <4>1, <1>6
      <4>3. served' = served /\ booked' = booked
        BY <1>3
      <4>4. CASE pc[v] = "save"
        <5>1. Kept(served, WBooking(v), loaded[v], row'[WBooking(v)])
          BY <4>2, <4>4, KeptTrans DEF Inv, WorkerInv
        <5> QED
          BY <3>1, <4>1, <4>3, <4>4, <5>1 DEF Inv, WorkerInv
      <4>5. CASE pc[v] = "complete"
        <5>1. Applied(served, task[v], row'[WBooking(v)])
          BY <4>2, <4>5, AppliedKept DEF Inv, WorkerInv, WBooking
        <5> QED
          BY <3>1, <4>1, <4>3, <4>5, <5>1 DEF Inv, WorkerInv
      <4> QED
        BY <3>2, <4>4, <4>5
    <3>3. CASE pc[v] \notin {"save", "complete"}
      BY <1>3, <3>1, <3>3 DEF Inv, WorkerInv
    <3> QED
      BY <3>2, <3>3
  <2> QED
    BY <2>1, <2>2
<1>8. CompletedInv'
  BY <1>3, <1>6, AppliedKept, BookingOfAssumption DEF Inv, CompletedInv, busVars, Tasks
<1>9. CreateInv'
  BY <1>3 DEF Inv, CreateInv, createVars
<1> QED
  BY <1>5, <1>7, <1>8, <1>9 DEF Inv

LEMMA NextInv == OnlyCompleted /\ Inv /\ [Next]_vars => Inv'
<1> SUFFICES ASSUME OnlyCompleted, Inv, [Next]_vars PROVE Inv'
  OBVIOUS
<1>1. ASSUME NEW b \in Bookings,
             SaveBooking(b) \/ PublishBooking(b) \/ PublishBookingFails(b)
      PROVE Inv'
  <2>1. UNCHANGED <<row, busVars, served, workerVars>> /\ booked \subseteq booked'
    BY <1>1 DEF SaveBooking, PublishBooking, PublishBookingFails, bookVars
  <2>2. TypeOK'
    BY <1>1, <2>1 DEF SaveBooking, PublishBooking, PublishBookingFails, bookVars,
                      busVars,
                      workerVars, Inv, TypeOK, BusTypeOK
  <2>3. WorkerInv' /\ CompletedInv'
    BY <2>1 DEF Inv, WorkerInv, CompletedInv, WBooking, busVars, workerVars
  <2>4. CreateInv'
    BY <1>1 DEF SaveBooking, PublishBooking, PublishBookingFails, bookVars, Inv, TypeOK,
                CreateInv
  <2> QED
    BY <2>2, <2>3, <2>4 DEF Inv
<1>2. ASSUME NEW m \in Messages, Send(m) PROVE Inv'
  BY <1>2 DEF Send, Inv, TypeOK, States, WorkerInv, CompletedInv, CreateInv, WBooking,
              bookVars, createVars, workerVars, Put, BusTypeOK
<1>3. ASSUME NEW m \in Messages, Expire(m) PROVE Inv'
  <2>1. Release(m) /\ UNCHANGED <<bookVars, createVars, served, workerVars>>
    BY <1>3 DEF Expire
  <2>2. /\ state' \in [Messages -> States]
        /\ deliveries' \in [Messages -> Nat]
        /\ owner' \in [Messages -> Workers \cup {NoWorker}]
        /\ \A n \in Messages : state'[n] = "completed" => state[n] = "completed"
    BY <2>1, ReleaseType DEF Inv
  <2> QED
    BY <2>1, <2>2 DEF Inv, TypeOK, WorkerInv, CompletedInv, CreateInv, WBooking,
                      bookVars, createVars, workerVars, BusTypeOK
<1>4. ASSUME NEW w \in Workers, NEW m \in Messages, Receive(w, m) PROVE Inv'
  <2>1. TypeOK'
    BY <1>4 DEF Receive, Goto, Inv, TypeOK, States, Tasks, bookVars, createVars, Lock,
                BusTypeOK
  <2>2. WorkerInv'
    BY <1>4 DEF Receive, Goto, Inv, TypeOK, WorkerInv, WBooking, Tasks, bookVars
  <2>3. CompletedInv' /\ CreateInv'
    BY <1>4 DEF Receive, Inv, TypeOK, CompletedInv, CreateInv, bookVars, createVars,
                Lock, BusTypeOK
  <2> QED
    BY <2>1, <2>2, <2>3 DEF Inv
<1>5. ASSUME NEW w \in Workers, NEW t \in Puts, Accept(w, t) PROVE Inv'
  <2>1. TypeOK'
    BY <1>5 DEF Accept, Goto, Inv, TypeOK, Tasks, bookVars, createVars, busVars,
                BusTypeOK
  <2>2. WorkerInv'
    BY <1>5, MorePuts DEF Accept, Goto, Inv, TypeOK, WorkerInv, WBooking, Tasks, bookVars
  <2>3. CompletedInv' /\ CreateInv'
    BY <1>5, MorePuts DEF Accept, Inv, TypeOK, CompletedInv, CreateInv, bookVars,
                          createVars, busVars
  <2> QED
    BY <2>1, <2>2, <2>3 DEF Inv
<1>6. ASSUME NEW w \in Workers, Find(w) PROVE Inv'
  <2>1. task[w] \in Tasks /\ row[WBooking(w)] \in Rows
    BY <1>6, BookingOfAssumption DEF Find, Inv, TypeOK, WorkerInv, WBooking, Tasks
  <2>2. TypeOK'
    BY <1>6, <2>1 DEF Find, Goto, Inv, TypeOK, bookVars, createVars, busVars, BusTypeOK
  <2>3. WorkerInv'
    BY <1>6, <2>1, KeptRefl DEF Find, Goto, Inv, TypeOK, WorkerInv, WBooking, bookVars
  <2>4. CompletedInv' /\ CreateInv'
    BY <1>6 DEF Find, Inv, CompletedInv, CreateInv, bookVars, createVars, busVars
  <2> QED
    BY <2>2, <2>3, <2>4 DEF Inv
<1>7. ASSUME NEW w \in Workers, FindNothing(w) \/ CompleteTooLate(w) \/ Error(w) PROVE Inv'
  BY <1>7, FailsInv DEF FindNothing, CompleteTooLate, Error
<1>8. ASSUME NEW w \in Workers, Save(w) PROVE Inv'
  BY <1>8, SaveInv
<1>9. ASSUME NEW w \in Workers, Complete(w) PROVE Inv'
  <2>1. task[w] \in Messages /\ WBooking(w) \in booked /\ Applied(served, task[w], row[WBooking(w)])
    BY <1>9 DEF Complete, Inv, WorkerInv
  <2>2. TypeOK'
    BY <1>9, <2>1, NewRowType
       DEF Complete, Rest, Goto, Inv, TypeOK, States, bookVars, createVars, Settle,
           BusTypeOK
  <2>3. WorkerInv'
    BY <1>9 DEF Complete, Rest, Goto, Inv, TypeOK, WorkerInv, WBooking, bookVars
  <2>4. CompletedInv' /\ CreateInv'
    BY <1>9, <2>1 DEF Complete, Inv, TypeOK, CompletedInv, CreateInv, WBooking,
                      bookVars,
                      createVars, Settle, BusTypeOK
  <2> QED
    BY <2>2, <2>3, <2>4 DEF Inv
<1>10. ASSUME Crash PROVE Inv'
  <2>1. TypeOK'
    BY <1>10, NewRowType DEF Crash, Inv, TypeOK, bookVars, busVars, BusTypeOK
  <2>2. WorkerInv' /\ CompletedInv'
    BY <1>10 DEF Crash, Inv, WorkerInv, CompletedInv, bookVars, busVars
  <2>3. CreateInv'
    BY <1>10 DEF Crash, Inv, TypeOK, CreateInv, bookVars
  <2> QED
    BY <2>1, <2>2, <2>3 DEF Inv
<1>11. CASE UNCHANGED vars
  BY <1>11 DEF vars, Inv, TypeOK, WorkerInv, CompletedInv, CreateInv, WBooking,
               BusTypeOK
<1> QED
  BY <1>1, <1>2, <1>3, <1>4, <1>5, <1>6, <1>7, <1>8, <1>9, <1>10, <1>11
     DEF Next, Deliver, Work

-----------------------------------------------------------------------------
(* Theorems *)

\* Type correctness, with the invariants of the handlers.
THEOREM TypeCorrect == OnlyCompleted => (Spec => [](TypeOK /\ WorkerInv))
<1> SUFFICES ASSUME OnlyCompleted PROVE Spec => [](TypeOK /\ WorkerInv)
  OBVIOUS
<1>1. Inv => TypeOK /\ WorkerInv
  BY DEF Inv
<1>2. Inv /\ [Next]_vars => Inv'
  BY NextInv
<1> QED
  BY <1>1, <1>2, InitInv, PTL DEF Spec

\* An order that others hear of has a row.
THEOREM AnnouncedAreBooked == OnlyCompleted => (Spec => []AnnouncedIsBooked)
<1> SUFFICES ASSUME OnlyCompleted PROVE Spec => []AnnouncedIsBooked
  OBVIOUS
<1>1. Inv => AnnouncedIsBooked
  BY DEF Inv, CreateInv, AnnouncedIsBooked
<1>2. Inv /\ [Next]_vars => Inv'
  BY NextInv
<1> QED
  BY <1>1, <1>2, InitInv, PTL DEF Spec

\* The bus forgets a payment only when the order is completed and has its id, a change
\* of status only when the order has one, and nobody undoes it but a PUT without a
\* payment id.
THEOREM CompletedAreKept == OnlyCompleted => (Spec => []CompletedIsKept)
<1> SUFFICES ASSUME OnlyCompleted PROVE Spec => []CompletedIsKept
  OBVIOUS
<1>1. Inv => CompletedIsKept
  BY DEF Inv, CompletedInv, Applied, NullIn, CompletedIsKept, PutsNull, Paid
<1>2. Inv /\ [Next]_vars => Inv'
  BY NextInv
<1> QED
  BY <1>1, <1>2, InitInv, PTL DEF Spec

\* The one action that writes rows takes a payment back only for a PUT without one.
LEMMA PaymentStep ==
  OnlyCompleted /\ Inv /\ [Next]_vars =>
    \/ \A b \in Bookings : Paid(b) => /\ row'[b]["BookingState"] = "Completed"
                                      /\ Paid(b)' \/ \E w \in Workers : SavesNull(w, b)
    \/ UNCHANGED row
<1> SUFFICES ASSUME OnlyCompleted, Inv, Next, row' # row, NEW b \in Bookings, Paid(b)
             PROVE  /\ row'[b]["BookingState"] = "Completed"
                    /\ Paid(b)' \/ \E w \in Workers : SavesNull(w, b)
  BY DEF vars
<1>1. PICK w \in Workers : Save(w)
  BY DEF Next, Deliver, Work, SaveBooking, PublishBooking, PublishBookingFails, Send,
         Expire,
         Receive, Accept, Find, FindNothing, Complete, CompleteTooLate, Error, Fails, Crash,
         bookVars
<1> DEFINE new == Written(Changed(task[w], loaded[w]), loaded[w], row[WBooking(w)])
<1>2. /\ task[w] \in Messages \cup served /\ task[w] \in Tasks /\ WBooking(w) \in Bookings
      /\ loaded[w] \in Rows /\ row[WBooking(w)] \in Rows
      /\ row' = [row EXCEPT ![WBooking(w)] = new]
  BY <1>1 DEF Inv, Save, WorkerInv, TypeOK, Tasks
<1>3. CASE WBooking(w) # b
  BY <1>2, <1>3 DEF Paid, Inv, TypeOK
<1>4. CASE WBooking(w) = b /\ SavesNull(w, b)
  <2>1. Kept(Puts, b, row[b], new)
    BY <1>2, <1>4, WrittenKeeps DEF WBooking
  <2> QED
    BY <1>2, <1>4, <2>1 DEF Kept, Paid, Inv, TypeOK
<1>5. CASE WBooking(w) = b /\ ~SavesNull(w, b)
  <2>1. Kept({}, b, row[b], new)
    BY <1>1, <1>2, <1>5, WrittenKeeps DEF WBooking, SavesNull, Save
  <2> QED
    BY <1>2, <1>5, <2>1 DEF Kept, NullIn, Paid, Inv, TypeOK
<1> QED
  BY <1>3, <1>4, <1>5

\* A completed order stays completed, and only a PUT without a payment id takes the
\* id of its payment.
THEOREM PaymentsAreFinal == OnlyCompleted => (Spec => PaymentIsFinal)
<1> SUFFICES ASSUME OnlyCompleted PROVE Spec => PaymentIsFinal
  OBVIOUS
<1>1. Inv /\ [Next]_vars =>
        [\A b \in Bookings : Paid(b) => /\ row'[b]["BookingState"] = "Completed"
                                        /\ Paid(b)' \/ \E w \in Workers : SavesNull(w, b)]_row
  BY PaymentStep
<1>2. Inv /\ [Next]_vars => Inv'
  BY NextInv
<1> QED
  BY <1>1, <1>2, InitInv, PTL DEF Spec, PaymentIsFinal
=============================================================================

---------------------------- MODULE TrackingStore ----------------------------
(***************************************************************************)
(* The tracking service: two replicas of Tracking.API consume one peek-lock *)
(* subscription of the service bus and append each event they receive to   *)
(* the trail of its booking, in an event store kept in SQL Server          *)
(* (TrackingRepository).  A version is read outside the transaction that   *)
(* later writes; the write is conditional on that version (optimistic      *)
(* concurrency); a conflict, or any other exception, abandons the message, *)
(* which the bus delivers again until MaxDeliveries, then dead-letters.    *)
(***************************************************************************)
EXTENDS PeekLock, FiniteSets

\* Messages are the integration events sent to the subscription, Workers the
\* concurrent handler calls over all replicas.
CONSTANTS Bookings,       \* aggregate ids
          Replicas,       \* processes running Tracking.API
          BookingOf,      \* BookingOf[m]: the booking of message m
          KindOf,         \* KindOf[m]: the event type of message m
          ReplicaOf,      \* ReplicaOf[w]: the replica in which w runs
          Faults,         \* which of AllFaults may happen
          NoMessage

Kinds == {"BookingAdd", "PaymentProcessed", "OrderPicked", "OrderTransit",
          "OrderDelivered"}

AllFaults == {"error", "expiry", "crash"}

ASSUME BookingOfAssumption == BookingOf \in [Messages -> Bookings]
ASSUME KindOfAssumption == KindOf \in [Messages -> Kinds]
ASSUME ReplicaOfAssumption == ReplicaOf \in [Workers -> Replicas]
ASSUME FaultsAssumption == Faults \subseteq AllFaults
ASSUME NoMessageAssumption == NoMessage \notin Messages

VARIABLES
  currentVersion,  \* Tracking.CurrentVersion of a booking, 0 if it has no row
  rows,            \* table TrackingEvent
  announced,       \* messages whose OrderStatusChanged is on the topic
  pc,              \* pc[w]: the next step of worker w
  msg,             \* msg[w]: the message w handles
  original,        \* original[w]: Track.OriginalVersion in w's handler
  found            \* found[w]: the aggregate read inside w's transaction

storeVars == <<currentVersion, rows>>
workerVars == <<pc, msg, original, found>>
vars == <<state, deliveries, owner, currentVersion, rows, announced, pc, msg,
          original, found>>

Steps == {"idle", "load", "replay", "select", "write", "publish", "complete"}
Row == [id : Bookings, version : Nat \ {0}, msg : Messages]

-----------------------------------------------------------------------------
(* Helpers *)

\* The handlers that replay the whole trail (GetTrackingAsync) instead of
\* reading only the version (GetEventVersion).
Replaying == {m \in Messages : KindOf[m] \in {"OrderTransit", "OrderDelivered"}}

\* The handlers that publish OrderStatusChanged after saving.
Announcing == {m \in Messages :
                 KindOf[m] \in {"OrderPicked", "OrderTransit", "OrderDelivered"}}

RowsOf(m) == {r \in rows : r.msg = m}
Recorded(m) == RowsOf(m) # {}
History(b) == {r \in rows : r.id = b}
WBooking(w) == BookingOf[msg[w]]
HoldsLock(w) == LocksMessage(w, msg[w])

Goto(w, step) == pc' = [pc EXCEPT ![w] = step]

\* The handler returns: its locals are gone.
Rest(w) == /\ Goto(w, "idle")
           /\ msg' = [msg EXCEPT ![w] = NoMessage]
           /\ original' = [original EXCEPT ![w] = 0]
           /\ found' = [found EXCEPT ![w] = FALSE]

\* The handler of w throws.
Abandon(w) ==
  /\ AbandonMessage(w, msg[w])
  /\ Rest(w)
  /\ UNCHANGED announced

-----------------------------------------------------------------------------
Init ==
  /\ BusInit
  /\ currentVersion = [b \in Bookings |-> 0]
  /\ rows = {}
  /\ announced = {}
  /\ pc = [w \in Workers |-> "idle"]
  /\ msg = [w \in Workers |-> NoMessage]
  /\ original = [w \in Workers |-> 0]
  /\ found = [w \in Workers |-> FALSE]

\* Booking, Payment or the shipping application publishes an event.
Send(m) ==
  /\ Put(m)
  /\ UNCHANGED <<storeVars, announced, workerVars>>

\* The bus locks an available message and calls the message handler.
Receive(w, m) ==
  /\ pc[w] = "idle"
  /\ Lock(w, m)
  /\ Goto(w, "load")
  /\ msg' = [msg EXCEPT ![w] = m]
  /\ UNCHANGED <<storeVars, announced, original, found>>

\* GetEventVersion: one query.  No row is a new Track, of version 0.
GetEventVersion(w) ==
  /\ pc[w] = "load"
  /\ msg[w] \notin Replaying
  /\ original' = [original EXCEPT ![w] = currentVersion[WBooking(w)]]
  /\ Goto(w, "select")
  /\ UNCHANGED <<busVars, storeVars, announced, msg, found>>

\* GetTrackingAsync, first query: is there an aggregate?
GetTracking(w) ==
  /\ pc[w] = "load"
  /\ msg[w] \in Replaying
  /\ IF currentVersion[WBooking(w)] = 0
       THEN /\ original' = [original EXCEPT ![w] = 0]
            /\ Goto(w, "select")
       ELSE /\ Goto(w, "replay")
            /\ UNCHANGED original
  /\ UNCHANGED <<busVars, storeVars, announced, msg, found>>

\* Mutant: the replayed events are counted from zero.
ReplayFromZero(w) ==
  /\ pc[w] = "replay"
  /\ original' = [original EXCEPT ![w] = Cardinality(History(WBooking(w))) - 1]
  /\ Goto(w, "select")
  /\ UNCHANGED <<busVars, storeVars, announced, msg, found>>

\* GetTrackingAsync, second query: the version is the number of events replayed.
Replay(w) ==
  /\ pc[w] = "replay"
  /\ original' = [original EXCEPT ![w] = Cardinality(History(WBooking(w)))]
  /\ Goto(w, "select")
  /\ UNCHANGED <<busVars, storeVars, announced, msg, found>>

\* SaveTrackingAsync opens its transaction and reads the aggregate.  The
\* isolation level is the default one: another transaction may commit between
\* this read and the write.
SelectAggregate(w) ==
  /\ pc[w] = "select"
  /\ found' = [found EXCEPT ![w] = currentVersion[WBooking(w)] # 0]
  /\ Goto(w, "write")
  /\ UNCHANGED <<busVars, storeVars, announced, msg, original>>

\* Mutant: the handler keeps the version of a Track that handled one event,
\* without "Version = OriginalVersion + 1".
NewVersionOfEmptyTrack(w) == 1

\* The version the handler passes as newVersion.
NewVersion(w) == original[w] + 1

\* Mutant: an update without the version, tables without a primary key.
CanSaveUnchecked(w) == TRUE

\* The writes succeed: the update matches a row, or the insert meets no
\* primary key; and no event has the key of the new one.
CanSave(w) ==
  /\ IF found[w] THEN currentVersion[WBooking(w)] = original[w]
                 ELSE currentVersion[WBooking(w)] = 0
  /\ \A r \in History(WBooking(w)) : r.version # original[w] + 1

\* Mutant: the event is numbered before the counter is incremented.
CommitSaveFromZero(w) ==
  /\ pc[w] = "write"
  /\ CanSave(w)
  /\ currentVersion' = [currentVersion EXCEPT ![WBooking(w)] = NewVersion(w)]
  /\ rows' = rows \cup
       {[id |-> WBooking(w), version |-> original[w], msg |-> msg[w]]}
  /\ Goto(w, IF msg[w] \in Announcing THEN "publish" ELSE "complete")
  /\ UNCHANGED <<busVars, announced, msg, original, found>>

\* Mutant: no handler publishes OrderStatusChanged.
CommitSaveSilently(w) ==
  /\ pc[w] = "write"
  /\ CanSave(w)
  /\ currentVersion' = [currentVersion EXCEPT ![WBooking(w)] = NewVersion(w)]
  /\ rows' = rows \cup
       {[id |-> WBooking(w), version |-> original[w] + 1, msg |-> msg[w]]}
  /\ Goto(w, "complete")
  /\ UNCHANGED <<busVars, announced, msg, original, found>>

CommitSave(w) ==
  /\ pc[w] = "write"
  /\ CanSave(w)
  /\ currentVersion' = [currentVersion EXCEPT ![WBooking(w)] = NewVersion(w)]
  /\ rows' = rows \cup
       {[id |-> WBooking(w), version |-> original[w] + 1, msg |-> msg[w]]}
  /\ Goto(w, IF msg[w] \in Announcing THEN "publish" ELSE "complete")
  /\ UNCHANGED <<busVars, announced, msg, original, found>>

\* Mutant: the handler logs the exception and does not throw it again.
RejectSaveSwallowed(w) ==
  /\ pc[w] = "write"
  /\ ~CanSave(w)
  /\ Goto(w, "complete")
  /\ UNCHANGED <<busVars, storeVars, announced, msg, original, found>>

\* "Concurency Exception", or a primary key that exists: rolled back, thrown.
RejectSave(w) ==
  /\ pc[w] = "write"
  /\ ~CanSave(w)
  /\ Abandon(w)
  /\ UNCHANGED storeVars

\* The handler publishes OrderStatusChanged.
Publish(w) ==
  /\ pc[w] = "publish"
  /\ announced' = announced \cup {msg[w]}
  /\ Goto(w, "complete")
  /\ UNCHANGED <<busVars, storeVars, msg, original, found>>

\* The message handler completes the message while it holds its lock.
Complete(w) ==
  /\ pc[w] = "complete"
  /\ Settle(w, msg[w])
  /\ Rest(w)
  /\ UNCHANGED <<storeVars, announced>>

\* CompleteAsync with a lost lock throws, and so does the abandon after it.
CompleteTooLate(w) ==
  /\ pc[w] = "complete"
  /\ ~HoldsLock(w)
  /\ Abandon(w)
  /\ UNCHANGED storeVars

-----------------------------------------------------------------------------
(* Faults *)

\* Mutant: the handler is called again, under the same delivery.
ErrorRetried(w) ==
  /\ "error" \in Faults
  /\ pc[w] # "idle"
  /\ Goto(w, "load")
  /\ UNCHANGED <<busVars, storeVars, announced, msg, original, found>>

\* A query, the publishing or the completing throws; a transaction in
\* progress is rolled back.
Error(w) ==
  /\ "error" \in Faults
  /\ pc[w] # "idle"
  /\ Abandon(w)
  /\ UNCHANGED storeVars

\* The lock of a message expires: in the prefetch buffer, under a slow handler
\* (which goes on), or after the process that held it died.
Expire(m) ==
  /\ state[m] = "locked"
  /\ "expiry" \in Faults \/ msg[owner[m]] # m
  /\ Release(m)
  /\ UNCHANGED <<storeVars, announced, workerVars>>

\* A replica dies with all its handlers; Kubernetes starts it again.
Crash(p) ==
  /\ "crash" \in Faults
  /\ \E w \in Workers : ReplicaOf[w] = p /\ pc[w] # "idle"
  /\ pc' = [w \in Workers |-> IF ReplicaOf[w] = p THEN "idle" ELSE pc[w]]
  /\ msg' = [w \in Workers |-> IF ReplicaOf[w] = p THEN NoMessage ELSE msg[w]]
  /\ original' = [w \in Workers |-> IF ReplicaOf[w] = p THEN 0 ELSE original[w]]
  /\ found' = [w \in Workers |-> IF ReplicaOf[w] = p THEN FALSE ELSE found[w]]
  /\ UNCHANGED <<busVars, storeVars, announced>>

-----------------------------------------------------------------------------
Work(w) == \/ GetEventVersion(w) \/ GetTracking(w) \/ Replay(w)
           \/ SelectAggregate(w) \/ CommitSave(w) \/ RejectSave(w)
           \/ Publish(w) \/ Complete(w) \/ CompleteTooLate(w)

Deliver == \E w \in Workers, m \in Messages : Receive(w, m)

Next == \/ \E m \in Messages : Send(m) \/ Expire(m)
        \/ Deliver
        \/ \E w \in Workers : Work(w) \/ Error(w)
        \/ \E p \in Replicas : Crash(p)

Spec == Init /\ [][Next]_vars

\* A started handler goes on (its thread is scheduled); the bus delivers what
\* is available to an idle worker; the lock of a dead worker expires.  No
\* fairness for the senders or for the faults.
Fairness == /\ \A w \in Workers : WF_vars(Work(w))
            /\ WF_vars(Deliver)
            /\ \A m \in Messages : WF_vars(Expire(m) /\ msg[owner[m]] # m)

FairSpec == Spec /\ Fairness

-----------------------------------------------------------------------------
(* Properties *)

\* Every variable has its type.
TypeOK ==
  /\ BusTypeOK
  /\ currentVersion \in [Bookings -> Nat]
  /\ rows \subseteq Row
  /\ IsFiniteSet(rows)
  /\ announced \subseteq Messages
  /\ pc \in [Workers -> Steps]
  /\ msg \in [Workers -> Messages \cup {NoMessage}]
  /\ original \in [Workers -> Nat]
  /\ found \in [Workers -> BOOLEAN]

\* The trail of a booking has no hole, no version used twice and no version
\* beyond the aggregate's, whatever handlers raced for it: the events of b have
\* exactly the versions 1 to CurrentVersion (TrackingRepository.SaveTracking).
TrailContiguous ==
  /\ \A r \in rows : r.version <= currentVersion[r.id]
  /\ \A b \in Bookings : \A v \in 1..currentVersion[b] :
       \E r \in rows : r.id = b /\ r.version = v
  /\ \A r, s \in rows : r.id = s.id /\ r.version = s.version => r = s

\* No event is lost: the bus forgets a message only when its event is on the
\* trail and, if its handler announces, the change of status is published,
\* although the lock may have passed between workers in the meantime.
CompletedIsDone ==
  \A m \in Messages : state[m] = "completed" =>
    Recorded(m) /\ (m \in Announcing => m \in announced)

\* Booking never hears of a status that the trail does not have.
AnnouncedIsRecorded == \A m \in announced : Recorded(m)

\* At-least-once delivery duplicates an event on the trail, but at most once
\* for every delivery: a handler that conflicts or dies leaves nothing behind.
OneRowPerDelivery == \A m \in Messages : Cardinality(RowsOf(m)) <= deliveries[m]

\* The trail is a log: no step removes or rewrites an event, and none moves
\* a version back or appends two events at once.
AppendOnly == [][/\ rows \subseteq rows'
                 /\ Cardinality(rows') <= Cardinality(rows) + 1
                 /\ \A b \in Bookings : currentVersion'[b] >= currentVersion[b]
                ]_<<rows, currentVersion>>

\* A sent message does not stay in the subscription: whatever faults occur,
\* it is in the end completed or dead-lettered.
EverySentIsSettled ==
  \A m \in Messages :
    state[m] = "available" ~> state[m] \in {"completed", "dead"}

\* Conflicts alone never exhaust the deliveries of a message: every rejected
\* save is paid for by another message's commit.  Holds without faults when
\* a booking has at most MaxDeliveries messages.
ConflictsNeverDrop == \A m \in Messages : state[m] # "dead"

\* README.md, line 40: "Every event raised in the system is consumed by
\* tracking API ... So we have track of all the events that are raised".  Holds
\* without faults; a message whose handler fails MaxDeliveries times is lost.
EverySentIsRecorded ==
  \A m \in Messages : state[m] = "available" ~> Recorded(m)

-----------------------------------------------------------------------------
(* Refinement: the rows of a booking, in the order of their versions *)

EventAt(b, v) == (CHOOSE r \in rows : r.id = b /\ r.version = v).msg
TrailOf(b) == [v \in 1..currentVersion[b] |-> EventAt(b, v)]

Trail == INSTANCE OrderTrail WITH
           trail <- [b \in Bookings |-> TrailOf(b)],
           settled <- {m \in Messages : state[m] = "completed"}

\* The service implements the append-only log of OrderTrail.
ImplementsOrderTrail == Trail!Spec
=============================================================================

------------------------------- MODULE Outbox -------------------------------
(***************************************************************************)
(* The outbox of Booking.API: every request runs in a transaction          *)
(* (TransactionBehaviour) that saves the order and, in the same database,  *)
(* the event about it (IntegrationEventLogService).  After its commit the  *)
(* request publishes whatever it finds pending in the log, its own event   *)
(* or another's, one after the other.                                      *)
(* The repository registers none of this; what stands here is the library  *)
(* with a CreateBookingCommandHandler that logs BookingAdd through it, as   *)
(* README.md, line 155, intends.                                           *)
(***************************************************************************)
EXTENDS Naturals, FiniteSets

CONSTANTS Orders,     \* order ids, each also the BookingAdd about it
          NoOrder,    \* of a request that creates no order
          Requests,   \* the requests that can run at the same time
          Replicas,   \* replicas of Booking.API
          ReplicaOf,  \* ReplicaOf[r]: the replica that handles request r
          Faults,     \* which of AllFaults may happen
          MaxFaults   \* bound of the instance: how many faults happen

AllFaults == {"database", "bus", "crash"}

ASSUME OrdersAssumption == NoOrder \notin Orders
ASSUME RequestsAssumption == IsFiniteSet(Requests) /\ ReplicaOf \in [Requests -> Replicas]
ASSUME FaultsAssumption == Faults \subseteq AllFaults /\ MaxFaults \in Nat

VARIABLES
  stage,    \* stage[r]: where request r is; "idle" also stands for the next request
  order,    \* order[r]: the order its command creates
  batch,    \* batch[r]: the entries it retrieved and has not taken up
  current,  \* current[r]: the entry it publishes
  booked,   \* table Bookings
  log,      \* log[o]: State of the entry about order o in table IntegrationEventLog
  sent,     \* sent[o]: how many times the event is on the topic
  faults    \* the number of faults so far

requestVars == <<stage, order, batch, current>>
vars == <<requestVars, booked, log, sent, faults>>

EventStateEnum == {"NotPublished", "InProgress", "Published", "PublishedFailed"}
InTransaction == {"begun", "added", "logged"}
Publishing == {"inProgress", "sent", "failing"}
Stages == {"idle", "committed", "retrieved"} \cup InTransaction \cup Publishing

Init ==
  /\ stage = [r \in Requests |-> "idle"]
  /\ order = [r \in Requests |-> NoOrder]
  /\ batch = [r \in Requests |-> {}]
  /\ current = [r \in Requests |-> NoOrder]
  /\ booked = {}
  /\ log = [o \in Orders |-> "none"]
  /\ sent = [o \in Orders |-> 0]
  /\ faults = 0

MoveTo(r, s) == stage' = [stage EXCEPT ![r] = s]

\* UpdateEventStatus: no token guards the row, the last writer wins.
UpdateEventStatus(e, state) == log' = [log EXCEPT ![e] = state]

Fault(f) == /\ f \in Faults
            /\ faults < MaxFaults
            /\ faults' = faults + 1

-----------------------------------------------------------------------------
(* The transaction *)

\* A command or a query comes in; a command that creates an order makes a new id.
Begin(r, o) ==
  /\ stage[r] = "idle"
  /\ o \notin booked
  /\ o # NoOrder => \A q \in Requests : order[q] # o
  /\ MoveTo(r, "begun")
  /\ order' = [order EXCEPT ![r] = o]
  /\ UNCHANGED <<batch, current, booked, log, sent, faults>>

\* The repository adds the order; nobody sees it before the commit.
AddOrder(r) ==
  /\ stage[r] = "begun"
  /\ order[r] # NoOrder
  /\ MoveTo(r, "added")
  /\ UNCHANGED <<order, batch, current, booked, log, sent, faults>>

\* Mutant: the event is saved at once, outside the transaction.
SaveEventAtOnce(r) ==
  /\ stage[r] = "added"
  /\ MoveTo(r, "logged")
  /\ UpdateEventStatus(order[r], "NotPublished")
  /\ UNCHANGED <<order, batch, current, booked, sent, faults>>

\* The event is saved in the transaction of the order.
SaveEvent(r) ==
  /\ stage[r] = "added"
  /\ MoveTo(r, "logged")
  /\ UNCHANGED <<order, batch, current, booked, log, sent, faults>>

\* Both become visible together.  A request that creates nothing commits nothing.
CommitRows(r) ==
  IF order[r] = NoOrder
    THEN stage[r] = "begun" /\ UNCHANGED <<booked, log>>
    ELSE /\ stage[r] = "logged"
         /\ booked' = booked \cup {order[r]}
         /\ UpdateEventStatus(order[r], "NotPublished")

Commit(r) ==
  /\ CommitRows(r)
  /\ MoveTo(r, "committed")
  /\ UNCHANGED <<order, batch, current, sent, faults>>

\* The request ends, with its answer or with an exception.
End(r) == /\ MoveTo(r, "idle")
          /\ order' = [order EXCEPT ![r] = NoOrder]
          /\ batch' = [batch EXCEPT ![r] = {}]
          /\ current' = [current EXCEPT ![r] = NoOrder]

\* A query or a save fails and the transaction is rolled back.
Rollback(r) ==
  /\ Fault("database")
  /\ stage[r] \in InTransaction
  /\ End(r)
  /\ UNCHANGED <<booked, log, sent>>

\* The connection breaks under the commit, after it was done.
CommitUnknown(r) ==
  /\ Fault("database")
  /\ CommitRows(r)
  /\ End(r)
  /\ UNCHANGED sent

-----------------------------------------------------------------------------
(* PublishEventsThroughEventBusAsync *)

\* Mutant: only the request's own event.
RetrieveOwn(r) ==
  /\ stage[r] = "committed"
  /\ MoveTo(r, "retrieved")
  /\ batch' = [batch EXCEPT ![r] = {e \in Orders : e = order[r] /\ log[e] = "NotPublished"}]
  /\ UNCHANGED <<order, current, booked, log, sent, faults>>

\* Mutant: only one event at a time.
RetrieveOne(r) ==
  /\ stage[r] = "committed"
  /\ MoveTo(r, "retrieved")
  /\ \E pending \in {{}} \cup {{e} : e \in Orders} :
       /\ pending = {} <=> \A e \in Orders : log[e] # "NotPublished"
       /\ \A e \in pending : log[e] = "NotPublished"
       /\ batch' = [batch EXCEPT ![r] = pending]
  /\ UNCHANGED <<order, current, booked, log, sent, faults>>

\* Mutant: also what another request publishes, lest it be stuck.
RetrieveInProgress(r) ==
  /\ stage[r] = "committed"
  /\ MoveTo(r, "retrieved")
  /\ batch' = [batch EXCEPT ![r] = {e \in Orders : log[e] \in {"NotPublished", "InProgress"}}]
  /\ UNCHANGED <<order, current, booked, log, sent, faults>>

\* RetrieveEventLogsPendingToPublishAsync.
Retrieve(r) ==
  /\ stage[r] = "committed"
  /\ MoveTo(r, "retrieved")
  /\ batch' = [batch EXCEPT ![r] = {e \in Orders : log[e] = "NotPublished"}]
  /\ UNCHANGED <<order, current, booked, log, sent, faults>>

RetrieveFails(r) ==
  /\ Fault("database")
  /\ stage[r] = "committed"
  /\ End(r)
  /\ UNCHANGED <<booked, log, sent>>

\* The loop takes up the next entry.  The code goes by CreationTime; any order here,
\* since no property compares events of different orders.
TakeUp(r, e) == /\ stage[r] = "retrieved"
                /\ e \in batch[r]
                /\ batch' = [batch EXCEPT ![r] = @ \ {e}]
                /\ current' = [current EXCEPT ![r] = e]

\* MarkEventAsInProgressAsync, whatever the state of the entry is by now.
MarkInProgress(r, e) ==
  /\ TakeUp(r, e)
  /\ MoveTo(r, "inProgress")
  /\ UpdateEventStatus(e, "InProgress")
  /\ UNCHANGED <<order, booked, sent, faults>>

MarkInProgressFails(r, e) ==
  /\ Fault("database")
  /\ TakeUp(r, e)
  /\ MoveTo(r, "failing")
  /\ UNCHANGED <<order, booked, log, sent>>

Publish(r) ==
  /\ stage[r] = "inProgress"
  /\ sent' = [sent EXCEPT ![current[r]] = @ + 1]
  /\ MoveTo(r, "sent")
  /\ UNCHANGED <<order, batch, current, booked, log, faults>>

\* Publish throws, or MarkEventAsPublishedAsync does.
PublishFails(r) ==
  /\ \/ stage[r] = "inProgress" /\ Fault("bus")
     \/ stage[r] = "sent" /\ Fault("database")
  /\ MoveTo(r, "failing")
  /\ UNCHANGED <<order, batch, current, booked, log, sent>>

\* The loop goes on with the next entry.
NextEntry(r) == /\ MoveTo(r, "retrieved")
                /\ current' = [current EXCEPT ![r] = NoOrder]

\* MarkEventAsPublishedAsync.
MarkPublished(r) ==
  /\ stage[r] = "sent"
  /\ UpdateEventStatus(current[r], "Published")
  /\ NextEntry(r)
  /\ UNCHANGED <<order, batch, booked, sent, faults>>

\* MarkEventAsFailedAsync, in the catch.
MarkFailed(r) ==
  /\ stage[r] = "failing"
  /\ UpdateEventStatus(current[r], "PublishedFailed")
  /\ NextEntry(r)
  /\ UNCHANGED <<order, batch, booked, sent, faults>>

\* Mutant: what the loop leaves behind is not forgotten with the request.
MarkFailedFailsInLoop(r) ==
  /\ Fault("database")
  /\ stage[r] = "failing"
  /\ MoveTo(r, "idle")
  /\ order' = [order EXCEPT ![r] = NoOrder]
  /\ current' = [current EXCEPT ![r] = NoOrder]
  /\ UNCHANGED <<batch, booked, log, sent>>

\* An exception in the catch ends the loop and the request; the commit stands.
MarkFailedFails(r) ==
  /\ Fault("database")
  /\ stage[r] = "failing"
  /\ End(r)
  /\ UNCHANGED <<booked, log, sent>>

Finish(r) ==
  /\ stage[r] = "retrieved"
  /\ batch[r] = {}
  /\ End(r)
  /\ UNCHANGED <<booked, log, sent, faults>>

\* A replica dies with its requests; the database rolls their transactions back.
Crash(p) ==
  /\ Fault("crash")
  /\ \E r \in Requests : ReplicaOf[r] = p /\ stage[r] # "idle"
  /\ LET Dead(r) == ReplicaOf[r] = p
     IN  /\ stage' = [r \in Requests |-> IF Dead(r) THEN "idle" ELSE stage[r]]
         /\ order' = [r \in Requests |-> IF Dead(r) THEN NoOrder ELSE order[r]]
         /\ batch' = [r \in Requests |-> IF Dead(r) THEN {} ELSE batch[r]]
         /\ current' = [r \in Requests |-> IF Dead(r) THEN NoOrder ELSE current[r]]
  /\ UNCHANGED <<booked, log, sent>>

-----------------------------------------------------------------------------
Transaction(r) == AddOrder(r) \/ SaveEvent(r) \/ Commit(r)
PublishEvents(r) == \/ Retrieve(r) \/ Publish(r) \/ MarkPublished(r) \/ MarkFailed(r) \/ Finish(r)
                    \/ \E e \in Orders : MarkInProgress(r, e)
Failure(r) == \/ Rollback(r) \/ CommitUnknown(r) \/ RetrieveFails(r) \/ PublishFails(r)
              \/ MarkFailedFails(r) \/ \E e \in Orders : MarkInProgressFails(r, e)

Next == \/ \E r \in Requests : \E o \in Orders \cup {NoOrder} : Begin(r, o)
        \/ \E r \in Requests : Transaction(r) \/ PublishEvents(r) \/ Failure(r)
        \/ \E p \in Replicas : Crash(p)

Spec == Init /\ [][Next]_vars

\* A request that has begun goes on.  Nothing makes another one begin.
Fairness == \A r \in Requests : WF_vars(Transaction(r) \/ PublishEvents(r))

FairSpec == Spec /\ Fairness

-----------------------------------------------------------------------------
(* Properties *)

\* Every variable has its type; a request publishes an entry or holds entries only
\* while it is in the loop.
TypeOK ==
  /\ stage \in [Requests -> Stages]
  /\ order \in [Requests -> Orders \cup {NoOrder}]
  /\ batch \in [Requests -> SUBSET Orders]
  /\ current \in [Requests -> Orders \cup {NoOrder}]
  /\ booked \subseteq Orders
  /\ log \in [Orders -> EventStateEnum \cup {"none"}]
  /\ sent \in [Orders -> Nat]
  /\ faults \in 0..MaxFaults
  /\ \A r \in Requests :
       /\ current[r] # NoOrder <=> stage[r] \in Publishing
       /\ batch[r] # {} => stage[r] \in {"retrieved"} \cup Publishing

\* The other services hear of an order only if it is in the database: no rollback
\* and no crash leaves a published event without its order.
PublishedIsBooked == \A o \in Orders : sent[o] > 0 => o \in booked

\* Requests that overwrite each other's states of an entry do no harm by themselves:
\* if nothing failed and no request runs, every order's event is on the topic and
\* its entry says so.
QuietIsPublished ==
  faults = 0 /\ (\A r \in Requests : stage[r] = "idle") =>
    \A o \in booked : sent[o] > 0 /\ log[o] = "Published"

\* An event is published again only by requests that retrieved it before any of them
\* had marked it: at most as many times as requests can run at once, whatever fails.
RepeatsAreConcurrent == \A o \in Orders : sent[o] <= Cardinality(Requests)

\* No committed event is overlooked: if its own request dies or breaks off before it gets to
\* the event, those that come later take it up, be they lookups, which pass through
\* TransactionBehaviour as all requests do.  Nothing else would: if no request comes, the
\* event waits.
RequestsCome == []<><<\E r \in Requests : Begin(r, NoOrder)>>_vars
EveryEventIsTakenUp ==
  RequestsCome => \A o \in Orders : log[o] = "NotPublished" ~> log[o] # "NotPublished"
=============================================================================

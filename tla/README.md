# MicroCouriers in TLA+

MicroCouriers books, pays and tracks courier orders. This directory models the
parts of it that decide what becomes of an order, checks the models with TLC and
proves the most important properties with TLAPS. `src/` below is the repository;
the C# projects are under `src/src/`.

## 1. Inventory

| Part | State it keeps | Operations | Talks to | Model |
|---|---|---|---|---|
| Web gateway (`Web/MicroCourier.Web`) | per replica and API: a circuit breaker; per request: its attempts | POST booking, POST payment, GET history, GET booking, all of them through retry (2) around a breaker (5 failures, 30 s) | the three APIs, HTTP | `Gateway` |
| Booking.API (`Services/Booking`) | table of orders, one row each | create (save, publish `BookingAdd`), PUT, handlers of `PaymentProcessed` and `OrderStatusChanged` | bus | `BookingService` |
| Payment.API (`Services/Payment`) | table of payments | `AddAsync` (save, publish `PaymentProcessed`) | bus | `Gateway` |
| Tracking.API, write side (`Services/Tracking`) | event store: `Tracking` (current version) and `TrackingEvent` (rows) | five event handlers: read version, append conditionally, publish `OrderStatusChanged` | bus, SQL Server | `TrackingStore`, `OrderTrail` |
| Tracking.API, read side | none of its own | `FindByIdAsync`: cache, else trail, then fill the cache | Redis, SQL Server | `ReadModel` |
| Azure function (`Services/ReadProjections`) | none of its own | append one event to the cached history | bus, Redis | `ReadModel` |
| Bus client (`BuildingBlocks/EventBus*`) | rules of the subscription; in-memory registry of handlers | construct (starts the pump), `Subscribe`, `Publish`, `ProcessEvent` | Azure Service Bus | `Subscriptions` |
| Azure Service Bus | messages with a lock and a delivery count | deliver, complete, abandon, expire, dead-letter | everyone | `PeekLock` (external) |
| Outbox (`IntegrationEventLogEF`, `TransactionBehaviour`) | log of events | in each request's transaction: save the event; after it: retrieve, mark, publish, mark | database, bus; no service registers it | `Outbox` |
| Start-up of Tracking.API (`EnsureDatabase`) | database and tables of the event store | open, create the database, create the tables, each under a retry policy | SQL Server | `StartUp` |
| Start-up of Booking.API, Payment.API | – | `Database.Migrate()` under a retry policy | SQL Server | not modelled |
| Shipping simulation | none | a clerk publishes status events by hand | bus | `OrderLifecycle` |
| Shipping service, user interface | – | skeleton; views | – | not modelled |

An order goes through the system like this: the gateway posts it to Booking.API,
which saves it and publishes `BookingAdd`; the payment goes the same way through
Payment.API; the shipping simulation publishes `OrderPicked`, `OrderTransit`,
`OrderDelivered`. Tracking.API appends every event to the trail of its booking and
publishes `OrderStatusChanged` for the last three; Booking.API changes its row
on `PaymentProcessed` and `OrderStatusChanged`; the Azure function adds every event
to a cached history, which the gateway shows to the user.

What is hard in it, and what the models are made to show:

* **races for a trail**: two replicas with up to 20 calls each append to the same
  trail; a version is read outside of the transaction that uses it;
* **races for a row**: handlers of one order load and save it without a
  concurrency token; Entity Framework writes only the columns that changed;
* **at-least-once delivery**: locks expire under running handlers, processes die
  between any two steps, an exception means redelivery at once, a message is
  dead-lettered when its deliveries are used up;
* **two writes, no transaction**: save and publish, in booking, payment and tracking;
* **retries and breakers** around POSTs that are not idempotent, with breakers that
  outlive the requests they count;
* **requests that publish each other's events** and overwrite the states of log entries;
* **replicas that create the same tables** when they start;
* **two writers of one cache** that do not see each other;
* **start-up** that races with the message pump it has already started.

`PROJECT.json` lists every hazard with its line and the properties aimed at it.

## 2. Modules

| Module | What it is |
|---|---|
| `PeekLock` | one subscription of the bus: locks, delivery counts, dead letters; extended by the four models of its consumers |
| `OrderTrail` | abstract specification: what the tracking service promises (an append-only trail; announce only what is on it; forget a message only when it is done) |
| `TrackingStore` | the event store and its handlers; implements `OrderTrail` |
| `TrackingStore_proofs` | a contiguous, append-only trail, what completion and a delivery stand for, the refinement, and that conflicts drop nothing, proved |
| `BookingService` | creation and changes of orders |
| `BookingService_proofs` | no handler of an event loses a payment or a status, only a PUT without a payment id takes one, proved |
| `Gateway` | the requests of the web gateway through its policies, and the three APIs behind it; from a POST to the row and the event |
| `Gateway_proofs` | confirmed rows are published and found again, breaks hold, nobody is refused without cause, proved |
| `Outbox` | the transaction of a request and the publication of logged events after it |
| `Outbox_proofs` | no event without its order, bounded repetition, races alone lose nothing, proved |
| `StartUp` | replicas of Tracking.API create the schema of the event store |
| `StartUp_proofs` | a start that reaches the server serves with the whole schema, proved |
| `Subscriptions` | subscription at start-up, registry and message pump of one process |
| `Subscriptions_proofs` | a started process is fully subscribed, a late call completes only what was handled, proved |
| `ReadModel` | cached histories: the Azure function and the lookups; composed with the trail of `OrderTrail` |
| `ReadModel_proofs` | bounded repetition in every history, also of events that come again after they were cached, proved |
| `OrderLifecycle` | one order through all services: composes `BookingService`, `OrderTrail`, the two writes of Payment.API, the shipping application and users' PUTs |
| `OrderLifecycle_proofs` | Booking is never ahead of Tracking and Payment but for what a PUT brings, misses nothing they have done with, and the services are those of their modules, proved |
| `MC*` | constants of the runs |

Every concurrent activity of the code (a handler call, a request, the start-up
thread) is a worker with a program counter, and one action is one step that is
atomic in the program: one SQL statement or transaction, one Redis command, one
call to the bus, one write to an unlocked collection. In-process computation
between two such steps belongs to the step it precedes or follows. An exception
is the action `Error` (or `CallError`, `Failed`, ...), allowed at every step at
which the code calls another system.

**PeekLock.** A subscription is a state and a delivery count per message and the
worker that holds its lock. `Lock` delivers and counts, `Settle` needs the lock,
an exception abandons (`AbandonMessage`), an expiry takes the lock away
(`Release`); either of the two after the last delivery dead-letters. The actions of
`TrackingStore`, `BookingService`, `Subscriptions` and `ReadModel` are conjunctions of one of
these and of what the service does. Prefetching is covered by
`Expire`: a message may lose its lock at any time, before or while it is handled.
Events of one subscription are delivered in any order, which is what 20 concurrent
calls per replica make of any order.

**TrackingStore.** `rows` is the table `TrackingEvent`, `currentVersion` the table
`Tracking` (0 is a missing row). `GetEventVersion` or `GetTracking`+`Replay` sets
`original[w]`, the version the handler expects; `SelectAggregate` is the read inside
`SaveTrackingAsync`; `CommitSave`/`RejectSave` are the conditional update or the
insert, with the primary keys, up to commit or rollback. The database runs at its
default isolation level, so the read does not protect the write.

**BookingService.** `loaded[w]` is the entity as the handler's DbContext loaded
it, `Changed` what the handler makes of it, `Written` what `SaveChanges` does: only
the columns that differ from `loaded[w]` overwrite the stored row. Three
columns are kept: payment id, order state, order status. The rest is never
changed after creation. A PUT writes whatever `paymentID` its body has, a payment or not, or
null if it has none (`ValueOf[t]` may be `None` for a PUT): the field is not required
(UpdateBooking.cs, line 11), and the handler sets it as it comes (UpdateBookingHandler.cs, line 30).

**Gateway.** A request has up to `MaxRetries + 1` attempts; each is a call of its own in
an API (`call[r][n]`), which goes on when the gateway has given up on it and may leave a
row and an event behind. Users create bookings and payments, look up a booking by the id a
creation answered with, or by one that names none, and ask for histories. What each
client makes of an answer is an action (`Answered`, `NotFound`, `ErrorAnswered`,
`ConnectionLost`, `Timeout`). The breaker follows Polly: closed, open, half-open with one trial
per break; answers that come while it is open do not count. A user who was refused may ask again
(`AskAgain`), any number of times; what is bounded is the number of calls that fail for one user. `ClientOf[r]` names it:
Startup.cs calls `GetCircuitBreakerPolicy` once per typed client, so there is one per replica and API.

**Outbox.** `stage[r]` is where a request is: in its transaction (`begun`, `added`, `logged`),
committed, or in the loop of `PublishEventsThroughEventBusAsync`. What a transaction wrote becomes
visible in `Commit`, or in `CommitUnknown` if its caller never hears of it. `log` is the column
`State`; every status update overwrites it unseen. Any request, also a lookup
(`NoOrder`), publishes what it finds pending. The events are those of orders, one each.

**StartUp.** `EnsureDatabase` is a sequence of calls (`Calls`), each a list of objects: open the
connection, create the database, change to it, create two tables. `Look` and `Create` are one
`IF ... IS NULL CREATE ...`; `Clash` is a `CREATE` of what exists by now, `FailCall` the policy's
decision, down to the swallowed exception. `astray[r]` is a connection that was lost: Dapper opens it anew for
each attempt, in "master", and closes it again, so that a move after it fails (`MoveFails`).

**Subscriptions.** The start-up thread and the pump share `keys`, `lists` and
`types` (the dictionary `_handlers`, its lists, `_eventTypes`) at the grain of
single writes. An enumeration of a list that is modified throws (`touched`).
Rules live at the bus and outlive the process. A restart empties the registry.

**ReadModel.** `Trigger`, `Get`, `AppendRemove`, `Save` are the function's Redis
commands; `LookUpHit`, `LookUpMiss`, `Query`, `SetCache` are the lookup's.
`async void` is modelled by what it does: nobody waits for `SetCache`, an exception ends the
process, and the host settles a message on its own. `Complete(m)` may come while the call still runs, or long
after it has saved the history; `LoseLock(m)` and `HostEnds` may come in its place, and then the event is
delivered again, be it in the cache or not.

**OrderLifecycle.** The services share nothing but the topic. `BookingService` is an
instance with all its variables (`Create`, `AcceptPut`, `DeliverMessage`, `HandleTask`, `Fail`
are its actions); Tracking is `OrderTrail`, which `TrackingStore` implements
(proved), so a `Record` stands for a whole successful handler up to its commit. What
one service publishes is `Booking!Send` of a message in the same step. Payment and
shipping are guarded by `IsKnown`: the web page moves on to the payment, with the order's id,
after the POST of the booking was answered. The publication that fails in Payment
is `PublishPaymentFails`, that of Booking `PublishBookingFails`.

## 3. Runs

| Run | Question | Bounds | Result |
|---|---|---|---|
| `tracking_faults` | is the trail sound whatever fails? | 2 messages of one booking, 2 workers in 2 replicas, 2 deliveries, all faults | holds |
| `tracking_contention` | do conflicts alone ever lose an event? | 3 messages, 3 workers, 3 deliveries, no fault | holds |
| `booking_faults` | do racing handlers lose a payment or a status? | payment, status change, two PUTs, one with another payment id and one with none; 2 workers, all faults | holds |
| `booking_status` | is the status the current one? | payment, picked, delivered; no fault | violated |
| `subscriptions_faults` | is a started process fully subscribed, is what it completes handled? | 2 events, 2 messages, 2 calls, 1 restart, all faults | holds |
| `subscriptions_lost` | is a completed message always handled? | as above, no fault | violated |
| `gateway_faults` | is what is confirmed published and found, who is refused, does it end for a user who keeps asking, is every user answered? | 2 of 4 requests (a booking and its lookup, a payment, a history) in one replica, 1 retry, threshold 2, all faults | holds |
| `outbox_faults` | do requests that publish each other's events lose, repeat or invent one, and is it published if requests keep coming? | 2 orders, 2 concurrent requests in 2 replicas, any number of lookups, 3 faults | holds |
| `startup_faults` | is the schema there when a service serves, does each start end? | 2 replicas, 3 starts, 2 outages, the code's calls and retries (5) | holds |
| `read_model_faults` | does a cached history get complete again, how often can it show an event? | 2 events of one booking, 2 function calls, 1 lookup, 2 deliveries, locks lost before and after the save, all other faults | holds |
| `order_lifecycle` | do the services agree about an order, at all times and in the end? | 1 order, 1 payment, 1 shipping event reported once, 1 PUT without a payment id, 2 workers, 2 deliveries, 1 failure of Booking.API | holds |
| `read_model_lost` | is the cached history complete when all is quiet? | 2 events, no fault | violated |

**Why the bounds are enough.** `order_lifecycle` has one order and one message per hop, since orders
do not interact and the races at one hop are the business of the other runs; its two workers
still save from old copies of the row. All races are between two holders of one booking's
row, trail or cache entry, and bookings do not interact, so one booking with two
concurrent holders meets every pairwise interleaving; `tracking_contention` has
three because a message must lose twice to use up its deliveries (with two
deliveries its property fails, so its bound is tight). Two deliveries are the
first, a redelivery and the dead-letter decision. Restarts are bounded by
one: start-up on a registry that is new and on rules that are not. `Threshold` and
`MaxRetries` are smaller than the code's 5 and 2 in `gateway_faults`: two requests
with two attempts each still open the breaker, have a retry rejected by it,
trial it, time out on the trial, ask again after a refusal, and answer late; two requests to different APIs show that their breakers are apart.
Three faults in `outbox_faults` are a failed publication, a failed mark of the failure, and a crash or
another failure of the other request. Two replicas in `startup_faults` meet every clash at one object, a third
start finds what a dead one left. In `read_model_faults` an event is found three times in one history, which is as often
as the bound of the property allows with two deliveries and one lookup; a second lookup adds states and no new
kind of race. The PUT of `order_lifecycle` brings no payment id, which is the harder case; one that
brings an id of its own is in `booking_faults`, and the theorems cover both. Where a property is also proved, its theorem has no bound.
Deadlock checking is off, since a system whose messages or requests are all settled rests; only the runs of `ReadModel`,
whose lookups never end, have it on.

**Fairness.** `Spec` has none. `FairSpec` assumes what the runtimes do: a handler
that has begun is scheduled (`WF` of its steps), the bus delivers to an idle
worker, the lock of a message nobody works on expires, a cache entry expires, the
30 seconds of a break pass, a process that starts goes on. Users,
senders and faults are never fair. Where the code's promise depends on users, the property says so: in `Outbox` only
a later request takes up the events of a dead one, so `EveryEventIsTakenUp` speaks of the behaviours in which requests keep
coming (`RequestsCome`), and `RefusalsEnd` of a user who asks again after every refusal. The database of
`StartUp` need not come back. In the models of the bus errors may happen as often as they like: a
weakly fair handler step may be pre-empted by an error each time. Liveness therefore
says "settled" (completed or dead-lettered), not "applied". `EverySentIsRecorded`, without faults, and
`EventuallyConsistent` say "applied": `MaxFailures` is there smaller than `MaxDeliveries`, which is the condition under
which the code keeps the README's promise (section 4 says what happens without it).

**What each property is for.**

* `TrailContiguous`: the rows of a booking are exactly the versions 1 to
  `CurrentVersion`. It relates two tables that different transactions read and write.
* `CompletedIsDone`: the order of save, publish, complete
  survives lost locks and crashes. (`AnnouncedIsRecorded`, the other half, is part of
  `ImplementsOrderTrail` and has its own theorem.) `OneRowPerDelivery`: how
  often an event can be on the trail.
* `ImplementsOrderTrail`: all of this as one statement. A row is appended by
  `CommitSave` and by nothing else; every other step is a stutter, an `Announce` or a `Settle`.
* `ConflictsNeverDrop`: each lost race is paid for by the commit of another message.
* `CompletedIsKept`, `PaymentIsFinal`: the absence of a concurrency token is harmless for what events
  write, because no handler of an event writes a column back to a lesser value; it would not be with
  `Bookings.Update` (a mutant). A PUT without a payment id does take a payment from a completed order, and the
  properties say that nothing else can.
* `StartedIsSubscribed`, `LateCompletedIsHandled`: start-up, on its first run and
  after a restart, against a pump that runs already.
* `ConfirmedIsPublished`, `ConfirmedIsFound`: what a user is told is true, whatever became of
  earlier attempts, and stays true for the next question.
* `RefusedOnlyIfFailing`, `BreakHolds`, `RefusalsEnd`, `EveryRequestIsAnswered`: the breakers refuse
  for a cause that is their API's own and hold against late answers. They end: a user who asks again is refused
  only finitely often, although a trial may time out and leave the breaker without an outcome, and although it may be
  another user's request that is the trial. A breaker that does
  not recover from such a trial refuses such a user for ever (the mutant `BreakIsOverOnce`).
* `PublishedIsBooked`, `QuietIsPublished`, `RepeatsAreConcurrent`, `EveryEventIsTakenUp`: what the unguarded
  status updates of the outbox can and cannot do: repeat an event, once per
  concurrent request, but neither invent one nor, by races alone, lose one; and an entry that is left behind
  is taken up, not by the service's doing, but by requests, if they come.
* `ServingIsReady`, `EveryStartEnds`: a start races with another one, continues where a dead
  one stopped, and gives up in bounded time.
* `BoundedRepetition`, `EventuallyComplete`: what the unordered writers of the
  cache can and cannot do to a history: an event is repeated once per delivery at most, also if its message comes again
  when it is long in the cache. `EventuallyComplete` rests on expiry alone.
* `EverySentIsSettled`, `EveryDeliveredIsSettled`: no message is stuck, also one
  for an order that does not exist or without a handler.

* `StatusIsTracked`, `PaidIsCharged`: Booking is never ahead of the service that owns a
  fact, over two queues, redeliveries and stale copies. A completed order has a saved payment behind it, whatever PUTs come; a
  payment id is that of a saved payment or what a PUT brought, for the code checks no PUT against Payment.
  `EventuallyConsistent`: nor behind for ever.

Each property has a mutant of the code (in the modules, marked "Mutant", and in
`PROJECT.json`) that TLC finds to violate it.

## 4. What the models found

Three runs end in a counterexample; each is a disagreement between the code and
what the repository says of it (`PROJECT.json`, "findings", has the quotes).

1. An order's status is that of the event saved last, not of the latest
   event (`booking_status`); it needs no fault.
2. A message delivered while start-up has added an event's key but not yet
   its handler is completed unhandled (`subscriptions_lost`).
3. A cached history can lack events when all is quiet (`read_model_lost`), until
   the entry expires.

Other behaviours that the models contain and that limit what the properties may say:

* A PUT without a `paymentID` un-pays a completed order: the id is null from then on, while the order stays "Completed"
  (UpdateBookingHandler.cs, line 30; UpdateBooking.cs, line 11, does not require the field, and there is no validator). One with an
  id of no payment makes the order carry that. Only another PUT or a redelivery of the payment puts an id back. `CompletedIsKept`,
  `PaymentIsFinal`, `PaidIsCharged` and `EventuallyConsistent` name this exception (`PutsNull`, `SavesNull`, `Settled`).
* A rule that cannot be added at start-up is a line in the log (EventBusServiceBus.cs, line 88): the service goes on with a
  handler that gets no message of its kind. `StartedIsSubscribed` excepts such rules (`ruleFailed`), so no property here
  excludes this.
* An event of the outbox whose request died waits for as long as no other request comes.
* An event that the function has cached is cached twice if its message is delivered again.
* An event whose handler fails for as many deliveries as the bus grants is
  dead-lettered and never on the trail (`Release` in `PeekLock`): redelivery has no delay and
  nothing reads the dead letters. `EverySentIsRecorded` is checked without faults only.
* A row whose event cannot be published stays unknown for ever (`CallError` in
  `Gateway`, `PublishPaymentFails` and `PublishBookingFails` in `OrderLifecycle`): nothing publishes it later.
  A user who posts again creates a second row.
* The outbox that README.md, line 155, describes would not change that for good: an
  entry marked `PublishedFailed`, or left `InProgress` by a crash, is not
  `NotPublished`, and that is all `RetrieveEventLogsPendingToPublishAsync` selects.
* A tracking service that cannot reach its server for as long as a policy retries serves
  without its tables (the exception is swallowed), or, when the connection breaks late, with its
  tables in "master"; a connection lost while the database is created makes the move to it fail, and this start makes no tables. `ServingIsReady` therefore excludes starts that were cut off.

## 5. Proofs

TLC checks the instances above; the theorems hold for all bookings, messages, workers,
replicas, requests, thresholds and delivery bounds that satisfy the ASSUMEs of
the modules (total maps from messages to bookings and kinds, a positive bound,
null values that are not in the sets). TLC evaluates those on every run. Every invariant
and every action property that a run checks has its theorem; where one is not inductive,
the invariant that is was checked with TLC before it was proved.

**TrackingStore_proofs.** `TypeInv` types the state and says that a busy worker has a message.
`TrailContiguous` alone is not inductive: `TrailInv` adds `VersionBehind`, that no handler
expects a version beyond the current one. A commit then either finds its
version current, and appends the next, or inserts the first row; that a replay
cannot count beyond the current version follows from the versions being an
injection into `1..CurrentVersion` (`HistoryBound`, the one lemma about
cardinalities). `DoneInv` says what each program counter implies (past `write` the
event is recorded, past `publish` announced); it gives `CompletedIsDone` and
`AnnouncedIsRecorded`. `AppendOnly` and `ImplementsOrderTrail` follow from
`TrailInv` and `DoneInv`: `CommitSave` is `Extend`, `Publish` is `Announce`,
`Complete` is `Settle`, all else stutters.

Two counting arguments complete it. `PaidInv`, for `OneRowPerDelivery`: with locks that expire, several
handlers of one message may be on their way to the save, but each has a delivery of its own; the events
on the trail and the handlers that may still add one never exceed the deliveries.
`ChargeInv`, for `ConflictsNeverDrop`, charges rejected saves to commits. A save is rejected only if the
version has grown since the handler read it, so an event of another message lies between; hence deliveries
never run ahead of the version by more than the one under way (`Charged`). With one event per message
(`Once`, which needs that locks are not lost: `Exclusive`) a booking's version is less than its number of messages while
one of them is not recorded (`VersionBelow`). The hypotheses of the theorem `ConflictsDropNothing` are those of
the run `tracking_contention`: no faults (`NoFaults`), and no booking has more messages than a message has deliveries
(`FewMessages`; the system sends five kinds of event, and the bus grants ten deliveries unless told otherwise).
With fewer deliveries than messages, or with faults, the property is false.

**BookingService_proofs.** Two lemmas about one save carry the proof. `WrittenKeeps`:
whatever row was loaded, however old, a save takes no status from the stored row, and a payment id only if it
is that of a PUT without one (`NullIn`). `WrittenApplies`: if the loaded row is behind the stored
one (`Kept`), the save takes effect, also in the case where Entity Framework writes
nothing since the value was loaded already. The invariant `WorkerInv` says that
loaded rows are behind, up to the PUTs served so far; it is inductive because every save keeps, and because what
those PUTs excuse they excuse for good (`MorePuts`). Assumption
of the theorems: Payment reports completed payments only (`OnlyCompleted`;
PaymentService.cs, line 31). With a canceled payment the properties are false.

**Gateway_proofs.** `CallInv` ties a call's progress to the two tables, to the topic and to
its request; `AskedInv` says that a user asks for what was confirmed. `BreakerKept` shows that every
reaction of the breaker keeps its counter below the threshold while it is closed. For
`RefusedOnlyIfFailing` the invariant is `Backed`: a breaker's counter never exceeds the number of failed attempts
of its own replica and API, and it is not closed only if these reach the threshold. Each failure the breaker counts
adds one new attempt to that set, since an attempt fails once (cardinality of a finite set).
`BreaksHold` goes through the actions.

**Outbox_proofs.** `LogInv`: the log has an entry for the booked orders and no other, and what is
held or published is booked. Its core for `RepeatsAreConcurrent` is `RepeatInv`: copies on the topic plus requests that
can still publish the event never exceed the number of requests. `sent` grows when a request
stops being such a holder; new holders come only while the entry is `NotPublished`, and then
nothing was sent. `NoFaultInv` says in whose hands an unpublished entry is.

**StartUp_proofs.** A clash costs a retry, but it also shows that the object and all before
it exist. `Made` says it: after k retries in a call its first k objects exist, so the
next clash is about a later one, and a policy with as many retries as its call has
objects (`RetriesAssumption`; the code has 5 for at most 2) never gives up.

**OrderLifecycle_proofs.** Neither invariant is inductive: they speak of rows, and a row is
written from a message and from an older copy. `SentInv` says that every message in the
subscription of Booking is `Sound`, that is, true in the service that sent it; `Grown`
shows that what is true there stays true. `WrittenIsSound` shows that one save of a sound message,
from whatever copy, leaves a sound row. For "completed implies a payment id" the copy matters: if it had
the id already, the save does not write that column, and `WorkerInv` says that the stored row has one, too, or that a
PUT took it (`Settled`). A PUT changes no state of an order and no status, and its id is in the exception of `PaidIsCharged`.
`QuietStep` covers all steps that write no row.

`RefinesServices` shows that the composition adds no step to Booking.API or Tracking.API that their own
modules do not have. The lemmas of `BookingService_proofs` are then used in it (`Orders`), after
`OrdersAssumptions` has shown that the constants of the composition are some that `BookingService` allows. `NothingIsMissed`
is the safety half of `EventuallyConsistent`, without a bound on failures: an event that Payment published or Tracking has done
with is known to Booking, or its message waits there or is dead-lettered. `MissedInv` follows it through both
subscriptions: Tracking settles only what it reported, a report was sent, and what was sent is applied before Booking completes it.
`NothingMissed` is defined with its proof; it was checked with TLC on the instance of `order_lifecycle` as well.

**Subscriptions_proofs.** `StartedIsSubscribed` speaks of the end of start-up only. `StartInv` says how far the
thread has come in the steps of each pair (`PastIsSubscribed`), and why it may skip a rule: a key in the
dictionary means that an earlier pair of the same event has dealt with the rule (`KeysHaveRules`), which
holds across a restart because keys die with the process and rules do not. `NoHandlerTwice` gives "once". For
`LateCompletedIsHandled` the invariant is `LateInv`: what a call has passed in its list is handled, for a call
that began after start-up; and a lock that such a call loses can only pass to a later one, so that what completes a
message is late as well (`LockIsLate`). That the list cannot change under it is `LateIsStarted`.

**ReadModel_proofs.** `BoundedRepetition` is not inductive: a call is counted as a delivery before it appends, and meanwhile
any copy may be read, saved over another one and read again. `RepetitionInv` charges a repetition only to
deliveries that are `Spent`, whose call has appended or ended; when, or whether, the host completes the message does not
matter to it; an append spends one, and no other step makes a copy with
more of an event than the copies there are (`Copies`: cache, calls, lookups) or the trail. So no lineage of
copies has to be followed. `CountAppend` is the lemma about histories it needs.

**Left to TLC.** Liveness, which needs ENABLED and fairness and is out of the prover's reach: `EverySentIsSettled` (twice),
`EveryDeliveredIsSettled`, `EverySentIsRecorded`, `EveryRequestIsAnswered`, `RefusalsEnd`, `EveryEventIsTakenUp`,
`EveryStartEnds`, `EventuallyComplete` and `EventuallyConsistent`.
Induction over data and RECURSIVE operators are out of reach as well; no module
here needs them.

## 6. Not modelled, and why

* Contents of events, addresses, prices, views: no behaviour depends on them.
* Queries that change nothing, apart from those a user makes through the gateway.
* `Unsubscribe`, dynamic subscriptions, `ResilientTransaction`, `Clear` of the cache, find and
  update of payments: no caller, or `NotImplementedException`.
* The external payment gateway: a stub that always succeeds, although its task is not awaited.
* `Database.Migrate()` of Booking.API and Payment.API: one call under a policy, whose steps are Entity
  Framework's.
* A crash of Redis or the bus as such, and of SQL Server after start-up: seen from the
  services it is an error of the call.
* The shipping service is a skeleton; the user interface is scripts and views.
* An event recorded twice on the trail in `ReadModel`: `TrackingStore` shows when
  that happens; `ReadModel` records each event once so that its histories stay small.
* `OrderLifecycle` with failures of Tracking, a second recording of an event or a second shipping event:
  tried, and beyond what TLC finishes in minutes; the theorems about it have no such bound.

## 7. Plan

What is checked as safety is proved. Worth adding is the other safety half of the liveness
properties: that a message, a request or a start that is not settled always has a next step
of its own (the guards of its actions, written out, instead of ENABLED).

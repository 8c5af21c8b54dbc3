------------------------------ MODULE ReadModel ------------------------------
(***************************************************************************)
(* The history of a booking as users see it.  Tracking.API answers from a  *)
(* Redis cache and, on a miss, from the trail in its database, which it    *)
(* then puts into the cache (TrackingService); an Azure function gets      *)
(* every event from a subscription of its own and appends it to the cached *)
(* history by get, remove and save (EventStore.UpdateBookingModelInCache). *)
(* An entry lives ten hours.  Nothing orders the two writers of the cache: *)
(* neither sees what the other does between its read and its write.  Nor   *)
(* does a message wait for the call that handles it: the host completes it *)
(* when Run returns, at the first await that waits, and what it does not   *)
(* complete is delivered again, also when the event is in the cache.       *)
(*                                                                         *)
(* The trail is the abstract one of OrderTrail, which TrackingStore        *)
(* implements.                                                             *)
(***************************************************************************)
EXTENDS PeekLock, Sequences, FiniteSets

\* Messages are the events raised by the other services, Workers the concurrent calls
\* of the Azure function.
CONSTANTS Bookings,       \* booking ids: the keys of the cache
          BookingOf,      \* BookingOf[m]: the booking of message m
          Readers,        \* concurrent requests for a history
          Faults,         \* which of AllFaults may happen
          None            \* null: no entry, no message, no booking

AllFaults == {"crash", "redis", "lock"}

ASSUME BookingOfAssumption == BookingOf \in [Messages -> Bookings]
ASSUME FaultsAssumption == Faults \subseteq AllFaults
ASSUME NoneAssumption == None \notin Bookings \cup Messages \cup Seq(Messages)

VARIABLES
  trail,       \* trail[b]: the events of b in the database of Tracking
  cache,       \* cache[b]: the cached history of b, or None
  pc,          \* pc[f]: the next step of function call f
  msg,         \* msg[f]: its event
  history,     \* history[f]: trackingHistory
  rpc,         \* rpc[r]: the next step of reader r
  key,         \* key[r]: the booking it looks up
  shown        \* shown[r]: the history it found, until it is cached

functionVars == <<pc, msg, history>>
readerVars == <<rpc, key, shown>>
vars == <<trail, state, deliveries, owner, cache, functionVars, readerVars>>

Trail == INSTANCE OrderTrail WITH Announcing <- {}, announced <- {}, settled <- {}

Histories == Seq(Messages)

-----------------------------------------------------------------------------
(* Helpers *)

FBooking(f) == BookingOf[msg[f]]
Goto(f, step) == pc' = [pc EXCEPT ![f] = step]
RGoto(r, step) == rpc' = [rpc EXCEPT ![r] = step]

Count(h, m) == Cardinality({i \in DOMAIN h : h[i] = m})

\* The cached history of b, as a copy to append to: a miss is a new list.
Cached(b) == IF cache[b] = None THEN <<>> ELSE cache[b]

-----------------------------------------------------------------------------
Init ==
  /\ trail = [b \in Bookings |-> <<>>]
  /\ BusInit
  /\ cache = [b \in Bookings |-> None]
  /\ pc = [f \in Workers |-> "idle"]
  /\ msg = [f \in Workers |-> None]
  /\ history = [f \in Workers |-> <<>>]
  /\ rpc = [r \in Readers |-> "idle"]
  /\ key = [r \in Readers |-> None]
  /\ shown = [r \in Readers |-> None]

\* An event is published: it is put in every subscription.
Raise(m) ==
  /\ Put(m)
  /\ UNCHANGED <<trail, cache, functionVars, readerVars>>

\* The tracking service appends it to the trail.
Record(m) ==
  /\ state[m] # "unsent"
  /\ ~Trail!OnTrail(m)
  /\ Trail!Extend(m)
  /\ UNCHANGED <<busVars, cache, functionVars, readerVars>>

-----------------------------------------------------------------------------
(* The Azure function *)

\* The host calls the function, which asks whether there is a history.
Trigger(f, m) ==
  /\ pc[f] = "idle"
  /\ Lock(f, m)
  /\ msg' = [msg EXCEPT ![f] = m]
  /\ Goto(f, IF cache[BookingOf[m]] = None THEN "append" ELSE "get")
  /\ UNCHANGED <<trail, cache, history, readerVars>>

\* Mutant: what the second read returns is taken for a history.
GetUnchecked(f) ==
  /\ pc[f] = "get"
  /\ history' = [history EXCEPT ![f] = cache[FBooking(f)]]
  /\ Goto(f, "append")
  /\ UNCHANGED <<trail, busVars, cache, msg, readerVars>>

\* There was one: it is read again, as JSON.
Get(f) ==
  /\ pc[f] = "get"
  /\ cache[FBooking(f)] # None
  /\ history' = [history EXCEPT ![f] = cache[FBooking(f)]]
  /\ Goto(f, "append")
  /\ UNCHANGED <<trail, busVars, cache, msg, readerVars>>

\* The event is added to the copy, and the entry removed.
AppendRemove(f) ==
  /\ pc[f] = "append"
  /\ history' = [history EXCEPT ![f] = Append(@, msg[f])]
  /\ cache' = [cache EXCEPT ![FBooking(f)] = None]
  /\ Goto(f, "save")
  /\ UNCHANGED <<trail, busVars, msg, readerVars>>

\* The copy is saved for ten hours.
Save(f) ==
  /\ pc[f] = "save"
  /\ cache' = [cache EXCEPT ![FBooking(f)] = history[f]]
  /\ Goto(f, "idle")
  /\ msg' = [msg EXCEPT ![f] = None]
  /\ history' = [history EXCEPT ![f] = <<>>]
  /\ UNCHANGED <<trail, busVars, readerVars>>

\* The host completes message m: Run, which is "async void", has returned, at the
\* latest when it waits for the entry to be removed.  The call goes on.
Complete(m) ==
  /\ LET f == owner[m] IN Settle(f, m) /\ (msg[f] = m => pc[f] # "get")
  /\ UNCHANGED <<trail, cache, functionVars, readerVars>>

\* The lock on m is lost, or completing it fails: m is delivered again, whether its
\* call still runs or has saved the history long since.
LoseLock(m) ==
  /\ "lock" \in Faults
  /\ state[m] = "locked"
  /\ Release(m)
  /\ UNCHANGED <<trail, cache, functionVars, readerVars>>

\* The process of the function ends: its calls where they are, and the locks with
\* it, also those of messages whose call is done.
HostEnds ==
  /\ state' = [m \in Messages |-> IF state[m] # "locked" THEN state[m]
                                 ELSE IF deliveries[m] >= MaxDeliveries THEN "dead"
                                 ELSE "available"]
  /\ owner' = [m \in Messages |-> NoWorker]
  /\ pc' = [f \in Workers |-> "idle"]
  /\ msg' = [f \in Workers |-> None]
  /\ history' = [f \in Workers |-> <<>>]
  /\ UNCHANGED <<trail, deliveries, cache, readerVars>>

\* The entry went away between the two reads: null is not JSON, and an
\* exception of an "async void" method ends the process.
GetNull ==
  /\ \E f \in Workers : pc[f] = "get" /\ cache[FBooking(f)] = None
  /\ HostEnds

Crash ==
  /\ "crash" \in Faults
  /\ (\E f \in Workers : pc[f] # "idle") \/ (\E m \in Messages : state[m] = "locked")
  /\ HostEnds

-----------------------------------------------------------------------------
(* Tracking.API: FindByIdAsync *)

\* The history is in the cache: it is the answer, and nothing changes.
LookUpHit(r, b) ==
  /\ rpc[r] = "idle"
  /\ cache[b] # None
  /\ UNCHANGED vars

LookUpMiss(r, b) ==
  /\ rpc[r] = "idle"
  /\ cache[b] = None
  /\ RGoto(r, "query")
  /\ key' = [key EXCEPT ![r] = b]
  /\ UNCHANGED <<trail, busVars, cache, functionVars, shown>>

SetDone(r) == /\ RGoto(r, "idle")
              /\ key' = [key EXCEPT ![r] = None]
              /\ shown' = [shown EXCEPT ![r] = None]

\* GetTrackingAsync returns null: the booking has no trail, nothing is cached.
QueryNothing(r) ==
  /\ rpc[r] = "query"
  /\ trail[key[r]] = <<>>
  /\ SetDone(r)
  /\ UNCHANGED <<trail, busVars, cache, functionVars>>

\* GetTrackingAsync, and the answer.
Query(r) ==
  /\ rpc[r] = "query"
  /\ trail[key[r]] # <<>>
  /\ shown' = [shown EXCEPT ![r] = trail[key[r]]]
  /\ RGoto(r, "set")
  /\ UNCHANGED <<trail, busVars, cache, functionVars, key>>

\* Mutant: the history is appended to what is cached.
SetCacheAppended(r) ==
  /\ rpc[r] = "set"
  /\ cache' = [cache EXCEPT ![key[r]] = Cached(key[r]) \o shown[r]]
  /\ SetDone(r)
  /\ UNCHANGED <<trail, busVars, functionVars>>

\* SetCache, for ten hours.  It is "async void": nobody waits for it.
SetCache(r) ==
  /\ rpc[r] = "set"
  /\ cache' = [cache EXCEPT ![key[r]] = shown[r]]
  /\ SetDone(r)
  /\ UNCHANGED <<trail, busVars, functionVars>>

\* Redis is not there: the exception ends the process, not the answer.
SetCacheFails(r) ==
  /\ "redis" \in Faults
  /\ rpc[r] = "set"
  /\ SetDone(r)
  /\ UNCHANGED <<trail, busVars, cache, functionVars>>

-----------------------------------------------------------------------------
\* Mutant: an entry is kept for ever.
ExpireNever(b) == FALSE /\ UNCHANGED vars

\* Ten hours have passed.
Expire(b) ==
  /\ cache[b] # None
  /\ cache' = [cache EXCEPT ![b] = None]
  /\ UNCHANGED <<trail, busVars, functionVars, readerVars>>

FunctionStep(f) == Get(f) \/ AppendRemove(f) \/ Save(f)
ReaderStep(r) == QueryNothing(r) \/ Query(r) \/ SetCache(r)

Next == \/ \E m \in Messages : Raise(m) \/ Record(m) \/ Complete(m) \/ LoseLock(m)
        \/ \E f \in Workers, m \in Messages : Trigger(f, m)
        \/ \E f \in Workers : FunctionStep(f)
        \/ GetNull \/ Crash
        \/ \E r \in Readers, b \in Bookings : LookUpHit(r, b) \/ LookUpMiss(r, b)
        \/ \E r \in Readers : ReaderStep(r) \/ SetCacheFails(r)
        \/ \E b \in Bookings : Expire(b)

Spec == Init /\ [][Next]_vars

\* Calls that have begun go on, and an entry is not kept for ever.
Fairness == /\ \A f \in Workers : WF_vars(FunctionStep(f))
            /\ WF_vars(GetNull)
            /\ \A r \in Readers : WF_vars(ReaderStep(r))
            /\ \A b \in Bookings : WF_vars(Expire(b))

FairSpec == Spec /\ Fairness

-----------------------------------------------------------------------------
(* Properties *)

\* Every variable has its type.
TypeOK ==
  /\ trail \in [Bookings -> Histories]
  /\ BusTypeOK /\ \A m \in Messages : deliveries[m] <= MaxDeliveries
  /\ cache \in [Bookings -> Histories \cup {None}]
  /\ pc \in [Workers -> {"idle", "get", "append", "save"}]
  /\ msg \in [Workers -> Messages \cup {None}]
  /\ history \in [Workers -> Histories]
  /\ rpc \in [Readers -> {"idle", "query", "set"}]
  /\ key \in [Readers -> Bookings \cup {None}]
  /\ shown \in [Readers -> Histories \cup {None}]

\* A history has an event once from the trail and once for every delivery to the
\* function, however the two writers read and overwrite each other and although an
\* event that is in the cache already may be delivered again, even to a second call
\* while the first one runs.
BoundedRepetition ==
  \A m \in Messages :
    LET Bounded(h) == h # None => Count(h, m) <= 1 + deliveries[m] IN
      /\ \A b \in Bookings : Bounded(cache[b])
      /\ \A f \in Workers : Bounded(history[f])
      /\ \A r \in Readers : Bounded(shown[r])

IsComplete(b) == \A i \in DOMAIN trail[b] : Count(cache[b], trail[b][i]) > 0

\* What the races of the two writers lose comes back: in the end a cached
\* history has every event of the trail, because entries expire.
EventuallyComplete == \A b \in Bookings : <>[](cache[b] = None \/ IsComplete(b))

Quiet == /\ \A m \in Messages : state[m] # "unsent" => Trail!OnTrail(m)
         /\ \A m \in Messages : state[m] \notin {"available", "locked"}
         /\ \A f \in Workers : pc[f] = "idle"
         /\ \A r \in Readers : rpc[r] = "idle"

\* README.md, line 28: "each event raised is appended to order history and that
\* history is updated into the cahce": when nothing is under way, a cached
\* history has every event of the trail.
CachedIsComplete == Quiet => \A b \in Bookings : cache[b] = None \/ IsComplete(b)
=============================================================================

---------------------------- MODULE Subscriptions ----------------------------
(***************************************************************************)
(* One process that uses EventBusServiceBus: its start-up thread calls     *)
(* Subscribe for each of its events while the message pump, registered by  *)
(* the constructor, already calls ProcessEvent for what is in the          *)
(* subscription.  The rules are kept by the bus and outlive the process;   *)
(* the registry (InMemoryEventBusSubscriptionsManager) is a plain          *)
(* dictionary and list, rebuilt at every start and shared without a lock.  *)
(***************************************************************************)
EXTENDS PeekLock, Sequences, SequencesExt

\* Messages are published to the topic, Workers are calls of the message handler.
CONSTANTS Events,         \* event types
          Handlers,       \* handler types
          EventOf,        \* EventOf[m]: the event type (label) of message m
          Startup,        \* the pairs <<event, handler>> that are subscribed, in order
          MaxRestarts,    \* bound: how often the process is started again
          Faults,         \* which of AllFaults may happen
          None            \* no message

AllFaults == {"error", "expiry", "crash", "rule"}

ASSUME EventOfAssumption == EventOf \in [Messages -> Events]
ASSUME StartupAssumption == Startup \in Seq(Events \X Handlers)
ASSUME MaxRestartsAssumption == MaxRestarts \in Nat
ASSUME FaultsAssumption == Faults \subseteq AllFaults
ASSUME NoneAssumption == None \notin Messages

VARIABLES
  rules,       \* the labels the bus lets through to the subscription
  ruleFailed,  \* the labels whose rule could not be added (history)
  keys,        \* the keys of the dictionary _handlers
  lists,       \* lists[e]: the list _handlers[e]
  types,       \* _eventTypes
  next,        \* the position in Startup of the pair being subscribed
  step,        \* the next step of the start-up thread
  hadKey,      \* containsKey, as Subscribe read it
  restarts,    \* how often the process was started again
  pc,          \* pc[w]: the next step of worker w
  msg,         \* msg[w]: the message w processes
  at,          \* at[w]: how many handlers of the list w has called
  touched,     \* touched[w]: the list changed since w began to enumerate it
  early,       \* early[w]: w began before the start-up thread was done (history)
  handled      \* handled[m]: the handlers that ran to their end for m (history)

registryVars == <<keys, lists, types>>
startVars == <<next, step, hadKey>>
workerVars == <<pc, msg, at, touched, early>>
ruleVars == <<rules, ruleFailed>>
vars == <<ruleVars, registryVars, startVars, restarts, busVars, workerVars, handled>>

-----------------------------------------------------------------------------
(* Helpers *)

Event == Startup[next][1]
Handler == Startup[next][2]
Started == step = "done"

Has(e) == e \in keys
WEvent(w) == EventOf[msg[w]]
HoldsLock(w) == LocksMessage(w, msg[w])
Subscribed(e) == {Startup[i][2] : i \in {j \in DOMAIN Startup : Startup[j][1] = e}}

Goto(w, s) == pc' = [pc EXCEPT ![w] = s]

\* The call of the message handler returns.
Rest(w) == /\ Goto(w, "idle")
           /\ msg' = [msg EXCEPT ![w] = None]
           /\ at' = [at EXCEPT ![w] = 0]
           /\ touched' = [touched EXCEPT ![w] = FALSE]
           /\ early' = [early EXCEPT ![w] = FALSE]

\* The call throws.
Abandon(w) ==
  /\ AbandonMessage(w, msg[w])
  /\ Rest(w)
  /\ UNCHANGED <<ruleVars, registryVars, startVars, restarts, handled>>

-----------------------------------------------------------------------------
Init ==
  /\ rules = {} /\ ruleFailed = {}
  /\ keys = {} /\ lists = [e \in Events |-> <<>>] /\ types = {}
  /\ next = 1 /\ step = "check" /\ hadKey = FALSE
  /\ restarts = 0
  /\ BusInit
  /\ pc = [w \in Workers |-> "idle"]
  /\ msg = [w \in Workers |-> None]
  /\ at = [w \in Workers |-> 0]
  /\ touched = [w \in Workers |-> FALSE]
  /\ early = [w \in Workers |-> FALSE]
  /\ handled = [m \in Messages |-> {}]

(* The start-up thread: Subscribe of Startup[next] *)

\* containsKey; no pair is left when all are subscribed.
CheckKey ==
  /\ step = "check"
  /\ IF next > Len(Startup)
       THEN step' = "done" /\ UNCHANGED hadKey
       ELSE step' = "rule" /\ hadKey' = Has(Event)
  /\ UNCHANGED <<ruleVars, registryVars, next, restarts, busVars, workerVars, handled>>

\* AddRuleAsync, unless the key was there; a rule that exists stays.
AddRule ==
  /\ step = "rule"
  /\ rules' = IF hadKey THEN rules ELSE rules \cup {Event}
  /\ step' = "key"
  /\ UNCHANGED <<ruleFailed, registryVars, next, hadKey, restarts, busVars, workerVars, handled>>

\* AddRuleAsync fails: every ServiceBusException is logged as "already exists".
AddRuleFails ==
  /\ "rule" \in Faults
  /\ step = "rule"
  /\ ~hadKey
  /\ ruleFailed' = ruleFailed \cup {Event}
  /\ step' = "key"
  /\ UNCHANGED <<rules, registryVars, next, hadKey, restarts, busVars, workerVars,
                 handled>>

\* DoAddSubscription: a key with an empty list.
AddKey ==
  /\ step = "key"
  /\ keys' = keys \cup {Event}
  /\ lists' = IF Has(Event) THEN lists ELSE [lists EXCEPT ![Event] = <<>>]
  /\ step' = "handler"
  /\ UNCHANGED <<ruleVars, types, next, hadKey, restarts, busVars, workerVars, handled>>

\* Mutant: the type of the event is added in place of the handler's.
AddEventAsHandler ==
  /\ step = "handler"
  /\ lists' = [lists EXCEPT ![Event] = Append(@, Event)]
  /\ step' = "type"
  /\ UNCHANGED <<ruleVars, keys, types, next, hadKey, restarts, busVars, workerVars,
                 handled>>

\* DoAddSubscription: the handler; the enumerations of that list will throw.
AddHandler ==
  /\ step = "handler"
  /\ ~Contains(lists[Event], Handler)
  /\ lists' = [lists EXCEPT ![Event] = Append(@, Handler)]
  /\ touched' = [w \in Workers |->
                   touched[w] \/ (pc[w] = "foreach" /\ WEvent(w) = Event)]
  /\ step' = "type"
  /\ UNCHANGED <<ruleVars, keys, types, next, hadKey, restarts, busVars, pc, msg, at,
                 early, handled>>

\* Mutant: the list of types is taken for complete when it is not empty.
AddFirstType ==
  /\ step = "type"
  /\ types' = IF types = {} THEN {Event} ELSE types
  /\ step' = "check"
  /\ next' = next + 1
  /\ UNCHANGED <<ruleVars, keys, lists, hadKey, restarts, busVars, workerVars, handled>>

\* AddSubscription: the event type, once.
AddType ==
  /\ step = "type"
  /\ types' = types \cup {Event}
  /\ step' = "check"
  /\ next' = next + 1
  /\ UNCHANGED <<ruleVars, keys, lists, hadKey, restarts, busVars, workerVars, handled>>

-----------------------------------------------------------------------------
(* The message pump *)

\* Someone publishes to the topic: without a rule for its label the message is
\* not put in this subscription.
Publish(m) ==
  /\ IF EventOf[m] \in rules THEN Put(m) ELSE Filter(m)
  /\ UNCHANGED <<ruleVars, registryVars, startVars, restarts, workerVars, handled>>

Receive(w, m) ==
  /\ pc[w] = "idle"
  /\ Lock(w, m)
  /\ Goto(w, "has")
  /\ msg' = [msg EXCEPT ![w] = m]
  /\ early' = [early EXCEPT ![w] = ~Started]
  /\ UNCHANGED <<ruleVars, registryVars, startVars, restarts, at, touched, handled>>

\* ProcessEvent: without a key it returns false, and the message is neither
\* completed nor abandoned: it stays locked.
NoKey(w) ==
  /\ pc[w] = "has"
  /\ ~Has(WEvent(w))
  /\ Rest(w)
  /\ UNCHANGED <<ruleVars, registryVars, startVars, restarts, busVars, handled>>

\* ProcessEvent: with a key it begins to enumerate the list.
HasKey(w) ==
  /\ pc[w] = "has"
  /\ Has(WEvent(w))
  /\ Goto(w, "foreach")
  /\ UNCHANGED <<ruleVars, registryVars, startVars, restarts, busVars, msg, at,
                 touched, early, handled>>

\* The next handler of the list runs to its end.
Call(w) ==
  /\ pc[w] = "foreach"
  /\ ~touched[w]
  /\ at[w] < Len(lists[WEvent(w)])
  /\ WEvent(w) \in types
  /\ handled' = [handled EXCEPT ![msg[w]] = @ \cup {lists[WEvent(w)][at[w] + 1]}]
  /\ at' = [at EXCEPT ![w] = @ + 1]
  /\ UNCHANGED <<ruleVars, registryVars, startVars, restarts, busVars, pc, msg,
                 touched, early>>

\* The list was modified under the enumeration, or the type of the event is not
\* known yet: both throw.
CallThrows(w) ==
  /\ pc[w] = "foreach"
  /\ touched[w] \/ (at[w] < Len(lists[WEvent(w)]) /\ WEvent(w) \notin types)
  /\ Abandon(w)

\* Mutant: a call that returned false completes its message too.
CompleteUnprocessed(w) ==
  /\ pc[w] \in {"has", "foreach"}
  /\ Settle(w, msg[w])
  /\ Rest(w)
  /\ UNCHANGED <<ruleVars, registryVars, startVars, restarts, handled>>

\* The list is exhausted: processed = true, and the message is completed, if
\* its lock is still held.
Complete(w) ==
  /\ pc[w] = "foreach"
  /\ ~touched[w]
  /\ at[w] = Len(lists[WEvent(w)])
  /\ Settle(w, msg[w])
  /\ Rest(w)
  /\ UNCHANGED <<ruleVars, registryVars, startVars, restarts, handled>>

\* CompleteAsync with a lost lock throws.
CompleteTooLate(w) ==
  /\ pc[w] = "foreach"
  /\ ~touched[w]
  /\ at[w] = Len(lists[WEvent(w)])
  /\ ~HoldsLock(w)
  /\ Abandon(w)

-----------------------------------------------------------------------------
(* Faults *)

\* A handler, or the completing, throws.
Error(w) ==
  /\ "error" \in Faults
  /\ pc[w] = "foreach"
  /\ Abandon(w)

\* The lock of a message expires: ProcessEvent returned false, the process died,
\* or a handler is slow.
Expire(m) ==
  /\ state[m] = "locked"
  /\ "expiry" \in Faults \/ msg[owner[m]] # m
  /\ Release(m)
  /\ UNCHANGED <<ruleVars, registryVars, startVars, restarts, workerVars, handled>>

\* The process dies and is started again: registry and calls are gone.
Restart ==
  /\ "crash" \in Faults
  /\ restarts < MaxRestarts
  /\ restarts' = restarts + 1
  /\ keys' = {} /\ lists' = [e \in Events |-> <<>>] /\ types' = {}
  /\ next' = 1 /\ step' = "check" /\ hadKey' = FALSE
  /\ pc' = [w \in Workers |-> "idle"]
  /\ msg' = [w \in Workers |-> None]
  /\ at' = [w \in Workers |-> 0]
  /\ touched' = [w \in Workers |-> FALSE]
  /\ early' = [w \in Workers |-> FALSE]
  /\ UNCHANGED <<ruleVars, busVars, handled>>

-----------------------------------------------------------------------------
StartStep == CheckKey \/ AddRule \/ AddRuleFails \/ AddKey \/ AddHandler \/ AddType
Work(w) == \/ NoKey(w) \/ HasKey(w) \/ Call(w) \/ CallThrows(w)
           \/ Complete(w) \/ CompleteTooLate(w)
Deliver == \E w \in Workers, m \in Messages : Receive(w, m)

Next == \/ StartStep
        \/ \E m \in Messages : Publish(m) \/ Expire(m)
        \/ Deliver
        \/ \E w \in Workers : Work(w) \/ Error(w)
        \/ Restart

Spec == Init /\ [][Next]_vars

\* Threads are scheduled, the bus delivers to an idle worker, the lock of a
\* message nobody works on expires.
Fairness == /\ WF_vars(StartStep)
            /\ \A w \in Workers : WF_vars(Work(w))
            /\ WF_vars(Deliver)
            /\ \A m \in Messages : WF_vars(Expire(m) /\ msg[owner[m]] # m)

FairSpec == Spec /\ Fairness

-----------------------------------------------------------------------------
(* Properties *)

\* Every variable has its type.
TypeOK ==
  /\ rules \subseteq Events /\ ruleFailed \subseteq Events
  /\ keys \subseteq Events /\ types \subseteq Events
  /\ \A e \in Events : \A i \in DOMAIN lists[e] : lists[e][i] \in Handlers
  /\ next \in 1..Len(Startup) + 1
  /\ step \in {"check", "rule", "key", "handler", "type", "done"}
  /\ hadKey \in BOOLEAN
  /\ restarts \in 0..MaxRestarts
  /\ BusTypeOK
  /\ pc \in [Workers -> {"idle", "has", "foreach"}]
  /\ msg \in [Workers -> Messages \cup {None}]
  /\ at \in [Workers -> Nat]
  /\ touched \in [Workers -> BOOLEAN] /\ early \in [Workers -> BOOLEAN]
  /\ handled \in [Messages -> SUBSET Handlers]

\* When start-up is done, on the first start and on any later one, every pair
\* has its rule at the bus, unless adding it ever failed, its handler in the
\* list, once, and the type that ProcessEvent looks up.
StartedIsSubscribed ==
  Started => \A i \in DOMAIN Startup :
    LET e == Startup[i][1] IN
      /\ e \in rules \cup ruleFailed
      /\ e \in keys
      /\ e \in types
      /\ Cardinality({j \in DOMAIN lists[e] : lists[e][j] = Startup[i][2]}) = 1

\* A call of the message handler that began after start-up completes its
\* message only when every handler subscribed for it has run.
LateCompletedIsHandled ==
  [][\A w \in Workers :
       /\ msg[w] # None
       /\ ~early[w]
       /\ state[msg[w]] = "locked" /\ state'[msg[w]] = "completed"
       => Subscribed(WEvent(w)) \subseteq handled[msg[w]]]_vars

\* A message without a key is not stuck: it is delivered again until it finds
\* its handler or its deliveries are used up.
EveryDeliveredIsSettled ==
  \A m \in Messages :
    state[m] = "available" ~> state[m] \in {"completed", "dead"}

\* README.md, line 40: "Every event raised in the system is consumed": the bus
\* forgets a message only when its handlers have run.
CompletedIsHandled ==
  \A m \in Messages :
    state[m] = "completed" => Subscribed(EventOf[m]) \subseteq handled[m]
=============================================================================

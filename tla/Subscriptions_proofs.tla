------------------------- MODULE Subscriptions_proofs -------------------------
(***************************************************************************)
(* Proofs about Subscriptions, for any start-up list, any number of        *)
(* messages, calls of the message handler, deliveries and restarts, and    *)
(* for every choice of faults.                                             *)
(***************************************************************************)
EXTENDS Subscriptions, FiniteSetTheorems, SequenceTheorems, TLAPS

\* The list of every event is a list of handlers.
ListsOK == lists \in [Events -> Seq(Handlers)]

\* A call of the message handler has a message exactly while it is not idle.
BusyHasMessage ==
  \A w \in Workers : IF pc[w] = "idle" THEN msg[w] = None ELSE msg[w] \in Messages

\* The start-up thread is done when no pair is left, and not before.
Position == IF Started THEN next > Len(Startup)
                       ELSE step = "check" \/ next <= Len(Startup)

TypeInv == TypeOK /\ ListsOK /\ BusyHasMessage /\ Position

-----------------------------------------------------------------------------
(* Types *)

\* The pair that is being subscribed is an event and a handler.
LEMMA PairType ==
  ASSUME TypeInv, step \in {"rule", "key", "handler", "type"}
  PROVE  Event \in Events /\ Handler \in Handlers
<1>1. next \in 1..Len(Startup) /\ Startup \in Seq(Events \X Handlers)
  BY StartupAssumption DEF TypeInv, TypeOK, Position, Started
<1>2. Startup[next] \in Events \X Handlers
  BY <1>1, ElementOfSeq
<1> QED BY <1>2 DEF Event, Handler

\* The elements of the lists are handlers.
LEMMA ElementsType ==
  ASSUME NEW L \in [Events -> Seq(Handlers)]
  PROVE  \A e \in Events : \A i \in DOMAIN L[e] : L[e][i] \in Handlers
<1> SUFFICES ASSUME NEW e \in Events, NEW i \in DOMAIN L[e] PROVE L[e][i] \in Handlers
  OBVIOUS
<1>1. L[e] \in Seq(Handlers) /\ i \in 1..Len(L[e])
  BY LenProperties
<1> QED BY <1>1, ElementOfSeq

\* Giving a message up, under its lock or without it, keeps the types of the bus.
LEMMA AbandonMessageType ==
  ASSUME BusTypeOK, NEW w, NEW m \in Messages, AbandonMessage(w, m) \/ Release(m)
  PROVE  BusTypeOK'
  BY DEF BusTypeOK, AbandonMessage, Release, States, busVars

LEMMA TypeInit == Init => TypeInv
<1> SUFFICES ASSUME Init PROVE TypeInv
  OBVIOUS
<1>1. Len(Startup) \in Nat
  BY StartupAssumption
<1>2. <<>> \in Seq(Handlers)
  OBVIOUS
<1>3. ListsOK
  BY <1>2 DEF Init, ListsOK
<1>4. TypeOK
  <2>1. \A e \in Events : \A i \in DOMAIN lists[e] : lists[e][i] \in Handlers
    BY <1>3, ElementsType DEF ListsOK
  <2>2. BusTypeOK /\ next \in 1..Len(Startup) + 1 /\ restarts \in 0..MaxRestarts
    BY <1>1, MaxRestartsAssumption DEF Init, BusInit, BusTypeOK, States
  <2>3. /\ hadKey \in BOOLEAN /\ touched \in [Workers -> BOOLEAN]
        /\ early \in [Workers -> BOOLEAN]
    BY DEF Init
  <2> QED BY <2>1, <2>2, <2>3 DEF Init, TypeOK
<1>5. BusyHasMessage /\ Position
  BY DEF Init, BusyHasMessage, Position, Started
<1> QED BY <1>3, <1>4, <1>5 DEF TypeInv

\* What the start-up thread does keeps the types.
LEMMA StartType ==
  ASSUME TypeInv, StartStep
  PROVE  TypeInv'
<1>0. Len(Startup) \in Nat
  BY StartupAssumption
<1> USE DEF TypeInv, TypeOK, ListsOK, BusyHasMessage, Position, Started
<1>1. CASE CheckKey
  <2>1. hadKey' \in BOOLEAN
    <3>1. CASE next > Len(Startup)
      BY <1>1, <3>1 DEF CheckKey
    <3>2. CASE ~(next > Len(Startup))
      BY <1>1, <3>2 DEF CheckKey, Has
    <3> QED BY <3>1, <3>2
  <2> QED
    BY <1>0, <1>1, <2>1 DEF CheckKey, busVars, BusTypeOK, ruleVars, registryVars, workerVars
<1>2. CASE AddRule
  BY <1>0, <1>2, PairType DEF AddRule, busVars, BusTypeOK, registryVars, workerVars
<1>3. CASE AddRuleFails
  BY <1>0, <1>3, PairType DEF AddRuleFails, busVars, BusTypeOK, registryVars, workerVars
<1>4. CASE AddKey
  <2>1. Event \in Events /\ <<>> \in Seq(Handlers)
    BY <1>4, PairType DEF AddKey
  <2>2. ListsOK' /\ TypeOK'
    BY <1>0, <1>4, <2>1 DEF AddKey, busVars, BusTypeOK, ruleVars, workerVars
  <2> QED BY <1>0, <1>4, <2>2 DEF AddKey, workerVars
<1>5. CASE AddHandler
  <2>1. Event \in Events /\ Append(lists[Event], Handler) \in Seq(Handlers)
    BY <1>5, PairType, AppendProperties DEF AddHandler
  <2>2. ListsOK'
    BY <1>5, <2>1 DEF AddHandler
  <2>3. \A e \in Events : \A i \in DOMAIN lists'[e] : lists'[e][i] \in Handlers
    BY <2>2
  <2> QED BY <1>0, <1>5, <2>2, <2>3 DEF AddHandler, busVars, BusTypeOK, ruleVars
<1>6. CASE AddType
  BY <1>0, <1>6, PairType DEF AddType, busVars, BusTypeOK, ruleVars, workerVars
<1> QED BY <1>1, <1>2, <1>3, <1>4, <1>5, <1>6 DEF StartStep

\* A call that ends in an exception keeps the types.
LEMMA AbandonType ==
  ASSUME TypeInv, NEW w \in Workers, pc[w] # "idle", Abandon(w)
  PROVE  TypeInv'
<1>1. BusTypeOK'
  BY AbandonMessageType DEF TypeInv, TypeOK, BusyHasMessage, Abandon
<1> QED
  BY <1>1 DEF TypeInv, TypeOK, ListsOK, BusyHasMessage, Position, Started, Abandon, Rest,
              Goto, ruleVars, registryVars, startVars

LEMMA TypeStep == TypeInv /\ [Next]_vars => TypeInv'
<1> SUFFICES ASSUME TypeInv, [Next]_vars PROVE TypeInv'
  OBVIOUS
<1> USE NoneAssumption
    DEF TypeInv, TypeOK, ListsOK, BusyHasMessage, Position, Started, Goto,
        ruleVars, registryVars, startVars
<1>1. ASSUME NEW m \in Messages, Publish(m) PROVE TypeInv'
  BY <1>1 DEF Publish, Put, Filter, BusTypeOK, States, workerVars
<1>2. ASSUME NEW m \in Messages, Expire(m) PROVE TypeInv'
  BY <1>2, AbandonMessageType DEF Expire, workerVars
<1>3. ASSUME NEW w \in Workers, NEW m \in Messages, Receive(w, m) PROVE TypeInv'
  <2>1. BusTypeOK'
    BY <1>3 DEF Receive, Lock, BusTypeOK, States
  <2> QED BY <1>3, <2>1 DEF Receive
<1>4. ASSUME NEW w \in Workers, NoKey(w) \/ HasKey(w) PROVE TypeInv'
  <2>1. CASE NoKey(w)
    BY <2>1 DEF NoKey, Rest, BusTypeOK, busVars
  <2>2. CASE HasKey(w)
    BY <2>2 DEF HasKey, BusTypeOK, busVars
  <2> QED BY <1>4, <2>1, <2>2
<1>5. ASSUME NEW w \in Workers, Call(w) PROVE TypeInv'
  <2>1. msg[w] \in Messages /\ WEvent(w) \in Events
    BY <1>5, EventOfAssumption DEF Call, WEvent
  <2>2. at[w] + 1 \in 1..Len(lists[WEvent(w)])
    BY <1>5, <2>1 DEF Call
  <2>3. lists[WEvent(w)][at[w] + 1] \in Handlers
    BY <2>1, <2>2, ElementOfSeq
  <2>4. handled' \in [Messages -> SUBSET Handlers] /\ at' \in [Workers -> Nat]
    BY <1>5, <2>1, <2>3 DEF Call
  <2> QED BY <1>5, <2>4 DEF Call, BusTypeOK, busVars
<1>6. ASSUME NEW w \in Workers, CallThrows(w) \/ CompleteTooLate(w) \/ Error(w)
      PROVE  TypeInv'
  <2>1. pc[w] # "idle" /\ Abandon(w)
    BY <1>6 DEF CallThrows, CompleteTooLate, Error
  <2> QED BY <2>1, AbandonType
<1>7. ASSUME NEW w \in Workers, Complete(w) PROVE TypeInv'
  <2>1. BusTypeOK'
    BY <1>7 DEF Complete, Settle, BusTypeOK, States
  <2> QED BY <1>7, <2>1 DEF Complete, Rest
<1>8. CASE Restart
  <2>1. Len(Startup) \in Nat /\ <<>> \in Seq(Handlers)
    BY StartupAssumption
  <2>2. ListsOK'
    BY <1>8, <2>1 DEF Restart
  <2>3. \A e \in Events : \A i \in DOMAIN lists'[e] : lists'[e][i] \in Handlers
    BY <2>2, ElementsType DEF ListsOK
  <2>4. /\ BusTypeOK' /\ next' \in 1..Len(Startup) + 1 /\ restarts' \in 0..MaxRestarts
    BY <1>8, <2>1, MaxRestartsAssumption DEF Restart, BusTypeOK, busVars
  <2>5. /\ hadKey' \in BOOLEAN /\ touched' \in [Workers -> BOOLEAN]
        /\ early' \in [Workers -> BOOLEAN]
    BY <1>8 DEF Restart
  <2> QED BY <1>8, <2>2, <2>3, <2>4, <2>5 DEF Restart
<1>9. CASE UNCHANGED vars
  BY <1>9 DEF vars, BusTypeOK, busVars, workerVars
<1> QED
  BY <1>1, <1>2, <1>3, <1>4, <1>5, <1>6, <1>7, <1>8, <1>9, StartType
  DEF Next, Deliver, Work

LEMMA TypeInvariant == Spec => []TypeInv
  BY TypeInit, TypeStep, PTL DEF Spec

\* Every variable keeps its type: above all, every element of a list is a
\* handler, and the start-up thread never indexes Startup beyond its end.
THEOREM TypeCorrect == Spec => []TypeOK
  BY TypeInvariant, PTL DEF TypeInv

-----------------------------------------------------------------------------
(***************************************************************************)
(* What start-up has done.  StartedIsSubscribed speaks of the end of       *)
(* start-up only; it is inductive with how far the thread has come in the  *)
(* sequence of steps of each pair, and with why a rule may be skipped: a   *)
(* key in the dictionary means that an earlier pair of the same event has  *)
(* dealt with the rule already, in this start or in an earlier one.        *)
(***************************************************************************)

HasRule(e) == e \in rules \cup ruleFailed
HasHandler(e, h) == \E j \in DOMAIN lists[e] : lists[e][j] = h

\* The i-th pair is behind the thread, or at one of the given steps.
Past(i, steps) == i < next \/ (i = next /\ step \in steps)

KeysHaveRules == /\ \A e \in keys : HasRule(e)
                 /\ step = "rule" /\ hadKey => Has(Event)

PastIsSubscribed ==
  \A i \in DOMAIN Startup :
    LET e == Startup[i][1] IN
      /\ Past(i, {"key", "handler", "type"}) => HasRule(e)
      /\ Past(i, {"handler", "type"}) => e \in keys
      /\ Past(i, {"type"}) => HasHandler(e, Startup[i][2])
      /\ Past(i, {}) => e \in types

NoHandlerTwice ==
  \A e \in Events : \A i, j \in DOMAIN lists[e] : lists[e][i] = lists[e][j] => i = j

StartInv == TypeInv /\ KeysHaveRules /\ PastIsSubscribed /\ NoHandlerTwice

LEMMA StartInit == Init => StartInv
<1> SUFFICES ASSUME Init PROVE StartInv
  OBVIOUS
<1>1. TypeInv /\ Len(Startup) \in Nat /\ DOMAIN Startup = 1..Len(Startup)
  BY TypeInit, StartupAssumption
<1>2. KeysHaveRules /\ PastIsSubscribed
  BY <1>1 DEF Init, KeysHaveRules, PastIsSubscribed, Past
<1>3. NoHandlerTwice
  BY DEF Init, NoHandlerTwice
<1> QED BY <1>1, <1>2, <1>3 DEF StartInv

\* The message pump does not touch what start-up has done.
LEMMA StartUnchanged ==
  ASSUME StartInv, TypeInv', UNCHANGED <<ruleVars, registryVars, startVars>>
  PROVE  StartInv'
<1> USE DEF StartInv, ruleVars, registryVars, startVars
<1>1. KeysHaveRules'
  BY DEF KeysHaveRules, HasRule, Has, Event
<1>2. PastIsSubscribed'
  BY DEF PastIsSubscribed, Past, HasRule, HasHandler
<1>3. NoHandlerTwice'
  BY DEF NoHandlerTwice
<1> QED BY <1>1, <1>2, <1>3

\* A handler that is added: the list keeps what it has, and has no handler twice.
LEMMA HandlerAdded ==
  ASSUME StartInv, AddHandler
  PROVE  /\ HasHandler(Event, Handler)'
         /\ \A e \in Events : \A h : HasHandler(e, h) => HasHandler(e, h)'
         /\ NoHandlerTwice'
<1> DEFINE old == lists[Event]
           new == lists'[Event]
<1>1. /\ Event \in Events /\ Handler \in Handlers
      /\ lists \in [Events -> Seq(Handlers)]
      /\ lists' = [lists EXCEPT ![Event] = Append(old, Handler)]
      /\ ~Contains(old, Handler) /\ UNCHANGED next
  BY PairType DEF StartInv, TypeInv, ListsOK, AddHandler
<1>e. Event' = Event /\ Handler' = Handler
  BY <1>1 DEF Event, Handler
<1> HIDE DEF old, new
<1>2. old \in Seq(Handlers) /\ new = Append(old, Handler)
  BY <1>1 DEF old, new
<1>3. /\ new \in Seq(Handlers) /\ Len(new) = Len(old) + 1 /\ Len(old) \in Nat
      /\ \A i \in 1..Len(old) : new[i] = old[i]
      /\ new[Len(old) + 1] = Handler
      /\ DOMAIN old = 1..Len(old) /\ DOMAIN new = 1..Len(new)
  BY <1>1, <1>2, AppendProperties, LenProperties
<1>4. \A i \in 1..Len(old) : old[i] # Handler
  BY <1>1 DEF Contains
<1>5. HasHandler(Event, Handler)'
  BY <1>e, <1>3 DEF HasHandler, new
<1>6. ASSUME NEW e \in Events, NEW h, HasHandler(e, h) PROVE HasHandler(e, h)'
  <2>1. CASE e = Event
    BY <1>3, <1>6, <2>1 DEF HasHandler, old, new
  <2>2. CASE e # Event
    BY <1>1, <1>6, <2>2 DEF HasHandler
  <2> QED BY <2>1, <2>2
<1>7. NoHandlerTwice'
  <2> SUFFICES ASSUME NEW e \in Events, NEW i \in DOMAIN lists'[e], NEW j \in DOMAIN lists'[e],
                      lists'[e][i] = lists'[e][j]
               PROVE  i = j
    BY DEF NoHandlerTwice
  <2>1. CASE e # Event
    BY <1>1, <2>1 DEF StartInv, NoHandlerTwice
  <2>2. CASE e = Event
    <3>1. /\ i \in 1..Len(old) + 1 /\ j \in 1..Len(old) + 1 /\ new[i] = new[j]
      BY <1>3, <2>2 DEF new
    <3>2. \A k, l \in 1..Len(old) : old[k] = old[l] => k = l
      BY <1>1, <1>3 DEF StartInv, NoHandlerTwice, old
    <3> QED BY <1>3, <1>4, <3>1, <3>2
  <2> QED BY <2>1, <2>2
<1> QED BY <1>5, <1>6, <1>7

\* Every step of the start-up thread leaves its pair behind as it should be.
LEMMA StartStepInv ==
  ASSUME StartInv, TypeInv', StartStep
  PROVE  StartInv'
<1>1. /\ Len(Startup) \in Nat /\ DOMAIN Startup = 1..Len(Startup)
      /\ \A i \in DOMAIN Startup : Startup[i][1] \in Events
  <2>1. Startup \in Seq(Events \X Handlers)
    BY StartupAssumption
  <2>2. Len(Startup) \in Nat /\ DOMAIN Startup = 1..Len(Startup)
    BY <2>1, LenProperties
  <2>3. \A i \in 1..Len(Startup) : Startup[i] \in Events \X Handlers
    BY <2>1, ElementOfSeq
  <2> QED BY <2>2, <2>3
<1>2. /\ next \in Nat \ {0} /\ TypeInv
      /\ KeysHaveRules /\ PastIsSubscribed /\ NoHandlerTwice
  BY DEF StartInv, TypeInv, TypeOK
<1> USE <1>1, <1>2 DEF KeysHaveRules, HasRule, PastIsSubscribed, Past, StartInv
<1>3. CASE CheckKey
  <2>1. NoHandlerTwice'
    BY <1>3 DEF CheckKey, NoHandlerTwice, registryVars
  <2>2. KeysHaveRules'
    BY <1>3 DEF CheckKey, ruleVars, registryVars, Has, Event
  <2>3. PastIsSubscribed'
    BY <1>3 DEF CheckKey, HasHandler, ruleVars, registryVars
  <2> QED BY <2>1, <2>2, <2>3
<1>4. CASE AddRule \/ AddRuleFails
  <2>1. NoHandlerTwice'
    BY <1>4 DEF AddRule, AddRuleFails, NoHandlerTwice, registryVars
  <2>2. KeysHaveRules'
    BY <1>4 DEF AddRule, AddRuleFails, registryVars
  <2>3. HasRule(Event)' /\ Event' = Event
    BY <1>4 DEF AddRule, AddRuleFails, Has, Event
  <2>4. PastIsSubscribed'
    BY <1>4, <2>3 DEF AddRule, AddRuleFails, HasHandler, registryVars, Event
  <2> QED BY <2>1, <2>2, <2>4
<1>5. CASE AddKey
  <2>1. next <= Len(Startup) /\ Event \in Events /\ HasRule(Event)
    BY <1>5, PairType DEF AddKey, TypeInv, Position, Started, Event
  <2>2. \A e \in Events : e \in keys \/ e # Event => lists'[e] = lists[e]
    BY <1>5 DEF AddKey, Has, TypeInv, ListsOK
  <2>3. lists'[Event] = lists[Event] \/ lists'[Event] = <<>>
    BY <1>5, <2>1 DEF AddKey, TypeInv, ListsOK
  <2>4. NoHandlerTwice'
    BY <2>2, <2>3 DEF NoHandlerTwice
  <2>5. KeysHaveRules'
    BY <1>5, <2>1 DEF AddKey, ruleVars
  <2>6. PastIsSubscribed'
    <3>1. \A i \in DOMAIN Startup : Past(i, {"type"})' => i < next
      BY <1>5 DEF AddKey
    <3>2. \A i \in DOMAIN Startup :
            i < next => HasHandler(Startup[i][1], Startup[i][2])'
      BY <2>2 DEF HasHandler
    <3> QED BY <1>5, <2>1, <3>1, <3>2 DEF AddKey, ruleVars, Event
  <2> QED BY <2>4, <2>5, <2>6
<1>6. CASE AddHandler
  <2>1. KeysHaveRules'
    BY <1>6 DEF AddHandler, ruleVars
  <2>2. PastIsSubscribed'
    <3>1. \A i \in DOMAIN Startup :
            Past(i, {"type"})' => HasHandler(Startup[i][1], Startup[i][2])'
      BY <1>6, HandlerAdded DEF AddHandler, Event, Handler
    <3> QED BY <1>6, <3>1 DEF AddHandler, ruleVars
  <2> QED BY <1>6, <2>1, <2>2, HandlerAdded
<1>7. CASE AddType
  <2>1. NoHandlerTwice'
    BY <1>7 DEF AddType, NoHandlerTwice
  <2>2. KeysHaveRules'
    BY <1>7 DEF AddType, ruleVars
  <2>3. PastIsSubscribed'
    BY <1>7 DEF AddType, HasHandler, ruleVars, Event
  <2> QED BY <2>1, <2>2, <2>3
<1> QED BY <1>3, <1>4, <1>5, <1>6, <1>7 DEF StartStep

LEMMA StartNext == StartInv /\ [Next]_vars => StartInv'
<1> SUFFICES ASSUME StartInv, [Next]_vars PROVE StartInv'
  OBVIOUS
<1>0. TypeInv'
  BY TypeStep DEF StartInv
<1>1. CASE StartStep
  BY <1>0, <1>1, StartStepInv
<1>2. CASE Restart
  <2>1. Len(Startup) \in Nat /\ DOMAIN Startup = 1..Len(Startup)
    BY StartupAssumption
  <2>2. KeysHaveRules' /\ PastIsSubscribed'
    BY <1>2, <2>1 DEF Restart, KeysHaveRules, PastIsSubscribed, Past
  <2>3. NoHandlerTwice'
    BY <1>2 DEF Restart, NoHandlerTwice
  <2> QED BY <1>0, <2>2, <2>3 DEF StartInv
<1>3. CASE UNCHANGED vars
  BY <1>0, <1>3, StartUnchanged DEF vars
<1>4. ASSUME NEW m \in Messages, Publish(m) \/ Expire(m) PROVE StartInv'
  BY <1>0, <1>4, StartUnchanged DEF Publish, Expire
<1>5. ASSUME NEW w \in Workers, Work(w) \/ Error(w) PROVE StartInv'
  BY <1>0, <1>5, StartUnchanged
  DEF Work, NoKey, HasKey, Call, CallThrows, Complete, CompleteTooLate, Error, Abandon
<1>6. CASE Deliver
  BY <1>0, <1>6, StartUnchanged DEF Deliver, Receive
<1> QED BY <1>1, <1>2, <1>3, <1>4, <1>5, <1>6 DEF Next

LEMMA StartInvariant == Spec => []StartInv
  BY StartInit, StartNext, PTL DEF Spec

LEMMA StartedFollows == StartInv => StartedIsSubscribed
<1> SUFFICES ASSUME StartInv, Started, NEW i \in DOMAIN Startup,
                    NEW e, e = Startup[i][1], NEW h, h = Startup[i][2]
             PROVE  /\ HasRule(e) /\ e \in keys /\ e \in types
                    /\ Cardinality({j \in DOMAIN lists[e] : lists[e][j] = h}) = 1
  BY DEF StartedIsSubscribed, HasRule
<1>1. i \in 1..Len(Startup) /\ Len(Startup) \in Nat /\ next > Len(Startup) /\ next \in Nat
  BY StartupAssumption DEF StartInv, TypeInv, TypeOK, Position
<1>2. HasRule(e) /\ e \in keys /\ e \in types /\ HasHandler(e, h)
  BY <1>1 DEF StartInv, PastIsSubscribed, Past
<1>3. e \in Events
  BY <1>2 DEF StartInv, TypeInv, TypeOK
<1>4. \E j : {k \in DOMAIN lists[e] : lists[e][k] = h} = {j}
  BY <1>2, <1>3 DEF HasHandler, StartInv, NoHandlerTwice
<1> QED BY <1>2, <1>4, FS_Singleton

\* Whatever start it is, and whatever failed in earlier ones, start-up is done
\* only when every pair of its list has rule, key, type and handler.
THEOREM StartedAreSubscribed == Spec => []StartedIsSubscribed
  BY StartInvariant, StartedFollows, PTL

-----------------------------------------------------------------------------
(***************************************************************************)
(* Calls that began after start-up.  They see lists that no longer change; *)
(* and a lock that passed from such a call to another one has passed to a  *)
(* call that began later still, so the call that completes the message is  *)
(* one of them too.                                                        *)
(***************************************************************************)

\* The call of w began after start-up.
Late(w) == pc[w] # "idle" /\ ~early[w]

NothingCalled == \A w \in Workers : pc[w] # "foreach" => at[w] = 0

LateIsStarted == \A w \in Workers : Late(w) => Started

LockIsLate ==
  \A w, u \in Workers :
    Late(w) /\ pc[u] # "idle" /\ msg[u] = msg[w] /\ LocksMessage(u, msg[w]) => Late(u)

CalledIsHandled ==
  \A w \in Workers : Late(w) =>
    \A j \in 1..at[w] : lists[WEvent(w)][j] \in handled[msg[w]]

LateInv == NothingCalled /\ LateIsStarted /\ LockIsLate /\ CalledIsHandled

\* A step that begins no call, keeps those that go on where they are, gives no
\* lock and changes neither the lists nor the end of start-up.
LEMMA LateKept ==
  ASSUME TypeInv, LateInv, UNCHANGED lists, Started => Started',
         NothingCalled',
         \A w \in Workers : pc'[w] # "idle" =>
           pc[w] # "idle" /\ UNCHANGED <<msg[w], early[w], at[w]>>,
         \A m \in Messages : handled[m] \subseteq handled'[m],
         \A w \in Workers, m \in Messages : LocksMessage(w, m)' => LocksMessage(w, m)
  PROVE  LateInv'
<1> USE DEF LateInv
<1>1. \A w \in Workers : Late(w)' => Late(w)
  BY DEF Late
<1>2. LateIsStarted'
  BY <1>1 DEF LateIsStarted
<1>3. LockIsLate'
  BY <1>1 DEF LockIsLate, Late, TypeInv, BusyHasMessage
<1>4. CalledIsHandled'
  BY <1>1 DEF CalledIsHandled, Late, WEvent, TypeInv, BusyHasMessage
<1> QED BY <1>2, <1>3, <1>4

\* Giving up a lock gives it to nobody.
LEMMA NobodyLocks ==
  ASSUME TypeOK, NEW m \in Messages,
         Release(m) \/ (\E v \in Workers : AbandonMessage(v, m) \/ Settle(v, m))
         \/ Put(m) \/ Filter(m)
  PROVE  \A w \in Workers, n \in Messages : LocksMessage(w, n)' => LocksMessage(w, n)
  BY DEF TypeOK, BusTypeOK, States, LocksMessage, Release, AbandonMessage, Settle, Put,
         Filter, busVars

LEMMA LateInit == Init => LateInv
  BY DEF Init, LateInv, NothingCalled, LateIsStarted, LockIsLate, CalledIsHandled, Late

LEMMA LateNext == TypeInv /\ LateInv /\ [Next]_vars => LateInv'
<1> SUFFICES ASSUME TypeInv, LateInv, [Next]_vars PROVE LateInv'
  OBVIOUS
<1>t. TypeOK /\ BusyHasMessage /\ NothingCalled
  BY DEF TypeInv, LateInv
<1>1. CASE StartStep
  <2>1. /\ ~Started /\ UNCHANGED <<pc, at, early>>
    BY <1>1 DEF StartStep, CheckKey, AddRule, AddRuleFails, AddKey, AddHandler, AddType,
                Started, workerVars
  <2>2. \A w \in Workers : ~Late(w)'
    BY <2>1 DEF LateInv, LateIsStarted, Late
  <2>3. NothingCalled'
    BY <1>t, <2>1 DEF NothingCalled
  <2> QED BY <2>2, <2>3 DEF LateInv, LateIsStarted, LockIsLate, CalledIsHandled
<1>2. CASE Restart
  BY <1>2 DEF Restart, LateInv, NothingCalled, LateIsStarted, LockIsLate, CalledIsHandled, Late
<1>3. CASE UNCHANGED vars
  <2>1. NothingCalled'
    BY <1>3, <1>t DEF vars, workerVars, NothingCalled
  <2> QED
    BY <1>3, <2>1, LateKept DEF vars, registryVars, startVars, workerVars, busVars,
                                Started, LocksMessage
<1>4. ASSUME NEW m \in Messages, Publish(m) \/ Expire(m) PROVE LateInv'
  <2>1. NothingCalled'
    BY <1>4, <1>t DEF Publish, Expire, workerVars, NothingCalled
  <2>2. \A w \in Workers, n \in Messages : LocksMessage(w, n)' => LocksMessage(w, n)
    BY <1>4, <1>t, NobodyLocks DEF Publish, Expire
  <2> QED
    BY <1>4, <2>1, <2>2, LateKept
    DEF Publish, Expire, workerVars, registryVars, startVars, Started
<1>5. ASSUME NEW w \in Workers, Abandon(w), pc[w] # "idle" PROVE LateInv'
  <2>1. NothingCalled'
    BY <1>5, <1>t DEF Abandon, Rest, Goto, NothingCalled, TypeOK
  <2>2. \A u \in Workers, n \in Messages : LocksMessage(u, n)' => LocksMessage(u, n)
    BY <1>5, <1>t, NobodyLocks DEF Abandon, BusyHasMessage
  <2> QED
    BY <1>5, <1>t, <2>1, <2>2, LateKept
    DEF Abandon, Rest, Goto, registryVars, startVars, Started, TypeOK
<1>6. ASSUME NEW w \in Workers, CallThrows(w) \/ CompleteTooLate(w) \/ Error(w)
      PROVE  LateInv'
  BY <1>5, <1>6 DEF CallThrows, CompleteTooLate, Error
<1>7. ASSUME NEW w \in Workers, NoKey(w) \/ HasKey(w) PROVE LateInv'
  <2>1. NothingCalled'
    BY <1>7, <1>t DEF NoKey, HasKey, Rest, Goto, NothingCalled, TypeOK
  <2> QED
    BY <1>7, <1>t, <2>1, LateKept
    DEF NoKey, HasKey, Rest, Goto, registryVars, startVars, busVars, Started, TypeOK,
        LocksMessage
<1>8. ASSUME NEW w \in Workers, Complete(w) PROVE LateInv'
  <2>1. NothingCalled'
    BY <1>8, <1>t DEF Complete, Rest, Goto, NothingCalled, TypeOK
  <2>2. \A u \in Workers, n \in Messages : LocksMessage(u, n)' => LocksMessage(u, n)
    BY <1>8, <1>t, NobodyLocks DEF Complete, BusyHasMessage
  <2> QED
    BY <1>8, <1>t, <2>1, <2>2, LateKept
    DEF Complete, Rest, Goto, registryVars, startVars, Started, TypeOK
<1>9. ASSUME NEW w \in Workers, Call(w) PROVE LateInv'
  <2>0. /\ pc[w] = "foreach" /\ msg[w] \in Messages /\ at[w] \in Nat
        /\ handled' = [handled EXCEPT ![msg[w]] = @ \cup {lists[WEvent(w)][at[w] + 1]}]
        /\ at' = [at EXCEPT ![w] = @ + 1]
        /\ UNCHANGED <<lists, step, busVars, pc, msg, early>>
    BY <1>9, <1>t DEF Call, registryVars, startVars, BusyHasMessage, TypeOK
  <2>1. NothingCalled'
    BY <1>t, <2>0 DEF NothingCalled, TypeOK
  <2>2. LateIsStarted' /\ LockIsLate'
    BY <2>0 DEF LateInv, LateIsStarted, LockIsLate, Late, Started, LocksMessage, busVars
  <2>3. CalledIsHandled'
    <3> SUFFICES ASSUME NEW u \in Workers, Late(u)', NEW j \in 1..at'[u]
                 PROVE  lists'[WEvent(u)'][j] \in handled'[msg'[u]]
      BY DEF CalledIsHandled
    <3>1. Late(u) /\ msg[u] \in Messages /\ msg'[u] = msg[u] /\ WEvent(u)' = WEvent(u)
      BY <1>t, <2>0 DEF Late, BusyHasMessage, WEvent
    <3>2. handled[msg[u]] \subseteq handled'[msg[u]]
      BY <1>t, <2>0, <3>1 DEF TypeOK
    <3>3. CASE j \in 1..at[u]
      BY <2>0, <3>1, <3>2, <3>3 DEF LateInv, CalledIsHandled
    <3>4. CASE j \notin 1..at[u]
      <4>1. u = w /\ j = at[w] + 1
        BY <1>t, <2>0, <3>4 DEF TypeOK
      <4> QED BY <1>t, <2>0, <3>1, <4>1 DEF TypeOK
    <3> QED BY <3>3, <3>4
  <2> QED BY <2>1, <2>2, <2>3 DEF LateInv
<1>10. ASSUME NEW w \in Workers, NEW m \in Messages, Receive(w, m) PROVE LateInv'
  <2>0. /\ pc[w] = "idle" /\ at[w] = 0 /\ state[m] = "available"
        /\ state' = [state EXCEPT ![m] = "locked"]
        /\ owner' = [owner EXCEPT ![m] = w]
        /\ pc' = [pc EXCEPT ![w] = "has"]
        /\ msg' = [msg EXCEPT ![w] = m]
        /\ early' = [early EXCEPT ![w] = ~Started]
        /\ UNCHANGED <<lists, step, at, handled>>
    BY <1>10, <1>t DEF Receive, Lock, Goto, NothingCalled, registryVars, startVars
  <2>1. NothingCalled'
    BY <1>t, <2>0 DEF NothingCalled, TypeOK
  <2>2. \A u \in Workers \ {w} :
          /\ Late(u)' <=> Late(u)
          /\ UNCHANGED <<pc[u], msg[u], early[u]>>
    BY <1>t, <2>0 DEF Late, TypeOK
  <2>3. Late(w)' <=> Started
    BY <1>t, <2>0 DEF Late, TypeOK
  <2>4. LateIsStarted'
    BY <2>0, <2>2, <2>3 DEF LateInv, LateIsStarted, Started
  <2>5. LockIsLate'
    <3> SUFFICES ASSUME NEW v \in Workers, NEW u \in Workers, Late(v)', pc'[u] # "idle",
                        msg'[u] = msg'[v], LocksMessage(u, msg[v])'
                 PROVE  Late(u)'
      BY DEF LockIsLate
    <3>1. CASE u = w
      BY <2>2, <2>3, <3>1 DEF LateInv, LateIsStarted
    <3>2. CASE u # w
      <4>1. msg'[v] # m /\ msg[u] = msg'[u] /\ msg[u] \in Messages
        BY <1>t, <2>0, <2>2, <3>2 DEF LocksMessage, TypeOK, BusTypeOK, BusyHasMessage
      <4>2. v # w
        BY <1>t, <2>0, <4>1 DEF TypeOK
      <4>3. LocksMessage(u, msg[v])
        BY <1>t, <2>0, <2>2, <4>1, <4>2 DEF LocksMessage, TypeOK, BusTypeOK
      <4> QED BY <2>2, <3>2, <4>2, <4>3 DEF LateInv, LockIsLate
    <3> QED BY <3>1, <3>2
  <2>6. CalledIsHandled'
    <3> SUFFICES ASSUME NEW u \in Workers, Late(u)', NEW j \in 1..at'[u]
                 PROVE  lists'[WEvent(u)'][j] \in handled'[msg'[u]]
      BY DEF CalledIsHandled
    <3>1. u # w
      BY <2>0
    <3> QED BY <2>0, <2>2, <3>1 DEF LateInv, CalledIsHandled, WEvent
  <2> QED BY <2>1, <2>4, <2>5, <2>6 DEF LateInv
<1> QED
  BY <1>1, <1>2, <1>3, <1>4, <1>6, <1>7, <1>8, <1>9, <1>10 DEF Next, Deliver, Work

\* Only the call that holds the lock completes a message, and its list is at its end.
LEMMA CompletedByCall ==
  ASSUME TypeInv, [Next]_vars, NEW m \in Messages,
         state[m] = "locked", state'[m] = "completed"
  PROVE  \E u \in Workers : msg[u] = m /\ Complete(u)
<1>t. TypeOK /\ BusyHasMessage
  BY DEF TypeInv
<1>r. ASSUME NEW n \in Messages, Release(n) PROVE FALSE
  BY <1>t, <1>r DEF Release, TypeOK, BusTypeOK
<1>a. ASSUME NEW w \in Workers, NEW n \in Messages, AbandonMessage(w, n) PROVE FALSE
  BY <1>a, <1>r DEF AbandonMessage, busVars
<1>1. CASE StartStep \/ Restart \/ UNCHANGED vars
  BY <1>1 DEF StartStep, CheckKey, AddRule, AddRuleFails, AddKey, AddHandler, AddType,
              Restart, vars, busVars
<1>2. ASSUME NEW n \in Messages, Publish(n) \/ Expire(n) PROVE FALSE
  BY <1>2, <1>t, <1>r DEF Publish, Expire, Put, Filter, TypeOK, BusTypeOK
<1>3. ASSUME NEW w \in Workers, NEW n \in Messages, Receive(w, n) PROVE FALSE
  BY <1>3, <1>t DEF Receive, Lock, TypeOK, BusTypeOK
<1>4. ASSUME NEW w \in Workers, NoKey(w) \/ HasKey(w) \/ Call(w) PROVE FALSE
  BY <1>4 DEF NoKey, HasKey, Call, busVars
<1>5. ASSUME NEW w \in Workers, CallThrows(w) \/ CompleteTooLate(w) \/ Error(w) PROVE FALSE
  BY <1>5, <1>t, <1>a
  DEF CallThrows, CompleteTooLate, Error, Abandon, BusyHasMessage
<1>6. ASSUME NEW w \in Workers, Complete(w) PROVE msg[w] = m
  BY <1>6, <1>t DEF Complete, Settle, TypeOK, BusTypeOK
<1> QED
  BY <1>1, <1>2, <1>3, <1>4, <1>5, <1>6 DEF Next, Deliver, Work

LEMMA LateStep ==
  ASSUME StartInv, LateInv, [Next]_vars, NEW w \in Workers,
         msg[w] # None, ~early[w], state[msg[w]] = "locked", state'[msg[w]] = "completed"
  PROVE  Subscribed(WEvent(w)) \subseteq handled[msg[w]]
<1>t. TypeInv /\ TypeOK /\ BusyHasMessage /\ Position /\ ListsOK /\ PastIsSubscribed
  BY DEF StartInv, TypeInv
<1>1. msg[w] \in Messages /\ Late(w)
  BY <1>t DEF BusyHasMessage, Late
<1>2. PICK u \in Workers : msg[u] = msg[w] /\ Complete(u)
  BY <1>t, <1>1, CompletedByCall
<1>3. /\ Late(u) /\ Started /\ WEvent(u) = WEvent(w) /\ WEvent(u) \in Events
      /\ at[u] = Len(lists[WEvent(u)])
  BY <1>1, <1>2, EventOfAssumption
  DEF LateInv, LockIsLate, LateIsStarted, Complete, Settle, WEvent
<1> SUFFICES ASSUME NEW i \in DOMAIN Startup, Startup[i][1] = WEvent(w)
             PROVE  Startup[i][2] \in handled[msg[w]]
  BY DEF Subscribed
<1>4. i \in 1..Len(Startup) /\ Len(Startup) \in Nat /\ next > Len(Startup) /\ next \in Nat
  BY <1>t, <1>3, StartupAssumption DEF TypeOK, Position
<1>5. HasHandler(WEvent(w), Startup[i][2])
  BY <1>t, <1>4 DEF PastIsSubscribed, Past
<1>6. PICK j \in DOMAIN lists[WEvent(w)] : lists[WEvent(w)][j] = Startup[i][2]
  BY <1>5 DEF HasHandler
<1>7. j \in 1..at[u]
  BY <1>t, <1>3, <1>6, LenProperties DEF ListsOK
<1> QED BY <1>2, <1>3, <1>6, <1>7 DEF LateInv, CalledIsHandled

\* A call that began after start-up completes its message only when every handler
\* subscribed for it has run, although locks pass between calls and the process
\* may be started again.
THEOREM LateCompletedAreHandled == Spec => LateCompletedIsHandled
<1> DEFINE Handled ==
      \A w \in Workers :
        /\ msg[w] # None
        /\ ~early[w]
        /\ state[msg[w]] = "locked" /\ state'[msg[w]] = "completed"
        => Subscribed(WEvent(w)) \subseteq handled[msg[w]]
<1>1. StartInv /\ LateInv /\ [Next]_vars => [Handled]_vars
  BY LateStep
<1>2. StartInv => TypeInv
  BY DEF StartInv
<1>3. Spec => []LateInv
  BY <1>2, LateInit, LateNext, StartInvariant, PTL DEF Spec
<1> QED
  BY <1>1, <1>3, StartInvariant, PTL DEF Spec, LateCompletedIsHandled
=============================================================================

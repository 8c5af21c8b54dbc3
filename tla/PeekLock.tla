------------------------------ MODULE PeekLock ------------------------------
(***************************************************************************)
(* One subscription of the Azure Service Bus, as EventBusServiceBus uses   *)
(* it: the client receives in peek-lock mode and completes a message       *)
(* itself.  A message is locked for the worker that handles it; it is      *)
(* completed under that lock, or the lock is given up (the handler threw)  *)
(* or lost (it expired, the process died), and the message is delivered    *)
(* again, at most MaxDeliveries times, then dead-lettered.  Messages are   *)
(* delivered in any order.  The bus is not in the repository.              *)
(***************************************************************************)
EXTENDS Naturals

CONSTANTS Messages,       \* the messages ever sent to the subscription
          Workers,        \* concurrent calls of the message handler
          MaxDeliveries,  \* bound: the subscription's MaxDeliveryCount
          NoWorker        \* nobody

ASSUME MaxDeliveriesAssumption == MaxDeliveries \in Nat \ {0}
ASSUME NoWorkerAssumption == NoWorker \notin Workers

VARIABLES
  state,       \* state[m]: where message m is
  deliveries,  \* deliveries[m]: how often m was delivered
  owner        \* owner[m]: the worker that holds the lock on m

busVars == <<state, deliveries, owner>>

States == {"unsent", "filtered", "available", "locked", "completed", "dead"}

BusTypeOK == /\ state \in [Messages -> States]
             /\ deliveries \in [Messages -> Nat]
             /\ owner \in [Messages -> Workers \cup {NoWorker}]

BusInit == /\ state = [m \in Messages |-> "unsent"]
           /\ deliveries = [m \in Messages |-> 0]
           /\ owner = [m \in Messages |-> NoWorker]

LocksMessage(w, m) == state[m] = "locked" /\ owner[m] = w

\* A publisher sends m to the topic; a rule of the subscription lets it through.
Put(m) == /\ state[m] = "unsent"
          /\ state' = [state EXCEPT ![m] = "available"]
          /\ UNCHANGED <<deliveries, owner>>

\* No rule does.
Filter(m) == /\ state[m] = "unsent"
             /\ state' = [state EXCEPT ![m] = "filtered"]
             /\ UNCHANGED <<deliveries, owner>>

\* Mutant: deliveries are not counted.
LockUncounted(w, m) == /\ state[m] = "available"
                       /\ state' = [state EXCEPT ![m] = "locked"]
                       /\ owner' = [owner EXCEPT ![m] = w]
                       /\ UNCHANGED deliveries

\* m is delivered to w.
Lock(w, m) == /\ state[m] = "available"
              /\ state' = [state EXCEPT ![m] = "locked"]
              /\ owner' = [owner EXCEPT ![m] = w]
              /\ deliveries' = [deliveries EXCEPT ![m] = @ + 1]

\* CompleteAsync under the lock: the bus forgets m.
Settle(w, m) == /\ LocksMessage(w, m)
                /\ state' = [state EXCEPT ![m] = "completed"]
                /\ owner' = [owner EXCEPT ![m] = NoWorker]
                /\ UNCHANGED deliveries

\* Mutant: a message that is given up is sent anew.
ReleaseForever(m) ==
  /\ state' = [state EXCEPT ![m] = "available"]
  /\ owner' = [owner EXCEPT ![m] = NoWorker]
  /\ deliveries' = [deliveries EXCEPT ![m] = 0]

\* Mutant: the last delivery is never made.
ReleaseEarly(m) ==
  /\ state' = [state EXCEPT ![m] =
                 IF deliveries[m] + 1 >= MaxDeliveries THEN "dead" ELSE "available"]
  /\ owner' = [owner EXCEPT ![m] = NoWorker]
  /\ UNCHANGED deliveries

\* The lock on m is given up or lost.
Release(m) ==
  /\ state' = [state EXCEPT ![m] =
                 IF deliveries[m] >= MaxDeliveries THEN "dead" ELSE "available"]
  /\ owner' = [owner EXCEPT ![m] = NoWorker]
  /\ UNCHANGED deliveries

\* The handler of w throws: the client abandons m, which has no effect when the
\* lock is lost already.
AbandonMessage(w, m) ==
  IF LocksMessage(w, m) THEN Release(m) ELSE UNCHANGED busVars
=============================================================================

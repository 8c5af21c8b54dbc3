------------------------ MODULE TrackingStore_proofs ------------------------
(***************************************************************************)
(* Proofs about TrackingStore, for any number of bookings, messages,       *)
(* handler calls, replicas and deliveries, and for every choice of faults. *)
(***************************************************************************)
EXTENDS TrackingStore, Sequences, FiniteSetTheorems, SequenceTheorems, TLAPS

\* A worker has a message exactly while it is not idle.
BusyHasMessage == \A w \in Workers : pc[w] # "idle" => msg[w] \in Messages

TypeInv == TypeOK /\ BusyHasMessage

LEMMA TypeInit == Init => TypeInv
  BY FS_EmptySet DEF Init, TypeInv, TypeOK, BusyHasMessage, States, Steps, BusInit,
                     BusTypeOK

\* Giving up a lock keeps the types of the subscription.
LEMMA ReleaseType ==
  ASSUME TypeOK, NEW m \in Messages, Release(m)
  PROVE  /\ state' \in [Messages -> States]
         /\ deliveries' \in [Messages -> Nat]
         /\ owner' \in [Messages -> Workers \cup {NoWorker}]
  BY DEF TypeOK, Release, States, BusTypeOK

LEMMA AbandonType ==
  ASSUME TypeInv, NEW w \in Workers, pc[w] # "idle", Abandon(w),
         UNCHANGED storeVars
  PROVE  TypeInv'
<1>1. msg[w] \in Messages
  BY DEF TypeInv, BusyHasMessage
<1>2. /\ state' \in [Messages -> States]
      /\ deliveries' \in [Messages -> Nat]
      /\ owner' \in [Messages -> Workers \cup {NoWorker}]
  <2>1. CASE HoldsLock(w)
    BY <1>1, <2>1, ReleaseType DEF Abandon, HoldsLock, AbandonMessage, TypeInv
  <2>2. CASE ~HoldsLock(w)
    BY <2>2 DEF Abandon, HoldsLock, AbandonMessage, TypeInv, TypeOK, BusTypeOK, busVars
  <2> QED BY <2>1, <2>2
<1>3. /\ pc' \in [Workers -> Steps]
      /\ msg' \in [Workers -> Messages \cup {NoMessage}]
      /\ original' \in [Workers -> Nat]
      /\ found' \in [Workers -> BOOLEAN]
      /\ BusyHasMessage'
  BY DEF TypeInv, TypeOK, BusyHasMessage, Abandon, Rest, Goto, Steps
<1>4. /\ currentVersion' \in [Bookings -> Nat]
      /\ rows' \subseteq Row
      /\ IsFiniteSet(rows')
      /\ announced' \subseteq Messages
  BY DEF TypeInv, TypeOK, Abandon, storeVars
<1> QED BY <1>2, <1>3, <1>4 DEF TypeInv, TypeOK, BusTypeOK

LEMMA TypeStep == TypeInv /\ [Next]_vars => TypeInv'
<1> SUFFICES ASSUME TypeInv, [Next]_vars PROVE TypeInv'
  OBVIOUS
<1> USE BookingOfAssumption DEF TypeInv, TypeOK, BusyHasMessage, BusTypeOK
<1>1. ASSUME NEW m \in Messages, Send(m) PROVE TypeInv'
  BY <1>1 DEF Send, storeVars, workerVars, States, Put
<1>2. ASSUME NEW m \in Messages, Expire(m) PROVE TypeInv'
  BY <1>2, ReleaseType DEF Expire, storeVars, workerVars
<1>3. ASSUME NEW w \in Workers, NEW m \in Messages, Receive(w, m) PROVE TypeInv'
  BY <1>3 DEF Receive, Goto, storeVars, States, Steps, Lock
<1>4. ASSUME NEW w \in Workers, GetEventVersion(w) PROVE TypeInv'
  BY <1>4 DEF GetEventVersion, Goto, WBooking, busVars, storeVars, Steps
<1>5. ASSUME NEW w \in Workers, GetTracking(w) PROVE TypeInv'
  BY <1>5 DEF GetTracking, Goto, WBooking, busVars, storeVars, Steps
<1>6. ASSUME NEW w \in Workers, Replay(w) PROVE TypeInv'
  <2>1. Cardinality(History(WBooking(w))) \in Nat
    BY FS_Subset, FS_CardinalityType DEF History
  <2> QED BY <1>6, <2>1 DEF Replay, Goto, busVars, storeVars, Steps
<1>7. ASSUME NEW w \in Workers, SelectAggregate(w) PROVE TypeInv'
  BY <1>7 DEF SelectAggregate, Goto, busVars, storeVars, Steps
<1>8. ASSUME NEW w \in Workers, CommitSave(w) PROVE TypeInv'
  <2>1. msg[w] \in Messages /\ WBooking(w) \in Bookings
    BY <1>8 DEF CommitSave, WBooking
  <2> DEFINE r == [id |-> WBooking(w), version |-> original[w] + 1, msg |-> msg[w]]
  <2>2. r \in Row
    BY <2>1 DEF Row
  <2>3. rows' \subseteq Row /\ IsFiniteSet(rows')
    BY <1>8, <2>2, FS_AddElement DEF CommitSave
  <2>4. currentVersion' \in [Bookings -> Nat]
    BY <1>8, <2>1 DEF CommitSave, NewVersion
  <2>5. pc' \in [Workers -> Steps]
    BY <1>8 DEF CommitSave, Goto, Steps
  <2> QED BY <1>8, <2>3, <2>4, <2>5 DEF CommitSave, Goto, busVars
<1>9. ASSUME NEW w \in Workers, RejectSave(w) PROVE TypeInv'
  BY <1>9, AbandonType DEF RejectSave
<1>10. ASSUME NEW w \in Workers, Publish(w) PROVE TypeInv'
  BY <1>10 DEF Publish, Goto, busVars, storeVars, Steps
<1>11. ASSUME NEW w \in Workers, Complete(w) PROVE TypeInv'
  BY <1>11 DEF Complete, Rest, Goto, storeVars, Steps, States, Settle
<1>12. ASSUME NEW w \in Workers, CompleteTooLate(w) PROVE TypeInv'
  BY <1>12, AbandonType DEF CompleteTooLate
<1>13. ASSUME NEW w \in Workers, Error(w) PROVE TypeInv'
  BY <1>13, AbandonType DEF Error
<1>14. ASSUME NEW p \in Replicas, Crash(p) PROVE TypeInv'
  BY <1>14 DEF Crash, busVars, storeVars, Steps
<1>15. CASE UNCHANGED vars
  BY <1>15 DEF vars
<1> QED
  BY <1>1, <1>2, <1>3, <1>4, <1>5, <1>6, <1>7, <1>8, <1>9, <1>10, <1>11, <1>12,
     <1>13, <1>14, <1>15 DEF Next, Deliver, Work

\* Every variable keeps its type, and a busy worker has a message.
THEOREM TypeCorrect == Spec => [](TypeOK /\ BusyHasMessage)
  BY TypeInit, TypeStep, PTL DEF Spec, TypeInv
-----------------------------------------------------------------------------
(***************************************************************************)
(* The trail is contiguous.  TrailContiguous is not inductive: a save that *)
(* inserts the aggregate writes version original + 1, which is 1 only if   *)
(* the version it read before is not ahead of the store.  So a handler     *)
(* about to save must not know more than the store: for one that replays   *)
(* the trail this rests on the contiguity itself, which bounds the number  *)
(* of events by the aggregate's version.                                   *)
(***************************************************************************)

VersionBehind ==
  \A w \in Workers : pc[w] \in {"select", "write"} =>
    original[w] <= currentVersion[WBooking(w)]

TrailInv == TypeInv /\ TrailContiguous /\ VersionBehind

\* A booking has at most CurrentVersion events.
LEMMA HistoryBound ==
  ASSUME TypeOK, TrailContiguous, NEW b \in Bookings
  PROVE  Cardinality(History(b)) <= currentVersion[b]
<1> DEFINE n == currentVersion[b]
           f == [r \in History(b) |-> r.version]
<1>1. n \in Nat
  BY DEF TypeOK
<1>2. IsFiniteSet(1..n) /\ Cardinality(1..n) = n
  BY <1>1, FS_Interval
<1>3. f \in Injection(History(b), 1..n)
  <2>1. \A r \in History(b) : r.version \in 1..n
    BY <1>1 DEF History, TypeOK, TrailContiguous, Row
  <2>2. \A r, s \in History(b) : r.version = s.version => r = s
    BY DEF History, TrailContiguous
  <2> QED BY <2>1, <2>2 DEF Injection, IsInjective
<1> HIDE DEF f
<1> QED BY <1>2, <1>3, FS_Injection

\* A step that changes neither the store nor, for a worker that is about to
\* save, what it knows, keeps the invariant.
LEMMA StoreUnchanged ==
  ASSUME TrailInv, TypeInv', UNCHANGED storeVars,
         \A w \in Workers : pc'[w] \in {"select", "write"} =>
           pc[w] \in {"select", "write"} /\ UNCHANGED <<msg[w], original[w]>>
  PROVE  TrailInv'
<1>1. TrailContiguous'
  BY DEF TrailInv, TrailContiguous, storeVars
<1>2. VersionBehind'
  BY DEF TrailInv, VersionBehind, WBooking, storeVars
<1> QED BY <1>1, <1>2 DEF TrailInv

LEMMA AbandonKeepsTrail ==
  ASSUME TrailInv, TypeInv', NEW w \in Workers, Abandon(w), UNCHANGED storeVars
  PROVE  TrailInv'
  BY StoreUnchanged DEF TrailInv, TypeInv, TypeOK, Abandon, Rest, Goto

\* What a successful save writes: the next event, at the next version.
LEMMA CommitAppends ==
  ASSUME TrailInv, NEW w \in Workers, CommitSave(w)
  PROVE  LET b == WBooking(w)
             n == currentVersion[b] + 1
         IN  /\ b \in Bookings
             /\ msg[w] \in Messages
             /\ currentVersion' = [currentVersion EXCEPT ![b] = n]
             /\ rows' = rows \cup {[id |-> b, version |-> n, msg |-> msg[w]]}
<1> USE DEF TrailInv, TypeInv, TypeOK, BusTypeOK
<1>1. msg[w] \in Messages /\ WBooking(w) \in Bookings
  BY BookingOfAssumption DEF CommitSave, BusyHasMessage, WBooking
<1>2. /\ original[w] \in Nat
      /\ currentVersion[WBooking(w)] \in Nat
      /\ original[w] <= currentVersion[WBooking(w)]
  BY <1>1 DEF CommitSave, VersionBehind
<1>3. original[w] = currentVersion[WBooking(w)]
  BY <1>2 DEF CommitSave, CanSave
<1> QED BY <1>1, <1>3 DEF CommitSave, NewVersion

LEMMA TrailInit == Init => TrailInv
  BY TypeInit DEF Init, TrailInv, TrailContiguous, VersionBehind

LEMMA TrailStep == TrailInv /\ [Next]_vars => TrailInv'
<1> SUFFICES ASSUME TrailInv, [Next]_vars PROVE TrailInv'
  OBVIOUS
<1>0. TypeInv'
  BY TypeStep DEF TrailInv
<1> USE <1>0 DEF TypeInv, TypeOK, BusTypeOK
<1>1. ASSUME NEW m \in Messages, Send(m) PROVE TrailInv'
  BY <1>1, StoreUnchanged DEF Send, workerVars
<1>2. ASSUME NEW m \in Messages, Expire(m) PROVE TrailInv'
  BY <1>2, StoreUnchanged DEF Expire, workerVars
<1>3. ASSUME NEW w \in Workers, NEW m \in Messages, Receive(w, m) PROVE TrailInv'
  BY <1>3, StoreUnchanged DEF Receive, Goto, TrailInv
<1>4. ASSUME NEW w \in Workers, GetEventVersion(w) PROVE TrailInv'
  <2>1. currentVersion[WBooking(w)] \in Nat
    BY <1>4, BookingOfAssumption
       DEF GetEventVersion, TrailInv, BusyHasMessage, WBooking
  <2>2. VersionBehind'
    BY <1>4, <2>1
       DEF GetEventVersion, Goto, TrailInv, VersionBehind, WBooking, storeVars
  <2>3. TrailContiguous'
    BY <1>4 DEF GetEventVersion, TrailInv, TrailContiguous, storeVars
  <2> QED BY <2>2, <2>3 DEF TrailInv
<1>5. ASSUME NEW w \in Workers, GetTracking(w) PROVE TrailInv'
  <2>1. currentVersion[WBooking(w)] \in Nat
    BY <1>5, BookingOfAssumption DEF GetTracking, TrailInv, BusyHasMessage, WBooking
  <2>2. VersionBehind'
    BY <1>5, <2>1
       DEF GetTracking, Goto, TrailInv, VersionBehind, WBooking, storeVars
  <2>3. TrailContiguous'
    BY <1>5 DEF GetTracking, TrailInv, TrailContiguous, storeVars
  <2> QED BY <2>2, <2>3 DEF TrailInv
<1>6. ASSUME NEW w \in Workers, Replay(w) PROVE TrailInv'
  <2>1. WBooking(w) \in Bookings
    BY <1>6, BookingOfAssumption DEF Replay, TrailInv, BusyHasMessage, WBooking
  <2>2. Cardinality(History(WBooking(w))) <= currentVersion[WBooking(w)]
    BY <2>1, HistoryBound DEF TrailInv
  <2>3. VersionBehind'
    BY <1>6, <2>2 DEF Replay, Goto, TrailInv, VersionBehind, WBooking, storeVars
  <2>4. TrailContiguous'
    BY <1>6 DEF Replay, TrailInv, TrailContiguous, storeVars
  <2> QED BY <2>3, <2>4 DEF TrailInv
<1>7. ASSUME NEW w \in Workers, SelectAggregate(w) PROVE TrailInv'
  BY <1>7, StoreUnchanged DEF SelectAggregate, Goto, TrailInv
<1>8. ASSUME NEW w \in Workers, CommitSave(w) PROVE TrailInv'
  <2> DEFINE b == WBooking(w)
             n == currentVersion[b] + 1
             r == [id |-> b, version |-> n, msg |-> msg[w]]
  <2>1. /\ b \in Bookings
        /\ currentVersion[b] \in Nat
        /\ currentVersion' = [currentVersion EXCEPT ![b] = n]
        /\ rows' = rows \cup {r}
    BY <1>8, CommitAppends DEF TrailInv
  <2>2. \A s \in rows : s.id \in Bookings /\ s.version \in Nat \ {0}
    BY DEF TrailInv, Row
  <2> HIDE DEF b
  <2>3. TrailContiguous'
    <3>1. \A s \in rows' : s.version <= currentVersion'[s.id]
      BY <2>1, <2>2 DEF TrailInv, TrailContiguous
    <3>2. \A c \in Bookings : \A v \in 1..currentVersion'[c] :
            \E s \in rows' : s.id = c /\ s.version = v
      <4> SUFFICES ASSUME NEW c \in Bookings, NEW v \in 1..currentVersion'[c]
                   PROVE  \E s \in rows' : s.id = c /\ s.version = v
        OBVIOUS
      <4>1. CASE c = b /\ v = n
        <5>1. r \in rows' /\ r.id = b /\ r.version = n
          BY <2>1
        <5> QED BY <4>1, <5>1
      <4>2. CASE ~(c = b /\ v = n)
        <5>1. v \in 1..currentVersion[c]
          BY <2>1, <4>2 DEF TrailInv
        <5> QED BY <2>1, <5>1 DEF TrailInv, TrailContiguous
      <4> QED BY <4>1, <4>2
    <3>3. \A s, t \in rows' : s.id = t.id /\ s.version = t.version => s = t
      <4>1. \A s \in rows : s.id = b => s.version # n
        BY <2>1, <2>2 DEF TrailInv, TrailContiguous
      <4> QED BY <2>1, <4>1 DEF TrailInv, TrailContiguous
    <3> QED BY <3>1, <3>2, <3>3 DEF TrailContiguous
  <2>4. VersionBehind'
    <3> SUFFICES ASSUME NEW u \in Workers, pc'[u] \in {"select", "write"}
                 PROVE  original'[u] <= currentVersion'[WBooking(u)']
      BY DEF VersionBehind
    <3>1. /\ pc[u] = pc'[u]
          /\ WBooking(u)' = WBooking(u)
          /\ original'[u] = original[u]
      BY <1>8 DEF CommitSave, Goto, WBooking, TrailInv
    <3>2. /\ WBooking(u) \in Bookings
          /\ original[u] \in Nat
          /\ original[u] <= currentVersion[WBooking(u)]
      BY <3>1, BookingOfAssumption DEF TrailInv, VersionBehind, BusyHasMessage, WBooking
    <3> QED BY <2>1, <3>1, <3>2 DEF TrailInv
  <2> QED BY <2>3, <2>4 DEF TrailInv
<1>9. ASSUME NEW w \in Workers, RejectSave(w) PROVE TrailInv'
  BY <1>9, AbandonKeepsTrail DEF RejectSave
<1>10. ASSUME NEW w \in Workers, Publish(w) PROVE TrailInv'
  BY <1>10, StoreUnchanged DEF Publish, Goto, TrailInv
<1>11. ASSUME NEW w \in Workers, Complete(w) PROVE TrailInv'
  BY <1>11, StoreUnchanged DEF Complete, Rest, Goto, TrailInv
<1>12. ASSUME NEW w \in Workers, CompleteTooLate(w) PROVE TrailInv'
  BY <1>12, AbandonKeepsTrail DEF CompleteTooLate
<1>13. ASSUME NEW w \in Workers, Error(w) PROVE TrailInv'
  BY <1>13, AbandonKeepsTrail DEF Error
<1>14. ASSUME NEW p \in Replicas, Crash(p) PROVE TrailInv'
  BY <1>14, StoreUnchanged DEF Crash, TrailInv
<1>15. CASE UNCHANGED vars
  BY <1>15, StoreUnchanged DEF vars, storeVars
<1> QED
  BY <1>1, <1>2, <1>3, <1>4, <1>5, <1>6, <1>7, <1>8, <1>9, <1>10, <1>11, <1>12,
     <1>13, <1>14, <1>15 DEF Next, Deliver, Work

LEMMA TrailInvariant == Spec => []TrailInv
  BY TrailInit, TrailStep, PTL DEF Spec

\* The events of a booking have exactly the versions 1 to CurrentVersion, for
\* any number of racing handlers and any faults.
THEOREM TrailIsContiguous == Spec => []TrailContiguous
  BY TrailInvariant, PTL DEF TrailInv
-----------------------------------------------------------------------------
(***************************************************************************)
(* Nothing is completed or announced before it is recorded.  Inductive     *)
(* with what a worker has done when it reaches each step, and with every   *)
(* event being on the trail of its own booking.                            *)
(***************************************************************************)

SavedIsRecorded ==
  \A w \in Workers : pc[w] \in {"publish", "complete"} => Recorded(msg[w])

PublishedIsAnnounced ==
  \A w \in Workers :
    /\ pc[w] = "publish" => msg[w] \in Announcing
    /\ pc[w] = "complete" /\ msg[w] \in Announcing => msg[w] \in announced

OwnTrail == \A r \in rows : r.id = BookingOf[r.msg]

DoneInv == /\ TypeInv
           /\ SavedIsRecorded
           /\ PublishedIsAnnounced
           /\ OwnTrail
           /\ CompletedIsDone
           /\ AnnouncedIsRecorded

\* A step that keeps the store and the announcements, completes nothing, and
\* moves no worker on to publishing or completing, keeps the invariant.
LEMMA NothingDone ==
  ASSUME DoneInv, TypeInv', UNCHANGED <<storeVars, announced>>,
         \A m \in Messages : state'[m] = "completed" => state[m] = "completed",
         \A w \in Workers : pc'[w] \in {"publish", "complete"} =>
           UNCHANGED <<pc[w], msg[w]>>
  PROVE  DoneInv'
<1>1. \A m : Recorded(m)' <=> Recorded(m)
  BY DEF Recorded, RowsOf, storeVars
<1>2. SavedIsRecorded' /\ PublishedIsAnnounced'
  BY <1>1 DEF DoneInv, SavedIsRecorded, PublishedIsAnnounced
<1>3. OwnTrail' /\ CompletedIsDone' /\ AnnouncedIsRecorded'
  BY <1>1 DEF DoneInv, OwnTrail, CompletedIsDone, AnnouncedIsRecorded, storeVars
<1> QED BY <1>2, <1>3 DEF DoneInv

LEMMA AbandonDoesNothing ==
  ASSUME DoneInv, TypeInv', NEW w \in Workers, msg[w] \in Messages,
         Abandon(w), UNCHANGED storeVars
  PROVE  DoneInv'
<1>1. \A m \in Messages : state'[m] = "completed" => state[m] = "completed"
  BY DEF Abandon, Release, busVars, DoneInv, TypeInv, TypeOK, AbandonMessage, BusTypeOK
<1>2. \A u \in Workers : pc'[u] \in {"publish", "complete"} =>
        UNCHANGED <<pc[u], msg[u]>>
  BY DEF Abandon, Rest, Goto, DoneInv, TypeInv, TypeOK
<1>3. UNCHANGED announced
  BY DEF Abandon
<1> QED BY <1>1, <1>2, <1>3, NothingDone

LEMMA DoneInit == Init => DoneInv
  BY TypeInit DEF Init, DoneInv, SavedIsRecorded, PublishedIsAnnounced, OwnTrail,
                  CompletedIsDone, AnnouncedIsRecorded, BusInit

LEMMA DoneStep == DoneInv /\ [Next]_vars => DoneInv'
<1> SUFFICES ASSUME DoneInv, [Next]_vars PROVE DoneInv'
  OBVIOUS
<1>0. TypeInv /\ TypeInv'
  BY TypeStep DEF DoneInv
<1> USE <1>0 DEF TypeInv, TypeOK, BusTypeOK
<1>1. ASSUME NEW m \in Messages, Send(m) PROVE DoneInv'
  BY <1>1, NothingDone DEF Send, workerVars, Put
<1>2. ASSUME NEW m \in Messages, Expire(m) PROVE DoneInv'
  <2>1. \A n \in Messages : state'[n] = "completed" => state[n] = "completed"
    BY <1>2 DEF Expire, Release
  <2> QED BY <1>2, <2>1, NothingDone DEF Expire, workerVars
<1>3. ASSUME NEW w \in Workers, NEW m \in Messages, Receive(w, m) PROVE DoneInv'
  BY <1>3, NothingDone DEF Receive, Goto, Lock
<1>4. ASSUME NEW w \in Workers, GetEventVersion(w) PROVE DoneInv'
  BY <1>4, NothingDone DEF GetEventVersion, Goto, busVars
<1>5. ASSUME NEW w \in Workers, GetTracking(w) PROVE DoneInv'
  BY <1>5, NothingDone DEF GetTracking, Goto, busVars
<1>6. ASSUME NEW w \in Workers, Replay(w) PROVE DoneInv'
  BY <1>6, NothingDone DEF Replay, Goto, busVars
<1>7. ASSUME NEW w \in Workers, SelectAggregate(w) PROVE DoneInv'
  BY <1>7, NothingDone DEF SelectAggregate, Goto, busVars
<1>8. ASSUME NEW w \in Workers, CommitSave(w) PROVE DoneInv'
  <2> DEFINE r == [id |-> WBooking(w), version |-> original[w] + 1, msg |-> msg[w]]
  <2>1. rows' = rows \cup {r} /\ UNCHANGED <<busVars, announced, msg>>
    BY <1>8 DEF CommitSave
  <2>2. Recorded(msg[w])' /\ \A m : Recorded(m) => Recorded(m)'
    <3>1. r \in rows' /\ r.msg = msg'[w] /\ rows \subseteq rows'
      BY <2>1
    <3> HIDE DEF r
    <3> QED BY <3>1 DEF Recorded, RowsOf
  <2>3. OwnTrail'
    BY <2>1 DEF DoneInv, OwnTrail, WBooking
  <2>4. SavedIsRecorded'
    BY <1>8, <2>1, <2>2 DEF CommitSave, Goto, DoneInv, SavedIsRecorded
  <2>5. PublishedIsAnnounced'
    BY <1>8, <2>1 DEF CommitSave, Goto, DoneInv, PublishedIsAnnounced
  <2>6. CompletedIsDone' /\ AnnouncedIsRecorded'
    BY <2>1, <2>2 DEF DoneInv, CompletedIsDone, AnnouncedIsRecorded, busVars
  <2> QED BY <2>3, <2>4, <2>5, <2>6 DEF DoneInv
<1>9. ASSUME NEW w \in Workers, RejectSave(w) PROVE DoneInv'
  BY <1>9, AbandonDoesNothing DEF RejectSave, BusyHasMessage
<1>10. ASSUME NEW w \in Workers, Publish(w) PROVE DoneInv'
  <2>1. /\ announced' = announced \cup {msg[w]}
        /\ UNCHANGED <<busVars, storeVars, msg>>
    BY <1>10 DEF Publish
  <2>2. \A m : Recorded(m)' <=> Recorded(m)
    BY <2>1 DEF Recorded, RowsOf, storeVars
  <2>3. Recorded(msg[w])
    BY <1>10 DEF Publish, DoneInv, SavedIsRecorded
  <2>4. SavedIsRecorded' /\ PublishedIsAnnounced'
    BY <1>10, <2>1, <2>2, <2>3
       DEF Publish, Goto, DoneInv, SavedIsRecorded, PublishedIsAnnounced
  <2>5. OwnTrail' /\ CompletedIsDone' /\ AnnouncedIsRecorded'
    BY <2>1, <2>2, <2>3
       DEF DoneInv, OwnTrail, CompletedIsDone, AnnouncedIsRecorded, busVars, storeVars
  <2> QED BY <2>4, <2>5 DEF DoneInv
<1>11. ASSUME NEW w \in Workers, Complete(w) PROVE DoneInv'
  <2>1. /\ state' = [state EXCEPT ![msg[w]] = "completed"]
        /\ UNCHANGED <<storeVars, announced>>
        /\ pc' = [pc EXCEPT ![w] = "idle"]
        /\ msg' = [msg EXCEPT ![w] = NoMessage]
    BY <1>11 DEF Complete, Rest, Goto, Settle
  <2>2. \A m : Recorded(m)' <=> Recorded(m)
    BY <2>1 DEF Recorded, RowsOf, storeVars
  <2>3. Recorded(msg[w]) /\ (msg[w] \in Announcing => msg[w] \in announced)
    BY <1>11 DEF Complete, DoneInv, SavedIsRecorded, PublishedIsAnnounced
  <2>4. SavedIsRecorded' /\ PublishedIsAnnounced'
    BY <2>1, <2>2 DEF DoneInv, SavedIsRecorded, PublishedIsAnnounced
  <2>5. CompletedIsDone'
    BY <2>1, <2>2, <2>3 DEF DoneInv, CompletedIsDone
  <2>6. OwnTrail' /\ AnnouncedIsRecorded'
    BY <2>1, <2>2 DEF DoneInv, OwnTrail, AnnouncedIsRecorded, storeVars
  <2> QED BY <2>4, <2>5, <2>6 DEF DoneInv
<1>12. ASSUME NEW w \in Workers, CompleteTooLate(w) PROVE DoneInv'
  BY <1>12, AbandonDoesNothing DEF CompleteTooLate, BusyHasMessage
<1>13. ASSUME NEW w \in Workers, Error(w) PROVE DoneInv'
  BY <1>13, AbandonDoesNothing DEF Error, BusyHasMessage
<1>14. ASSUME NEW p \in Replicas, Crash(p) PROVE DoneInv'
  BY <1>14, NothingDone DEF Crash, busVars
<1>15. CASE UNCHANGED vars
  BY <1>15, NothingDone DEF vars, storeVars
<1> QED
  BY <1>1, <1>2, <1>3, <1>4, <1>5, <1>6, <1>7, <1>8, <1>9, <1>10, <1>11, <1>12,
     <1>13, <1>14, <1>15 DEF Next, Deliver, Work

LEMMA DoneInvariant == Spec => []DoneInv
  BY DoneInit, DoneStep, PTL DEF Spec

\* A completed message has its event on the trail and, if its handler
\* announces, its change of status on the topic: no completion loses an event,
\* however often its lock was lost and its handler interrupted.
THEOREM CompletedAreDone == Spec => []CompletedIsDone
  BY DoneInvariant, PTL DEF DoneInv

\* Every announced change of status is on the trail.
THEOREM AnnouncedAreRecorded == Spec => []AnnouncedIsRecorded
  BY DoneInvariant, PTL DEF DoneInv
-----------------------------------------------------------------------------
(***************************************************************************)
(* The trail is a log.                                                     *)
(***************************************************************************)

LEMMA AppendStep ==
  ASSUME TrailInv, [Next]_vars
  PROVE  /\ rows \subseteq rows'
         /\ Cardinality(rows') <= Cardinality(rows) + 1
         /\ \A b \in Bookings : currentVersion'[b] >= currentVersion[b]
<1>1. Cardinality(rows) \in Nat
  BY FS_CardinalityType DEF TrailInv, TypeInv, TypeOK
<1>2. ASSUME NEW w \in Workers, CommitSave(w)
      PROVE  /\ rows \subseteq rows'
             /\ Cardinality(rows') <= Cardinality(rows) + 1
             /\ \A b \in Bookings : currentVersion'[b] >= currentVersion[b]
  <2> DEFINE c == WBooking(w)
             n == currentVersion[c] + 1
             r == [id |-> c, version |-> n, msg |-> msg[w]]
  <2>1. /\ currentVersion' = [currentVersion EXCEPT ![c] = n]
        /\ rows' = rows \cup {r}
    BY <1>2, CommitAppends
  <2> HIDE DEF r
  <2>2. Cardinality(rows \cup {r}) <= Cardinality(rows) + 1
    <3>1. IsFiniteSet(rows)
      BY DEF TrailInv, TypeInv, TypeOK
    <3>2. Cardinality(rows \cup {r})
            = IF r \in rows THEN Cardinality(rows) ELSE Cardinality(rows) + 1
      BY <3>1, FS_AddElement
    <3> QED BY <1>1, <3>2
  <2>3. \A b \in Bookings : currentVersion'[b] >= currentVersion[b]
    BY <2>1 DEF TrailInv, TypeInv, TypeOK
  <2> QED BY <2>1, <2>2, <2>3
<1>3. CASE UNCHANGED storeVars
  BY <1>1, <1>3 DEF storeVars, TrailInv, TypeInv, TypeOK
<1>4. CASE \E w \in Workers : CommitSave(w)
  BY <1>2, <1>4
<1>5. UNCHANGED storeVars \/ \E w \in Workers : CommitSave(w)
  BY DEF Next, vars, Send, Expire, Deliver, Receive, Work, GetEventVersion, GetTracking,
         Replay, SelectAggregate, RejectSave, Publish, Complete, CompleteTooLate,
         Error, Crash, storeVars
<1> QED BY <1>3, <1>4, <1>5

\* No step removes or rewrites an event, appends two, or takes a version back.
THEOREM TrailIsAppendOnly == Spec => AppendOnly
<1>1. TrailInv /\ [Next]_vars =>
        [/\ rows \subseteq rows'
         /\ Cardinality(rows') <= Cardinality(rows) + 1
         /\ \A b \in Bookings : currentVersion'[b] >= currentVersion[b]
        ]_<<rows, currentVersion>>
  BY AppendStep
<1> QED BY <1>1, TrailInvariant, PTL DEF Spec, AppendOnly

-----------------------------------------------------------------------------
(***************************************************************************)
(* Refinement of OrderTrail.                                               *)
(***************************************************************************)

RefInv == TrailInv /\ DoneInv

\* The event at position v of a trail is the event with that version.
LEMMA TrailAt ==
  ASSUME TrailInv, NEW r \in rows
  PROVE  /\ r.id \in Bookings
         /\ r.version \in 1..currentVersion[r.id]
         /\ TrailOf(r.id)[r.version] = r.msg
<1> USE DEF TrailInv, TypeInv, TypeOK, Row, BusTypeOK
<1>1. /\ r.id \in Bookings
      /\ r.version \in 1..currentVersion[r.id]
  BY DEF TrailContiguous
<1>2. (CHOOSE s \in rows : s.id = r.id /\ s.version = r.version) = r
  BY DEF TrailContiguous
<1>3. EventAt(r.id, r.version) = r.msg
  BY <1>2 DEF EventAt
<1> QED BY <1>1, <1>3 DEF TrailOf

\* A function on 1..n extended at n + 1 is the sequence with one more element.
LEMMA AppendIsExtension ==
  ASSUME NEW S, NEW n \in Nat, NEW f \in [1..n -> S], NEW x \in S
  PROVE  Append(f, x) = [v \in 1..n + 1 |-> IF v = n + 1 THEN x ELSE f[v]]
<1>1. f \in Seq(S) /\ Len(f) = n
  OBVIOUS
<1>2. /\ Append(f, x) \in Seq(S)
      /\ Len(Append(f, x)) = n + 1
      /\ \A v \in 1..n + 1 : Append(f, x)[v] = IF v = n + 1 THEN x ELSE f[v]
  BY <1>1
<1>3. DOMAIN Append(f, x) = 1..n + 1
  BY <1>2, LenProperties
<1>4. Append(f, x) = [v \in 1..n + 1 |-> Append(f, x)[v]]
  BY <1>2, <1>3, LenProperties
<1> QED BY <1>2, <1>4

\* Adding the next event of b to the table appends it to the trail of b, and
\* leaves the other trails alone.
LEMMA TrailExtends ==
  ASSUME TrailInv, TrailInv', NEW b \in Bookings, NEW m \in Messages,
         currentVersion' = [currentVersion EXCEPT ![b] = currentVersion[b] + 1],
         rows' = rows \cup {[id |-> b, version |-> currentVersion[b] + 1, msg |-> m]}
  PROVE  /\ TrailOf(b)' = Append(TrailOf(b), m)
         /\ \A c \in Bookings \ {b} : TrailOf(c)' = TrailOf(c)
<1>1. PICK n \in Nat : n = currentVersion[b]
  BY DEF TrailInv, TypeInv, TypeOK
<1>2. currentVersion'[b] = n + 1
  BY <1>1 DEF TrailInv, TypeInv, TypeOK
<1> DEFINE r == [id |-> b, version |-> n + 1, msg |-> m]
<1>3. rows' = rows \cup {r}
  BY <1>1
<1>4. ASSUME NEW c \in Bookings \ {b} PROVE TrailOf(c)' = TrailOf(c)
  <2>1. currentVersion'[c] = currentVersion[c]
    BY DEF TrailInv, TypeInv, TypeOK
  <2>2. ASSUME NEW v PROVE EventAt(c, v)' = EventAt(c, v)
    <3>1. \A s : s \in rows' /\ s.id = c <=> s \in rows /\ s.id = c
      BY <1>3
    <3>2. (CHOOSE s \in rows' : s.id = c /\ s.version = v)
            = (CHOOSE s \in rows : s.id = c /\ s.version = v)
      BY <3>1
    <3> QED BY <3>2 DEF EventAt
  <2> QED BY <2>1, <2>2 DEF TrailOf
<1>5. EventAt(b, n + 1)' = m
  <2>1. r \in rows' /\ r.id = b /\ r.version = n + 1 /\ r.msg = m
    BY <1>3
  <2>2. \A s \in rows' : s.id = b /\ s.version = n + 1 => s = r
    BY <2>1 DEF TrailInv, TrailContiguous
  <2>3. (CHOOSE s \in rows' : s.id = b /\ s.version = n + 1) = r
    BY <2>1, <2>2
  <2> QED BY <2>1, <2>3 DEF EventAt
<1>6. ASSUME NEW v \in 1..n PROVE EventAt(b, v)' = EventAt(b, v)
  <2>1. \A s : s \in rows' /\ s.version = v <=> s \in rows /\ s.version = v
    BY <1>3
  <2>2. (CHOOSE s \in rows' : s.id = b /\ s.version = v)
          = (CHOOSE s \in rows : s.id = b /\ s.version = v)
    BY <2>1
  <2> QED BY <2>2 DEF EventAt
<1>7. TrailOf(b) \in [1..n -> Messages]
  <2>1. ASSUME NEW v \in 1..n PROVE EventAt(b, v) \in Messages
    <3>1. PICK s \in rows : s.id = b /\ s.version = v
      BY <1>1 DEF TrailInv, TrailContiguous
    <3>2. TrailOf(b)[v] = s.msg /\ s.msg \in Messages
      BY <3>1, TrailAt DEF TrailInv, TypeInv, TypeOK, Row
    <3> QED BY <1>1, <3>2 DEF TrailOf
  <2> QED BY <1>1, <2>1 DEF TrailOf
<1>8. TrailOf(b)' = [v \in 1..n + 1 |-> IF v = n + 1 THEN m ELSE TrailOf(b)[v]]
  <2>1. TrailOf(b)' = [v \in 1..n + 1 |-> EventAt(b, v)']
    BY <1>2 DEF TrailOf
  <2>2. ASSUME NEW v \in 1..n + 1
        PROVE  EventAt(b, v)' = IF v = n + 1 THEN m ELSE TrailOf(b)[v]
    <3>1. CASE v = n + 1
      BY <1>5, <3>1
    <3>2. CASE v # n + 1
      <4>1. v \in 1..n
        BY <3>2
      <4> QED BY <1>1, <1>6, <3>2, <4>1 DEF TrailOf
    <3> QED BY <3>1, <3>2
  <2> QED BY <2>1, <2>2
<1> QED BY <1>4, <1>7, <1>8, AppendIsExtension

\* A recorded message is on the abstract trail of its booking.
LEMMA RecordedIsOnTrail ==
  ASSUME RefInv, NEW m \in Messages, Recorded(m)
  PROVE  Trail!OnTrail(m)
<1>1. PICK r \in rows : r.msg = m
  BY DEF Recorded, RowsOf
<1>2. r.id = BookingOf[m] /\ BookingOf[m] \in Bookings
  BY <1>1, BookingOfAssumption DEF RefInv, DoneInv, OwnTrail
<1>3. /\ r.version \in 1..currentVersion[BookingOf[m]]
      /\ TrailOf(BookingOf[m])[r.version] = m
  BY <1>1, <1>2, TrailAt DEF RefInv
<1>4. DOMAIN TrailOf(BookingOf[m]) = 1..currentVersion[BookingOf[m]]
  BY DEF TrailOf
<1> QED BY <1>2, <1>3, <1>4 DEF Trail!OnTrail

\* A step that changes neither the store nor what is announced or completed is
\* a stutter of OrderTrail.
LEMMA Stutter ==
  ASSUME UNCHANGED <<storeVars, announced>>,
         \A m \in Messages : (state'[m] = "completed") = (state[m] = "completed")
  PROVE  UNCHANGED Trail!trailVars
<1>1. \A b : TrailOf(b)' = TrailOf(b)
  BY DEF TrailOf, EventAt, storeVars
<1> QED BY <1>1 DEF Trail!trailVars

LEMMA AbandonStutters ==
  ASSUME TypeInv, NEW w \in Workers, msg[w] \in Messages, Abandon(w),
         UNCHANGED storeVars
  PROVE  UNCHANGED Trail!trailVars
<1>1. \A m \in Messages : (state'[m] = "completed") = (state[m] = "completed")
  BY DEF Abandon, HoldsLock, Release, busVars, TypeInv, TypeOK, LocksMessage,
         AbandonMessage, BusTypeOK
<1> QED BY <1>1, Stutter DEF Abandon

LEMMA RefinementInit == Init => Trail!Init
<1> SUFFICES ASSUME Init PROVE Trail!Init
  OBVIOUS
<1>1. \A b \in Bookings : TrailOf(b) = << >>
  BY DEF Init, TrailOf
<1> QED BY <1>1 DEF Init, Trail!Init, BusInit

LEMMA RefinementStep == RefInv /\ [Next]_vars => [Trail!Next]_Trail!trailVars
<1> SUFFICES ASSUME RefInv, [Next]_vars
             PROVE  Trail!Next \/ UNCHANGED Trail!trailVars
  OBVIOUS
<1> USE DEF RefInv, TrailInv, TypeInv, TypeOK, BusTypeOK
<1>1. ASSUME NEW m \in Messages, Send(m) PROVE UNCHANGED Trail!trailVars
  BY <1>1, Stutter DEF Send, Put
<1>2. ASSUME NEW m \in Messages, Expire(m) PROVE UNCHANGED Trail!trailVars
  <2>1. \A n \in Messages : (state'[n] = "completed") = (state[n] = "completed")
    BY <1>2 DEF Expire, Release
  <2> QED BY <1>2, <2>1, Stutter DEF Expire
<1>3. ASSUME NEW w \in Workers, NEW m \in Messages, Receive(w, m)
      PROVE  UNCHANGED Trail!trailVars
  BY <1>3, Stutter DEF Receive, Lock
<1>4. ASSUME NEW w \in Workers, GetEventVersion(w) PROVE UNCHANGED Trail!trailVars
  BY <1>4, Stutter DEF GetEventVersion, busVars
<1>5. ASSUME NEW w \in Workers, GetTracking(w) PROVE UNCHANGED Trail!trailVars
  BY <1>5, Stutter DEF GetTracking, busVars
<1>6. ASSUME NEW w \in Workers, Replay(w) PROVE UNCHANGED Trail!trailVars
  BY <1>6, Stutter DEF Replay, busVars
<1>7. ASSUME NEW w \in Workers, SelectAggregate(w) PROVE UNCHANGED Trail!trailVars
  BY <1>7, Stutter DEF SelectAggregate, busVars
<1>8. ASSUME NEW w \in Workers, CommitSave(w) PROVE Trail!Next
  <2>1. PICK m \in Messages, b \in Bookings : m = msg[w] /\ b = BookingOf[m]
    BY <1>8, CommitAppends DEF WBooking
  <2>2. /\ currentVersion' = [currentVersion EXCEPT ![b] = currentVersion[b] + 1]
        /\ rows' = rows \cup {[id |-> b, version |-> currentVersion[b] + 1, msg |-> m]}
    BY <1>8, <2>1, CommitAppends DEF WBooking
  <2>3. /\ TrailOf(b)' = Append(TrailOf(b), m)
        /\ \A c \in Bookings \ {b} : TrailOf(c)' = TrailOf(c)
    BY <2>2, TrailStep, TrailExtends
  <2>4. Trail!Extend(m)
    BY <1>8, <2>1, <2>3 DEF CommitSave, busVars, Trail!Extend
  <2> QED BY <2>4 DEF Trail!Next
<1>9. ASSUME NEW w \in Workers, RejectSave(w) PROVE UNCHANGED Trail!trailVars
  BY <1>9, AbandonStutters DEF RejectSave, BusyHasMessage
<1>10. ASSUME NEW w \in Workers, Publish(w) PROVE Trail!Next
  <2>1. msg[w] \in Messages /\ Recorded(msg[w]) /\ msg[w] \in Announcing
    BY <1>10 DEF Publish, DoneInv, BusyHasMessage, SavedIsRecorded, PublishedIsAnnounced
  <2>2. Trail!OnTrail(msg[w])
    BY <2>1, RecordedIsOnTrail
  <2>3. \A b : TrailOf(b)' = TrailOf(b)
    BY <1>10 DEF Publish, TrailOf, EventAt, storeVars
  <2>4. Trail!Announce(msg[w])
    BY <1>10, <2>1, <2>2, <2>3 DEF Publish, busVars, Trail!Announce
  <2> QED BY <2>1, <2>4 DEF Trail!Next
<1>11. ASSUME NEW w \in Workers, Complete(w) PROVE Trail!Next
  <2>1. /\ msg[w] \in Messages
        /\ Recorded(msg[w])
        /\ msg[w] \in Announcing => msg[w] \in announced
    BY <1>11 DEF Complete, DoneInv, BusyHasMessage, SavedIsRecorded,
                 PublishedIsAnnounced
  <2>2. Trail!OnTrail(msg[w])
    BY <2>1, RecordedIsOnTrail
  <2>3. \A b : TrailOf(b)' = TrailOf(b)
    BY <1>11 DEF Complete, TrailOf, EventAt, storeVars
  <2>4. {m \in Messages : state'[m] = "completed"}
        = {m \in Messages : state[m] = "completed"} \cup {msg[w]}
    BY <1>11, <2>1 DEF Complete, Settle
  <2>5. PICK m \in Messages : m = msg[w]
    BY <2>1
  <2>6. Trail!Settle(m)
    BY <1>11, <2>1, <2>2, <2>3, <2>4, <2>5 DEF Complete, Trail!Settle
  <2> QED BY <2>6 DEF Trail!Next
<1>12. ASSUME NEW w \in Workers, CompleteTooLate(w) PROVE UNCHANGED Trail!trailVars
  BY <1>12, AbandonStutters DEF CompleteTooLate, BusyHasMessage
<1>13. ASSUME NEW w \in Workers, Error(w) PROVE UNCHANGED Trail!trailVars
  BY <1>13, AbandonStutters DEF Error, BusyHasMessage
<1>14. ASSUME NEW p \in Replicas, Crash(p) PROVE UNCHANGED Trail!trailVars
  BY <1>14, Stutter DEF Crash, busVars
<1>15. CASE UNCHANGED vars
  BY <1>15, Stutter DEF vars, storeVars
<1> QED
  BY <1>1, <1>2, <1>3, <1>4, <1>5, <1>6, <1>7, <1>8, <1>9, <1>10, <1>11, <1>12,
     <1>13, <1>14, <1>15 DEF Next, Deliver, Work

\* The service implements OrderTrail: every step of racing handlers appends one
\* event to one trail, announces or settles what is on a trail, or changes
\* nothing a reader of the trail sees.
THEOREM RefinesOrderTrail == Spec => ImplementsOrderTrail
<1>1. Spec => []RefInv
  BY TrailInvariant, DoneInvariant, PTL DEF RefInv
<1> QED
  BY <1>1, RefinementInit, RefinementStep, PTL DEF Spec, ImplementsOrderTrail,
                                                   Trail!Spec

-----------------------------------------------------------------------------
(***************************************************************************)
(* One event on the trail for every delivery.  OneRowPerDelivery is not    *)
(* inductive: a delivery is counted before its handler saves, and with     *)
(* locks that expire several handlers of one message may be on their way   *)
(* to the save.  Every one of them has its own delivery: those that have   *)
(* not saved yet are added to the events that are on the trail.            *)
(***************************************************************************)

Unsaved == {"load", "replay", "select", "write"}

\* The handlers that may still put m on the trail.
Writers(m) == {w \in Workers : msg[w] = m /\ pc[w] \in Unsaved}

Paid(m) == /\ IsFiniteSet(Writers(m))
           /\ Cardinality(RowsOf(m)) + Cardinality(Writers(m)) <= deliveries[m]

PaidInv == \A m \in Messages : Paid(m)

LEMMA RowsFinite ==
  ASSUME TypeOK, NEW m
  PROVE  IsFiniteSet(RowsOf(m)) /\ Cardinality(RowsOf(m)) \in Nat
  BY FS_Subset, FS_CardinalityType DEF TypeOK, RowsOf

\* A step that appends no event of m, starts no handler of it and takes no
\* delivery back.
LEMMA PaidKept ==
  ASSUME TypeOK, TypeOK', NEW m \in Messages, Paid(m),
         RowsOf(m)' = RowsOf(m), Writers(m)' \subseteq Writers(m),
         deliveries'[m] = deliveries[m]
  PROVE  Paid(m)'
<1> DEFINE old == Cardinality(Writers(m))
           new == Cardinality(Writers(m)')
           n == Cardinality(RowsOf(m))
<1>1. IsFiniteSet(Writers(m)') /\ new <= old /\ new \in Nat /\ old \in Nat
  BY FS_Subset, FS_CardinalityType DEF Paid
<1>2. n \in Nat /\ deliveries[m] \in Nat /\ n + old <= deliveries[m]
  BY RowsFinite DEF Paid, TypeOK, BusTypeOK
<1> HIDE DEF old, new, n
<1>3. n + new <= deliveries[m]
  BY <1>1, <1>2
<1> QED BY <1>1, <1>3 DEF Paid, new, n

LEMMA PaidInit == Init => PaidInv
<1> SUFFICES ASSUME Init, NEW m \in Messages PROVE Paid(m)
  BY DEF PaidInv
<1>1. RowsOf(m) = {} /\ Writers(m) = {} /\ deliveries[m] = 0
  BY DEF Init, BusInit, RowsOf, Writers, Unsaved
<1> QED BY <1>1, FS_EmptySet DEF Paid

\* A delivery pays for the handler it starts.
LEMMA PaidReceive ==
  ASSUME TypeOK, TypeOK', NEW m \in Messages, Paid(m),
         NEW w \in Workers, NEW n \in Messages, Receive(w, n)
  PROVE  Paid(m)'
<1>1. /\ pc[w] = "idle" /\ pc' = [pc EXCEPT ![w] = "load"] /\ msg' = [msg EXCEPT ![w] = n]
      /\ deliveries' = [deliveries EXCEPT ![n] = @ + 1] /\ UNCHANGED rows
  BY DEF Receive, Lock, Goto, storeVars
<1>2. RowsOf(m)' = RowsOf(m)
  BY <1>1 DEF RowsOf
<1>3. CASE n # m
  <2>1. Writers(m)' \subseteq Writers(m) /\ deliveries'[m] = deliveries[m]
    BY <1>1, <1>3 DEF Writers, TypeOK, BusTypeOK
  <2> QED BY <1>2, <2>1, PaidKept
<1>4. CASE n = m
  <2>1. Writers(m)' = Writers(m) \cup {w} /\ w \notin Writers(m)
    BY <1>1, <1>4 DEF Writers, Unsaved, TypeOK
  <2>2. /\ IsFiniteSet(Writers(m)')
        /\ Cardinality(Writers(m)') = Cardinality(Writers(m)) + 1
        /\ Cardinality(Writers(m)) \in Nat
    BY <2>1, FS_AddElement, FS_CardinalityType DEF Paid
  <2>3. deliveries[m] \in Nat /\ deliveries'[m] = deliveries[m] + 1
    BY <1>1, <1>4 DEF TypeOK, BusTypeOK
  <2>4. Cardinality(RowsOf(m)) \in Nat
    BY RowsFinite
  <2>5. Cardinality(RowsOf(m)) + Cardinality(Writers(m)) <= deliveries[m]
    BY DEF Paid
  <2> QED BY <1>2, <2>2, <2>3, <2>4, <2>5 DEF Paid
<1> QED BY <1>3, <1>4

\* A handler that saves is no longer on its way to the save.
LEMMA PaidCommit ==
  ASSUME TypeInv, TypeOK', NEW m \in Messages, Paid(m), NEW w \in Workers, CommitSave(w)
  PROVE  Paid(m)'
<1> DEFINE r == [id |-> WBooking(w), version |-> original[w] + 1, msg |-> msg[w]]
<1>1. /\ pc[w] = "write" /\ msg' = msg /\ deliveries' = deliveries
      /\ \E s \in {"publish", "complete"} : pc' = [pc EXCEPT ![w] = s]
      /\ rows' = rows \cup {r}
      /\ r.msg = msg[w]
  BY DEF CommitSave, Goto, busVars
<1>t. TypeOK
  BY DEF TypeInv
<1> HIDE DEF r
<1>2. CASE msg[w] # m
  <2>1. RowsOf(m)' = RowsOf(m)
    BY <1>1, <1>2 DEF RowsOf
  <2>2. Writers(m)' \subseteq Writers(m)
    BY <1>1, <1>t DEF Writers, Unsaved, TypeOK
  <2> QED BY <1>1, <1>t, <2>1, <2>2, PaidKept
<1>3. CASE msg[w] = m
  <2>1. RowsOf(m)' = RowsOf(m) \cup {r}
    BY <1>1, <1>3 DEF RowsOf
  <2>2. /\ Cardinality(RowsOf(m)) \in Nat /\ Cardinality(RowsOf(m)') \in Nat
        /\ Cardinality(RowsOf(m)') <= Cardinality(RowsOf(m)) + 1
    BY <1>t, <2>1, RowsFinite, FS_AddElement
  <2>3. Writers(m)' = Writers(m) \ {w} /\ w \in Writers(m)
    BY <1>1, <1>3, <1>t DEF Writers, Unsaved, TypeOK
  <2>4. /\ IsFiniteSet(Writers(m)')
        /\ Cardinality(Writers(m)') = Cardinality(Writers(m)) - 1
        /\ Cardinality(Writers(m)) \in Nat
    BY <2>3, FS_RemoveElement, FS_CardinalityType DEF Paid
  <2>5. /\ deliveries[m] \in Nat /\ deliveries'[m] = deliveries[m]
        /\ Cardinality(RowsOf(m)) + Cardinality(Writers(m)) <= deliveries[m]
    BY <1>1, <1>t DEF TypeOK, BusTypeOK, Paid
  <2> QED BY <2>2, <2>4, <2>5 DEF Paid
<1> QED BY <1>2, <1>3

LEMMA PaidStep == TypeInv /\ PaidInv /\ [Next]_vars => PaidInv'
<1> SUFFICES ASSUME TypeInv, PaidInv, [Next]_vars, NEW m \in Messages PROVE Paid(m)'
  BY DEF PaidInv
<1>t. TypeOK /\ TypeOK' /\ Paid(m)
  BY TypeStep DEF TypeInv, PaidInv
<1> DEFINE Kept == /\ UNCHANGED rows
                   /\ Writers(m)' \subseteq Writers(m)
                   /\ deliveries'[m] = deliveries[m]
<1>k. Kept => Paid(m)'
  BY <1>t, PaidKept DEF RowsOf
<1>1. ASSUME NEW n \in Messages, Send(n) \/ Expire(n) PROVE Kept
  BY <1>1 DEF Send, Put, Expire, Release, storeVars, workerVars, Writers
<1>2. ASSUME NEW w \in Workers, NEW n \in Messages, Receive(w, n) PROVE Paid(m)'
  BY <1>2, <1>t, PaidReceive
<1>3. ASSUME NEW w \in Workers,
             GetEventVersion(w) \/ GetTracking(w) \/ Replay(w) \/ SelectAggregate(w)
             \/ Publish(w)
      PROVE  Kept
  BY <1>3, <1>t DEF GetEventVersion, GetTracking, Replay, SelectAggregate, Publish, Goto,
                    busVars, storeVars, Writers, Unsaved, TypeOK
<1>4. ASSUME NEW w \in Workers, CommitSave(w) PROVE Paid(m)'
  BY <1>4, <1>t, PaidCommit
<1>5. ASSUME NEW w \in Workers,
             RejectSave(w) \/ Complete(w) \/ CompleteTooLate(w) \/ Error(w)
      PROVE  Kept
  <2>1. UNCHANGED <<rows, deliveries>> /\ Rest(w)
    BY <1>5 DEF RejectSave, Complete, CompleteTooLate, Error, Abandon, AbandonMessage,
                Release, Settle, busVars, storeVars
  <2> QED BY <1>t, <2>1 DEF Rest, Goto, Writers, Unsaved, TypeOK
<1>6. ASSUME NEW p \in Replicas, Crash(p) PROVE Kept
  BY <1>6 DEF Crash, busVars, storeVars, Writers, Unsaved
<1>7. CASE UNCHANGED vars
  BY <1>7, <1>k DEF vars, Writers
<1> HIDE DEF Kept
<1> QED
  BY <1>k, <1>1, <1>2, <1>3, <1>4, <1>5, <1>6, <1>7 DEF Next, Deliver, Work

\* At-least-once delivery puts an event on the trail at most once for every
\* delivery, although the lock may pass between handlers that all go on.
THEOREM RowsArePaid == Spec => []OneRowPerDelivery
<1>1. TypeInv /\ PaidInv => OneRowPerDelivery
  <2> SUFFICES ASSUME TypeInv, PaidInv, NEW m \in Messages
               PROVE  Cardinality(RowsOf(m)) <= deliveries[m]
    BY DEF OneRowPerDelivery
  <2>1. /\ Cardinality(RowsOf(m)) \in Nat /\ Cardinality(Writers(m)) \in Nat
        /\ deliveries[m] \in Nat
    BY RowsFinite, FS_CardinalityType DEF PaidInv, Paid, TypeInv, TypeOK, BusTypeOK
  <2>2. Cardinality(RowsOf(m)) + Cardinality(Writers(m)) <= deliveries[m]
    BY DEF PaidInv, Paid
  <2> QED BY <2>1, <2>2
<1>2. Spec => []TypeInv
  BY TypeInit, TypeStep, PTL DEF Spec
<1> QED BY <1>1, <1>2, PaidInit, PaidStep, PTL DEF Spec

-----------------------------------------------------------------------------
(***************************************************************************)
(* Conflicts alone drop nothing.  Without faults a message has one handler *)
(* at a time, which keeps its lock, and at most one event on the trail.    *)
(* Then every rejected save is charged to the commit that made it fail:    *)
(* between the version a handler read and the version the store has when   *)
(* its save is rejected lies an event of another message of the booking.   *)
(* So deliveries never run ahead of the version by more than the one under *)
(* way, and the version of a booking with an event that is not recorded    *)
(* yet is less than its number of messages.                                *)
(***************************************************************************)

MessagesOf(b) == {m \in Messages : BookingOf[m] = b}

\* What the theorem assumes of the constants.
NoFaults == Faults = {}
FewMessages ==
  \A b \in Bookings : /\ IsFiniteSet(MessagesOf(b))
                      /\ Cardinality(MessagesOf(b)) <= MaxDeliveries

\* A lock is held by the one handler of its message.
Exclusive ==
  /\ \A m \in Messages : state[m] = "locked" => owner[m] \in Workers /\ msg[owner[m]] = m
  /\ \A w \in Workers : IF pc[w] = "idle" THEN msg[w] = NoMessage ELSE HoldsLock(w)

\* An event is recorded once, by the handler that completes its message.
Once ==
  /\ \A r, s \in rows : r.msg = s.msg => r = s
  /\ \A w \in Workers : pc[w] \in Unsaved => ~Recorded(msg[w])
  /\ \A m \in Messages : state[m] \in {"unsent", "available"} => ~Recorded(m)

\* Who found no aggregate did not read a version either.
NotFoundIsNew == \A w \in Workers : pc[w] = "write" /\ ~found[w] => original[w] = 0

\* Every delivery but the one under way was followed by a commit of the booking.
Charged ==
  /\ \A m \in Messages : state[m] = "unsent" => deliveries[m] = 0
  /\ \A m \in Messages :
       state[m] = "available" => deliveries[m] <= currentVersion[BookingOf[m]]
  /\ \A w \in Workers :
       pc[w] \in {"load", "replay"} => deliveries[msg[w]] <= currentVersion[WBooking(w)] + 1
  /\ \A w \in Workers :
       pc[w] \in {"select", "write"} => deliveries[msg[w]] <= original[w] + 1

ChargeInv == Exclusive /\ Once /\ NotFoundIsNew /\ Charged /\ ConflictsNeverDrop

\* The row of b with version v.
RowAt(b, v) == CHOOSE r \in rows : r.id = b /\ r.version = v

LEMMA RowAtIs ==
  ASSUME TrailContiguous, NEW b \in Bookings, NEW v \in 1..currentVersion[b]
  PROVE  RowAt(b, v) \in rows /\ RowAt(b, v).id = b /\ RowAt(b, v).version = v
<1>1. \E r \in rows : r.id = b /\ r.version = v
  BY DEF TrailContiguous
<1> QED BY <1>1 DEF RowAt

\* A booking has exactly CurrentVersion events: what a replay counts.
LEMMA HistoryIsVersion ==
  ASSUME TrailInv, NEW b \in Bookings
  PROVE  Cardinality(History(b)) = currentVersion[b]
<1> DEFINE n == currentVersion[b]
           f == [v \in 1..n |-> RowAt(b, v)]
<1>0. TypeOK /\ TrailContiguous
  BY DEF TrailInv, TypeInv
<1>1. n \in Nat
  BY <1>0 DEF TypeOK
<1>2. IsFiniteSet(1..n) /\ Cardinality(1..n) = n
  BY <1>1, FS_Interval
<1>3. f \in Injection(1..n, History(b))
  <2>1. \A v \in 1..n : RowAt(b, v) \in History(b) /\ RowAt(b, v).version = v
    BY <1>0, RowAtIs DEF History
  <2> HIDE DEF n
  <2>2. f \in [1..n -> History(b)] /\ \A u, v \in 1..n : f[u] = f[v] => u = v
    BY <2>1
  <2> QED BY <2>2 DEF Injection, IsInjective
<1>4. IsFiniteSet(History(b)) /\ Cardinality(History(b)) \in Nat
  BY <1>0, FS_Subset, FS_CardinalityType DEF TypeOK, History
<1> HIDE DEF f
<1>5. n <= Cardinality(History(b))
  BY <1>2, <1>3, <1>4, FS_Injection
<1>6. Cardinality(History(b)) <= n
  BY <1>0, HistoryBound
<1> QED BY <1>1, <1>4, <1>5, <1>6

\* While an event of a booking is not recorded, the others do not use up the
\* deliveries.
LEMMA VersionBelow ==
  ASSUME FewMessages, TrailInv, OwnTrail, Once, NEW m \in Messages, ~Recorded(m)
  PROVE  currentVersion[BookingOf[m]] < MaxDeliveries
<1> DEFINE b == BookingOf[m]
           n == currentVersion[b]
           Others == MessagesOf(b) \ {m}
           f == [v \in 1..n |-> RowAt(b, v).msg]
<1>0. TypeOK /\ TrailContiguous /\ b \in Bookings /\ MaxDeliveries \in Nat
  BY BookingOfAssumption, MaxDeliveriesAssumption DEF TrailInv, TypeInv
<1>1. n \in Nat
  BY <1>0 DEF TypeOK
<1>2. IsFiniteSet(1..n) /\ Cardinality(1..n) = n
  <2>1. \A k \in Nat : IsFiniteSet(1..k) /\ Cardinality(1..k) = k
    BY FS_Interval
  <2> QED BY <1>1, <2>1
<1>3. m \in MessagesOf(b)
  BY DEF MessagesOf
<1> HIDE DEF b
<1>4. f \in Injection(1..n, Others)
  <2>1. ASSUME NEW v \in 1..n
        PROVE  /\ RowAt(b, v) \in rows /\ RowAt(b, v).version = v
               /\ RowAt(b, v).msg \in Others
    <3>1. RowAt(b, v) \in rows /\ RowAt(b, v).id = b /\ RowAt(b, v).version = v
      BY <1>0, RowAtIs
    <3>2. /\ RowAt(b, v).msg \in Messages /\ RowAt(b, v).msg # m
          /\ BookingOf[RowAt(b, v).msg] = b
      BY <1>0, <3>1 DEF TypeOK, Row, OwnTrail, Recorded, RowsOf
    <3> QED BY <3>1, <3>2 DEF MessagesOf
  <2>2. \A u, v \in 1..n : RowAt(b, u).msg = RowAt(b, v).msg => u = v
    BY <2>1 DEF Once
  <2> HIDE DEF n, Others
  <2>3. f \in [1..n -> Others] /\ \A u, v \in 1..n : f[u] = f[v] => u = v
    BY <2>1, <2>2
  <2> QED BY <2>3 DEF Injection, IsInjective
<1>5. /\ IsFiniteSet(Others) /\ Cardinality(Others) \in Nat
      /\ Cardinality(Others) = Cardinality(MessagesOf(b)) - 1
      /\ Cardinality(MessagesOf(b)) \in Nat
      /\ Cardinality(MessagesOf(b)) <= MaxDeliveries
  BY <1>0, <1>3, FS_RemoveElement, FS_CardinalityType DEF FewMessages
<1> HIDE DEF f, Others
<1>6. n <= Cardinality(Others)
  BY <1>2, <1>4, <1>5, FS_Injection
<1>7. n < MaxDeliveries
  BY <1>0, <1>1, <1>5, <1>6
<1> QED BY <1>7 DEF b

LEMMA ChargeInit == Init => ChargeInv
  BY DEF Init, BusInit, ChargeInv, Exclusive, Once, NotFoundIsNew, Charged,
         ConflictsNeverDrop, Recorded, RowsOf, Unsaved

\* Two handlers have two messages.
LEMMA OneHandler ==
  ASSUME Exclusive, NEW w \in Workers, NEW u \in Workers, pc[w] # "idle", pc[u] # "idle",
         msg[u] = msg[w]
  PROVE  u = w
  BY DEF Exclusive, HoldsLock, LocksMessage

\* A step of the handler of w before its save, that writes nothing.
LEMMA ChargeReads ==
  ASSUME TypeInv, TypeOK', ChargeInv, NEW w \in Workers,
         UNCHANGED <<busVars, storeVars, msg>>,
         pc[w] \in Unsaved, pc'[w] \in Unsaved,
         \A u \in Workers \ {w} : UNCHANGED <<pc[u], original[u], found[u]>>,
         pc'[w] = "write" /\ ~found'[w] => original'[w] = 0,
         pc'[w] \in {"load", "replay"} =>
           deliveries[msg[w]] <= currentVersion[WBooking(w)] + 1,
         pc'[w] \in {"select", "write"} => deliveries[msg[w]] <= original'[w] + 1
  PROVE  ChargeInv'
<1> USE DEF ChargeInv, busVars, storeVars
<1>1. Exclusive'
  BY DEF Exclusive, HoldsLock, LocksMessage, Unsaved
<1>2. Once'
  BY DEF Once, Recorded, RowsOf
<1>3. NotFoundIsNew'
  BY DEF NotFoundIsNew
<1>4. Charged'
  BY DEF Charged, WBooking
<1>5. ConflictsNeverDrop'
  BY DEF ConflictsNeverDrop
<1> QED BY <1>1, <1>2, <1>3, <1>4, <1>5

\* The message becomes available, or is delivered.
LEMMA ChargeBus ==
  ASSUME TypeInv, TypeOK', ChargeInv, NEW m \in Messages,
         Send(m) \/ \E w \in Workers : Receive(w, m)
  PROVE  ChargeInv'
<1>t. TypeOK /\ BusyHasMessage
  BY DEF TypeInv
<1>1. CASE Send(m)
  <2>0. /\ state[m] = "unsent" /\ state' = [state EXCEPT ![m] = "available"]
        /\ UNCHANGED <<deliveries, owner, storeVars, workerVars>>
    BY <1>1 DEF Send, Put
  <2>1. Exclusive'
    BY <1>t, <2>0 DEF ChargeInv, Exclusive, HoldsLock, LocksMessage, workerVars, TypeOK,
                      BusTypeOK, BusyHasMessage
  <2>2. Once'
    BY <1>t, <2>0 DEF ChargeInv, Once, Recorded, RowsOf, storeVars, workerVars, TypeOK, BusTypeOK
  <2>3. NotFoundIsNew' /\ ConflictsNeverDrop'
    BY <1>t, <2>0 DEF ChargeInv, NotFoundIsNew, ConflictsNeverDrop, workerVars, TypeOK, BusTypeOK
  <2>4. Charged'
    <3>1. deliveries[m] = 0 /\ currentVersion[BookingOf[m]] \in Nat
      BY <1>t, <2>0, BookingOfAssumption DEF ChargeInv, Charged, TypeOK
    <3> QED
      BY <1>t, <2>0, <3>1 DEF ChargeInv, Charged, WBooking, storeVars, workerVars, TypeOK, BusTypeOK
  <2> QED BY <2>1, <2>2, <2>3, <2>4 DEF ChargeInv
<1>2. ASSUME NEW w \in Workers, Receive(w, m) PROVE ChargeInv'
  <2>0. /\ pc[w] = "idle" /\ state[m] = "available"
        /\ state' = [state EXCEPT ![m] = "locked"]
        /\ owner' = [owner EXCEPT ![m] = w]
        /\ deliveries' = [deliveries EXCEPT ![m] = @ + 1]
        /\ pc' = [pc EXCEPT ![w] = "load"] /\ msg' = [msg EXCEPT ![w] = m]
        /\ UNCHANGED <<storeVars, original, found>>
    BY <1>2 DEF Receive, Lock, Goto
  <2>1. \A u \in Workers : pc[u] # "idle" => msg[u] # m
    BY <2>0 DEF ChargeInv, Exclusive, HoldsLock, LocksMessage
  <2>2. Exclusive'
    BY <1>t, <2>0, <2>1, NoMessageAssumption
    DEF ChargeInv, Exclusive, HoldsLock, LocksMessage, TypeOK, BusTypeOK, BusyHasMessage
  <2>3. Once'
    BY <1>t, <2>0 DEF ChargeInv, Once, Recorded, RowsOf, storeVars, TypeOK, BusTypeOK, Unsaved
  <2>4. NotFoundIsNew' /\ ConflictsNeverDrop'
    BY <1>t, <2>0 DEF ChargeInv, NotFoundIsNew, ConflictsNeverDrop, TypeOK, BusTypeOK
  <2>5. Charged'
    <3>1. /\ deliveries[m] \in Nat /\ currentVersion[BookingOf[m]] \in Nat
          /\ deliveries[m] <= currentVersion[BookingOf[m]]
      BY <1>t, <2>0, BookingOfAssumption DEF ChargeInv, Charged, TypeOK, BusTypeOK
    <3>2. deliveries'[m] = deliveries[m] + 1 /\ pc'[w] = "load" /\ msg'[w] = m
      BY <1>t, <2>0 DEF TypeOK, BusTypeOK
    <3>3. \A u \in Workers \ {w} :
            pc'[u] = pc[u] /\ msg'[u] = msg[u]
            /\ (pc[u] # "idle" => deliveries'[msg[u]] = deliveries[msg[u]])
      BY <1>t, <2>0, <2>1 DEF TypeOK, BusTypeOK, BusyHasMessage
    <3>4. \A n \in Messages : state'[n] \in {"unsent", "available"} =>
            state'[n] = state[n] /\ deliveries'[n] = deliveries[n]
      BY <1>t, <2>0 DEF TypeOK, BusTypeOK
    <3> QED
      BY <2>0, <3>1, <3>2, <3>3, <3>4 DEF ChargeInv, Charged, WBooking, storeVars
  <2> QED BY <2>2, <2>3, <2>4, <2>5 DEF ChargeInv
<1> QED BY <1>1, <1>2

\* The save that succeeds is the one of the only handler of its message, and
\* moves the version on.
LEMMA ChargeCommit ==
  ASSUME TrailInv, ChargeInv, NEW w \in Workers, CommitSave(w)
  PROVE  ChargeInv'
<1> DEFINE b == WBooking(w)
           r == [id |-> b, version |-> currentVersion[b] + 1, msg |-> msg[w]]
<1>t. TypeOK /\ BusyHasMessage
  BY DEF TrailInv, TypeInv
<1>1. /\ b \in Bookings /\ msg[w] \in Messages
      /\ currentVersion' = [currentVersion EXCEPT ![b] = @ + 1]
      /\ rows' = rows \cup {r} /\ r.msg = msg[w]
      /\ pc[w] = "write" /\ \E s \in {"publish", "complete"} : pc' = [pc EXCEPT ![w] = s]
      /\ UNCHANGED <<busVars, msg, original, found>>
  BY CommitAppends DEF CommitSave, Goto
<1> HIDE DEF b, r
<1>2. HoldsLock(w) /\ ~Recorded(msg[w])
  BY <1>1 DEF ChargeInv, Exclusive, Once, Unsaved
<1>3. \A u \in Workers \ {w} : pc'[u] = pc[u] /\ (pc[u] # "idle" => msg[u] # msg[w])
  BY <1>1, <1>t, OneHandler DEF ChargeInv, TypeOK
<1>4. \A c \in Bookings : currentVersion[c] \in Nat /\ currentVersion'[c] \in Nat
                           /\ currentVersion[c] <= currentVersion'[c]
  BY <1>1, <1>t DEF TypeOK
<1>5. \A n \in Messages : deliveries[n] \in Nat /\ BookingOf[n] \in Bookings
  BY <1>t, BookingOfAssumption DEF TypeOK, BusTypeOK
<1>6. pc'[w] \in {"publish", "complete"}
  BY <1>1, <1>t DEF TypeOK
<1>7. Exclusive'
  BY <1>1, <1>3, <1>6 DEF ChargeInv, Exclusive, HoldsLock, LocksMessage, busVars
<1>8. Once'
  <2>1. \A s, t \in rows' : s.msg = t.msg => s = t
    BY <1>1, <1>2 DEF ChargeInv, Once, Recorded, RowsOf
  <2>2. \A n \in Messages : n # msg[w] /\ ~Recorded(n) => ~Recorded(n)'
    BY <1>1 DEF Recorded, RowsOf
  <2>3. ASSUME NEW u \in Workers, pc'[u] \in Unsaved PROVE ~Recorded(msg[u])'
    <3>1. u # w /\ pc[u] \in Unsaved /\ msg[u] # msg[w] /\ msg[u] \in Messages
      BY <1>3, <1>6, <1>t, <2>3 DEF Unsaved, BusyHasMessage
    <3>2. ~Recorded(msg[u])
      BY <3>1 DEF ChargeInv, Once
    <3>3. \A s \in rows' : s.msg # msg[u]
      BY <1>1, <3>1, <3>2 DEF Recorded, RowsOf
    <3> QED BY <1>1, <3>3 DEF Recorded, RowsOf
  <2>4. ASSUME NEW n \in Messages, state'[n] \in {"unsent", "available"}
        PROVE  ~Recorded(n)'
    <3>1. state[n] \in {"unsent", "available"} /\ n # msg[w]
      BY <1>1, <1>2, <2>4 DEF HoldsLock, LocksMessage, busVars
    <3> QED BY <2>2, <3>1 DEF ChargeInv, Once
  <2> QED BY <2>1, <2>3, <2>4 DEF Once
<1>9. NotFoundIsNew'
  BY <1>1, <1>3, <1>6 DEF ChargeInv, NotFoundIsNew
<1>10. Charged'
  <2>1. \A n \in Messages : state'[n] = "unsent" => deliveries'[n] = 0
    BY <1>1 DEF ChargeInv, Charged, busVars
  <2>2. ASSUME NEW n \in Messages, state'[n] = "available"
        PROVE  deliveries'[n] <= currentVersion'[BookingOf[n]]
    BY <1>1, <1>4, <1>5, <2>2 DEF ChargeInv, Charged, busVars
  <2>3. ASSUME NEW u \in Workers, pc'[u] \in {"load", "replay"}
        PROVE  deliveries'[msg'[u]] <= currentVersion'[WBooking(u)'] + 1
    <3>1. pc[u] = pc'[u] /\ msg[u] \in Messages
      BY <1>3, <1>6, <1>t, <2>3 DEF BusyHasMessage
    <3> QED BY <1>1, <1>4, <1>5, <2>3, <3>1 DEF ChargeInv, Charged, busVars, WBooking
  <2>4. ASSUME NEW u \in Workers, pc'[u] \in {"select", "write"}
        PROVE  deliveries'[msg'[u]] <= original'[u] + 1
    <3>1. pc[u] = pc'[u]
      BY <1>3, <1>6, <2>4
    <3> QED BY <1>1, <2>4, <3>1 DEF ChargeInv, Charged, busVars
  <2> QED BY <2>1, <2>2, <2>3, <2>4 DEF Charged
<1>11. ConflictsNeverDrop'
  BY <1>1 DEF ChargeInv, ConflictsNeverDrop, busVars
<1> QED BY <1>7, <1>8, <1>9, <1>10, <1>11 DEF ChargeInv

\* A handler that is done with its message leaves the others as they are.
LEMMA ChargeRest ==
  ASSUME TypeInv, TypeOK', ChargeInv, NEW w \in Workers, pc[w] # "idle", Rest(w),
         UNCHANGED <<storeVars, deliveries>>,
         owner' = [owner EXCEPT ![msg[w]] = NoWorker],
         NEW s \in {"available", "completed"}, state' = [state EXCEPT ![msg[w]] = s],
         s = "available" => /\ ~Recorded(msg[w])
                            /\ deliveries[msg[w]] <= currentVersion[WBooking(w)]
  PROVE  ChargeInv'
<1>t. TypeOK /\ BusyHasMessage /\ msg[w] \in Messages
  BY DEF TypeInv, BusyHasMessage
<1>1. \A u \in Workers \ {w} :
        /\ UNCHANGED <<pc[u], msg[u], original[u], found[u]>>
        /\ pc[u] # "idle" => msg[u] # msg[w]
  BY <1>t, OneHandler DEF ChargeInv, TypeOK, Rest, Goto
<1>2. pc'[w] = "idle" /\ msg'[w] = NoMessage
  BY <1>t DEF Rest, Goto, TypeOK
<1>3. /\ state'[msg[w]] = s
      /\ \A n \in Messages \ {msg[w]} : state'[n] = state[n] /\ owner'[n] = owner[n]
  BY <1>t DEF TypeOK, BusTypeOK
<1>4. HoldsLock(w)
  BY DEF ChargeInv, Exclusive
<1>5. Exclusive'
  <2>1. ASSUME NEW n \in Messages, state'[n] = "locked"
        PROVE  owner'[n] \in Workers /\ msg'[owner'[n]] = n
    <3>1. n # msg[w] /\ state[n] = "locked" /\ owner'[n] = owner[n]
      BY <1>3, <2>1
    <3>2. owner[n] \in Workers /\ msg[owner[n]] = n
      BY <3>1 DEF ChargeInv, Exclusive
    <3>3. owner[n] # w
      BY <3>1, <3>2
    <3> QED BY <1>1, <3>1, <3>2, <3>3
  <2>2. ASSUME NEW u \in Workers
        PROVE  IF pc'[u] = "idle" THEN msg'[u] = NoMessage ELSE LocksMessage(u, msg[u])'
    <3>1. CASE u = w
      BY <1>2, <3>1
    <3>2. CASE u # w
      BY <1>1, <1>3, <1>t, <3>2
      DEF ChargeInv, Exclusive, HoldsLock, LocksMessage, BusyHasMessage
    <3> QED BY <3>1, <3>2
  <2> QED BY <2>1, <2>2 DEF Exclusive, HoldsLock
<1>6. Once'
  BY <1>1, <1>2, <1>3, <1>t DEF ChargeInv, Once, Recorded, RowsOf, storeVars, Unsaved
<1>7. NotFoundIsNew'
  BY <1>1, <1>2 DEF ChargeInv, NotFoundIsNew
<1>8. Charged'
  BY <1>1, <1>2, <1>3, <1>t DEF ChargeInv, Charged, WBooking, storeVars
<1>9. ConflictsNeverDrop'
  BY <1>3 DEF ChargeInv, ConflictsNeverDrop
<1> QED BY <1>5, <1>6, <1>7, <1>8, <1>9 DEF ChargeInv

\* A save is rejected only when the version moved on since it was read, and then
\* the message has a delivery left.
LEMMA ChargeReject ==
  ASSUME FewMessages, TrailInv, OwnTrail, TypeOK', ChargeInv, NEW w \in Workers, RejectSave(w)
  PROVE  ChargeInv'
<1> DEFINE m == msg[w]
           n == currentVersion[WBooking(w)]
<1>t. TypeInv /\ TypeOK /\ BusyHasMessage /\ TrailContiguous /\ VersionBehind
  BY DEF TrailInv, TypeInv
<1>1. /\ pc[w] = "write" /\ ~CanSave(w) /\ Rest(w) /\ UNCHANGED storeVars
      /\ m \in Messages /\ AbandonMessage(w, m)
  BY <1>t DEF RejectSave, Abandon, BusyHasMessage
<1>2. WBooking(w) = BookingOf[m] /\ WBooking(w) \in Bookings
  BY <1>1, BookingOfAssumption DEF WBooking
<1>3. n \in Nat /\ original[w] \in Nat /\ original[w] <= n /\ deliveries[m] \in Nat
  BY <1>1, <1>2, <1>t DEF TypeOK, BusTypeOK, VersionBehind
<1>4. original[w] # n
  <2> SUFFICES ASSUME original[w] = n PROVE CanSave(w)
    BY <1>1
  <2>1. IF found[w] THEN n = original[w] ELSE n = 0
    BY <1>1 DEF ChargeInv, NotFoundIsNew
  <2>2. ASSUME NEW r \in History(WBooking(w)) PROVE r.version # original[w] + 1
    <3>1. r.version <= n /\ r.version \in Nat
      BY <1>t DEF History, TrailContiguous, TypeOK, Row
    <3> QED BY <1>3, <3>1
  <2> QED BY <2>1, <2>2 DEF CanSave
<1>5. deliveries[m] <= original[w] + 1 /\ ~Recorded(m) /\ LocksMessage(w, m)
  BY <1>1 DEF ChargeInv, Charged, Once, Exclusive, HoldsLock, Unsaved
<1>6. n < MaxDeliveries /\ MaxDeliveries \in Nat
  BY <1>2, <1>5, <1>1, VersionBelow, MaxDeliveriesAssumption DEF ChargeInv
<1>7. deliveries[m] <= n /\ ~(deliveries[m] >= MaxDeliveries)
  BY <1>3, <1>4, <1>5, <1>6
<1>8. /\ state' = [state EXCEPT ![m] = "available"]
      /\ owner' = [owner EXCEPT ![m] = NoWorker]
      /\ UNCHANGED deliveries
  BY <1>1, <1>5, <1>7 DEF AbandonMessage, Release
<1> QED BY <1>1, <1>5, <1>7, <1>8, <1>t, ChargeRest

LEMMA ChargeStep ==
  ASSUME NoFaults, FewMessages, RefInv, TypeOK', ChargeInv, [Next]_vars
  PROVE  ChargeInv'
<1>t. TrailInv /\ TypeInv /\ TypeOK /\ BusyHasMessage /\ OwnTrail
  BY DEF RefInv, TrailInv, DoneInv, TypeInv
<1>v. \A w \in Workers : pc[w] # "idle" =>
        WBooking(w) \in Bookings /\ currentVersion[WBooking(w)] \in Nat
  BY <1>t, BookingOfAssumption DEF BusyHasMessage, TypeOK, WBooking
<1>1. ASSUME NEW m \in Messages, Send(m) PROVE ChargeInv'
  BY <1>1, <1>t, ChargeBus
<1>2. ASSUME NEW m \in Messages, Expire(m) PROVE FALSE
  BY <1>2 DEF Expire, NoFaults, ChargeInv, Exclusive
<1>3. ASSUME NEW w \in Workers, NEW m \in Messages, Receive(w, m) PROVE ChargeInv'
  BY <1>3, <1>t, ChargeBus
<1>4. ASSUME NEW w \in Workers, GetEventVersion(w) \/ GetTracking(w) PROVE ChargeInv'
  <2>1. /\ pc[w] = "load" /\ UNCHANGED <<busVars, storeVars, msg, found>>
        /\ deliveries[msg[w]] <= currentVersion[WBooking(w)] + 1
        /\ \A u \in Workers \ {w} : UNCHANGED <<pc[u], original[u], found[u]>>
    BY <1>4, <1>t DEF GetEventVersion, GetTracking, Goto, ChargeInv, Charged, TypeOK
  <2>2. \/ pc'[w] = "replay"
        \/ pc'[w] = "select" /\ original'[w] = currentVersion[WBooking(w)]
    BY <1>4, <1>t DEF GetEventVersion, GetTracking, Goto, TypeOK
  <2> QED BY <1>t, <2>1, <2>2, ChargeReads DEF Unsaved
<1>5. ASSUME NEW w \in Workers, Replay(w) PROVE ChargeInv'
  <2>1. /\ pc[w] = "replay" /\ UNCHANGED <<busVars, storeVars, msg, found>>
        /\ deliveries[msg[w]] <= currentVersion[WBooking(w)] + 1
        /\ \A u \in Workers \ {w} : UNCHANGED <<pc[u], original[u], found[u]>>
    BY <1>5, <1>t DEF Replay, Goto, ChargeInv, Charged, TypeOK
  <2>2. pc'[w] = "select" /\ original'[w] = Cardinality(History(WBooking(w)))
    BY <1>5, <1>t DEF Replay, Goto, TypeOK
  <2>3. Cardinality(History(WBooking(w))) = currentVersion[WBooking(w)]
    BY <1>t, <1>v, <2>1, HistoryIsVersion
  <2> QED BY <1>t, <2>1, <2>2, <2>3, ChargeReads DEF Unsaved
<1>6. ASSUME NEW w \in Workers, SelectAggregate(w) PROVE ChargeInv'
  <2>1. /\ pc[w] = "select" /\ UNCHANGED <<busVars, storeVars, msg, original>>
        /\ deliveries[msg[w]] <= original[w] + 1
        /\ \A u \in Workers \ {w} : UNCHANGED <<pc[u], original[u], found[u]>>
    BY <1>6, <1>t DEF SelectAggregate, Goto, ChargeInv, Charged, TypeOK
  <2>2. pc'[w] = "write" /\ (~found'[w] => currentVersion[WBooking(w)] = 0)
    BY <1>6, <1>t DEF SelectAggregate, Goto, TypeOK
  <2>3. original[w] \in Nat /\ original[w] <= currentVersion[WBooking(w)]
    BY <1>t, <2>1 DEF TrailInv, VersionBehind, TypeOK
  <2> QED BY <1>t, <1>v, <2>1, <2>2, <2>3, ChargeReads DEF Unsaved
<1>7. ASSUME NEW w \in Workers, CommitSave(w) PROVE ChargeInv'
  BY <1>7, <1>t, ChargeCommit
<1>8. ASSUME NEW w \in Workers, RejectSave(w) PROVE ChargeInv'
  BY <1>8, <1>t, ChargeReject
<1>9. ASSUME NEW w \in Workers, Publish(w) PROVE ChargeInv'
  <2>1. /\ pc[w] = "publish" /\ pc' = [pc EXCEPT ![w] = "complete"]
        /\ UNCHANGED <<busVars, storeVars, msg, original, found>>
    BY <1>9 DEF Publish, Goto
  <2>2. Exclusive' /\ Once' /\ NotFoundIsNew' /\ ConflictsNeverDrop'
    BY <1>t, <2>1 DEF ChargeInv, Exclusive, HoldsLock, LocksMessage, Once, Recorded, RowsOf,
                      NotFoundIsNew, ConflictsNeverDrop, TypeOK, Unsaved, busVars, storeVars
  <2>3. Charged'
    BY <1>t, <2>1 DEF ChargeInv, Charged, WBooking, TypeOK, busVars, storeVars
  <2> QED BY <2>2, <2>3 DEF ChargeInv
<1>10. ASSUME NEW w \in Workers, Complete(w) PROVE ChargeInv'
  BY <1>10, <1>t, ChargeRest DEF Complete, Settle
<1>11. ASSUME NEW w \in Workers, CompleteTooLate(w) PROVE FALSE
  BY <1>11 DEF CompleteTooLate, ChargeInv, Exclusive
<1>12. ASSUME NEW w \in Workers, Error(w) PROVE FALSE
  BY <1>12 DEF Error, NoFaults
<1>13. ASSUME NEW p \in Replicas, Crash(p) PROVE FALSE
  BY <1>13 DEF Crash, NoFaults
<1>14. CASE UNCHANGED vars
  BY <1>14 DEF vars, ChargeInv, Exclusive, HoldsLock, LocksMessage, Once, Recorded, RowsOf,
               NotFoundIsNew, Charged, WBooking, ConflictsNeverDrop
<1> QED
  BY <1>1, <1>2, <1>3, <1>4, <1>5, <1>6, <1>7, <1>8, <1>9, <1>10, <1>11, <1>12, <1>13,
     <1>14 DEF Next, Deliver, Work

\* Without faults no message is ever dead-lettered, however many handlers race,
\* when no booking has more messages than a message has deliveries.
THEOREM ConflictsDropNothing ==
  ASSUME NoFaults, FewMessages
  PROVE  Spec => []ConflictsNeverDrop
<1>1. RefInv /\ TypeOK' /\ ChargeInv /\ [Next]_vars => ChargeInv'
  BY ChargeStep
<1>2. RefInv => TypeOK
  BY DEF RefInv, TrailInv, TypeInv
<1>3. ChargeInv => ConflictsNeverDrop
  BY DEF ChargeInv
<1>4. Spec => []RefInv
  BY TrailInvariant, DoneInvariant, PTL DEF RefInv
<1> QED BY <1>1, <1>2, <1>3, <1>4, ChargeInit, PTL DEF Spec
=============================================================================

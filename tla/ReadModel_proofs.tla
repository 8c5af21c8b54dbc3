--------------------------- MODULE ReadModel_proofs ---------------------------
(***************************************************************************)
(* Proofs about ReadModel, for any number of bookings, events, calls of    *)
(* the function, lookups and deliveries, and for every choice of faults.   *)
(***************************************************************************)
EXTENDS ReadModel, FiniteSetTheorems, SequenceTheorems, TLAPS

-----------------------------------------------------------------------------
(* Types *)

\* A call of the function has an event, a reader that is under way a booking, and
\* what a reader is about to cache is a history.
BusyHasEvent == \A f \in Workers : pc[f] # "idle" => msg[f] \in Messages

ReaderHasKey ==
  \A r \in Readers : /\ rpc[r] # "idle" => key[r] \in Bookings
                     /\ rpc[r] = "set" => shown[r] \in Histories

\* What is not published was never delivered, and what waits may be delivered
\* once more.
MayDeliver ==
  \A m \in Messages : /\ state[m] = "unsent" => deliveries[m] = 0
                      /\ state[m] = "available" => deliveries[m] < MaxDeliveries

TypeInv == TypeOK /\ BusyHasEvent /\ ReaderHasKey /\ MayDeliver

LEMMA NoneIsNoHistory == None \notin Histories /\ None \notin Messages /\ None \notin Bookings
  BY NoneAssumption DEF Histories

LEMMA TypeInit == Init => TypeInv
<1> SUFFICES ASSUME Init PROVE TypeInv
  OBVIOUS
<1>1. <<>> \in Histories
  BY DEF Histories
<1>2. TypeOK
  BY <1>1, MaxDeliveriesAssumption DEF Init, BusInit, TypeOK, BusTypeOK, States
<1>3. BusyHasEvent /\ ReaderHasKey /\ MayDeliver
  BY DEF Init, BusInit, BusyHasEvent, ReaderHasKey, MayDeliver
<1> QED BY <1>2, <1>3 DEF TypeInv

\* The end of a process puts only messages back that were delivered, within the
\* limit.
LEMMA HostEndsType ==
  ASSUME TypeInv, HostEnds
  PROVE  TypeInv'
<1> USE DEF TypeInv
<1>1. BusTypeOK' /\ MayDeliver'
  BY MaxDeliveriesAssumption DEF HostEnds, TypeOK, BusTypeOK, States, MayDeliver
<1>2. <<>> \in Histories
  BY DEF Histories
<1>3. TypeOK'
  BY <1>1, <1>2 DEF HostEnds, TypeOK, readerVars
<1>4. BusyHasEvent' /\ ReaderHasKey'
  BY DEF HostEnds, BusyHasEvent, ReaderHasKey, readerVars
<1> QED BY <1>1, <1>3, <1>4

\* Neither does a message that is published, completed or given back.
LEMMA MessageType ==
  ASSUME TypeInv, NEW m \in Messages, Raise(m) \/ Complete(m) \/ LoseLock(m)
  PROVE  TypeInv'
<1> USE DEF TypeInv
<1>1. UNCHANGED <<trail, cache, functionVars, readerVars, deliveries>>
  BY DEF Raise, Put, Complete, Settle, LoseLock, Release
<1>2. BusTypeOK'
  BY DEF Raise, Put, Complete, Settle, LoseLock, Release, TypeOK, BusTypeOK, States
<1>3. MayDeliver'
  BY MaxDeliveriesAssumption
  DEF Raise, Put, Complete, Settle, LoseLock, Release, MayDeliver, TypeOK, BusTypeOK
<1>4. TypeOK'
  BY <1>1, <1>2 DEF TypeOK, functionVars, readerVars
<1>5. BusyHasEvent' /\ ReaderHasKey'
  BY <1>1 DEF BusyHasEvent, ReaderHasKey, functionVars, readerVars
<1> QED BY <1>3, <1>4, <1>5

\* An event that is recorded keeps the types.
LEMMA RecordType ==
  ASSUME TypeInv, NEW m \in Messages, Record(m)
  PROVE  TypeInv'
<1> USE DEF TypeInv
<1>1. BookingOf[m] \in Bookings /\ Append(trail[BookingOf[m]], m) \in Histories
  BY BookingOfAssumption, AppendProperties DEF TypeOK, Histories
<1>2. TypeOK'
  BY <1>1 DEF Record, Trail!Extend, TypeOK, BusTypeOK, busVars, functionVars, readerVars
<1>3. BusyHasEvent' /\ ReaderHasKey' /\ MayDeliver'
  BY DEF Record, BusyHasEvent, ReaderHasKey, MayDeliver, busVars, functionVars, readerVars
<1> QED BY <1>2, <1>3

\* So does every step of a call of the function.
LEMMA FunctionType ==
  ASSUME TypeInv, NEW f \in Workers,
         (\E m \in Messages : Trigger(f, m)) \/ FunctionStep(f)
  PROVE  TypeInv'
<1> USE DEF TypeInv
<1>1. ASSUME NEW m \in Messages, Trigger(f, m) PROVE TypeInv'
  <2>1. /\ BusTypeOK' /\ MayDeliver'
        /\ \A n \in Messages : deliveries'[n] <= MaxDeliveries
    BY <1>1, MaxDeliveriesAssumption
    DEF Trigger, Lock, TypeOK, BusTypeOK, States, MayDeliver
  <2>2. pc' \in [Workers -> {"idle", "get", "append", "save"}]
    BY <1>1 DEF Trigger, Goto, TypeOK
  <2>3. TypeOK'
    BY <1>1, <2>1, <2>2 DEF Trigger, TypeOK, readerVars
  <2>4. BusyHasEvent' /\ ReaderHasKey'
    BY <1>1 DEF Trigger, Goto, TypeOK, BusyHasEvent, ReaderHasKey, readerVars
  <2> QED BY <2>1, <2>3, <2>4
<1>2. ASSUME FunctionStep(f) PROVE TypeInv'
  <2>1. msg[f] \in Messages /\ FBooking(f) \in Bookings
    BY <1>2, BookingOfAssumption
    DEF FunctionStep, Get, AppendRemove, Save, BusyHasEvent, TypeOK, FBooking
  <2>2. /\ <<>> \in Histories
        /\ Append(history[f], msg[f]) \in Histories
    BY <2>1, AppendProperties DEF TypeOK, Histories
  <2>3. history' \in [Workers -> Histories] /\ cache' \in [Bookings -> Histories \cup {None}]
    BY <1>2, <2>1, <2>2 DEF FunctionStep, Get, AppendRemove, Save, TypeOK
  <2>4. TypeOK'
    BY <1>2, <2>3 DEF FunctionStep, Get, AppendRemove, Save, Goto, TypeOK, BusTypeOK, busVars,
                       readerVars
  <2>5. BusyHasEvent' /\ ReaderHasKey' /\ MayDeliver'
    BY <1>2 DEF FunctionStep, Get, AppendRemove, Save, Goto, TypeOK, BusyHasEvent,
                ReaderHasKey, MayDeliver, busVars, readerVars
  <2> QED BY <2>4, <2>5
<1> QED BY <1>1, <1>2

\* And every step of a reader.
LEMMA ReaderType ==
  ASSUME TypeInv, NEW r \in Readers, NEW b \in Bookings,
         LookUpMiss(r, b) \/ ReaderStep(r) \/ SetCacheFails(r)
  PROVE  TypeInv'
<1> USE NoneIsNoHistory DEF TypeInv
<1>1. BusyHasEvent' /\ MayDeliver'
  BY DEF LookUpMiss, ReaderStep, QueryNothing, Query, SetCache, SetCacheFails,
         BusyHasEvent, MayDeliver, busVars, functionVars
<1>2. TypeOK'
  <2>1. CASE LookUpMiss(r, b)
    BY <2>1 DEF LookUpMiss, RGoto, TypeOK, BusTypeOK, busVars, functionVars
  <2>2. CASE QueryNothing(r) \/ SetCacheFails(r)
    BY <2>2 DEF QueryNothing, SetCacheFails, SetDone, RGoto, TypeOK, BusTypeOK, busVars, functionVars
  <2>3. CASE Query(r)
    BY <2>3 DEF Query, RGoto, TypeOK, ReaderHasKey, BusTypeOK, busVars, functionVars
  <2>4. CASE SetCache(r)
    BY <2>4 DEF SetCache, SetDone, RGoto, TypeOK, ReaderHasKey, BusTypeOK, busVars, functionVars
  <2> QED BY <2>1, <2>2, <2>3, <2>4 DEF ReaderStep
<1>3. ReaderHasKey'
  BY DEF LookUpMiss, ReaderStep, QueryNothing, Query, SetCache, SetCacheFails,
         SetDone, RGoto, TypeOK, ReaderHasKey, readerVars
<1> QED BY <1>1, <1>2, <1>3

LEMMA TypeStep == TypeInv /\ [Next]_vars => TypeInv'
<1> SUFFICES ASSUME TypeInv, [Next]_vars PROVE TypeInv'
  OBVIOUS
<1>1. CASE GetNull \/ Crash
  BY <1>1, HostEndsType DEF GetNull, Crash
<1>2. ASSUME NEW b \in Bookings, Expire(b) PROVE TypeInv'
  BY <1>2 DEF TypeInv, TypeOK, BusTypeOK, BusyHasEvent, ReaderHasKey, MayDeliver, Expire,
              busVars, functionVars, readerVars
<1>3. ASSUME NEW r \in Readers, ReaderStep(r) \/ SetCacheFails(r) PROVE TypeInv'
  <2>1. key[r] \in Bookings
    BY <1>3 DEF ReaderStep, QueryNothing, Query, SetCache, SetCacheFails, TypeInv, ReaderHasKey
  <2> QED BY <1>3, <2>1, ReaderType
<1>4. CASE UNCHANGED vars
  BY <1>4 DEF vars, TypeInv, TypeOK, BusTypeOK, BusyHasEvent, ReaderHasKey, MayDeliver,
              busVars, functionVars, readerVars
<1> QED
  BY <1>1, <1>2, <1>3, <1>4, MessageType, RecordType, FunctionType, ReaderType
  DEF Next, LookUpHit

LEMMA TypeInvariant == Spec => []TypeInv
  BY TypeInit, TypeStep, PTL DEF Spec

\* Every variable keeps its type: what is saved as a history is never null, and
\* no event is delivered more often than the subscription allows.
THEOREM TypeCorrect == Spec => []TypeOK
  BY TypeInvariant, PTL DEF TypeInv

-----------------------------------------------------------------------------
(* How often an event is in a history *)

LEMMA CountType ==
  ASSUME NEW h \in Histories, NEW m
  PROVE  Count(h, m) \in Nat
<1>1. Len(h) \in Nat /\ DOMAIN h = 1..Len(h)
  BY LenProperties DEF Histories
<1>2. IsFiniteSet(1..Len(h)) /\ {i \in DOMAIN h : h[i] = m} \subseteq 1..Len(h)
  BY <1>1, FS_Interval
<1> QED BY <1>2, FS_Subset, FS_CardinalityType DEF Count

LEMMA CountEmpty == \A m : Count(<<>>, m) = 0
<1> SUFFICES ASSUME NEW m PROVE Count(<<>>, m) = 0
  OBVIOUS
<1>1. {i \in DOMAIN <<>> : <<>>[i] = m} = {}
  OBVIOUS
<1> QED BY <1>1, FS_EmptySet DEF Count

\* Appending an event adds it once, and nothing else.
LEMMA CountAppend ==
  ASSUME NEW h \in Histories, NEW e \in Messages, NEW m
  PROVE  Count(Append(h, e), m) = IF e = m THEN Count(h, m) + 1 ELSE Count(h, m)
<1> DEFINE n == Len(h)
           g == Append(h, e)
           Old == {i \in DOMAIN h : h[i] = m}
           New == {i \in DOMAIN g : g[i] = m}
<1>1. /\ n \in Nat /\ DOMAIN h = 1..n /\ DOMAIN g = 1..n + 1
      /\ \A i \in 1..n : g[i] = h[i]
      /\ g[n + 1] = e
  BY AppendProperties, LenProperties DEF Histories
<1> HIDE DEF n, g
<1>2. IsFiniteSet(Old) /\ n + 1 \notin Old
  <2>1. IsFiniteSet(1..n) /\ Old \subseteq 1..n
    BY <1>1, FS_Interval
  <2> QED BY <1>1, <2>1, FS_Subset
<1>3. CASE e = m
  <2>1. New = Old \cup {n + 1}
    BY <1>1, <1>3
  <2>2. Cardinality(New) = Cardinality(Old) + 1
    BY <1>2, <2>1, FS_AddElement
  <2> QED BY <1>3, <2>2 DEF Count, g
<1>4. CASE e # m
  <2>1. New = Old
    BY <1>1, <1>4
  <2> QED BY <1>4, <2>1 DEF Count, g
<1> QED BY <1>3, <1>4

-----------------------------------------------------------------------------
(***************************************************************************)
(* Bounded repetition.  BoundedRepetition is not inductive: a call is      *)
(* counted as a delivery before it appends, and meanwhile any copy may be  *)
(* read, saved over another one and read again.  What is inductive charges *)
(* a repetition to a delivery whose call has appended: Spent grows with    *)
(* every append, and no other step makes a copy that has more of an event  *)
(* than the copies there are, an empty history or a trail.                 *)
(***************************************************************************)

\* The calls that will append m to the copy they hold or are about to read.
Pending(m) == {f \in Workers : msg[f] = m /\ pc[f] \in {"get", "append"}}

\* The deliveries of m that have appended it, or ended before.
Spent(m) == deliveries[m] - Cardinality(Pending(m))

\* The histories outside the database.
Copies == ({cache[b] : b \in Bookings} \cup {history[f] : f \in Workers}
             \cup {shown[r] : r \in Readers}) \ {None}

Repetition(m) ==
  /\ IsFiniteSet(Pending(m))
  /\ Spent(m) >= 0
  /\ \A b \in Bookings : Count(trail[b], m) <= 1
  /\ \A h \in Copies : Count(h, m) <= 1 + Spent(m)

RepetitionInv == \A m \in Messages : Repetition(m)

LEMMA CopiesType ==
  ASSUME TypeOK
  PROVE  Copies \subseteq Histories
  BY DEF TypeOK, Copies

\* A step that starts no call with m and makes no copy with more of m.
LEMMA RepetitionKept ==
  ASSUME TypeOK, TypeOK', NEW m \in Messages, Repetition(m),
         deliveries'[m] = deliveries[m],
         Pending(m)' \subseteq Pending(m),
         \A b \in Bookings : Count(trail'[b], m) <= 1,
         \A h \in Copies' : Count(h, m) <= 1 \/ \E g \in Copies : Count(h, m) <= Count(g, m)
  PROVE  Repetition(m)'
<1> DEFINE old == Cardinality(Pending(m))
           new == Cardinality(Pending(m)')
<1>1. IsFiniteSet(Pending(m)') /\ new <= old /\ new \in Nat /\ old \in Nat
  BY FS_Subset, FS_CardinalityType DEF Repetition
<1>2. deliveries[m] \in Nat
  BY MaxDeliveriesAssumption DEF TypeOK, BusTypeOK
<1>3. Spent(m) \in Int /\ Spent(m)' \in Int /\ Spent(m)' >= Spent(m) /\ Spent(m) >= 0
  BY <1>1, <1>2 DEF Spent, Repetition
<1>4. ASSUME NEW h \in Copies' PROVE Count(h, m) <= 1 + Spent(m)'
  <2>1. Count(h, m) \in Nat
    BY CountType DEF TypeOK, Copies
  <2>2. CASE Count(h, m) <= 1
    BY <1>3, <2>1, <2>2
  <2>3. ASSUME NEW g \in Copies, Count(h, m) <= Count(g, m)
        PROVE  Count(h, m) <= 1 + Spent(m)'
    <3>1. Count(g, m) \in Nat /\ Count(g, m) <= 1 + Spent(m)
      BY CopiesType, CountType DEF Repetition
    <3> QED BY <1>3, <2>1, <2>3, <3>1
  <2> QED BY <2>2, <2>3
<1> QED BY <1>1, <1>3, <1>4 DEF Repetition

\* A step that leaves the trail, the calls and the deliveries alone and makes no
\* copy but of a copy or of a trail.
LEMMA CopiedOnly ==
  ASSUME TypeOK, TypeOK', NEW m \in Messages, Repetition(m),
         UNCHANGED <<trail, deliveries>>,
         Pending(m)' \subseteq Pending(m),
         Copies' \subseteq Copies \cup {<<>>} \cup {trail[b] : b \in Bookings}
  PROVE  Repetition(m)'
<1>1. \A b \in Bookings : Count(trail[b], m) <= 1
  BY DEF Repetition
<1>2. \A g \in Copies : Count(g, m) <= Count(g, m)
  BY CopiesType, CountType
<1>3. ASSUME NEW h \in Copies'
      PROVE  Count(h, m) <= 1 \/ \E g \in Copies : Count(h, m) <= Count(g, m)
  BY <1>1, <1>2, CountEmpty
<1> QED BY <1>1, <1>3, RepetitionKept

LEMMA RepetitionInit == Init => RepetitionInv
<1> SUFFICES ASSUME Init, NEW m \in Messages PROVE Repetition(m)
  BY DEF RepetitionInv
<1>1. Pending(m) = {} /\ deliveries[m] = 0
  BY DEF Init, BusInit, Pending
<1>2. IsFiniteSet(Pending(m)) /\ Spent(m) = 0
  BY <1>1, FS_EmptySet DEF Spent
<1>3. \A h \in Copies : h = <<>>
  BY DEF Init, Copies
<1>4. \A b \in Bookings : trail[b] = <<>>
  BY DEF Init
<1> QED BY <1>2, <1>3, <1>4, CountEmpty DEF Repetition

\* The tracking service puts an event on a trail once.
LEMMA RecordRepetition ==
  ASSUME TypeOK, TypeOK', NEW m \in Messages, Repetition(m), NEW n \in Messages, Record(n)
  PROVE  Repetition(m)'
<1> DEFINE b == BookingOf[n]
<1>1. /\ b \in Bookings /\ trail[b] \in Histories
      /\ trail' = [trail EXCEPT ![b] = Append(@, n)]
      /\ \A i \in DOMAIN trail[b] : trail[b][i] # n
      /\ UNCHANGED <<busVars, cache, functionVars, readerVars>>
  BY BookingOfAssumption DEF TypeOK, Record, Trail!Extend, Trail!OnTrail
<1> HIDE DEF b
<1>2. Count(trail[b], n) = 0
  <2>1. {i \in DOMAIN trail[b] : trail[b][i] = n} = {}
    BY <1>1
  <2> QED BY <2>1, FS_EmptySet DEF Count
<1>3. Count(trail'[b], m) <= 1
  <2>1. trail'[b] = Append(trail[b], n)
    BY <1>1 DEF TypeOK
  <2> QED BY <1>1, <1>2, <2>1, CountAppend DEF Repetition
<1>4. \A c \in Bookings : Count(trail'[c], m) <= 1
  BY <1>1, <1>3 DEF TypeOK, Repetition
<1>5. Pending(m)' = Pending(m) /\ Copies' = Copies /\ deliveries' = deliveries
  BY <1>1 DEF Pending, Copies, busVars, functionVars, readerVars
<1>6. \A h \in Copies : Count(h, m) <= Count(h, m)
  BY CopiesType, CountType
<1> QED BY <1>4, <1>5, <1>6, RepetitionKept

\* A delivery of m and a call that will append it begin together.
LEMMA TriggerRepetition ==
  ASSUME TypeOK, TypeOK', NEW m \in Messages, Repetition(m),
         NEW f \in Workers, NEW n \in Messages, Trigger(f, n)
  PROVE  Repetition(m)'
<1>1. /\ pc[f] = "idle" /\ msg' = [msg EXCEPT ![f] = n]
      /\ deliveries' = [deliveries EXCEPT ![n] = @ + 1]
      /\ \E s \in {"append", "get"} : pc' = [pc EXCEPT ![f] = s]
      /\ UNCHANGED <<trail, cache, history, readerVars>>
  BY DEF Trigger, Lock, Goto
<1>2. Copies' = Copies
  BY <1>1 DEF Copies, readerVars
<1>3. CASE n # m
  <2>1. Pending(m)' \subseteq Pending(m) /\ deliveries'[m] = deliveries[m]
    BY <1>1, <1>3 DEF Pending, TypeOK
  <2>2. \A h \in Copies : Count(h, m) <= Count(h, m)
    BY CopiesType, CountType
  <2>3. \A b \in Bookings : Count(trail'[b], m) <= 1
    BY <1>1 DEF Repetition
  <2> QED BY <1>2, <2>1, <2>2, <2>3, RepetitionKept
<1>4. CASE n = m
  <2>1. Pending(m)' = Pending(m) \cup {f} /\ f \notin Pending(m)
    BY <1>1, <1>4 DEF Pending, TypeOK
  <2>2. /\ IsFiniteSet(Pending(m)')
        /\ Cardinality(Pending(m)') = Cardinality(Pending(m)) + 1
        /\ Cardinality(Pending(m)) \in Nat
    BY <2>1, FS_AddElement, FS_CardinalityType DEF Repetition
  <2>3. deliveries[m] \in Nat /\ deliveries'[m] = deliveries[m] + 1
    BY <1>1, <1>4, MaxDeliveriesAssumption DEF TypeOK, BusTypeOK
  <2>4. Spent(m)' = Spent(m)
    BY <2>2, <2>3 DEF Spent
  <2> QED BY <1>1, <1>2, <2>2, <2>4 DEF Repetition
<1> QED BY <1>3, <1>4

\* A call appends its event to the copy it holds, once.
LEMMA AppendRepetition ==
  ASSUME TypeOK, TypeOK', NEW m \in Messages, Repetition(m), NEW f \in Workers,
         AppendRemove(f), msg[f] \in Messages
  PROVE  Repetition(m)'
<1> DEFINE n == msg[f]
           h == history[f]
           g == Append(h, n)
<1>1. /\ pc[f] = "append" /\ pc' = [pc EXCEPT ![f] = "save"]
      /\ history' = [history EXCEPT ![f] = g]
      /\ cache' = [cache EXCEPT ![FBooking(f)] = None]
      /\ UNCHANGED <<trail, busVars, msg, readerVars>>
  BY DEF AppendRemove, Goto
<1>2. h \in Histories /\ h \in Copies
  BY NoneIsNoHistory DEF TypeOK, Copies
<1>3. Count(g, m) = IF n = m THEN Count(h, m) + 1 ELSE Count(h, m)
  BY <1>2, CountAppend
<1>4. Copies' \subseteq Copies \cup {g}
  BY <1>1 DEF Copies, readerVars, TypeOK
<1> HIDE DEF h, g
<1>5. Count(h, m) \in Nat /\ \A k \in Copies : Count(k, m) \in Nat
  BY <1>2, CopiesType, CountType
<1>6. CASE n # m
  <2>1. \A k \in Copies' : \E l \in Copies : Count(k, m) <= Count(l, m)
    BY <1>2, <1>3, <1>4, <1>5, <1>6
  <2>2. Pending(m)' \subseteq Pending(m) /\ deliveries' = deliveries
    BY <1>1 DEF Pending, TypeOK, busVars
  <2>3. \A b \in Bookings : Count(trail'[b], m) <= 1
    BY <1>1 DEF Repetition
  <2> QED BY <2>1, <2>2, <2>3, RepetitionKept
<1>7. CASE n = m
  <2>1. Pending(m)' = Pending(m) \ {f} /\ f \in Pending(m)
    BY <1>1, <1>7 DEF Pending, TypeOK
  <2>2. /\ IsFiniteSet(Pending(m)')
        /\ Cardinality(Pending(m)') = Cardinality(Pending(m)) - 1
        /\ Cardinality(Pending(m)) \in Nat
    BY <2>1, FS_RemoveElement, FS_CardinalityType DEF Repetition
  <2>3. deliveries[m] \in Nat /\ deliveries' = deliveries
    BY <1>1, MaxDeliveriesAssumption DEF TypeOK, BusTypeOK, busVars
  <2>4. Spent(m)' = Spent(m) + 1 /\ Spent(m) \in Int /\ Spent(m) >= 0
    BY <2>2, <2>3 DEF Spent, Repetition
  <2>5. \A k \in Copies : Count(k, m) <= 1 + Spent(m)
    BY DEF Repetition
  <2>6. \A k \in Copies' : Count(k, m) <= 1 + Spent(m)'
    BY <1>2, <1>3, <1>4, <1>5, <1>7, <2>4, <2>5
  <2> QED BY <1>1, <2>2, <2>4, <2>6 DEF Repetition
<1> QED BY <1>6, <1>7

LEMMA RepetitionNext == TypeInv /\ RepetitionInv /\ [Next]_vars => RepetitionInv'
<1> SUFFICES ASSUME TypeInv, RepetitionInv, [Next]_vars, NEW m \in Messages
             PROVE  Repetition(m)'
  BY DEF RepetitionInv
<1>t. TypeOK /\ TypeOK' /\ Repetition(m) /\ BusyHasEvent /\ ReaderHasKey
  BY TypeStep DEF TypeInv, RepetitionInv
<1> DEFINE Copied == Copies' \subseteq Copies \cup {<<>>} \cup {trail[b] : b \in Bookings}
<1>1. ASSUME NEW n \in Messages, Raise(n) \/ Complete(n) \/ LoseLock(n)
      PROVE  Repetition(m)'
  <2>1. UNCHANGED <<trail, cache, functionVars, readerVars, deliveries>>
    BY <1>1 DEF Raise, Put, Complete, Settle, LoseLock, Release
  <2>2. Copied /\ Pending(m)' \subseteq Pending(m)
    BY <2>1 DEF Copies, Pending, functionVars, readerVars
  <2> QED BY <1>t, <2>1, <2>2, CopiedOnly
<1>2. ASSUME NEW n \in Messages, Record(n) PROVE Repetition(m)'
  BY <1>2, <1>t, RecordRepetition
<1>3. ASSUME NEW f \in Workers, NEW n \in Messages, Trigger(f, n) PROVE Repetition(m)'
  BY <1>3, <1>t, TriggerRepetition
<1>4. ASSUME NEW f \in Workers, Get(f) PROVE Repetition(m)'
  <2>1. FBooking(f) \in Bookings
    BY <1>4, <1>t, BookingOfAssumption DEF Get, BusyHasEvent, TypeOK, FBooking
  <2>2. Copied
    BY <1>4, <1>t, <2>1 DEF Get, Copies, TypeOK, readerVars
  <2>3. Pending(m)' \subseteq Pending(m)
    BY <1>4, <1>t DEF Get, Goto, Pending, TypeOK
  <2> QED BY <1>4, <1>t, <2>2, <2>3, CopiedOnly DEF Get, busVars
<1>5. ASSUME NEW f \in Workers, AppendRemove(f) PROVE Repetition(m)'
  BY <1>5, <1>t, AppendRepetition DEF AppendRemove, BusyHasEvent, TypeOK
<1>6. ASSUME NEW f \in Workers, Save(f) PROVE Repetition(m)'
  <2>1. Copied
    BY <1>6, <1>t DEF Save, Copies, TypeOK, readerVars
  <2>2. Pending(m)' \subseteq Pending(m)
    BY <1>6, <1>t DEF Save, Goto, Pending, TypeOK
  <2> QED BY <1>6, <1>t, <2>1, <2>2, CopiedOnly DEF Save, busVars
<1>7. CASE GetNull \/ Crash
  <2>1. HostEnds
    BY <1>7 DEF GetNull, Crash
  <2>2. Copied
    BY <2>1, <1>t DEF HostEnds, Copies, TypeOK, readerVars
  <2>3. Pending(m)' \subseteq Pending(m)
    BY <2>1 DEF HostEnds, Pending
  <2> QED BY <1>t, <2>1, <2>2, <2>3, CopiedOnly DEF HostEnds
<1>8. ASSUME NEW r \in Readers, NEW b \in Bookings, LookUpMiss(r, b) PROVE Repetition(m)'
  <2>1. Copied
    BY <1>8, <1>t DEF LookUpMiss, Copies, TypeOK, functionVars
  <2>2. Pending(m)' \subseteq Pending(m)
    BY <1>8 DEF LookUpMiss, Pending, functionVars
  <2> QED BY <1>8, <1>t, <2>1, <2>2, CopiedOnly DEF LookUpMiss, busVars
<1>9. ASSUME NEW r \in Readers, ReaderStep(r) \/ SetCacheFails(r) PROVE Repetition(m)'
  <2>1. key[r] \in Bookings
    BY <1>9, <1>t
    DEF ReaderStep, QueryNothing, Query, SetCache, SetCacheFails, ReaderHasKey
  <2>2. Copied
    <3>1. CASE QueryNothing(r)
      BY <3>1, <1>t DEF QueryNothing, SetDone, Copies, TypeOK, functionVars
    <3>2. CASE Query(r)
      BY <3>2, <1>t, <2>1 DEF Query, Copies, TypeOK, functionVars
    <3>3. CASE SetCache(r)
      BY <3>3, <1>t DEF SetCache, SetDone, Copies, TypeOK, functionVars
    <3>4. CASE SetCacheFails(r)
      BY <3>4, <1>t DEF SetCacheFails, SetDone, Copies, TypeOK, functionVars
    <3> QED BY <1>9, <3>1, <3>2, <3>3, <3>4 DEF ReaderStep
  <2>3. Pending(m)' \subseteq Pending(m)
    BY <1>9 DEF ReaderStep, QueryNothing, Query, SetCache, SetCacheFails, Pending, functionVars
  <2> QED
    BY <1>9, <1>t, <2>2, <2>3, CopiedOnly
    DEF ReaderStep, QueryNothing, Query, SetCache, SetCacheFails, busVars
<1>10. ASSUME NEW b \in Bookings, Expire(b) PROVE Repetition(m)'
  <2>1. Copied
    BY <1>10, <1>t DEF Expire, Copies, TypeOK, functionVars, readerVars
  <2>2. Pending(m)' \subseteq Pending(m)
    BY <1>10 DEF Expire, Pending, functionVars
  <2> QED BY <1>10, <1>t, <2>1, <2>2, CopiedOnly DEF Expire, busVars
<1>11. CASE UNCHANGED vars
  <2>1. Copied /\ Pending(m)' \subseteq Pending(m)
    BY <1>11 DEF vars, Copies, Pending, functionVars, readerVars
  <2> QED BY <1>11, <1>t, <2>1, CopiedOnly DEF vars, busVars
<1> HIDE DEF Copied
<1> QED
  BY <1>1, <1>2, <1>3, <1>4, <1>5, <1>6, <1>7, <1>8, <1>9, <1>10, <1>11
  DEF Next, FunctionStep, LookUpHit

LEMMA RepetitionBounds == TypeInv /\ RepetitionInv => BoundedRepetition
<1> SUFFICES ASSUME TypeInv, RepetitionInv, NEW m \in Messages, NEW h \in Copies
             PROVE  Count(h, m) <= 1 + deliveries[m]
  BY DEF BoundedRepetition, Copies, TypeInv, TypeOK
<1>1. Cardinality(Pending(m)) \in Nat /\ deliveries[m] \in Nat /\ Count(h, m) \in Nat
  BY FS_CardinalityType, CopiesType, CountType, MaxDeliveriesAssumption
  DEF RepetitionInv, Repetition, TypeInv, TypeOK, BusTypeOK
<1>2. Count(h, m) <= 1 + (deliveries[m] - Cardinality(Pending(m)))
  BY DEF RepetitionInv, Repetition, Spent
<1> QED BY <1>1, <1>2

\* However the two writers of the cache read and overwrite each other, and
\* whatever processes end, no history has an event more often than once from the
\* trail and once for every delivery of it.
THEOREM RepetitionIsBounded == Spec => []BoundedRepetition
  BY RepetitionInit, RepetitionNext, TypeInvariant, RepetitionBounds, PTL DEF Spec
=============================================================================

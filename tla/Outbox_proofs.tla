---------------------------- MODULE Outbox_proofs ----------------------------
(***************************************************************************)
(* What the outbox guarantees for any orders, requests, replicas and       *)
(* faults: no event without its order, bounded repetition, and that races  *)
(* alone lose nothing.                                                     *)
(***************************************************************************)
EXTENDS Outbox, FiniteSetTheorems, TLAPS

\* Nobody has taken up the event of o.
Unseen(o) == log[o] \in {"none", "NotPublished"}

\* The log has an entry for the booked orders and no other; what is published or
\* held is booked; ids in a transaction are new.
LogInv ==
  /\ \A o \in Orders : log[o] # "none" <=> o \in booked
  /\ \A o \in Orders : Unseen(o) => sent[o] = 0
  /\ \A r \in Requests : batch[r] \subseteq booked /\ current[r] \in booked \cup {NoOrder}
  /\ \A r \in Requests : stage[r] \in InTransaction => order[r] \notin booked
  /\ \A r \in Requests : stage[r] \in {"inProgress", "sent"} => ~Unseen(current[r])
  /\ \A r, q \in Requests : r # q /\ order[r] = order[q] => order[r] = NoOrder
  /\ \A r \in Requests : stage[r] = "idle" => order[r] = NoOrder
  /\ \A r \in Requests : current[r] \notin batch[r]

\* Who can still publish the event of o.
Holders(o) == {r \in Requests : o \in batch[r] \/ (current[r] = o /\ stage[r] = "inProgress")}

RepeatInv == \A o \in Orders : sent[o] + Cardinality(Holders(o)) <= Cardinality(Requests)

\* As long as nothing failed, what is not published is in somebody's hands.
InHand(o) ==
  /\ log[o] = "NotPublished" =>
       \E r \in Requests : (order[r] = o /\ stage[r] = "committed") \/ o \in batch[r]
  /\ log[o] = "InProgress" =>
       \E r \in Requests : current[r] = o /\ stage[r] \in {"inProgress", "sent"}
  /\ log[o] = "Published" => sent[o] > 0
  /\ log[o] # "PublishedFailed"

NoFaultInv ==
  faults = 0 =>
    /\ \A o \in booked : InHand(o)
    /\ \A r \in Requests : stage[r] # "failing" /\ (stage[r] = "sent" => sent[current[r]] > 0)

Inv == TypeOK /\ LogInv

-----------------------------------------------------------------------------
(* Types and the log *)

\* Initially nothing is booked.
LEMMA InitInv == Init => Inv
  BY OrdersAssumption, FaultsAssumption
  DEF Init, Inv, TypeOK, LogInv, Stages, Publishing, InTransaction, Unseen, EventStateEnum

\* The steps of a transaction keep the types and the log.
LEMMA TransactionInv ==
  ASSUME Inv, NEW r \in Requests,
         (\E o \in Orders \cup {NoOrder} : Begin(r, o)) \/ Transaction(r) \/ Rollback(r) \/ CommitUnknown(r)
  PROVE  Inv'
<1> USE OrdersAssumption, FaultsAssumption DEF Inv
<1>1. ASSUME NEW o \in Orders \cup {NoOrder}, Begin(r, o) PROVE Inv'
  <2>1. TypeOK'
    BY <1>1 DEF TypeOK, Begin, MoveTo, Stages, Publishing, InTransaction
  <2>2. LogInv'
    BY <1>1 DEF TypeOK, LogInv, Unseen, Begin, MoveTo, Stages, Publishing, InTransaction
  <2> QED
    BY <2>1, <2>2
<1>2. CASE AddOrder(r) \/ SaveEvent(r)
  <2>1. TypeOK'
    BY <1>2 DEF TypeOK, AddOrder, SaveEvent, MoveTo, Stages, Publishing, InTransaction
  <2>2. LogInv'
    BY <1>2 DEF TypeOK, LogInv, Unseen, AddOrder, SaveEvent, MoveTo, Stages, Publishing, InTransaction
  <2> QED
    BY <2>1, <2>2
<1>3. CASE Commit(r)
  <2>1. TypeOK'
    BY <1>3 DEF TypeOK, Commit, CommitRows, UpdateEventStatus, MoveTo, Stages, Publishing, InTransaction,
                EventStateEnum
  <2>2. LogInv'
    BY <1>3 DEF TypeOK, LogInv, Unseen, Commit, CommitRows, UpdateEventStatus, MoveTo, Stages, Publishing,
                InTransaction
  <2> QED
    BY <2>1, <2>2
<1>4. CASE Rollback(r)
  <2>1. TypeOK'
    BY <1>4 DEF TypeOK, Rollback, Fault, End, MoveTo, Stages, Publishing, InTransaction
  <2>2. LogInv'
    BY <1>4 DEF TypeOK, LogInv, Unseen, Rollback, Fault, End, MoveTo, Stages, Publishing, InTransaction
  <2> QED
    BY <2>1, <2>2
<1>5. CASE CommitUnknown(r)
  <2>1. TypeOK'
    BY <1>5 DEF TypeOK, CommitUnknown, CommitRows, UpdateEventStatus, Fault, End, MoveTo, Stages,
                Publishing, InTransaction, EventStateEnum
  <2>2. LogInv'
    BY <1>5 DEF TypeOK, LogInv, Unseen, CommitUnknown, CommitRows, UpdateEventStatus, Fault, End, MoveTo,
                Stages, Publishing, InTransaction
  <2> QED
    BY <2>1, <2>2
<1> QED
  BY <1>1, <1>2, <1>3, <1>4, <1>5 DEF Transaction

\* The steps of the loop keep the types and the log.
LEMMA LoopInv ==
  ASSUME Inv, NEW r \in Requests, PublishEvents(r) \/ Failure(r)
  PROVE  Inv'
<1> USE OrdersAssumption, FaultsAssumption DEF Inv
<1>1. CASE Retrieve(r)
  <2>1. TypeOK'
    BY <1>1 DEF TypeOK, Retrieve, MoveTo, Stages, Publishing, InTransaction
  <2>2. LogInv'
    BY <1>1 DEF TypeOK, LogInv, Unseen, Retrieve, MoveTo, Stages, Publishing, InTransaction
  <2> QED
    BY <2>1, <2>2
<1>2. ASSUME NEW e \in Orders, MarkInProgress(r, e) PROVE Inv'
  <2>1. TypeOK'
    BY <1>2 DEF TypeOK, MarkInProgress, TakeUp, UpdateEventStatus, MoveTo, Stages, Publishing,
                InTransaction, EventStateEnum
  <2>2. LogInv'
    BY <1>2 DEF TypeOK, LogInv, Unseen, MarkInProgress, TakeUp, UpdateEventStatus, MoveTo, Stages,
                Publishing, InTransaction
  <2> QED
    BY <2>1, <2>2
<1>3. ASSUME NEW e \in Orders, MarkInProgressFails(r, e) PROVE Inv'
  <2>1. TypeOK'
    BY <1>3 DEF TypeOK, MarkInProgressFails, TakeUp, Fault, MoveTo, Stages, Publishing, InTransaction
  <2>2. LogInv'
    BY <1>3 DEF TypeOK, LogInv, Unseen, MarkInProgressFails, TakeUp, Fault, MoveTo, Stages, Publishing,
                InTransaction
  <2> QED
    BY <2>1, <2>2
<1>4. CASE Publish(r)
  <2>1. TypeOK'
    BY <1>4 DEF TypeOK, Publish, MoveTo, Stages, Publishing, InTransaction
  <2>2. LogInv'
    BY <1>4 DEF TypeOK, LogInv, Unseen, Publish, MoveTo, Stages, Publishing, InTransaction
  <2> QED
    BY <2>1, <2>2
<1>5. CASE PublishFails(r)
  <2>1. TypeOK'
    BY <1>5 DEF TypeOK, PublishFails, Fault, MoveTo, Stages, Publishing, InTransaction
  <2>2. LogInv'
    BY <1>5 DEF TypeOK, LogInv, Unseen, PublishFails, Fault, MoveTo, Stages, Publishing, InTransaction
  <2> QED
    BY <2>1, <2>2
<1>6. CASE MarkPublished(r) \/ MarkFailed(r)
  <2>0. current[r] \in Orders /\ current[r] \in booked
    BY <1>6 DEF TypeOK, LogInv, MarkPublished, MarkFailed, Publishing
  <2>1. TypeOK'
    BY <1>6, <2>0 DEF TypeOK, MarkPublished, MarkFailed, NextEntry, UpdateEventStatus, MoveTo, Stages,
                Publishing, InTransaction, EventStateEnum
  <2>2. LogInv'
    BY <1>6, <2>0 DEF TypeOK, LogInv, Unseen, MarkPublished, MarkFailed, NextEntry, UpdateEventStatus,
                MoveTo, Stages, Publishing, InTransaction
  <2> QED
    BY <2>1, <2>2
<1>7. CASE Finish(r) \/ RetrieveFails(r) \/ MarkFailedFails(r)
  <2>1. TypeOK'
    BY <1>7 DEF TypeOK, Finish, RetrieveFails, MarkFailedFails, Fault, End, MoveTo, Stages, Publishing,
                InTransaction
  <2>2. LogInv'
    BY <1>7 DEF TypeOK, LogInv, Unseen, Finish, RetrieveFails, MarkFailedFails, Fault, End, MoveTo,
                Stages, Publishing, InTransaction
  <2> QED
    BY <2>1, <2>2
<1> QED
  BY <1>1, <1>2, <1>3, <1>4, <1>5, <1>6, <1>7, TransactionInv DEF PublishEvents, Failure

\* Every step keeps the types and the log.
LEMMA NextInv == Inv /\ [Next]_vars => Inv'
<1> SUFFICES ASSUME Inv, [Next]_vars PROVE Inv'
  OBVIOUS
<1>1. ASSUME NEW p \in Replicas, Crash(p) PROVE Inv'
  <2>1. TypeOK'
    BY <1>1, OrdersAssumption, FaultsAssumption
    DEF Inv, TypeOK, Crash, Fault, Stages, Publishing, InTransaction
  <2>2. LogInv'
    BY <1>1, OrdersAssumption DEF Inv, TypeOK, LogInv, Unseen, Crash, Fault, InTransaction
  <2> QED
    BY <2>1, <2>2 DEF Inv
<1>2. CASE UNCHANGED vars
  BY <1>2 DEF Inv, TypeOK, LogInv, Unseen, vars, requestVars
<1> QED
  BY <1>1, <1>2, TransactionInv, LoopInv DEF Next

-----------------------------------------------------------------------------
(* Theorems on types and orders *)

\* Type correctness, and what a request holds at each of its stages.
THEOREM TypeCorrect == Spec => []TypeOK
<1>1. Inv => TypeOK
  BY DEF Inv
<1> QED
  BY <1>1, InitInv, NextInv, PTL DEF Spec

\* No event without its order, for any number of requests, rollbacks and crashes.
THEOREM PublishedAreBooked == Spec => []PublishedIsBooked
<1>1. Inv => PublishedIsBooked
  BY DEF Inv, TypeOK, LogInv, Unseen, PublishedIsBooked
<1> QED
  BY <1>1, InitInv, NextInv, PTL DEF Spec

-----------------------------------------------------------------------------
(* Repetition *)

\* Sets of requests are finite and no larger than Requests.
LEMMA HoldersAreFew ==
  ASSUME NEW H \in SUBSET Requests
  PROVE  /\ IsFiniteSet(H) /\ Cardinality(H) \in Nat
         /\ Cardinality(Requests) \in Nat /\ Cardinality(H) <= Cardinality(Requests)
  BY RequestsAssumption, FS_Subset, FS_CardinalityType

\* A step that publishes no o and gives no request more to publish keeps the bound.
LEMMA RepeatKept ==
  ASSUME TypeOK, RepeatInv, NEW o \in Orders, sent'[o] = sent[o], Holders(o)' \subseteq Holders(o)
  PROVE  sent'[o] + Cardinality(Holders(o)') <= Cardinality(Requests)
<1> DEFINE Old == Holders(o)
           New == Holders(o)'
<1>1. Old \in SUBSET Requests /\ New \in SUBSET Requests /\ New \subseteq Old
  BY DEF Holders
<1>2. sent[o] \in Nat /\ sent[o] + Cardinality(Old) <= Cardinality(Requests)
  BY DEF TypeOK, RepeatInv
<1>3. Cardinality(New) <= Cardinality(Old)
  BY <1>1, HoldersAreFew, FS_Subset
<1> HIDE DEF Old, New
<1>4. Cardinality(Old) \in Nat /\ Cardinality(New) \in Nat /\ Cardinality(Requests) \in Nat
  BY <1>1, HoldersAreFew
<1>5. sent[o] + Cardinality(New) <= Cardinality(Requests)
  BY <1>2, <1>3, <1>4
<1> QED
  BY <1>5 DEF New

\* Every step keeps the bound: who retrieves an event finds it unseen, and who
\* publishes it holds it no more.
LEMMA RepeatNext == Inv /\ RepeatInv /\ [Next]_vars => RepeatInv'
<1> SUFFICES ASSUME Inv, RepeatInv, [Next]_vars, NEW o \in Orders
             PROVE  sent'[o] + Cardinality(Holders(o)') <= Cardinality(Requests)
  BY DEF RepeatInv
<1> DEFINE Bound == sent'[o] + Cardinality(Holders(o)') <= Cardinality(Requests)
           Kept == sent'[o] = sent[o] /\ Holders(o)' \subseteq Holders(o)
<1>t. TypeOK /\ LogInv
  BY DEF Inv
<1>k. Kept => Bound
  BY <1>t, RepeatKept
<1> HIDE DEF Bound
<1> USE <1>t DEF TypeOK, Holders, MoveTo
<1>1. ASSUME NEW r \in Requests, NEW b \in Orders \cup {NoOrder}, Begin(r, b) PROVE Kept
  BY <1>1 DEF Begin
<1>2. ASSUME NEW r \in Requests, Transaction(r) PROVE Kept
  <2>1. CASE AddOrder(r) \/ SaveEvent(r)
    BY <2>1 DEF AddOrder, SaveEvent
  <2>2. CASE Commit(r)
    BY <2>2 DEF Commit
  <2> QED
    BY <1>2, <2>1, <2>2 DEF Transaction
<1>3. ASSUME NEW r \in Requests, Failure(r) PROVE Kept
  <2>1. CASE Rollback(r) \/ CommitUnknown(r) \/ RetrieveFails(r) \/ MarkFailedFails(r)
    BY <2>1, OrdersAssumption DEF Rollback, CommitUnknown, RetrieveFails, MarkFailedFails, End
  <2>2. CASE PublishFails(r)
    BY <2>2 DEF PublishFails
  <2>3. ASSUME NEW e \in Orders, MarkInProgressFails(r, e) PROVE Kept
    BY <2>3 DEF MarkInProgressFails, TakeUp
  <2> QED
    BY <1>3, <2>1, <2>2, <2>3 DEF Failure
<1>4. ASSUME NEW r \in Requests, Retrieve(r) PROVE Bound
  <2>1. CASE Unseen(o)
    <3>1. sent'[o] = 0
      BY <1>4, <2>1 DEF Retrieve, LogInv
    <3>2. Holders(o)' \in SUBSET Requests
      OBVIOUS
    <3>3. Cardinality(Holders(o)') <= Cardinality(Requests) /\ Cardinality(Holders(o)') \in Nat
      BY <3>2, HoldersAreFew
    <3> HIDE DEF Holders
    <3> QED
      BY <3>1, <3>3 DEF Bound
  <2>2. CASE ~Unseen(o)
    BY <1>4, <2>2, <1>k DEF Retrieve, Unseen
  <2> QED
    BY <2>1, <2>2
<1>5. ASSUME NEW r \in Requests, Publish(r) PROVE Bound
  <2>1. CASE o # current[r]
    BY <1>5, <2>1, <1>k DEF Publish
  <2>2. CASE o = current[r]
    <3>1. sent'[o] = sent[o] + 1 /\ sent[o] \in Nat
      BY <1>5, <2>2 DEF Publish
    <3>2. r \in Holders(o) /\ Holders(o)' \subseteq Holders(o) \ {r}
      BY <1>5, <2>2 DEF Publish, LogInv
    <3>3. sent[o] + Cardinality(Holders(o)) <= Cardinality(Requests)
      BY DEF RepeatInv
    <3>4. Holders(o) \in SUBSET Requests /\ Holders(o)' \in SUBSET Requests
      OBVIOUS
    <3> HIDE DEF Holders
    <3>5. /\ IsFiniteSet(Holders(o)) /\ Cardinality(Holders(o)) \in Nat
          /\ Cardinality(Holders(o)') \in Nat /\ Cardinality(Requests) \in Nat
      BY <3>4, HoldersAreFew
    <3>6. /\ IsFiniteSet(Holders(o) \ {r})
          /\ Cardinality(Holders(o) \ {r}) = Cardinality(Holders(o)) - 1
      BY <3>2, <3>5, FS_RemoveElement
    <3>7. Cardinality(Holders(o)') <= Cardinality(Holders(o) \ {r})
      BY <3>2, <3>6, FS_Subset
    <3> QED
      BY <3>1, <3>3, <3>5, <3>6, <3>7 DEF Bound
  <2> QED
    BY <2>1, <2>2
<1>6. ASSUME NEW r \in Requests, MarkPublished(r) \/ MarkFailed(r) \/ Finish(r) PROVE Kept
  BY <1>6, OrdersAssumption DEF MarkPublished, MarkFailed, NextEntry, Finish, End
<1>7. ASSUME NEW r \in Requests, NEW e \in Orders, MarkInProgress(r, e) PROVE Kept
  BY <1>7 DEF MarkInProgress, TakeUp
<1>8. ASSUME NEW p \in Replicas, Crash(p) PROVE Kept
  BY <1>8, OrdersAssumption DEF Crash
<1>9. ASSUME UNCHANGED vars PROVE Kept
  BY <1>9 DEF vars, requestVars
<1> HIDE DEF TypeOK, Holders, MoveTo, Kept
<1>b. Bound
  BY <1>k, <1>1, <1>2, <1>3, <1>4, <1>5, <1>6, <1>7, <1>8, <1>9 DEF Next, PublishEvents
<1> QED
  BY <1>b DEF Bound

\* An event is on the topic at most as many times as requests can run at once.
THEOREM RepeatsAreBounded == Spec => []RepeatsAreConcurrent
<1>1. Init => RepeatInv
  <2> SUFFICES ASSUME Init, NEW o \in Orders
               PROVE  sent[o] + Cardinality(Holders(o)) <= Cardinality(Requests)
    BY DEF RepeatInv
  <2>1. sent[o] = 0
    BY DEF Init
  <2>2. /\ Cardinality(Holders(o)) \in Nat
        /\ Cardinality(Holders(o)) <= Cardinality(Requests)
    BY HoldersAreFew DEF Holders
  <2> QED
    BY <2>1, <2>2
<1>2. Inv /\ RepeatInv => RepeatsAreConcurrent
  <2> SUFFICES ASSUME Inv, RepeatInv, NEW o \in Orders PROVE sent[o] <= Cardinality(Requests)
    BY DEF RepeatsAreConcurrent
  <2>1. sent[o] \in Nat /\ sent[o] + Cardinality(Holders(o)) <= Cardinality(Requests)
    BY DEF Inv, TypeOK, RepeatInv
  <2>2. Cardinality(Holders(o)) \in Nat /\ Cardinality(Requests) \in Nat
    BY HoldersAreFew DEF Holders
  <2> QED
    BY <2>1, <2>2
<1> QED
  BY <1>1, <1>2, InitInv, NextInv, RepeatNext, PTL DEF Spec

-----------------------------------------------------------------------------
(* Races without faults *)

\* Every step that is no fault hands the unpublished events on.
LEMMA NoFaultNext == Inv /\ NoFaultInv /\ [Next]_vars => NoFaultInv'
<1> SUFFICES ASSUME Inv, NoFaultInv, [Next]_vars, faults' = 0 PROVE NoFaultInv'
  BY DEF NoFaultInv
<1>t. TypeOK /\ LogInv
  BY DEF Inv
<1>f. ASSUME NEW f, Fault(f) PROVE FALSE
  BY <1>t, <1>f, FaultsAssumption DEF Fault, TypeOK
<1>c. ASSUME faults = 0
      PROVE  /\ \A o \in booked : InHand(o)
             /\ \A r \in Requests : stage[r] # "failing" /\ (stage[r] = "sent" => sent[current[r]] > 0)
  BY <1>c DEF NoFaultInv
<1> USE <1>t, OrdersAssumption DEF TypeOK, NoFaultInv, InHand, MoveTo
<1>1. ASSUME NEW r \in Requests, NEW b \in Orders \cup {NoOrder}, Begin(r, b) PROVE NoFaultInv'
  BY <1>1 DEF Begin
<1>2. ASSUME NEW r \in Requests, AddOrder(r) \/ SaveEvent(r) PROVE NoFaultInv'
  BY <1>2 DEF AddOrder, SaveEvent
<1>3. ASSUME NEW r \in Requests, Commit(r) PROVE NoFaultInv'
  <2>1. CASE order[r] = NoOrder
    BY <1>3, <2>1 DEF Commit, CommitRows
  <2>2. CASE order[r] # NoOrder
    <3>1. /\ booked' = booked \cup {order[r]} /\ log' = [log EXCEPT ![order[r]] = "NotPublished"]
          /\ stage' = [stage EXCEPT ![r] = "committed"] /\ UNCHANGED <<order, batch, current, sent, faults>>
          /\ stage[r] = "logged"
      BY <1>3, <2>2 DEF Commit, CommitRows, UpdateEventStatus
    <3>0. order[r] \in Orders /\ log'[order[r]] = "NotPublished" /\ faults = 0
      BY <3>1, <2>2
    <3>2. ASSUME NEW o \in booked' PROVE InHand(o)'
      <4>1. CASE o = order[r]
        BY <4>1, <3>0, <3>1
      <4>2. CASE o # order[r]
        <5>1. o \in booked /\ InHand(o) /\ log'[o] = log[o]
          BY <4>2, <3>0, <3>1
        <5> QED
          BY <5>1, <3>1
      <4> QED
        BY <4>1, <4>2
    <3>3. \A q \in Requests : stage'[q] # "failing" /\ (stage'[q] = "sent" => sent'[current'[q]] > 0)
      BY <3>1
    <3> QED
      BY <3>2, <3>3
  <2> QED
    BY <2>1, <2>2
<1>4. ASSUME NEW r \in Requests, Retrieve(r) PROVE NoFaultInv'
  BY <1>4 DEF Retrieve, LogInv
<1>5. ASSUME NEW r \in Requests, NEW e \in Orders, MarkInProgress(r, e) PROVE NoFaultInv'
  <2>1. /\ stage[r] = "retrieved" /\ e \in batch[r] /\ faults = 0 /\ UNCHANGED <<order, booked, sent, faults>>
        /\ batch' = [batch EXCEPT ![r] = @ \ {e}] /\ current' = [current EXCEPT ![r] = e]
        /\ stage' = [stage EXCEPT ![r] = "inProgress"] /\ log' = [log EXCEPT ![e] = "InProgress"]
    BY <1>5 DEF MarkInProgress, TakeUp, UpdateEventStatus
  <2>2. current[r] = NoOrder
    BY <2>1 DEF Publishing
  <2>3. ASSUME NEW o \in booked' PROVE InHand(o)'
    <3>1. CASE o = e
      BY <3>1, <2>1
    <3>2. CASE o # e
      <4>1. InHand(o) /\ log'[o] = log[o]
        BY <3>2, <2>1, <2>3
      <4>2. \A q \in Requests : o \in batch[q] => o \in batch'[q]
        BY <3>2, <2>1
      <4>3. \A q \in Requests : current[q] = o => current'[q] = o /\ stage'[q] = stage[q]
        BY <2>1, <2>2, <2>3
      <4>4. \A q \in Requests : stage[q] = "committed" => stage'[q] = "committed"
        BY <2>1
      <4> QED
        BY <4>1, <4>2, <4>3, <4>4, <2>1
    <3> QED
      BY <3>1, <3>2
  <2>4. \A q \in Requests : stage'[q] # "failing" /\ (stage'[q] = "sent" => sent'[current'[q]] > 0)
    BY <2>1
  <2> QED
    BY <2>3, <2>4
<1>6. ASSUME NEW r \in Requests, Publish(r) PROVE NoFaultInv'
  <2>1. /\ stage[r] = "inProgress" /\ current[r] \in Orders /\ faults = 0
        /\ stage' = [stage EXCEPT ![r] = "sent"] /\ sent' = [sent EXCEPT ![current[r]] = @ + 1]
        /\ UNCHANGED <<order, batch, current, booked, log, faults>>
    BY <1>6 DEF Publish, Publishing
  <2>2. \A o \in Orders : sent[o] > 0 => sent'[o] > 0
    BY <2>1
  <2>3. sent'[current[r]] > 0
    BY <2>1
  <2>4. ASSUME NEW o \in booked' PROVE InHand(o)'
    <3>1. InHand(o) /\ o \in Orders
      BY <2>1, <2>4
    <3>2. \A q \in Requests : /\ stage[q] = "committed" => stage'[q] = "committed"
                             /\ stage[q] \in {"inProgress", "sent"} => stage'[q] \in {"inProgress", "sent"}
      BY <2>1
    <3> QED
      BY <2>1, <2>2, <3>1, <3>2
  <2>5. ASSUME NEW q \in Requests PROVE stage'[q] # "failing" /\ (stage'[q] = "sent" => sent'[current'[q]] > 0)
    <3>1. CASE q = r
      BY <3>1, <2>1, <2>3
    <3>2. CASE q # r
      <4>1. stage[q] = "sent" => current[q] \in Orders
        BY DEF Publishing
      <4> QED
        BY <3>2, <4>1, <2>1, <2>2
    <3> QED
      BY <3>1, <3>2
  <2> QED
    BY <2>4, <2>5
<1>7. ASSUME NEW r \in Requests, MarkPublished(r) PROVE NoFaultInv'
  BY <1>7 DEF MarkPublished, NextEntry, UpdateEventStatus
<1>8. ASSUME NEW r \in Requests, MarkFailed(r) PROVE NoFaultInv'
  BY <1>8 DEF MarkFailed
<1>9. ASSUME NEW r \in Requests, Finish(r) PROVE NoFaultInv'
  BY <1>9 DEF Finish, End
<1>10. ASSUME NEW r \in Requests, Failure(r) PROVE NoFaultInv'
  BY <1>10, <1>f DEF Failure, Rollback, CommitUnknown, RetrieveFails, PublishFails, MarkFailedFails,
                     MarkInProgressFails
<1>11. ASSUME NEW p \in Replicas, Crash(p) PROVE NoFaultInv'
  BY <1>11, <1>f DEF Crash
<1>12. CASE UNCHANGED vars
  BY <1>12 DEF vars, requestVars
<1> HIDE DEF TypeOK, NoFaultInv, InHand, MoveTo
<1> QED
  BY <1>1, <1>2, <1>3, <1>4, <1>5, <1>6, <1>7, <1>8, <1>9, <1>10, <1>11, <1>12
  DEF Next, Transaction, PublishEvents

\* Races alone lose nothing: without a fault, when no request runs, everything is
\* published and marked so.
THEOREM RacesLoseNothing == Spec => []QuietIsPublished
<1>1. Init => NoFaultInv
  BY DEF Init, NoFaultInv
<1>2. Inv /\ NoFaultInv => QuietIsPublished
  <2> SUFFICES ASSUME Inv, NoFaultInv, faults = 0, \A r \in Requests : stage[r] = "idle",
                      NEW o \in booked
               PROVE  sent[o] > 0 /\ log[o] = "Published"
    BY DEF QuietIsPublished
  <2>1. InHand(o) /\ o \in Orders
    BY DEF NoFaultInv, Inv, TypeOK
  <2>2. \A r \in Requests : batch[r] = {} /\ current[r] = NoOrder
    BY DEF Inv, TypeOK, Publishing
  <2>3. log[o] \in EventStateEnum
    BY <2>1 DEF Inv, TypeOK, LogInv
  <2> QED
    BY <2>1, <2>2, <2>3, OrdersAssumption DEF InHand, EventStateEnum
<1> QED
  BY <1>1, <1>2, InitInv, NextInv, NoFaultNext, PTL DEF Spec
=============================================================================

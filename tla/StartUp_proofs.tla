--------------------------- MODULE StartUp_proofs ---------------------------
(***************************************************************************)
(* A start of the tracking service that reaches its server leaves the      *)
(* whole schema behind, whatever other replicas create meanwhile.          *)
(*                                                                         *)
(* A clash costs a retry.  It shows that the object exists by now, and so  *)
(* does every object before it: after k clashes the first k objects of the *)
(* call exist, and the next clash is about a later one.  A policy with as  *)
(* many retries as its call has objects does not give up.                  *)
(***************************************************************************)
EXTENDS StartUp, TLAPS

Assumptions ==
  /\ Calls \in Seq(Seq(Objects)) /\ Retries \in [DOMAIN Calls -> Nat]
  /\ \A i \in DOMAIN Calls : Len(Calls[i]) <= Retries[i]
  /\ MovedAfter \in Nat /\ MaxOutages \in Nat /\ MaxStarts \in Nat

LEMMA AssumptionsHold == Assumptions
BY CallsAssumption, RetriesAssumption, BoundsAssumption DEF Assumptions

\* What a call is made of.
LEMMA CallShape ==
  ASSUME NEW i \in DOMAIN Calls
  PROVE  /\ i \in 1..Len(Calls) /\ Len(Calls) \in Nat
         /\ Calls[i] \in Seq(Objects) /\ Len(Calls[i]) \in Nat
         /\ DOMAIN Calls[i] = 1..Len(Calls[i])
         /\ Retries[i] \in Nat /\ Len(Calls[i]) <= Retries[i]
         /\ \A j \in 1..Len(Calls[i]) : Calls[i][j] \in Objects
<1>1. Calls[i] \in Seq(Objects) /\ Len(Calls) \in Nat /\ i \in 1..Len(Calls)
  BY AssumptionsHold DEF Assumptions
<1>2. QED BY <1>1, AssumptionsHold DEF Assumptions

LEMMA LengthIsNat == Len(Calls) \in Nat /\ DOMAIN Calls = 1..Len(Calls)
BY AssumptionsHold DEF Assumptions

\* The call a replica is in is one of the calls.
LEMMA InACall ==
  ASSUME TypeOK, NEW r \in Replicas, Calling(r)
  PROVE  call[r] \in DOMAIN Calls
BY LengthIsNat DEF TypeOK, Calling

-----------------------------------------------------------------------------
(* Types *)

\* TypeOK in two parts: the ranges of the variables, and the place of each replica.
RangesOK ==
  /\ up \in BOOLEAN /\ outages \in 0..MaxOutages /\ starts \in 0..MaxStarts
  /\ objects \subseteq {"master", "own"} \X Objects
  /\ pc \in [Replicas -> {"off", "starting", "serving"}]
  /\ call \in [Replicas -> 1..Len(Calls) + 1]
  /\ tries \in [Replicas -> Nat]
  /\ at \in [Replicas -> Nat \ {0}]
  /\ missing \in [Replicas -> BOOLEAN]
  /\ astray \in [Replicas -> BOOLEAN] /\ cutOff \in [Replicas -> BOOLEAN]

PlaceOK(r) ==
  Calling(r) => /\ tries[r] <= Retries[call[r]]
                /\ at[r] <= Len(Calls[call[r]]) + 1
                /\ missing[r] => at[r] <= Len(Calls[call[r]])

LEMMA InitTypeOK == Init => TypeOK
<1> SUFFICES ASSUME Init PROVE TypeOK OBVIOUS
<1>1. \A r \in Replicas : ~Calling(r) BY DEF Init, Calling
<1>2. QED BY <1>1, LengthIsNat, AssumptionsHold DEF Init, TypeOK, Assumptions

\* A failed call starts again within its policy, or the service serves.
LEMMA FailedCallInType ==
  ASSUME TypeOK, NEW r \in Replicas, Calling(r), FailCall(r), UNCHANGED call
  PROVE  /\ pc' \in [Replicas -> {"off", "starting", "serving"}]
         /\ tries' \in [Replicas -> Nat]
         /\ at' \in [Replicas -> Nat \ {0}]
         /\ missing' \in [Replicas -> BOOLEAN]
         /\ PlaceOK(r)'
         /\ \A s \in Replicas \ {r} : UNCHANGED <<pc[s], tries[s], at[s], missing[s]>>
<1>1. call[r] \in DOMAIN Calls BY InACall
<1>2. CASE tries[r] < Retries[call[r]]
  <2>1. /\ tries' = [tries EXCEPT ![r] = @ + 1]
        /\ at' = [at EXCEPT ![r] = 1]
        /\ missing' = [missing EXCEPT ![r] = FALSE]
        /\ UNCHANGED <<pc, call>>
    BY <1>2 DEF FailCall
  <2>2. QED BY <2>1, <1>1, <1>2, CallShape DEF TypeOK, PlaceOK, Calling
<1>3. CASE ~(tries[r] < Retries[call[r]])
  <2>1. /\ pc' = [pc EXCEPT ![r] = "serving"]
        /\ missing' = [missing EXCEPT ![r] = FALSE]
        /\ UNCHANGED <<call, tries, at>>
    BY <1>3 DEF FailCall
  <2>2. QED BY <2>1 DEF TypeOK, PlaceOK, Calling
<1>4. QED BY <1>2, <1>3

\* Every step keeps the types; only the replica that moves can change its place.
LEMMA NextTypeOK == TypeOK /\ [Next]_vars => TypeOK'
<1> SUFFICES ASSUME TypeOK, [Next]_vars
             PROVE  RangesOK' /\ \A s \in Replicas : PlaceOK(s)'
  BY DEF TypeOK, RangesOK, PlaceOK
<1> USE DEF serverVars, replicaVars, RangesOK
<1>s. RangesOK /\ \A r \in Replicas : PlaceOK(r) BY DEF TypeOK, RangesOK, PlaceOK
<1>b. MaxOutages \in Nat /\ MaxStarts \in Nat BY AssumptionsHold DEF Assumptions
<1>n. Len(Calls) \in Nat BY LengthIsNat
<1>1. ASSUME NEW r \in Replicas, Start(r)
      PROVE  RangesOK' /\ \A s \in Replicas : PlaceOK(s)'
  <2>1. PlaceOK(r)'
    <3>1. SUFFICES ASSUME Calling(r)' PROVE PlaceOK(r)' BY DEF PlaceOK
    <3>2. call'[r] = 1 /\ tries'[r] = 0 /\ at'[r] = 1 /\ missing'[r] = FALSE
      BY <1>1, <1>s DEF Start
    <3>3. 1 \in DOMAIN Calls BY <3>1, <3>2, LengthIsNat DEF Calling
    <3>4. QED BY <3>2, <3>3, CallShape DEF PlaceOK
  <2>2. \A s \in Replicas \ {r} : PlaceOK(s)'
    BY <1>1, <1>s DEF Start, PlaceOK, Calling
  <2>3. QED BY <1>1, <1>s, <1>b, <1>n, <2>1, <2>2 DEF Start
<1>2. ASSUME NEW r \in Replicas, Look(r)
      PROVE  RangesOK' /\ \A s \in Replicas : PlaceOK(s)'
  <2>1. call[r] \in DOMAIN Calls BY <1>2, InACall DEF Look
  <2>2. Len(Calls[call[r]]) \in Nat BY <2>1, CallShape
  <2>3. CASE Placed(r) \in objects
    <3>1. at' = [at EXCEPT ![r] = @ + 1] /\ UNCHANGED missing BY <1>2, <2>3 DEF Look
    <3>2. \A s \in Replicas : PlaceOK(s)'
      BY <1>2, <1>s, <2>2, <3>1 DEF Look, PlaceOK, Calling
    <3>3. QED BY <1>2, <1>s, <3>1, <3>2 DEF Look
  <2>4. CASE Placed(r) \notin objects
    <3>1. missing' = [missing EXCEPT ![r] = TRUE] /\ UNCHANGED at BY <1>2, <2>4 DEF Look
    <3>2. \A s \in Replicas : PlaceOK(s)'
      BY <1>2, <1>s, <2>2, <3>1 DEF Look, PlaceOK, Calling
    <3>3. QED BY <1>2, <1>s, <3>1, <3>2 DEF Look
  <2>5. QED BY <2>3, <2>4
<1>3. ASSUME NEW r \in Replicas, Create(r)
      PROVE  RangesOK' /\ \A s \in Replicas : PlaceOK(s)'
  <2>1. call[r] \in DOMAIN Calls BY <1>3, InACall DEF Create
  <2>2. Len(Calls[call[r]]) \in Nat /\ at[r] \in 1..Len(Calls[call[r]])
    BY <1>3, <1>s, <2>1, CallShape DEF Create, PlaceOK
  <2>3. Placed(r) \in {"master", "own"} \X Objects
    BY <2>1, <2>2, CallShape DEF Placed, Object, Database
  <2>4. \A s \in Replicas : PlaceOK(s)'
    BY <1>3, <1>s, <2>2 DEF Create, PlaceOK, Calling
  <2>5. QED BY <1>3, <1>s, <2>3, <2>4 DEF Create
<1>4. ASSUME NEW r \in Replicas, EndCall(r)
      PROVE  RangesOK' /\ \A s \in Replicas : PlaceOK(s)'
  <2>1. call[r] \in DOMAIN Calls BY <1>4, InACall DEF EndCall
  <2>2. call[r] \in 1..Len(Calls) BY <2>1, LengthIsNat
  <2>3. missing[r] = FALSE
    BY <1>4, <1>s, <2>1, CallShape DEF EndCall, PlaceOK
  <2>4. PlaceOK(r)'
    <3>1. SUFFICES ASSUME Calling(r)' PROVE PlaceOK(r)' BY DEF PlaceOK
    <3>2. call'[r] = call[r] + 1 /\ tries'[r] = 0 /\ at'[r] = 1 /\ missing'[r] = FALSE
      BY <1>4, <1>s, <2>3 DEF EndCall
    <3>3. call'[r] \in DOMAIN Calls BY <2>2, <3>1, <3>2, LengthIsNat DEF Calling
    <3>4. QED BY <3>2, <3>3, CallShape DEF PlaceOK
  <2>5. \A s \in Replicas \ {r} : PlaceOK(s)'
    BY <1>4, <1>s DEF EndCall, PlaceOK, Calling
  <2>6. QED BY <1>4, <1>s, <1>n, <2>2, <2>4, <2>5 DEF EndCall
<1>5. ASSUME NEW r \in Replicas, Clash(r) \/ MoveFails(r)
      PROVE  RangesOK' /\ \A s \in Replicas : PlaceOK(s)'
  <2>1. Calling(r) /\ FailCall(r) /\ UNCHANGED <<up, outages, objects, starts, astray, cutOff>>
    BY <1>5 DEF Clash, MoveFails
  <2>2. UNCHANGED call BY <2>1 DEF FailCall
  <2>3. \A s \in Replicas : PlaceOK(s)'
    BY <1>s, <2>1, <2>2, FailedCallInType DEF PlaceOK, Calling
  <2>4. QED BY <1>s, <2>1, <2>2, <2>3, FailedCallInType
<1>6. ASSUME NEW r \in Replicas, Unreachable(r)
      PROVE  RangesOK' /\ \A s \in Replicas : PlaceOK(s)'
  <2>1. /\ Calling(r) /\ FailCall(r) /\ UNCHANGED <<up, outages, objects, starts>>
        /\ astray' = [astray EXCEPT ![r] = call[r] > 1]
        /\ cutOff' = [cutOff EXCEPT ![r] = TRUE]
    BY <1>6 DEF Unreachable
  <2>2. UNCHANGED call BY <2>1 DEF FailCall
  <2>3. \A s \in Replicas : PlaceOK(s)'
    BY <1>s, <2>1, <2>2, FailedCallInType DEF PlaceOK, Calling
  <2>4. astray' \in [Replicas -> BOOLEAN] /\ cutOff' \in [Replicas -> BOOLEAN]
    BY <1>s, <2>1
  <2>5. QED BY <1>s, <2>1, <2>2, <2>3, <2>4, FailedCallInType
<1>7. ASSUME NEW r \in Replicas, Serve(r) \/ Crash(r)
      PROVE  RangesOK' /\ \A s \in Replicas : PlaceOK(s)'
  <2>1. \A s \in Replicas : PlaceOK(s)'
    BY <1>7, <1>s DEF Serve, Crash, PlaceOK, Calling
  <2>2. QED BY <1>7, <1>s, <2>1 DEF Serve, Crash
<1>8. ASSUME GoDown \/ ComeUp
      PROVE  RangesOK' /\ \A s \in Replicas : PlaceOK(s)'
  <2>1. /\ up' \in BOOLEAN /\ outages' \in 0..MaxOutages
        /\ UNCHANGED <<starts, objects, pc, call, tries, at, missing, astray, cutOff>>
    <3>1. CASE GoDown
      <4>1. outages \in Nat /\ outages < MaxOutages /\ outages' = outages + 1
        BY <3>1, <1>s DEF GoDown
      <4>2. outages' \in 0..MaxOutages BY <4>1, <1>b
      <4>3. up' = FALSE /\ UNCHANGED <<starts, objects, pc, call, tries, at, missing, astray, cutOff>>
        BY <3>1 DEF GoDown
      <4>4. QED BY <4>2, <4>3
    <3>2. CASE ComeUp BY <3>2, <1>s, <1>b DEF ComeUp
    <3>3. QED BY <1>8, <3>1, <3>2
  <2>2. \A s \in Replicas : PlaceOK(s)' BY <2>1, <1>s DEF PlaceOK, Calling
  <2>3. QED BY <2>1, <2>2, <1>s
<1>9. ASSUME UNCHANGED vars
      PROVE  RangesOK' /\ \A s \in Replicas : PlaceOK(s)'
  BY <1>9, <1>s DEF vars, PlaceOK, Calling
<1>10. QED BY <1>1, <1>2, <1>3, <1>4, <1>5, <1>6, <1>7, <1>8, <1>9 DEF Next, Step

\* Every reachable state has its types, and no policy of EnsureDatabase is overdrawn.
THEOREM TypeCorrect == Spec => []TypeOK
BY InitTypeOK, NextTypeOK, PTL DEF Spec

-----------------------------------------------------------------------------
(* The schema *)

\* What replica r has achieved in this start: its earlier calls are done; so is what
\* it passed in this call, and as many objects from its start as it was retried.
Made(r) ==
  /\ \A i \in DOMAIN Calls : i < call[r] =>
       \A j \in DOMAIN Calls[i] : <<Database(i), Calls[i][j]>> \in objects
  /\ call[r] <= Len(Calls) =>
       \A j \in DOMAIN Calls[call[r]] :
         j < at[r] \/ j <= tries[r] =>
           <<Database(call[r]), Calls[call[r]][j]>> \in objects
  /\ missing[r] => tries[r] < at[r]
  /\ ~astray[r]

\* The inductive invariant.
ReadyInv ==
  \A r \in Replicas : ~cutOff[r] =>
    /\ pc[r] = "starting" => Made(r)
    /\ pc[r] = "serving" => Schema \subseteq objects

\* No step removes an object.
LEMMA ObjectsStay == [Next]_vars => objects \subseteq objects'
BY DEF Next, Step, Start, Look, Create, EndCall, Clash, MoveFails, Unreachable, Serve,
       Crash, GoDown, ComeUp, FailCall, vars, serverVars, replicaVars

LEMMA InitReady == Init => ReadyInv
BY DEF Init, ReadyInv

\* More objects do not harm a replica that does not move.
LEMMA OthersKeep ==
  ASSUME NEW r \in Replicas,
         objects \subseteq objects',
         UNCHANGED <<pc[r], call[r], tries[r], at[r], missing[r], astray[r], cutOff[r]>>,
         ReadyInv
  PROVE  ~cutOff'[r] => /\ pc'[r] = "starting" => Made(r)'
                        /\ pc'[r] = "serving" => Schema \subseteq objects'
<1>1. SUFFICES ASSUME ~cutOff'[r]
               PROVE  /\ pc'[r] = "starting" => Made(r)'
                      /\ pc'[r] = "serving" => Schema \subseteq objects'
  OBVIOUS
<1>2. /\ pc[r] = "starting" => Made(r)
      /\ pc[r] = "serving" => Schema \subseteq objects
  BY <1>1 DEF ReadyInv
<1>3. pc[r] = "starting" => Made(r)'
  <2>1. SUFFICES ASSUME Made(r) PROVE Made(r)' BY <1>2
  <2>2. QED BY <2>1 DEF Made, Database
<1>4. Schema' = Schema BY DEF Schema, Database
<1>5. QED BY <1>2, <1>3

\* The replica that moves: at a clash every object up to the one it is about exists,
\* so it has more objects than retries, and the policy has a retry left.
LEMMA MoverKeeps ==
  ASSUME TypeOK, ReadyInv, [Next]_vars, objects \subseteq objects',
         NEW r \in Replicas, Start(r) \/ Step(r) \/ Crash(r), ~cutOff'[r]
  PROVE  /\ pc'[r] = "starting" => Made(r)'
         /\ pc'[r] = "serving" => Schema \subseteq objects'
<1> USE DEF serverVars, replicaVars
<1>t. /\ call[r] \in 1..Len(Calls) + 1 /\ tries[r] \in Nat /\ at[r] \in Nat \ {0}
      /\ missing[r] \in BOOLEAN /\ Len(Calls) \in Nat
      /\ r \in DOMAIN pc /\ r \in DOMAIN call /\ r \in DOMAIN tries /\ r \in DOMAIN at
      /\ r \in DOMAIN missing /\ r \in DOMAIN astray /\ r \in DOMAIN cutOff
  BY LengthIsNat DEF TypeOK
<1>1. CASE Start(r)
  <2>1. /\ pc'[r] = "starting" /\ call'[r] = 1 /\ tries'[r] = 0 /\ at'[r] = 1
        /\ missing'[r] = FALSE /\ astray'[r] = FALSE
    BY <1>1, <1>t DEF Start
  <2>2. \A i \in DOMAIN Calls : ~(i < 1) BY LengthIsNat
  <2>3. 1 <= Len(Calls) => \A j \in DOMAIN Calls[1] : ~(j < 1 \/ j <= 0)
    <3>1. SUFFICES ASSUME 1 <= Len(Calls), NEW j \in DOMAIN Calls[1]
                   PROVE  ~(j < 1 \/ j <= 0)
      OBVIOUS
    <3>2. 1 \in DOMAIN Calls BY <3>1, LengthIsNat
    <3>3. QED BY <3>1, <3>2, CallShape
  <2>4. QED BY <2>1, <2>2, <2>3 DEF Made
<1>2. CASE Look(r) \/ Create(r) \/ EndCall(r) \/ Clash(r)
  <2>1. ~cutOff[r] /\ pc[r] = "starting" /\ Calling(r) /\ UNCHANGED cutOff
    BY <1>2, <1>t DEF Look, Create, EndCall, Clash, Calling
  <2>2. Made(r) BY <2>1 DEF ReadyInv
  <2>3. call[r] \in DOMAIN Calls BY <2>1, InACall
  <2>4. /\ Len(Calls[call[r]]) \in Nat
        /\ DOMAIN Calls[call[r]] = 1..Len(Calls[call[r]])
        /\ Retries[call[r]] \in Nat /\ Len(Calls[call[r]]) <= Retries[call[r]]
    BY <2>3, CallShape
  <2>5. Placed(r) = <<Database(call[r]), Calls[call[r]][at[r]]>>
    BY <2>2 DEF Made, Placed, Object
  <2>6. call[r] <= Len(Calls) BY <2>1 DEF Calling
  <2>7. CASE Look(r)
    <3>1. at[r] \in DOMAIN Calls[call[r]] BY <2>4, <2>7, <1>t DEF Look
    <3>2. CASE Placed(r) \in objects
      <4>1. /\ at'[r] = at[r] + 1 /\ UNCHANGED <<missing, objects, pc, call, tries, astray>>
            /\ ~missing[r]
        BY <2>7, <3>2, <1>t DEF Look
      <4>2. \A j \in DOMAIN Calls[call[r]] :
              j < at[r] + 1 \/ j <= tries[r] =>
                <<Database(call[r]), Calls[call[r]][j]>> \in objects
        <5>1. \A j \in DOMAIN Calls[call[r]] :
                j < at[r] + 1 \/ j <= tries[r] => j < at[r] \/ j = at[r] \/ j <= tries[r]
          BY <2>4, <1>t
        <5>2. QED BY <5>1, <2>2, <2>5, <2>6, <3>2 DEF Made
      <4>3. QED BY <2>1, <2>2, <4>1, <4>2 DEF Made, Database
    <3>3. CASE Placed(r) \notin objects
      <4>1. /\ missing' = [missing EXCEPT ![r] = TRUE]
            /\ UNCHANGED <<at, objects, pc, call, tries, astray>>
        BY <2>7, <3>3 DEF Look
      <4>2. tries[r] < at[r]
        <5>1. ~(at[r] <= tries[r]) BY <2>2, <2>5, <2>6, <3>1, <3>3 DEF Made
        <5>2. QED BY <5>1, <1>t
      <4>3. QED BY <2>1, <2>2, <4>1, <4>2 DEF Made, Database
    <3>4. QED BY <3>2, <3>3
  <2>8. CASE Create(r)
    <3>1. /\ objects' = objects \cup {Placed(r)} /\ missing'[r] = FALSE
          /\ at'[r] = at[r] + 1 /\ UNCHANGED <<pc, call, tries, astray>>
      BY <2>8, <1>t DEF Create
    <3>2. \A j \in DOMAIN Calls[call[r]] :
            j < at[r] + 1 \/ j <= tries[r] =>
              <<Database(call[r]), Calls[call[r]][j]>> \in objects'
      BY <2>2, <2>4, <2>5, <2>6, <3>1, <1>t DEF Made
    <3>3. QED BY <2>1, <2>2, <3>1, <3>2 DEF Made, Database
  <2>9. CASE EndCall(r)
    <3>1. /\ call'[r] = call[r] + 1 /\ tries'[r] = 0 /\ at'[r] = 1
          /\ UNCHANGED <<pc, objects, missing, astray>> /\ at[r] > Len(Calls[call[r]])
      BY <2>9, <1>t DEF EndCall
    <3>2. ~missing[r]
      BY <2>1, <2>4, <3>1, <1>t DEF TypeOK
    <3>3. \A j \in DOMAIN Calls[call[r]] :
            <<Database(call[r]), Calls[call[r]][j]>> \in objects
      BY <2>2, <2>4, <2>6, <3>1, <1>t DEF Made
    <3>4. \A i \in DOMAIN Calls : i < call[r] + 1 =>
            \A j \in DOMAIN Calls[i] : <<Database(i), Calls[i][j]>> \in objects
      <4>1. \A i \in DOMAIN Calls : i < call[r] + 1 => i < call[r] \/ i = call[r]
        BY LengthIsNat, <1>t
      <4>2. QED BY <4>1, <2>2, <3>3 DEF Made
    <3>5. call[r] + 1 <= Len(Calls) =>
            \A j \in DOMAIN Calls[call[r] + 1] : ~(j < 1 \/ j <= 0)
      <4>1. SUFFICES ASSUME call[r] + 1 <= Len(Calls), NEW j \in DOMAIN Calls[call[r] + 1]
                     PROVE  ~(j < 1 \/ j <= 0)
        OBVIOUS
      <4>2. call[r] + 1 \in DOMAIN Calls BY <4>1, LengthIsNat, <1>t
      <4>3. QED BY <4>1, <4>2, CallShape
    <3>6. QED BY <2>1, <2>2, <3>1, <3>2, <3>4, <3>5 DEF Made, Database
  <2>10. CASE Clash(r)
    <3>1. missing[r] /\ Placed(r) \in objects /\ FailCall(r) /\ UNCHANGED <<objects, astray>>
      BY <2>10 DEF Clash
    <3>2. tries[r] < at[r] /\ at[r] <= Len(Calls[call[r]])
      BY <2>1, <2>2, <3>1 DEF Made, TypeOK
    <3>3. tries[r] < Retries[call[r]] BY <2>4, <3>2, <1>t
    <3>4. /\ tries'[r] = tries[r] + 1 /\ at'[r] = 1 /\ missing'[r] = FALSE
          /\ UNCHANGED <<pc, call>>
      BY <3>1, <3>3, <1>t DEF FailCall
    <3>5. \A j \in DOMAIN Calls[call[r]] :
            j < 1 \/ j <= tries[r] + 1 =>
              <<Database(call[r]), Calls[call[r]][j]>> \in objects
      <4>1. \A j \in DOMAIN Calls[call[r]] :
              j < 1 \/ j <= tries[r] + 1 => j < at[r] \/ j = at[r]
        BY <2>4, <3>2, <1>t
      <4>2. QED BY <4>1, <2>2, <2>5, <2>6, <3>1 DEF Made
    <3>6. QED BY <2>1, <2>2, <3>1, <3>4, <3>5 DEF Made, Database
  <2>11. QED BY <1>2, <2>7, <2>8, <2>9, <2>10
<1>3. CASE Unreachable(r)
  <2>1. cutOff'[r] = TRUE BY <1>3, <1>t DEF Unreachable
  <2>2. QED BY <2>1
<1>m. CASE MoveFails(r)
  <2>1. pc[r] = "starting" /\ astray[r] /\ UNCHANGED cutOff
    BY <1>m DEF MoveFails, Closed, Calling
  <2>2. QED BY <2>1 DEF ReadyInv, Made
<1>4. CASE Serve(r)
  <2>1. /\ ~cutOff[r] /\ pc[r] = "starting" /\ call[r] > Len(Calls)
        /\ pc'[r] = "serving" /\ UNCHANGED objects
    BY <1>4, <1>t DEF Serve
  <2>2. Made(r) BY <2>1 DEF ReadyInv
  <2>3. \A i \in DOMAIN Calls : i < call[r] BY <2>1, <1>t, LengthIsNat
  <2>4. \A i \in DOMAIN Calls : \A j \in DOMAIN Calls[i] :
          <<Database(i), Calls[i][j]>> \in objects
    BY <2>2, <2>3 DEF Made
  <2>5. Schema \subseteq objects BY <2>4 DEF Schema
  <2>6. QED BY <2>1, <2>5
<1>5. CASE Crash(r) BY <1>5, <1>t DEF Crash
<1>6. QED BY <1>1, <1>2, <1>3, <1>m, <1>4, <1>5 DEF Step

\* A step moves one replica, or the server.
LEMMA NextReady == TypeOK /\ ReadyInv /\ [Next]_vars => ReadyInv'
<1> SUFFICES ASSUME TypeOK, ReadyInv, [Next]_vars PROVE ReadyInv' OBVIOUS
<1>1. objects \subseteq objects' BY ObjectsStay
<1>2. ASSUME NEW r \in Replicas, Start(r) \/ Step(r) \/ Crash(r) PROVE ReadyInv'
  <2>1. ~cutOff'[r] => /\ pc'[r] = "starting" => Made(r)'
                       /\ pc'[r] = "serving" => Schema \subseteq objects'
    BY <1>1, <1>2, MoverKeeps
  <2>2. ASSUME NEW s \in Replicas \ {r}
        PROVE  UNCHANGED <<pc[s], call[s], tries[s], at[s], missing[s], astray[s], cutOff[s]>>
    BY <1>2 DEF Step, Start, Look, Create, EndCall, Clash, MoveFails, Unreachable, Serve, Crash,
                FailCall, TypeOK, serverVars, replicaVars
  <2>3. ASSUME NEW s \in Replicas \ {r}
        PROVE  ~cutOff'[s] => /\ pc'[s] = "starting" => Made(s)'
                              /\ pc'[s] = "serving" => Schema \subseteq objects'
    BY <1>1, <2>2, OthersKeep
  <2>4. Schema' = Schema BY DEF Schema, Database
  <2>5. QED BY <2>1, <2>3, <2>4 DEF ReadyInv
<1>3. ASSUME GoDown \/ ComeUp \/ UNCHANGED vars PROVE ReadyInv'
  <2>1. UNCHANGED <<pc, call, tries, at, missing, astray, cutOff>>
    BY <1>3 DEF GoDown, ComeUp, vars, replicaVars
  <2>2. ASSUME NEW s \in Replicas
        PROVE  ~cutOff'[s] => /\ pc'[s] = "starting" => Made(s)'
                              /\ pc'[s] = "serving" => Schema \subseteq objects'
    BY <1>1, <2>1, OthersKeep
  <2>3. Schema' = Schema BY DEF Schema, Database
  <2>4. QED BY <2>2, <2>3 DEF ReadyInv
<1>4. QED BY <1>2, <1>3 DEF Next

\* A tracking service that could reach the server has all its tables when it serves,
\* for any number of replicas, if no batch of EnsureDatabase has more objects than
\* its policy has retries.
THEOREM StartedIsReady == Spec => []ServingIsReady
<1>1. ReadyInv => ServingIsReady BY DEF ReadyInv, ServingIsReady
<1>2. QED BY <1>1, InitTypeOK, NextTypeOK, InitReady, NextReady, PTL DEF Spec
=============================================================================

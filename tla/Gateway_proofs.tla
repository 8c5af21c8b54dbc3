---------------------------- MODULE Gateway_proofs ----------------------------
(***************************************************************************)
(* Proofs about Gateway, for any finite number of requests of any kinds,   *)
(* any replicas, retries and any threshold of the breakers.                *)
(***************************************************************************)
EXTENDS Gateway, FiniteSetTheorems, TLAPS

\* Every request belongs to a client of the gateway.
LEMMA ClientOfType == ASSUME NEW r \in Requests
                      PROVE  /\ ApiOf(r) \in Apis /\ ReplicaOf[r] \in Replicas
                             /\ ClientOf(r) \in Clients
                             /\ ClientOf(r)[1] = ReplicaOf[r] /\ ClientOf(r)[2] = ApiOf(r)
<1>1. KindOf[r] \in Kinds
  BY RequestsAssumption
<1>2. ApiOf(r) \in Apis
  BY <1>1 DEF ApiOf, Apis, Kinds
<1> QED
  BY <1>2, RequestsAssumption DEF ClientOf, Clients

LEMMA AttemptsAreNaturals == Attempts \subseteq Nat /\ 1 \in Attempts
  BY PolicyAssumption DEF Attempts

\* What the gateway and the APIs know of a call, and of its traces in the databases
\* and on the topic.
CallInv ==
  /\ \A r \in Requests :
       /\ stage[r] = "new" => \A n \in Attempts : call[r][n] = "none"
       /\ stage[r] = "backoff" => attempt[r] <= MaxRetries
       /\ stage[r] = "ok" => CurrentCall(r) \in {"created", "found"}
       /\ stage[r] = "notFound" => CurrentCall(r) \in {"notFound", "error"}
  /\ \A r \in Requests, n \in Attempts :
       /\ call[r][n] \in {"saved", "created"} => <<r, n>> \in rows
       /\ call[r][n] = "created" => <<r, n>> \in events
       /\ call[r][n] = "found" => r \notin Creations

\* A user asks for what was confirmed, and Booking.API finds that.
AskedInv ==
  /\ \A r \in Requests :
       asked[r] # NoBooking => asked[r] \in Creations /\ stage[asked[r]] = "ok"
  /\ \A r \in Requests, n \in Attempts : call[r][n] = "notFound" => asked[r] = NoBooking

Inv == TypeOK /\ CallInv /\ AskedInv

\* The breaker's part of the types.
BreakerOK ==
  /\ circuit \in [Clients -> {"closed", "open", "halfOpen"}]
  /\ failures \in [Clients -> 0..Threshold]
  /\ blocked \in [Clients -> BOOLEAN]
  /\ \A c \in Clients : circuit[c] = "closed" => failures[c] < Threshold

\* The part that is not the breaker's.
RestOK ==
  /\ stage \in [Requests -> Stages]
  /\ attempt \in [Requests -> Attempts]
  /\ asked \in [Requests -> Requests \cup {NoBooking}]
  /\ call \in [Requests -> [Attempts -> CallStates]]
  /\ rows \subseteq Requests \X Attempts
  /\ events \subseteq rows

LEMMA InvParts == Inv <=> BreakerOK /\ RestOK /\ CallInv /\ AskedInv
  BY DEF Inv, TypeOK, BreakerOK, RestOK

\* Initially nothing is sent.
LEMMA InitInv == Init => Inv
<1> SUFFICES ASSUME Init PROVE Inv
  OBVIOUS
<1>1. BreakerOK
  BY PolicyAssumption DEF Init, BreakerOK
<1>2. RestOK
  BY AttemptsAreNaturals DEF Init, RestOK, Stages, Answers, CallStates
<1>3. CallInv
  BY AttemptsAreNaturals DEF Init, CallInv, CurrentCall
<1>4. AskedInv
  BY DEF Init, AskedInv
<1> QED
  BY <1>1, <1>2, <1>3, <1>4, InvParts

\* The breaker's reactions keep its part of the invariant.
LEMMA BreakerKept ==
  ASSUME NEW c \in Clients, BreakerOK,
         OnSend(c) \/ OnSuccess(c) \/ OnFailure(c) \/ UNCHANGED breakerVars
  PROVE  BreakerOK'
<1>1. CASE OnSend(c)
  BY <1>1 DEF OnSend, BreakerOK, breakerVars
<1>2. CASE OnSuccess(c)
  <2>1. CASE circuit[c] = "open"
    BY <1>2, <2>1 DEF OnSuccess, BreakerOK, breakerVars
  <2>2. CASE circuit[c] # "open"
    <3>1. Reset(c)
      BY <1>2, <2>2 DEF OnSuccess
    <3>2. /\ failures' \in [Clients -> 0..Threshold]
          /\ circuit' \in [Clients -> {"closed", "open", "halfOpen"}]
          /\ blocked' \in [Clients -> BOOLEAN]
      BY <3>1, PolicyAssumption DEF BreakerOK, Reset
    <3>3. ASSUME NEW d \in Clients, circuit'[d] = "closed" PROVE failures'[d] < Threshold
      BY <3>1, <3>3, PolicyAssumption DEF BreakerOK, Reset
    <3> QED
      BY <3>2, <3>3 DEF BreakerOK
  <2> QED
    BY <2>1, <2>2
<1>3. CASE OnFailure(c)
  <2>1. CASE circuit[c] = "open"
    BY <1>3, <2>1 DEF OnFailure, BreakerOK, breakerVars
  <2>2. CASE circuit[c] = "halfOpen"
    BY <1>3, <2>2 DEF OnFailure, Break, BreakerOK
  <2>3. CASE circuit[c] = "closed"
    <3>1. /\ failures' = [failures EXCEPT ![c] = @ + 1]
          /\ IF failures[c] + 1 >= Threshold THEN Break(c)
                                            ELSE UNCHANGED <<circuit, blocked>>
      BY <1>3, <2>3 DEF OnFailure
    <3>2. failures[c] + 1 \in 0..Threshold
      BY <2>3, PolicyAssumption DEF BreakerOK
    <3>3. /\ failures' \in [Clients -> 0..Threshold]
          /\ circuit' \in [Clients -> {"closed", "open", "halfOpen"}]
          /\ blocked' \in [Clients -> BOOLEAN]
      BY <3>1, <3>2 DEF Break, BreakerOK
    <3>4. ASSUME NEW d \in Clients, circuit'[d] = "closed" PROVE failures'[d] < Threshold
      <4>1. CASE d = c
        BY <3>1, <3>2, <3>4, <4>1, PolicyAssumption DEF Break, BreakerOK
      <4>2. CASE d # c
        BY <3>1, <3>4, <4>2 DEF Break, BreakerOK
      <4> QED
        BY <4>1, <4>2
    <3> QED
      BY <3>3, <3>4 DEF BreakerOK
  <2> QED
    BY <2>1, <2>2, <2>3 DEF BreakerOK
<1>4. CASE UNCHANGED breakerVars
  BY <1>4 DEF BreakerOK, breakerVars
<1> QED
  BY <1>1, <1>2, <1>3, <1>4

-----------------------------------------------------------------------------
(* The steps, by what they change *)

\* The gateway takes r, which is under way, to stage s; nothing else changes but its breaker.
LEMMA MoveKeeps ==
  ASSUME RestOK, CallInv, AskedInv, NEW r \in Requests, NEW s \in Stages \ {"new"},
         Running(r), MoveTo(r, s), UNCHANGED <<attempt, asked, apiVars>>,
         s = "backoff" => attempt[r] <= MaxRetries,
         s = "ok" => CurrentCall(r) \in {"created", "found"},
         s = "notFound" => CurrentCall(r) \in {"notFound", "error"}
  PROVE  RestOK' /\ CallInv' /\ AskedInv'
<1>1. RestOK'
  BY DEF RestOK, MoveTo, apiVars
<1>2. CallInv'
  BY DEF RestOK, CallInv, MoveTo, CurrentCall, apiVars, Creations
<1>3. AskedInv'
  BY DEF RestOK, AskedInv, MoveTo, Running, apiVars, Creations
<1> QED
  BY <1>1, <1>2, <1>3

\* A call of an API that runs gets state s.
LEMMA CallKeeps ==
  ASSUME RestOK, CallInv, AskedInv, NEW r \in Requests, NEW n \in Attempts, NEW s \in CallStates,
         call[r][n] \in Pending, SetCall(r, n, s), UNCHANGED requestVars,
         rows \subseteq rows', rows' \subseteq Requests \X Attempts,
         events \subseteq events', events' \subseteq rows',
         s \in {"saved", "created"} => <<r, n>> \in rows',
         s = "created" => <<r, n>> \in events',
         s = "found" => r \notin Creations,
         s = "notFound" => asked[r] = NoBooking
  PROVE  RestOK' /\ CallInv' /\ AskedInv'
<1>1. RestOK'
  BY DEF RestOK, SetCall, requestVars
<1>2. CallInv'
  <2>1. ASSUME NEW q \in Requests
        PROVE  /\ stage'[q] = "new" => \A m \in Attempts : call'[q][m] = "none"
               /\ stage'[q] = "backoff" => attempt'[q] <= MaxRetries
               /\ stage'[q] = "ok" => CurrentCall(q)' \in {"created", "found"}
               /\ stage'[q] = "notFound" => CurrentCall(q)' \in {"notFound", "error"}
    <3>1. CASE q = r
      BY <3>1 DEF RestOK, CallInv, SetCall, CurrentCall, requestVars, Pending
    <3>2. CASE q # r
      BY <3>2 DEF RestOK, CallInv, SetCall, CurrentCall, requestVars
    <3> QED
      BY <3>1, <3>2
  <2>2. ASSUME NEW q \in Requests, NEW m \in Attempts
        PROVE  /\ call'[q][m] \in {"saved", "created"} => <<q, m>> \in rows'
               /\ call'[q][m] = "created" => <<q, m>> \in events'
               /\ call'[q][m] = "found" => q \notin Creations
    BY DEF RestOK, CallInv, SetCall
  <2> QED
    BY <2>1, <2>2 DEF CallInv, Creations
<1>3. AskedInv'
  BY DEF RestOK, AskedInv, SetCall, requestVars, Creations
<1> QED
  BY <1>1, <1>2, <1>3

\* Every step keeps the invariant.
LEMMA NextInv == Inv /\ [Next]_vars => Inv'
<1> SUFFICES ASSUME Inv, [Next]_vars PROVE Inv'
  OBVIOUS
<1> USE PolicyAssumption, AttemptsAreNaturals
<1>i. BreakerOK /\ RestOK /\ CallInv /\ AskedInv
  BY InvParts
<1>q. BreakerOK' /\ RestOK' /\ CallInv' /\ AskedInv' => Inv'
  BY DEF Inv, TypeOK, BreakerOK, RestOK
<1>k. ASSUME UNCHANGED <<requestVars, apiVars>> PROVE RestOK' /\ CallInv' /\ AskedInv'
  BY <1>k, <1>i DEF RestOK, CallInv, AskedInv, requestVars, apiVars, CurrentCall, Creations
<1>b. ASSUME UNCHANGED breakerVars PROVE BreakerOK'
  BY <1>b, <1>i DEF BreakerOK, breakerVars
<1>1. ASSUME NEW c \in Clients, BreakIsOver(c) PROVE Inv'
  <2>1. BreakerOK'
    BY <1>1, <1>i DEF BreakIsOver, BreakerOK
  <2> QED
    BY <1>1, <2>1, <1>k, <1>q DEF BreakIsOver
<1>2. ASSUME NEW g \in Replicas, WebCrash(g) PROVE Inv'
  <2>1. BreakerOK'
    <3>1. 0 \in 0..Threshold /\ 0 < Threshold
      OBVIOUS
    <3>2. /\ circuit' = [c \in Clients |-> IF c[1] = g THEN "closed" ELSE circuit[c]]
          /\ failures' = [c \in Clients |-> IF c[1] = g THEN 0 ELSE failures[c]]
          /\ blocked' = [c \in Clients |-> IF c[1] = g THEN FALSE ELSE blocked[c]]
      BY <1>2 DEF WebCrash
    <3>3. /\ circuit' \in [Clients -> {"closed", "open", "halfOpen"}]
          /\ failures' \in [Clients -> 0..Threshold]
          /\ blocked' \in [Clients -> BOOLEAN]
      BY <3>1, <3>2, <1>i DEF BreakerOK
    <3>4. ASSUME NEW c \in Clients, circuit'[c] = "closed" PROVE failures'[c] < Threshold
      BY <3>1, <3>2, <3>4, <1>i DEF BreakerOK
    <3> QED
      BY <3>3, <3>4 DEF BreakerOK
  <2>2. RestOK'
    BY <1>2, <1>i DEF WebCrash, RestOK, apiVars, Stages, Answers
  <2>3. CallInv'
    BY <1>2, <1>i DEF WebCrash, RestOK, CallInv, apiVars, CurrentCall, Creations
  <2>4. AskedInv'
    BY <1>2, <1>i DEF WebCrash, RestOK, AskedInv, apiVars, Running, Creations
  <2> QED
    BY <2>1, <2>2, <2>3, <2>4, <1>q
<1>3. ASSUME NEW r \in Requests, Submit(r) PROVE Inv'
  <2>1. PICK b \in {NoBooking} \cup {q \in Requests : KindOf[q] = "createBooking" /\ stage[q] = "ok"} :
          asked' = [asked EXCEPT ![r] = b]
    BY <1>3 DEF Submit
  <2>2. /\ stage[r] = "new" /\ stage' = [stage EXCEPT ![r] = "ready"]
        /\ UNCHANGED <<breakerVars, attempt, apiVars>>
    BY <1>3 DEF Submit, MoveTo
  <2>3. RestOK'
    BY <2>1, <2>2, <1>i DEF RestOK, apiVars, Stages
  <2>4. CallInv'
    BY <2>1, <2>2, <1>i DEF RestOK, CallInv, CurrentCall, apiVars, Creations
  <2>5. AskedInv'
    <3>1. ASSUME NEW q \in Requests, asked'[q] # NoBooking
          PROVE  asked'[q] \in Creations /\ stage'[asked'[q]] = "ok"
      BY <2>1, <2>2, <3>1, <1>i DEF RestOK, AskedInv, Creations
    <3>2. ASSUME NEW q \in Requests, NEW n \in Attempts, call'[q][n] = "notFound"
          PROVE  asked'[q] = NoBooking
      <4>1. call[q][n] = "notFound"
        BY <3>2, <2>2 DEF apiVars
      <4>2. q # r
        BY <4>1, <2>2, <1>i DEF CallInv
      <4> QED
        BY <4>1, <4>2, <2>1, <1>i DEF RestOK, AskedInv
    <3> QED
      BY <3>1, <3>2 DEF AskedInv, Creations
  <2> QED
    BY <2>2, <2>3, <2>4, <2>5, <1>b, <1>q
<1>3a. ASSUME NEW r \in Requests, AskAgain(r) PROVE Inv'
  <2>1. /\ stage[r] = "unavailable" /\ stage' = [stage EXCEPT ![r] = "ready"]
        /\ UNCHANGED <<breakerVars, attempt, asked, apiVars>>
    BY <1>3a DEF AskAgain, MoveTo
  <2>2. RestOK'
    BY <2>1, <1>i DEF RestOK, apiVars, Stages
  <2>3. CallInv'
    BY <2>1, <1>i DEF RestOK, CallInv, CurrentCall, apiVars, Creations
  <2>4. AskedInv'
    BY <2>1, <1>i DEF RestOK, AskedInv, apiVars, Creations
  <2> QED
    BY <2>1, <2>2, <2>3, <2>4, <1>b, <1>q
<1>4. ASSUME NEW r \in Requests, Send(r) PROVE Inv'
  <2>1. BreakerOK'
    BY <1>4, <1>i, BreakerKept, ClientOfType DEF Send
  <2>2. RestOK'
    BY <1>4, <1>i DEF Send, MoveTo, SetCall, RestOK, Stages, CallStates, Pending
  <2>3. CallInv'
    BY <1>4, <1>i DEF Send, MoveTo, SetCall, RestOK, CallInv, CurrentCall, Creations
  <2>4. AskedInv'
    BY <1>4, <1>i DEF Send, MoveTo, SetCall, RestOK, AskedInv, Creations
  <2> QED
    BY <2>1, <2>2, <2>3, <2>4, <1>q
<1>5. ASSUME NEW r \in Requests, Reject(r) PROVE Inv'
  <2>1. RestOK' /\ CallInv' /\ AskedInv'
    BY <1>5, <1>i, MoveKeeps DEF Reject, Running, Stages, Answers
  <2> QED
    BY <1>5, <2>1, <1>b, <1>q DEF Reject
<1>6. ASSUME NEW r \in Requests,
             Answered(r) \/ NotFound(r) \/ ErrorAnswered(r) \/ ConnectionLost(r)
      PROVE  Inv'
  <2>1. BreakerOK'
    BY <1>6, <1>i, BreakerKept, ClientOfType DEF Answered, NotFound, ErrorAnswered, ConnectionLost
  <2>2. attempt[r] \in Nat /\ MaxRetries \in Nat
    BY <1>i DEF RestOK
  <2>3. CASE Answered(r)
    BY <2>3, <2>1, <1>i, <1>q, MoveKeeps DEF Answered, Running, Stages, Answers
  <2>4. CASE NotFound(r)
    <3> DEFINE s == IF attempt[r] <= MaxRetries THEN "backoff" ELSE "notFound"
    <3>1. MoveTo(r, s) /\ s \in Stages \ {"new"} /\ (s = "backoff" => attempt[r] <= MaxRetries)
      BY <2>4 DEF NotFound, RetryOr, Stages, Answers
    <3>2. s # "ok" /\ Running(r) /\ CurrentCall(r) = "notFound" /\ UNCHANGED <<attempt, asked, apiVars>>
      BY <2>4 DEF NotFound, Running
    <3> HIDE DEF s
    <3> QED
      BY <3>1, <3>2, <2>1, <1>i, <1>q, MoveKeeps
  <2>5. CASE ErrorAnswered(r)
    <3> DEFINE s == IF attempt[r] <= MaxRetries THEN "backoff"
                    ELSE IF KindOf[r] = "getBooking" THEN "notFound" ELSE "failed"
    <3>1. MoveTo(r, s) /\ s \in Stages \ {"new"} /\ (s = "backoff" => attempt[r] <= MaxRetries)
      BY <2>5 DEF ErrorAnswered, RetryOr, Stages, Answers
    <3>2. s # "ok" /\ Running(r) /\ CurrentCall(r) = "error" /\ UNCHANGED <<attempt, asked, apiVars>>
      BY <2>5 DEF ErrorAnswered, Running
    <3> HIDE DEF s
    <3> QED
      BY <3>1, <3>2, <2>1, <1>i, <1>q, MoveKeeps
  <2>6. CASE ConnectionLost(r)
    <3> DEFINE s == IF attempt[r] <= MaxRetries THEN "backoff" ELSE "failed"
    <3>1. MoveTo(r, s) /\ s \in Stages \ {"new"} /\ (s = "backoff" => attempt[r] <= MaxRetries)
      BY <2>6 DEF ConnectionLost, RetryOr, Stages, Answers
    <3>2. s # "ok" /\ s # "notFound" /\ Running(r) /\ UNCHANGED <<attempt, asked, apiVars>>
      BY <2>6 DEF ConnectionLost, Running
    <3> HIDE DEF s
    <3> QED
      BY <3>1, <3>2, <2>1, <1>i, <1>q, MoveKeeps
  <2> QED
    BY <1>6, <2>3, <2>4, <2>5, <2>6
<1>7. ASSUME NEW r \in Requests, Retry(r) PROVE Inv'
  <2>1. attempt[r] + 1 \in Attempts
    BY <1>7, <1>i DEF Retry, CallInv, RestOK, Attempts
  <2>2. RestOK'
    BY <2>1, <1>7, <1>i DEF Retry, MoveTo, RestOK, apiVars, Stages
  <2>3. CallInv'
    BY <1>7, <1>i DEF Retry, MoveTo, RestOK, CallInv, CurrentCall, apiVars, Creations
  <2>4. AskedInv'
    BY <1>7, <1>i DEF Retry, MoveTo, RestOK, AskedInv, apiVars, Creations
  <2> QED
    BY <1>7, <2>2, <2>3, <2>4, <1>b, <1>q DEF Retry
<1>8. ASSUME NEW r \in Requests, Timeout(r) PROVE Inv'
  <2>1. RestOK' /\ CallInv' /\ AskedInv'
    BY <1>8, <1>i, MoveKeeps DEF Timeout, Running, Stages, Answers
  <2> QED
    BY <1>8, <2>1, <1>b, <1>q DEF Timeout
<1>9. ASSUME NEW r \in Requests, NEW n \in Attempts, SaveRow(r, n) PROVE Inv'
  <2>1. /\ call[r][n] \in Pending /\ SetCall(r, n, "saved") /\ UNCHANGED <<breakerVars, requestVars, events>>
        /\ rows' = rows \cup {<<r, n>>}
    BY <1>9 DEF SaveRow, Pending
  <2>2. /\ rows \subseteq rows' /\ rows' \subseteq Requests \X Attempts /\ <<r, n>> \in rows'
        /\ events \subseteq events' /\ events' \subseteq rows' /\ "saved" \in CallStates
    BY <2>1, <1>i DEF RestOK, CallStates, Pending
  <2>3. UNCHANGED requestVars /\ UNCHANGED breakerVars
    BY <2>1
  <2>4. RestOK' /\ CallInv' /\ AskedInv'
    BY <2>1, <2>2, <2>3, <1>i, CallKeeps
  <2> QED
    BY <2>3, <2>4, <1>b, <1>q
<1>10. ASSUME NEW r \in Requests, NEW n \in Attempts, PublishEvent(r, n) PROVE Inv'
  <2>1. /\ call[r][n] = "saved" /\ SetCall(r, n, "created") /\ UNCHANGED <<breakerVars, requestVars, rows>>
        /\ events' = events \cup {<<r, n>>} /\ <<r, n>> \in rows
    BY <1>10, <1>i DEF PublishEvent, CallInv
  <2>2. RestOK' /\ CallInv' /\ AskedInv'
    BY <2>1, <1>i, CallKeeps DEF RestOK, CallStates, Pending
  <2> QED
    BY <2>1, <2>2, <1>b, <1>q
<1>11. ASSUME NEW r \in Requests, NEW n \in Attempts, FindBooking(r, n) PROVE Inv'
  <2> DEFINE s == IF IsBooked(asked[r]) THEN "found" ELSE "notFound"
  <2>1. /\ call[r][n] \in Pending /\ SetCall(r, n, s) /\ UNCHANGED <<breakerVars, requestVars, rows, events>>
        /\ s \in CallStates /\ s \notin {"saved", "created"}
    BY <1>11 DEF FindBooking, Pending, CallStates
  <2>2. r \notin Creations
    BY <1>11 DEF FindBooking, Creations
  <2>3. s = "notFound" => asked[r] = NoBooking
    <3> SUFFICES ASSUME asked[r] # NoBooking PROVE IsBooked(asked[r])
      OBVIOUS
    <3> DEFINE b == asked[r]
    <3>1. b \in Creations /\ stage[b] = "ok" /\ b \in Requests /\ attempt[b] \in Attempts
      BY <1>i DEF AskedInv, RestOK, Creations
    <3>2. call[b][attempt[b]] = "created"
      BY <3>1, <1>i DEF CallInv, CurrentCall
    <3> QED
      BY <3>1, <3>2, <1>i DEF CallInv, IsBooked
  <2> HIDE DEF s
  <2>4. RestOK' /\ CallInv' /\ AskedInv'
    BY <2>1, <2>2, <2>3, <1>i, CallKeeps DEF RestOK
  <2> QED
    BY <2>1, <2>4, <1>b, <1>q
<1>12. ASSUME NEW r \in Requests, NEW n \in Attempts, FindHistory(r, n) PROVE Inv'
  <2>1. /\ call[r][n] \in Pending /\ SetCall(r, n, "found") /\ UNCHANGED <<breakerVars, requestVars, rows, events>>
        /\ r \notin Creations
    BY <1>12 DEF FindHistory, Pending, Creations
  <2>2. RestOK' /\ CallInv' /\ AskedInv'
    BY <2>1, <1>i, CallKeeps DEF RestOK, CallStates
  <2> QED
    BY <2>1, <2>2, <1>b, <1>q
<1>13. ASSUME NEW r \in Requests, NEW n \in Attempts, CallError(r, n) PROVE Inv'
  <2>1. /\ call[r][n] \in Pending /\ SetCall(r, n, "error") /\ UNCHANGED <<breakerVars, requestVars, rows, events>>
    BY <1>13 DEF CallError
  <2>2. RestOK' /\ CallInv' /\ AskedInv'
    BY <2>1, <1>i, CallKeeps DEF RestOK, CallStates
  <2> QED
    BY <2>1, <2>2, <1>b, <1>q
<1>14. ASSUME NEW a \in Apis, ApiCrash(a) PROVE Inv'
  <2>0. /\ UNCHANGED <<breakerVars, requestVars, rows, events>>
        /\ call' = [r \in Requests |-> [n \in Attempts |->
                IF ApiOf(r) = a /\ call[r][n] \in Pending THEN "gone" ELSE call[r][n]]]
    BY <1>14 DEF ApiCrash
  <2>1. RestOK'
    BY <2>0, <1>i DEF RestOK, requestVars, CallStates
  <2>2. CallInv'
    BY <2>0, <1>i DEF RestOK, CallInv, CurrentCall, requestVars, Pending, Creations
  <2>3. AskedInv'
    BY <2>0, <1>i DEF RestOK, AskedInv, requestVars, Creations
  <2> QED
    BY <2>0, <2>1, <2>2, <2>3, <1>b, <1>q
<1>15. CASE UNCHANGED vars
  BY <1>15, <1>b, <1>k, <1>q DEF vars
<1> QED
  BY <1>1, <1>2, <1>3, <1>3a, <1>4, <1>5, <1>6, <1>7, <1>8, <1>9, <1>10, <1>11, <1>12,
     <1>13, <1>14, <1>15
     DEF Next, GatewayStep, ApiStep, SaveBooking, SavePayment

\* Type correctness of the gateway, with what it knows of its calls.
THEOREM TypeCorrect == Spec => [](TypeOK /\ CallInv /\ AskedInv)
<1> USE DEF Inv
<1> QED
  BY InitInv, NextInv, PTL DEF Spec

\* A confirmed order or payment is in the database and on the topic, however many
\* requests, replicas and faults there are.
THEOREM ConfirmedArePublished == Spec => []ConfirmedIsPublished
<1>1. Inv => ConfirmedIsPublished
  BY DEF Inv, TypeOK, CallInv, ConfirmedIsPublished, CurrentCall, Creations
<1> QED
  BY <1>1, InitInv, NextInv, PTL DEF Spec

\* A confirmed booking is reported missing only because of an error.
THEOREM ConfirmedAreFound == Spec => []ConfirmedIsFound
<1>1. Inv => ConfirmedIsFound
  BY DEF Inv, TypeOK, CallInv, AskedInv, ConfirmedIsFound, CurrentCall
<1> QED
  BY <1>1, InitInv, NextInv, PTL DEF Spec

-----------------------------------------------------------------------------
(* The breaker *)

\* What the calls in flight of c depend on.
LEMMA InFlightKept ==
  ASSUME NEW c \in Clients,
         \A r \in Requests : ClientOf(r) = c /\ stage'[r] = "waiting" => stage[r] = "waiting"
  PROVE  InFlight(c)' \subseteq InFlight(c)
  BY DEF InFlight, ClientOf, ApiOf

\* During a break a client neither sends nor closes its breaker.
LEMMA BreakStep ==
  ASSUME Inv, Next, NEW c \in Clients, circuit[c] = "open", blocked[c], ~WebCrash(c[1])
  PROVE  circuit'[c] = "open" /\ InFlight(c)' \subseteq InFlight(c)
<1> DEFINE Quiet == \A r \in Requests : ClientOf(r) = c /\ stage'[r] = "waiting" =>
                      stage[r] = "waiting"
<1>t. BreakerOK /\ RestOK
  BY InvParts
<1>s. SUFFICES circuit'[c] = "open" /\ Quiet
  BY InFlightKept
<1>1. ASSUME NEW d \in Clients, BreakIsOver(d) PROVE circuit'[c] = "open" /\ Quiet
  BY <1>1 DEF BreakIsOver, requestVars
<1>2. ASSUME NEW g \in Replicas, WebCrash(g) PROVE circuit'[c] = "open" /\ Quiet
  <2>1. c[1] # g
    BY <1>2
  <2> QED
    BY <1>2, <2>1, <1>t DEF WebCrash, BreakerOK, RestOK
<1>3. ASSUME NEW r \in Requests, Submit(r) \/ AskAgain(r) \/ Reject(r) \/ Timeout(r) \/ Retry(r)
      PROVE circuit'[c] = "open" /\ Quiet
  BY <1>3, <1>t DEF Submit, AskAgain, Reject, Timeout, Retry, MoveTo, breakerVars, RestOK
<1>4. ASSUME NEW r \in Requests, Send(r) PROVE circuit'[c] = "open" /\ Quiet
  <2>1. ClientOf(r) # c
    BY <1>4 DEF Send, Permits
  <2> QED
    BY <1>4, <2>1, <1>t, ClientOfType
       DEF Send, OnSend, MoveTo, breakerVars, BreakerOK, RestOK
<1>5. ASSUME NEW r \in Requests, OnSuccess(ClientOf(r)) PROVE circuit'[c] = "open"
  BY <1>5, <1>t, ClientOfType DEF OnSuccess, Reset, breakerVars, BreakerOK
<1>6. ASSUME NEW r \in Requests, OnFailure(ClientOf(r)) PROVE circuit'[c] = "open"
  <2> DEFINE d == ClientOf(r)
  <2>1. CASE d = c
    BY <1>6, <2>1 DEF OnFailure, breakerVars
  <2>2. CASE d # c
    BY <1>6, <2>2, <1>t, ClientOfType DEF OnFailure, Break, breakerVars, BreakerOK
  <2> QED
    BY <2>1, <2>2
<1>7. ASSUME NEW r \in Requests,
             Answered(r) \/ NotFound(r) \/ ErrorAnswered(r) \/ ConnectionLost(r)
      PROVE  circuit'[c] = "open" /\ Quiet
  <2>1. circuit'[c] = "open"
    BY <1>5, <1>6, <1>7 DEF Answered, NotFound, ErrorAnswered, ConnectionLost
  <2>2. Quiet
    BY <1>7, <1>t DEF Answered, NotFound, ErrorAnswered, ConnectionLost, RetryOr, MoveTo, RestOK
  <2> QED
    BY <2>1, <2>2
<1>8. ASSUME NEW r \in Requests, NEW n \in Attempts, ApiStep(r, n) \/ CallError(r, n)
      PROVE circuit'[c] = "open" /\ Quiet
  BY <1>8 DEF ApiStep, SaveBooking, SavePayment, SaveRow, PublishEvent, FindBooking, FindHistory,
              CallError, breakerVars, requestVars
<1>9. ASSUME NEW a \in Apis, ApiCrash(a) PROVE circuit'[c] = "open" /\ Quiet
  BY <1>9 DEF ApiCrash, breakerVars, requestVars
<1> QED
  BY <1>1, <1>2, <1>3, <1>4, <1>7, <1>8, <1>9 DEF Next, GatewayStep

\* A break holds, for any threshold and any answers that arrive late.
THEOREM BreaksHold == Spec => BreakHolds
<1> DEFINE Step == \A c \in Clients :
                     circuit[c] = "open" /\ blocked[c] =>
                       \/ circuit'[c] = "open" /\ InFlight(c)' \subseteq InFlight(c)
                       \/ WebCrash(c[1])
<1>1. Inv /\ [Next]_vars => [Step]_vars
  BY BreakStep
<1> QED
  BY <1>1, InitInv, NextInv, PTL DEF Spec, BreakHolds

-----------------------------------------------------------------------------
(* Refusals *)

Bad == {"backoff", "failed", "notFound"}

\* Attempts of requests are finitely many.
LEMMA PairsAreFinite == IsFiniteSet(Requests \X Attempts)
<1>1. IsFiniteSet(Attempts)
  BY FS_Interval, PolicyAssumption DEF Attempts
<1> QED
  BY <1>1, FS_Product, RequestsAssumption

\* Failed attempts are finitely many.
LEMMA FailedIsFinite ==
  ASSUME RestOK, NEW g, NEW a
  PROVE  /\ IsFiniteSet(FailedAttempts(g, a))
         /\ Cardinality(FailedAttempts(g, a)) \in Nat
<1>2. IsFiniteSet(Requests \X Attempts)
  BY PairsAreFinite
<1>3. FailedAttempts(g, a) \subseteq Requests \X Attempts
  BY DEF FailedAttempts
<1> QED
  BY <1>2, <1>3, FS_Subset, FS_CardinalityType

\* What may become of a request: it is tried again, or it stays failed.
Forward == \A r \in Requests : \/ attempt'[r] = attempt[r] /\ (stage[r] \in Bad => stage'[r] \in Bad)
                               \/ attempt'[r] = attempt[r] + 1

LEMMA FailedGrows ==
  ASSUME RestOK, RestOK', Forward, NEW g, NEW a
  PROVE  /\ FailedAttempts(g, a) \subseteq FailedAttempts(g, a)'
         /\ Cardinality(FailedAttempts(g, a)) <= Cardinality(FailedAttempts(g, a)')
<1>1. FailedAttempts(g, a) \subseteq FailedAttempts(g, a)'
  <2> SUFFICES ASSUME NEW f \in FailedAttempts(g, a) PROVE f \in FailedAttempts(g, a)'
    OBVIOUS
  <2> DEFINE r == f[1]
  <2>1. f \in Requests \X Attempts /\ r \in Requests /\ f[2] \in Nat
    BY AttemptsAreNaturals DEF FailedAttempts
  <2>2. attempt[r] \in Nat /\ attempt'[r] \in Nat
    BY <2>1, AttemptsAreNaturals DEF RestOK
  <2>3. \/ f[2] < attempt[r]
        \/ f[2] = attempt[r] /\ stage[r] \in Bad
    BY DEF FailedAttempts, Bad
  <2>4. \/ f[2] < attempt'[r]
        \/ f[2] = attempt'[r] /\ stage'[r] \in Bad
    BY <2>1, <2>2, <2>3 DEF Forward
  <2> QED
    BY <2>1, <2>4 DEF FailedAttempts, Bad, ApiOf
<1>2. IsFiniteSet(FailedAttempts(g, a)')
  <2>2. IsFiniteSet(Requests \X Attempts)
    BY PairsAreFinite
  <2>3. FailedAttempts(g, a)' \subseteq Requests \X Attempts
    BY DEF FailedAttempts
  <2> QED
    BY <2>2, <2>3, FS_Subset
<1> QED
  BY <1>1, <1>2, FS_Subset

\* The counted failures and the open breakers are backed by failed attempts.
Backed(c) ==
  /\ failures[c] <= Cardinality(FailedAttempts(c[1], c[2]))
  /\ circuit[c] # "closed" => Threshold <= Cardinality(FailedAttempts(c[1], c[2]))

RefusalInv == (\A c \in Clients : Backed(c)) /\ RefusedOnlyIfFailing

LEMMA RefusalInit == Init => RefusalInv
<1> SUFFICES ASSUME Init PROVE RefusalInv
  OBVIOUS
<1>1. RestOK
  BY InitInv, InvParts
<1>2. ASSUME NEW c \in Clients PROVE Backed(c)
  <2>1. Cardinality(FailedAttempts(c[1], c[2])) \in Nat
    BY <1>1, FailedIsFinite
  <2> QED
    BY <2>1 DEF Init, Backed
<1>3. RefusedOnlyIfFailing
  BY DEF Init, RefusedOnlyIfFailing
<1> QED
  BY <1>2, <1>3 DEF RefusalInv

\* A step that counts no failure and opens no breaker keeps them backed.
LEMMA BackedKept ==
  ASSUME BreakerOK, BreakerOK', RestOK, RestOK', Forward, NEW c \in Clients, Backed(c),
         failures'[c] <= failures[c], circuit'[c] # "closed" => circuit[c] # "closed"
  PROVE  Backed(c)'
<1>1. /\ Cardinality(FailedAttempts(c[1], c[2])) \in Nat
      /\ Cardinality(FailedAttempts(c[1], c[2])') \in Nat
      /\ Cardinality(FailedAttempts(c[1], c[2])) <= Cardinality(FailedAttempts(c[1], c[2])')
  <2>2. IsFiniteSet(Requests \X Attempts)
    BY PairsAreFinite
  <2>3. FailedAttempts(c[1], c[2])' \subseteq Requests \X Attempts
    BY DEF FailedAttempts
  <2>4. Cardinality(FailedAttempts(c[1], c[2])') \in Nat
    BY <2>2, <2>3, FS_Subset, FS_CardinalityType
  <2> QED
    BY <2>4, FailedIsFinite, FailedGrows
<1>2. failures[c] \in Nat /\ failures'[c] \in Nat /\ Threshold \in Nat
  BY PolicyAssumption DEF BreakerOK
<1> QED
  BY <1>1, <1>2 DEF Backed

\* A failure that the breaker of r counts is a failed attempt more.
LEMMA FailureBacked ==
  ASSUME BreakerOK, BreakerOK', RestOK, RestOK', Forward, NEW r \in Requests,
         \A c \in Clients : Backed(c),
         stage[r] = "waiting", stage'[r] \in Bad, attempt'[r] = attempt[r], OnFailure(ClientOf(r))
  PROVE  \A c \in Clients : Backed(c)'
<1> DEFINE d == ClientOf(r)
           Old == FailedAttempts(d[1], d[2])
           New == FailedAttempts(d[1], d[2])'
<1>0. d \in Clients /\ d[1] = ReplicaOf[r] /\ d[2] = ApiOf(r)
  BY ClientOfType
<1>1. IsFiniteSet(New) /\ Cardinality(New) \in Nat
  <2>2. IsFiniteSet(Requests \X Attempts)
    BY PairsAreFinite
  <2>3. New \subseteq Requests \X Attempts
    BY DEF FailedAttempts
  <2> QED
    BY <2>2, <2>3, FS_Subset, FS_CardinalityType
<1>2. IsFiniteSet(Old) /\ Cardinality(Old) \in Nat /\ Old \subseteq New
  BY FailedIsFinite, FailedGrows
<1>3. Cardinality(Old) + 1 <= Cardinality(New)
  <2> DEFINE f == <<r, attempt[r]>>
  <2>1. attempt[r] \in Attempts /\ attempt[r] \in Nat
    BY AttemptsAreNaturals DEF RestOK
  <2>2. f \notin Old
    BY <2>1 DEF FailedAttempts
  <2>3. f \in New
    BY <2>1, <1>0 DEF FailedAttempts, Bad, ApiOf, ClientOf
  <2>4. Cardinality(Old \cup {f}) = Cardinality(Old) + 1
    BY <1>2, <2>2, FS_AddElement
  <2>5. Old \cup {f} \subseteq New
    BY <2>3, <1>2
  <2> HIDE DEF f, Old, New
  <2> QED
    BY <2>4, <2>5, <1>1, FS_Subset
<1>4. failures[d] \in Nat /\ failures'[d] \in Nat /\ Threshold \in Nat
  BY <1>0, PolicyAssumption DEF BreakerOK
<1>5. Backed(d)'
  <2>0. /\ failures[d] <= Cardinality(Old)
        /\ circuit[d] # "closed" => Threshold <= Cardinality(Old)
    BY <1>0 DEF Backed
  <2>s. SUFFICES /\ failures'[d] <= Cardinality(New)
                 /\ circuit'[d] # "closed" => Threshold <= Cardinality(New)
    BY DEF Backed, ClientOf, ApiOf
  <2>1. CASE circuit[d] # "closed"
    <3>1. failures'[d] = failures[d]
      BY <2>1, <1>0 DEF OnFailure, breakerVars, BreakerOK
    <3> HIDE DEF d, Old, New
    <3> QED
      BY <2>0, <2>1, <3>1, <1>1, <1>2, <1>3, <1>4
  <2>2. CASE circuit[d] = "closed"
    <3>1. failures'[d] = failures[d] + 1
      BY <2>2, <1>0 DEF OnFailure, BreakerOK
    <3>2. circuit'[d] # "closed" => failures[d] + 1 >= Threshold
      BY <2>2, <1>0 DEF OnFailure, BreakerOK
    <3> HIDE DEF d, Old, New
    <3> QED
      BY <2>0, <3>1, <3>2, <1>1, <1>2, <1>3, <1>4
  <2> QED
    BY <2>1, <2>2
<1>6. ASSUME NEW c \in Clients, c # d PROVE Backed(c)'
  <2>1. failures'[c] = failures[c] /\ circuit'[c] = circuit[c]
    BY <1>0, <1>6 DEF OnFailure, Break, breakerVars, BreakerOK
  <2>2. failures[c] \in Nat
    BY DEF BreakerOK
  <2> QED
    BY <2>1, <2>2, BackedKept
<1> QED
  BY <1>5, <1>6

\* Who is refused stays refused, and failed attempts are not forgotten.
LEMMA RefusedKept ==
  ASSUME RestOK, RestOK', Forward, RefusedOnlyIfFailing,
         \A r \in Requests : stage'[r] = "unavailable" => stage[r] = "unavailable"
  PROVE  RefusedOnlyIfFailing'
<1> SUFFICES ASSUME NEW r \in Requests, stage'[r] = "unavailable"
             PROVE  Threshold <= Cardinality(FailedAttempts(ReplicaOf[r], ApiOf(r))')
  BY DEF RefusedOnlyIfFailing, ApiOf
<1>1. Threshold <= Cardinality(FailedAttempts(ReplicaOf[r], ApiOf(r)))
  BY DEF RefusedOnlyIfFailing
<1>2. /\ Cardinality(FailedAttempts(ReplicaOf[r], ApiOf(r))) \in Nat
      /\ Cardinality(FailedAttempts(ReplicaOf[r], ApiOf(r)))
           <= Cardinality(FailedAttempts(ReplicaOf[r], ApiOf(r))')
  BY FailedIsFinite, FailedGrows
<1>3. Cardinality(FailedAttempts(ReplicaOf[r], ApiOf(r))') \in Nat
  <2>1. IsFiniteSet(Requests \X Attempts)
    BY PairsAreFinite
  <2>2. FailedAttempts(ReplicaOf[r], ApiOf(r))' \subseteq Requests \X Attempts
    BY DEF FailedAttempts
  <2> QED
    BY <2>1, <2>2, FS_Subset, FS_CardinalityType
<1> QED
  BY <1>1, <1>2, <1>3, PolicyAssumption

\* Every step keeps failures and refusals backed.
LEMMA RefusalNext == Inv /\ Inv' /\ RefusalInv /\ [Next]_vars => RefusalInv'
<1> SUFFICES ASSUME Inv, Inv', RefusalInv, [Next]_vars PROVE RefusalInv'
  OBVIOUS
<1>i. BreakerOK /\ RestOK /\ CallInv
  BY InvParts
<1>j. BreakerOK' /\ RestOK'
  BY DEF Inv, TypeOK, BreakerOK, RestOK
<1>h. (\A c \in Clients : Backed(c)) /\ RefusedOnlyIfFailing
  BY DEF RefusalInv
<1>t. \A c \in Clients : failures[c] \in Nat
  BY <1>i DEF BreakerOK
<1> DEFINE NoneRefused == \A r \in Requests : stage'[r] = "unavailable" => stage[r] = "unavailable"
           NothingCounted == \A c \in Clients : /\ failures'[c] <= failures[c]
                                                /\ circuit'[c] # "closed" => circuit[c] # "closed"
<1>b. ASSUME Forward, NothingCounted PROVE \A c \in Clients : Backed(c)'
  BY <1>b, <1>h, <1>i, <1>j, BackedKept
<1>k. ASSUME Forward, NothingCounted, NoneRefused PROVE RefusalInv'
  <2>1. \A c \in Clients : Backed(c)'
    BY <1>b, <1>k
  <2>2. RefusedOnlyIfFailing'
    BY <1>k, <1>h, <1>i, <1>j, RefusedKept
  <2> QED
    BY <2>1, <2>2 DEF RefusalInv, Clients
<1>u. UNCHANGED breakerVars => NothingCounted
  BY <1>t DEF breakerVars
<1>v. UNCHANGED requestVars => Forward /\ NoneRefused
  BY DEF requestVars, Forward
<1>1. ASSUME NEW c \in Clients, BreakIsOver(c) PROVE RefusalInv'
  <2>1. NothingCounted
    BY <1>1, <1>t DEF BreakIsOver
  <2> QED
    BY <1>1, <2>1, <1>v, <1>k DEF BreakIsOver
<1>2. ASSUME NEW g \in Replicas, WebCrash(g) PROVE RefusalInv'
  <2>1. NothingCounted
    BY <1>2, <1>t DEF WebCrash
  <2>2. Forward /\ NoneRefused
    BY <1>2, <1>i DEF WebCrash, Forward, Bad, RestOK
  <2> QED
    BY <2>1, <2>2, <1>k
<1>3. ASSUME NEW r \in Requests, Submit(r) \/ AskAgain(r) \/ Timeout(r) \/ Retry(r)
      PROVE  RefusalInv'
  <2>1. NothingCounted
    BY <1>3, <1>u DEF Submit, AskAgain, Timeout, Retry
  <2>2. Forward /\ NoneRefused
    BY <1>3, <1>i DEF Submit, AskAgain, Timeout, Retry, MoveTo, Forward, Bad, RestOK
  <2> QED
    BY <2>1, <2>2, <1>k
<1>4. ASSUME NEW r \in Requests, Send(r) PROVE RefusalInv'
  <2>1. NothingCounted
    BY <1>4, <1>t, <1>i DEF Send, OnSend, breakerVars, BreakerOK
  <2>2. Forward /\ NoneRefused
    BY <1>4, <1>i DEF Send, MoveTo, Forward, Bad, RestOK
  <2> QED
    BY <2>1, <2>2, <1>k
<1>5. ASSUME NEW r \in Requests, Reject(r) PROVE RefusalInv'
  <2>1. Forward /\ NothingCounted
    BY <1>5, <1>i, <1>u DEF Reject, MoveTo, Forward, Bad, RestOK
  <2>2. \A c \in Clients : Backed(c)'
    BY <2>1, <1>b
  <2>3. ASSUME NEW q \in Requests, stage'[q] = "unavailable"
        PROVE  stage[q] = "unavailable" \/ circuit[ClientOf(q)] # "closed"
    BY <1>5, <1>i, <2>3 DEF Reject, MoveTo, Permits, RestOK
  <2>4. ASSUME NEW q \in Requests, stage'[q] = "unavailable"
        PROVE  Threshold <= Cardinality(FailedAttempts(ReplicaOf[q], ApiOf(q)))
    <3>1. CASE stage[q] = "unavailable"
      BY <3>1, <1>h DEF RefusedOnlyIfFailing
    <3>2. CASE circuit[ClientOf(q)] # "closed"
      BY <3>2, <1>h, ClientOfType DEF Backed
    <3> QED
      BY <2>3, <2>4, <3>1, <3>2
  <2>5. ASSUME NEW q \in Requests
        PROVE FailedAttempts(ReplicaOf[q], ApiOf(q))' = FailedAttempts(ReplicaOf[q], ApiOf(q))
    BY <1>5, <1>i DEF Reject, MoveTo, FailedAttempts, RestOK, ApiOf
  <2>6. RefusedOnlyIfFailing'
    BY <2>4, <2>5 DEF RefusedOnlyIfFailing, ApiOf
  <2> QED
    BY <2>2, <2>6 DEF RefusalInv, Clients
<1>6. ASSUME NEW r \in Requests, Answered(r) \/ NotFound(r) PROVE RefusalInv'
  <2>1. OnSuccess(ClientOf(r)) /\ ClientOf(r) \in Clients
    BY <1>6, ClientOfType DEF Answered, NotFound
  <2>2. NothingCounted
    BY <2>1, <1>t, <1>i DEF OnSuccess, Reset, breakerVars, BreakerOK
  <2>3. Forward /\ NoneRefused
    BY <1>6, <1>i DEF Answered, NotFound, RetryOr, MoveTo, Forward, Bad, RestOK
  <2> QED
    BY <2>2, <2>3, <1>k
<1>7. ASSUME NEW r \in Requests, ErrorAnswered(r) \/ ConnectionLost(r) PROVE RefusalInv'
  <2>1. /\ OnFailure(ClientOf(r)) /\ stage[r] = "waiting" /\ stage'[r] \in Bad /\ attempt' = attempt
        /\ Forward /\ NoneRefused
    BY <1>7, <1>i DEF ErrorAnswered, ConnectionLost, RetryOr, MoveTo, Forward, Bad, RestOK
  <2>2. \A c \in Clients : Backed(c)'
    BY <2>1, <1>h, <1>i, <1>j, FailureBacked
  <2>3. RefusedOnlyIfFailing'
    BY <2>1, <1>h, <1>i, <1>j, RefusedKept
  <2> QED
    BY <2>2, <2>3 DEF RefusalInv, Clients
<1>8. ASSUME NEW r \in Requests, NEW n \in Attempts, ApiStep(r, n) \/ CallError(r, n) PROVE RefusalInv'
  <2>1. UNCHANGED <<breakerVars, requestVars>>
    BY <1>8 DEF ApiStep, SaveBooking, SavePayment, SaveRow, PublishEvent, FindBooking, FindHistory,
                CallError
  <2> QED
    BY <2>1, <1>u, <1>v, <1>k
<1>9. ASSUME NEW a \in Apis, ApiCrash(a) PROVE RefusalInv'
  BY <1>9, <1>u, <1>v, <1>k DEF ApiCrash
<1>10. CASE UNCHANGED vars
  BY <1>10, <1>u, <1>v, <1>k DEF vars
<1> QED
  BY <1>1, <1>2, <1>3, <1>4, <1>5, <1>6, <1>7, <1>8, <1>9, <1>10 DEF Next, GatewayStep

\* A user is refused only after the threshold's number of attempts of the same replica
\* at the same API have failed.
THEOREM RefusedOnlyIfApiFails == Spec => []RefusedOnlyIfFailing
<1>1. RefusalInv => RefusedOnlyIfFailing
  BY DEF RefusalInv
<1> QED
  BY <1>1, InitInv, NextInv, RefusalInit, RefusalNext, PTL DEF Spec
=============================================================================

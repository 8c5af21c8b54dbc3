------------------------------ MODULE Gateway ------------------------------
(***************************************************************************)
(* The web gateway and what stands behind it.  A user's request goes       *)
(* through the two policies of an HTTP client, a retry around a circuit    *)
(* breaker, to one of three APIs.  Startup.cs gives each typed client      *)
(* policies of its own, so every replica has one breaker per API.          *)
(* Booking.API and Payment.API create a row and publish an event: two      *)
(* writes, no transaction around them, and a retried POST creates again.   *)
(* The policies are Polly's, modelled from how Startup.cs sets them up.    *)
(***************************************************************************)
EXTENDS Naturals, FiniteSets

CONSTANTS Requests,     \* requests of users
          KindOf,       \* KindOf[r]: what request r asks for
          Replicas,     \* replicas of the web application
          ReplicaOf,    \* ReplicaOf[r]: the replica that handles request r
          NoBooking,    \* an id that names no booking
          MaxRetries,   \* GetRetryPolicy: 2
          Threshold,    \* GetCircuitBreakerPolicy: 5 failures in a row
          Faults,       \* which of AllFaults may happen
          MaxSubmitted  \* bound of the instance: how many requests are made

Kinds == {"createBooking", "getBooking", "createPayment", "getHistory"}
AllFaults == {"error", "lost", "timeout", "apicrash", "webcrash"}

ASSUME RequestsAssumption ==
  IsFiniteSet(Requests) /\ KindOf \in [Requests -> Kinds] /\ ReplicaOf \in [Requests -> Replicas]
ASSUME NoBookingAssumption == NoBooking \notin Requests
ASSUME PolicyAssumption == MaxRetries \in Nat /\ Threshold \in Nat \ {0}
ASSUME FaultsAssumption == Faults \subseteq AllFaults /\ MaxSubmitted \in Nat

VARIABLES
  circuit,   \* circuit[c]: the state of the breaker of client c
  failures,  \* failures[c]: failed calls in a row while it was closed
  blocked,   \* blocked[c]: the 30 seconds of the break are not over
  stage,     \* stage[r]: where request r is in the gateway
  attempt,   \* attempt[r]: the number of its current attempt, from 1
  asked,     \* asked[r]: the creation whose booking r asks for
  call,      \* call[r][n]: what the API makes of attempt n of r
  rows,      \* tables Bookings and Payments: the attempts <<r, n>> that saved a row
  events     \* the attempts whose event is on the topic

breakerVars == <<circuit, failures, blocked>>
requestVars == <<stage, attempt, asked>>
apiVars == <<call, rows, events>>
vars == <<breakerVars, requestVars, apiVars>>

Apis == {"booking", "payment", "tracking"}
Clients == Replicas \X Apis

ApiOf(r) == CASE KindOf[r] \in {"createBooking", "getBooking"} -> "booking"
              [] KindOf[r] = "createPayment" -> "payment"
              [] KindOf[r] = "getHistory" -> "tracking"

\* Mutant: one policy object for the clients of all APIs.
ClientOfShared(r) == <<ReplicaOf[r], "booking">>

\* The typed client, with its breaker, that sends r.
ClientOf(r) == <<ReplicaOf[r], ApiOf(r)>>

Attempts == 1..MaxRetries + 1
Answers == {"ok", "notFound", "failed", "unavailable"}
Stages == {"new", "ready", "waiting", "backoff"} \cup Answers
Pending == {"arrived", "saved"}
CallStates == {"none", "created", "found", "notFound", "error", "gone"} \cup Pending

-----------------------------------------------------------------------------
(* The breaker *)

\* A call may go out: the breaker is closed, or its break is over and this call
\* is the trial.
Permits(c) == circuit[c] = "closed" \/ ~blocked[c]

OnSend(c) ==
  IF circuit[c] = "closed"
    THEN UNCHANGED breakerVars
    ELSE /\ circuit' = [circuit EXCEPT ![c] = "halfOpen"]
         /\ blocked' = [blocked EXCEPT ![c] = TRUE]
         /\ UNCHANGED failures

Reset(c) == /\ circuit' = [circuit EXCEPT ![c] = "closed"]
            /\ blocked' = [blocked EXCEPT ![c] = FALSE]
            /\ failures' = [failures EXCEPT ![c] = 0]

\* Mutant: a late answer closes an open breaker.
OnSuccessLate(c) == Reset(c)

\* An answer that comes late, when the breaker is open, does not count.
OnSuccess(c) == IF circuit[c] = "open" THEN UNCHANGED breakerVars ELSE Reset(c)

Break(c) == /\ circuit' = [circuit EXCEPT ![c] = "open"]
            /\ blocked' = [blocked EXCEPT ![c] = TRUE]

\* Mutant: one failure too many is tolerated.
OnFailureLate(c) ==
  CASE circuit[c] = "open" -> UNCHANGED breakerVars
    [] circuit[c] = "halfOpen" -> Break(c) /\ UNCHANGED failures
    [] circuit[c] = "closed" ->
         /\ failures' = [failures EXCEPT ![c] = @ + 1]
         /\ IF failures[c] + 1 > Threshold THEN Break(c)
                                          ELSE UNCHANGED <<circuit, blocked>>

OnFailure(c) ==
  CASE circuit[c] = "open" -> UNCHANGED breakerVars
    [] circuit[c] = "halfOpen" -> Break(c) /\ UNCHANGED failures
    [] circuit[c] = "closed" ->
         /\ failures' = [failures EXCEPT ![c] = @ + 1]
         /\ IF failures[c] + 1 >= Threshold THEN Break(c)
                                           ELSE UNCHANGED <<circuit, blocked>>

\* Mutant: only the first break ends; a trial without an outcome blocks for ever.
BreakIsOverOnce(c) ==
  /\ circuit[c] = "open"
  /\ blocked[c]
  /\ blocked' = [blocked EXCEPT ![c] = FALSE]
  /\ UNCHANGED <<circuit, failures, requestVars, apiVars>>

\* 30 seconds have passed since the breaker opened or since its last trial.
BreakIsOver(c) ==
  /\ circuit[c] # "closed"
  /\ blocked[c]
  /\ blocked' = [blocked EXCEPT ![c] = FALSE]
  /\ UNCHANGED <<circuit, failures, requestVars, apiVars>>

-----------------------------------------------------------------------------
Init ==
  /\ circuit = [c \in Clients |-> "closed"]
  /\ failures = [c \in Clients |-> 0]
  /\ blocked = [c \in Clients |-> FALSE]
  /\ stage = [r \in Requests |-> "new"]
  /\ attempt = [r \in Requests |-> 1]
  /\ asked = [r \in Requests |-> NoBooking]
  /\ call = [r \in Requests |-> [n \in Attempts |-> "none"]]
  /\ rows = {}
  /\ events = {}

MoveTo(r, s) == stage' = [stage EXCEPT ![r] = s]
SetCall(r, n, s) == call' = [call EXCEPT ![r][n] = s]
CurrentCall(r) == call[r][attempt[r]]

\* The transient errors and "not found" are tried again, at most MaxRetries times.
RetryOr(r, answer) == MoveTo(r, IF attempt[r] <= MaxRetries THEN "backoff" ELSE answer)

(* The gateway *)

\* A user posts, or asks for a booking by the id in the answer to its creation,
\* or by an id that names none.
Submit(r) ==
  /\ stage[r] = "new"
  /\ Cardinality({q \in Requests : stage[q] # "new"}) < MaxSubmitted
  /\ \E b \in {NoBooking} \cup {q \in Requests : KindOf[q] = "createBooking" /\ stage[q] = "ok"} :
       /\ KindOf[r] # "getBooking" => b = NoBooking
       /\ asked' = [asked EXCEPT ![r] = b]
  /\ MoveTo(r, "ready")
  /\ UNCHANGED <<breakerVars, attempt, apiVars>>

\* A user who was refused asks again, as often as it may be.  The attempts that failed
\* before are counted on: the bound of the instance on the calls of one user.
AskAgain(r) ==
  /\ stage[r] = "unavailable"
  /\ MoveTo(r, "ready")
  /\ UNCHANGED <<breakerVars, attempt, asked, apiVars>>

\* The call reaches its API.
Send(r) ==
  /\ stage[r] = "ready"
  /\ Permits(ClientOf(r))
  /\ OnSend(ClientOf(r))
  /\ MoveTo(r, "waiting")
  /\ SetCall(r, attempt[r], "arrived")
  /\ UNCHANGED <<attempt, asked, rows, events>>

\* BrokenCircuitException, which the retry policy does not handle.
Reject(r) ==
  /\ stage[r] = "ready"
  /\ ~Permits(ClientOf(r))
  /\ MoveTo(r, "unavailable")
  /\ UNCHANGED <<breakerVars, attempt, asked, apiVars>>

\* 200 or 201.
Answered(r) ==
  /\ stage[r] = "waiting"
  /\ CurrentCall(r) \in {"created", "found"}
  /\ OnSuccess(ClientOf(r))
  /\ MoveTo(r, "ok")
  /\ UNCHANGED <<attempt, asked, apiVars>>

\* 404: a success for the breaker, to be tried again for the retry policy.
NotFound(r) ==
  /\ stage[r] = "waiting"
  /\ CurrentCall(r) = "notFound"
  /\ OnSuccess(ClientOf(r))
  /\ RetryOr(r, "notFound")
  /\ UNCHANGED <<attempt, asked, apiVars>>

\* Mutant: a request is tried again as long as it fails.
ErrorAnsweredForever(r) ==
  /\ stage[r] = "waiting"
  /\ CurrentCall(r) = "error"
  /\ MoveTo(r, "ready")
  /\ UNCHANGED <<breakerVars, attempt, asked, apiVars>>

\* 500.  GetBookingById makes null of it, as of a 404.
ErrorAnswered(r) ==
  /\ stage[r] = "waiting"
  /\ CurrentCall(r) = "error"
  /\ OnFailure(ClientOf(r))
  /\ RetryOr(r, IF KindOf[r] = "getBooking" THEN "notFound" ELSE "failed")
  /\ UNCHANGED <<attempt, asked, apiVars>>

\* The connection breaks; what was sent goes on in the API.
ConnectionLost(r) ==
  /\ stage[r] = "waiting"
  /\ CurrentCall(r) = "gone" \/ "lost" \in Faults
  /\ OnFailure(ClientOf(r))
  /\ RetryOr(r, "failed")
  /\ UNCHANGED <<attempt, asked, apiVars>>

\* After 2 or 4 seconds.
Retry(r) ==
  /\ stage[r] = "backoff"
  /\ MoveTo(r, "ready")
  /\ attempt' = [attempt EXCEPT ![r] = @ + 1]
  /\ UNCHANGED <<breakerVars, asked, apiVars>>

\* HttpClient gives up after 100 seconds, retries included; a cancelled call is
\* neither a success nor a failure for the breaker.
Timeout(r) ==
  /\ "timeout" \in Faults
  /\ stage[r] \in {"waiting", "backoff"}
  /\ MoveTo(r, "failed")
  /\ UNCHANGED <<breakerVars, attempt, asked, apiVars>>

Running(r) == stage[r] \in {"ready", "waiting", "backoff"}

\* A replica of the gateway dies, with its requests and its breakers.
WebCrash(g) ==
  /\ "webcrash" \in Faults
  /\ \E r \in Requests : ReplicaOf[r] = g /\ Running(r)
  /\ stage' = [r \in Requests |->
                 IF ReplicaOf[r] = g /\ Running(r) THEN "failed" ELSE stage[r]]
  /\ circuit' = [c \in Clients |-> IF c[1] = g THEN "closed" ELSE circuit[c]]
  /\ failures' = [c \in Clients |-> IF c[1] = g THEN 0 ELSE failures[c]]
  /\ blocked' = [c \in Clients |-> IF c[1] = g THEN FALSE ELSE blocked[c]]
  /\ UNCHANGED <<attempt, asked, apiVars>>

-----------------------------------------------------------------------------
(* The APIs, also for calls nobody waits for any more *)

\* Mutant: the row is added but the changes are not saved.
SaveRowForgotten(r, n) ==
  /\ call[r][n] = "arrived"
  /\ SetCall(r, n, "saved")
  /\ UNCHANGED <<breakerVars, requestVars, rows, events>>

SaveRow(r, n) ==
  /\ call[r][n] = "arrived"
  /\ rows' = rows \cup {<<r, n>>}
  /\ SetCall(r, n, "saved")
  /\ UNCHANGED <<breakerVars, requestVars, events>>

\* CreateBookingCommandHandler: the order gets a new id and is saved.
SaveBooking(r, n) == KindOf[r] = "createBooking" /\ SaveRow(r, n)

\* PaymentService: the payment gets a new id and is saved as completed.
SavePayment(r, n) == KindOf[r] = "createPayment" /\ SaveRow(r, n)

\* BookingAdd or PaymentProcessed is published; 201.
PublishEvent(r, n) ==
  /\ call[r][n] = "saved"
  /\ events' = events \cup {<<r, n>>}
  /\ SetCall(r, n, "created")
  /\ UNCHANGED <<breakerVars, requestVars, rows>>

\* The booking the answer to asked[r] named, if there is one.
IsBooked(b) == b # NoBooking /\ <<b, attempt[b]>> \in rows

\* BookingController.Get: 200 or 404.
FindBooking(r, n) ==
  /\ KindOf[r] = "getBooking"
  /\ call[r][n] = "arrived"
  /\ SetCall(r, n, IF IsBooked(asked[r]) THEN "found" ELSE "notFound")
  /\ UNCHANGED <<breakerVars, requestVars, rows, events>>

\* TrackingController.Get: 200, with a null history for an order without a trail.
FindHistory(r, n) ==
  /\ KindOf[r] = "getHistory"
  /\ call[r][n] = "arrived"
  /\ SetCall(r, n, "found")
  /\ UNCHANGED <<breakerVars, requestVars, rows, events>>

\* Mutant: the answer is 201 whatever happens to the event.
CallErrorIgnored(r, n) ==
  /\ "error" \in Faults
  /\ call[r][n] \in Pending
  /\ SetCall(r, n, "created")
  /\ UNCHANGED <<breakerVars, requestVars, rows, events>>

\* The database, the cache or the bus throws; 500, and what was saved stays.
CallError(r, n) ==
  /\ "error" \in Faults
  /\ call[r][n] \in Pending
  /\ SetCall(r, n, "error")
  /\ UNCHANGED <<breakerVars, requestVars, rows, events>>

\* The process of an API dies, or was not there: its calls end where they are.
ApiCrash(a) ==
  /\ "apicrash" \in Faults
  /\ \E r \in Requests : \E n \in Attempts : ApiOf(r) = a /\ call[r][n] \in Pending
  /\ call' = [r \in Requests |-> [n \in Attempts |->
                IF ApiOf(r) = a /\ call[r][n] \in Pending THEN "gone" ELSE call[r][n]]]
  /\ UNCHANGED <<breakerVars, requestVars, rows, events>>

-----------------------------------------------------------------------------
GatewayStep(r) == \/ Send(r) \/ Reject(r) \/ Retry(r)
                  \/ Answered(r) \/ NotFound(r) \/ ErrorAnswered(r) \/ ConnectionLost(r)
ApiStep(r, n) == \/ SaveBooking(r, n) \/ SavePayment(r, n) \/ PublishEvent(r, n)
                 \/ FindBooking(r, n) \/ FindHistory(r, n)

Next == \/ \E c \in Clients : BreakIsOver(c)
        \/ \E g \in Replicas : WebCrash(g)
        \/ \E r \in Requests : Submit(r) \/ AskAgain(r) \/ GatewayStep(r) \/ Timeout(r)
        \/ \E r \in Requests, n \in Attempts : ApiStep(r, n) \/ CallError(r, n)
        \/ \E a \in Apis : ApiCrash(a)

Spec == Init /\ [][Next]_vars

Progress == \/ \E r \in Requests : GatewayStep(r)
            \/ \E r \in Requests, n \in Attempts : ApiStep(r, n)

\* What has begun goes on, in the gateway or in an API, and time passes.  Since calls
\* are finitely many and refusals end, fairness for each request need not be assumed.
\* Nothing makes users ask, the first time or again.
Fairness == WF_vars(Progress) /\ WF_vars(\E c \in Clients : BreakIsOver(c))

FairSpec == Spec /\ Fairness

-----------------------------------------------------------------------------
(* Properties *)

\* Every variable has its type; a closed breaker has seen fewer failures in a
\* row than the threshold.
TypeOK ==
  /\ circuit \in [Clients -> {"closed", "open", "halfOpen"}]
  /\ failures \in [Clients -> 0..Threshold]
  /\ blocked \in [Clients -> BOOLEAN]
  /\ stage \in [Requests -> Stages]
  /\ attempt \in [Requests -> Attempts]
  /\ asked \in [Requests -> Requests \cup {NoBooking}]
  /\ call \in [Requests -> [Attempts -> CallStates]]
  /\ rows \subseteq Requests \X Attempts
  /\ events \subseteq rows
  /\ \A c \in Clients : circuit[c] = "closed" => failures[c] < Threshold

Creations == {r \in Requests : KindOf[r] \in {"createBooking", "createPayment"}}

\* A user who is told that the order is booked or paid has a row in the database,
\* and the other services hear of that row, whatever became of earlier attempts.
ConfirmedIsPublished ==
  \A r \in Creations : stage[r] = "ok" => <<r, attempt[r]>> \in rows \cap events

\* A user who asks for a booking that was confirmed is told that it is not there
\* only if Booking.API failed: BookingAPI.cs, line 39, takes an error for a "not
\* found", and only an error.
ConfirmedIsFound ==
  \A r \in Requests :
    stage[r] = "notFound" /\ asked[r] # NoBooking => CurrentCall(r) = "error"

\* The attempts of one replica's requests to API a that were not answered 200 or
\* 201: all that are not the last one of their request, or ended it.
FailedAttempts(g, a) ==
  {f \in Requests \X Attempts :
     /\ ReplicaOf[f[1]] = g /\ ApiOf(f[1]) = a
     /\ \/ f[2] < attempt[f[1]]
        \/ f[2] = attempt[f[1]] /\ stage[f[1]] \in {"backoff", "failed", "notFound"}}

\* README.md, line 45: "incase if any of the API is down, we don't send request to
\* that API until it's back".  The counterpart: no user is refused because another API is
\* down, through another replica, or before this API has failed the threshold's times.
RefusedOnlyIfFailing ==
  \A r \in Requests :
    stage[r] = "unavailable" =>
      Cardinality(FailedAttempts(ReplicaOf[r], ApiOf(r))) >= Threshold

InFlight(c) == {r \in Requests : ClientOf(r) = c /\ stage[r] = "waiting"}

\* README.md, line 45, as quoted above.  While the break of a client lasts, its
\* breaker stays open and it sends nothing (unless the replica dies), although answers
\* of calls that began before the break still arrive.
BreakHolds ==
  [][\A c \in Clients :
       circuit[c] = "open" /\ blocked[c] =>
         \/ circuit'[c] = "open" /\ InFlight(c)' \subseteq InFlight(c)
         \/ WebCrash(c[1])]_vars

\* Every submitted request gets an answer, from its API or without it.
EveryRequestIsAnswered ==
  (\E r \in Requests : Running(r)) ~> (\A r \in Requests : ~Running(r))

\* README.md, line 45: "until it's back".  A user who asks again after every refusal is
\* let through in the end, although others' calls may be the trials of the breaker, and a
\* trial may time out or die with its API and so tell the breaker nothing.
RefusalsEnd == <>[][\A r \in Requests : ~AskAgain(r)]_vars
=============================================================================

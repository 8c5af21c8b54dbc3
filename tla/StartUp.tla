------------------------------- MODULE StartUp -------------------------------
(***************************************************************************)
(* The start of the tracking service: it makes the event store's database  *)
(* and tables, then subscribes and serves.  The work is cut into calls,    *)
(* each under a policy that retries the whole call; in a call the service  *)
(* looks for one object after the other and creates it if it was missing,  *)
(* in two steps, while other replicas do the same.  When a call has failed *)
(* for good, the exception is swallowed and the service serves.            *)
(***************************************************************************)
EXTENDS Naturals, Sequences, FiniteSets

CONSTANTS Replicas,    \* replicas that start
          Calls,       \* Calls[i]: the objects that call i makes, in order
          Retries,     \* Retries[i]: how often call i is retried
          MovedAfter,  \* the call that moves to the service's own database; those before
                       \* it are made in "master"
          MaxOutages,  \* bound of the instance: how often the server goes down
          MaxStarts    \* bound of the instance: how often replicas start

Objects == UNION {{Calls[i][j] : j \in DOMAIN Calls[i]} : i \in DOMAIN Calls}

ASSUME CallsAssumption == Calls \in Seq(Seq(Objects)) /\ Retries \in [DOMAIN Calls -> Nat]
\* A clash costs a retry, and one call meets at most one for each of its objects.
ASSUME RetriesAssumption == \A i \in DOMAIN Calls : Len(Calls[i]) <= Retries[i]
ASSUME BoundsAssumption == MovedAfter \in Nat /\ MaxOutages \in Nat /\ MaxStarts \in Nat

VARIABLES
  up,       \* the database server answers
  outages,  \* how often it went down
  objects,  \* the objects that exist, each with the database it is in
  starts,   \* how often a replica was started
  pc,       \* pc[r]: "off", "starting" or "serving"
  call,     \* call[r]: the number of the call replica r is in
  tries,    \* tries[r]: how often that call was retried
  at,       \* at[r]: the position of the object it is about
  missing,  \* missing[r]: it has looked, and the object was not there
  astray,   \* astray[r]: its connection was lost, and is opened anew, in "master", for
            \* each attempt to execute a batch, and closed after it
  cutOff    \* cutOff[r]: the server was down for r in this start (history)

serverVars == <<up, outages>>
replicaVars == <<pc, call, tries, at, missing, astray>>
vars == <<serverVars, objects, starts, replicaVars, cutOff>>

-----------------------------------------------------------------------------
Init ==
  /\ up = TRUE /\ outages = 0
  /\ objects = {}
  /\ starts = 0
  /\ pc = [r \in Replicas |-> "off"]
  /\ call = [r \in Replicas |-> 1]
  /\ tries = [r \in Replicas |-> 0]
  /\ at = [r \in Replicas |-> 1]
  /\ missing = [r \in Replicas |-> FALSE]
  /\ astray = [r \in Replicas |-> FALSE]
  /\ cutOff = [r \in Replicas |-> FALSE]

Calling(r) == pc[r] = "starting" /\ call[r] <= Len(Calls)
Object(r) == Calls[call[r]][at[r]]
Database(i) == IF i > MovedAfter THEN "own" ELSE "master"

\* The object where replica r looks for it.
Placed(r) == <<IF astray[r] THEN "master" ELSE Database(call[r]), Object(r)>>

\* What the calls are to leave behind, each object in its database.
Schema == UNION {{<<Database(i), Calls[i][j]>> : j \in DOMAIN Calls[i]} : i \in DOMAIN Calls}

(* A replica *)

\* The process is started.
Start(r) ==
  /\ pc[r] = "off"
  /\ starts < MaxStarts
  /\ starts' = starts + 1
  /\ pc' = [pc EXCEPT ![r] = "starting"]
  /\ call' = [call EXCEPT ![r] = 1]
  /\ tries' = [tries EXCEPT ![r] = 0]
  /\ at' = [at EXCEPT ![r] = 1]
  /\ missing' = [missing EXCEPT ![r] = FALSE]
  /\ astray' = [astray EXCEPT ![r] = FALSE]
  /\ cutOff' = [cutOff EXCEPT ![r] = FALSE]
  /\ UNCHANGED <<serverVars, objects>>

\* IF ... IS NULL.
Look(r) ==
  /\ Calling(r) /\ up
  /\ at[r] <= Len(Calls[call[r]])
  /\ ~missing[r]
  /\ IF Placed(r) \in objects
       THEN at' = [at EXCEPT ![r] = @ + 1] /\ UNCHANGED missing
       ELSE missing' = [missing EXCEPT ![r] = TRUE] /\ UNCHANGED at
  /\ UNCHANGED <<serverVars, objects, starts, pc, call, tries, astray, cutOff>>

\* CREATE.
Create(r) ==
  /\ Calling(r) /\ up
  /\ missing[r]
  /\ Placed(r) \notin objects
  /\ objects' = objects \cup {Placed(r)}
  /\ missing' = [missing EXCEPT ![r] = FALSE]
  /\ at' = [at EXCEPT ![r] = @ + 1]
  /\ UNCHANGED <<serverVars, starts, pc, call, tries, astray, cutOff>>

\* The call is the move to the service's database, and the connection is closed:
\* the attempt that opened it has closed it again.
Closed(r) == astray[r] /\ call[r] = MovedAfter

\* Mutant: one policy, with its retries, for all calls.
EndCallKeepsTries(r) ==
  /\ Calling(r) /\ up
  /\ at[r] > Len(Calls[call[r]])
  /\ ~Closed(r)
  /\ call' = [call EXCEPT ![r] = @ + 1]
  /\ at' = [at EXCEPT ![r] = 1]
  /\ UNCHANGED <<serverVars, objects, starts, pc, tries, missing, astray, cutOff>>

\* The call is over and its policy with it.
EndCall(r) ==
  /\ Calling(r) /\ up
  /\ at[r] > Len(Calls[call[r]])
  /\ ~Closed(r)
  /\ call' = [call EXCEPT ![r] = @ + 1]
  /\ tries' = [tries EXCEPT ![r] = 0]
  /\ at' = [at EXCEPT ![r] = 1]
  /\ UNCHANGED <<serverVars, objects, starts, pc, missing, astray, cutOff>>

\* Mutant: the call is retried for ever.
FailForever(r) ==
  /\ at' = [at EXCEPT ![r] = 1]
  /\ missing' = [missing EXCEPT ![r] = FALSE]
  /\ UNCHANGED <<pc, call, tries>>

\* Mutant: a call that failed is not made again.
FailOnce(r) ==
  /\ missing' = [missing EXCEPT ![r] = FALSE]
  /\ pc' = [pc EXCEPT ![r] = "serving"]
  /\ UNCHANGED <<call, tries, at>>

\* The call throws: it is made again from its start, or, when the policy gives up, the
\* exception is swallowed and nothing more is created.
FailCall(r) ==
  /\ missing' = [missing EXCEPT ![r] = FALSE]
  /\ IF tries[r] < Retries[call[r]]
       THEN /\ tries' = [tries EXCEPT ![r] = @ + 1]
            /\ at' = [at EXCEPT ![r] = 1]
            /\ UNCHANGED <<pc, call>>
       ELSE /\ pc' = [pc EXCEPT ![r] = "serving"]
            /\ UNCHANGED <<call, tries, at>>

\* Another replica was faster: the object exists by now.
Clash(r) ==
  /\ Calling(r) /\ up
  /\ missing[r]
  /\ Placed(r) \in objects
  /\ FailCall(r)
  /\ UNCHANGED <<serverVars, objects, starts, astray, cutOff>>

\* ChangeDatabase wants an open connection.
MoveFails(r) ==
  /\ Calling(r) /\ up
  /\ Closed(r)
  /\ FailCall(r)
  /\ UNCHANGED <<serverVars, objects, starts, astray, cutOff>>

\* The server does not answer.  The connection is lost.  The first call opens it itself;
\* later ones leave it to their next attempt, which opens it in the database that the
\* connection string names, and closes it.
Unreachable(r) ==
  /\ Calling(r) /\ ~up
  /\ FailCall(r)
  /\ astray' = [astray EXCEPT ![r] = call[r] > 1]
  /\ cutOff' = [cutOff EXCEPT ![r] = TRUE]
  /\ UNCHANGED <<serverVars, objects, starts>>

\* All calls are made: the service subscribes to its events and serves.
Serve(r) ==
  /\ pc[r] = "starting"
  /\ call[r] > Len(Calls)
  /\ pc' = [pc EXCEPT ![r] = "serving"]
  /\ UNCHANGED <<serverVars, objects, starts, call, tries, at, missing, astray, cutOff>>

\* The process dies, at any point.
Crash(r) ==
  /\ pc[r] # "off"
  /\ pc' = [pc EXCEPT ![r] = "off"]
  /\ UNCHANGED <<serverVars, objects, starts, call, tries, at, missing, astray, cutOff>>

(* The database server *)

GoDown ==
  /\ up
  /\ outages < MaxOutages
  /\ up' = FALSE
  /\ outages' = outages + 1
  /\ UNCHANGED <<objects, starts, replicaVars, cutOff>>

ComeUp ==
  /\ ~up
  /\ up' = TRUE
  /\ UNCHANGED <<outages, objects, starts, replicaVars, cutOff>>

-----------------------------------------------------------------------------
Step(r) == \/ Look(r) \/ Create(r) \/ EndCall(r) \/ Clash(r)
           \/ MoveFails(r) \/ Unreachable(r) \/ Serve(r)

Next == \/ \E r \in Replicas : Start(r) \/ Step(r) \/ Crash(r)
        \/ GoDown \/ ComeUp

Spec == Init /\ [][Next]_vars

\* A process that runs goes on.  The server need not come back.
Fairness == \A r \in Replicas : WF_vars(Step(r))

FairSpec == Spec /\ Fairness

-----------------------------------------------------------------------------
(* Properties *)

\* Every variable has its type; no policy retries more often than it may.
TypeOK ==
  /\ up \in BOOLEAN /\ outages \in 0..MaxOutages /\ starts \in 0..MaxStarts
  /\ objects \subseteq {"master", "own"} \X Objects
  /\ pc \in [Replicas -> {"off", "starting", "serving"}]
  /\ call \in [Replicas -> 1..Len(Calls) + 1]
  /\ tries \in [Replicas -> Nat]
  /\ at \in [Replicas -> Nat \ {0}]
  /\ missing \in [Replicas -> BOOLEAN]
  /\ astray \in [Replicas -> BOOLEAN] /\ cutOff \in [Replicas -> BOOLEAN]
  /\ \A r \in Replicas : Calling(r) =>
       /\ tries[r] <= Retries[call[r]]
       /\ at[r] <= Len(Calls[call[r]]) + 1
       /\ missing[r] => at[r] <= Len(Calls[call[r]])

\* Whatever other replicas create at the same time, and whatever part of the schema
\* an earlier start left behind, a service that could reach the server while it
\* started has all its tables when it begins to take messages.
ServingIsReady ==
  \A r \in Replicas : pc[r] = "serving" /\ ~cutOff[r] => Schema \subseteq objects

\* A start ends, also if the server never comes up: the policies are bounded.
EveryStartEnds == \A r \in Replicas : pc[r] = "starting" ~> pc[r] # "starting"
=============================================================================

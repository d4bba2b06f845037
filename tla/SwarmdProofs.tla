----------------------------- MODULE SwarmdProofs -----------------------------
(***************************************************************************)
(* Theorems about Swarmd, for any number of requests and of processes that  *)
(* follow each other at the endpoint.                                       *)
(***************************************************************************)
EXTENDS Swarmd, TLAPS

----------------------------------------------------------------------------
\* Types

\* What a handler writes is a body.
LEMMA Bodies ==
    /\ SuccessBody \in Body /\ RejectionBody \in Body /\ ErrorBody \in Body
    /\ \A outcome : Written(outcome) \in Body
BY DEF Body, SuccessBody, RejectionBody, ErrorBody, Written

\* What a request leaves alone of the process: everything but the token of a
\* one-shot request.
LEMMA RequestsApart ==
    ASSUME NEW r \in Requests, Request(r), oneShot \in BOOLEAN
    PROVE  /\ UNCHANGED <<instance, main, shutdown, agent, failure, listening,
                          signalled, serveErr, exit, registered>>
           /\ oneShot' \in BOOLEAN
<1>1. CASE Send(r) BY <1>1 DEF Send, processVars
<1>2. CASE Leave(r) BY <1>2 DEF Leave, processVars
<1>3. CASE Answered(r) BY <1>3 DEF Answered, processVars
<1>4. CASE Accept(r) \/ ReadRequest(r) BY <1>4 DEF Accept, ReadRequest, Drops, processVars
<1>5. CASE Admit(r) BY <1>5 DEF Admit, processVars
<1>6. CASE Forward(r) BY <1>6 DEF Forward, processVars
<1>7. CASE Finish(r) BY <1>7 DEF Finish, Completes
<1> QED BY <1>1, <1>2, <1>3, <1>4, <1>5, <1>6, <1>7 DEF Request

\* The flags of the process are Booleans.
LEMMA FlagTypes ==
    ASSUME FlagTypeOK, [Next]_vars PROVE FlagTypeOK'
<1> USE DEF FlagTypeOK
<1>1. CASE Begin BY <1>1, Zenon DEF Begin
<1>2. CASE Join BY <1>2, Zenon DEF Join
<1>3. CASE JoinFails BY <1>3, Zenon DEF JoinFails
<1>4. CASE ServeReturns BY <1>4, Zenon DEF ServeReturns
<1>5. CASE AwaitAgent BY <1>5, Zenon DEF AwaitAgent
<1>6. CASE AwaitShutdown BY <1>6, Zenon DEF AwaitShutdown
<1>7. CASE StopWorker BY <1>7, Zenon DEF StopWorker, Ends
<1>8. CASE Crash BY <1>8, Zenon DEF Crash, Ends
<1>9. CASE Signal BY <1>9, Zenon DEF Signal
<1>10. CASE AgentFails BY <1>10, Zenon DEF AgentFails
<1>11. CASE AgentStops BY <1>11, Zenon DEF AgentStops
<1>12. CASE Select BY <1>12, Zenon DEF Select, BeginsShutdown
<1>13. CASE Drained BY <1>13, Zenon DEF Drained
<1>14. ASSUME NEW r \in Requests, Request(r) PROVE FlagTypeOK'
  BY <1>14, RequestsApart, Zenon
<1>15. ASSUME NEW p \in pending, Settle(p) PROVE FlagTypeOK'
  BY <1>15, Zenon DEF Settle, processVars
<1>16. CASE UNCHANGED vars BY <1>16, Zenon DEF vars, processVars
<1> QED
  BY <1>1, <1>2, <1>3, <1>4, <1>5, <1>6, <1>7, <1>8, <1>9, <1>10, <1>11, <1>12,
     <1>13, <1>14, <1>15, <1>16 DEF Next, Run

\* The types of the process.
LEMMA ProcessTypes ==
    ASSUME ProcessTypeOK, FlagTypeOK, [Next]_vars PROVE ProcessTypeOK'
<1> USE SwarmdAssumption DEF ProcessTypeOK, Instances
<1>1. CASE Begin BY <1>1 DEF Begin
<1>2. CASE Join BY <1>2 DEF Join
<1>3. CASE JoinFails BY <1>3 DEF JoinFails
<1>4. CASE ServeReturns BY <1>4 DEF ServeReturns
<1>5. CASE AwaitAgent BY <1>5 DEF AwaitAgent
<1>6. CASE AwaitShutdown BY <1>6 DEF AwaitShutdown
<1>7. CASE StopWorker BY <1>7 DEF StopWorker, Ends
<1>8. CASE Crash BY <1>8 DEF Crash, Ends
<1>9. CASE Signal BY <1>9 DEF Signal
<1>10. CASE AgentFails BY <1>10 DEF AgentFails
<1>11. CASE AgentStops BY <1>11 DEF AgentStops
<1>12. CASE Select BY <1>12 DEF Select, BeginsShutdown
<1>13. CASE Drained BY <1>13 DEF Drained
<1>14. ASSUME NEW r \in Requests, Request(r) PROVE ProcessTypeOK'
  BY <1>14, RequestsApart DEF FlagTypeOK
<1>15. ASSUME NEW p \in pending, Settle(p) PROVE ProcessTypeOK'
  BY <1>15 DEF Settle, processVars
<1>16. CASE UNCHANGED vars BY <1>16 DEF vars, processVars
<1> QED
  BY <1>1, <1>2, <1>3, <1>4, <1>5, <1>6, <1>7, <1>8, <1>9, <1>10, <1>11, <1>12,
     <1>13, <1>14, <1>15, <1>16 DEF Next, Run

\* The types of the requests.
LEMMA RequestTypes ==
    ASSUME TypeOK, [Next]_vars PROVE RequestTypeOK'
<1> USE DEF TypeOK, RequestTypeOK, Running
<1>1. CASE Begin BY <1>1 DEF Begin, requestVars
<1>2. CASE Join BY <1>2 DEF Join, requestVars
<1>3. CASE JoinFails BY <1>3 DEF JoinFails, requestVars
<1>4. CASE ServeReturns BY <1>4 DEF ServeReturns, requestVars
<1>5. CASE AwaitAgent BY <1>5 DEF AwaitAgent, requestVars
<1>6. CASE AwaitShutdown BY <1>6 DEF AwaitShutdown, requestVars
<1>7. CASE StopWorker BY <1>7 DEF StopWorker, Ends
<1>8. CASE Crash BY <1>8 DEF Crash, Ends
<1>9. CASE Signal BY <1>9 DEF Signal, requestVars
<1>10. CASE AgentFails BY <1>10 DEF AgentFails, requestVars
<1>11. CASE AgentStops BY <1>11 DEF AgentStops, requestVars
<1>12. CASE Select BY <1>12 DEF Select, requestVars
<1>13. CASE Drained BY <1>13 DEF Drained, requestVars
<1>14. ASSUME NEW r \in Requests, Request(r) PROVE RequestTypeOK'
  <2>1. CASE Send(r) BY <1>14, <2>1 DEF Send, ProcessTypeOK
  <2>2. CASE Leave(r) BY <1>14, <2>2 DEF Leave, processVars
  <2>3. CASE Answered(r) BY <1>14, <2>3 DEF Answered, Returned, processVars
  <2>4. CASE Accept(r) \/ ReadRequest(r) BY <1>14, <2>4 DEF Accept, ReadRequest, Drops, processVars
  <2>5. CASE Admit(r) BY <1>14, <2>5, Bodies DEF Admit, Writes, processVars
  <2>6. CASE Forward(r) BY <1>14, <2>6, Bodies DEF Forward, Writes, processVars
  <2>7. CASE Finish(r) BY <1>14, <2>7, Bodies DEF Finish, Completes, Writes, processVars
  <2> QED BY <1>14, <2>1, <2>2, <2>3, <2>4, <2>5, <2>6, <2>7 DEF Request
<1>15. ASSUME NEW p \in pending, Settle(p) PROVE RequestTypeOK' BY <1>15 DEF Settle, requestVars
<1>16. CASE UNCHANGED vars BY <1>16 DEF vars, requestVars
<1> QED
  BY <1>1, <1>2, <1>3, <1>4, <1>5, <1>6, <1>7, <1>8, <1>9, <1>10, <1>11, <1>12,
     <1>13, <1>14, <1>15, <1>16 DEF Next, Run

\* A connection is served by a process that runs, and that has joined.
HandlersServed ==
    /\ main = "exited" => ~listening
    /\ \A r \in Requests :
         /\ handler[r] = "dialed" => main # "exited"
         /\ handler[r] \in Running => main \notin {"exited", "joining"}

\* Connections end with their process.
LEMMA HandlersKept ==
    ASSUME TypeOK, HandlersServed, [Next]_vars PROVE HandlersServed'
<1> USE DEF TypeOK, RequestTypeOK, Running, HandlersServed
<1>1. CASE Begin BY <1>1 DEF Begin, requestVars, Serving
<1>2. CASE Join BY <1>2 DEF Join, requestVars, Serving
<1>3. CASE JoinFails BY <1>3 DEF JoinFails, requestVars, Serving
<1>4. CASE ServeReturns BY <1>4 DEF ServeReturns, requestVars, Serving
<1>5. CASE AwaitAgent BY <1>5 DEF AwaitAgent, requestVars, Serving
<1>6. CASE AwaitShutdown BY <1>6 DEF AwaitShutdown, requestVars, Serving
<1>7. CASE StopWorker BY <1>7 DEF StopWorker, Ends
<1>8. CASE Crash BY <1>8 DEF Crash, Ends
<1>9. CASE Signal BY <1>9 DEF Signal, requestVars, Serving
<1>10. CASE AgentFails BY <1>10 DEF AgentFails, requestVars, Serving
<1>11. CASE AgentStops BY <1>11 DEF AgentStops, requestVars, Serving
<1>12. CASE Select BY <1>12 DEF Select, requestVars, Serving
<1>13. CASE Drained BY <1>13 DEF Drained, requestVars, Serving
<1>14. ASSUME NEW r \in Requests, Request(r) PROVE HandlersServed'
  <2>1. CASE Send(r) BY <1>14, <2>1 DEF Send, processVars
  <2>2. CASE Leave(r) BY <1>14, <2>2 DEF Leave, processVars
  <2>3. CASE Answered(r) BY <1>14, <2>3 DEF Answered, processVars
  <2>4. CASE Accept(r) \/ ReadRequest(r) BY <1>14, <2>4 DEF Accept, ReadRequest, Drops, processVars
  <2>5. CASE Admit(r) BY <1>14, <2>5 DEF Admit, Writes, processVars
  <2>6. CASE Forward(r) BY <1>14, <2>6 DEF Forward, Writes, processVars
  <2>7. CASE Finish(r) BY <1>14, <2>7 DEF Finish, Completes, Writes
  <2> QED BY <1>14, <2>1, <2>2, <2>3, <2>4, <2>5, <2>6, <2>7 DEF Request
<1>15. ASSUME NEW p \in pending, Settle(p) PROVE HandlersServed' BY <1>15 DEF Settle, processVars, requestVars
<1>16. CASE UNCHANGED vars BY <1>16 DEF vars, processVars, requestVars
<1> QED
  BY <1>1, <1>2, <1>3, <1>4, <1>5, <1>6, <1>7, <1>8, <1>9, <1>10, <1>11, <1>12,
     <1>13, <1>14, <1>15, <1>16 DEF Next, Run

\* What is executed and what may still be, by which process.
LEMMA WorkTypes ==
    ASSUME TypeOK, HandlersServed, [Next]_vars PROVE WorkTypeOK'
<1> WorkTypeOK BY DEF TypeOK
<1> USE DEF WorkTypeOK
<1>1. CASE Begin BY <1>1 DEF Begin, workVars
<1>2. CASE Join BY <1>2 DEF Join, workVars
<1>3. CASE JoinFails BY <1>3 DEF JoinFails, workVars
<1>4. CASE ServeReturns BY <1>4 DEF ServeReturns, workVars
<1>5. CASE AwaitAgent BY <1>5 DEF AwaitAgent, workVars
<1>6. CASE AwaitShutdown BY <1>6 DEF AwaitShutdown, workVars
<1>7. CASE StopWorker BY <1>7 DEF StopWorker, Ends
<1>8. CASE Crash BY <1>8 DEF Crash, Ends
<1>9. CASE Signal BY <1>9 DEF Signal, workVars
<1>10. CASE AgentFails BY <1>10 DEF AgentFails, workVars
<1>11. CASE AgentStops BY <1>11 DEF AgentStops, workVars
<1>12. CASE Select BY <1>12 DEF Select, workVars
<1>13. CASE Drained BY <1>13 DEF Drained, workVars
<1>14. ASSUME NEW r \in Requests, Request(r) PROVE WorkTypeOK'
  <2>1. CASE Send(r) BY <1>14, <2>1 DEF Send, workVars
  <2>2. CASE Leave(r) BY <1>14, <2>2 DEF Leave, workVars
  <2>3. CASE Answered(r) BY <1>14, <2>3 DEF Answered, workVars
  <2>4. CASE Accept(r) \/ ReadRequest(r) BY <1>14, <2>4 DEF Accept, ReadRequest, Drops, workVars
  <2>5. CASE Admit(r) BY <1>14, <2>5 DEF Admit, workVars
  <2>6. CASE Forward(r) BY <1>14, <2>6 DEF Forward, TypeOK, ProcessTypeOK, HandlersServed, Running
  <2>7. CASE Finish(r) BY <1>14, <2>7 DEF Finish, Completes, workVars
  <2> QED BY <1>14, <2>1, <2>2, <2>3, <2>4, <2>5, <2>6, <2>7 DEF Request
<1>15. ASSUME NEW p \in pending, Settle(p) PROVE WorkTypeOK' BY <1>15 DEF Settle
<1>16. CASE UNCHANGED vars BY <1>16 DEF vars, workVars
<1> QED
  BY <1>1, <1>2, <1>3, <1>4, <1>5, <1>6, <1>7, <1>8, <1>9, <1>10, <1>11, <1>12,
     <1>13, <1>14, <1>15, <1>16 DEF Next, Run

TypeInv == TypeOK /\ HandlersServed

\* Types hold in every state.
LEMMA TypeInvariant == Spec => []TypeInv
<1>1. Init => TypeInv
  <2> SUFFICES ASSUME Init PROVE TypeInv
    OBVIOUS
  <2>1. ProcessTypeOK
    BY SwarmdAssumption DEF Init, ProcessTypeOK
  <2>2. FlagTypeOK
    BY Zenon DEF Init, FlagTypeOK
  <2>3. RequestTypeOK
    BY Bodies DEF Init, RequestTypeOK
  <2>4. WorkTypeOK /\ HandlersServed
    BY DEF Init, WorkTypeOK, HandlersServed, Running
  <2> QED BY <2>1, <2>2, <2>3, <2>4 DEF TypeInv, TypeOK
<1>2. TypeInv /\ [Next]_vars => TypeInv'
  BY ProcessTypes, FlagTypes, RequestTypes, WorkTypes, HandlersKept DEF TypeInv, TypeOK
<1> QED BY <1>1, <1>2, PTL DEF Spec

\* Every variable has its type, for any number of requests and processes (the
\* daemon's run and its handlers).
THEOREM TypeCorrect == Spec => []TypeOK
BY TypeInvariant, PTL DEF TypeInv

----------------------------------------------------------------------------
\* What clients are told

\* The worker has not been told of a request.
Untouched(r) == \A i \in Instances : <<r, i>> \notin executed \union pending

\* What is returned follows what happened.
Justified(r, returned) ==
    /\ returned = "rejected" => Untouched(r)
    /\ returned = "ok" => \E i \in Instances : <<r, i>> \in executed

\* A request is not with the worker before its handler forwards it, and what the
\* handler writes then is justified.
HonestInv ==
    \A r \in Requests :
       /\ handler[r] \in {"idle", "dialed", "accepted", "active", "forwarding"} =>
             Untouched(r) /\ result[r] \in {"none", "failed"}
       /\ r \notin OneShots =>
             /\ handler[r] = "answering" => Justified(r, Returned(response[r]))
             /\ Justified(r, result[r])

\* What the client makes of each body.
LEMMA ReturnedOf ==
    /\ Returned(SuccessBody) = "ok" /\ Returned(RejectionBody) = "rejected"
    /\ Returned(ErrorBody) = "failed"
BY DEF Returned, SuccessBody, RejectionBody, ErrorBody

\* What is still to come may come or not: nothing is untold by it.
LEMMA SettledJustified ==
    ASSUME NEW p \in pending, Settle(p), NEW r, NEW returned
    PROVE  /\ Untouched(r) => Untouched(r)'
           /\ Justified(r, returned) => Justified(r, returned)'
BY DEF Settle, Untouched, Justified

\* A step that leaves the worker alone.
LEMMA WorkKept ==
    ASSUME UNCHANGED executed, pending' \subseteq pending, NEW r, NEW returned
    PROVE  /\ Untouched(r) => Untouched(r)'
           /\ Justified(r, returned) => Justified(r, returned)'
BY DEF Untouched, Justified

\* The end of a process fails what waits for it.
LEMMA EndsHonest ==
    ASSUME TypeInv, HonestInv, Ends, pending' \subseteq pending PROVE HonestInv'
<1> SUFFICES ASSUME NEW r \in Requests
             PROVE  /\ handler'[r] \in {"idle", "dialed", "accepted", "active", "forwarding"} =>
                          Untouched(r)' /\ result'[r] \in {"none", "failed"}
                    /\ r \notin OneShots =>
                          /\ handler'[r] = "answering" => Justified(r, Returned(response[r]))'
                          /\ Justified(r, result[r])'
  BY DEF HonestInv
<1>1. /\ handler'[r] = IF handler[r] = "idle" THEN "idle" ELSE "ended"
      /\ result'[r] = IF handler[r] # "idle" /\ result[r] = "none" THEN "failed" ELSE result[r]
  BY DEF Ends
<1>2. Untouched(r) => Untouched(r)'
  BY WorkKept DEF Ends
<1>3. ASSUME r \notin OneShots PROVE Justified(r, result[r])'
  BY <1>1, <1>3 DEF HonestInv, Ends, Justified, Untouched
<1> QED BY <1>1, <1>2, <1>3 DEF HonestInv

\* A step that leaves requests and worker alone.
LEMMA ApartHonest ==
    ASSUME HonestInv, UNCHANGED <<requestVars, workVars>> PROVE HonestInv'
BY DEF HonestInv, Untouched, Justified, Returned, requestVars, workVars

\* A step of a request that tells the worker nothing: a handler writes an error,
\* and the client returns what it was written, or a failure.
LocalStep(r) ==
    /\ UNCHANGED workVars
    /\ \A s \in Requests \ {r} : /\ handler'[s] = handler[s]
                                 /\ response'[s] = response[s]
                                 /\ result'[s] = result[s]
    /\ handler'[r] \in {"idle", "dialed", "accepted", "active", "forwarding"} =>
          /\ handler[r] \in {"idle", "dialed", "accepted", "active", "forwarding"}
          /\ result'[r] \in {"none", "failed"}
    /\ handler'[r] = "answering" =>
          \/ response'[r] = ErrorBody \/ r \in OneShots
          \/ handler[r] = "answering" /\ response'[r] = response[r]
    /\ \/ result'[r] \in {result[r], "failed"}
       \/ handler[r] = "answering" /\ result'[r] = Returned(response[r])

\* Such a step keeps what clients are told justified.
LEMMA LocalHonest ==
    ASSUME HonestInv, NEW r \in Requests, LocalStep(r) PROVE HonestInv'
<1> SUFFICES ASSUME NEW s \in Requests
             PROVE  /\ handler'[s] \in {"idle", "dialed", "accepted", "active", "forwarding"} =>
                          Untouched(s)' /\ result'[s] \in {"none", "failed"}
                    /\ s \notin OneShots =>
                          /\ handler'[s] = "answering" => Justified(s, Returned(response[s]))'
                          /\ Justified(s, result[s])'
  BY DEF HonestInv
<1>1. /\ Untouched(s)' <=> Untouched(s)
      /\ Justified(s, Returned(response[s]))' <=> Justified(s, Returned(response'[s]))
      /\ Justified(s, result[s])' <=> Justified(s, result'[s])
  BY DEF LocalStep, workVars, Untouched, Justified, Returned
<1>2. CASE s # r
  BY <1>1, <1>2 DEF LocalStep, HonestInv
<1>3. CASE s = r
  <2>1. Justified(r, "failed")
    BY DEF Justified
  <2> QED BY <1>1, <1>3, <2>1, ReturnedOf DEF LocalStep, HonestInv
<1> QED BY <1>2, <1>3

\* No step tells a client what is not so.
LEMMA HonestKept ==
    ASSUME TypeInv, HonestInv, [Next]_vars PROVE HonestInv'
<1>1. CASE Begin BY <1>1, ApartHonest DEF Begin
<1>2. CASE Join BY <1>2, ApartHonest DEF Join
<1>3. CASE JoinFails BY <1>3, ApartHonest DEF JoinFails
<1>4. CASE ServeReturns BY <1>4, ApartHonest DEF ServeReturns
<1>5. CASE AwaitAgent BY <1>5, ApartHonest DEF AwaitAgent
<1>6. CASE AwaitShutdown BY <1>6, ApartHonest DEF AwaitShutdown
<1>7. CASE StopWorker BY <1>7, EndsHonest DEF StopWorker
<1>8. CASE Crash BY <1>8, EndsHonest DEF Crash
<1>9. CASE Signal BY <1>9, ApartHonest DEF Signal
<1>10. CASE AgentFails BY <1>10, ApartHonest DEF AgentFails
<1>11. CASE AgentStops BY <1>11, ApartHonest DEF AgentStops
<1>12. CASE Select BY <1>12, ApartHonest DEF Select
<1>13. CASE Drained BY <1>13, ApartHonest DEF Drained
<1>14. ASSUME NEW r \in Requests, Request(r) PROVE HonestInv'
  <2>1. CASE Send(r) 
    <3>1. LocalStep(r)
      BY <1>14, <2>1 DEF Send, LocalStep, HonestInv, TypeInv, TypeOK, RequestTypeOK
    <3> QED BY <3>1, LocalHonest
  <2>2. CASE Leave(r) 
    <3>1. LocalStep(r)
      BY <1>14, <2>2 DEF Leave, LocalStep, HonestInv, TypeInv, TypeOK, RequestTypeOK
    <3> QED BY <3>1, LocalHonest
  <2>3. CASE Answered(r) 
    <3>1. LocalStep(r)
      BY <1>14, <2>3 DEF Answered, LocalStep, HonestInv, TypeInv, TypeOK, RequestTypeOK
    <3> QED BY <3>1, LocalHonest
  <2>4. CASE Accept(r) \/ ReadRequest(r) 
    <3>1. LocalStep(r)
      BY <1>14, <2>4 DEF Accept, ReadRequest, Drops, LocalStep, HonestInv, TypeInv, TypeOK, RequestTypeOK
    <3> QED BY <3>1, LocalHonest
  <2>5. CASE Admit(r) 
    <3>1. LocalStep(r)
      BY <1>14, <2>5 DEF Admit, Writes, LocalStep, HonestInv, TypeInv, TypeOK, RequestTypeOK
    <3> QED BY <3>1, LocalHonest
  <2>6. CASE Forward(r) 
    <3> SUFFICES ASSUME NEW s \in Requests
                 PROVE  /\ handler'[s] \in {"idle", "dialed", "accepted", "active", "forwarding"} =>
                              Untouched(s)' /\ result'[s] \in {"none", "failed"}
                        /\ s \notin OneShots =>
                              /\ handler'[s] = "answering" => Justified(s, Returned(response[s]))'
                              /\ Justified(s, result[s])'
      BY DEF HonestInv
    <3>1. PICK outcome \in {"executed", "refused", "failed"} :
            /\ Writes(r, Written(outcome))
            /\ executed' = IF outcome = "executed"
                           THEN executed \union {<<r, instance>>} ELSE executed
            /\ \/ UNCHANGED pending
               \/ outcome = "failed" /\ pending' = pending \union {<<r, instance>>}
      BY <2>6 DEF Forward
    <3>2. handler[r] = "forwarding" /\ Untouched(r) /\ result[r] \in {"none", "failed"}
      BY <2>6 DEF Forward, HonestInv
    <3>3. /\ handler'[r] = "answering" /\ response'[r] = Written(outcome)
          /\ UNCHANGED result
          /\ s # r => handler'[s] = handler[s] /\ response'[s] = response[s]
      BY <3>1 DEF Writes, TypeInv, TypeOK, RequestTypeOK
    <3>4. CASE s # r
      <4>1. \A i \in Instances :
              /\ <<s, i>> \in executed' <=> <<s, i>> \in executed
              /\ <<s, i>> \in pending' <=> <<s, i>> \in pending
        BY <3>1, <3>4
      <4>2. /\ Untouched(s) => Untouched(s)'
            /\ Justified(s, Returned(response[s])) => Justified(s, Returned(response[s]))'
            /\ Justified(s, result[s]) => Justified(s, result[s])'
        BY <4>1, <3>3, <3>4 DEF Untouched, Justified, Returned
      <4> QED BY <3>3, <3>4, <4>2 DEF HonestInv
    <3>5. CASE s = r
      <4>1. instance \in Instances
        BY <3>2 DEF TypeInv, TypeOK, ProcessTypeOK, HandlersServed, Running
      <4>2. CASE outcome = "executed"
        BY <3>1, <3>2, <3>3, <3>5, <4>1, <4>2, ReturnedOf DEF Written, Justified, Returned
      <4>3. CASE outcome = "refused"
        BY <3>1, <3>2, <3>3, <3>5, <4>3, ReturnedOf DEF Written, Justified, Untouched, Returned
      <4>4. CASE outcome = "failed"
        BY <3>1, <3>2, <3>3, <3>5, <4>4, ReturnedOf DEF Written, Justified, Returned
      <4> QED BY <4>2, <4>3, <4>4
    <3> QED BY <3>4, <3>5
  <2>7. CASE Finish(r) 
    <3>1. LocalStep(r)
      BY <1>14, <2>7 DEF Finish, Completes, Writes, LocalStep, HonestInv, TypeInv, TypeOK, RequestTypeOK
    <3> QED BY <3>1, LocalHonest
  <2> QED BY <1>14, <2>1, <2>2, <2>3, <2>4, <2>5, <2>6, <2>7 DEF Request
<1>15. ASSUME NEW p \in pending, Settle(p) PROVE HonestInv' 
  <2> SUFFICES ASSUME NEW r \in Requests
               PROVE  /\ handler'[r] \in {"idle", "dialed", "accepted", "active", "forwarding"} =>
                            Untouched(r)' /\ result'[r] \in {"none", "failed"}
                      /\ r \notin OneShots =>
                            /\ handler'[r] = "answering" => Justified(r, Returned(response[r]))'
                            /\ Justified(r, result[r])'
    BY DEF HonestInv
  <2>1. UNCHANGED requestVars
    BY <1>15 DEF Settle
  <2>2. /\ Untouched(r) => Untouched(r)'
        /\ Justified(r, Returned(response[r])) => Justified(r, Returned(response[r]))'
        /\ Justified(r, result[r]) => Justified(r, result[r])'
    BY <1>15, <2>1, SettledJustified DEF Justified, Untouched, Returned, requestVars, Settle
  <2> QED BY <2>1, <2>2 DEF HonestInv, requestVars
<1>16. CASE UNCHANGED vars BY <1>16 DEF vars, requestVars, workVars, HonestInv, Untouched, Justified, Returned
<1> QED
  BY <1>1, <1>2, <1>3, <1>4, <1>5, <1>6, <1>7, <1>8, <1>9, <1>10, <1>11, <1>12,
     <1>13, <1>14, <1>15, <1>16 DEF Next, Run

\* Across the proxy too, a rejection means that the worker has not executed the
\* request and never will, and success that it has (writePersistentResponse,
\* HTTPPersistentClient.Call).
THEOREM AnswersFollowWork == Spec => []AnswersHonest
<1>1. Init => HonestInv
  BY DEF Init, HonestInv, Untouched, Justified, Running
<1>2. TypeInv /\ HonestInv /\ [Next]_vars => HonestInv'
  BY HonestKept
<1>3. HonestInv => AnswersHonest
  BY DEF HonestInv, Justified, Untouched, AnswersHonest
<1> QED BY <1>1, <1>2, <1>3, TypeInvariant, PTL DEF Spec

----------------------------------------------------------------------------
\* Instances

\* A handler that forwards has compared the identity, and its process is still
\* the same.
BoundInv ==
    /\ BoundReached
    /\ \A r \in Requests : handler[r] = "forwarding" => bound[r] \in {Unbound, instance}

\* No step executes a request where it does not belong.
LEMMA BoundKept ==
    ASSUME TypeInv, HonestInv, BoundInv, [Next]_vars PROVE BoundInv'
<1>1. CASE Begin BY <1>1 DEF Begin, BoundInv, BoundReached, TypeInv, HandlersServed, Running, requestVars, workVars
<1>2. CASE Join BY <1>2 DEF Join, BoundInv, BoundReached, requestVars, workVars
<1>3. CASE JoinFails BY <1>3 DEF JoinFails, BoundInv, BoundReached, requestVars, workVars
<1>4. CASE ServeReturns BY <1>4 DEF ServeReturns, BoundInv, BoundReached, requestVars, workVars
<1>5. CASE AwaitAgent BY <1>5 DEF AwaitAgent, BoundInv, BoundReached, requestVars, workVars
<1>6. CASE AwaitShutdown BY <1>6 DEF AwaitShutdown, BoundInv, BoundReached, requestVars, workVars
<1>7. CASE StopWorker BY <1>7 DEF StopWorker, Ends, BoundInv, BoundReached
<1>8. CASE Crash BY <1>8 DEF Crash, Ends, BoundInv, BoundReached
<1>9. CASE Signal BY <1>9 DEF Signal, BoundInv, BoundReached, requestVars, workVars
<1>10. CASE AgentFails BY <1>10 DEF AgentFails, BoundInv, BoundReached, requestVars, workVars
<1>11. CASE AgentStops BY <1>11 DEF AgentStops, BoundInv, BoundReached, requestVars, workVars
<1>12. CASE Select BY <1>12 DEF Select, BoundInv, BoundReached, requestVars, workVars
<1>13. CASE Drained BY <1>13 DEF Drained, BoundInv, BoundReached, requestVars, workVars
<1>14. ASSUME NEW r \in Requests, Request(r) PROVE BoundInv'
  <2>1. CASE Send(r) BY <1>14, <2>1 DEF Send, BoundInv, BoundReached, HonestInv, Untouched, TypeInv, TypeOK, RequestTypeOK, processVars, workVars
  <2>2. CASE Leave(r) BY <1>14, <2>2 DEF Leave, BoundInv, BoundReached, TypeInv, TypeOK, RequestTypeOK, processVars, workVars
  <2>3. CASE Answered(r) BY <1>14, <2>3 DEF Answered, BoundInv, BoundReached, TypeInv, TypeOK, RequestTypeOK, processVars, workVars
  <2>4. CASE Accept(r) \/ ReadRequest(r) BY <1>14, <2>4 DEF Accept, ReadRequest, Drops, BoundInv, BoundReached, TypeInv, TypeOK, RequestTypeOK, processVars, workVars
  <2>5. CASE Admit(r) BY <1>14, <2>5 DEF Admit, Writes, IdentityMatches, BoundInv, BoundReached, TypeInv, TypeOK, RequestTypeOK, processVars, workVars
  <2>6. CASE Forward(r) BY <1>14, <2>6 DEF Forward, Writes, BoundInv, BoundReached, TypeInv, TypeOK, RequestTypeOK, processVars, workVars
  <2>7. CASE Finish(r) BY <1>14, <2>7 DEF Finish, Completes, Writes, BoundInv, BoundReached, TypeInv, TypeOK, RequestTypeOK, processVars, workVars
  <2> QED BY <1>14, <2>1, <2>2, <2>3, <2>4, <2>5, <2>6, <2>7 DEF Request
<1>15. ASSUME NEW p \in pending, Settle(p) PROVE BoundInv' BY <1>15 DEF Settle, BoundInv, BoundReached, processVars, requestVars
<1>16. CASE UNCHANGED vars BY <1>16 DEF vars, processVars, requestVars, workVars, BoundInv, BoundReached
<1> QED
  BY <1>1, <1>2, <1>3, <1>4, <1>5, <1>6, <1>7, <1>8, <1>9, <1>10, <1>11, <1>12,
     <1>13, <1>14, <1>15, <1>16 DEF Next, Run

\* A bound request is executed by the instance it is bound to, whatever process
\* has taken over the endpoint (validateExpectedWorkerIdentity).
THEOREM InstanceReached == Spec => []BoundReached
<1>1. Init => HonestInv /\ BoundInv
  BY DEF Init, HonestInv, Untouched, Justified, Running, BoundInv, BoundReached
<1>2. TypeInv /\ HonestInv /\ BoundInv /\ [Next]_vars => HonestInv' /\ BoundInv'
  BY HonestKept, BoundKept
<1>3. BoundInv => BoundReached
  BY DEF BoundInv
<1> QED BY <1>1, <1>2, <1>3, TypeInvariant, PTL DEF Spec

----------------------------------------------------------------------------
\* The end of the daemon

\* What the goroutines have done at each point of run: the server that shuts down
\* no longer listens, it shuts down before Serve returns without an error, and
\* the agent has ended before run awaits the server.
ServerShutDown == shutdown \in {"draining", "drained", "abandoned"}

OrderInv ==
    /\ main \in Serving => agent # "joining"
    /\ main \in {"awaiting", "stopping"} => agent \notin {"joining", "running"}
    /\ ServerShutDown => ~listening
    /\ main = "serving" /\ ~listening => ServerShutDown
    /\ main \in {"leaving", "awaiting"} /\ ~serveErr => ServerShutDown
    /\ shutdown = "drained" /\ main # "exited" => \A r \in Requests : handler[r] \notin Running
    /\ main = "joining" => listening /\ failure = "none" /\ ~ServerShutDown
    /\ StopsInOrder
    /\ EvictionReported

\* Every step of the goroutines keeps their order.
LEMMA OrderKept ==
    ASSUME TypeInv, OrderInv, [Next]_vars PROVE OrderInv'
<1> USE DEF OrderInv, ServerShutDown, StopsInOrder, EvictionReported, Serving, Running
<1>1. CASE Begin BY <1>1 DEF Begin, requestVars
<1>2. CASE Join BY <1>2 DEF Join, requestVars
<1>3. CASE JoinFails BY <1>3 DEF JoinFails, TypeInv, HandlersServed, requestVars
<1>4. CASE ServeReturns BY <1>4 DEF ServeReturns, requestVars
<1>5. CASE AwaitAgent BY <1>5 DEF AwaitAgent, requestVars
<1>6. CASE AwaitShutdown BY <1>6 DEF AwaitShutdown, ShutdownComplete, FailureOfAgent, TypeInv, TypeOK, ProcessTypeOK, requestVars
<1>7. CASE StopWorker BY <1>7 DEF StopWorker, Ends, requestVars
<1>8. CASE Crash BY <1>8 DEF Crash, Ends, requestVars
<1>9. CASE Signal BY <1>9 DEF Signal, requestVars
<1>10. CASE AgentFails BY <1>10 DEF AgentFails, requestVars
<1>11. CASE AgentStops BY <1>11 DEF AgentStops, requestVars
<1>12. CASE Select BY <1>12 DEF Select, BeginsShutdown, ServerStopped, requestVars
<1>13. CASE Drained BY <1>13 DEF Drained, requestVars
<1>14. ASSUME NEW r \in Requests, Request(r) PROVE OrderInv'
  <2>1. CASE Send(r) BY <1>14, <2>1 DEF Send, TypeInv, TypeOK, RequestTypeOK, processVars
  <2>2. CASE Leave(r) BY <1>14, <2>2 DEF Leave, TypeInv, TypeOK, RequestTypeOK, processVars
  <2>3. CASE Answered(r) BY <1>14, <2>3 DEF Answered, TypeInv, TypeOK, RequestTypeOK, processVars
  <2>4. CASE Accept(r) \/ ReadRequest(r) BY <1>14, <2>4 DEF Accept, ReadRequest, Drops, TypeInv, TypeOK, RequestTypeOK, processVars
  <2>5. CASE Admit(r) BY <1>14, <2>5 DEF Admit, Writes, TypeInv, TypeOK, RequestTypeOK, processVars
  <2>6. CASE Forward(r) BY <1>14, <2>6 DEF Forward, Writes, TypeInv, TypeOK, RequestTypeOK, processVars
  <2>7. CASE Finish(r) BY <1>14, <2>7 DEF Finish, Completes, Writes, TypeInv, TypeOK, RequestTypeOK
  <2> QED BY <1>14, <2>1, <2>2, <2>3, <2>4, <2>5, <2>6, <2>7 DEF Request
<1>15. ASSUME NEW p \in pending, Settle(p) PROVE OrderInv' BY <1>15 DEF Settle, processVars, requestVars
<1>16. CASE UNCHANGED vars BY <1>16 DEF vars, processVars, requestVars
<1> QED
  BY <1>1, <1>2, <1>3, <1>4, <1>5, <1>6, <1>7, <1>8, <1>9, <1>10, <1>11, <1>12,
     <1>13, <1>14, <1>15, <1>16 DEF Next, Run

LEMMA OrderInvariant == Spec => []OrderInv
<1>1. Init => OrderInv
  BY DEF Init, OrderInv, ServerShutDown, StopsInOrder, EvictionReported, Serving, Running
<1>2. TypeInv /\ OrderInv /\ [Next]_vars => OrderInv'
  BY OrderKept
<1> QED BY <1>1, <1>2, TypeInvariant, PTL DEF Spec

\* The worker outlives the agent and the accepted requests, unless the grace
\* period ended or the listener failed (run).
THEOREM DaemonEndsInOrder == Spec => []StopsInOrder
<1>1. OrderInv => StopsInOrder
  BY DEF OrderInv
<1> QED BY <1>1, OrderInvariant, PTL

\* The error of an agent that was evicted is never lost, whichever goroutine
\* ended the daemon (run).
THEOREM EvictionNeverLost == Spec => []EvictionReported
<1>1. OrderInv => EvictionReported
  BY DEF OrderInv
<1> QED BY <1>1, OrderInvariant, PTL

=============================================================================

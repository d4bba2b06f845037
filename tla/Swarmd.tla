-------------------------------- MODULE Swarmd --------------------------------
(***************************************************************************)
(* The worker daemon (src/cmd/swarmd/main.go) as a server at one endpoint, *)
(* and the HTTP clients of its worker (workerproc/persistent_http.go).     *)
(*                                                                         *)
(* run starts the worker and joins the mesh, then serves until one of its  *)
(* goroutines ends it: a signal, a one-shot request, the membership agent  *)
(* or the listener.  Requests are forwarded to the worker by handlers of   *)
(* their own.  A process may die at any time; the next one at the endpoint *)
(* is another instance.  Clients bind a request to the instance they were  *)
(* told of, may give up, and tell a rejection by the worker from a failure *)
(* by what comes back.                                                     *)
(*                                                                         *)
(* The supervisor below a handler is abstract here: a call is executed,    *)
(* refused, or fails, and may then still be executed later                 *)
(* (PersistentSupervisor).                                                 *)
(***************************************************************************)
EXTENDS Integers, FiniteSets

CONSTANTS
    Requests,      \* requests of clients to the endpoint, each sent once
    Shutdowns,     \* those that ask the worker to shut down
    OneShots,      \* those that end a one-shot daemon when they are answered
    MaxInstances   \* bound: processes started at the endpoint

ASSUME SwarmdAssumption ==
    /\ Shutdowns \subseteq Requests /\ OneShots \subseteq Requests
    /\ Shutdowns \cap OneShots = {}
    /\ MaxInstances \in Nat

VARIABLES
    instance,    \* the process at the endpoint, counted from 1
    main,        \* where run is
    shutdown,    \* where the goroutine is that shuts the server down
    agent,       \* the membership agent
    failure,     \* the error of the agent: none, sent on its channel, or received
    listening,   \* the listener is open
    signalled,   \* a signal arrived
    oneShot,     \* a one-shot request was answered
    serveErr,    \* Serve ended by itself
    exit,        \* what run returns
    registered,  \* instances that were announced to the mesh
    bound,       \* [request]: the instance it is bound to
    handler,     \* [request]: where its connection is
    response,    \* [request]: what its handler writes
    result,      \* [request]: what its client returns
    executed,    \* requests executed, each with the instance of its worker
    pending      \* those that failed and may still be executed

processVars == <<instance, main, shutdown, agent, failure, listening, signalled,
                 oneShot, serveErr, exit, registered>>
requestVars == <<bound, handler, response, result>>
workVars == <<executed, pending>>
vars == <<processVars, requestVars, workVars>>

Instances == 1..MaxInstances
Unbound == 0
Serving == {"serving", "leaving", "awaiting"}
Running == {"accepted", "active", "forwarding", "answering"}

\* A body is decoded into the fields of a response: whether the status is one
\* of success, and whether it names a request, carries an error, and is OK.
Body == [success : BOOLEAN, id : BOOLEAN, error : BOOLEAN, ok : BOOLEAN]

\* The worker's own answers, under the caller's request ID.
SuccessBody == [success |-> TRUE, id |-> TRUE, error |-> FALSE, ok |-> TRUE]
RejectionBody == [success |-> FALSE, id |-> TRUE, error |-> TRUE, ok |-> FALSE]

\* writeError: the body is an error and nothing else.
ErrorBody == [success |-> FALSE, id |-> FALSE, error |-> TRUE, ok |-> FALSE]

Init ==
    /\ instance = 0 /\ main = "exited" /\ shutdown = "select" /\ agent = "off"
    /\ failure = "none" /\ exit = "none" /\ registered = {}
    /\ listening = FALSE /\ signalled = FALSE /\ oneShot = FALSE /\ serveErr = FALSE
    /\ bound = [r \in Requests |-> Unbound]
    /\ handler = [r \in Requests |-> "idle"]
    /\ response = [r \in Requests |-> ErrorBody]
    /\ result = [r \in Requests |-> "none"]
    /\ executed = {} /\ pending = {}

----------------------------------------------------------------------------
\* run

\* The listener is bound before anything else; the worker starts healthy.
Begin ==
    /\ main = "exited" /\ instance < MaxInstances
    /\ instance' = instance + 1 /\ main' = "joining" /\ shutdown' = "select"
    /\ agent' \in {"off", "joining"}
    /\ failure' = "none" /\ listening' = TRUE /\ signalled' = FALSE
    /\ oneShot' = FALSE /\ serveErr' = FALSE /\ exit' = "none"
    /\ UNCHANGED <<registered, requestVars, workVars>>

Join ==
    /\ main = "joining" /\ main' = "serving"
    /\ \/ agent = "off" /\ UNCHANGED <<agent, registered>>
       \/ /\ agent = "joining" /\ agent' = "running"
          /\ registered' = registered \union {instance}
    /\ UNCHANGED <<instance, shutdown, failure, listening, signalled, oneShot,
                   serveErr, exit, requestVars, workVars>>

\* The controller may have registered the worker although its answer is lost.
JoinFails ==
    /\ main = "joining" /\ agent = "joining"
    /\ main' = "stopping" /\ agent' = "off" /\ exit' = "join"
    /\ registered' \in {registered, registered \union {instance}}
    /\ UNCHANGED <<instance, shutdown, failure, listening, signalled, oneShot,
                   serveErr, requestVars, workVars>>

\* Serve returns when the server is shut down, which closes its listener, or by
\* itself.
ServeReturns ==
    /\ main = "serving" /\ main' = "leaving"
    /\ serveErr' = listening /\ listening' = FALSE
    /\ UNCHANGED <<instance, shutdown, agent, failure, signalled, oneShot, exit,
                   registered, requestVars, workVars>>

AwaitAgent ==
    /\ main = "leaving" /\ agent # "running"
    /\ main' = "awaiting"
    /\ UNCHANGED <<instance, shutdown, agent, failure, listening, signalled,
                   oneShot, serveErr, exit, registered, requestVars, workVars>>

\* Only the error the other goroutine received.
FailureReceived == failure = "received"

\* An error of the agent that the other goroutine did not receive is still in
\* its channel.
FailureOfAgent == failure \in {"sent", "received"}

\* The goroutine is not awaited.
ShutdownBegun == shutdown # "select"

\* The goroutine that shuts the server down is awaited.
ShutdownComplete == shutdown \in {"drained", "abandoned", "skipped"}

AwaitShutdown ==
    /\ main = "awaiting" /\ ShutdownComplete
    /\ main' = "stopping"
    /\ exit' = IF FailureOfAgent THEN "membership"
               ELSE IF serveErr THEN "serve" ELSE "ok"
    /\ UNCHANGED <<instance, shutdown, agent, failure, listening, signalled,
                   oneShot, serveErr, registered, requestVars, workVars>>

\* The process is gone and its connections with it.
Ends ==
    /\ main' = "exited" /\ agent' = "off" /\ listening' = FALSE
    /\ handler' = [r \in Requests |-> IF handler[r] = "idle" THEN "idle" ELSE "ended"]
    /\ result' = [r \in Requests |->
                    IF handler[r] # "idle" /\ result[r] = "none" THEN "failed" ELSE result[r]]
    /\ UNCHANGED <<instance, shutdown, failure, signalled, oneShot, serveErr, exit,
                   registered, bound, response, executed>>

\* shutdownPersistentWorker: the worker acknowledges or is killed, unless the
\* kill fails too.
StopWorker ==
    /\ main = "stopping" /\ Ends
    /\ pending' \in {pending, {p \in pending : p[2] # instance}}

\* A worker whose process died finishes what it was told.
Crash == main # "exited" /\ Ends /\ UNCHANGED pending

----------------------------------------------------------------------------
\* The other goroutines

Signal ==
    /\ main \in Serving /\ ~signalled /\ signalled' = TRUE
    /\ UNCHANGED <<instance, main, shutdown, agent, failure, listening, oneShot,
                   serveErr, exit, registered, requestVars, workVars>>

\* Run of the agent ends when it was evicted, or when it is cancelled.
AgentFails ==
    /\ main \in Serving /\ agent = "running"
    /\ agent' = "stopped" /\ failure' = "sent"
    /\ UNCHANGED <<instance, main, shutdown, listening, signalled, oneShot, serveErr,
                   exit, registered, requestVars, workVars>>

AgentStops ==
    /\ main \in Serving \ {"serving"} /\ agent = "running" /\ agent' = "stopped"
    /\ UNCHANGED <<instance, main, shutdown, failure, listening, signalled, oneShot,
                   serveErr, exit, registered, requestVars, workVars>>

\* server.Shutdown closes the listener and waits for the handlers.
BeginsShutdown == shutdown' = "draining" /\ listening' = FALSE

\* The goroutine does not look whether Serve has returned.
ServerNeverStops == FALSE

ServerStopped == main \in {"leaving", "awaiting"}

Select ==
    /\ main \in Serving /\ shutdown = "select"
    /\ \/ (signalled \/ oneShot) /\ BeginsShutdown /\ UNCHANGED failure
       \/ failure = "sent" /\ failure' = "received" /\ BeginsShutdown
       \/ ServerStopped /\ shutdown' = "skipped" /\ UNCHANGED <<failure, listening>>
    /\ UNCHANGED <<instance, main, agent, signalled, oneShot, serveErr, exit,
                   registered, requestVars, workVars>>

\* Shutdown returns when no handler is running, or after its grace period.
Drained ==
    /\ main \in Serving /\ shutdown = "draining"
    /\ \/ shutdown' = "drained" /\ \A r \in Requests : handler[r] \notin Running
       \/ shutdown' = "abandoned"
    /\ UNCHANGED <<instance, main, agent, failure, listening, signalled, oneShot,
                   serveErr, exit, registered, requestVars, workVars>>

----------------------------------------------------------------------------
\* HTTPPersistentClient.Call

\* A client is made for an instance it knows of the mesh, or for none.
Send(r) ==
    /\ handler[r] = "idle"
    /\ \E i \in registered \union {Unbound} : bound' = [bound EXCEPT ![r] = i]
    /\ \/ listening /\ handler' = [handler EXCEPT ![r] = "dialed"] /\ UNCHANGED result
       \/ /\ handler' = [handler EXCEPT ![r] = "ended"]
          /\ result' = [result EXCEPT ![r] = "failed"]
    /\ UNCHANGED <<processVars, response, workVars>>

Leave(r) ==
    /\ handler[r] # "idle" /\ result[r] = "none"
    /\ result' = [result EXCEPT ![r] = "failed"]
    /\ UNCHANGED <<processVars, bound, handler, response, workVars>>

\* The worker rejected a request if the body says so of a request; every other
\* answer without success is a failure of the call.
Returned(body) ==
    IF ~body.success /\ ~(body.error /\ body.id) THEN "failed"
    ELSE IF body.ok THEN "ok" ELSE "rejected"

\* The answer arrives, or the connection fails before.
Answered(r) ==
    /\ handler[r] = "answering"
    /\ handler' = [handler EXCEPT ![r] = "ended"]
    /\ result' = [result EXCEPT ![r] =
                    IF @ # "none" THEN @ ELSE Returned(response[r])]
    /\ UNCHANGED <<processVars, bound, response, workVars>>

----------------------------------------------------------------------------
\* Handlers

\* The connection is closed before its request is read.
Drops(r) ==
    /\ handler' = [handler EXCEPT ![r] = "ended"]
    /\ result' = [result EXCEPT ![r] = IF @ = "none" THEN "failed" ELSE @]

\* Connections wait for Serve, and are reset with the listener.
Accept(r) ==
    /\ handler[r] = "dialed"
    /\ \/ /\ main = "serving" /\ listening
          /\ handler' = [handler EXCEPT ![r] = "accepted"] /\ UNCHANGED result
       \/ ~listening /\ Drops(r)
    /\ UNCHANGED <<processVars, bound, response, workVars>>

\* The request on an accepted connection is served also when the listener is
\* closed by then; Shutdown closes a connection whose request does not arrive.
ReadRequest(r) ==
    /\ handler[r] = "accepted"
    /\ \/ handler' = [handler EXCEPT ![r] = "active"] /\ UNCHANGED result
       \/ shutdown = "draining" /\ Drops(r)
    /\ UNCHANGED <<processVars, bound, response, workVars>>

\* A daemon outside the mesh has no identity to compare.
IdentityMatchesIfMember(r) == bound[r] = Unbound \/ agent = "off" \/ bound[r] = instance

\* validateExpectedWorkerIdentity
IdentityMatches(r) == bound[r] = Unbound \/ (agent # "off" /\ bound[r] = instance)

Writes(r, body) ==
    /\ handler' = [handler EXCEPT ![r] = "answering"]
    /\ response' = [response EXCEPT ![r] = body]
    /\ UNCHANGED <<bound, result>>

\* A body that cannot be read or whose deadline is over is answered with an
\* error, like a request that is not let in.
Admit(r) ==
    /\ handler[r] = "active" /\ r \notin OneShots
    /\ \/ /\ IdentityMatches(r) /\ r \notin Shutdowns
          /\ handler' = [handler EXCEPT ![r] = "forwarding"]
          /\ UNCHANGED <<bound, response, result>>
       \/ Writes(r, ErrorBody)
    /\ UNCHANGED <<processVars, workVars>>

\* An error body names the request too.
WrittenWithID(outcome) ==
    IF outcome = "executed" THEN SuccessBody
    ELSE IF outcome = "refused" THEN RejectionBody ELSE [ErrorBody EXCEPT !.id = TRUE]

\* writePersistentResponse of what the call came to.
Written(outcome) ==
    IF outcome = "executed" THEN SuccessBody
    ELSE IF outcome = "refused" THEN RejectionBody ELSE ErrorBody

\* forwardPersistentRequest: a call without an answer may leave its request with
\* the worker.
Forward(r) ==
    /\ handler[r] = "forwarding"
    /\ \E outcome \in {"executed", "refused", "failed"} :
         /\ Writes(r, Written(outcome))
         /\ executed' = IF outcome = "executed"
                        THEN executed \union {<<r, instance>>} ELSE executed
         /\ \/ UNCHANGED pending
            \/ outcome = "failed" /\ pending' = pending \union {<<r, instance>>}
    /\ UNCHANGED processVars

\* The token is sent before the handler returns and its answer with it; a token
\* that is not received yet is enough (debugCompleteHandler).
Completes(r) == Writes(r, SuccessBody) /\ oneShot' = TRUE

\* finishShard, which runs a worker of its own, and debugCompleteHandler.
Finish(r) ==
    /\ handler[r] = "active" /\ r \in OneShots
    /\ \/ Completes(r)
       \/ Writes(r, ErrorBody) /\ UNCHANGED oneShot
    /\ UNCHANGED <<instance, main, shutdown, agent, failure, listening, signalled,
                   serveErr, exit, registered, workVars>>

\* The worker executes what it was told, or never gets to it.
Settle(p) ==
    /\ pending' = pending \ {p}
    /\ executed' \in {executed, executed \union {p}}
    /\ UNCHANGED <<processVars, requestVars>>

----------------------------------------------------------------------------

Run == Join \/ JoinFails \/ ServeReturns \/ AwaitAgent \/ AwaitShutdown \/ StopWorker

Request(r) ==
    \/ Send(r) \/ Leave(r) \/ Answered(r)
    \/ Accept(r) \/ ReadRequest(r) \/ Admit(r) \/ Forward(r) \/ Finish(r)

Next ==
    \/ Begin \/ Run \/ Crash \/ Signal \/ AgentFails \/ AgentStops \/ Select \/ Drained
    \/ \E r \in Requests : Request(r)
    \/ \E p \in pending : Settle(p)

Spec == Init /\ [][Next]_vars

\* What run does after Serve has returned takes its next step when it can; the
\* agent ends when it is cancelled, and the server when its grace period is over.
Fairness ==
    /\ WF_vars(AwaitAgent) /\ WF_vars(AwaitShutdown) /\ WF_vars(StopWorker)
    /\ WF_vars(main = "serving" /\ ~listening /\ ServeReturns)
    /\ WF_vars(AgentStops) /\ WF_vars(Select) /\ WF_vars(Drained)

FairSpec == Spec /\ Fairness

----------------------------------------------------------------------------
\* Properties

ProcessTypeOK ==
    /\ instance \in 0..MaxInstances /\ (main # "exited" => instance \in Instances)
    /\ main \in {"exited", "joining", "serving", "leaving", "awaiting", "stopping"}
    /\ shutdown \in {"select", "draining", "drained", "abandoned", "skipped"}
    /\ agent \in {"off", "joining", "running", "stopped"}
    /\ failure \in {"none", "sent", "received"}
    /\ exit \in {"none", "join", "membership", "serve", "ok"}
    /\ registered \subseteq Instances

FlagTypeOK ==
    /\ listening \in BOOLEAN /\ signalled \in BOOLEAN
    /\ oneShot \in BOOLEAN /\ serveErr \in BOOLEAN

RequestTypeOK ==
    /\ bound \in [Requests -> Instances \union {Unbound}]
    /\ handler \in [Requests -> {"idle", "dialed", "ended"} \union Running]
    /\ response \in [Requests -> Body]
    /\ result \in [Requests -> {"none", "ok", "rejected", "failed"}]

WorkTypeOK ==
    /\ executed \subseteq Requests \X Instances
    /\ pending \subseteq Requests \X Instances

TypeOK == ProcessTypeOK /\ FlagTypeOK /\ RequestTypeOK /\ WorkTypeOK

\* What a client is told decides what it does next: a rejection means that the
\* worker has not executed the request and never will, so nothing is left to
\* clean up, and success means that it has (OpenSequences, closeSequence and
\* ensureShard rely on it across the proxy).
AnswersHonest ==
    \A r \in Requests \ OneShots :
       /\ result[r] = "rejected" => \A i \in Instances : <<r, i>> \notin executed \union pending
       /\ result[r] = "ok" => \E i \in Instances : <<r, i>> \in executed

\* A request bound to an instance is executed by the worker of that process and
\* of no other, also when another process has taken over the endpoint, and one
\* outside the mesh at that (validateExpectedWorkerIdentity).
BoundReached ==
    \A r \in Requests, i \in Instances :
       <<r, i>> \in executed \union pending => bound[r] \in {Unbound, i}

\* The worker is told to stop only after the agent has left the mesh, and after
\* every accepted request was answered, unless the grace period ended or the
\* listener failed (run awaits both goroutines).
StopsInOrder ==
    main = "stopping" =>
       /\ agent \notin {"joining", "running"}
       /\ shutdown = "abandoned" \/ serveErr \/ \A r \in Requests : handler[r] \notin Running

\* An agent that was evicted makes the daemon return its error, whichever of the
\* goroutines ended the daemon.
EvictionReported == main = "stopping" /\ failure # "none" => exit = "membership"

\* Whatever asks the daemon to stop, it ends: no goroutine waits for another
\* that waits for it.
StopsWhenAsked ==
    main \in Serving /\ (signalled \/ oneShot \/ failure # "none" \/ serveErr)
        ~> main = "exited"
=============================================================================

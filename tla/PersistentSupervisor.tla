------------------------ MODULE PersistentSupervisor ------------------------
(***************************************************************************)
(* The supervisor of a worker (src/internal/workerproc/supervisor.go) and  *)
(* its owner swarmd: one call at a time passes a gate, a call that fails   *)
(* with the worker replaces it before it returns, and a shutdown closes    *)
(* the supervisor, or is followed by a kill that does not wait its turn.   *)
(*                                                                         *)
(* Every call is waiting for the gate from the start: a call not yet made  *)
(* differs from one that waits by nothing the supervisor looks at.         *)
(***************************************************************************)
EXTENDS PersistentClient

VARIABLES
    gate,      \* the call that holds callGate, or Nobody
    client,    \* PersistentSupervisor.client
    closed,    \* PersistentSupervisor.closed
    observed,  \* PersistentSupervisor.observationSequence
    stage,     \* where a call stands in PersistentSupervisor.Call or Shutdown
    outcome,   \* how it returned
    sequence   \* the WorkerObservationSequence of its response, or 0

supervisorVars == <<gate, client, closed, observed, stage, outcome, sequence>>
vars == <<workerVars, supervisorVars>>

Stages == {"queued", "calling", "reaping", "replaced", "retrying", "returned", "killed"}
Outcomes == Results \cup {"turned_away", "stopped", "unreplaced"}

\* A call the supervisor has not returned is told from every way of returning.
ASSUME OutcomeAssumption == Nobody \notin Outcomes

TypeOK ==
    /\ ClientTypeOK
    /\ gate \in Calls \cup {Nobody}
    /\ client \in Clients
    /\ closed \in BOOLEAN
    /\ observed \in Nat
    /\ stage \in [Calls -> Stages]
    /\ outcome \in [Calls -> Outcomes \cup {Nobody}]
    /\ sequence \in [Calls -> Nat]

Init ==
    /\ ClientInit
    /\ gate = Nobody
    /\ client = 1
    /\ closed = FALSE
    /\ observed = 0
    /\ stage = [c \in Calls |-> "queued"]
    /\ outcome = [c \in Calls |-> Nobody]
    /\ sequence = [c \in Calls |-> 0]

-----------------------------------------------------------------------------
Moves(c, to) == stage' = [stage EXCEPT ![c] = to]

\* The call returns; releaseCall is deferred.
Returns(c, how) ==
    /\ Moves(c, "returned")
    /\ outcome' = [outcome EXCEPT ![c] = how]
    /\ gate' = Nobody

\* The context ends before the gate is passed, or is found ended behind it.
TurnedAway(c) ==
    /\ stage[c] = "queued" /\ ~Live(c)
    /\ Moves(c, "returned")
    /\ outcome' = [outcome EXCEPT ![c] = "turned_away"]
    /\ UNCHANGED <<workerVars, gate, client, closed, observed, sequence>>

\* Slip: a probe does not wait for the gate.
AcquireUngated(c) ==
    /\ stage[c] = "queued" /\ (gate = Nobody \/ c \in Probes)
    /\ \/ /\ closed
          /\ Returns(c, IF c \in Stops THEN "ok" ELSE "stopped")
          /\ UNCHANGED workerVars
       \/ /\ ~closed
          /\ Register(c, client)
          /\ gate' = c
          /\ Moves(c, "calling")
          /\ UNCHANGED outcome
    /\ UNCHANGED <<client, closed, observed, sequence>>

\* The gate is passed, and the call made on the current client.
Acquire(c) ==
    /\ stage[c] = "queued" /\ gate = Nobody
    /\ \/ /\ closed
          /\ Returns(c, IF c \in Stops THEN "ok" ELSE "stopped")
          /\ UNCHANGED workerVars
       \/ /\ ~closed
          /\ Register(c, client)
          /\ gate' = c
          /\ Moves(c, "calling")
          /\ UNCHANGED outcome
    /\ UNCHANGED <<client, closed, observed, sequence>>

\* Slip: also a call that was not dispatched takes the worker with it.
WorkerSuspectBlind(c) ==
    /\ c \notin Stops
    /\ result[c] \notin {"ok", "rejected"}
    /\ result[c] = "canceled" => c \in Inferences

\* The worker is suspect: not if it answered, was not asked, or if its caller
\* only lost interest in something other than an inference.
WorkerSuspect(c) ==
    /\ c \notin Stops
    /\ result[c] \notin {"ok", "rejected", "not_dispatched"}
    /\ result[c] = "canceled" => c \in Inferences

\* A shutdown that was answered, and whose process exited, closes the supervisor.
Closes(c) == c \in Stops /\ result[c] = "ok"

\* The client returned: with a response, which is numbered, or with an error
\* that leaves the worker in place.  A second failure is not examined.
Return(c) ==
    /\ stage[c] \in {"calling", "retrying"} /\ at[c] = "ended"
    /\ stage[c] = "calling" => ~WorkerSuspect(c)
    /\ Returns(c, result[c])
    /\ closed' = (closed \/ Closes(c))
    /\ IF result[c] = "ok" /\ c \notin Stops
       THEN /\ observed' = observed + 1
            /\ sequence' = [sequence EXCEPT ![c] = observed + 1]
       ELSE UNCHANGED <<observed, sequence>>
    /\ UNCHANGED <<workerVars, client>>

\* restart kills the worker.  Its tests of closed and of the client find neither
\* changed: both change behind the gate only.
KillWorker(c) ==
    /\ stage[c] = "calling" /\ at[c] = "ended" /\ WorkerSuspect(c)
    /\ Kills(on[c])
    /\ Moves(c, "reaping")
    /\ UNCHANGED <<stdin, working, stdout, clientVars, callVars, executed,
                   gate, client, closed, observed, outcome, sequence>>

\* Slip: the end of the worker is awaited for as long as it takes.
ReplaceUntimed(c) ==
    /\ stage[c] = "reaping" /\ done[on[c]]
    /\ \/ /\ client + 1 \in Clients
          /\ client' = client + 1
          /\ process' = [process EXCEPT ![client + 1] = "running"]
          /\ Moves(c, "replaced")
          /\ UNCHANGED <<gate, outcome>>
       \/ Returns(c, "unreplaced") /\ UNCHANGED <<process, client>>
    /\ UNCHANGED <<stdin, working, stdout, clientVars, callVars, executed,
                   closed, observed, sequence>>

\* ... waits for the client to finish, with its process or without, and starts
\* another.  Both may fail: the wait is limited.
Replace(c) ==
    /\ stage[c] = "reaping"
    /\ \/ /\ done[on[c]] /\ client + 1 \in Clients
          /\ client' = client + 1
          /\ process' = [process EXCEPT ![client + 1] = "running"]
          /\ Moves(c, "replaced")
          /\ UNCHANGED <<gate, outcome>>
       \/ Returns(c, "unreplaced") /\ UNCHANGED <<process, client>>
    /\ UNCHANGED <<stdin, working, stdout, clientVars, callVars, executed,
                   closed, observed, sequence>>

\* Slip: any call is made once more on the new client.
RetryAny(c) ==
    /\ stage[c] = "replaced"
    /\ \/ /\ Live(c)
          /\ Register(c, client)
          /\ Moves(c, "retrying")
          /\ UNCHANGED <<gate, outcome>>
       \/ ~Live(c) /\ Returns(c, result[c]) /\ UNCHANGED workerVars
    /\ UNCHANGED <<client, closed, observed, sequence>>

\* A probe is made once more on the new client; any other call returns its error.
Retry(c) ==
    /\ stage[c] = "replaced"
    /\ \/ /\ c \in Probes /\ Live(c)
          /\ Register(c, client)
          /\ Moves(c, "retrying")
          /\ UNCHANGED <<gate, outcome>>
       \/ /\ c \notin Probes \/ ~Live(c)
          /\ Returns(c, result[c])
          /\ UNCHANGED workerVars
    /\ UNCHANGED <<client, closed, observed, sequence>>

\* swarmd kills the worker after a shutdown that failed, whoever holds the gate.
KillFallback(c) ==
    /\ c \in Stops /\ stage[c] = "returned" /\ outcome[c] # "ok"
    /\ Kills(client)
    /\ Moves(c, "killed")
    /\ UNCHANGED <<stdin, working, stdout, clientVars, callVars, executed,
                   gate, client, closed, observed, outcome, sequence>>

-----------------------------------------------------------------------------
SupervisorStep(c) ==
    TurnedAway(c) \/ Acquire(c) \/ Return(c) \/ KillWorker(c) \/ Replace(c) \/ Retry(c)

Next ==
    \/ Machine /\ UNCHANGED supervisorVars
    \/ \E c \in Calls :
         \/ CallStep(c) /\ UNCHANGED supervisorVars
         \/ stage[c] # "returned" /\ ContextEnds(c) /\ UNCHANGED supervisorVars
         \/ SupervisorStep(c)
         \/ KillFallback(c)

Spec == Init /\ [][Next]_vars

\* Steps that goroutines, and processes that neither hang nor died, take by
\* themselves.
Progress ==
    \/ /\ \/ \E g \in Clients : Reader(g) \/ Writer(g) \/ Process(g)
          \/ \E c \in Calls : CallStep(c)
       /\ UNCHANGED supervisorVars
    \/ \E c \in Calls : SupervisorStep(c)

\* Some step is taken as long as one can be.  That is all the fairness there is:
\* calls are finitely many, so that these steps come to an end.  Nothing is
\* assumed of contexts.
FairSpec == Spec /\ WF_vars(Progress)

-----------------------------------------------------------------------------
\* Mutating requests are never retried, and a probe once (supervisor.go:16-18):
\* no command reaches a worker more often, whatever became of its first process.
AtMostOnce ==
    \A c \in Calls : Executions(c) <= IF c \in Probes THEN 2 ELSE 1

\* A call that was turned away, refused or not dispatched never reaches a worker:
\* its caller may make it again elsewhere.
RefusedMeansNever ==
    \A c \in Calls \ Probes :
      outcome[c] \in {"turned_away", "stopped", "not_dispatched"} => Unsent(c)

RunOf(c) == [on |-> on[c], call |-> c]

\* The numbers of two responses tell the order in which they were executed:
\* what the mesh scheduler takes as proof that a snapshot is younger than a
\* change (scheduler.go:84, state.go:27-28), although a worker that was given up
\* may still execute what it was told.
ObservationsOrdered ==
    \A c, d \in Calls : sequence[c] # 0 /\ sequence[c] < sequence[d] =>
      \E m, n \in DOMAIN executed :
        /\ m < n /\ executed[m] = RunOf(c) /\ executed[n] = RunOf(d)
        /\ \A k \in DOMAIN executed : executed[k] \in {RunOf(c), RunOf(d)} => k \in {m, n}

\* A worker that serves is killed for a call it was given, never for one that the
\* writer had not taken up: a caller without patience cannot cost others the worker.
KilledForItsCalls ==
    [][\A c \in Calls : stage[c] = "calling" /\ stage'[c] = "reaping" /\ Serving(on[c])
         => written[on[c]][c] \in {"started", "ok"}]_vars

\* A caller that gives up is released, wherever it is: in the queue, at the worker,
\* or while that worker is replaced, also when the worker survives being killed and
\* its client never finishes (supervisor.go:189-203).
CallersReleased ==
    \A c \in Impatient : ~Live(c) ~> stage[c] \in {"returned", "killed"}
=============================================================================

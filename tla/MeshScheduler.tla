---------------------------- MODULE MeshScheduler ----------------------------
(***************************************************************************)
(* mesh.SequenceScheduler (src/internal/mesh/scheduler.go) admitting       *)
(* sequences onto a live membership.  Three parties interleave:            *)
(*                                                                         *)
(*   - callers of Prepare, Generate and Close, each step between two lock  *)
(*     acquisitions or two calls to a worker being an action of its own;   *)
(*   - worker daemons (swarmd), whose gate orders the calls one worker     *)
(*     serves and numbers its state observations, and whose worker child   *)
(*     or whole process may restart;                                       *)
(*   - membership: the agent samples a status, delivers it later, and the  *)
(*     registry may lose the lease and see the worker register again.      *)
(*                                                                         *)
(* Only state calls are numbered: a minimum is compared with nothing else. *)
(***************************************************************************)
EXTENDS AdmissionLedger

CONSTANTS
    MaxPreparing,     \* how many callers may be between snapshot and admission
    MaxProbed,        \* bound: the agent probes while the count is below this
    Faults            \* what may go wrong in a run, a subset of FaultKinds

FaultKinds == {"timeout",        \* the preparation timeout expires
               "setupError",     \* a setup call fails or its answer is lost
               "openError",      \* the answer to an open is lost
               "cleanupError",   \* a close or a cleanup observation fails
               "lateDelivery",   \* an abandoned call reaches the worker later
               "workerRestart",  \* the daemon replaces its worker child
               "daemonRestart",  \* swarmd starts again under a new instance
               "leaseLoss"}      \* the registry drops the lease

ASSUME SchedulerAssumption ==
    /\ MaxPreparing \in Nat
    /\ MaxProbed \in Nat
    /\ MaxProbed + 2 * Cardinality(Sequences) + 1 < Unreconciled
    /\ Faults \subseteq FaultKinds

VARIABLES
    phase,            \* where the call of Prepare for a sequence stands
    view,             \* the inventory snapshot Prepare plans with
    stages,           \* its reservation: the stage placed on every worker
    done,             \* the stages the current phase has gone through
    outcome,          \* what the finished phases report to finish
    found,            \* stages whose incarnation the closing snapshot still lists
    daemon,           \* a worker daemon and its child
    inFlight,         \* abandoned calls that may still execute
    probing,          \* the agent's state probe in flight, or Absent
    cached,           \* the agent's registration.Status
    statusPending,    \* the agent's statusPending
    membership        \* the registry

sequenceVars == <<phase, view, stages, done, outcome, found>>
agentVars == <<probing, cached, statusPending, membership>>
vars == <<ledger, sequenceVars, daemon, inFlight, agentVars>>

\* A reservation exists from admission to the end of finishReservation.
Holding == {"setup", "observing", "prepared", "running", "closing", "cleaning",
            "finishing", "releasing"}
Phases == Holding \cup {"idle", "planning", "done"}

Outcome == [failed : BOOLEAN, mayHaveLoaded : BOOLEAN, cleanupConfirmed : BOOLEAN]

Daemon == [instance : Instances, obs : Observation, loaded : SUBSET Shards,
           open : [Shards -> SUBSET Sequences]]

\* A call addresses a shard of a worker and carries the bound instance.
Request == [call : {"load", "open", "close"}, owner : Sequences, worker : Workers,
            instance : Instances, shard : Shards]

NoStage == [shard |-> NoShard, instance |-> 1, loads |-> FALSE,
            setupObs |-> 0, present |-> FALSE, cleanupObs |-> 0, stillOpen |-> FALSE]

NothingOpen == [s \in Shards |-> {}]

EmptyView == [w \in Workers |-> Absent]

TypeOK ==
    /\ LedgerTypeOK
    /\ phase \in [Sequences -> Phases]
    /\ view \in [Sequences -> Inventory]
    /\ stages \in [Sequences -> [Workers -> Stage]]
    /\ done \in [Sequences -> SUBSET Workers]
    /\ outcome \in [Sequences -> Outcome]
    /\ found \in [Sequences -> SUBSET Workers]
    /\ daemon \in [Workers -> Daemon]
    /\ inFlight \subseteq Request
    /\ probing \in [Workers -> Status \cup {Absent}]
    /\ cached \in [Workers -> Status]
    /\ statusPending \in [Workers -> BOOLEAN]
    /\ membership \in Inventory

Fault(kind) == kind \in Faults

Sampled(d) == [obs |-> d.obs, loaded |-> d.loaded, open |-> d.open]

\* A state call leaves the gate with the next number.
Observe(w) == daemon' = [daemon EXCEPT ![w].obs = @ + 1]

\* A daemon joins with the state its agent sampled before registering.
NewDaemon(i) == [instance |-> i, obs |-> 1, loaded |-> {}, open |-> NothingOpen]
Join(d) == [instance |-> d.instance, status |-> Sampled(d), fresh |-> TRUE]

Init ==
    /\ LedgerInit
    /\ phase = [q \in Sequences |-> "idle"]
    /\ view = [q \in Sequences |-> EmptyView]
    /\ stages = [q \in Sequences |-> [w \in Workers |-> NoStage]]
    /\ done = [q \in Sequences |-> {}]
    /\ outcome = [q \in Sequences |-> [failed |-> FALSE, mayHaveLoaded |-> FALSE,
                                       cleanupConfirmed |-> FALSE]]
    /\ found = [q \in Sequences |-> {}]
    /\ daemon = [w \in Workers |-> NewDaemon(1)]
    /\ inFlight = {}
    /\ probing = [w \in Workers |-> Absent]
    /\ cached = [w \in Workers |-> Sampled(NewDaemon(1))]
    /\ statusPending = [w \in Workers |-> FALSE]
    /\ membership = [w \in Workers |-> Join(NewDaemon(1))]

Stages(q) == Placed(stages[q])

\* Any daemon but the bound one refuses a call.
Reaches(q, w) == daemon[w].instance = stages[q][w].instance

StageCall(call, q, w) ==
    [call |-> call, owner |-> q, worker |-> w,
     instance |-> stages[q][w].instance, shard |-> stages[q][w].shard]

Enter(q, next) ==
    /\ phase' = [phase EXCEPT ![q] = next]
    /\ done' = [done EXCEPT ![q] = {}]

-----------------------------------------------------------------------------
\* Prepare: the snapshot, taken before any lock.
TakeSnapshot(q) ==
    /\ phase[q] = "idle"
    /\ Cardinality({p \in Sequences : phase[p] = "planning"}) < MaxPreparing
    /\ phase' = [phase EXCEPT ![q] = "planning"]
    /\ view' = [view EXCEPT ![q] = membership]
    /\ UNCHANGED <<ledger, stages, done, outcome, found, daemon, inFlight, agentVars>>

\* evaluateCandidate, for the tests that read the status.  Retained weights are
\* reused when the snapshot reports the shard.
Reuses(member, s) == s \in member.status.loaded

Eligible(member, s) ==
    LET status == member.status IN
    /\ member.fresh
    /\ OpenSequenceCount(status) < MaxRequests
    /\ StageBytes(~Reuses(member, s)) <= AvailableMemoryBytes(status)
    /\ RetainedBytes(status) + SequenceBytes <= RetainedBudget
    /\ Reuses(member, s) => Cardinality(status.open[s]) < MaxOpenPerShard

\* The stages of a plan that places shards: one worker per shard, each bound to
\* the incarnation of the snapshot.
PlannedStages(inventory, place) ==
    [w \in Workers |->
       IF place[w] = NoShard THEN NoStage
       ELSE [NoStage EXCEPT !.shard = place[w],
                            !.instance = inventory[w].instance,
                            !.loads = ~Reuses(inventory[w], place[w])]]

\* ConstructPlan may select any plan whose stages are all eligible.
Selectable(inventory, place) ==
    /\ \E w \in Workers : place[w] # NoShard
    /\ \A w, v \in Workers : w # v /\ place[w] = place[v] => place[w] = NoShard
    /\ \A w \in Workers : place[w] # NoShard =>
         inventory[w] # Absent /\ Eligible(inventory[w], place[w])

\* No plan is eligible, or Prepare fails before it reaches the reservation.
NoPlan(q) ==
    /\ phase[q] = "planning"
    /\ phase' = [phase EXCEPT ![q] = "done"]
    /\ view' = [view EXCEPT ![q] = EmptyView]
    /\ UNCHANGED <<ledger, stages, done, outcome, found, daemon, inFlight, agentVars>>

\* reserveAdmission: reconcile with the snapshot in hand, test every stage, and
\* reserve all of them or none.
ReserveAdmission(q) ==
    /\ phase[q] = "planning"
    /\ \E place \in [Workers -> Shards \cup {NoShard}] :
         LET planned == PlannedStages(view[q], place)
             now == Reconciled(view[q])
             Fits(w) == StageFits(now.slots[w][planned[w].instance][place[w]],
                                  now.hosts[w][planned[w].instance],
                                  view[q][w], place[w], planned[w].loads)
         IN /\ Selectable(view[q], place)
            /\ \/ /\ \A w \in Placed(planned) : Fits(w)
                  /\ Reserve(now.slots, now.hosts, planned)
                  /\ stages' = [stages EXCEPT ![q] = planned]
                  /\ phase' = [phase EXCEPT ![q] = "setup"]
               \/ /\ \E w \in Placed(planned) : ~Fits(w)
                  /\ reservations' = now.slots
                  /\ workers' = now.hosts
                  /\ phase' = [phase EXCEPT ![q] = "done"]
                  /\ UNCHANGED stages
    /\ view' = [view EXCEPT ![q] = EmptyView]
    /\ UNCHANGED <<done, outcome, found, daemon, inFlight, agentVars>>

-----------------------------------------------------------------------------
\* Slip: a reservation that loaded nothing is dropped without being finished.
FinishLoaded(q, mayHaveLoaded, confirmed) ==
    /\ Enter(q, IF ~mayHaveLoaded THEN "done"
                ELSE IF confirmed THEN "finishing" ELSE "cleaning")
    /\ outcome' = [outcome EXCEPT ![q].mayHaveLoaded = mayHaveLoaded,
                                  ![q].cleanupConfirmed = confirmed]

\* reservation.finish, up to the call of finishReservation.
Finish(q, mayHaveLoaded, confirmed) ==
    /\ Enter(q, IF confirmed THEN "finishing" ELSE "cleaning")
    /\ outcome' = [outcome EXCEPT ![q].mayHaveLoaded = mayHaveLoaded,
                                  ![q].cleanupConfirmed = confirmed]

\* A target does not resolve to a caller.
ResolveFails(q) ==
    /\ Fault("setupError")
    /\ phase[q] = "setup" /\ done[q] = {}
    /\ Finish(q, FALSE, TRUE)
    /\ UNCHANGED <<ledger, view, stages, found, daemon, inFlight, agentVars>>

\* NewPlannedSession loads the shard of one stage, or finds it loaded.
LoadShard(q, w) ==
    /\ phase[q] = "setup"
    /\ w \in Stages(q) \ done[q]
    /\ Reaches(q, w)
    /\ daemon' = [daemon EXCEPT ![w].loaded = @ \cup {stages[q][w].shard}]
    /\ done' = [done EXCEPT ![q] = @ \cup {w}]
    /\ UNCHANGED <<ledger, phase, view, stages, outcome, found, inFlight, agentVars>>

\* Every stage is loaded: observeSetup begins.
SetupDone(q) ==
    /\ phase[q] = "setup"
    /\ done[q] = Stages(q)
    /\ Enter(q, "observing")
    /\ UNCHANGED <<ledger, view, stages, outcome, found, daemon, inFlight, agentVars>>

\* NewPlannedSession fails at one stage, which may have loaded all the same;
\* what setup left behind is observed before the reservation is finished.
SetupFails(q, w) ==
    /\ phase[q] = "setup"
    /\ w \in Stages(q) \ done[q]
    /\ \/ /\ ~Reaches(q, w)
          /\ UNCHANGED daemon
       \/ /\ Fault("setupError")
          /\ Reaches(q, w)
          /\ \/ UNCHANGED daemon
             \/ daemon' = [daemon EXCEPT ![w].loaded = @ \cup {stages[q][w].shard}]
    /\ Enter(q, "observing")
    /\ outcome' = [outcome EXCEPT ![q].failed = TRUE]
    /\ UNCHANGED <<ledger, view, stages, found, inFlight, agentVars>>

\* The preparation context ends during a load.  The load may execute now, later
\* or never; every observation on the ended context fails.
SetupTimesOut(q, w) ==
    /\ Fault("timeout")
    /\ phase[q] = "setup"
    /\ w \in Stages(q) \ done[q]
    /\ inFlight' = inFlight \cup {StageCall("load", q, w)}
    /\ Finish(q, TRUE, TRUE)
    /\ UNCHANGED <<ledger, view, stages, found, daemon, agentVars>>

\* observeSetup, one stage: the state call is answered and numbered.
ObserveSetup(q, w) ==
    /\ phase[q] = "observing"
    /\ w \in Stages(q) \ done[q]
    /\ Reaches(q, w)
    /\ Observe(w)
    /\ stages' = [stages EXCEPT ![q][w].setupObs = daemon'[w].obs,
                                ![q][w].present = stages[q][w].shard \in daemon[w].loaded]
    /\ done' = [done EXCEPT ![q] = @ \cup {w}]
    /\ UNCHANGED <<ledger, phase, view, outcome, found, inFlight, agentVars>>

\* The state call of one stage fails; the others are still observed.
ObserveSetupFails(q, w) ==
    /\ phase[q] = "observing"
    /\ w \in Stages(q) \ done[q]
    /\ ~Reaches(q, w) \/ Fault("setupError")
    /\ done' = [done EXCEPT ![q] = @ \cup {w}]
    /\ outcome' = [outcome EXCEPT ![q].failed = TRUE]
    /\ UNCHANGED <<ledger, phase, view, stages, found, daemon, inFlight, agentVars>>

\* Prepare returns the sequence, or finishes the reservation of a failed setup.
\* A stage observed without its shard fails setup too.
EndSetup(q) ==
    /\ phase[q] = "observing"
    /\ done[q] = Stages(q)
    /\ IF outcome[q].failed \/ \E w \in Stages(q) : ~stages[q][w].present
       THEN Finish(q, TRUE, TRUE)
       ELSE Enter(q, "prepared") /\ UNCHANGED outcome
    /\ UNCHANGED <<ledger, view, stages, found, daemon, inFlight, agentVars>>

\* The preparation context ends while stages remain to be observed.
ObserveTimesOut(q) ==
    /\ Fault("timeout")
    /\ phase[q] = "observing"
    /\ done[q] # Stages(q)
    /\ Finish(q, TRUE, TRUE)
    /\ UNCHANGED <<ledger, view, stages, found, daemon, inFlight, agentVars>>

-----------------------------------------------------------------------------
\* ScheduledSequence: one Generate, or Close instead of it.
Generate(q) ==
    /\ phase[q] = "prepared"
    /\ Enter(q, "running")
    /\ UNCHANGED <<ledger, view, stages, outcome, found, daemon, inFlight, agentVars>>

Close(q) ==
    /\ phase[q] = "prepared"
    /\ Finish(q, TRUE, TRUE)
    /\ UNCHANGED <<ledger, view, stages, found, daemon, inFlight, agentVars>>

\* PersistentShardWorker.openSequence: the shard is loaded and has a free slot.
OpenAccepted(d, q, s) ==
    /\ s \in d.loaded
    /\ q \in d.open[s] \/ Cardinality(d.open[s]) < MaxOpenPerShard

\* daemon after the calls of q execute on a set of workers.
Opened(q, W) ==
    [w \in Workers |->
       IF w \in W /\ OpenAccepted(daemon[w], q, stages[q][w].shard)
       THEN [daemon[w] EXCEPT !.open[stages[q][w].shard] = @ \cup {q}]
       ELSE daemon[w]]

Closed(q, W) ==
    [w \in Workers |->
       IF w \in W
       THEN [daemon[w] EXCEPT !.open = [s \in Shards |-> @[s] \ {q}]]
       ELSE daemon[w]]

\* OpenSequences, one stage.
OpenSequence(q, w) ==
    /\ phase[q] = "running" /\ ~outcome[q].failed
    /\ w \in Stages(q) \ done[q]
    /\ Reaches(q, w)
    /\ OpenAccepted(daemon[w], q, stages[q][w].shard)
    /\ daemon' = Opened(q, {w})
    /\ done' = [done EXCEPT ![q] = @ \cup {w}]
    /\ UNCHANGED <<ledger, phase, view, stages, outcome, found, inFlight, agentVars>>

\* The worker rejects the open: nothing to close on this stage.
OpenRejected(q, w) ==
    /\ phase[q] = "running" /\ ~outcome[q].failed
    /\ w \in Stages(q) \ done[q]
    /\ Reaches(q, w)
    /\ ~OpenAccepted(daemon[w], q, stages[q][w].shard)
    /\ outcome' = [outcome EXCEPT ![q].failed = TRUE]
    /\ UNCHANGED <<ledger, phase, view, stages, done, found, daemon, inFlight, agentVars>>

\* The open fails without a worker's answer: it is closed as if it had opened.
\* It executes now, or is still under way.
OpenAmbiguous(q, w) ==
    /\ phase[q] = "running" /\ ~outcome[q].failed
    /\ w \in Stages(q) \ done[q]
    /\ \/ /\ ~Reaches(q, w)
          /\ UNCHANGED <<daemon, inFlight>>
       \/ /\ Fault("openError")
          /\ Reaches(q, w)
          /\ \/ /\ daemon' = Opened(q, {w})
                /\ UNCHANGED inFlight
             \/ /\ inFlight' = inFlight \cup {StageCall("open", q, w)}
                /\ UNCHANGED daemon
    /\ outcome' = [outcome EXCEPT ![q].failed = TRUE]
    /\ done' = [done EXCEPT ![q] = @ \cup {w}]
    /\ UNCHANGED <<ledger, phase, view, stages, found, agentVars>>

\* Generation ends, whatever it reached, and Cleanup closes what was opened.
EndGenerate(q) ==
    /\ phase[q] = "running"
    /\ phase' = [phase EXCEPT ![q] = "closing"]
    /\ outcome' = [outcome EXCEPT ![q].cleanupConfirmed = TRUE]
    /\ UNCHANGED <<ledger, view, stages, done, found, daemon, inFlight, agentVars>>

\* One close, answered: closed, not open or not loaded.
CloseSequence(q, w) ==
    /\ phase[q] = "closing"
    /\ w \in done[q]
    /\ Reaches(q, w)
    /\ daemon' = Closed(q, {w})
    /\ done' = [done EXCEPT ![q] = @ \ {w}]
    /\ UNCHANGED <<ledger, phase, view, stages, outcome, found, inFlight, agentVars>>

\* A close without an answer executes now, or is still under way.
CloseFails(q, w) ==
    /\ phase[q] = "closing"
    /\ w \in done[q]
    /\ \/ ~Reaches(q, w) /\ UNCHANGED <<daemon, inFlight>>
       \/ /\ Fault("cleanupError")
          /\ Reaches(q, w)
          /\ \/ daemon' = Closed(q, {w}) /\ UNCHANGED inFlight
             \/ /\ inFlight' = inFlight \cup {StageCall("close", q, w)}
                /\ UNCHANGED daemon
    /\ outcome' = [outcome EXCEPT ![q].cleanupConfirmed = FALSE]
    /\ done' = [done EXCEPT ![q] = @ \ {w}]
    /\ UNCHANGED <<ledger, phase, view, stages, found, agentVars>>

\* Cleanup is confirmed when every close was answered.
EndClosing(q) ==
    /\ phase[q] = "closing"
    /\ done[q] = {}
    /\ Finish(q, TRUE, outcome[q].cleanupConfirmed)
    /\ UNCHANGED <<ledger, view, stages, found, daemon, inFlight, agentVars>>

\* observeCleanup, one stage, with a context of its own.
ObserveCleanup(q, w) ==
    /\ phase[q] = "cleaning"
    /\ w \in Stages(q) \ done[q]
    /\ Reaches(q, w)
    /\ Observe(w)
    /\ stages' = [stages EXCEPT
         ![q][w].cleanupObs = daemon'[w].obs,
         ![q][w].stillOpen = daemon[w].open[stages[q][w].shard] # {}]
    /\ done' = [done EXCEPT ![q] = @ \cup {w}]
    /\ UNCHANGED <<ledger, phase, view, outcome, found, inFlight, agentVars>>

\* Slip: a failed observation is retried until the worker answers.
ObserveCleanupRetried(q, w) ==
    /\ phase[q] = "cleaning"
    /\ w \in Stages(q) \ done[q]
    /\ ~Reaches(q, w) \/ Fault("cleanupError")
    /\ UNCHANGED vars

ObserveCleanupFails(q, w) ==
    /\ phase[q] = "cleaning"
    /\ w \in Stages(q) \ done[q]
    /\ ~Reaches(q, w) \/ Fault("cleanupError")
    /\ done' = [done EXCEPT ![q] = @ \cup {w}]
    /\ UNCHANGED <<ledger, phase, view, stages, outcome, found, daemon, inFlight, agentVars>>

EndCleanup(q) ==
    /\ phase[q] = "cleaning"
    /\ done[q] = Stages(q)
    /\ Enter(q, "finishing")
    /\ UNCHANGED <<ledger, view, stages, outcome, found, daemon, inFlight, agentVars>>

\* finishReservation: its snapshot is taken before the lock.
FinishSnapshot(q) ==
    /\ phase[q] = "finishing"
    /\ found' = [found EXCEPT ![q] =
         {w \in Stages(q) : ~Departed(membership, w, stages[q][w].instance)}]
    /\ Enter(q, "releasing")
    /\ UNCHANGED <<ledger, view, stages, outcome, daemon, inFlight, agentVars>>

FinishReservation(q) ==
    /\ phase[q] = "releasing"
    /\ Release(q, stages[q], outcome[q].mayHaveLoaded, outcome[q].cleanupConfirmed, found[q])
    /\ Enter(q, "done")
    /\ UNCHANGED <<view, stages, outcome, found, daemon, inFlight, agentVars>>

-----------------------------------------------------------------------------
\* An abandoned call executes at its worker.  A load goes on after its caller
\* gave up; an open or a close overtaken by later calls is a fault.
Deliver(m) ==
    /\ inFlight' = inFlight \ {m}
    /\ \/ /\ daemon[m.worker].instance # m.instance
          /\ UNCHANGED daemon
       \/ /\ daemon[m.worker].instance = m.instance
          /\ \/ /\ m.call = "load"
                /\ daemon' = [daemon EXCEPT ![m.worker].loaded = @ \cup {m.shard}]
             \/ /\ m.call = "open"
                /\ Fault("lateDelivery") \/ phase[m.owner] = "running"
                /\ daemon' = Opened(m.owner, {m.worker})
             \/ /\ m.call = "close"
                /\ Fault("lateDelivery") \/ phase[m.owner] \in {"closing", "cleaning"}
                /\ daemon' = Closed(m.owner, {m.worker})
    /\ UNCHANGED <<ledger, sequenceVars, agentVars>>

\* Supervisor.restart: the child loses its shards and sequences; the daemon keeps
\* its instance and goes on counting observations.
WorkerRestart(w) ==
    /\ Fault("workerRestart")
    /\ daemon[w].loaded # {}
    /\ daemon' = [daemon EXCEPT ![w].loaded = {}, ![w].open = NothingOpen]
    /\ UNCHANGED <<ledger, sequenceVars, inFlight, agentVars>>

\* swarmd starts again: a new instance, a new agent, and the old lease still held.
DaemonRestart(w) ==
    /\ Fault("daemonRestart")
    /\ daemon[w].instance + 1 \in Instances
    /\ daemon' = [daemon EXCEPT ![w] = NewDaemon(daemon[w].instance + 1)]
    /\ probing' = [probing EXCEPT ![w] = Absent]
    /\ cached' = [cached EXCEPT ![w] = Sampled(daemon'[w])]
    /\ statusPending' = [statusPending EXCEPT ![w] = TRUE]
    /\ UNCHANGED <<ledger, sequenceVars, inFlight, membership>>

-----------------------------------------------------------------------------
\* The agent's probe is answered by the daemon, and recorded by the agent later.
Probe(w) ==
    /\ probing[w] = Absent
    /\ daemon[w].obs < MaxProbed
    /\ Observe(w)
    /\ probing' = [probing EXCEPT ![w] = Sampled(daemon'[w])]
    /\ UNCHANGED <<ledger, sequenceVars, inFlight, cached, statusPending, membership>>

\* Slip: a probe that was never answered is recorded too.
RecordStatusAlways(w) ==
    /\ cached' = [cached EXCEPT ![w] = probing[w]]
    /\ statusPending' = [statusPending EXCEPT ![w] = TRUE]
    /\ probing' = [probing EXCEPT ![w] = Absent]
    /\ UNCHANGED <<ledger, sequenceVars, daemon, inFlight, membership>>

RecordStatus(w) ==
    /\ probing[w] # Absent
    /\ cached' = [cached EXCEPT ![w] = probing[w]]
    /\ statusPending' = [statusPending EXCEPT ![w] = TRUE]
    /\ probing' = [probing EXCEPT ![w] = Absent]
    /\ UNCHANGED <<ledger, sequenceVars, daemon, inFlight, membership>>

\* A heartbeat publishes a status once.
Heartbeat(w) ==
    /\ statusPending[w]
    /\ ~Departed(membership, w, daemon[w].instance)
    /\ membership' = [membership EXCEPT ![w].status = cached[w], ![w].fresh = TRUE]
    /\ statusPending' = [statusPending EXCEPT ![w] = FALSE]
    /\ UNCHANGED <<ledger, sequenceVars, daemon, inFlight, probing, cached>>

\* A dead instance's lease runs out; a live one's is lost with its controller or
\* by a delayed heartbeat.
LeaseEnds(w) ==
    /\ membership[w] # Absent
    /\ Departed(membership, w, daemon[w].instance) \/ Fault("leaseLoss")
    /\ membership' = [membership EXCEPT ![w] = Absent]
    /\ UNCHANGED <<ledger, sequenceVars, daemon, inFlight, probing, cached, statusPending>>

\* The agent registers with its cached status, marked fresh only while pending.
Register(w) ==
    /\ membership[w] = Absent
    /\ membership' = [membership EXCEPT ![w] =
         [instance |-> daemon[w].instance, status |-> cached[w], fresh |-> statusPending[w]]]
    /\ statusPending' = [statusPending EXCEPT ![w] = FALSE]
    /\ UNCHANGED <<ledger, sequenceVars, daemon, inFlight, probing, cached>>

-----------------------------------------------------------------------------
\* What the callers of the scheduler decide.
Call(q) == TakeSnapshot(q) \/ Generate(q) \/ Close(q)

\* What an admitted sequence goes through before its reservation is released.
SetupStep(q) ==
    \/ ResolveFails(q) \/ SetupDone(q) \/ EndSetup(q) \/ ObserveTimesOut(q)
    \/ \E w \in Workers :
         \/ LoadShard(q, w) \/ SetupFails(q, w) \/ SetupTimesOut(q, w)
         \/ ObserveSetup(q, w) \/ ObserveSetupFails(q, w)

RunStep(q) ==
    \/ EndGenerate(q) \/ EndClosing(q) \/ EndCleanup(q)
    \/ FinishSnapshot(q) \/ FinishReservation(q)
    \/ \E w \in Workers :
         \/ OpenSequence(q, w) \/ OpenRejected(q, w) \/ OpenAmbiguous(q, w)
         \/ CloseSequence(q, w) \/ CloseFails(q, w)
         \/ ObserveCleanup(q, w) \/ ObserveCleanupFails(q, w)

PlanStep(q) == NoPlan(q) \/ ReserveAdmission(q)

WorkerStep(w) == WorkerRestart(w) \/ DaemonRestart(w)

AgentStep(w) == Probe(w) \/ RecordStatus(w) \/ Heartbeat(w) \/ LeaseEnds(w) \/ Register(w)

Next ==
    \/ \E q \in Sequences : Call(q) \/ PlanStep(q) \/ SetupStep(q) \/ RunStep(q)
    \/ \E w \in Workers : WorkerStep(w) \/ AgentStep(w)
    \/ \E m \in inFlight : Deliver(m)

Spec == Init /\ [][Next]_vars

\* Prepare runs under a timeout, every stage call of Generate under a deadline
\* and cleanup under one of its own: a step of an admitted sequence is not
\* postponed for ever.  Callers need not call, nor the agent probe.
FairSpec == Spec /\ \A q \in Sequences : WF_vars(SetupStep(q)) /\ WF_vars(RunStep(q))

-----------------------------------------------------------------------------
(***************************************************************************)
(* Properties.                                                             *)
(***************************************************************************)

\* The sequences that hold a slot of a shard, and a request slot of a worker.
ShardHolders(w, i, s) ==
    {q \in Sequences : phase[q] \in Holding /\ OnShard(stages[q], w, i, s)}

WorkerHolders(w, i) ==
    {q \in Sequences : phase[q] \in Holding /\ OnWorker(stages[q], w, i)}

LoadHolders(w, i) == {q \in WorkerHolders(w, i) : stages[q][w].loads}

\* Whatever fails, and in whatever order reservations come and go, the counters
\* of the scheduler are exactly what the unfinished sequences reserved: finish
\* runs once per reservation, gives back what was taken and never reaches the
\* saturation of Decrement and Monus.
LedgerMatchesHolders ==
    \A w \in Workers, i \in Instances :
      /\ \A s \in Shards :
           reservations[w][i][s].active = Cardinality(ShardHolders(w, i, s))
      /\ workers[w][i].activeRequests = Cardinality(WorkerHolders(w, i))
      /\ workers[w][i].activeRetained = SequenceBytes * Cardinality(WorkerHolders(w, i))
      /\ workers[w][i].activeAvailable = SequenceBytes * Cardinality(WorkerHolders(w, i))
                                           + LoadBytes * Cardinality(LoadHolders(w, i))

\* The sequence still has to load, or to open, its stage on this worker.
ToLoad(q, w) ==
    /\ w \in Stages(q) /\ Reaches(q, w)
    /\ \/ phase[q] = "setup" /\ w \notin done[q]
       \/ StageCall("load", q, w) \in inFlight

ToOpen(q, w) ==
    /\ w \in Stages(q) /\ Reaches(q, w)
    /\ \/ phase[q] \in {"setup", "observing", "prepared"}
       \/ phase[q] = "running" /\ ~outcome[q].failed /\ w \notin done[q]

\* An admitted sequence is never turned away: what is open on a shard, left over
\* from ambiguous cleanups included, and what is admitted to open there fit the
\* worker's limit together, although the scheduler admits from statuses that are
\* sampled, delivered and read late.
ShardSlotsRespected ==
    \A w \in Workers, s \in Shards :
      Cardinality(daemon[w].open[s] \cup
                  {q \in Sequences : ToOpen(q, w) /\ stages[q][w].shard = s})
        <= MaxOpenPerShard

\* A sequence left open by an ambiguous cleanup is quarantined until the status
\* in membership reports it.
QuarantineCoversOpen ==
    \A w \in Workers, s \in Shards, q \in Sequences :
      LET i == daemon[w].instance IN
      q \in daemon[w].open[s] /\ phase[q] = "done" /\ ~Departed(membership, w, i) =>
        \/ \E p \in reservations[w][i][s].poisoned : p.owner = q
        \/ q \in membership[w].status.open[s]

\* Model-load memory stays reserved until a status that reflects the load is in
\* membership (docs/mesh-placement.md:246-248): weights a worker holds are in its
\* fresh status, or a reservation or a pending entry still counts them.
LoadReservedUntilReflected ==
    \A w \in Workers : \A s \in daemon[w].loaded :
      LET i == daemon[w].instance IN
      ~Departed(membership, w, i) /\ membership[w].fresh =>
        \/ s \in membership[w].status.loaded
        \/ \E q \in ShardHolders(w, i, s) : stages[q][w].loads
        \/ \E p \in workers[w][i].pending :
             p.available >= LoadBytes /\ stages[p.owner][w].shard = s

\* The weights and sequences on a worker, and those it is still to get from
\* admitted sequences and abandoned loads, fit the memory it advertises.
MemoryRespected ==
    \A w \in Workers :
      LET toLoad == {stages[q][w].shard : q \in {r \in Sequences : ToLoad(r, w)}}
          toOpen == {q \in Sequences : ToOpen(q, w)}
          open == UNION {daemon[w].open[s] : s \in Shards}
      IN LoadBytes * Cardinality(daemon[w].loaded \cup toLoad)
           + SequenceBytes * Cardinality(open \cup toOpen) <= Capacity

\* A failed preparation holds no memory for ever (docs/mesh-placement.md:257-259):
\* some later status of the same incarnation can release what it left pending.
PendingReconcilable ==
    \A w \in Workers : \A p \in workers[w][daemon[w].instance].pending :
      p.minimum # Unreconciled

\* Every reservation comes back: setup ends with a sequence in the caller's hands
\* or with a finished reservation, and a generation ends with a finished one,
\* whatever restarts, errors and timeouts the stages meet.
ReservationsReleased ==
    \A q \in Sequences :
      phase[q] \in Holding \ {"prepared"} ~> phase[q] \in {"prepared", "done"}
=============================================================================

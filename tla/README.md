# Verification of mlx-swarm

TLA+ models of the concurrent parts of mlx-swarm, checked with TLC on small
instances, and theorems about them checked by the TLA+ proof system for every
value of the constants. Paths below are relative to the repository; a
`PROJECT.json` beside this file maps every definition to the source lines it
translates.

## 1. The system

mlx-swarm runs one language model over several Macs. A *sequence* is one
generation; its model is split into consecutive *shards*, one per *stage*.

| Component | Code | State it keeps | Operations |
|---|---|---|---|
| Sequence scheduler | `internal/mesh/scheduler.go` | `reservations` per worker, instance and shard (active slots, quarantined slots); `workers` per worker and instance (active requests and bytes, pending bytes) | `Prepare`, `Generate`, `Close`; inside them snapshot, plan, reserve, set up, observe, finish |
| Registry | `internal/registry/` | worker records by ID with instance, lease, status; the inventory revision | `Register`, `Heartbeat`, `Remove`, `Snapshot`, expiry on every access |
| Membership agent | `cmd/swarmd/membership.go` | cached registration and status, `statusPending`, the freshness window, the probe in flight | `Register`, `Run` (tick, probe result, exit), `heartbeat`, `remove` |
| Supervisor and persistent client | `internal/workerproc/` | the worker child, the call gate, the observation sequence, `pending` requests, writer and reader loops | `Call`, `Shutdown`, `Kill`, restart |
| Sequence sets | `internal/workerproc/sequence.go` | targets a sequence is open on | `OpenSequences`, `Close`, `Cleanup` |
| swarmd HTTP server | `cmd/swarmd/main.go`, `internal/workerproc/persistent_http.go` | the listener, the goroutines of `run` and what they tell each other, the requests in progress | start and join, bound forwarding of commands, one-shot requests, shutdown; at the other end `HTTPPersistentClient.Call` |
| Shard worker | `worker/mlx/.../PersistentShardWorker.swift` | loaded shards; per sequence its owner, position, KV cache and last completed mutation | load, unload, open, close, prefill, decode, tokenize, state |
| Planned generation session | `internal/generation/` | plan, tokens so far, what it opened | `NewPlannedSession`, `Generate`, stage chain, cleanup |
| Placement planner | `internal/placement/{eligibility,scoring,planner}.go` | none | `EvaluateCandidates`, `ScorePlan`, `ConstructPlan` |
| Topology profile store | `internal/placement/profile*.go` | rolling series of link and compute samples, a revision, the time of the last accepted one | `ObserveLink`, `ObserveCompute`, `ObservePlannedSample`, `Snapshot` |
| Tensor runtime, proofs, smokes, CLIs | `worker/mlx/...`, `internal/{pooledproof,scaleproof,meshstress,failureharness,benchmark,tensorcheck}`, `cmd/` | none the system depends on | numerical code and drivers |

How they interact: the agent of every worker daemon (`swarmd`) samples its
worker through the supervisor and publishes the status with heartbeats. The
scheduler reads the registry's snapshot, asks placement for a plan, reserves
it, and calls the stages' daemons over HTTP with the worker ID and instance the
plan was bound to; a daemon of another instance refuses. The daemon's supervisor
serialises the calls and replaces its child when it fails.

What is hard here is that nothing is synchronous. The scheduler decides
from a snapshot that was sampled, delivered and read at three earlier times; the
answer to any call may be lost while the call still executes; a child may restart
under the same instance, a daemon under a new one; a lease may lapse and
return. The numbered observations (`status.observation_sequence`) are the only
order all parties share, and the ledger's soundness rests on comparing them.

What makes each component correct:

- **Scheduler**: an admitted sequence is not turned away by the worker (slots,
  memory); what an ambiguous failure may have left behind stays accounted for
  until a later observation reflects it; every reservation comes back once.
- **Registry**: one live instance per worker ID, no takeover before expiry; the
  revision grows with every visible change and with nothing else; leases are
  renewed only by their owner.
- **Agent**: a status is published at most once as fresh; after the lease is lost
  a healthy worker comes back; the observation it publishes is never newer
  than its sample.
- **Supervisor and client**: calls of one worker do not overlap; a mutation is
  sent at most once; an answer reaches the call it belongs to; observations
  grow across restarts; a newer child is never killed for an older one's failure.
- **Shard worker**: a position is computed once, whatever is repeated; a failed
  mutation blocks the sequence until it is closed; what all the sequences of a process
  retain stays within its budget.
- **Session**: tokens come from the session's own prompt and from its own accepted tokens; it keeps
  its sequence while it generates, whoever uses the same public ID; a confirmed cleanup
  leaves nothing open.
- **Placement**: the dynamic programme returns the best eligible partition, and
  none only if there is none; a plan rests on the newest evidence of its time.

The hazards behind these properties, each at its line, are listed in
`PROJECT.json`.

## 2. Modules

| Module | Models | State |
|---|---|---|
| `AdmissionLedger` | what the scheduler's mutex protects: reconcile, the admission tests, reserve, release | `reservations`, `workers` |
| `MeshScheduler` | the scheduler's callers, the worker daemons, and membership as the scheduler meets them; EXTENDS the ledger | `phase`, `view`, `stages`, `done`, `outcome`, `found`; `daemon`, `inFlight`; `probing`, `cached`, `statusPending`, `membership` |
| `MCMeshScheduler` | instances for TLC | |
| `MeshSchedulerProofs` | theorems about `MeshScheduler`: its types, its ledger is exact, open sequences are quarantined, shard slots are respected | |
| `Membership` | the registry, the agents of the worker daemons, and the calls between them over a lossy network, with time | `records`, `revision`; `phase`, `cached`, `statusPending`, `sampleAge`, `registered`, `probe`; `network`; `recordedAge` (history) |
| `Leases` | abstract: who holds a worker ID | `holder` |
| `MCMembership` | instances for TLC | |
| `MembershipProofs` | theorems about `Membership`: its types, fresh statuses are recent, it implements `Leases`, leases and evictions, the revision follows the inventory | |
| `PersistentClient` | a worker process and the client that drives it: callers, writer, reader | `process`, `stdin`, `working`, `stdout`; `done`, `writer`, `pending`, `nextID`, `expectedExit`; per call `ctx`, `at`, `on`, `id`, `written`, `answer`, `result`; `executed` (history) |
| `PersistentTarget` | a client used directly, shut down and cleaned up by its owner | |
| `PersistentSupervisor` | the supervisor over one client after the other, and swarmd's shutdown | `gate`, `client`, `closed`, `observed`; per call `stage`, `outcome`, `sequence` |
| `MCPersistentTarget`, `MCPersistentSupervisor` | instances for TLC | |
| `PersistentClientProofs` | what each step of a client and its process does to the requests on their way, for any client | |
| `PersistentTargetProofs`, `PersistentSupervisorProofs` | theorems about the two compositions, from these lemmas | |
| `Swarmd` | the worker daemon as a server: `run` and its goroutines, handlers, and the HTTP clients at their other end | `instance`, `main`, `shutdown`, `agent`, `failure`, `listening`, `signalled`, `oneShot`, `serveErr`, `exit`; per request `bound`, `handler`, `response`, `result`; `registered`, `executed`, `pending` (history) |
| `MCSwarmd` | instances for TLC | |
| `SwarmdProofs` | theorems about `Swarmd` | |
| `ShardWorker` | the shard worker process: every request it handles, one action each | `loaded`, `sequences` |
| `ShardWorkerClients` | the worker under clients that send any request at any time | `answers`, `spoiled` (history) |
| `ShardWorkerProofs` | theorems about `ShardWorkerClients` | |
| `GenerationSessions` | planned generation sessions over the workers of a plan, with their sequence sets; EXTENDS the worker | `session`, `reply`, `name`; `inbox`; `faults`, `restarts` |
| `MCShardWorker`, `MCGenerationSessions` | instances for TLC | |
| `ExecutionPlan` | plans, their validation, the balanced plan | |
| `ExecutionPlanProofs` | balanced plans are valid | |
| `ProfileStore` | the profile store | `series`, `revision`, `latestAcceptedAt` |
| `PlanConstruction` | eligibility, scoring and the dynamic programme; EXTENDS plans and store | |
| `Placement` | measurements and planning at the same time, as the scheduler does it | `now`, `taken`, `planned`; `accepted`, `pruned` (history) |
| `MCPlacement` | instances for TLC | |

### AdmissionLedger

`reservations[w][i][s]` is `reservations` under the key (worker, instance,
shard) and `workers[w][i]` is `workers` under (worker, instance). Go deletes an
entry that holds nothing; the model keeps the empty record. `poisonedAfter` and
`pendingMemory` are slices in Go and sets of entries tagged with their sequence
here: each sequence adds at most one entry to a slice.

- `Reconciled` is `reconcileReservationsLocked`: entries of incarnations that are
  not in the snapshot lose their quarantine and pending bytes, the others lose
  what a status at or after the entry's minimum observation reflects. Quarantined
  slots also need the status to report no open sequence on the shard.
- `StageFits` is the sequence of tests of `reserveAdmission`.
- `Reserve` is its tail; `Release` is `finishReservation`.
- Memory is counted in small units. `Monus` is the code's saturating
  subtraction. `Unreconciled` is `^uint64(0)`.

### MeshScheduler

A call of `Prepare` for sequence `q` goes through `phase[q]`:

    idle -> planning -> setup -> observing -> prepared -> running -> closing
                  \-> done          \            \                     |  \-----------\
                                     \------------\----------------> cleaning -> finishing -> releasing -> done

`closing` is the deferred `Cleanup`: one close after the other (`CloseSequence`, `CloseFails`), between which statuses are
sampled, workers restart and other callers plan. Cleanup is confirmed when every close was answered.

One action stands for each stretch of code between two lock acquisitions or two
calls to a worker: the snapshot (`TakeSnapshot`) and the locked admission
(`ReserveAdmission`) are two actions, so other callers may admit, and statuses
arrive, in between. `finishReservation` takes its snapshot before the lock and is
two actions for the same reason. The order of plans is left open: any plan whose
stages are all eligible may be chosen, so the result covers every planner that
respects `evaluateCandidate`.

Calls fail in the ways the code tells apart. `OpenRejected` is an answer by the
worker; `OpenAmbiguous` is none, with the call executed or still in `inFlight`,
where `Deliver` executes it later or, its incarnation being gone, drops it.
`SetupTimesOut` is the preparation timeout during a load.

A daemon is its instance, the last observation number, and what its child holds.
`Probe`, `RecordStatus`, `Heartbeat`, `LeaseEnds` and `Register` are the agent and
the registry as far as the scheduler can see them: a status is sampled, recorded
and published in separate steps, published once as fresh, and published again
only as stale when the worker registers again.

Only state calls are numbered in the model. The code numbers every answered call;
minima are compared with nothing but the numbers of statuses, and dropping the
others keeps their order.

### Membership

An agent is a worker process: an ID, an instance and an endpoint. A new process
under an old ID is another agent. The registry's handlers run under one mutex and are
one step each; every one of them, rejections included, starts with the expiry of all
overdue leases (`Unexpired`, `expireLocked`), and `Store` counts one revision for that
batch and one for the handler's own change. `Heartbeat` and `Remove` delete their own
overdue record with a revision of its own before the others (`StoreExpired`).

The loop of an agent waits for every call it makes, so an agent has at most one call
that is `awaited`:

    new -> joining -> running -> leaving -> gone
               \          \-> evicted -/      /
                \-----------------------------/

`TickerFires`, `RecordStatus` and `Stop` are the branches of `Run`'s select; the probe is
a goroutine of its own, whose answer (`ProbeAnswered`, `ProbeFails`) arrives whenever it
likes. `Continues` is what the loop does with an answer or an error: after `expired` or
`missing` it registers again within the same tick; any other rejection ends `Run`,
whose deferred removal is the last call.

A call in `network` is handled and answered (`Answered`), handled with its answer lost
(`AnswerLost`), or given up by its client (`TimesOut`), in which case it may still be
handled later (`HandledLate`) or never arrive. A process may die (`Crash`), the
controller may restart without its records (`ControllerRestart`).

Time is what is left of each lease and the age of each sample. `Tick` takes one unit
off all of them, and waits for calls that have been under way for `MaxDelay`. A lease
that has ended stays at zero and an age past every bound stays there, so time runs
without a bound of the model. `recordedAge` is a history variable: how long ago the
agent recorded each of its samples.

`Leases` is the abstract specification: `holder` gives the process that holds each
worker ID. It can be claimed when free, by a process that shares neither instance nor
endpoint with another holder, and leases can end. The refinement mapping calls a record
a holder while its lease is not over, whether expiry has noticed it yet or not.

### PersistentClient, PersistentTarget, PersistentSupervisor

A request is its ID and the call that made it; a command matters by its class only:
probes, inferences, shutdowns and the rest. `PersistentClient` has the actions of one client
and its process, each for any client `g`, and two modules compose them.

A call goes through the selects of `PersistentClient.Call`, where `at[c]` is the select it
is blocked in:

    idle -> handing -> writing -> awaiting -> (exiting) -> ended
                          \-> leaving -> ended

`Register` is everything up to the first select, under the mutex; `Hand`, `AwaitWrite`,
`Leave`, `AwaitAnswer` and `AwaitExit` are the selects, with one disjunct per case, so that the random
choice of a Go select among several ready cases is the choice of the model. The writer takes up a frame
(`WriteStarts`, where a request whose context ended is discarded) and writes it (`WriteEnds`,
which waits while the pipe is full) in two steps; the reader delivers one answer per step
(`Deliver`) or finds the end of the output. What the process was told, what it works on and what it answered are
the three stations of a frame on its other side.

`PersistentSupervisor` adds the gate. `Acquire` passes it and registers the call; `Return`,
`KillWorker`, `Replace` and `Retry` are what `Call` does with the answer, with the
wait for the killed worker between `KillWorker` and `Replace`.

A kill may fail. `Unkillable` is the set of clients whose process may survive one, and `Kills` has both outcomes for them. A client
that cannot kill or reap its process finishes all the same (`Finishes`; `persistent.go:534-543`, `549-552`): it closes its end of the
pipe and hands out no more answers, while the process executes what is still in the pipe and leaves at its end (`ReadsInput`). `restart` gives up only when the wait for
the client times out, so a client that finished this way is replaced although its process lives (`supervisor.go:191-200`), and two
processes execute at the same time. `AwaitExit` returns an error unless the process left by itself (`processError`).
 `KillFallback` is swarmd after a failed
shutdown; it does not pass the gate. In `restart` the tests of `closed` and of the client cannot
fail, because both change only behind the gate; the model has no branch for them.

### Swarmd

`main` is where `run` is, once the listener is bound and the worker healthy:

    exited -> joining -> serving -> leaving -> awaiting -> stopping -> exited
                  \-> stopping

`ServeReturns`, `AwaitAgent` and `AwaitShutdown` are the three things it waits for in a row, `StopWorker` the
deferred `shutdownPersistentWorker`. `shutdown` is where the other goroutine is: `Select` is its select, with one disjunct for
each case, and a case that is never sent on (no membership, no one-shot request) is one that is never ready. `failure` is
the agent's error in its buffered channel. `AgentFails` and `AgentStops` are the two ways `Run` of the agent ends; `Membership` has what it does.

`handler[r]` is where the connection of a request is: `dialed`, `accepted`, `active` in its handler, `forwarding` to the worker, `answering`, `ended`.
A connection that was accepted is still served after the listener closed, if its request arrives before the shutdown drops it (`ReadRequest`).
`Admit` is the handler up to the call of the worker, with the test of the identity (`IdentityMatches`), `Forward` the call, and
`Written` how what it came to is written: `bound[r]` is the instance the client was made for. A body is the four facts
`HTTPPersistentClient.Call` reads from it, and `Returned` is what it makes of them.

What the supervisor does below is three outcomes: the request was executed, refused, or the call failed and the request may be with the worker
still (`pending`), to be executed later or never (`Settle`), also after the daemon is gone. `PersistentSupervisor` justifies
them. `executed` records every execution with the instance of the daemon.

### ShardWorker, ShardWorkerClients

The Swift process handles one frame after the other, so a request is one step and nothing
overlaps inside a worker. `Host` places the shards on processes; `sequences[shard][id]` is `Closed` or the
`PersistentSequenceState`. A KV cache is the sequence of inputs it was computed from, and a stage's
output is that cache too: in the code, an output is a function of all the positions up to it, and this
is all the model says of the arithmetic. A status is the answer of a request: `ok`, or the refusals its
clients tell apart. Bytes are counted by multiplication with small constants.

`Mutate` is prefill and decode, in the order of the code: a deadline that has passed; a repetition of the
last completed mutation, which is answered with the retained result; position, length and budget; the
computation, after which the deadline may have passed (`expired`, the cache has moved on all the same)
and sampling may fail (`refused`, the mutation is recorded as failed). `EndProcess` is the end of the
process and the start of an empty one.

`ShardWorkerClients` sends the requests of the protocol in any order, with any owner, position and
input, as repetitions and late retries do. `answers` remembers the results returned since a sequence was
opened, `spoiled` the sequences with a mutation that was computed and refused.

### GenerationSessions

A session goes through

    new -> state -> load -> recheck -> tokenize -> open -> forward -> detokenize -> cleanup -> done
                 \------------------------/   \-> failed  \-> rollback ---------------/

One step takes the answer of a call and sends the next one: what is between is local to the session.
`inbox` holds the requests under way to a worker process. `Serve` handles one; `GiveUp` is a caller that
leaves (timeout, cancellation, broken connection), whose request is lost or stays in `inbox` to be served later; `Restart`
empties a worker. Sessions share the shards and may share their public sequence ID (`name`); their
owners are distinct.

`MayHaveOpened`, `Released` and `Closing` are the decisions of `SequenceSet`: which answers of an open leave
something to close, which answers of a close count as released, and how the set is gone through from its
end, once by a failed open and once more by `Generate`'s deferred cleanup.
`StageReady`, `LoadRejected` and `Rechecked` are `ensureShard`, where a refused load may mean that
another session was first.

The hidden states a stage returns are all prefixes of what it has seen, so a mix-up of sequences, positions or
stages shows in them.

### ExecutionPlan, ProfileStore, PlanConstruction, Placement

`ProfileStore` has one map for the two maps of the code, whose handling is a copy of each other. The clock is
read before the lock, so every operation has a time of its own that may be earlier than those of
operations before it. `PlanConstruction` is pure: `Search` is the dynamic programme, one round for a number
of stages, with its operation limit and its overflow; `ConstructPlan` the result. Costs are
small numbers, `WordLimit` stands for the largest 64-bit value.

`Placement` composes them: measurements arrive with times of their own, somebody reads the profile, and
a planner takes an inventory, then the profile as of the inventory's time, again when an observation was
accepted in between (`Retry`), and constructs a plan. `planned` holds the construction
with what it was made from, and is forgotten in the next step.

## 3. Runs

| Run | Instance | Shows |
|---|---|---|
| `admission` | 1 worker under 2 incarnations, 2 shards, 2 sequences, memory for two shards and one sequence; every fault but lost leases and child restarts | quarantine and load memory stay accounted for, memory is respected |
| `stages` | 2 workers that may restart, plans of one or two stages, 2 callers preparing at once | admission is all or nothing and gives no slot twice; the ledger is exact |
| `liveness` | 2 workers, 2 incarnations, 1 sequence, every fault but lost leases | every reservation is handed over or released |
| `leases` | a process, its successor under the same ID, and a third process at the same address; lost and late calls, crashes | leases change hands only when they end; evictions have a rival; the revision follows the inventory |
| `freshness` | one process with two probes; lost and late calls, controller restarts | fresh means recent; the process comes back |
| `direct` | one process; a change, an inference with an ID of its own choice, and the owner's shutdown; crash, hang, garbled output, cancellation | answers reach their own calls; a caller that leaves costs nobody else an answer; every call returns |
| `supervisor` | two processes, one after the other, the first of which may survive its kill; a probe, an inference whose caller may leave, a shutdown; output closed early | nothing is sent twice; numbers follow execution; a worker is killed for its own calls; callers are released |
| `shard` | one process with two shards; two sequence IDs, an owner or none, three positions, requests of up to two | every position is computed once; the budget holds; a spoiled sequence stays as it is |
| `generation` | two sessions over two stages on two workers; equal or different sequence IDs; lost and late calls, a restart | a confirmed cleanup leaves nothing; tokens are the session's own |
| `placement` | three workers, three layers; a link and two executions that are measured | plans rest on the evidence of their time and are the best there are |
| `swarmd` | two processes of the daemon at one endpoint, in the mesh or not, that follow each other; a forwarded request that may be bound to either, and a one-shot one; signal, eviction, failure of the listener and crash at any time | answers say what happened; bound requests stay with their process; the daemon ends when asked, in order, and reports its eviction |
| `stale_snapshot` | 1 worker, 2 callers preparing at once, 3 sequences, no fault | violated: the first disagreement of section 5 |

The type invariants of `Membership`, `PersistentTarget`, `PersistentSupervisor` and `Swarmd` are proved (section 4) and left out of the runs; those of `MeshScheduler`, `ShardWorkerClients` and `Placement` are checked.

The properties in `MeshScheduler`:

- `ShardSlotsRespected`: what is open on a shard, together with what is admitted
  to open there, never exceeds the worker's limit.
- `QuarantineCoversOpen`: a sequence an ambiguous cleanup left open is quarantined
  until membership reports it.
- `LoadReservedUntilReflected`: weights on a worker are in its fresh status, or
  still counted by a reservation or a pending entry.
- `MemoryRespected`: what a worker holds, and is to get, fits its memory.
- `LedgerMatchesHolders`: each counter of the ledger equals what the unfinished
  sequences hold.
- `ReservationsReleased`: a reservation leads to a sequence in its caller's hands
  or back to the ledger.
- `PendingReconcilable`: pending memory can be released by some later status. No run lists it: it does not hold (section 5).

In `Membership`:

- `LeasesKept`: the refinement of `Leases`.
- `LeaseIsOwned`: a live lease is ended or prolonged by calls of its own process alone, also when
  calls of earlier processes arrive late. (Leases of one unit cannot be prolonged in the run; the theorem has both halves for every lease.)
- `OnlyRivalsEvict`: an agent gives up only because another process holds what it claims.
- `RevisionFollowsInventory`: the revision moves with every visible change, with a stale
  status that is fresh again, and with nothing else.
- `FreshMeansRecent`: a status that counts as fresh, for the registry's clock, was recorded by its agent
  at most `FreshnessBound` (twice the lease and a delay) ago.
- `AgentReturns`: a running agent that lost its record holds its lease again, or stops.

In `PersistentClient` and `PersistentTarget`:

- `NotDispatchedMeansNever`: a request reported as not dispatched is nowhere, and never will be.
- `AnswerIsOwn`: an answer reaches the call whose request it answers, also next to requests that
  were given up and IDs chosen by callers.
- `AnswersExpected`: whatever a process still has to answer finds its ID reserved, so a late
  answer does not end the worker.
- `InferenceNeverOutlived`: a process does not survive an inference its caller gave up.
- `CallsReturn`: every call returns once its context has ended.

In `PersistentSupervisor`:

- `AtMostOnce`: a request is executed at most once, a probe at most twice, across replacements.
- `RefusedMeansNever`: a call that is turned away, refused or not dispatched never executes.
- `ObservationsOrdered`: the numbers of two responses give the order of their execution, also next to a predecessor that was not
  killed and still executes.
- `KilledForItsCalls`: a worker that serves is killed only for a call its writer had taken up.
- `CallersReleased`: a caller whose context ends returns, wherever its call is and whatever became of the worker, also one that
  survives its kill and never finishes.

In `Swarmd`:

- `AnswersHonest`: a client that reads a rejection knows that its request was not executed and never will be, one that
  reads success that it was. `OpenSequences`, `closeSequence` and `ensureShard` decide by this what is left to clean up.
- `BoundReached`: a request bound to an instance is executed by that process only, also when another process has the endpoint, or one
  outside the mesh.
- `StopsInOrder`: the worker is stopped when the agent has ended and no request is in progress, unless the grace period of
  the shutdown was over or the listener failed.
- `EvictionReported`: the error of an evicted agent is what `run` returns, whichever goroutine received it.
- `StopsWhenAsked`: after a signal, a one-shot request, an eviction or a failure of the listener the daemon ends.

In `ShardWorkerClients`:

- `ComputedOnce`: a result is what the cache held up to its position with the input of its request
  behind it, and the only result for its position.
- `BudgetRespected`: what the sequences of all shards of a process retain, results kept for
  retries included, is within its budget.
- `PoisonHolds`: a sequence whose last mutation was computed and refused is left as it is until
  it is closed.

In `GenerationSessions`:

- `ConfirmedMeansReleased`: no worker has, or will have, a sequence of a session that reports its
  cleanup as confirmed.
- `CleanupConfirmed`: when every close was answered the cleanup is confirmed, also by
  workers that ended in between.
- `SequencesHeld`: a session that generates keeps its sequence on every stage, whatever other sessions open, roll
  back or clean up under the same public ID.
- `SetupSurvivesRace`: sessions that load the same shards at the same time all find them.
- `OwnTokens`: every answer a session uses is computed, at every stage, from its own prompt and its own
  accepted tokens. Forward requests carry no owner. A session that shares its public ID with another is sure
  of its tokens as long as no worker restarts: afterwards the other may have opened the
  same ID on the empty worker, and only positions tell the two apart.

In `Placement`:

- `PlannedFromEvidence`: a plan is made from the newest unexpired samples accepted by then, in whatever order they
  arrived; from a part of them if a reader with a later clock pruned the store before.
- `PlanOptimal`: the plan is the best of all ways to cut the layers and place the pieces, which are
  enumerated without the dynamic programme; none is reported only when there is none.

**Bounds of the scheduler.** Two sequences are enough for one to be admitted from what another
left behind, and the second snapshot to be of any age. Two shards on one worker
make shard slots and worker-wide limits disagree. `MaxOpenPerShard` is 1 so that
one quarantined slot decides an admission. `Capacity` is 6 (two shards of 2, two
sequences of 1) in `stages`, where slots are the question, so that memory never decides
first, and 5 in `admission`: then two admissions that each load a shard do not both
fit. `RetainedBudget` and `MaxRequests` are 2. `MaxProbed` bounds the observations
after which the agent stops probing: two make a status sampled before and after an operation. A status newer than what lifts a
quarantine needs more than two, so `admission` never sees one lifted by an ordered status, and `stages`, where probing is off, has no late statuses at
all: the theorems `QuarantineSafe` and `ShardSlotsSafe` (section 4) cover both for any number of observations. `MaxPreparing` bounds the callers between
snapshot and lock: `stages` and `stale_snapshot` use 2, the other runs 1. The runs
switch `CHECK_DEADLOCK` off: when every sequence is done and probing has reached its
bound, the model stops.

**Bounds of the membership.** A lease of one unit and calls of at most one unit put every
deadline before, at and after a call. The three agents of `leases` collide in both ways
there are: two share an ID, the third has another ID and their endpoint. A shared instance
is tested in the same disjunction as a shared endpoint. `MaxLate` is 1: one abandoned call is
what can arrive out of turn; two would be handled one after the other.
`leases` has no probes and no delay, because nothing it checks reads a status; it still has
time and expiry. `freshness` has two probes, enough for one to fail after one that
succeeded and the reverse. `RevisionLimit` is 4 in place of 2^64, so that
runs wrap around.

**Bounds of the worker client.** `PipeFrames` is 1: one frame fills the pipe and the next blocks the writer, and the
third waits for the writer. In `direct` the shutdown comes after the other calls ended, though
what they sent may still be under way. `supervisor` has two clients, so the second cannot be
replaced in its turn (its start fails), and the failures it has are those that a replaced worker
shows its supervisor in any case: output that ends, a context that ends, and a kill that fails (`Unkillable` is the first client; the second
has no successor that could meet it). `Impatient` bounds whose contexts end there, the inference's alone: leaving one is what costs the
worker. What a probe or a change leaves in the pipe behind it is in `direct`, and in the theorems. A shutdown that fails has met a worker that failed. In `direct` every kill succeeds, which `InferenceNeverOutlived` assumes. Process faults are spread over the two runs because
`PersistentClient` is the same in both. `CHECK_DEADLOCK` is off: the model stops when all calls have
returned.

**Bounds of the shard worker and the sessions.** Three positions are a prefill of two and a decode, or a prefill and
two decodes: enough for a retry of the mutation before the last. Two tokens tell inputs apart. `MaxOpenPerShard` is 1
in `shard`, and the budget of 6 is filled by the two sequences, on two shards, that one process can then hold. In `generation`
each session generates up to two tokens from a prompt of its own, so both a prefill and a decode pass both stages;
two faults are a lost call and a lost close, or two lost closes; a restart hits between any two calls. Workers have room for both
sessions, because a refused open is already an outcome of every open. `CHECK_DEADLOCK` is off in both: the sessions end, and
clients may have nothing left that is accepted.

**Bounds of the daemon.** Two processes are enough for one to take over the endpoint from the other; a request bound to the first may reach the second. The
forwarded request may be in progress while the other, or anything else, ends the daemon. A request that asks for a shutdown is
answered like one whose body cannot be read (`Admit`), which the forwarded request may be, so `Shutdowns` is empty. `CHECK_DEADLOCK` is off: the last process ends.

**Bounds of placement.** Three layers and three workers give every plan of one, two and three stages, and two partial plans with
the same boundary over different workers and with the same workers in another order. The three inventories differ in
what decides: costs, memory and heads, retained shards and a full shard. The third request has ranges that force a search to be
cut off. `MaxTime` is 2 and `MaxAge` 1, so samples expire; `MaxSamples` is 2 and `MaxSeries` 2, fewer than there are keys.
`CHECK_DEADLOCK` is off since a clock at its bound need not go on.

**Fairness of the scheduler.** `FairSpec` assumes weak fairness of the steps of each admitted
sequence only: `Prepare` runs under `PreparationTimeout`, every stage call under a
deadline and cleanup under its own, so an enabled step is eventually taken or fails.
Nothing is assumed of callers (a prepared sequence may be kept for ever, which is why
the property stops at `prepared`), of probes, or of the network delivering
abandoned calls.

**Fairness of the membership.** `FairSpec` assumes that the ticker of a running agent fires
(its loop waits for nothing but the ticker, the probe result and its own bounded calls), and that
of the heartbeats, and of the registrations, an agent repeats for ever not all are lost (strong fairness of
their answers). Probes need not return: the property shows that the loop does not wait for them.

**Fairness of the worker client.** `PersistentTarget!FairSpec` assumes weak fairness of each call's own
steps, of writer and reader (goroutines run), and of a process that neither hangs nor died. Contexts need not
end and calls need not be made. A process that hangs is not assumed to recover, so
`CallsReturn` is about callers who leave a writer stuck in a full pipe. `PersistentSupervisor!FairSpec` assumes less: as long as some step
of a goroutine or of a process can be taken, one is (`Progress`). Calls are finitely many, so these steps come to an end, and one that
stays possible is taken before. The wait of `restart` has a time limit (`supervisorReapTimeout`), which is why `Replace` need not wait for the client.

**Fairness of the daemon.** `Swarmd!FairSpec` assumes that what `run` does after `Serve` has returned takes its next step when it can, that
`Serve` returns when the listener is closed, that the cancelled agent ends (its loop selects on the context), that the select of the other goroutine takes a case
that is ready, and that `Shutdown` returns after its grace period. Requests need not end and nothing need happen that asks the daemon to stop.

## 4. Proofs

`MeshSchedulerProofs` proves, for every value of the constants that satisfies
`LedgerAssumption` and `SchedulerAssumption`:

- `TypeCorrect`: `Spec => []TypeOK`. `TypeOK` alone is not inductive: an abandoned call carries the
  shard of its stage, which is a shard (and not `NoShard`) only because the
  stages a phase has gone through are stages of the reservation.
  `ProgressPlaced` says so and is proved along with it.
- `LedgerExact`: `Spec => []LedgerMatchesHolders`. With `TypeOK` it is inductive. The argument: the
  counters of a cell are sums over the set of sequences that hold it; a step that
  is neither admission nor release changes neither the set nor the counters
  (`LedgerStable`); admission adds one sequence to the set of each cell it is placed on and its share
  to the counters (`ReserveExact`); release removes it and subtracts
  exactly that share, which the saturating subtraction cannot cut short because
  the sequence is still in the set (`ReleaseExact`, `MonusExact`). The reuse of a retained shard enters
  through `LoadHolders`, the holders that reserved load memory.

It proves further, with `NoConfusion` (a worker that is not listed is no
record of one), what the quarantine is for, under the condition `Steady`: no abandoned call executes after its caller has gone
on (`lateDelivery`), no live daemon loses its lease (`leaseLoss`), and if daemons restart, callers
plan one at a time. Timeouts, failed setups, opens and cleanups, and restarts of workers and daemons may happen at any point. TLC shows
that each part of `Steady` is needed (section 5).

- `QuarantineSafe`: `Spec => []QuarantineCoversOpen`, and even that the quarantine itself holds the sequence, whatever the status reports.
- `ShardSlotsSafe`: `Spec => []ShardSlotsRespected`.

Neither is inductive. The quarantine of a sequence ends when an admission reconciles it with a snapshot, so its invariant
(`QuarantineInv`) has to say why no snapshot does so early:

- every sequence open on a worker belongs to a generation under way, to one that has its close to come, to a cleanup that could not confirm it closed, or to the quarantine
  (`OpenOwned`), and an open under way to a generation that will close it (`CallsPlaced`);
- a quarantine waits for the first status ordered after its cleanup (`QuarantineOrdered`), and a status ordered after the
  cleanup of a sequence that is still open reports it (`StatusesTrue`): at the worker, at its agent, in membership and in every snapshot in use.
  For this observations stay below the minimum that stands for "never" (`ObservationsBounded`), and
  cleanup is observed once, after setup (`ObservedInOrder`);
- a snapshot that does not list a daemon lifts all its quarantines, so such a snapshot must be older than anything placed on it
  (`OldViewsAreEmpty`), which follows from the order of incarnations (`InstancesInOrder`) and from planning alone (`PlansAlone`);
- what is open on a shard and what is admitted to open there fits its limit (`SlotsFit`). A step that does not admit claims no new slot
  (`ClaimsKept`). When a sequence is admitted, each claim is one of a reservation, which the ledger counts (`LedgerExact`), or one of a
  quarantine that the snapshot has not lifted (`AdmissionQuarantines`), which it counts once (`QuarantineCounts`).

About `Membership`, from `MembershipAssumption` (limits are naturals, the lease is positive, an ID and
an instance name one process) and `NoConfusion` (the markers are no records):

- `MembershipProofs!TypeCorrect`: `Spec => []TypeOK`. It needs two more facts: the probes an
  agent started are counted by its status and the probe in flight
  (`ProbesCounted`), and a registration carries a status (`RegistrationsComplete`).
- `MembershipProofs!FreshStatusIsRecent`: `Spec => []FreshMeansRecent`. The invariant (`FreshInv`) follows a sample on its way:
  an agent that has a sample to publish recorded it within its window (`AgentsRecent`), a call under way carries one that is older by at most the
  time it has been under way (`CallsRecent`), and a record one that is older by at most the age of the record (`RecordsRecent`). A sample
  that is published again, after a conflict or to a controller that started again, is only kept as stale.
- `MembershipProofs!KeepsPromises`: `Spec => LeasesKept`. All handlers are reduced to four
  effects on the records (`HandleEffect`): expiry alone, a join, a renewal by the owner,
  a removal by the owner. Expiry does not change who holds a lease (`HolderUnexpired`), a join
  is a `Claim`, everything else is an `End` of some, perhaps no, leases.
- `OwnersOnly` and `EvictionHasRival` (`LeaseIsOwned`, `OnlyRivalsEvict`) follow from the same facts.
- `MembershipProofs!RevisionHonest`: `Spec => RevisionFollowsInventory`. A step of one or two
  never returns to the same revision, wrapped around or not (`RevisionMoves`, with
  `RevisionLimit > 2`), and each handler's claim to have changed something is
  compared with the record it stores (`HandleFollows`).

About the two compositions of `PersistentClient`, from `ClientAssumption`, `NobodyAssumption` and `OutcomeAssumption` (a call that
has not returned is told from every way of returning), for any number of concurrent calls, any number of clients, any size of the
pipe and every fault. `PersistentClientProofs` has what both rest on, for an arbitrary client `g`:

- a request is with the writer, in the pipe, in the process or in its output, and in one of these at most (`Separate`,
  `Distinct`); one that was not handed over, was discarded or refused is in none (`Untouched`); what is on its way has its ID reserved and
  no two reservations share an ID (`Expected`). Together they are `Located(g)`. `ActsLocated` is one lemma for all steps of writer,
  process and reader: they move requests on, execute one only out of the writer or the pipe, and deliver an answer only to the call it
  is of. `ActsElsewhere` is the same for every other client, `CallStepProceeds` for a call in progress, `RegisterLocated` for a
  new one;
- `Settled`: nothing of a call is on its way behind its answer; `Truthful`: what is answered as done was executed;
  `Reported`: what a writer reports follows what it holds; `Fresh`: what is still to be sent, or was refused, was not executed;
- finitely many requests are pending, so one more ID than they can reserve contains a free one (`FreshIDExists`): this is why the
  `CHOOSE` of `FreshID` is defined.

About `PersistentTarget`, for any IDs the callers choose (`PersistentTargetProofs`): `TypeCorrect`, `NeverDispatched`
(`NotDispatchedMeansNever`), `AnswersOwn` (`AnswerIsOwn`), `AnswersFound` (`AnswersExpected`) and `NeverOutlived`
(`InferenceNeverOutlived`). The first client is the only one that moves (`FirstOnly`). `Outlived` adds that only a shutdown awaits the
exit of the process, the one way to end with a context and without a kill; a process that is gone stays so (`DeadStaysDead`).
This theorem, and no other, assumes `Unkillable = {}`: `Call` ignores a kill that fails, and then the process does survive the inference.

About `PersistentSupervisor` (`PersistentSupervisorProofs`), where clients follow each other and a call may be made on two of them:

All of them hold for any set of clients whose processes survive their kill, so next to any number of replaced processes that still execute:

- `SupervisorTypeCorrect` (`TypeOK`). Two invariants carry what follows.
  `Gated`: the call behind the gate, and it alone, is in progress, on the current client. `Succession`: the clients before
  the current one have finished and are read no more, those after it have not been started. That their processes are dead is not
  part of it. So only the current client answers, and what any client still has is of calls made on it or on a later one (`Whereabouts`, `CurrentCalls`).
- `CommandsAtMostOnce` (`AtMostOnce`): a client executes a call once, as one request is in one place (`Separate`, `Fresh`), and a call has left
  traces on the clients it was made on only (`Traced`): its own, and for a probe that was retried one before.
- `RefusedCommandsNever` (`RefusedMeansNever`): a call that was returned is not made again, and a command leaves nothing on the
  clients before its own, as it is made on one client only (`Concluded`, `Traced`).
- `ResponsesOrdered` (`ObservationsOrdered`): `Numbered` says that the call behind the gate is executed on its client after all that were numbered.
  It starts when the call is let in, with nothing executed on that client, and lasts because nothing is executed of a call on the client that
  answered it (`AnsweredRests`); when the call is numbered in its turn, its execution is the later one. What a survivor executes of a
  probe that was retried is not the execution that was numbered.
- `KilledForItsOwn` (`KilledForItsCalls`): a call that ended with the worker at fault was taken up by its writer, or the worker serves
  nobody any more (`Blamed`): a write fails only at a dead process or behind a client that finished, and a report of the writer
  is taken back by nothing (`ReportsStand`). It assumes `IDsGenerated`: swarmd takes the callers' IDs off the requests
  (`cmd/swarmd/main.go:309-310`). A supervisor whose callers chose IDs would kill a living worker for a duplicate.

About `Swarmd`, from `SwarmdAssumption`, for any number of requests and of processes (`SwarmdProofs`):

- `TypeCorrect` (`TypeOK`), with the fact that no request is in a handler of a process that has not begun to serve or is gone (`HandlersServed`).
- `AnswersFollowWork` (`AnswersHonest`). The invariant (`HonestInv`) follows a request: it is untouched, executed and pending nowhere, until it is
  forwarded (`Untouched`); what is written for it is justified by what its call came to (`Justified`), and stays so because nothing forwards it
  again. Steps of `run` leave requests alone (`ApartHonest`).
- `InstanceReached` (`BoundReached`): a request that is being forwarded passed the test of the identity in the process that forwards it, as no request outlives its process.
- `DaemonEndsInOrder` (`StopsInOrder`) and `EvictionNeverLost` (`EvictionReported`), from one invariant about what the goroutines have
  done at each point of `run` (`OrderInv`): `Serve` returns without an error only after the shutdown has begun; the agent has ended when
  the shutdown is awaited, so no later error can miss the last look into the channel; a drained server has no handler running.

About `ShardWorkerClients`, from `ShardAssumption`, `ClientAssumption` (a request has at least one position) and
`NoConfusion`, for any number of processes, shards, sequences and tokens and any limits:

- `ShardWorkerProofs!TypeCorrect`: `Spec => []TypeOK`, which includes the limit of open sequences of a shard and that
  nothing is open on a shard that is not loaded. Every handler is shown to leave the number of open sequences, to lower it or to add
  one below the limit (`ServiceShrinks`, `OpenKeeps`); `AdvancedType` gives the state after a mutation.
- `PositionsComputedOnce`: `Spec => []ComputedOnce`. `ComputedOnce` is about the answers a client got; a result whose
  answer was lost may be answered later, so the invariant (`ComputedInv`) speaks of the answers together with the retained result, and
  adds that a cache is as long as the next position and empty before the prefill. Then a new result starts where
  every earlier one has ended (`ResultsGrow`), and a repetition adds nothing.
- `PoisonLasts`: `Spec => PoisonHolds`, from the invariant that a spoiled cache is in an open sequence whose completed mutation
  is marked as failed (`SpoiledInv`).

About `ExecutionPlan`, `ExecutionPlanProofs!BalancedPlanIsValid`: for distinct targets, at most one for a layer,
`BuildBalancedExecutionPlan` makes a plan `ValidateExecutionPlan` accepts. The boundaries are shown to start at zero, to grow
strictly and to end at the last layer (`Boundaries`), from the division of the layers with a remainder (`Division`).

The finiteness of `Sequences` is assumed (a run makes finitely many calls); the
numbers of workers, shards and incarnations and every limit are arbitrary.

Only model-checked:
`LoadReservedUntilReflected`, `MemoryRespected` (they hold under further restrictions on the faults
and on concurrent callers, which section 5 explains), `BudgetRespected` (its sums over sets would need an induction), the sessions, the profile store and the search of
the planner (a recursion over its rounds), and liveness (`ReservationsReleased`, `AgentReturns`, `CallsReturn`, `CallersReleased`, `StopsWhenAsked`), which the
prover does not handle.

## 5. Where the code and its documentation disagree

The first is a run that TLC finds violated, the second an invariant that fails in a passing run's instance.

1. `stale_snapshot`: reconciling with one caller's newer snapshot releases memory that
   another caller's older snapshot still advertises as available
   (`docs/mesh-placement.md:244-246`).
2. `PendingReconcilable`, listed as an invariant in the configuration of `admission`, fails after five steps: the timeout that ends setup also ends the observation that would
   order the load; its memory then stays pending for the life of the
   incarnation (`docs/mesh-placement.md:257-259`).

Four more appear when the faults of `MeshScheduler` they are named for are added to a passing run:

3. `leaseLoss`: a worker whose lease lapses and that registers again under the same instance comes back with weights, and
   perhaps sequences, that the ledger no longer counts; the status it registers with may have been sampled
   before the load (`docs/mesh-placement.md:246-248`). `LoadReservedUntilReflected`, `QuarantineCoversOpen`, `ShardSlotsRespected` and
   `MemoryRespected` fail then.
4. `workerRestart`: a plan that reuses a retained shard reserves no load memory. If the child restarts before
   setup, setup loads the shard unreserved (same lines). `LoadReservedUntilReflected` fails then.

5. `daemonRestart` with two callers that prepare at the same time: reconciling with a snapshot from before the restart takes the new
   incarnation for one that left, and lifts quarantines that it has in the meantime
   (`docs/mesh-placement.md:251-256`). `QuarantineCoversOpen` fails, and with a third sequence `ShardSlotsRespected`.
6. `lateDelivery`: an abandoned open that executes after its close leaves a sequence that nothing counts. Both fail.

For this reason the passing runs that check `LoadReservedUntilReflected` leave out lost
leases and child restarts (`stages` has the restarts), and those that check `MemoryRespected` have one caller
preparing at a time.

Three more are states of `PersistentSupervisor` without a run of their own. The supervisor is said to reap a failed child before it is replaced
(`docs/persistent-worker-protocol.md:171-173`). A client whose kill or reaping failed finishes with an error that is not the timeout of the
wait (`persistent.go:534-543`, `549-552`), and `restart` starts a successor beside the living process (`supervisor.go:191-200`). With
`Unkillable = {1}` the run `supervisor` goes through these states. No command is executed twice and no response out of order there; the two processes do
share the machine's memory, which nothing accounts for. A probe whose
retry fails too returns that error although the second worker is dead and not replaced, where
`docs/persistent-worker-protocol.md:171-173` has every dead child replaced before the triggering error is
returned. And a change canceled at a process that hangs keeps the pipe full: the calls that
follow are not dispatched, so none of them replaces the process.

Three more are states of the workers, the sessions and placement without a run:

- The comment of `OpenSequences` (`internal/workerproc/sequence.go:75-77`) has cleanup close whatever an open without an answer may
  have opened. A close counts as released when the worker answers that the sequence is not open, so this
  needs the open to be handled first. Frames of one connection are. With `Reordered = TRUE`, which an HTTP proxy with a
  connection for each call allows, `ConfirmedMeansReleased` fails: the close overtakes the abandoned open.
- `docs/mesh-placement.md:113-114` has a snapshot be a function of the accepted samples and its time. `Snapshot` prunes what has expired at *its* time and
  keeps `latestAcceptedAt`: a reader with an earlier clock who comes after one with a later clock misses samples that are fresh for it.
  `PlannedFromEvidence` excepts this case.
- A transfer slower than a byte per second is accepted and its throughput rounds to zero; `validateDistribution` then rejects
  the whole profile, and with it every plan, until the sample expires. `ProfileValid` has the check; the measured
  rates of the run are positive.

## 6. Not modelled

- In the scheduler, time as a quantity, degraded probes and the agent's freshness window: what
  they decide (a status is fresh or not, a lease ends, a worker is not eligible) is a choice of
  the model. `Membership` models them.
- Validation and normalisation of registrations (`registry/types.go`, `http.go`).
- Encoding, size limits and deadlines of frames and of HTTP bodies: a
  deadline is a context that ends, and what cannot be decoded is a call that fails. In `swarmd`, the routes that only read. The grace periods of `finishEOF` and of the reaping are choices:
  the wait of `restart` may time out at any step (`Replace`), and `finishEOF` may give up on the process of an `Unkillable` client (`Finishes`), whether
  its kill failed or took too long. Memory and pipes of a process that survived are the operating system's.
- Clocks that jump: the registry's clock and the agents' run at one speed.
- Overflow of 64-bit byte counters: the scheduler refuses sums that overflow
  before it reserves.
- Estimates are exact: `LoadBytes` and `SequenceBytes` are what the worker then
  uses.
- In the shard worker: the validation of tensors, the stateless forward, and counters that are only reported. Also an error thrown between the
  computation and the end of `advance` (`PersistentShardWorker.swift:754-761`, `786-793`, `888-901`): the one adapter there is checks its input before the first layer
  writes to its cache, `eval` does not throw and no handler turns an error of the tensor runtime into one
  (`Gemma3CheckpointShard.swift:226-300`; such an error ends the process, `EndProcess`), and the position `advance` compares is the first layer's, which the
  computation moved by the length of the input. With an adapter that throws half-way the cache would be ahead of `nextPosition`,
  and every later mutation refused until the sequence is closed.
- In the sessions: the reference worker inside a planned session, `VerifyTrace` and the comparison of logits, the older two-stage `Session`, timings, metrics and failure
  records. In sequence sets, more than one sequence ID in a set: no caller under `internal/generation` has one.
- In plans: the response mode, which the caller chooses for the last stage.
- In placement: the normalisation of requests and labels, percentiles other than the median, and the counts a
  result reports.
- Tensor arithmetic, checkpoint loading, the proof and benchmark drivers and the
  command-line programs, which keep no state the system depends on.

## 7. What could come next

1. Proofs: `ConfirmedMeansReleased` for workers that serve in order (an open that is
   under way has its close behind it, or its session has not confirmed); `LoadReservedUntilReflected`, from `QuarantineInv` and the order of
   load observations.
2. Sessions under the supervisor: `GenerationSessions` over `PersistentSupervisor`, where a worker that restarts is replaced by
   the call that finds it dead.
3. Liveness of the sessions: with workers that answer and contexts that end, every session ends.

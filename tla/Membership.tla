----------------------------- MODULE Membership -----------------------------
(***************************************************************************)
(* The leased membership: the controller's registry                        *)
(* (src/internal/registry/registry.go), one agent per worker daemon        *)
(* (src/cmd/swarmd/membership.go), and the calls between them.  An agent   *)
(* is a single loop: it waits for each call it makes, and records probe    *)
(* results in between.  Calls are answered, lost on the way there or back, *)
(* or abandoned and handled later.  The controller keeps nothing on disk.  *)
(*                                                                         *)
(* Time is counted in units, as what is left of a lease and as the age of  *)
(* a sample: a deadline that has passed and an age past every bound stay   *)
(* what they are, so time itself needs no bound.                           *)
(***************************************************************************)
EXTENDS Integers, FiniteSets

CONSTANTS
    Agents,           \* worker processes, as [id, instance, endpoint]
    Absent,           \* no record, status or probe
    Flying,           \* a probe that is not answered yet
    LeaseTTL,         \* Registry.ttl, longer than the heartbeat interval
    MaxDelay,         \* how long a call may be under way
    MaxProbes,        \* bound: probes an agent starts
    MaxLate,          \* bound: calls on their way that nobody waits for
    RevisionLimit,    \* 2^64: the revision is a uint64
    Faults            \* what may go wrong in a run, a subset of FaultKinds

FaultKinds == {"lost",      \* a call or its answer does not arrive
               "crash",     \* a worker process dies
               "restart"}   \* the controller starts again

IDs == {a.id : a \in Agents}

\* The age no freshness window includes; a status never observed has it too.
Old == LeaseTTL + 1

\* How old a status that counts as fresh can be.
FreshnessBound == 2 * LeaseTTL + MaxDelay

ASSUME MembershipAssumption ==
    /\ LeaseTTL \in Nat \ {0} /\ MaxDelay \in Nat /\ MaxProbes \in Nat /\ MaxLate \in Nat
    /\ RevisionLimit \in Nat /\ RevisionLimit > 2
    /\ Absent \notin Agents
    /\ \A a, b \in Agents : a.id = b.id /\ a.instance = b.instance => a = b
    /\ Faults \subseteq FaultKinds

VARIABLES
    records,          \* Registry.workers
    revision,         \* Registry.revision
    phase,            \* where the process of an agent stands
    cached,           \* agent.registration.Status
    statusPending,    \* agent.statusPending
    sampleAge,        \* time since agent.statusSampledAt
    registered,       \* agent.freshnessWindow > 0
    probe,            \* the probe in flight or its result, or Absent
    network,          \* calls that may still be handled
    recordedAge       \* history: time since a status was recorded by its agent

registryVars == <<records, revision>>
agentVars == <<phase, cached, statusPending, sampleAge, registered, probe>>
vars == <<registryVars, agentVars, network, recordedAge>>

Samples == 1 .. MaxProbes + 1

\* The state a worker reports: the observation it was sampled at, the failed
\* probes before and since, and whether the last probe was answered.
Status == [obs : Samples, failures : 0 .. MaxProbes, healthy : BOOLEAN]

\* Worker: LastSeen and ExpiresAt are what is left of the lease,
\* StatusObservedAt is the age of the status.
Record == [agent : Agents, status : Status, lease : 0 .. LeaseTTL, age : 0 .. Old]

\* status is Absent in a heartbeat that only renews the lease, and in a removal.
\* awaited: the agent still waits for the answer.
Request == [kind : {"register", "heartbeat", "remove"}, agent : Agents,
            status : Status \cup {Absent}, fresh : BOOLEAN,
            awaited : BOOLEAN, waited : 0 .. MaxDelay]

ASSUME NoConfusion == /\ Absent \notin Record \cup Status
                      /\ Flying \notin Status \cup {Absent}

\* leaving and evicted: Run has ended, and the record is being removed.
Phases == {"new", "joining", "running", "leaving", "evicted", "gone"}

TypeOK ==
    /\ records \in [IDs -> Record \cup {Absent}]
    /\ \A x \in IDs : records[x] # Absent => records[x].agent.id = x
    /\ revision \in 0 .. RevisionLimit - 1
    /\ phase \in [Agents -> Phases]
    /\ cached \in [Agents -> Status]
    /\ statusPending \in [Agents -> BOOLEAN]
    /\ sampleAge \in [Agents -> 0 .. Old]
    /\ registered \in [Agents -> BOOLEAN]
    /\ probe \in [Agents -> Status \cup {Absent, Flying}]
    /\ network \subseteq Request
    /\ recordedAge \in [Agents -> [Samples -> 0 .. FreshnessBound + 1]]

Fault(kind) == kind \in Faults

\* newMembershipAgent samples the worker before it registers.
FirstStatus == [obs |-> 1, failures |-> 0, healthy |-> TRUE]

Init ==
    /\ records = [x \in IDs |-> Absent]
    /\ revision = 0
    /\ phase = [a \in Agents |-> "new"]
    /\ cached = [a \in Agents |-> FirstStatus]
    /\ statusPending = [a \in Agents |-> TRUE]
    /\ sampleAge = [a \in Agents |-> 0]
    /\ registered = [a \in Agents |-> FALSE]
    /\ probe = [a \in Agents |-> Absent]
    /\ network = {}
    /\ recordedAge = [a \in Agents |-> [n \in Samples |-> FreshnessBound + 1]]

-----------------------------------------------------------------------------
(***************************************************************************)
(* The registry.  Every handler runs under Registry.mu and starts with the *)
(* expiry of all overdue leases.                                           *)
(***************************************************************************)
Expired(r) == r # Absent /\ r.lease = 0

Overdue == {x \in IDs : Expired(records[x])}

\* expireLocked: one revision for the whole batch.
Unexpired == [x \in IDs |-> IF x \in Overdue THEN Absent ELSE records[x]]

Bumps(changed) == IF changed THEN 1 ELSE 0

\* StatusFresh with the registry's own TTL.
StatusFresh(r) == r.age <= LeaseTTL

\* Slip: an expiry noticed by a handler does not count.
StoreQuiet(new, changed) ==
    /\ records' = new
    /\ revision' = (revision + Bumps(changed)) % RevisionLimit

\* A handler leaves new records behind; changed counts its own revision.
Store(new, changed) ==
    /\ records' = new
    /\ revision' = (revision + Bumps(Overdue # {}) + Bumps(changed)) % RevisionLimit

\* The worker IDs, other than its own, that keep a registration out.
Rivals(a) ==
    {x \in IDs \ {a.id} : /\ Unexpired[x] # Absent
                          /\ \/ Unexpired[x].agent.instance = a.instance
                             \/ Unexpired[x].agent.endpoint = a.endpoint}

\* Slip: a process takes the ID of another over.
RegisterAnswerTakeOver(a) == IF Rivals(a) # {} THEN "duplicate" ELSE "ok"

\* Register.  The status counts as observed now only if it is marked fresh; a
\* record that exists keeps its own status otherwise.
RegisterAnswer(a) ==
    IF Rivals(a) # {} THEN "duplicate"
    ELSE IF Unexpired[a.id] # Absent /\ Unexpired[a.id].agent.instance # a.instance
    THEN "duplicate" ELSE "ok"

HandleRegister(m) ==
    LET a == m.agent
        old == Unexpired[a.id]
        joined == [agent |-> a, status |-> m.status, lease |-> LeaseTTL,
                   age |-> IF m.fresh THEN 0 ELSE Old]
        refreshed == IF m.fresh THEN joined
                     ELSE [joined EXCEPT !.status = old.status, !.age = old.age]
    IN IF RegisterAnswer(a) # "ok" THEN Store(Unexpired, FALSE)
       ELSE IF old = Absent THEN Store([Unexpired EXCEPT ![a.id] = joined], TRUE)
       ELSE Store([Unexpired EXCEPT ![a.id] = refreshed],
                  \/ <<old.agent, old.status>> # <<a, refreshed.status>>
                  \/ m.fresh /\ ~StatusFresh(old))

\* Slip: the instance is not compared.
OwnerAnswerByID(a) ==
    IF Expired(records[a.id]) THEN "expired"
    ELSE IF records[a.id] = Absent THEN "missing" ELSE "ok"

\* Heartbeat and Remove tell an overdue lease from a missing one, and check the
\* instance of a live one.
OwnerAnswer(a) ==
    IF Expired(records[a.id]) THEN "expired"
    ELSE IF records[a.id] = Absent THEN "missing"
    ELSE IF records[a.id].agent.instance # a.instance THEN "stale" ELSE "ok"

\* The overdue record of the caller's own ID is deleted with a revision of its
\* own, before the others.
StoreExpired(x) ==
    /\ records' = Unexpired
    /\ revision' = (revision + 1 + Bumps(Overdue # {x})) % RevisionLimit

Renewed(r) == [r EXCEPT !.lease = LeaseTTL]

\* Slip: only a new status changes the inventory, not one that is fresh again.
PublishedContent(x, status) ==
    Store([Unexpired EXCEPT ![x] = [Renewed(records[x]) EXCEPT !.status = status, !.age = 0]],
          records[x].status # status)

Published(x, status) ==
    Store([Unexpired EXCEPT ![x] = [Renewed(records[x]) EXCEPT !.status = status, !.age = 0]],
          records[x].status # status \/ ~StatusFresh(records[x]))

HandleHeartbeat(m) ==
    LET x == m.agent.id IN
    CASE OwnerAnswer(m.agent) = "expired" -> StoreExpired(x)
      [] OwnerAnswer(m.agent) \in {"missing", "stale"} -> Store(Unexpired, FALSE)
      [] OTHER -> IF m.status # Absent THEN Published(x, m.status)
                  ELSE Store([Unexpired EXCEPT ![x] = Renewed(records[x])], FALSE)

HandleRemove(m) ==
    LET x == m.agent.id
    IN CASE OwnerAnswer(m.agent) = "expired" -> StoreExpired(x)
         [] OwnerAnswer(m.agent) \in {"missing", "stale"} -> Store(Unexpired, FALSE)
         [] OTHER -> Store([Unexpired EXCEPT ![x] = Absent], TRUE)

Handle(m) ==
    \/ m.kind = "register" /\ HandleRegister(m)
    \/ m.kind = "heartbeat" /\ HandleHeartbeat(m)
    \/ m.kind = "remove" /\ HandleRemove(m)

Answer(m) == IF m.kind = "register" THEN RegisterAnswer(m.agent) ELSE OwnerAnswer(m.agent)

\* A planner, or anybody else, reads the inventory.
Snapshot ==
    /\ Overdue # {}
    /\ Store(Unexpired, FALSE)
    /\ UNCHANGED <<agentVars, network, recordedAge>>

\* The controller starts again, with nothing.
ControllerRestart ==
    /\ Fault("restart")
    /\ records' = [x \in IDs |-> Absent]
    /\ revision' = 0
    /\ UNCHANGED <<agentVars, network, recordedAge>>

-----------------------------------------------------------------------------
(***************************************************************************)
(* The agent.                                                              *)
(***************************************************************************)
Call(kind, a, status, fresh) ==
    [kind |-> kind, agent |-> a, status |-> status, fresh |-> fresh,
     awaited |-> TRUE, waited |-> 0]

Waiting(a) == \E m \in network : m.agent = a /\ m.awaited

\* Slip: a sample is pending however old it is.
StatusPendingForever(a) == statusPending[a]

\* freshStatusPending: a sample older than the window is not published as fresh.
FreshStatusPending(a) ==
    statusPending[a] /\ ~(registered[a] /\ sampleAge[a] > LeaseTTL)

RegisterCall(a) == Call("register", a, cached[a], FreshStatusPending(a))
HeartbeatCall(a) ==
    Call("heartbeat", a, IF FreshStatusPending(a) THEN cached[a] ELSE Absent,
         FreshStatusPending(a))
RemoveCall(a) == Call("remove", a, Absent, FALSE)

\* swarmd starts: it samples its worker and joins.
Start(a) ==
    /\ phase[a] = "new"
    /\ phase' = [phase EXCEPT ![a] = "joining"]
    /\ recordedAge' = [recordedAge EXCEPT ![a][1] = 0]
    /\ sampleAge' = [sampleAge EXCEPT ![a] = 0]
    /\ network' = network \cup {RegisterCall(a)}
    /\ UNCHANGED <<registryVars, cached, statusPending, registered, probe>>

ProbesStarted(a) ==
    cached[a].obs - 1 + cached[a].failures + (IF probe[a] = Absent THEN 0 ELSE 1)

\* Slip: no heartbeat is sent while a probe is in flight.
TickerWaitsForProbe(a) ==
    /\ phase[a] = "running" /\ ~Waiting(a)
    /\ probe[a] = Absent
    /\ probe' = IF ProbesStarted(a) < MaxProbes THEN [probe EXCEPT ![a] = Flying] ELSE probe
    /\ statusPending' = [statusPending EXCEPT ![a] = FreshStatusPending(a)]
    /\ network' = network \cup {HeartbeatCall(a)}
    /\ UNCHANGED <<registryVars, phase, cached, sampleAge, registered, recordedAge>>

\* Run, the ticker: probe unless a probe is in flight, then heartbeat.  Past the
\* bound the probe in flight is one the worker never answers.
TickerFires(a) ==
    /\ phase[a] = "running" /\ ~Waiting(a)
    /\ probe' = IF probe[a] = Absent /\ ProbesStarted(a) < MaxProbes
                THEN [probe EXCEPT ![a] = Flying] ELSE probe
    /\ statusPending' = [statusPending EXCEPT ![a] = FreshStatusPending(a)]
    /\ network' = network \cup {HeartbeatCall(a)}
    /\ UNCHANGED <<registryVars, phase, cached, sampleAge, registered, recordedAge>>

\* probeStatus: the worker answers, or the previous status is degraded.
ProbeAnswered(a) ==
    /\ probe[a] = Flying
    /\ probe' = [probe EXCEPT ![a] =
         [cached[a] EXCEPT !.obs = @ + 1, !.healthy = TRUE]]
    /\ UNCHANGED <<registryVars, phase, cached, statusPending, sampleAge, registered,
                   network, recordedAge>>

ProbeFails(a) ==
    /\ probe[a] = Flying
    /\ probe' = [probe EXCEPT ![a] =
         [cached[a] EXCEPT !.failures = @ + 1, !.healthy = FALSE]]
    /\ UNCHANGED <<registryVars, phase, cached, statusPending, sampleAge, registered,
                   network, recordedAge>>

\* Run, the probe result: recordStatus stamps it with the time it is recorded.
RecordStatus(a) ==
    /\ phase[a] = "running" /\ ~Waiting(a)
    /\ probe[a] \in Status
    /\ cached' = [cached EXCEPT ![a] = probe[a]]
    /\ statusPending' = [statusPending EXCEPT ![a] = TRUE]
    /\ sampleAge' = [sampleAge EXCEPT ![a] = 0]
    /\ recordedAge' = [recordedAge EXCEPT ![a][probe[a].obs] =
                         IF probe[a].healthy THEN 0 ELSE @]
    /\ probe' = [probe EXCEPT ![a] = Absent]
    /\ UNCHANGED <<registryVars, phase, registered, network>>

\* Slip: an agent the controller does not know any more gives up.
RejoinsExpired(answer) == answer = "expired"

Rejoins(answer) == answer \in {"expired", "missing"}

\* The agent goes on after its call m ended with an answer or an error, and the
\* network holds left.  A rejected join ends the process at once; a rejected
\* heartbeat or re-registration ends Run, whose last call removes the record.
Continues(m, answer, left) ==
    LET a == m.agent
        Proceed(p, pending, calls) ==
          /\ phase' = [phase EXCEPT ![a] = p]
          /\ statusPending' = [statusPending EXCEPT ![a] = pending]
          /\ network' = left \cup calls
    IN /\ \/ /\ m.kind = "register" /\ answer = "ok"
             /\ Proceed("running", FALSE, {})
          \/ /\ m.kind = "register" /\ answer # "ok" /\ phase[a] = "joining"
             /\ Proceed("gone", statusPending[a], {})
          \/ /\ m.kind = "register" /\ answer = "duplicate" /\ phase[a] = "running"
             /\ Proceed("evicted", statusPending[a], {RemoveCall(a)})
          \/ /\ m.kind = "heartbeat" /\ answer = "ok"
             /\ Proceed("running", statusPending[a] /\ m.status = Absent, {})
          \/ /\ m.kind = "heartbeat" /\ Rejoins(answer)
             /\ Proceed("running", FreshStatusPending(a), {RegisterCall(a)})
          \/ /\ m.kind = "heartbeat" /\ answer \notin {"ok", "error"} /\ ~Rejoins(answer)
             /\ Proceed("evicted", statusPending[a], {RemoveCall(a)})
          \/ /\ m.kind \in {"register", "heartbeat"} /\ answer = "error"
             /\ phase[a] = "running"
             /\ Proceed("running", statusPending[a], {})
          \/ /\ m.kind = "remove"
             /\ Proceed("gone", statusPending[a], {})
       /\ registered' = [registered EXCEPT ![a] =
            @ \/ (m.kind = "register" /\ answer = "ok")]
       /\ UNCHANGED <<cached, sampleAge, probe, recordedAge>>

Answered(m) ==
    /\ m.awaited
    /\ Handle(m)
    /\ Continues(m, Answer(m), network \ {m})

\* The call is handled, and its answer does not arrive.
AnswerLost(m) ==
    /\ Fault("lost")
    /\ m.awaited
    /\ Handle(m)
    /\ Continues(m, "error", network \ {m})

Late == {m \in network : ~m.awaited}

\* What the network may hold once nobody waits for m: it is lost, or on its way.
Forsaken(m) ==
    {network \ {m}} \cup
    (IF Cardinality(Late) < MaxLate
     THEN {(network \ {m}) \cup {[m EXCEPT !.awaited = FALSE]}} ELSE {})

\* The call times out before it is handled.
TimesOut(m) ==
    /\ m.awaited
    /\ Fault("lost")
    /\ \E left \in Forsaken(m) : Continues(m, "error", left)
    /\ UNCHANGED registryVars

HandledLate(m) ==
    /\ ~m.awaited
    /\ Handle(m)
    /\ network' = network \ {m}
    /\ UNCHANGED <<agentVars, recordedAge>>

\* swarmd shuts down: the call in flight is cancelled and the record removed.
Stop(a) ==
    /\ phase[a] = "running"
    /\ phase' = [phase EXCEPT ![a] = "leaving"]
    /\ \/ /\ ~Waiting(a)
          /\ network' = network \cup {RemoveCall(a)}
       \/ \E m \in network :
            /\ m.agent = a /\ m.awaited
            /\ \E left \in Forsaken(m) : network' = left \cup {RemoveCall(a)}
    /\ UNCHANGED <<registryVars, cached, statusPending, sampleAge, registered, probe, recordedAge>>

\* The process dies.
Crash(a) ==
    /\ Fault("crash")
    /\ phase[a] \in {"joining", "running", "leaving", "evicted"}
    /\ phase' = [phase EXCEPT ![a] = "gone"]
    /\ \/ ~Waiting(a) /\ UNCHANGED network
       \/ \E m \in network :
            m.agent = a /\ m.awaited /\ network' \in Forsaken(m)
    /\ UNCHANGED <<registryVars, cached, statusPending, sampleAge, registered, probe, recordedAge>>

-----------------------------------------------------------------------------
Older(age, limit) == IF age < limit THEN age + 1 ELSE age

\* A unit of time; calls end within MaxDelay.
Tick ==
    /\ \A m \in network : m.waited < MaxDelay
    /\ records' = [x \in IDs |->
         IF records[x] = Absent THEN Absent
         ELSE [records[x] EXCEPT !.lease = IF @ > 0 THEN @ - 1 ELSE 0,
                                 !.age = Older(@, Old)]]
    /\ sampleAge' = [a \in Agents |-> Older(sampleAge[a], Old)]
    /\ recordedAge' = [a \in Agents |-> [n \in Samples |->
                         Older(recordedAge[a][n], FreshnessBound + 1)]]
    /\ network' = {[m EXCEPT !.waited = @ + 1] : m \in network}
    /\ UNCHANGED <<revision, phase, cached, statusPending, registered, probe>>

AgentStep(a) ==
    \/ Start(a) \/ TickerFires(a) \/ ProbeAnswered(a) \/ ProbeFails(a) \/ RecordStatus(a)
    \/ Stop(a) \/ Crash(a)

CallStep(m) == Answered(m) \/ AnswerLost(m) \/ TimesOut(m) \/ HandledLate(m)

Next ==
    \/ \E a \in Agents : AgentStep(a)
    \/ \E m \in network : CallStep(m)
    \/ Snapshot \/ ControllerRestart \/ Tick

Spec == Init /\ [][Next]_vars

\* The ticker of a running agent fires, and of the calls an agent repeats for
\* ever not all are lost.
AnsweredCall(a, kind) ==
    \E m \in network : m.agent = a /\ m.kind = kind /\ Answered(m)

FairSpec ==
    /\ Spec
    /\ \A a \in Agents : /\ WF_vars(TickerFires(a))
                         /\ SF_vars(AnsweredCall(a, "heartbeat"))
                         /\ SF_vars(AnsweredCall(a, "register"))

-----------------------------------------------------------------------------
(***************************************************************************)
(* Properties.                                                             *)
(***************************************************************************)
Holder(x) ==
    IF records[x] # Absent /\ records[x].lease > 0 THEN records[x].agent ELSE Absent

\* The membership keeps the promises of Leases: no take-over of a live lease and
\* no two holders with one instance or endpoint, although several leases may
\* lapse and one of their IDs be claimed within the same call.
L == INSTANCE Leases WITH NoOne <- Absent, holder <- [x \in IDs |-> Holder(x)]

LeasesKept == L!Spec

\* A live lease is shortened by its own agent or by the loss of the controller,
\* and prolonged by its own agent alone: a late call of a process that used the
\* ID before never touches the lease of the next one.
LeaseIsOwned ==
    [][\A x \in IDs :
         LET old == records[x]
             new == records'[x]
             called(kinds) == \E m \in network : m.agent = old.agent /\ m.kind \in kinds
         IN old # Absent /\ old.lease > 0 =>
              /\ new = Absent => called({"remove"}) \/ ControllerRestart
              /\ new # Absent /\ new.lease > old.lease => called({"register", "heartbeat"})]_vars

\* What a planner sees of a record, where age does not count.
Seen(r) == IF r = Absent THEN {} ELSE {<<r.agent, r.status>>}

\* The revision follows the inventory (docs/mesh-membership.md:57-62): it changes
\* with every change a planner can see and when a stale status becomes fresh
\* again, and stays when a call renews a lease and nothing else.
RevisionFollowsInventory ==
    [][\/ ControllerRestart
       \/ LET changed == \E x \in IDs :
                  \/ Seen(records'[x]) # Seen(records[x])
                  \/ /\ records[x] # Absent /\ records'[x] # Absent
                     /\ ~StatusFresh(records[x]) /\ StatusFresh(records'[x])
          IN /\ changed => revision' # revision
             /\ ~changed /\ Overdue = {} => revision' = revision]_vars

\* A status that counts as fresh was recorded by its agent at most this long ago,
\* although the controller stamps it when it arrives, and it may arrive late,
\* twice, or once more after the controller lost the record: the agent's window
\* bounds when it is sent, the registry's how long it counts.
FreshMeansRecent ==
    \A x \in IDs :
      LET r == records[x] IN
      r # Absent /\ StatusFresh(r) /\ r.status.healthy =>
        recordedAge[r.agent][r.status.obs] <= FreshnessBound

\* An agent gives up only because another process holds its ID, instance or
\* endpoint: no lost call, no expiry and no restart of the controller makes it.
OnlyRivalsEvict ==
    [][\A a \in Agents :
         phase[a] = "running" /\ phase'[a] = "evicted" =>
           \E x \in IDs : /\ records[x] # Absent
                         /\ records[x].agent # a
                         /\ \/ x = a.id
                            \/ records[x].agent.instance = a.instance
                            \/ records[x].agent.endpoint = a.endpoint]_vars

\* A running agent that lost its record comes back (docs/mesh-membership.md:98-99):
\* it holds its lease again unless it stops.
AgentReturns ==
    \A a \in Agents :
      phase[a] = "running" ~> phase[a] # "running" \/ Holder(a.id) = a
=============================================================================

-------------------------- MODULE MembershipProofs --------------------------
(***************************************************************************)
(* Proofs about Membership: its type invariant, with what it needs to be   *)
(* inductive; that a status counted as fresh is recent; that the           *)
(* membership keeps the promises of Leases; and that the revision of the   *)
(* registry follows its inventory.                                         *)
(***************************************************************************)
EXTENDS Membership, TLAPS

Registered == [IDs -> Record \cup {Absent}]

\* Every probe an agent started is counted: the observations and failures in its
\* status, and the probe it has in flight, stay within the bound.
ProbesCounted ==
    \A a \in Agents :
      /\ ProbesStarted(a) <= MaxProbes
      /\ probe[a] \in Status =>
           probe[a].obs + probe[a].failures <= cached[a].obs + cached[a].failures + 1

\* A registration carries a status.
RegistrationsComplete ==
    \A m \in network : m.kind = "register" => m.status \in Status

IInv == TypeOK /\ ProbesCounted /\ RegistrationsComplete

USE DEF Fault

-----------------------------------------------------------------------------
\* The revision stays a uint64 (registry.go:106, 122, 143, 166).
LEMMA RevisionType ==
    ASSUME NEW r \in 0 .. RevisionLimit - 1, NEW k \in {0, 1, 2}
    PROVE  (r + k) % RevisionLimit \in 0 .. RevisionLimit - 1
BY MembershipAssumption

LEMMA OldType == Old \in Nat /\ Old > LeaseTTL /\ FreshnessBound \in Nat
BY MembershipAssumption DEF Old, FreshnessBound

\* expireLocked keeps the records whose lease has not ended.
LEMMA UnexpiredRecords ==
    ASSUME TypeOK
    PROVE  /\ Unexpired \in Registered
           /\ \A x \in IDs : Unexpired[x] # Absent =>
                /\ Unexpired[x] = records[x] /\ Unexpired[x] \in Record
                /\ Unexpired[x].lease # 0
                /\ Unexpired[x].agent.id = x
           /\ \A x \in IDs : Unexpired[x] = Absent =>
                records[x] = Absent \/ records[x].lease = 0
BY DEF TypeOK, Unexpired, Overdue, Expired, Registered, Record

\* What the registry holds is well formed.
RegistryType ==
    /\ records \in Registered
    /\ \A x \in IDs : records[x] # Absent => records[x].agent.id = x
    /\ revision \in 0 .. RevisionLimit - 1

LEMMA StoreType ==
    ASSUME TypeOK, NEW new \in Registered, NEW changed \in BOOLEAN,
           \A x \in IDs : new[x] # Absent => new[x].agent.id = x,
           Store(new, changed)
    PROVE  RegistryType'
<1>1. Bumps(Overdue # {}) + Bumps(changed) \in {0, 1, 2}
  BY DEF Bumps
<1>2. revision' = (revision + (Bumps(Overdue # {}) + Bumps(changed))) % RevisionLimit
  BY DEF Store, TypeOK, Bumps
<1>3. revision' \in 0 .. RevisionLimit - 1
  BY <1>1, <1>2, RevisionType DEF TypeOK
<1> QED BY <1>3 DEF Store, RegistryType

LEMMA StoreExpiredType ==
    ASSUME TypeOK, NEW x \in IDs, StoreExpired(x)
    PROVE  RegistryType'
<1>1. 1 + Bumps(Overdue # {x}) \in {0, 1, 2}
  BY DEF Bumps
<1>2. revision' = (revision + (1 + Bumps(Overdue # {x}))) % RevisionLimit
  BY DEF StoreExpired, TypeOK, Bumps
<1>3. revision' \in 0 .. RevisionLimit - 1
  BY <1>1, <1>2, RevisionType DEF TypeOK
<1> QED BY <1>3, UnexpiredRecords DEF StoreExpired, RegistryType

\* A handler of the registry leaves well-formed records (registry.go:63-196).
LEMMA HandleType ==
    ASSUME IInv, NEW m \in network, Handle(m)
    PROVE  RegistryType'
<1> USE DEF IInv
<1>0. m \in Request /\ m.agent \in Agents /\ m.agent.id \in IDs
  BY DEF TypeOK, Request, IDs
<1>1. CASE m.kind = "register" /\ HandleRegister(m)
  <2> DEFINE a == m.agent
             old == Unexpired[a.id]
             joined == [agent |-> a, status |-> m.status, lease |-> LeaseTTL,
                        age |-> IF m.fresh THEN 0 ELSE Old]
             refreshed == IF m.fresh THEN joined
                          ELSE [joined EXCEPT !.status = old.status, !.age = old.age]
  <2>1. joined \in Record
    BY <1>0, <1>1, OldType, MembershipAssumption DEF RegistrationsComplete, Record, Old
  <2>2. old # Absent => refreshed \in Record /\ refreshed.agent = a
    BY <2>1, <1>0, UnexpiredRecords, MembershipAssumption DEF Record
  <2>3. \A r \in Record : r.agent = a =>
          /\ [Unexpired EXCEPT ![a.id] = r] \in Registered
          /\ \A x \in IDs : [Unexpired EXCEPT ![a.id] = r][x] # Absent =>
               [Unexpired EXCEPT ![a.id] = r][x].agent.id = x
    BY <1>0, UnexpiredRecords DEF Registered
  <2>4. CASE RegisterAnswer(a) # "ok"
    BY <1>1, <2>4, StoreType, UnexpiredRecords DEF HandleRegister
  <2>5. CASE RegisterAnswer(a) = "ok" /\ old = Absent
    <3>1. Store([Unexpired EXCEPT ![a.id] = joined], TRUE)
      BY <1>1, <2>5 DEF HandleRegister
    <3> QED BY <3>1, <2>1, <2>3, StoreType
  <2>6. CASE RegisterAnswer(a) = "ok" /\ old # Absent
    <3> DEFINE changed == \/ <<old.agent, old.status>> # <<a, refreshed.status>>
                          \/ m.fresh /\ ~StatusFresh(old)
    <3>1. Store([Unexpired EXCEPT ![a.id] = refreshed], changed)
      BY <1>1, <2>6 DEF HandleRegister
    <3>2. changed \in BOOLEAN
      BY <1>0 DEF StatusFresh, Request
    <3> HIDE DEF changed, refreshed
    <3> QED BY <3>1, <3>2, <2>2, <2>3, <2>6, StoreType
  <2> QED BY <2>4, <2>5, <2>6
<1>2. CASE m.kind = "heartbeat" /\ HandleHeartbeat(m)
  <2> DEFINE x == m.agent.id
  <2>1. CASE OwnerAnswer(m.agent) = "expired"
    BY <1>0, <1>2, <2>1, StoreExpiredType DEF HandleHeartbeat
  <2>2. CASE OwnerAnswer(m.agent) \in {"missing", "stale"}
    BY <1>2, <2>2, StoreType, UnexpiredRecords DEF HandleHeartbeat
  <2>3. CASE OwnerAnswer(m.agent) \notin {"expired", "missing", "stale"}
    <3>1. records[x] \in Record /\ records[x].agent.id = x
      BY <1>0, <2>3 DEF OwnerAnswer, TypeOK
    <3>2. Renewed(records[x]) \in Record /\ Renewed(records[x]).agent.id = x
      BY <3>1, MembershipAssumption DEF Renewed, Record
    <3>3. \A r \in Record : r.agent.id = x =>
            /\ [Unexpired EXCEPT ![x] = r] \in Registered
            /\ \A y \in IDs : [Unexpired EXCEPT ![x] = r][y] # Absent =>
                 [Unexpired EXCEPT ![x] = r][y].agent.id = y
      BY <1>0, UnexpiredRecords DEF Registered
    <3>4. CASE m.status = Absent
      <4>1. Store([Unexpired EXCEPT ![x] = Renewed(records[x])], FALSE)
        BY <1>2, <2>3, <3>4 DEF HandleHeartbeat
      <4> QED BY <4>1, <3>2, <3>3, StoreType
    <3>5. CASE m.status # Absent
      <4> DEFINE r == [Renewed(records[x]) EXCEPT !.status = m.status, !.age = 0]
      <4>0. m.status \in Status /\ 0 \in 0 .. Old
        BY <1>0, <3>5, OldType DEF Request
      <4>1. r \in Record /\ r.agent.id = x
        BY <3>2, <4>0 DEF Record
      <4>2. Store([Unexpired EXCEPT ![x] = r],
                  records[x].status # m.status \/ ~StatusFresh(records[x]))
        BY <1>2, <2>3, <3>5 DEF HandleHeartbeat, Published
      <4>3. (records[x].status # m.status \/ ~StatusFresh(records[x])) \in BOOLEAN
        BY DEF StatusFresh
      <4> HIDE DEF r
      <4> QED BY <4>1, <4>2, <4>3, <3>3, StoreType
    <3> QED BY <3>4, <3>5
  <2> QED BY <2>1, <2>2, <2>3
<1>3. CASE m.kind = "remove" /\ HandleRemove(m)
  <2> DEFINE x == m.agent.id
  <2>1. CASE OwnerAnswer(m.agent) = "expired"
    BY <1>0, <1>3, <2>1, StoreExpiredType DEF HandleRemove
  <2>2. CASE OwnerAnswer(m.agent) \in {"missing", "stale"}
    BY <1>3, <2>2, StoreType, UnexpiredRecords DEF HandleRemove
  <2>3. CASE OwnerAnswer(m.agent) \notin {"expired", "missing", "stale"}
    <3>1. Store([Unexpired EXCEPT ![x] = Absent], TRUE)
      BY <1>3, <2>3 DEF HandleRemove
    <3>2. [Unexpired EXCEPT ![x] = Absent] \in Registered
      BY UnexpiredRecords DEF Registered
    <3>3. \A y \in IDs : [Unexpired EXCEPT ![x] = Absent][y] # Absent =>
            [Unexpired EXCEPT ![x] = Absent][y].agent.id = y
      BY UnexpiredRecords DEF Registered
    <3> QED BY <3>1, <3>2, <3>3, StoreType
  <2> QED BY <2>1, <2>2, <2>3
<1> QED BY <1>1, <1>2, <1>3 DEF Handle

-----------------------------------------------------------------------------
\* What the agents hold is well formed, and so is what they send.
AgentType ==
    /\ phase \in [Agents -> Phases]
    /\ cached \in [Agents -> Status]
    /\ statusPending \in [Agents -> BOOLEAN]
    /\ sampleAge \in [Agents -> 0 .. Old]
    /\ registered \in [Agents -> BOOLEAN]
    /\ probe \in [Agents -> Status \cup {Absent, Flying}]
    /\ recordedAge \in [Agents -> [Samples -> 0 .. FreshnessBound + 1]]

NetworkType(calls) ==
    /\ calls \subseteq Request
    /\ \A m \in calls : m.kind = "register" => m.status \in Status

LEMMA InvParts == IInv <=> RegistryType /\ AgentType /\ ProbesCounted /\ NetworkType(network)
BY DEF IInv, TypeOK, RegistryType, AgentType, NetworkType, RegistrationsComplete, Registered

LEMMA InvPartsNext ==
    ASSUME RegistryType', AgentType', ProbesCounted', NetworkType(network)'
    PROVE  IInv'
BY DEF IInv, TypeOK, RegistryType, AgentType, NetworkType, RegistrationsComplete, Registered

LEMMA InitInv == Init => IInv
<1> SUFFICES ASSUME Init PROVE IInv
  OBVIOUS
<1>1. FirstStatus \in Status
  BY MembershipAssumption DEF FirstStatus, Status, Samples
<1>2. RegistryType
  BY MembershipAssumption DEF Init, RegistryType, Registered
<1>3. AgentType
  BY <1>1, OldType, NoConfusion DEF Init, AgentType, Phases
<1>4. ProbesCounted
  BY <1>1, MembershipAssumption, NoConfusion
     DEF Init, ProbesCounted, ProbesStarted, FirstStatus
<1>5. NetworkType(network)
  BY DEF Init, NetworkType
<1> QED BY <1>2, <1>3, <1>4, <1>5, InvParts

\* The calls an agent makes are requests.
LEMMA CallsType ==
    ASSUME AgentType, NEW a \in Agents
    PROVE  NetworkType({RegisterCall(a), HeartbeatCall(a), RemoveCall(a)})
<1>1. 0 \in 0 .. MaxDelay /\ FreshStatusPending(a) \in BOOLEAN
  BY MembershipAssumption DEF FreshStatusPending, AgentType
<1>2. cached[a] \in Status
  BY DEF AgentType
<1> QED BY <1>1, <1>2 DEF NetworkType, RegisterCall, HeartbeatCall, RemoveCall, Call, Request

LEMMA ForsakenType ==
    ASSUME NetworkType(network), NEW m \in network, NEW left \in Forsaken(m)
    PROVE  NetworkType(left)
<1> DEFINE late == [m EXCEPT !.awaited = FALSE]
<1>1. late \in Request /\ late.kind = m.kind /\ late.status = m.status
  BY DEF NetworkType, Request
<1>2. left = network \ {m} \/ left = (network \ {m}) \cup {late}
  BY DEF Forsaken
<1> HIDE DEF late
<1> QED BY <1>1, <1>2 DEF NetworkType

\* The loop goes on after a call with a well-formed state (membership.go:174-305).
LEMMA ContinuesType ==
    ASSUME AgentType, ProbesCounted, NEW m \in network, m \in Request,
           NEW answer, NEW left, NetworkType(left), Continues(m, answer, left)
    PROVE  AgentType' /\ ProbesCounted' /\ NetworkType(network)'
<1> DEFINE a == m.agent
<1>1. a \in Agents
  BY DEF Request
<1>2. NetworkType({RegisterCall(a), HeartbeatCall(a), RemoveCall(a)})
  BY <1>1, CallsType
<1>3. /\ cached' = cached /\ sampleAge' = sampleAge /\ probe' = probe
      /\ recordedAge' = recordedAge
      /\ registered' \in [Agents -> BOOLEAN]
  BY DEF Continues, AgentType
<1>4. \E p \in Phases, pending \in BOOLEAN,
         calls \in SUBSET {RegisterCall(a), HeartbeatCall(a), RemoveCall(a)} :
        /\ phase' = [phase EXCEPT ![a] = p]
        /\ statusPending' = [statusPending EXCEPT ![a] = pending]
        /\ network' = left \cup calls
  <2>1. statusPending[a] \in BOOLEAN /\ FreshStatusPending(a) \in BOOLEAN
    BY <1>1 DEF AgentType, FreshStatusPending
  <2> QED BY <2>1 DEF Continues, Phases
<1>5. phase' \in [Agents -> Phases] /\ statusPending' \in [Agents -> BOOLEAN]
  BY <1>4 DEF AgentType
<1>6. NetworkType(network)'
  BY <1>2, <1>4 DEF NetworkType
<1> QED BY <1>3, <1>5, <1>6 DEF AgentType, ProbesCounted, ProbesStarted

-----------------------------------------------------------------------------
\* One step per action.
LEMMA NextInv == IInv /\ [Next]_vars => IInv'
<1> SUFFICES ASSUME IInv, [Next]_vars PROVE IInv'
  OBVIOUS
<1> USE DEF registryVars, agentVars
<1>0. RegistryType /\ AgentType /\ ProbesCounted /\ NetworkType(network)
  BY InvParts
<1>1. ASSUME UNCHANGED registryVars PROVE RegistryType'
  BY <1>0, <1>1 DEF RegistryType
<1>2. ASSUME UNCHANGED <<agentVars, recordedAge>> PROVE AgentType' /\ ProbesCounted'
  BY <1>0, <1>2 DEF AgentType, ProbesCounted, ProbesStarted
<1>3. ASSUME NEW a \in Agents, Start(a) PROVE IInv'
  <2>1. 1 \in Samples /\ 0 \in 0 .. FreshnessBound + 1 /\ 0 \in 0 .. Old
    BY OldType, MembershipAssumption DEF Samples
  <2>2. AgentType'
    BY <1>0, <1>3, <2>1 DEF Start, AgentType, Phases
  <2>3. ProbesCounted'
    BY <1>0, <1>3 DEF Start, ProbesCounted, ProbesStarted
  <2>4. NetworkType(network)'
    BY <1>0, <1>3, CallsType DEF Start, NetworkType
  <2> QED BY <1>1, <1>3, <2>2, <2>3, <2>4, InvPartsNext DEF Start
<1>4. ASSUME NEW a \in Agents, TickerFires(a) PROVE IInv'
  <2>1. AgentType'
    BY <1>0, <1>4 DEF TickerFires, AgentType, FreshStatusPending
  <2>2. ProbesCounted'
    <3>1. \A b \in Agents : cached[b].obs \in Nat /\ cached[b].failures \in Nat
      BY <1>0, MembershipAssumption DEF AgentType, Status, Samples
    <3>2. cached' = cached /\ probe' \in [Agents -> Status \cup {Absent, Flying}]
      BY <1>4, <2>1 DEF TickerFires, AgentType
    <3>3. CASE probe' = probe
      BY <1>0, <3>2, <3>3 DEF ProbesCounted, ProbesStarted
    <3>4. CASE /\ probe[a] = Absent /\ ProbesStarted(a) < MaxProbes
               /\ probe' = [probe EXCEPT ![a] = Flying]
      <4>1. ProbesStarted(a) = cached[a].obs - 1 + cached[a].failures
        BY <3>1, <3>4 DEF ProbesStarted
      <4>2. ProbesStarted(a)' = cached[a].obs - 1 + cached[a].failures + 1
        BY <1>0, <3>1, <3>2, <3>4, NoConfusion DEF ProbesStarted, AgentType
      <4>3. ProbesStarted(a)' <= MaxProbes
        BY <3>1, <3>4, <4>1, <4>2, MembershipAssumption
      <4>4. probe'[a] \notin Status
        BY <1>0, <3>4, NoConfusion DEF AgentType
      <4>5. \A b \in Agents \ {a} : probe'[b] = probe[b]
        BY <1>0, <3>4 DEF AgentType
      <4> QED BY <1>0, <3>2, <4>3, <4>4, <4>5 DEF ProbesCounted, ProbesStarted
    <3> QED BY <1>4, <3>3, <3>4 DEF TickerFires
  <2>3. NetworkType(network)'
    BY <1>0, <1>4, CallsType DEF TickerFires, NetworkType
  <2> QED BY <1>1, <1>4, <2>1, <2>2, <2>3, InvPartsNext DEF TickerFires
<1>5. ASSUME NEW a \in Agents, ProbeAnswered(a) \/ ProbeFails(a) PROVE IInv'
  <2>1. /\ cached[a].obs \in Nat /\ cached[a].obs >= 1 /\ cached[a].failures \in Nat
        /\ cached[a] \in Status
    BY <1>0, MembershipAssumption DEF AgentType, Status, Samples
  <2>2. cached[a].obs - 1 + cached[a].failures + 1 <= MaxProbes
    BY <1>0, <1>5, NoConfusion DEF ProbesCounted, ProbesStarted, ProbeAnswered, ProbeFails
  <2> DEFINE answered == [cached[a] EXCEPT !.obs = @ + 1, !.healthy = TRUE]
             failed == [cached[a] EXCEPT !.failures = @ + 1, !.healthy = FALSE]
  <2>3. answered \in Status /\ failed \in Status
    <3>1. /\ cached[a].obs + 1 \in Samples
          /\ cached[a].failures + 1 \in 0 .. MaxProbes
      BY <2>1, <2>2, MembershipAssumption DEF Samples
    <3> QED BY <2>1, <3>1 DEF Status
  <2>4. /\ answered.obs + answered.failures <= cached[a].obs + cached[a].failures + 1
        /\ failed.obs + failed.failures <= cached[a].obs + cached[a].failures + 1
    BY <2>1 DEF Status
  <2>5. /\ probe' = [probe EXCEPT ![a] = answered] \/ probe' = [probe EXCEPT ![a] = failed]
        /\ cached' = cached
    BY <1>5 DEF ProbeAnswered, ProbeFails
  <2> HIDE DEF answered, failed
  <2>6. AgentType'
    BY <1>0, <1>5, <2>3, <2>5 DEF AgentType, ProbeAnswered, ProbeFails
  <2>7. ProbesCounted'
    <3>1. probe'[a] # Absent /\ probe[a] # Absent
      BY <1>0, <1>5, <2>3, <2>5, NoConfusion DEF AgentType, ProbeAnswered, ProbeFails
    <3>2. \A b \in Agents \ {a} : probe'[b] = probe[b]
      BY <1>0, <2>5 DEF AgentType
    <3>3. ProbesStarted(a)' = ProbesStarted(a)
      BY <2>5, <3>1 DEF ProbesStarted
    <3>4. probe'[a] \in {answered, failed}
      BY <1>0, <2>5 DEF AgentType
    <3> QED BY <1>0, <2>4, <2>5, <3>2, <3>3, <3>4 DEF ProbesCounted, ProbesStarted
  <2>8. NetworkType(network)' /\ RegistryType'
    BY <1>0, <1>1, <1>5 DEF NetworkType, ProbeAnswered, ProbeFails
  <2> QED BY <2>6, <2>7, <2>8, InvPartsNext
<1>6. ASSUME NEW a \in Agents, RecordStatus(a) PROVE IInv'
  <2>1. probe[a] \in Status /\ probe[a] # Absent
    BY <1>6, NoConfusion DEF RecordStatus
  <2>2. probe[a].obs \in Samples /\ 0 \in 0 .. Old /\ 0 \in 0 .. FreshnessBound + 1
    BY <2>1, OldType DEF Status
  <2>3. AgentType'
    BY <1>0, <1>6, <2>1, <2>2 DEF RecordStatus, AgentType
  <2>4. ProbesCounted'
    <3>1. /\ cached'[a] = probe[a] /\ probe'[a] = Absent
          /\ \A b \in Agents \ {a} : cached'[b] = cached[b] /\ probe'[b] = probe[b]
      BY <1>0, <1>6 DEF RecordStatus, AgentType
    <3>2. /\ cached[a].obs \in Nat /\ cached[a].failures \in Nat
          /\ probe[a].obs \in Nat /\ probe[a].failures \in Nat
      BY <1>0, <2>1, MembershipAssumption DEF AgentType, Status, Samples
    <3>3. ProbesStarted(a) = cached[a].obs - 1 + cached[a].failures + 1
      BY <2>1 DEF ProbesStarted
    <3>4. ProbesStarted(a)' = probe[a].obs - 1 + probe[a].failures
      BY <3>1, <3>2 DEF ProbesStarted
    <3>5. ProbesStarted(a)' <= MaxProbes
      BY <1>0, <2>1, <3>2, <3>3, <3>4, MembershipAssumption DEF ProbesCounted
    <3> QED BY <1>0, <3>1, <3>5, NoConfusion DEF ProbesCounted, ProbesStarted
  <2>5. NetworkType(network)' /\ RegistryType'
    BY <1>0, <1>1, <1>6 DEF NetworkType, RecordStatus
  <2> QED BY <2>3, <2>4, <2>5, InvPartsNext
<1>7. ASSUME NEW a \in Agents, Stop(a) \/ Crash(a) PROVE IInv'
  <2>1. NetworkType(network)'
    BY <1>0, <1>7, CallsType, ForsakenType DEF Stop, Crash, NetworkType
  <2>2. AgentType' /\ ProbesCounted'
    BY <1>0, <1>7 DEF Stop, Crash, AgentType, Phases, ProbesCounted, ProbesStarted
  <2> QED BY <1>1, <1>7, <2>1, <2>2, InvPartsNext DEF Stop, Crash
<1>8. ASSUME NEW m \in network, CallStep(m) PROVE IInv'
  <2>1. m \in Request /\ NetworkType(network \ {m})
    BY <1>0 DEF NetworkType
  <2>2. CASE Answered(m)
    BY <1>0, <2>1, <2>2, HandleType, ContinuesType, InvPartsNext DEF Answered
  <2>3. CASE AnswerLost(m)
    BY <1>0, <2>1, <2>3, HandleType, ContinuesType, InvPartsNext DEF AnswerLost
  <2>4. CASE TimesOut(m)
    BY <1>0, <1>1, <2>1, <2>4, ForsakenType, ContinuesType, InvPartsNext DEF TimesOut
  <2>5. CASE HandledLate(m)
    BY <1>0, <1>2, <2>1, <2>5, HandleType, InvPartsNext DEF HandledLate
  <2> QED BY <1>8, <2>2, <2>3, <2>4, <2>5 DEF CallStep
<1>9. CASE Snapshot
  <2>1. RegistryType'
    BY <1>0, <1>9, StoreType, UnexpiredRecords DEF Snapshot, IInv
  <2> QED BY <1>0, <1>2, <1>9, <2>1, InvPartsNext DEF Snapshot, NetworkType
<1>10. CASE ControllerRestart
  <2>1. RegistryType'
    BY <1>10, MembershipAssumption DEF ControllerRestart, RegistryType, Registered
  <2> QED BY <1>0, <1>2, <1>10, <2>1, InvPartsNext DEF ControllerRestart, NetworkType
<1>11. CASE Tick
  <2>1. RegistryType'
    <3> DEFINE aged(r) ==
          [r EXCEPT !.lease = IF @ > 0 THEN @ - 1 ELSE 0, !.age = Older(@, Old)]
    <3>1. ASSUME NEW r \in Record PROVE aged(r) \in Record /\ aged(r).agent = r.agent
      <4>1. r.lease \in 0 .. LeaseTTL /\ r.age \in 0 .. Old
        BY DEF Record
      <4>2. /\ (IF r.lease > 0 THEN r.lease - 1 ELSE 0) \in 0 .. LeaseTTL
            /\ Older(r.age, Old) \in 0 .. Old
        BY <4>1, OldType, MembershipAssumption DEF Older
      <4> QED BY <4>2 DEF Record
    <3>2. /\ records' = [x \in IDs |-> IF records[x] = Absent THEN Absent ELSE aged(records[x])]
          /\ revision' = revision
      BY <1>11 DEF Tick
    <3> HIDE DEF aged
    <3>3. \A x \in IDs : records[x] # Absent => records[x] \in Record
      BY <1>0 DEF RegistryType, Registered
    <3> QED BY <1>0, <3>1, <3>2, <3>3 DEF RegistryType, Registered
  <2>2. AgentType'
    <3>1. \A n \in 0 .. Old : Older(n, Old) \in 0 .. Old
      BY OldType DEF Older
    <3>2. \A n \in 0 .. FreshnessBound + 1 :
            Older(n, FreshnessBound + 1) \in 0 .. FreshnessBound + 1
      BY OldType DEF Older
    <3> QED BY <1>0, <1>11, <3>1, <3>2 DEF Tick, AgentType
  <2>3. ProbesCounted'
    BY <1>0, <1>11 DEF Tick, ProbesCounted, ProbesStarted
  <2>4. NetworkType(network)'
    <3>1. ASSUME NEW m \in network
          PROVE  LET n == [m EXCEPT !.waited = @ + 1]
                 IN n \in Request /\ n.kind = m.kind /\ n.status = m.status
      <4>1. m \in Request /\ m.waited \in 0 .. MaxDelay /\ m.waited < MaxDelay
        BY <1>0, <1>11 DEF Tick, NetworkType, Request
      <4>2. m.waited + 1 \in 0 .. MaxDelay
        BY <4>1, MembershipAssumption
      <4> QED BY <4>1, <4>2 DEF Request
    <3>2. network' = {[m EXCEPT !.waited = @ + 1] : m \in network}
      BY <1>11 DEF Tick
    <3> QED BY ZenonT(30), <1>0, <3>1, <3>2 DEF NetworkType
  <2> QED BY <2>1, <2>2, <2>3, <2>4, InvPartsNext
<1>12. CASE UNCHANGED vars
  BY <1>0, <1>1, <1>2, <1>12, InvPartsNext DEF vars, NetworkType
<1> QED
  BY <1>3, <1>4, <1>5, <1>6, <1>7, <1>8, <1>9, <1>10, <1>11, <1>12 DEF Next, AgentStep

\* Every record, status, call and counter of the membership is of its type.
THEOREM TypeCorrect == Spec => []TypeOK
<1>1. Init => IInv
  BY InitInv
<1>2. IInv /\ [Next]_vars => IInv'
  BY NextInv
<1>3. IInv => TypeOK
  BY DEF IInv
<1> QED BY <1>1, <1>2, <1>3, PTL DEF Spec

-----------------------------------------------------------------------------
(***************************************************************************)
(* FreshMeansRecent.  A status is recorded at most sampleAge ago while its *)
(* agent caches it, LeaseTTL and the time under way ago while a call       *)
(* carries it as fresh, and its age longer once the registry stamped it.   *)
(***************************************************************************)
Recent(a, status, limit) == status.healthy => recordedAge[a][status.obs] <= limit

AgentRecent(a) ==
    /\ phase[a] = "running" => registered[a]
    /\ phase[a] = "new" => cached[a].obs = 1
    /\ phase[a] # "new" /\ sampleAge[a] <= LeaseTTL => Recent(a, cached[a], sampleAge[a])

\* Only agents that started make calls, and only registered ones heartbeat; a
\* heartbeat carries a status that is fresh.
CallRecent(m) ==
    /\ phase[m.agent] # "new"
    /\ m.kind = "heartbeat" => registered[m.agent] /\ (m.status # Absent => m.fresh)
    /\ m.fresh /\ m.status # Absent => Recent(m.agent, m.status, LeaseTTL + m.waited)

RecordRecent(r) ==
    r # Absent /\ StatusFresh(r) => Recent(r.agent, r.status, LeaseTTL + MaxDelay + r.age)

AgentsRecent == \A a \in Agents : AgentRecent(a)
CallsRecent(calls) == \A m \in calls : CallRecent(m)
RecordsRecent == \A x \in IDs : RecordRecent(records[x])

FreshInv == IInv /\ AgentsRecent /\ CallsRecent(network) /\ RecordsRecent

LEMMA InitFresh == Init => FreshInv
BY InitInv DEF Init, FreshInv, AgentsRecent, AgentRecent, CallsRecent, RecordsRecent,
               RecordRecent, FirstStatus

\* An age is a number of units.
LEMMA AgeType ==
    ASSUME IInv, NEW a \in Agents, NEW status \in Status
    PROVE  recordedAge[a][status.obs] \in Int
BY OldType DEF IInv, TypeOK, Status

\* The calls of an agent that joined carry its cached status as fresh only inside its
\* window (membership.go:131-150).
LEMMA SentRecent ==
    ASSUME FreshInv, NEW a \in Agents, registered[a], phase[a] # "new"
    PROVE  CallsRecent({RegisterCall(a), HeartbeatCall(a), RemoveCall(a)})
<1>1. cached[a] \in Status /\ sampleAge[a] \in Int
  BY OldType DEF FreshInv, IInv, TypeOK
<1>2. ASSUME FreshStatusPending(a) PROVE Recent(a, cached[a], LeaseTTL + 0)
  <2>1. sampleAge[a] <= LeaseTTL
    BY <1>1, <1>2, MembershipAssumption DEF FreshStatusPending
  <2>2. Recent(a, cached[a], sampleAge[a])
    BY <2>1 DEF FreshInv, AgentsRecent, AgentRecent
  <2>3. recordedAge[a][cached[a].obs] \in Int
    BY <1>1, AgeType DEF FreshInv
  <2> QED BY <1>1, <2>1, <2>2, <2>3, MembershipAssumption DEF Recent
<1>3. CallRecent(RegisterCall(a))
  BY <1>2 DEF CallRecent, RegisterCall, Call
<1>4. CallRecent(HeartbeatCall(a))
  BY <1>2 DEF CallRecent, HeartbeatCall, Call
<1>5. CallRecent(RemoveCall(a))
  BY DEF CallRecent, RemoveCall, Call
<1> QED BY <1>3, <1>4, <1>5 DEF CallsRecent

LEMMA ForsakenRecent ==
    ASSUME IInv, CallsRecent(network), NEW m \in network, NEW left \in Forsaken(m)
    PROVE  CallsRecent(left)
<1> DEFINE late == [m EXCEPT !.awaited = FALSE]
<1>1. m \in Request
  BY DEF IInv, TypeOK
<1>2. /\ late.kind = m.kind /\ late.agent = m.agent /\ late.status = m.status
      /\ late.fresh = m.fresh /\ late.waited = m.waited
  BY <1>1 DEF Request
<1>3. left = network \ {m} \/ left = (network \ {m}) \cup {late}
  BY DEF Forsaken
<1> HIDE DEF late
<1>4. CallRecent(late)
  BY <1>2 DEF CallsRecent, CallRecent
<1> QED BY <1>3, <1>4 DEF CallsRecent

\* expireLocked keeps what it does not drop.
LEMMA UnexpiredRecent ==
    ASSUME FreshInv, NEW x \in IDs
    PROVE  RecordRecent(Unexpired[x])
BY UnexpiredRecords DEF FreshInv, IInv, RecordsRecent, RecordRecent

\* A record the registry stamps with a fresh status is as recent as the call.
LEMMA StampedRecent ==
    ASSUME FreshInv, NEW m \in network, m.fresh, m.status # Absent,
           NEW r, r.agent = m.agent, r.status = m.status, r.age = 0
    PROVE  RecordRecent(r)
<1>1. m \in Request /\ m.agent \in Agents /\ m.status \in Status /\ m.waited \in 0 .. MaxDelay
  BY DEF FreshInv, IInv, TypeOK, Request
<1>2. Recent(m.agent, m.status, LeaseTTL + m.waited)
  BY DEF FreshInv, CallsRecent, CallRecent
<1>3. recordedAge[m.agent][m.status.obs] \in Int
  BY <1>1, AgeType DEF FreshInv
<1> QED BY <1>1, <1>2, <1>3, MembershipAssumption DEF RecordRecent, Recent

\* A handler of the registry never makes a status look younger than it is
\* (registry.go:63-196).
LEMMA HandleRecent ==
    ASSUME FreshInv, NEW m \in network, Handle(m)
    PROVE  \A x \in IDs : RecordRecent(records'[x])
<1> SUFFICES ASSUME NEW x \in IDs PROVE RecordRecent(records'[x])
  OBVIOUS
<1>0. /\ m \in Request /\ m.agent \in Agents /\ m.agent.id \in IDs /\ IInv
      /\ Unexpired \in Registered
  BY UnexpiredRecords DEF FreshInv, IInv, TypeOK, Request, IDs
<1>1. RecordRecent(Unexpired[x]) /\ RecordRecent(Absent)
  BY UnexpiredRecent DEF RecordRecent
<1>2. ASSUME NEW y \in IDs, NEW r, RecordRecent(r), records' = [Unexpired EXCEPT ![y] = r]
      PROVE  RecordRecent(records'[x])
  BY <1>0, <1>1, <1>2 DEF Registered
<1>3. CASE m.kind = "register" /\ HandleRegister(m)
  <2> DEFINE a == m.agent
             old == Unexpired[a.id]
             joined == [agent |-> a, status |-> m.status, lease |-> LeaseTTL,
                        age |-> IF m.fresh THEN 0 ELSE Old]
             refreshed == IF m.fresh THEN joined
                          ELSE [joined EXCEPT !.status = old.status, !.age = old.age]
  <2>1. m.status \in Status /\ m.status # Absent
    BY <1>0, <1>3, NoConfusion DEF IInv, RegistrationsComplete
  <2>2. RecordRecent(joined)
    <3>1. CASE m.fresh
      BY <3>1, <2>1, StampedRecent
    <3>2. CASE ~m.fresh
      BY <3>2, OldType, MembershipAssumption DEF RecordRecent, StatusFresh
    <3> QED BY <3>1, <3>2
  <2>3. ASSUME RegisterAnswer(a) = "ok", old # Absent PROVE RecordRecent(refreshed)
    <3>1. CASE m.fresh
      BY <2>2, <3>1
    <3>2. CASE ~m.fresh
      <4>1. old \in Record /\ old.agent.id = a.id /\ old.agent \in Agents
        BY <1>0, <2>3, UnexpiredRecords DEF IInv, Record
      <4>2. old.agent = a
        BY <1>0, <2>3, <4>1, MembershipAssumption DEF RegisterAnswer
      <4>3. /\ refreshed.agent = old.agent /\ refreshed.status = old.status
            /\ refreshed.age = old.age
        BY <3>2, <4>2
      <4>4. RecordRecent(old)
        BY <1>0, UnexpiredRecent
      <4> HIDE DEF refreshed, old
      <4> QED BY <4>3, <4>4, <2>3 DEF RecordRecent, StatusFresh
    <3> QED BY <3>1, <3>2
  <2>4. \/ records' = Unexpired
        \/ records' = [Unexpired EXCEPT ![a.id] = joined]
        \/ /\ RegisterAnswer(a) = "ok" /\ old # Absent
           /\ records' = [Unexpired EXCEPT ![a.id] = refreshed]
    BY <1>3 DEF HandleRegister, Store
  <2> HIDE DEF joined, refreshed
  <2> QED BY <1>0, <1>1, <1>2, <2>2, <2>3, <2>4
<1>4. CASE m.kind = "heartbeat" /\ HandleHeartbeat(m)
  <2> DEFINE y == m.agent.id
             published == [Renewed(records[y]) EXCEPT !.status = m.status, !.age = 0]
  <2>1. CASE OwnerAnswer(m.agent) \in {"expired", "missing", "stale"}
    <3>1. records' = Unexpired
      BY <1>4, <2>1 DEF HandleHeartbeat, Store, StoreExpired
    <3> QED BY <1>1, <3>1
  <2>2. CASE OwnerAnswer(m.agent) \notin {"expired", "missing", "stale"}
    <3>1. records[y] \in Record /\ records[y] # Absent /\ records[y].agent = m.agent
      BY <1>0, <2>2, MembershipAssumption DEF OwnerAnswer, IInv, TypeOK, Record
    <3>2. RecordRecent(Renewed(records[y]))
      <4>1. RecordRecent(records[y])
        BY <1>0 DEF FreshInv, RecordsRecent
      <4>2. /\ Renewed(records[y]).agent = records[y].agent
            /\ Renewed(records[y]).status = records[y].status
            /\ Renewed(records[y]).age = records[y].age
        BY <3>1 DEF Renewed, Record
      <4> QED BY <3>1, <4>1, <4>2 DEF RecordRecent, StatusFresh
    <3>3. ASSUME m.status # Absent PROVE RecordRecent(published)
      <4>1. /\ published.agent = m.agent /\ published.status = m.status /\ published.age = 0
        BY <3>1 DEF Renewed, Record
      <4>2. m.fresh
        BY <1>4, <3>3 DEF FreshInv, CallsRecent, CallRecent
      <4> HIDE DEF published
      <4> QED BY <3>3, <4>1, <4>2, StampedRecent
    <3>4. \/ m.status # Absent /\ records' = [Unexpired EXCEPT ![y] = published]
          \/ records' = [Unexpired EXCEPT ![y] = Renewed(records[y])]
      BY <1>4, <2>2 DEF HandleHeartbeat, Published, Store
    <3> HIDE DEF published
    <3> QED BY <1>0, <1>2, <3>2, <3>3, <3>4
  <2> QED BY <2>1, <2>2
<1>5. CASE m.kind = "remove" /\ HandleRemove(m)
  <2>1. records' = Unexpired \/ records' = [Unexpired EXCEPT ![m.agent.id] = Absent]
    BY <1>5 DEF HandleRemove, Store, StoreExpired
  <2> QED BY <1>0, <1>1, <1>2, <2>1
<1> QED BY <1>3, <1>4, <1>5 DEF Handle

\* The loop goes on after a call: what is on its way is as fresh as it was, and what
\* the agent sends then is fresh (membership.go:174-305).
LEMMA ContinuesRecent ==
    ASSUME FreshInv, NEW m \in network, NEW answer, NEW left, CallsRecent(left),
           left \subseteq Request, Continues(m, answer, left)
    PROVE  AgentsRecent' /\ CallsRecent(network)'
<1> DEFINE a == m.agent
           sent == {RegisterCall(a), HeartbeatCall(a), RemoveCall(a)}
<1>1. m \in Request /\ a \in Agents /\ CallRecent(m) /\ IInv
  BY DEF FreshInv, IInv, TypeOK, Request, CallsRecent
<1>2. /\ phase \in [Agents -> Phases] /\ registered \in [Agents -> BOOLEAN]
      /\ AgentRecent(a) /\ phase[a] # "new"
  BY <1>1 DEF FreshInv, IInv, TypeOK, AgentsRecent, CallRecent
<1>3. \E p \in Phases \ {"new"}, calls \in SUBSET sent :
        /\ phase' = [phase EXCEPT ![a] = p]
        /\ network' = left \cup calls
        /\ p = "running" => registered[a] \/ (m.kind = "register" /\ answer = "ok")
        /\ calls # {} => registered[a]
  <2>1. m.kind = "heartbeat" => registered[a]
    BY <1>1 DEF CallRecent
  <2>2. phase[a] = "running" => registered[a]
    BY <1>2 DEF AgentRecent
  <2> QED BY <2>1, <2>2 DEF Continues, Phases
<1>4. /\ registered' = [registered EXCEPT ![a] =
             @ \/ (m.kind = "register" /\ answer = "ok")]
      /\ cached' = cached /\ sampleAge' = sampleAge /\ recordedAge' = recordedAge
  BY DEF Continues
<1>5. \A b \in Agents :
        /\ phase'[b] = "new" <=> phase[b] = "new"
        /\ registered[b] => registered'[b]
        /\ phase'[b] = "running" => phase[b] = "running" \/ registered'[b]
  BY <1>1, <1>2, <1>3, <1>4
<1>6. AgentsRecent'
  BY <1>4, <1>5 DEF FreshInv, AgentsRecent, AgentRecent, Recent
<1>7. ASSUME NEW c, c.agent \in Agents, CallRecent(c) PROVE CallRecent(c)'
  BY <1>4, <1>5, <1>7 DEF CallRecent, Recent
<1>8. \A c \in left : CallRecent(c)'
  BY <1>7 DEF CallsRecent, Request
<1>9. ASSUME registered[a], NEW c \in sent PROVE CallRecent(c)'
  <2>1. CallRecent(c)
    BY <1>1, <1>2, <1>9, SentRecent DEF CallsRecent
  <2>2. c.agent = a
    BY <1>9 DEF RegisterCall, HeartbeatCall, RemoveCall, Call
  <2> QED BY <1>1, <1>7, <2>1, <2>2
<1> HIDE DEF sent
<1>10. CallsRecent(network)'
  BY <1>3, <1>8, <1>9 DEF CallsRecent
<1> QED BY <1>6, <1>10

\* What a unit of time makes of a record.
Aged(r) == [r EXCEPT !.lease = IF @ > 0 THEN @ - 1 ELSE 0, !.age = Older(@, Old)]

LEMMA AgedRecord ==
    ASSUME NEW r \in Record
    PROVE  Aged(r).agent = r.agent /\ Aged(r).status = r.status /\ Aged(r).age = Older(r.age, Old)
BY DEF Aged, Record

\* A unit of time: samples and calls age with the history, until they count no more.
LEMMA TickRecent ==
    ASSUME FreshInv, Tick
    PROVE  AgentsRecent' /\ CallsRecent(network)' /\ RecordsRecent'
<1>0. IInv /\ Old \in Nat /\ Old = LeaseTTL + 1 /\ LeaseTTL \in Nat /\ MaxDelay \in Nat
  BY OldType, MembershipAssumption DEF FreshInv, Old
<1>1. ASSUME NEW a \in Agents, NEW status \in Status
      PROVE  /\ recordedAge[a][status.obs] \in Int /\ recordedAge'[a][status.obs] \in Int
             /\ recordedAge'[a][status.obs] <= recordedAge[a][status.obs] + 1
  <2>1. recordedAge'[a][status.obs] = Older(recordedAge[a][status.obs], FreshnessBound + 1)
    BY <1>1 DEF Tick, Status
  <2>2. recordedAge[a][status.obs] \in Int /\ FreshnessBound \in Int
    BY <1>0, AgeType, OldType
  <2> QED BY <2>1, <2>2 DEF Older
<1>2. ASSUME NEW a \in Agents PROVE AgentRecent(a)'
  <2>1. /\ cached[a] \in Status /\ sampleAge[a] \in Int /\ AgentRecent(a)
        /\ sampleAge'[a] = Older(sampleAge[a], Old)
        /\ phase' = phase /\ cached' = cached /\ registered' = registered
    <3>1. cached[a] \in Status /\ sampleAge[a] \in Int /\ AgentRecent(a)
      BY <1>0, <1>2 DEF IInv, TypeOK, FreshInv, AgentsRecent
    <3>2. /\ sampleAge' = [b \in Agents |-> Older(sampleAge[b], Old)]
          /\ phase' = phase /\ cached' = cached /\ registered' = registered
      BY ZenonT(30) DEF Tick
    <3> QED BY <3>1, <3>2
  <2>2. sampleAge'[a] <= LeaseTTL => sampleAge'[a] = sampleAge[a] + 1 /\ sampleAge[a] <= LeaseTTL
    BY <1>0, <2>1 DEF Older
  <2>3. /\ recordedAge[a][cached[a].obs] \in Int /\ recordedAge'[a][cached[a].obs] \in Int
        /\ recordedAge'[a][cached[a].obs] <= recordedAge[a][cached[a].obs] + 1
    BY <1>1, <2>1
  <2> QED BY <2>1, <2>2, <2>3 DEF AgentRecent, Recent
<1>3. ASSUME NEW n \in network' PROVE CallRecent(n)'
  <2>1. PICK m \in network : n = [m EXCEPT !.waited = @ + 1]
    BY DEF Tick
  <2>2. m \in Request /\ m.agent \in Agents /\ m.waited \in Int /\ CallRecent(m)
    BY <1>0 DEF IInv, TypeOK, Request, FreshInv, CallsRecent
  <2>3. /\ n.kind = m.kind /\ n.agent = m.agent /\ n.status = m.status /\ n.fresh = m.fresh
        /\ n.waited = m.waited + 1
    BY <2>1, <2>2 DEF Request
  <2>4. /\ phase'[n.agent] # "new"
        /\ n.kind = "heartbeat" => registered'[n.agent] /\ (n.status # Absent => n.fresh)
    BY <2>2, <2>3 DEF CallRecent, Tick
  <2>5. ASSUME n.fresh, n.status # Absent, n.status.healthy
        PROVE  recordedAge'[n.agent][n.status.obs] <= LeaseTTL + n.waited
    <3>1. m.status \in Status
      BY <2>2, <2>3, <2>5 DEF Request
    <3>2. recordedAge[m.agent][m.status.obs] <= LeaseTTL + m.waited
      BY <2>2, <2>3, <2>5 DEF CallRecent, Recent
    <3>3. /\ recordedAge[m.agent][m.status.obs] \in Int
          /\ recordedAge'[m.agent][m.status.obs] \in Int
          /\ recordedAge'[m.agent][m.status.obs] <= recordedAge[m.agent][m.status.obs] + 1
      BY <1>1, <2>2, <3>1
    <3> QED BY <1>0, <2>2, <2>3, <3>2, <3>3
  <2> QED BY <2>4, <2>5 DEF CallRecent, Recent
<1>4. ASSUME NEW r \in Record, RecordRecent(r), Aged(r).age <= LeaseTTL, r.status.healthy
      PROVE  recordedAge'[r.agent][r.status.obs] <= LeaseTTL + MaxDelay + Aged(r).age
  <2>1. r.agent \in Agents /\ r.status \in Status /\ r.age \in Int /\ r # Absent
    BY <1>4, NoConfusion DEF Record
  <2>2. Aged(r).age = r.age + 1 /\ r.age <= LeaseTTL
    BY <1>0, <1>4, <2>1, AgedRecord DEF Older
  <2>3. recordedAge[r.agent][r.status.obs] <= LeaseTTL + MaxDelay + r.age
    BY <1>4, <2>1, <2>2 DEF RecordRecent, StatusFresh, Recent
  <2>4. /\ recordedAge[r.agent][r.status.obs] \in Int /\ recordedAge'[r.agent][r.status.obs] \in Int
        /\ recordedAge'[r.agent][r.status.obs] <= recordedAge[r.agent][r.status.obs] + 1
    BY <1>1, <2>1
  <2> QED BY <1>0, <2>1, <2>2, <2>3, <2>4
<1>5. ASSUME NEW x \in IDs PROVE RecordRecent(records[x])'
  <2>1. /\ records[x] # Absent => records[x] \in Record
        /\ records'[x] = IF records[x] = Absent THEN Absent ELSE Aged(records[x])
        /\ RecordRecent(records[x])
    BY <1>0, <1>5 DEF Tick, Aged, IInv, TypeOK, FreshInv, RecordsRecent
  <2>2. CASE records[x] = Absent
    BY <2>1, <2>2 DEF RecordRecent
  <2>3. CASE records[x] # Absent
    <3>1. /\ Aged(records[x]).agent = records[x].agent
          /\ Aged(records[x]).status = records[x].status
      BY <2>1, <2>3, AgedRecord
    <3>2. Aged(records[x]).age <= LeaseTTL /\ records[x].status.healthy =>
            recordedAge'[records[x].agent][records[x].status.obs]
              <= LeaseTTL + MaxDelay + Aged(records[x]).age
      BY <1>4, <2>1, <2>3
    <3>3. records'[x] = Aged(records[x])
      BY <2>1, <2>3
    <3> QED BY <3>1, <3>2, <3>3 DEF RecordRecent, StatusFresh, Recent
  <2> QED BY <2>2, <2>3
<1> QED BY <1>2, <1>3, <1>5 DEF AgentsRecent, CallsRecent, RecordsRecent

\* The history only gets younger when a status is recorded.
LEMMA YoungerHistory ==
    ASSUME FreshInv, records' = records,
           \A b \in Agents : \/ recordedAge'[b] = recordedAge[b]
                             \/ \A n \in Samples : recordedAge'[b][n] \in {0, recordedAge[b][n]}
    PROVE  RecordsRecent'
<1> SUFFICES ASSUME NEW x \in IDs, records[x] # Absent, records[x].age <= LeaseTTL,
                    records[x].status.healthy
             PROVE  recordedAge'[records[x].agent][records[x].status.obs]
                      <= LeaseTTL + MaxDelay + records[x].age
  BY DEF RecordsRecent, RecordRecent, StatusFresh, Recent
<1>1. /\ records[x].agent \in Agents /\ records[x].status.obs \in Samples
      /\ records[x].age \in Nat /\ RecordRecent(records[x])
  BY OldType DEF FreshInv, IInv, TypeOK, Record, Status, RecordsRecent
<1>2. recordedAge[records[x].agent][records[x].status.obs]
        <= LeaseTTL + MaxDelay + records[x].age
  BY <1>1 DEF RecordRecent, StatusFresh, Recent
<1>3. LeaseTTL + MaxDelay + records[x].age >= 0
  BY <1>1, MembershipAssumption
<1> QED BY <1>1, <1>2, <1>3

LEMMA NextFresh == FreshInv /\ [Next]_vars => FreshInv'
<1> SUFFICES ASSUME FreshInv, [Next]_vars PROVE FreshInv'
  OBVIOUS
<1> USE DEF registryVars, agentVars
<1>0. /\ IInv /\ IInv' /\ AgentsRecent /\ CallsRecent(network) /\ RecordsRecent
      /\ \A m \in network : m \in Request /\ m.agent \in Agents
  BY NextInv DEF FreshInv, IInv, TypeOK, Request
<1>1. ASSUME UNCHANGED <<records, recordedAge>> PROVE RecordsRecent'
  BY <1>0, <1>1 DEF RecordsRecent, RecordRecent, Recent, StatusFresh
<1>2. ASSUME UNCHANGED <<agentVars, recordedAge>>, network' \subseteq network
      PROVE  AgentsRecent' /\ CallsRecent(network)'
  BY <1>0, <1>2 DEF AgentsRecent, AgentRecent, CallsRecent, CallRecent, Recent
<1>3. ASSUME \A x \in IDs : RecordRecent(records'[x]), recordedAge' = recordedAge
      PROVE  RecordsRecent'
  BY <1>3 DEF RecordsRecent, RecordRecent, Recent, StatusFresh
<1>4. ASSUME NEW a \in Agents, Start(a) PROVE FreshInv'
  <2>1. /\ cached[a].obs = 1 /\ phase[a] = "new" /\ cached[a] \in Status
        /\ phase \in [Agents -> Phases] /\ sampleAge \in [Agents -> 0 .. Old]
        /\ recordedAge \in [Agents -> [Samples -> 0 .. FreshnessBound + 1]]
        /\ 1 \in Samples
    BY <1>0, <1>4, MembershipAssumption
       DEF Start, AgentsRecent, AgentRecent, IInv, TypeOK, Samples
  <2>2. /\ phase'[a] = "joining" /\ sampleAge'[a] = 0 /\ recordedAge'[a][1] = 0
        /\ \A b \in Agents : b # a => /\ phase'[b] = phase[b] /\ sampleAge'[b] = sampleAge[b]
                                      /\ recordedAge'[b] = recordedAge[b]
        /\ \A n \in Samples : recordedAge'[a][n] \in {0, recordedAge[a][n]}
        /\ network' = network \cup {RegisterCall(a)}
        /\ UNCHANGED <<registryVars, cached, registered>>
    BY <1>4, <2>1 DEF Start
  <2>3. ASSUME NEW b \in Agents PROVE AgentRecent(b)'
    <3>1. CASE b = a
      BY <2>1, <2>2, <3>1 DEF AgentRecent, Recent
    <3>2. CASE b # a
      BY <1>0, <2>2, <3>2 DEF AgentsRecent, AgentRecent, Recent
    <3> QED BY <3>1, <3>2
  <2>4. ASSUME NEW m \in network PROVE CallRecent(m)'
    <3>1. CallRecent(m) /\ m.agent \in Agents
      BY <1>0 DEF CallsRecent
    <3>2. m.agent # a
      BY <2>1, <3>1 DEF CallRecent
    <3> QED BY <2>2, <3>1, <3>2 DEF CallRecent, Recent
  <2>5. ASSUME NEW m, m = RegisterCall(a) PROVE CallRecent(m)'
    <3>1. m.kind = "register" /\ m.agent = a /\ m.status = cached[a] /\ m.waited = 0
      BY <2>5 DEF RegisterCall, Call
    <3> QED BY <2>1, <2>2, <3>1, MembershipAssumption DEF CallRecent, Recent
  <2>6. RecordsRecent'
    BY <2>1, <2>2, YoungerHistory
  <2> QED BY <1>0, <2>2, <2>3, <2>4, <2>5, <2>6 DEF FreshInv, AgentsRecent, CallsRecent
<1>5. ASSUME NEW a \in Agents, TickerFires(a) PROVE FreshInv'
  <2>1. registered[a] /\ phase[a] # "new"
    BY <1>0, <1>5 DEF TickerFires, AgentsRecent, AgentRecent
  <2>2. CallsRecent({HeartbeatCall(a)})
    BY <2>1, SentRecent DEF CallsRecent
  <2>3. /\ network' = network \cup {HeartbeatCall(a)}
        /\ UNCHANGED <<registryVars, phase, cached, sampleAge, registered, recordedAge>>
    BY <1>5 DEF TickerFires
  <2>4. AgentsRecent'
    BY <1>0, <2>3 DEF AgentsRecent, AgentRecent, Recent
  <2>5. ASSUME NEW m, CallRecent(m) PROVE CallRecent(m)'
    BY <2>3, <2>5 DEF CallRecent, Recent
  <2>6. CallsRecent(network)'
    BY <1>0, <2>2, <2>3, <2>5 DEF CallsRecent
  <2> QED BY <1>0, <1>1, <2>3, <2>4, <2>6 DEF FreshInv
<1>6. ASSUME NEW a \in Agents, ProbeAnswered(a) \/ ProbeFails(a) PROVE FreshInv'
  <2>1. UNCHANGED <<registryVars, phase, cached, sampleAge, registered, network, recordedAge>>
    BY <1>6 DEF ProbeAnswered, ProbeFails
  <2>2. AgentsRecent' /\ CallsRecent(network)'
    BY <1>0, <2>1 DEF AgentsRecent, AgentRecent, CallsRecent, CallRecent, Recent
  <2> QED BY <1>0, <1>1, <2>1, <2>2 DEF FreshInv
<1>7. ASSUME NEW a \in Agents, RecordStatus(a) PROVE FreshInv'
  <2>1. /\ phase[a] = "running" /\ probe[a] \in Status /\ probe[a].obs \in Samples
        /\ cached \in [Agents -> Status] /\ sampleAge \in [Agents -> 0 .. Old]
        /\ recordedAge \in [Agents -> [Samples -> 0 .. FreshnessBound + 1]]
    BY <1>0, <1>7 DEF RecordStatus, IInv, TypeOK, Status
  <2>2. /\ cached'[a] = probe[a] /\ sampleAge'[a] = 0
        /\ \A b \in Agents : b # a => /\ cached'[b] = cached[b] /\ sampleAge'[b] = sampleAge[b]
                                      /\ recordedAge'[b] = recordedAge[b]
        /\ \A n \in Samples : recordedAge'[a][n] \in {0, recordedAge[a][n]}
        /\ probe[a].healthy => recordedAge'[a][probe[a].obs] = 0
        /\ UNCHANGED <<registryVars, phase, registered, network>>
    BY <1>7, <2>1 DEF RecordStatus
  <2>3. ASSUME NEW b \in Agents, NEW status \in Status, NEW limit \in Int,
               Recent(b, status, limit), limit >= 0
        PROVE  status.healthy => recordedAge'[b][status.obs] <= limit
    BY <2>1, <2>2, <2>3 DEF Recent, Status
  <2>4. ASSUME NEW b \in Agents PROVE AgentRecent(b)'
    <3>1. CASE b = a
      BY <1>0, <2>1, <2>2, <3>1 DEF AgentsRecent, AgentRecent, Recent
    <3>2. CASE b # a
      BY <1>0, <2>2, <3>2 DEF AgentsRecent, AgentRecent, Recent
    <3> QED BY <3>1, <3>2
  <2>5. ASSUME NEW m \in network PROVE CallRecent(m)'
    <3>1. CallRecent(m) /\ m \in Request /\ m.agent \in Agents /\ m.waited \in Nat
      BY <1>0, MembershipAssumption DEF CallsRecent, Request
    <3>2. LeaseTTL + m.waited \in Nat
      BY <3>1, MembershipAssumption
    <3>3. m.fresh /\ m.status # Absent =>
            m.status \in Status /\ Recent(m.agent, m.status, LeaseTTL + m.waited)
      BY <3>1 DEF CallRecent, Request
    <3>4. m.fresh /\ m.status # Absent /\ m.status.healthy =>
            recordedAge'[m.agent][m.status.obs] <= LeaseTTL + m.waited
      BY <2>3, <3>1, <3>2, <3>3
    <3> QED BY <2>2, <3>1, <3>4 DEF CallRecent, Recent
  <2>6. RecordsRecent'
    BY <2>2, YoungerHistory
  <2> QED BY <1>0, <2>2, <2>4, <2>5, <2>6 DEF FreshInv, AgentsRecent, CallsRecent
<1>8. ASSUME NEW a \in Agents, Stop(a) \/ Crash(a) PROVE FreshInv'
  <2>1. /\ UNCHANGED <<registryVars, cached, sampleAge, registered, recordedAge>>
        /\ phase[a] # "new" /\ \E p \in {"leaving", "gone"} : phase' = [phase EXCEPT ![a] = p]
    BY <1>8 DEF Stop, Crash
  <2>2. phase[a] = "running" => registered[a]
    BY <1>0 DEF AgentsRecent, AgentRecent
  <2>3. \A b \in Agents : /\ phase'[b] = "new" <=> phase[b] = "new"
                         /\ phase'[b] = "running" => phase[b] = "running"
    BY <1>0, <2>1 DEF IInv, TypeOK
  <2>4. AgentsRecent'
    BY <1>0, <2>1, <2>3 DEF AgentsRecent, AgentRecent, Recent
  <2>5. ASSUME NEW m, CallRecent(m), m.agent \in Agents PROVE CallRecent(m)'
    BY <2>1, <2>3, <2>5 DEF CallRecent, Recent
  <2>6. /\ CallsRecent({RemoveCall(a)}) /\ RemoveCall(a).agent = a
    BY <2>1 DEF CallsRecent, CallRecent, RemoveCall, Call
  <2>7. \E left : /\ left = network \/ \E m \in network : left \in Forsaken(m)
                  /\ network' \in {left, left \cup {RemoveCall(a)}}
    BY <1>8 DEF Stop, Crash
  <2>8. PICK left : /\ left = network \/ \E m \in network : left \in Forsaken(m)
                    /\ network' \in {left, left \cup {RemoveCall(a)}}
    BY <2>7
  <2>9. CallsRecent(left)
    BY <1>0, <2>8, ForsakenRecent
  <2>10. \A m \in left : m.agent \in Agents
    <3>1. NetworkType(left)
      BY <1>0, <2>8, ForsakenType, InvParts
    <3> QED BY <3>1 DEF NetworkType, Request
  <2>11. CallsRecent(network)'
    BY <2>5, <2>6, <2>8, <2>9, <2>10 DEF CallsRecent
  <2> QED BY <1>0, <1>1, <2>1, <2>4, <2>11 DEF FreshInv
<1>9. ASSUME NEW m \in network, CallStep(m) PROVE FreshInv'
  <2>1. network \subseteq Request /\ CallsRecent(network \ {m})
    BY <1>0 DEF CallsRecent
  <2>2. CASE Answered(m) \/ AnswerLost(m)
    <3>1. /\ Handle(m) /\ \E answer : Continues(m, answer, network \ {m})
      BY <2>2 DEF Answered, AnswerLost
    <3>2. AgentsRecent' /\ CallsRecent(network)' /\ recordedAge' = recordedAge
      BY <2>1, <3>1, ContinuesRecent DEF Continues
    <3> QED BY <1>0, <1>3, <3>1, <3>2, HandleRecent DEF FreshInv
  <2>3. CASE TimesOut(m)
    <3>1. PICK left \in Forsaken(m) : Continues(m, "error", left)
      BY <2>3 DEF TimesOut
    <3>2. CallsRecent(left) /\ left \subseteq Request
      BY <1>0, ForsakenRecent, ForsakenType, InvParts DEF NetworkType
    <3>3. AgentsRecent' /\ CallsRecent(network)' /\ recordedAge' = recordedAge
      BY <3>1, <3>2, ContinuesRecent DEF Continues
    <3> QED BY <1>0, <1>1, <2>3, <3>3 DEF FreshInv, TimesOut
  <2>4. CASE HandledLate(m)
    <3>1. Handle(m) /\ UNCHANGED <<agentVars, recordedAge>> /\ network' \subseteq network
      BY <2>4 DEF HandledLate
    <3> QED BY <1>0, <1>2, <1>3, <3>1, HandleRecent DEF FreshInv
  <2> QED BY <1>9, <2>2, <2>3, <2>4 DEF CallStep
<1>10. CASE Snapshot \/ ControllerRestart
  <2>1. \A x \in IDs : RecordRecent(records'[x])
    <3>1. \A x \in IDs : records'[x] \in {Unexpired[x], Absent}
      BY <1>10 DEF Snapshot, ControllerRestart, Store
    <3> QED BY <3>1, UnexpiredRecent DEF RecordRecent
  <2>2. UNCHANGED <<agentVars, network, recordedAge>>
    BY <1>10 DEF Snapshot, ControllerRestart
  <2> QED BY <1>0, <1>2, <1>3, <2>1, <2>2 DEF FreshInv
<1>11. CASE Tick
  BY <1>0, <1>11, TickRecent DEF FreshInv
<1>12. CASE UNCHANGED vars
  BY <1>0, <1>1, <1>2, <1>12 DEF vars, FreshInv
<1> QED
  BY <1>4, <1>5, <1>6, <1>7, <1>8, <1>9, <1>10, <1>11, <1>12 DEF Next, AgentStep

\* A status the registry counts as fresh was recorded by its agent within the bound
\* (registry.go:88-92, 139-146; membership.go:131-150).
THEOREM FreshStatusIsRecent == Spec => []FreshMeansRecent
<1>1. Init => FreshInv
  BY InitFresh
<1>2. FreshInv /\ [Next]_vars => FreshInv'
  BY NextFresh
<1>3. FreshInv => FreshMeansRecent
  <2> SUFFICES ASSUME FreshInv, NEW x \in IDs, records[x] # Absent, StatusFresh(records[x]),
                      records[x].status.healthy
               PROVE  recordedAge[records[x].agent][records[x].status.obs] <= FreshnessBound
    BY DEF FreshMeansRecent
  <2>1. /\ records[x].age \in 0 .. Old /\ records[x].agent \in Agents
        /\ records[x].status \in Status
    BY DEF FreshInv, IInv, TypeOK, Record
  <2>2. recordedAge[records[x].agent][records[x].status.obs]
          <= LeaseTTL + MaxDelay + records[x].age
    BY DEF FreshInv, RecordsRecent, RecordRecent, Recent
  <2>3. recordedAge[records[x].agent][records[x].status.obs] \in Int
    BY <2>1, AgeType DEF FreshInv
  <2> QED BY <2>1, <2>2, <2>3, MembershipAssumption, OldType DEF StatusFresh, FreshnessBound
<1> QED BY <1>1, <1>2, <1>3, PTL DEF Spec

-----------------------------------------------------------------------------
(***************************************************************************)
(* The membership keeps the promises of Leases, a lease is changed only by *)
(* its owner, and an agent gives up only because of a rival.  The first    *)
(* two follow from what a handler may do to records.                       *)
(***************************************************************************)
\* The lease of ID x that the registry grants anew to the caller.
Granted(m, r) ==
    /\ r \in Record /\ r.agent = m.agent /\ r.lease = LeaseTTL
    /\ records' = [Unexpired EXCEPT ![m.agent.id] = r]

\* A registration joins: the ID is free, and so are its instance and endpoint.
Joins(m) ==
    /\ m.kind = "register" /\ RegisterAnswer(m.agent) = "ok"
    /\ Unexpired[m.agent.id] = Absent
    /\ \E r : Granted(m, r)

\* A live lease is renewed by the process that holds it.
Renews(m) ==
    /\ m.kind \in {"register", "heartbeat"}
    /\ Unexpired[m.agent.id] # Absent /\ Unexpired[m.agent.id].agent = m.agent
    /\ \E r : Granted(m, r)

\* A live lease is given back by the process that holds it.
GivesBack(m) ==
    /\ m.kind = "remove"
    /\ Unexpired[m.agent.id] # Absent /\ Unexpired[m.agent.id].agent = m.agent
    /\ records' = [Unexpired EXCEPT ![m.agent.id] = Absent]

\* An ID and an instance name one process (registry.go:84, 132, 157).
LEMMA SameProcess ==
    ASSUME IInv, NEW a \in Agents, Unexpired[a.id] # Absent,
           Unexpired[a.id].agent.instance = a.instance
    PROVE  Unexpired[a.id].agent = a
<1>1. a.id \in IDs
  BY DEF IDs
<1>2. Unexpired[a.id] \in Record /\ Unexpired[a.id].agent.id = a.id
  BY <1>1, UnexpiredRecords DEF IInv
<1>3. Unexpired[a.id].agent \in Agents
  BY <1>2 DEF Record
<1> QED BY <1>2, <1>3, MembershipAssumption

\* OwnerAnswer lets only the process that holds the lease through.
LEMMA OwnerHolds ==
    ASSUME IInv, NEW a \in Agents, OwnerAnswer(a) \notin {"expired", "missing", "stale"}
    PROVE  /\ Unexpired[a.id] # Absent /\ Unexpired[a.id].agent = a
           /\ Unexpired[a.id] = records[a.id] /\ records[a.id] \in Record
<1>1. a.id \in IDs
  BY DEF IDs
<1>2. /\ ~Expired(records[a.id]) /\ records[a.id] # Absent
      /\ records[a.id].agent.instance = a.instance
  BY DEF OwnerAnswer
<1>3. Unexpired[a.id] = records[a.id]
  BY <1>1, <1>2 DEF Unexpired, Overdue
<1>4. records[a.id] \in Record
  BY <1>1, <1>2, <1>3, UnexpiredRecords DEF IInv
<1> QED BY <1>2, <1>3, <1>4, SameProcess

\* What a handler does to the records (registry.go:63-196).
LEMMA HandleEffect ==
    ASSUME IInv, NEW m \in network, Handle(m)
    PROVE  records' = Unexpired \/ Joins(m) \/ Renews(m) \/ GivesBack(m)
<1>0. m \in Request /\ m.agent \in Agents /\ m.agent.id \in IDs
  BY DEF IInv, TypeOK, Request, IDs
<1>1. CASE m.kind = "register" /\ HandleRegister(m)
  <2> DEFINE a == m.agent
             old == Unexpired[a.id]
             joined == [agent |-> a, status |-> m.status, lease |-> LeaseTTL,
                        age |-> IF m.fresh THEN 0 ELSE Old]
             refreshed == IF m.fresh THEN joined
                          ELSE [joined EXCEPT !.status = old.status, !.age = old.age]
  <2>1. joined \in Record /\ joined.agent = a /\ joined.lease = LeaseTTL
    BY <1>0, <1>1, OldType, MembershipAssumption
       DEF IInv, RegistrationsComplete, Record, Old
  <2>2. old # Absent =>
          refreshed \in Record /\ refreshed.agent = a /\ refreshed.lease = LeaseTTL
    BY <2>1, <1>0, UnexpiredRecords, MembershipAssumption DEF IInv, Record
  <2>3. CASE RegisterAnswer(a) # "ok"
    BY <1>1, <2>3 DEF HandleRegister, Store
  <2>4. CASE RegisterAnswer(a) = "ok" /\ old = Absent
    <3>1. records' = [Unexpired EXCEPT ![a.id] = joined]
      BY <1>1, <2>4 DEF HandleRegister, Store
    <3> QED BY <1>1, <2>1, <2>4, <3>1 DEF Joins, Granted
  <2>5. CASE RegisterAnswer(a) = "ok" /\ old # Absent
    <3>1. records' = [Unexpired EXCEPT ![a.id] = refreshed]
      BY <1>1, <2>5 DEF HandleRegister, Store
    <3>2. old.agent = a
      BY <1>0, <2>5, SameProcess DEF RegisterAnswer
    <3> HIDE DEF refreshed
    <3> QED BY <1>1, <2>2, <2>5, <3>1, <3>2 DEF Renews, Granted
  <2> QED BY <2>3, <2>4, <2>5
<1>2. CASE m.kind = "heartbeat" /\ HandleHeartbeat(m)
  <2> DEFINE x == m.agent.id
  <2>1. CASE OwnerAnswer(m.agent) \in {"expired", "missing", "stale"}
    BY <1>2, <2>1 DEF HandleHeartbeat, Store, StoreExpired
  <2>2. CASE OwnerAnswer(m.agent) \notin {"expired", "missing", "stale"}
    <3>1. Unexpired[x] # Absent /\ Unexpired[x].agent = m.agent /\ records[x] \in Record
          /\ Unexpired[x] = records[x]
      BY <1>0, <2>2, OwnerHolds
    <3>2. CASE m.status = Absent
      <4> DEFINE r == Renewed(records[x])
      <4>1. records' = [Unexpired EXCEPT ![x] = r]
        BY <1>2, <2>2, <3>2 DEF HandleHeartbeat, Store
      <4>2. r \in Record /\ r.agent = m.agent /\ r.lease = LeaseTTL
        BY <3>1, MembershipAssumption DEF Renewed, Record
      <4> HIDE DEF r
      <4> QED BY <1>2, <3>1, <4>1, <4>2 DEF Renews, Granted
    <3>3. CASE m.status # Absent
      <4> DEFINE r == [Renewed(records[x]) EXCEPT !.status = m.status, !.age = 0]
      <4>1. records' = [Unexpired EXCEPT ![x] = r]
        BY <1>2, <2>2, <3>3 DEF HandleHeartbeat, Published, Store
      <4>2. m.status \in Status /\ 0 \in 0 .. Old
        BY <1>0, <3>3, OldType DEF Request
      <4>3. r \in Record /\ r.agent = m.agent /\ r.lease = LeaseTTL
        <5> DEFINE renewed == Renewed(records[x])
        <5>1. renewed \in Record /\ renewed.agent = m.agent /\ renewed.lease = LeaseTTL
          BY <3>1, MembershipAssumption DEF Renewed, Record
        <5>2. r = [renewed EXCEPT !.status = m.status, !.age = 0]
          OBVIOUS
        <5> HIDE DEF renewed, r
        <5> QED BY <4>2, <5>1, <5>2 DEF Record
      <4> HIDE DEF r
      <4> QED BY <1>2, <3>1, <4>1, <4>3 DEF Renews, Granted
    <3> QED BY <3>2, <3>3
  <2> QED BY <2>1, <2>2
<1>3. CASE m.kind = "remove" /\ HandleRemove(m)
  <2>1. CASE OwnerAnswer(m.agent) \in {"expired", "missing", "stale"}
    BY <1>3, <2>1 DEF HandleRemove, Store, StoreExpired
  <2>2. CASE OwnerAnswer(m.agent) \notin {"expired", "missing", "stale"}
    <3>1. Unexpired[m.agent.id] # Absent /\ Unexpired[m.agent.id].agent = m.agent
      BY <1>0, <2>2, OwnerHolds
    <3>2. records' = [Unexpired EXCEPT ![m.agent.id] = Absent]
      BY <1>3, <2>2 DEF HandleRemove, Store
    <3> QED BY <1>3, <3>1, <3>2 DEF GivesBack
  <2> QED BY <2>1, <2>2
<1> QED BY <1>1, <1>2, <1>3 DEF Handle
-----------------------------------------------------------------------------
\* Expiry takes nothing away: an ID is held by the process of its unexpired record.
LEMMA HolderUnexpired ==
    ASSUME IInv, NEW x \in IDs
    PROVE  Holder(x) = IF Unexpired[x] = Absent THEN Absent ELSE Unexpired[x].agent
<1>1. Unexpired[x] # Absent =>
        Unexpired[x] = records[x] /\ records[x].lease \in 0 .. LeaseTTL /\ records[x].lease # 0
  BY UnexpiredRecords DEF IInv, Record
<1>2. Unexpired[x] = Absent => records[x] = Absent \/ records[x].lease = 0
  BY UnexpiredRecords DEF IInv
<1> QED BY <1>1, <1>2, MembershipAssumption DEF Holder

\* Holder is what it is of the next records, once they are known.
LEMMA HolderNext ==
    ASSUME NEW x \in IDs, NEW r \in Record, records'[x] = r, r.lease = LeaseTTL
    PROVE  Holder(x)' = r.agent
<1>1. r # Absent /\ r.lease > 0
  BY NoConfusion, MembershipAssumption
<1> QED BY <1>1 DEF Holder

\* A step that only ends leases is End, the empty set of leases included.
LEMMA OnlyEnds ==
    ASSUME \A x \in IDs : Holder(x)' \in {Holder(x), Absent}
    PROVE  L!Next
<1> DEFINE ended == {x \in IDs : Holder(x)' = Absent}
<1>1. ended \in SUBSET L!IDs
  BY DEF IDs, L!IDs
<1>2. \A x \in IDs : Holder(x)' = IF x \in ended THEN Absent ELSE Holder(x)
  OBVIOUS
<1> HIDE DEF ended
<1>3. [x \in IDs |-> Holder(x)]' =
        [x \in L!IDs |-> IF x \in ended THEN Absent ELSE [y \in IDs |-> Holder(y)][x]]
  BY <1>2 DEF IDs, L!IDs
<1> QED BY <1>1, <1>3 DEF L!Next, L!End

\* A registration that joins is a Claim (registry.go:79-100).
LEMMA JoinClaims ==
    ASSUME IInv, NEW m \in network, Joins(m)
    PROVE  L!Next
<1> DEFINE a == m.agent
<1>0. a \in Agents /\ a.id \in IDs
  BY DEF IInv, TypeOK, Request, IDs
<1>1. PICK r : Granted(m, r)
  BY DEF Joins
<1>2. Holder(a.id) = Absent
  BY <1>0, HolderUnexpired DEF Joins
<1>3. Holder(a.id)' = a
  <2>1. records'[a.id] = r
    BY <1>0, <1>1, UnexpiredRecords DEF Granted, IInv, Registered
  <2> QED BY <1>0, <1>1, <2>1, HolderNext DEF Granted
<1>4. \A x \in IDs \ {a.id} : Holder(x)' = Holder(x)
  <2> TAKE x \in IDs \ {a.id}
  <2>1. records'[x] = Unexpired[x]
    BY <1>0, <1>1, UnexpiredRecords DEF Granted, IInv, Registered
  <2>2. CASE Unexpired[x] = Absent
    BY <2>1, <2>2, HolderUnexpired DEF Holder
  <2>3. CASE Unexpired[x] # Absent
    BY <2>1, <2>3, UnexpiredRecords DEF Holder, IInv
  <2> QED BY <2>2, <2>3
<1>5. \A x \in IDs : Holder(x) # Absent => ~L!Conflicts(Holder(x), a)
  <2> SUFFICES ASSUME NEW x \in IDs, Holder(x) # Absent PROVE ~L!Conflicts(Holder(x), a)
    OBVIOUS
  <2>1. Unexpired[x] # Absent /\ Holder(x) = Unexpired[x].agent
    BY HolderUnexpired
  <2>2. x \notin Rivals(a) /\ x # a.id
    BY <1>2 DEF Joins, RegisterAnswer
  <2> QED BY <2>1, <2>2 DEF Rivals, L!Conflicts
<1>6. [x \in IDs |-> Holder(x)]' = [[x \in IDs |-> Holder(x)] EXCEPT ![a.id] = a]
  BY <1>3, <1>4
<1>7. L!Claim(a)
  BY <1>0, <1>2, <1>5, <1>6 DEF L!Claim, L!IDs, IDs
<1> QED BY <1>0, <1>7 DEF L!Next

\* Every step of the membership ends leases or claims one: records change in
\* handlers, when time passes and when the controller restarts, nowhere else.
LEMMA StepImplements == IInv /\ [Next]_vars => L!Next
<1> SUFFICES ASSUME IInv, [Next]_vars PROVE L!Next
  OBVIOUS
<1>0. ASSUME UNCHANGED records PROVE L!Next
  BY <1>0, OnlyEnds DEF Holder
<1>1. ASSUME NEW m \in network, Handle(m) PROVE L!Next
  <2> DEFINE a == m.agent
  <2>0. a \in Agents /\ a.id \in IDs /\ Unexpired \in Registered
    BY UnexpiredRecords DEF IInv, TypeOK, Request, IDs
  <2>1. ASSUME NEW x \in IDs, records'[x] = Unexpired[x] \/ records'[x] = Absent
        PROVE  Holder(x)' \in {Holder(x), Absent}
    BY <2>1, HolderUnexpired DEF Holder
  <2>2. CASE records' = Unexpired
    BY <2>1, <2>2, OnlyEnds
  <2>3. CASE Joins(m)
    BY <2>3, JoinClaims
  <2>4. CASE Renews(m)
    <3>1. PICK r : Granted(m, r)
      BY <2>4 DEF Renews
    <3>2. Holder(a.id)' = a /\ Holder(a.id) = a
      <4>1. records'[a.id] = r
        BY <2>0, <3>1 DEF Granted, Registered
      <4> QED BY <2>0, <2>4, <3>1, <4>1, HolderNext, HolderUnexpired DEF Granted, Renews
    <3>3. \A x \in IDs \ {a.id} : records'[x] = Unexpired[x]
      BY <2>0, <3>1 DEF Granted, Registered
    <3> QED BY <2>1, <3>2, <3>3, OnlyEnds
  <2>5. CASE GivesBack(m)
    <3>1. \A x \in IDs : records'[x] = Unexpired[x] \/ records'[x] = Absent
      BY <2>0, <2>5 DEF GivesBack, Registered
    <3> QED BY <2>1, <3>1, OnlyEnds
  <2> QED BY <1>1, <2>2, <2>3, <2>4, <2>5, HandleEffect
<1>2. ASSUME NEW a \in Agents, AgentStep(a) PROVE L!Next
  BY <1>0, <1>2 DEF AgentStep, Start, TickerFires, ProbeAnswered, ProbeFails,
                    RecordStatus, Stop, Crash, registryVars
<1>3. ASSUME NEW m \in network, CallStep(m) PROVE L!Next
  BY <1>0, <1>1, <1>3 DEF CallStep, Answered, AnswerLost, TimesOut, HandledLate, registryVars
<1>4. CASE Snapshot
  <2>1. \A x \in IDs : records'[x] = Unexpired[x]
    BY <1>4 DEF Snapshot, Store
  <2> QED BY <2>1, HolderUnexpired, OnlyEnds DEF Holder
<1>5. CASE ControllerRestart
  BY <1>5, OnlyEnds DEF ControllerRestart, Holder
<1>6. CASE Tick
  <2>1. ASSUME NEW x \in IDs PROVE Holder(x)' \in {Holder(x), Absent}
    <3>1. CASE records[x] = Absent
      BY <1>6, <3>1 DEF Tick, Holder
    <3>2. CASE records[x] # Absent
      <4> DEFINE aged == [records[x] EXCEPT !.lease = IF @ > 0 THEN @ - 1 ELSE 0,
                                            !.age = Older(@, Old)]
      <4>1. records[x] \in Record /\ records[x].lease \in 0 .. LeaseTTL
        BY <3>2 DEF IInv, TypeOK, Record
      <4>2. /\ aged.agent = records[x].agent
            /\ aged.lease > 0 => records[x].lease > 0
        BY <4>1 DEF Record
      <4>3. records'[x] = aged
        BY <1>6, <3>2 DEF Tick
      <4> HIDE DEF aged
      <4> QED BY <3>2, <4>2, <4>3 DEF Holder
    <3> QED BY <3>1, <3>2
  <2> QED BY <2>1, OnlyEnds
<1>7. CASE UNCHANGED vars
  BY <1>0, <1>7 DEF vars, registryVars
<1> QED BY <1>2, <1>3, <1>4, <1>5, <1>6, <1>7 DEF Next

\* The registry, its agents and the network keep the promises of Leases: a live
\* lease is never taken over, and no two holders share an instance or endpoint.
THEOREM KeepsPromises == Spec => LeasesKept
<1>1. Init => L!Init
  BY DEF Init, Holder, L!Init, L!IDs, IDs
<1>2. IInv /\ [Next]_vars => L!Next
  BY StepImplements
<1>3. IInv /\ [Next]_vars => IInv'
  BY NextInv
<1>4. Init => IInv
  BY InitInv
<1> QED BY <1>1, <1>2, <1>3, <1>4, PTL DEF Spec, LeasesKept, L!Spec

-----------------------------------------------------------------------------
\* What LeaseIsOwned says of one record.
OwnedChange(x) ==
    LET old == records[x]
        new == records'[x]
        called(kinds) == \E m \in network : m.agent = old.agent /\ m.kind \in kinds
    IN old # Absent /\ old.lease > 0 =>
         /\ new = Absent => called({"remove"}) \/ ControllerRestart
         /\ new # Absent /\ new.lease > old.lease => called({"register", "heartbeat"})

\* A record that expiry alone may touch is not changed while its lease lives.
LEMMA UntouchedChange ==
    ASSUME IInv, NEW x \in IDs, records'[x] = records[x] \/ records'[x] = Unexpired[x]
    PROVE  OwnedChange(x)
<1>1. records[x] # Absent /\ records[x].lease > 0 =>
        records[x].lease \in 0 .. LeaseTTL /\ Unexpired[x] = records[x]
  BY MembershipAssumption DEF IInv, TypeOK, Record, Unexpired, Overdue, Expired
<1>2. records[x] # Absent /\ records[x].lease > 0 =>
        records'[x] = records[x] /\ ~(records[x].lease > records[x].lease)
  BY <1>1
<1> QED BY <1>2 DEF OwnedChange

LEMMA StepOwned == IInv /\ [Next]_vars => \A x \in IDs : OwnedChange(x)
<1> SUFFICES ASSUME IInv, [Next]_vars, NEW x \in IDs PROVE OwnedChange(x)
  OBVIOUS
<1>0. ASSUME UNCHANGED records PROVE OwnedChange(x)
  BY <1>0, UntouchedChange
<1>1. ASSUME NEW m \in network, Handle(m) PROVE OwnedChange(x)
  <2>0. /\ m.agent \in Agents /\ m.agent.id \in IDs /\ Unexpired \in Registered
        /\ Unexpired[x] # Absent => Unexpired[x] = records[x]
    BY UnexpiredRecords DEF IInv, TypeOK, Request, IDs
  <2>1. CASE records' = Unexpired
    BY <2>1, UntouchedChange
  <2>2. CASE Joins(m) \/ Renews(m)
    <3>1. PICK r \in Record : records' = [Unexpired EXCEPT ![m.agent.id] = r]
      BY <2>2 DEF Joins, Renews, Granted
    <3>2. CASE x # m.agent.id
      BY <2>0, <3>1, <3>2, UntouchedChange DEF Registered
    <3>3. CASE x = m.agent.id
      <4>1. records'[x] # Absent
        BY <2>0, <3>1, <3>3, NoConfusion DEF Registered
      <4>2. Joins(m) => records[x] = Absent \/ ~(records[x].lease > 0)
        BY <3>3, UnexpiredRecords DEF Joins, IInv
      <4>3. Renews(m) => records[x].agent = m.agent /\ m.kind \in {"register", "heartbeat"}
        BY <2>0, <3>3 DEF Renews
      <4> QED BY <2>2, <4>1, <4>2, <4>3 DEF OwnedChange
    <3> QED BY <3>2, <3>3
  <2>3. CASE GivesBack(m)
    <3>1. CASE x # m.agent.id
      BY <2>0, <2>3, <3>1, UntouchedChange DEF GivesBack, Registered
    <3>2. CASE x = m.agent.id
      <4>1. records'[x] = Absent /\ records[x].agent = m.agent /\ m.kind \in {"remove"}
        BY <2>0, <2>3, <3>2 DEF GivesBack, Registered
      <4> QED BY <4>1 DEF OwnedChange
    <3> QED BY <3>1, <3>2
  <2> QED BY <1>1, <2>1, <2>2, <2>3, HandleEffect
<1>2. ASSUME NEW a \in Agents, AgentStep(a) PROVE OwnedChange(x)
  BY <1>0, <1>2 DEF AgentStep, Start, TickerFires, ProbeAnswered, ProbeFails,
                    RecordStatus, Stop, Crash, registryVars
<1>3. ASSUME NEW m \in network, CallStep(m) PROVE OwnedChange(x)
  BY <1>0, <1>1, <1>3 DEF CallStep, Answered, AnswerLost, TimesOut, HandledLate, registryVars
<1>4. CASE Snapshot
  BY <1>4, UntouchedChange DEF Snapshot, Store
<1>5. CASE ControllerRestart
  <2>1. records'[x] = Absent
    BY <1>5 DEF ControllerRestart
  <2> QED BY <1>5, <2>1 DEF OwnedChange
<1>6. CASE Tick
  <2>1. CASE records[x] = Absent
    BY <2>1 DEF OwnedChange
  <2>2. CASE records[x] # Absent
    <3> DEFINE aged == [records[x] EXCEPT !.lease = IF @ > 0 THEN @ - 1 ELSE 0,
                                          !.age = Older(@, Old)]
    <3>1. records[x] \in Record /\ records[x].lease \in 0 .. LeaseTTL
      BY <2>2 DEF IInv, TypeOK, Record
    <3>2. aged # Absent /\ ~(aged.lease > records[x].lease)
      <4>1. aged \in Record
        <5>1. /\ (IF records[x].lease > 0 THEN records[x].lease - 1 ELSE 0) \in 0 .. LeaseTTL
              /\ records[x].age \in 0 .. Old /\ Older(records[x].age, Old) \in 0 .. Old
          BY <3>1, OldType, MembershipAssumption DEF Record, Older
        <5> QED BY <3>1, <5>1 DEF Record
      <4>2. ~(aged.lease > records[x].lease)
        BY <3>1, MembershipAssumption DEF Record
      <4> QED BY <4>1, <4>2, NoConfusion
    <3>3. records'[x] = aged
      BY <1>6, <2>2 DEF Tick
    <3> HIDE DEF aged
    <3> QED BY <3>2, <3>3 DEF OwnedChange
  <2> QED BY <2>1, <2>2
<1>7. CASE UNCHANGED vars
  BY <1>0, <1>7 DEF vars, registryVars
<1> QED BY <1>2, <1>3, <1>4, <1>5, <1>6, <1>7 DEF Next

\* No call of a process that used an ID before, late or repeated, shortens or
\* prolongs the lease of the one that holds it now.
THEOREM OwnersOnly == Spec => LeaseIsOwned
<1>1. IInv /\ [Next]_vars => \A x \in IDs : OwnedChange(x)
  BY StepOwned
<1>2. IInv /\ [Next]_vars => IInv'
  BY NextInv
<1>3. Init => IInv
  BY InitInv
<1> QED BY <1>1, <1>2, <1>3, PTL DEF Spec, LeaseIsOwned, OwnedChange

-----------------------------------------------------------------------------
\* What OnlyRivalsEvict demands before agent a gives up.
RivalOf(a) ==
    \E x \in IDs : /\ records[x] # Absent
                  /\ records[x].agent # a
                  /\ \/ x = a.id
                     \/ records[x].agent.instance = a.instance
                     \/ records[x].agent.endpoint = a.endpoint

\* The registry answers neither "duplicate" nor "stale" without a rival
\* (registry.go:75-88, 132, 150).
LEMMA RejectionHasRival ==
    ASSUME IInv, NEW a \in Agents,
           RegisterAnswer(a) = "duplicate" \/ OwnerAnswer(a) = "stale"
    PROVE  RivalOf(a)
<1>0. a.id \in IDs
  BY DEF IDs
<1>1. \A x \in IDs : Unexpired[x] # Absent =>
        records[x] # Absent /\ records[x] = Unexpired[x] /\ Unexpired[x].agent.id = x
  BY UnexpiredRecords DEF IInv
<1>2. CASE Rivals(a) # {}
  <2>1. PICK x \in IDs \ {a.id} : /\ Unexpired[x] # Absent
                                  /\ \/ Unexpired[x].agent.instance = a.instance
                                     \/ Unexpired[x].agent.endpoint = a.endpoint
    BY <1>2 DEF Rivals
  <2> QED BY <1>1, <2>1 DEF RivalOf
<1>3. CASE RegisterAnswer(a) = "duplicate" /\ Rivals(a) = {}
  <2>1. Unexpired[a.id] # Absent /\ Unexpired[a.id].agent.instance # a.instance
    BY <1>3 DEF RegisterAnswer
  <2> QED BY <1>0, <1>1, <2>1 DEF RivalOf
<1>4. CASE OwnerAnswer(a) = "stale"
  <2>1. records[a.id] # Absent /\ records[a.id].agent.instance # a.instance
    BY <1>4 DEF OwnerAnswer
  <2> QED BY <1>0, <2>1 DEF RivalOf
<1> QED BY <1>2, <1>3, <1>4

LEMMA StepEvicts ==
    IInv /\ [Next]_vars =>
      \A a \in Agents : phase[a] = "running" /\ phase'[a] = "evicted" => RivalOf(a)
<1> SUFFICES ASSUME IInv, [Next]_vars, NEW a \in Agents,
                    phase[a] = "running", phase'[a] = "evicted"
             PROVE  RivalOf(a)
  OBVIOUS
<1>0. phase \in [Agents -> Phases]
  BY DEF IInv, TypeOK
<1>1. ASSUME NEW m \in network, NEW answer, NEW left, Continues(m, answer, left)
      PROVE  /\ m.agent = a
             /\ \/ m.kind = "register" /\ answer = "duplicate"
                \/ m.kind = "heartbeat" /\ answer \notin {"ok", "error", "expired", "missing"}
  <2>1. m.agent \in Agents
    BY DEF IInv, TypeOK, Request
  <2> QED BY <1>0, <1>1, <2>1 DEF Continues, Rejoins
<1>2. ASSUME NEW m \in network, Answered(m) PROVE RivalOf(a)
  <2>1. /\ m.agent = a
        /\ \/ m.kind = "register" /\ Answer(m) = "duplicate"
           \/ m.kind = "heartbeat" /\ Answer(m) \notin {"ok", "error", "expired", "missing"}
    BY <1>1, <1>2 DEF Answered
  <2>2. RegisterAnswer(a) = "duplicate" \/ OwnerAnswer(a) = "stale"
    BY <2>1 DEF Answer, OwnerAnswer
  <2> QED BY <2>2, RejectionHasRival
<1>3. ASSUME NEW m \in network, AnswerLost(m) \/ TimesOut(m) PROVE FALSE
  BY <1>1, <1>3 DEF AnswerLost, TimesOut
<1>4. ASSUME NEW m \in network, HandledLate(m) PROVE FALSE
  BY <1>4 DEF HandledLate, agentVars
<1>5. ASSUME NEW b \in Agents, AgentStep(b) PROVE FALSE
  BY <1>0, <1>5 DEF AgentStep, Start, TickerFires, ProbeAnswered, ProbeFails,
                    RecordStatus, Stop, Crash
<1>6. ASSUME Snapshot \/ ControllerRestart \/ Tick \/ UNCHANGED vars PROVE FALSE
  BY <1>6 DEF Snapshot, ControllerRestart, Tick, vars, agentVars
<1> QED BY <1>2, <1>3, <1>4, <1>5, <1>6 DEF Next, CallStep

\* An agent that gives up saw the answer to a call that met another process
\* under its ID, instance or endpoint.
THEOREM EvictionHasRival == Spec => OnlyRivalsEvict
<1>1. IInv /\ [Next]_vars =>
        \A a \in Agents : phase[a] = "running" /\ phase'[a] = "evicted" => RivalOf(a)
  BY StepEvicts
<1>2. IInv /\ [Next]_vars => IInv'
  BY NextInv
<1>3. Init => IInv
  BY InitInv
<1> QED BY <1>1, <1>2, <1>3, PTL DEF Spec, OnlyRivalsEvict, RivalOf

-----------------------------------------------------------------------------
(***************************************************************************)
(* The revision of the registry follows its inventory: the boolean that    *)
(* every handler passes on to the revision is right about what a planner   *)
(* can see of the records it stores.                                       *)
(***************************************************************************)
\* What RevisionFollowsInventory asks of two successive inventories.
VisiblyChanged(old, new) ==
    \E x \in IDs :
      \/ Seen(new[x]) # Seen(old[x])
      \/ /\ old[x] # Absent /\ new[x] # Absent
         /\ ~StatusFresh(old[x]) /\ StatusFresh(new[x])

Follows ==
    /\ VisiblyChanged(records, records') => revision' # revision
    /\ ~VisiblyChanged(records, records') /\ Overdue = {} => revision' = revision

\* Adding one or two to the revision changes it, wrapped around or not.
LEMMA RevisionMoves ==
    ASSUME NEW r \in 0 .. RevisionLimit - 1
    PROVE  /\ (r + 0) % RevisionLimit = r
           /\ (r + 1) % RevisionLimit # r
           /\ (r + 2) % RevisionLimit # r
<1>1. \A n \in 0 .. RevisionLimit - 1 : n % RevisionLimit = n
  BY MembershipAssumption
<1>2. \A n \in 0 .. RevisionLimit - 1 : (n + RevisionLimit) % RevisionLimit = n
  BY MembershipAssumption
<1>3. ASSUME NEW k \in {1, 2}, r + k >= RevisionLimit
      PROVE  (r + k) % RevisionLimit # r
  <2> DEFINE n == r + k - RevisionLimit
  <2>1. n \in 0 .. RevisionLimit - 1 /\ n # r /\ r + k = n + RevisionLimit
    BY <1>3, MembershipAssumption
  <2> QED BY <1>2, <2>1
<1>4. ASSUME NEW k \in {0, 1, 2}, r + k < RevisionLimit
      PROVE  (r + k) % RevisionLimit = r + k
  BY <1>1, <1>4, MembershipAssumption
<1> QED BY <1>3, <1>4, MembershipAssumption

\* Store moves the revision when leases are overdue or its caller says so.
LEMMA StoreRevision ==
    ASSUME TypeOK, NEW new, NEW changed \in BOOLEAN, Store(new, changed)
    PROVE  revision' = revision <=> Overdue = {} /\ ~changed
<1>1. revision \in 0 .. RevisionLimit - 1
  BY DEF TypeOK
<1>2. CASE Overdue = {} /\ ~changed
  <2>1. revision' = (revision + 0 + 0) % RevisionLimit
    BY <1>2 DEF Store, Bumps
  <2> QED BY <1>1, <1>2, <2>1, RevisionMoves
<1>3. CASE (Overdue # {} /\ ~changed) \/ (Overdue = {} /\ changed)
  <2>1. \/ revision' = (revision + 1 + 0) % RevisionLimit
        \/ revision' = (revision + 0 + 1) % RevisionLimit
    BY <1>3 DEF Store, Bumps
  <2>2. revision' = (revision + 1) % RevisionLimit
    BY <1>1, <2>1
  <2> QED BY <1>1, <1>3, <2>2, RevisionMoves
<1>4. CASE Overdue # {} /\ changed
  <2>1. revision' = (revision + 1 + 1) % RevisionLimit
    BY <1>4 DEF Store, Bumps
  <2>2. revision' = (revision + 2) % RevisionLimit
    BY <1>1, <2>1
  <2> QED BY <1>1, <1>4, <2>2, RevisionMoves
<1> QED BY <1>2, <1>3, <1>4

LEMMA StoreExpiredRevision ==
    ASSUME TypeOK, NEW x, StoreExpired(x)
    PROVE  revision' # revision
<1>1. revision \in 0 .. RevisionLimit - 1
  BY DEF TypeOK
<1>2. \/ revision' = (revision + 1 + 0) % RevisionLimit
      \/ revision' = (revision + 1 + 1) % RevisionLimit
  BY DEF StoreExpired, Bumps
<1>3. \/ revision' = (revision + 1) % RevisionLimit
      \/ revision' = (revision + 2) % RevisionLimit
  BY <1>1, <1>2
<1> QED BY <1>1, <1>3, RevisionMoves

\* A handler is right if, with nothing overdue, it says what it changed.
LEMMA StoreFollows ==
    ASSUME TypeOK, NEW new, NEW changed \in BOOLEAN, Store(new, changed),
           Overdue = {} => (changed <=> VisiblyChanged(records, new))
    PROVE  Follows
BY StoreRevision DEF Store, Follows

\* One record changes visibly if its agent or status does, or it gets fresh.
LEMMA OneRecord ==
    ASSUME records \in Registered, NEW x \in IDs, NEW r
    PROVE  VisiblyChanged(records, [records EXCEPT ![x] = r]) <=>
             \/ Seen(r) # Seen(records[x])
             \/ /\ records[x] # Absent /\ r # Absent
                /\ ~StatusFresh(records[x]) /\ StatusFresh(r)
<1> DEFINE new == [records EXCEPT ![x] = r]
<1>1. new[x] = r /\ \A y \in IDs \ {x} : new[y] = records[y]
  BY DEF Registered
<1> HIDE DEF new
<1>2. VisiblyChanged(records, new) <=>
        \/ Seen(new[x]) # Seen(records[x])
        \/ /\ records[x] # Absent /\ new[x] # Absent
           /\ ~StatusFresh(records[x]) /\ StatusFresh(new[x])
  BY <1>1 DEF VisiblyChanged, StatusFresh
<1> QED BY <1>1, <1>2 DEF new

LEMMA Quiet ==
    ASSUME TypeOK, Overdue = {}
    PROVE  Unexpired = records /\ ~VisiblyChanged(records, Unexpired)
<1>1. \A x \in IDs : Unexpired[x] = records[x]
  BY DEF Unexpired
<1>2. Unexpired = records
  BY <1>1, UnexpiredRecords DEF TypeOK, Registered
<1> QED BY <1>2 DEF VisiblyChanged

\* Register, Heartbeat and Remove (registry.go:63-196).
LEMMA HandleFollows ==
    ASSUME IInv, NEW m \in network, Handle(m)
    PROVE  Follows
<1> DEFINE x == m.agent.id
<1>0. /\ m \in Request /\ m.agent \in Agents /\ x \in IDs /\ TypeOK
      /\ records \in Registered
  BY DEF IInv, TypeOK, Request, IDs, Registered
<1>1. ASSUME Store(Unexpired, FALSE) PROVE Follows
  BY <1>0, <1>1, Quiet, StoreFollows
<1>2. ASSUME StoreExpired(x), OwnerAnswer(m.agent) = "expired" PROVE Follows
  <2>1. Overdue # {}
    BY <1>0, <1>2 DEF OwnerAnswer, Overdue
  <2> QED BY <1>0, <1>2, <2>1, StoreExpiredRevision DEF Follows
<1>3. CASE m.kind = "register" /\ HandleRegister(m)
  <2> DEFINE a == m.agent
             old == Unexpired[a.id]
             joined == [agent |-> a, status |-> m.status, lease |-> LeaseTTL,
                        age |-> IF m.fresh THEN 0 ELSE Old]
             refreshed == IF m.fresh THEN joined
                          ELSE [joined EXCEPT !.status = old.status, !.age = old.age]
  <2>1. joined \in Record /\ joined.age = (IF m.fresh THEN 0 ELSE Old) /\ m.fresh \in BOOLEAN
    BY <1>0, <1>3, OldType, MembershipAssumption
       DEF IInv, RegistrationsComplete, Record, Request, Old
  <2>2. CASE RegisterAnswer(a) # "ok"
    BY <1>1, <1>3, <2>2 DEF HandleRegister
  <2>3. CASE RegisterAnswer(a) = "ok" /\ old = Absent
    <3>1. Store([Unexpired EXCEPT ![x] = joined], TRUE)
      BY <1>3, <2>3 DEF HandleRegister
    <3>2. joined # Absent
      BY <2>1, NoConfusion
    <3> HIDE DEF joined
    <3>3. Overdue = {} => VisiblyChanged(records, [Unexpired EXCEPT ![x] = joined])
      BY <1>0, <2>3, <3>2, Quiet, OneRecord DEF Seen
    <3> QED BY <1>0, <3>1, <3>3, StoreFollows
  <2>4. CASE RegisterAnswer(a) = "ok" /\ old # Absent
    <3> DEFINE changed == \/ <<old.agent, old.status>> # <<a, refreshed.status>>
                          \/ m.fresh /\ ~StatusFresh(old)
    <3>1. Store([Unexpired EXCEPT ![x] = refreshed], changed)
      BY <1>3, <2>4 DEF HandleRegister
    <3>2. changed \in BOOLEAN
      BY <2>1 DEF StatusFresh
    <3>3. refreshed \in Record /\ refreshed.agent = a
      BY <2>1, <1>0, <2>4, UnexpiredRecords DEF Record
    <3>4. refreshed # Absent
      BY <3>3, NoConfusion
    <3>5. IF m.fresh THEN refreshed.age = 0 ELSE refreshed.age = old.age
      BY <2>1
    <3>6. m.fresh => StatusFresh(refreshed)
      BY <3>5, MembershipAssumption DEF StatusFresh
    <3>7. ~m.fresh => (StatusFresh(refreshed) <=> StatusFresh(old))
      BY <3>5 DEF StatusFresh
    <3>8. Overdue = {} => (changed <=> VisiblyChanged(records, [Unexpired EXCEPT ![x] = refreshed]))
      <4> SUFFICES ASSUME Overdue = {}
                   PROVE  changed <=> VisiblyChanged(records, [records EXCEPT ![x] = refreshed])
        BY <1>0, Quiet
      <4>1. old = records[x]
        BY <1>0, Quiet
      <4>2. Seen(refreshed) # Seen(old) <=> <<old.agent, old.status>> # <<a, refreshed.status>>
        BY <2>4, <3>3, <3>4 DEF Seen
      <4> HIDE DEF refreshed
      <4> QED BY <1>0, <2>1, <2>4, <3>4, <3>6, <3>7, <4>1, <4>2, OneRecord
    <3> HIDE DEF changed, refreshed
    <3> QED BY <1>0, <3>1, <3>2, <3>8, StoreFollows
  <2> QED BY <2>2, <2>3, <2>4
<1>4. CASE m.kind = "heartbeat" /\ HandleHeartbeat(m)
  <2>1. CASE OwnerAnswer(m.agent) = "expired"
    BY <1>2, <1>4, <2>1 DEF HandleHeartbeat
  <2>2. CASE OwnerAnswer(m.agent) \in {"missing", "stale"}
    BY <1>1, <1>4, <2>2 DEF HandleHeartbeat
  <2>3. CASE OwnerAnswer(m.agent) \notin {"expired", "missing", "stale"}
    <3> DEFINE r == Renewed(records[x])
    <3>1. records[x] # Absent /\ records[x] \in Record
      BY <1>0, <2>3 DEF OwnerAnswer, TypeOK
    <3>2. /\ r \in Record /\ r.agent = records[x].agent /\ r.status = records[x].status
          /\ r.age = records[x].age
      BY <3>1, MembershipAssumption DEF Renewed, Record
    <3>3. CASE m.status = Absent
      <4>1. Store([Unexpired EXCEPT ![x] = r], FALSE)
        BY <1>4, <2>3, <3>3 DEF HandleHeartbeat
      <4>2. r # Absent
        BY <3>2, NoConfusion
      <4>3. Overdue = {} => ~VisiblyChanged(records, [Unexpired EXCEPT ![x] = r])
        <5> HIDE DEF r
        <5> QED BY <1>0, <3>1, <3>2, <4>2, Quiet, OneRecord DEF Seen, StatusFresh
      <4> QED BY <1>0, <4>1, <4>3, StoreFollows
    <3>4. CASE m.status # Absent
      <4> DEFINE s == [r EXCEPT !.status = m.status, !.age = 0]
                 changed == records[x].status # m.status \/ ~StatusFresh(records[x])
      <4>1. Store([Unexpired EXCEPT ![x] = s], changed)
        BY <1>4, <2>3, <3>4 DEF HandleHeartbeat, Published
      <4>2. changed \in BOOLEAN
        BY DEF StatusFresh
      <4>3. s \in Record /\ s.agent = records[x].agent /\ s.status = m.status /\ s.age = 0
        <5>1. m.status \in Status /\ 0 \in 0 .. Old
          BY <1>0, <3>4, OldType DEF Request
        <5> HIDE DEF r
        <5> QED BY <3>2, <5>1 DEF Record
      <4>4. s # Absent /\ StatusFresh(s)
        BY <4>3, NoConfusion, MembershipAssumption DEF StatusFresh
      <4>5. Seen(s) # Seen(records[x]) <=> records[x].status # m.status
        <5> DEFINE old == records[x]
        <5>1. /\ Seen(s) = {<<s.agent, s.status>>} /\ Seen(old) = {<<old.agent, old.status>>}
              /\ s.agent = old.agent /\ s.status = m.status
          BY <3>1, <4>3, <4>4 DEF Seen
        <5> HIDE DEF s, old
        <5> DEFINE p == <<s.agent, s.status>>
                   q == <<old.agent, old.status>>
        <5>2. p # q <=> old.status # m.status
          BY <5>1
        <5>3. Seen(s) = {p} /\ Seen(old) = {q}
          BY <5>1
        <5> HIDE DEF p, q
        <5>4. Seen(s) # Seen(old) <=> old.status # m.status
          BY <5>2, <5>3
        <5> QED BY <5>4 DEF old
      <4>6. Overdue = {} => (changed <=> VisiblyChanged(records, [Unexpired EXCEPT ![x] = s]))
        <5> HIDE DEF s
        <5> QED BY <1>0, <3>1, <4>4, <4>5, Quiet, OneRecord
      <4> HIDE DEF s, changed
      <4> QED BY <1>0, <4>1, <4>2, <4>6, StoreFollows
    <3> QED BY <3>3, <3>4
  <2> QED BY <2>1, <2>2, <2>3
<1>5. CASE m.kind = "remove" /\ HandleRemove(m)
  <2>1. CASE OwnerAnswer(m.agent) = "expired"
    BY <1>2, <1>5, <2>1 DEF HandleRemove
  <2>2. CASE OwnerAnswer(m.agent) \in {"missing", "stale"}
    BY <1>1, <1>5, <2>2 DEF HandleRemove
  <2>3. CASE OwnerAnswer(m.agent) \notin {"expired", "missing", "stale"}
    <3>1. Store([Unexpired EXCEPT ![x] = Absent], TRUE)
      BY <1>5, <2>3 DEF HandleRemove
    <3>2. records[x] # Absent
      BY <2>3 DEF OwnerAnswer
    <3>3. Overdue = {} => VisiblyChanged(records, [Unexpired EXCEPT ![x] = Absent])
      BY <1>0, <3>2, Quiet, OneRecord DEF Seen
    <3> QED BY <1>0, <3>1, <3>3, StoreFollows
  <2> QED BY <2>1, <2>2, <2>3
<1> QED BY <1>3, <1>4, <1>5 DEF Handle

LEMMA StepFollows == IInv /\ [Next]_vars => ControllerRestart \/ Follows
<1> SUFFICES ASSUME IInv, [Next]_vars, ~ControllerRestart PROVE Follows
  OBVIOUS
<1>0. ASSUME UNCHANGED registryVars PROVE Follows
  BY <1>0 DEF Follows, VisiblyChanged, registryVars
<1>1. ASSUME NEW a \in Agents, AgentStep(a) PROVE Follows
  BY <1>0, <1>1 DEF AgentStep, Start, TickerFires, ProbeAnswered, ProbeFails,
                    RecordStatus, Stop, Crash
<1>2. ASSUME NEW m \in network, CallStep(m) PROVE Follows
  BY <1>0, <1>2, HandleFollows DEF CallStep, Answered, AnswerLost, TimesOut, HandledLate
<1>3. CASE Snapshot
  BY <1>3, StoreFollows DEF Snapshot, IInv
<1>4. CASE Tick
  <2>1. revision' = revision
    BY <1>4 DEF Tick
  <2>2. ASSUME NEW x \in IDs
        PROVE  /\ Seen(records'[x]) = Seen(records[x])
               /\ records[x] # Absent /\ StatusFresh(records'[x]) => StatusFresh(records[x])
    <3>1. CASE records[x] = Absent
      <4>1. records'[x] = Absent
        BY <1>4, <3>1 DEF Tick
      <4> QED BY <3>1, <4>1 DEF Seen
    <3>2. CASE records[x] # Absent
      <4> DEFINE lease == IF records[x].lease > 0 THEN records[x].lease - 1 ELSE 0
                 aged == [records[x] EXCEPT !.lease = lease, !.age = Older(@, Old)]
      <4>1. /\ records[x] \in Record /\ records[x].age \in 0 .. Old
            /\ lease \in 0 .. LeaseTTL /\ Older(records[x].age, Old) \in 0 .. Old
        BY <3>2, OldType, MembershipAssumption DEF IInv, TypeOK, Record, Older
      <4>2. records'[x] = aged
        BY <1>4, <3>2 DEF Tick
      <4> HIDE DEF lease
      <4>3. /\ aged \in Record /\ aged.agent = records[x].agent
            /\ aged.status = records[x].status /\ aged.age = Older(records[x].age, Old)
        BY <4>1 DEF Record
      <4> HIDE DEF aged
      <4>4. aged # Absent
        BY <4>3, NoConfusion
      <4>5. StatusFresh(aged) => StatusFresh(records[x])
        BY <4>1, <4>3, OldType, MembershipAssumption DEF StatusFresh, Older
      <4> QED BY <3>2, <4>2, <4>3, <4>4, <4>5 DEF Seen
    <3> QED BY <3>1, <3>2
  <2>3. ~VisiblyChanged(records, records')
    BY <2>2 DEF VisiblyChanged
  <2> QED BY <2>1, <2>3 DEF Follows
<1>5. CASE UNCHANGED vars
  BY <1>0, <1>5 DEF vars
<1> QED BY <1>1, <1>2, <1>3, <1>4, <1>5 DEF Next

\* A planner that compares revisions misses no change of the inventory and sees
\* none where a lease was renewed.
THEOREM RevisionHonest == Spec => RevisionFollowsInventory
<1>1. IInv /\ [Next]_vars => ControllerRestart \/ Follows
  BY StepFollows
<1>2. IInv /\ [Next]_vars => IInv'
  BY NextInv
<1>3. Init => IInv
  BY InitInv
<1> QED BY <1>1, <1>2, <1>3, PTL
    DEF Spec, RevisionFollowsInventory, Follows, VisiblyChanged
=============================================================================

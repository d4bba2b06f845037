------------------------- MODULE MeshSchedulerProofs -------------------------
(***************************************************************************)
(* What TLAPS proves of MeshScheduler for every membership, every number   *)
(* of sequences and shards, every budget and every set of faults.          *)
(***************************************************************************)
EXTENDS MeshScheduler, FiniteSetTheorems, TLAPS

-----------------------------------------------------------------------------
(***************************************************************************)
(* Type correctness.                                                       *)
(***************************************************************************)

\* The saturating counters of the ledger never leave the naturals.
LEMMA SaturatingNat ==
    /\ \A a, b \in Nat : Monus(a, b) \in Nat
    /\ \A n \in Nat : Decrement(n) \in Nat
    /\ \A n \in Nat : ObservationAfter(n) \in Nat
BY LedgerAssumption DEF Monus, Decrement, ObservationAfter

LEMMA NewDaemonType ==
    ASSUME NEW i \in Instances
    PROVE  /\ NewDaemon(i) \in Daemon
           /\ Sampled(NewDaemon(i)) \in Status
BY DEF NewDaemon, Daemon, Observation, NothingOpen, Sampled, Status

LEMMA SampledType ==
    ASSUME NEW d \in Daemon
    PROVE  Sampled(d) \in Status
BY DEF Sampled, Daemon, Status

LEMMA NoStageType == NoStage \in Stage
BY LedgerAssumption DEF NoStage, Stage, Observation

LEMMA InitType == Init => TypeOK
<1> SUFFICES ASSUME Init PROVE TypeOK
  OBVIOUS
<1> USE LedgerAssumption
<1>1. LedgerTypeOK
  BY DEF Init, LedgerInit, LedgerTypeOK, Slots, Slot, Hosts, Host
<1>2. phase \in [Sequences -> Phases]
  BY DEF Init, Phases
<1>3. /\ view \in [Sequences -> Inventory]
      /\ probing \in [Workers -> Status \cup {Absent}]
  BY DEF Init, EmptyView, Inventory
<1>4. stages \in [Sequences -> [Workers -> Stage]]
  BY NoStageType DEF Init
<1>5. outcome \in [Sequences -> Outcome]
  BY DEF Init, Outcome
<1>6. /\ daemon \in [Workers -> Daemon]
      /\ cached \in [Workers -> Status]
      /\ membership \in Inventory
  <2>1. NewDaemon(1) \in Daemon /\ Sampled(NewDaemon(1)) \in Status
    BY NewDaemonType
  <2>2. Join(NewDaemon(1)) \in Member
    BY <2>1 DEF Join, Member, NewDaemon
  <2> QED
    BY <2>1, <2>2 DEF Init, Inventory
<1> QED
  BY <1>1, <1>2, <1>3, <1>4, <1>5, <1>6 DEF Init, TypeOK, Request

\* Entering a phase, or finishing a reservation, keeps the caller's bookkeeping typed.
LEMMA EnterType ==
    ASSUME NEW q \in Sequences, NEW next \in Phases, TypeOK, Enter(q, next)
    PROVE  phase' \in [Sequences -> Phases] /\ done' \in [Sequences -> SUBSET Workers]
BY DEF TypeOK, Enter

LEMMA FinishType ==
    ASSUME NEW q \in Sequences, NEW mayHaveLoaded \in BOOLEAN, NEW confirmed \in BOOLEAN,
           TypeOK, Finish(q, mayHaveLoaded, confirmed)
    PROVE  /\ phase' \in [Sequences -> Phases]
           /\ done' \in [Sequences -> SUBSET Workers]
           /\ outcome' \in [Sequences -> Outcome]
<1>1. phase' \in [Sequences -> Phases] /\ done' \in [Sequences -> SUBSET Workers]
  <2>1. "finishing" \in Phases /\ "cleaning" \in Phases
    BY DEF Phases, Holding
  <2>2. CASE confirmed
    <3>1. Enter(q, "finishing")
      BY <2>2 DEF Finish
    <3> QED
      BY <2>1, <3>1, EnterType
  <2>3. CASE ~confirmed
    <3>1. Enter(q, "cleaning")
      BY <2>3 DEF Finish
    <3> QED
      BY <2>1, <3>1, EnterType
  <2> QED
    BY <2>2, <2>3
<1>2. outcome' \in [Sequences -> Outcome]
  <2>1. outcome' = [outcome EXCEPT ![q] = [outcome[q] EXCEPT
                      !.mayHaveLoaded = mayHaveLoaded, !.cleanupConfirmed = confirmed]]
    BY DEF Finish
  <2>2. outcome[q] \in Outcome
    BY DEF TypeOK
  <2>3. [outcome[q] EXCEPT !.mayHaveLoaded = mayHaveLoaded,
                           !.cleanupConfirmed = confirmed] \in Outcome
    BY <2>2 DEF Outcome
  <2> QED
    BY <2>1, <2>3 DEF TypeOK
<1> QED
  BY <1>1, <1>2

\* The daemons stay typed whatever is observed, opened or closed on them.
LEMMA ObserveType ==
    ASSUME NEW w \in Workers, TypeOK, Observe(w)
    PROVE  daemon' \in [Workers -> Daemon]
<1>1. daemon \in [Workers -> Daemon]
  BY DEF TypeOK
<1>2. [daemon[w] EXCEPT !.obs = @ + 1] \in Daemon
  BY <1>1 DEF Daemon, Observation
<1> QED
  BY <1>1, <1>2 DEF Observe

LEMMA DaemonStepType ==
    ASSUME NEW q \in Sequences, TypeOK
    PROVE  /\ \A W \in SUBSET Workers : Opened(q, W) \in [Workers -> Daemon]
           /\ \A W \in SUBSET Workers : Closed(q, W) \in [Workers -> Daemon]
           /\ \A w \in Workers, s \in Shards :
                [daemon EXCEPT ![w].loaded = @ \cup {s}] \in [Workers -> Daemon]
<1>1. ASSUME NEW W \in SUBSET Workers
      PROVE  Opened(q, W) \in [Workers -> Daemon]
  <2> SUFFICES ASSUME NEW w \in Workers PROVE Opened(q, W)[w] \in Daemon
    BY DEF Opened
  <2>1. daemon[w] \in Daemon
    BY DEF TypeOK
  <2>2. [daemon[w] EXCEPT !.open[stages[q][w].shard] = @ \cup {q}] \in Daemon
    BY <2>1 DEF Daemon
  <2> QED
    BY <2>1, <2>2 DEF Opened
<1>2. ASSUME NEW W \in SUBSET Workers
      PROVE  Closed(q, W) \in [Workers -> Daemon]
  <2> SUFFICES ASSUME NEW w \in Workers PROVE Closed(q, W)[w] \in Daemon
    BY DEF Closed
  <2>1. daemon[w] \in Daemon
    BY DEF TypeOK
  <2>2. [daemon[w] EXCEPT !.open = [s \in Shards |-> @[s] \ {q}]] \in Daemon
    BY <2>1 DEF Daemon
  <2> QED
    BY <2>1, <2>2 DEF Closed
<1>3. ASSUME NEW w \in Workers, NEW s \in Shards
      PROVE  [daemon EXCEPT ![w].loaded = @ \cup {s}] \in [Workers -> Daemon]
  <2>1. daemon \in [Workers -> Daemon]
    BY DEF TypeOK
  <2>2. [daemon[w] EXCEPT !.loaded = @ \cup {s}] \in Daemon
    BY <2>1 DEF Daemon
  <2> QED
    BY <2>1, <2>2
<1> QED
  BY <1>1, <1>2, <1>3

\* Reconciling with a snapshot only takes entries away.
LEMMA ReconciledType ==
    ASSUME NEW inventory \in Inventory, LedgerTypeOK
    PROVE  LET now == Reconciled(inventory) IN
           /\ now.slots \in
                Slots
           /\ now.hosts \in
                Hosts
<1>1. ASSUME NEW w \in Workers, NEW i \in Instances, NEW s \in Shards
      PROVE  [reservations[w][i][s] EXCEPT
                !.poisoned = ReconciledPoison(inventory, w, i, s, @)]
               \in Slot
  <2>1. reservations[w][i][s] \in Slot
    BY DEF LedgerTypeOK, Slots, Hosts
  <2>2. ReconciledPoison(inventory, w, i, s, reservations[w][i][s].poisoned) \in SUBSET Poison
    BY <2>1 DEF ReconciledPoison, Slot
  <2> QED
    BY <2>1, <2>2 DEF Slot
<1>2. ASSUME NEW w \in Workers, NEW i \in Instances
      PROVE  [workers[w][i] EXCEPT !.pending = ReconciledPending(inventory, w, i, @)]
               \in Host
  <2>1. workers[w][i] \in Host
    BY DEF LedgerTypeOK, Slots, Hosts
  <2>2. ReconciledPending(inventory, w, i, workers[w][i].pending) \in SUBSET Pending
    BY <2>1 DEF ReconciledPending, Host
  <2> QED
    BY <2>1, <2>2 DEF Host
<1> QED
  BY <1>1, <1>2 DEF Reconciled, Slots, Hosts

\* Reserving the stages of a plan, and giving a reservation back, keep the ledger typed.
LEMMA StageBytesNat == \A loads \in BOOLEAN : StageBytes(loads) \in Nat
BY LedgerAssumption DEF StageBytes

LEMMA ReserveType ==
    ASSUME NEW slots \in Slots,
           NEW hosts \in Hosts,
           NEW planned \in [Workers -> Stage],
           Reserve(slots, hosts, planned)
    PROVE  LedgerTypeOK'
<1>1. ASSUME NEW w \in Workers, NEW i \in Instances, NEW s \in Shards
      PROVE  reservations'[w][i][s] \in Slot
  <2>1. slots[w][i][s] \in Slot
    BY DEF Slots
  <2>2. [slots[w][i][s] EXCEPT !.active = @ + 1] \in Slot
    BY <2>1 DEF Slot
  <2> QED
    BY <2>1, <2>2 DEF Reserve
<1>2. ASSUME NEW w \in Workers, NEW i \in Instances
      PROVE  workers'[w][i] \in Host
  <2>1. StageBytes(planned[w].loads) \in Nat /\ SequenceBytes \in Nat
    BY StageBytesNat, LedgerAssumption DEF Stage
  <2>2. hosts[w][i] \in Host
    BY DEF Hosts
  <2> QED
    BY <2>1, <2>2 DEF Reserve, Host
<1> QED
  BY <1>1, <1>2 DEF Reserve, LedgerTypeOK, Slots, Hosts

LEMMA ReleaseType ==
    ASSUME NEW q \in Sequences, NEW released \in [Workers -> Stage],
           NEW mayHaveLoaded \in BOOLEAN, NEW confirmed \in BOOLEAN,
           NEW listed \in SUBSET Workers,
           LedgerTypeOK,
           Release(q, released, mayHaveLoaded, confirmed, listed)
    PROVE  LedgerTypeOK'
<1>1. ASSUME NEW w \in Workers
      PROVE  /\ ObservationAfter(released[w].setupObs) \in Nat
             /\ ObservationAfter(released[w].cleanupObs) \in Nat
  BY SaturatingNat DEF Stage, Observation
<1>2. ASSUME NEW w \in Workers
      PROVE  NewPoison(q, released[w], confirmed, w \in listed) \in SUBSET Poison
  BY <1>1 DEF NewPoison, Poison, Observation
<1>3. ASSUME NEW w \in Workers
      PROVE  NewPending(q, released[w], mayHaveLoaded, confirmed, w \in listed)
               \in SUBSET Pending
  <2>1. QuarantineMinimum(released[w], mayHaveLoaded, confirmed) \in Nat
    BY <1>1 DEF QuarantineMinimum
  <2> QED
    BY <2>1, LedgerAssumption DEF NewPending, Pending, Observation
<1>4. ASSUME NEW w \in Workers, NEW i \in Instances, NEW s \in Shards
      PROVE  reservations'[w][i][s] \in Slot
  <2>1. reservations[w][i][s] \in Slot
    BY DEF LedgerTypeOK, Slots, Hosts
  <2> QED
    BY <2>1, <1>2, SaturatingNat DEF Release, Slot
<1>5. ASSUME NEW w \in Workers, NEW i \in Instances
      PROVE  workers'[w][i] \in Host
  <2>1. workers[w][i] \in Host
    BY DEF LedgerTypeOK, Slots, Hosts
  <2>2. StageBytes(released[w].loads) \in Nat /\ SequenceBytes \in Nat
    BY StageBytesNat, LedgerAssumption DEF Stage
  <2> QED
    BY <2>1, <2>2, <1>3, SaturatingNat DEF Release, Host
<1> QED
  BY <1>4, <1>5 DEF Release, LedgerTypeOK, Slots, Hosts

\* A plan binds every stage to the incarnation its snapshot lists.
LEMMA PlannedType ==
    ASSUME NEW inventory \in Inventory, NEW place \in [Workers -> Shards \cup {NoShard}],
           Selectable(inventory, place)
    PROVE  PlannedStages(inventory, place) \in [Workers -> Stage]
<1> SUFFICES ASSUME NEW w \in Workers
             PROVE  PlannedStages(inventory, place)[w] \in Stage
  BY DEF PlannedStages
<1>1. CASE place[w] = NoShard
  BY <1>1, NoStageType DEF PlannedStages
<1>2. CASE place[w] # NoShard
  <2>1. inventory[w] \in Member
    BY <1>2 DEF Selectable, Inventory
  <2>2. Reuses(inventory[w], place[w]) \in BOOLEAN
    BY DEF Reuses
  <2>3. PlannedStages(inventory, place)[w] =
          [NoStage EXCEPT !.shard = place[w], !.instance = inventory[w].instance,
                          !.loads = ~Reuses(inventory[w], place[w])]
    BY <1>2 DEF PlannedStages
  <2>4. place[w] \in Shards /\ inventory[w].instance \in Instances
    BY <1>2, <2>1 DEF Member
  <2> DEFINE shard == place[w]
             instance == inventory[w].instance
             loads == ~Reuses(inventory[w], place[w])
  <2>5. NoStage \in Stage /\ shard \in Shards /\ instance \in Instances /\ loads \in BOOLEAN
    BY <2>2, <2>4, NoStageType
  <2>6. PlannedStages(inventory, place)[w] =
          [NoStage EXCEPT !.shard = shard, !.instance = instance, !.loads = loads]
    BY <2>3
  <2> HIDE DEF shard, instance, loads
  <2> QED
    BY <2>5, <2>6 DEF Stage
<1> QED
  BY <1>1, <1>2

\* A stage of a reservation is on a shard, and so is a call that addresses it.
LEMMA StageShard ==
    ASSUME NEW q \in Sequences, NEW w \in Stages(q), TypeOK
    PROVE  stages[q][w].shard \in Shards
BY DEF TypeOK, Stages, Placed, Stage

LEMMA StageCallType ==
    ASSUME NEW q \in Sequences, NEW w \in Stages(q), NEW call \in {"load", "open", "close"},
           TypeOK
    PROVE  StageCall(call, q, w) \in Request
<1>1. w \in Workers /\ stages[q][w] \in Stage
  BY DEF TypeOK, Stages, Placed
<1> QED
  BY <1>1, StageShard DEF StageCall, Request, Stage

\* What reserveAdmission does with a plan: it reserves every stage, or turns the plan
\* down and keeps only what reconciling left.
Admits(q, place) ==
    /\ \A w \in Placed(PlannedStages(view[q], place)) :
         StageFits(
           Reconciled(view[q]).slots[w][PlannedStages(view[q], place)[w].instance][place[w]],
           Reconciled(view[q]).hosts[w][PlannedStages(view[q], place)[w].instance],
           view[q][w], place[w], PlannedStages(view[q], place)[w].loads)
    /\ Reserve(Reconciled(view[q]).slots, Reconciled(view[q]).hosts,
               PlannedStages(view[q], place))
    /\ stages' = [stages EXCEPT ![q] = PlannedStages(view[q], place)]
    /\ phase' = [phase EXCEPT ![q] = "setup"]

TurnsDown(q) ==
    /\ reservations' = Reconciled(view[q]).slots
    /\ workers' = Reconciled(view[q]).hosts
    /\ phase' = [phase EXCEPT ![q] = "done"]
    /\ UNCHANGED stages

LEMMA ReservationStep ==
    ASSUME NEW q \in Sequences, ReserveAdmission(q)
    PROVE  /\ phase[q] = "planning"
           /\ \E place \in [Workers -> Shards \cup {NoShard}] :
                /\ Selectable(view[q], place)
                /\ Admits(q, place) \/ TurnsDown(q)
           /\ view' = [view EXCEPT ![q] = EmptyView]
           /\ UNCHANGED <<done, outcome, found, daemon, inFlight, agentVars>>
<1>1. PICK place \in [Workers -> Shards \cup {NoShard}] :
        /\ Selectable(view[q], place)
        /\ Admits(q, place) \/ TurnsDown(q)
  BY ZenonT(30) DEF ReserveAdmission, Admits, TurnsDown
<1>2. /\ phase[q] = "planning"
      /\ view' = [view EXCEPT ![q] = EmptyView]
      /\ UNCHANGED <<done, outcome, found, daemon, inFlight, agentVars>>
  BY ZenonT(30) DEF ReserveAdmission
<1> QED
  BY <1>1, <1>2

\* What a phase has gone through are stages of the reservation.  Calls left in
\* flight are typed because of it.
ProgressPlaced ==
    \A q \in Sequences :
      IF phase[q] \in Holding THEN done[q] \subseteq Stages(q) ELSE done[q] = {}

LEMMA NextType == TypeOK /\ ProgressPlaced /\ [Next]_vars => TypeOK'
<1> SUFFICES ASSUME TypeOK, ProgressPlaced, [Next]_vars PROVE TypeOK'
  OBVIOUS
<1> USE DEF ledger, sequenceVars, agentVars
<1>1. ASSUME NEW q \in Sequences, TakeSnapshot(q) PROVE TypeOK'
  <2>1. phase' \in [Sequences -> Phases] /\ view' \in [Sequences -> Inventory]
    BY <1>1 DEF TypeOK, TakeSnapshot, Phases
  <2> QED
    BY <1>1, <2>1 DEF TypeOK, LedgerTypeOK, TakeSnapshot
<1>2. ASSUME NEW q \in Sequences, NoPlan(q) PROVE TypeOK'
  <2>1. phase' \in [Sequences -> Phases] /\ view' \in [Sequences -> Inventory]
    BY <1>2 DEF TypeOK, NoPlan, Phases, EmptyView, Inventory
  <2> QED
    BY <1>2, <2>1 DEF TypeOK, LedgerTypeOK, NoPlan
<1>3. ASSUME NEW q \in Sequences, ReserveAdmission(q) PROVE TypeOK'
  <2>1. PICK place \in [Workers -> Shards \cup {NoShard}] :
          /\ Selectable(view[q], place)
          /\ Admits(q, place) \/ TurnsDown(q)
    BY <1>3, ReservationStep
  <2>2. view[q] \in Inventory /\ LedgerTypeOK
    BY DEF TypeOK
  <2>3. /\ Reconciled(view[q]).slots \in Slots
        /\ Reconciled(view[q]).hosts \in Hosts
    BY <2>2, ReconciledType
  <2>4. PlannedStages(view[q], place) \in [Workers -> Stage]
    BY <2>1, <2>2, PlannedType
  <2>5. ASSUME Admits(q, place)
        PROVE  /\ LedgerTypeOK' /\ stages' \in [Sequences -> [Workers -> Stage]]
               /\ phase' \in [Sequences -> Phases]
    <3>1. LedgerTypeOK'
      BY <2>3, <2>4, <2>5, ReserveType DEF Admits
    <3>2. stages' \in [Sequences -> [Workers -> Stage]]
      BY <2>4, <2>5 DEF Admits, TypeOK
    <3>3. phase' \in [Sequences -> Phases]
      BY <2>5 DEF Admits, TypeOK, Phases, Holding
    <3> QED
      BY <3>1, <3>2, <3>3
  <2>6. ASSUME TurnsDown(q)
        PROVE  /\ LedgerTypeOK' /\ stages' \in [Sequences -> [Workers -> Stage]]
               /\ phase' \in [Sequences -> Phases]
    <3>1. LedgerTypeOK'
      <4>1. reservations' \in Slots
        BY <2>3, <2>6 DEF TurnsDown
      <4>2. workers' \in Hosts
        BY <2>3, <2>6 DEF TurnsDown
      <4> QED
        BY <4>1, <4>2 DEF LedgerTypeOK
    <3>2. stages' \in [Sequences -> [Workers -> Stage]]
      BY <2>6 DEF TurnsDown, TypeOK
    <3>3. phase' \in [Sequences -> Phases]
      BY <2>6 DEF TurnsDown, TypeOK, Phases
    <3> QED
      BY <3>1, <3>2, <3>3
  <2>7. /\ LedgerTypeOK' /\ stages' \in [Sequences -> [Workers -> Stage]]
        /\ phase' \in [Sequences -> Phases]
    BY <2>1, <2>5, <2>6
  <2>8. view' \in [Sequences -> Inventory]
    <3>1. view' = [view EXCEPT ![q] = EmptyView]
      BY <1>3, ReservationStep
    <3>2. EmptyView \in Inventory
      BY DEF EmptyView, Inventory
    <3> QED
      BY <3>1, <3>2 DEF TypeOK
  <2>9. UNCHANGED <<done, outcome, found, daemon, inFlight, agentVars>>
    BY <1>3, ReservationStep
  <2> QED
    BY <2>7, <2>8, <2>9 DEF TypeOK
<1>4. ASSUME NEW q \in Sequences, ResolveFails(q) PROVE TypeOK'
  <2>1. phase' \in [Sequences -> Phases] /\ done' \in [Sequences -> SUBSET Workers] /\ outcome' \in [Sequences -> Outcome]
    BY <1>4, FinishType DEF ResolveFails
  <2> QED
    BY <1>4, <2>1 DEF TypeOK, LedgerTypeOK, ResolveFails
<1>5. ASSUME NEW q \in Sequences, SetupDone(q) PROVE TypeOK'
  <2>1. phase' \in [Sequences -> Phases] /\ done' \in [Sequences -> SUBSET Workers]
    BY <1>5, EnterType DEF SetupDone, Phases, Holding
  <2> QED
    BY <1>5, <2>1 DEF TypeOK, LedgerTypeOK, SetupDone
<1>6. ASSUME NEW q \in Sequences, EndSetup(q) PROVE TypeOK'
  <2>1. \/ Finish(q, TRUE, TRUE)
        \/ Enter(q, "prepared") /\ UNCHANGED outcome
    BY <1>6 DEF EndSetup
  <2>2. "prepared" \in Phases
    BY DEF Phases, Holding
  <2>3. phase' \in [Sequences -> Phases] /\ done' \in [Sequences -> SUBSET Workers] /\ outcome' \in [Sequences -> Outcome]
    BY <2>1, <2>2, EnterType, FinishType DEF TypeOK
  <2> QED
    BY <1>6, <2>3 DEF TypeOK, LedgerTypeOK, EndSetup
<1>7. ASSUME NEW q \in Sequences, ObserveTimesOut(q) PROVE TypeOK'
  <2>1. phase' \in [Sequences -> Phases] /\ done' \in [Sequences -> SUBSET Workers] /\ outcome' \in [Sequences -> Outcome]
    BY <1>7, FinishType DEF ObserveTimesOut
  <2> QED
    BY <1>7, <2>1 DEF TypeOK, LedgerTypeOK, ObserveTimesOut
<1>8. ASSUME NEW q \in Sequences, Generate(q) PROVE TypeOK'
  <2>1. phase' \in [Sequences -> Phases] /\ done' \in [Sequences -> SUBSET Workers]
    BY <1>8, EnterType DEF Generate, Phases, Holding
  <2> QED
    BY <1>8, <2>1 DEF TypeOK, LedgerTypeOK, Generate
<1>9. ASSUME NEW q \in Sequences, Close(q) PROVE TypeOK'
  <2>1. phase' \in [Sequences -> Phases] /\ done' \in [Sequences -> SUBSET Workers] /\ outcome' \in [Sequences -> Outcome]
    BY <1>9, FinishType DEF Close
  <2> QED
    BY <1>9, <2>1 DEF TypeOK, LedgerTypeOK, Close
<1>10. ASSUME NEW q \in Sequences, EndGenerate(q) PROVE TypeOK'
  <2>1. phase' \in [Sequences -> Phases] /\ outcome' \in [Sequences -> Outcome]
    BY <1>10 DEF EndGenerate, TypeOK, Outcome, Phases, Holding
  <2> QED
    BY <1>10, <2>1 DEF TypeOK, LedgerTypeOK, EndGenerate
<1>11. ASSUME NEW q \in Sequences, EndCleanup(q) PROVE TypeOK'
  <2>1. phase' \in [Sequences -> Phases] /\ done' \in [Sequences -> SUBSET Workers]
    BY <1>11, EnterType DEF EndCleanup, Phases, Holding
  <2> QED
    BY <1>11, <2>1 DEF TypeOK, LedgerTypeOK, EndCleanup
<1>12. ASSUME NEW q \in Sequences, FinishSnapshot(q) PROVE TypeOK'
  <2>1. phase' \in [Sequences -> Phases] /\ done' \in [Sequences -> SUBSET Workers]
    BY <1>12, EnterType DEF FinishSnapshot, Phases, Holding
  <2>2. found' \in [Sequences -> SUBSET Workers]
    BY <1>12 DEF TypeOK, FinishSnapshot, Stages, Placed
  <2> QED
    BY <1>12, <2>1, <2>2 DEF TypeOK, LedgerTypeOK, FinishSnapshot
<1>13. ASSUME NEW q \in Sequences, FinishReservation(q) PROVE TypeOK'
  <2>1. phase' \in [Sequences -> Phases] /\ done' \in [Sequences -> SUBSET Workers]
    BY <1>13, EnterType DEF FinishReservation, Phases
  <2>2. /\ stages[q] \in [Workers -> Stage]
        /\ outcome[q].mayHaveLoaded \in BOOLEAN
        /\ outcome[q].cleanupConfirmed \in BOOLEAN
        /\ found[q] \in SUBSET Workers
        /\ LedgerTypeOK
    BY DEF TypeOK, Outcome
  <2>3. LedgerTypeOK'
    BY <1>13, <2>2, ReleaseType DEF FinishReservation
  <2> QED
    BY <1>13, <2>1, <2>3 DEF TypeOK, FinishReservation
<1>14. ASSUME NEW q \in Sequences, NEW w \in Workers, LoadShard(q, w) PROVE TypeOK'
  <2>1. stages[q][w].shard \in Shards
    BY <1>14, StageShard DEF LoadShard
  <2>2. daemon' \in [Workers -> Daemon]
    BY <1>14, <2>1, DaemonStepType DEF LoadShard
  <2>3. done' \in [Sequences -> SUBSET Workers]
    BY <1>14 DEF TypeOK, LoadShard
  <2> QED
    BY <1>14, <2>1, <2>2, <2>3 DEF TypeOK, LedgerTypeOK, LoadShard
<1>15. ASSUME NEW q \in Sequences, NEW w \in Workers, SetupFails(q, w) PROVE TypeOK'
  <2>1. daemon' \in [Workers -> Daemon]
    <3>1. stages[q][w].shard \in Shards
      BY <1>15, StageShard DEF SetupFails
    <3>2. CASE UNCHANGED daemon
      BY <3>2 DEF TypeOK
    <3>3. CASE daemon' = [daemon EXCEPT ![w].loaded = @ \cup {stages[q][w].shard}]
      BY <3>1, <3>3, DaemonStepType
    <3> QED
      BY <1>15, <3>2, <3>3 DEF SetupFails
  <2>2. phase' \in [Sequences -> Phases] /\ done' \in [Sequences -> SUBSET Workers]
    <3>1. "observing" \in Phases /\ Enter(q, "observing")
      BY <1>15 DEF SetupFails, Phases, Holding
    <3> QED
      BY <3>1, EnterType
  <2>3. outcome' \in [Sequences -> Outcome]
    <3>1. outcome' = [outcome EXCEPT ![q] = [outcome[q] EXCEPT !.failed = TRUE]]
      BY <1>15 DEF SetupFails
    <3>2. [outcome[q] EXCEPT !.failed = TRUE] \in Outcome
      <4>1. outcome[q] \in Outcome
        BY DEF TypeOK
      <4> QED
        BY <4>1 DEF Outcome
    <3> QED
      BY <3>1, <3>2 DEF TypeOK
  <2> QED
    BY <1>15, <2>1, <2>2, <2>3 DEF TypeOK, LedgerTypeOK, SetupFails
<1>16. ASSUME NEW q \in Sequences, NEW w \in Workers, SetupTimesOut(q, w) PROVE TypeOK'
  <2>1. inFlight' \subseteq Request
    BY <1>16, StageCallType DEF TypeOK, SetupTimesOut
  <2>2. phase' \in [Sequences -> Phases] /\ done' \in [Sequences -> SUBSET Workers] /\ outcome' \in [Sequences -> Outcome]
    BY <1>16, FinishType DEF SetupTimesOut
  <2> QED
    BY <1>16, <2>1, <2>2 DEF TypeOK, LedgerTypeOK, SetupTimesOut
<1>17. ASSUME NEW q \in Sequences, NEW w \in Workers, ObserveSetup(q, w) PROVE TypeOK'
  <2>1. daemon' \in [Workers -> Daemon]
    BY <1>17, ObserveType DEF ObserveSetup
  <2>2. daemon'[w].obs \in Nat
    BY <2>1 DEF Daemon, Observation
  <2>3. stages[q][w] \in Stage
    BY DEF TypeOK
  <2>4. /\ (stages[q][w].shard \in daemon[w].loaded) \in BOOLEAN
        /\ (daemon[w].open[stages[q][w].shard] # {}) \in BOOLEAN
    OBVIOUS
  <2>5. stages' \in [Sequences -> [Workers -> Stage]]
    BY <1>17, <2>2, <2>3, <2>4 DEF TypeOK, ObserveSetup, Stage, Observation
  <2>6. done' \in [Sequences -> SUBSET Workers]
    BY <1>17 DEF TypeOK, ObserveSetup
  <2> QED
    BY <1>17, <2>1, <2>5, <2>6 DEF TypeOK, LedgerTypeOK, ObserveSetup
<1>18. ASSUME NEW q \in Sequences, NEW w \in Workers, ObserveSetupFails(q, w) PROVE TypeOK'
  <2>1. done' \in [Sequences -> SUBSET Workers]
    BY <1>18 DEF TypeOK, ObserveSetupFails
  <2>2. outcome' \in [Sequences -> Outcome]
    BY <1>18 DEF TypeOK, ObserveSetupFails, Outcome
  <2> QED
    BY <1>18, <2>1, <2>2 DEF TypeOK, LedgerTypeOK, ObserveSetupFails
<1>19. ASSUME NEW q \in Sequences, NEW w \in Workers, OpenSequence(q, w) PROVE TypeOK'
  <2>1. daemon' \in [Workers -> Daemon]
    BY <1>19, DaemonStepType DEF OpenSequence
  <2>2. done' \in [Sequences -> SUBSET Workers]
    BY <1>19 DEF TypeOK, OpenSequence
  <2> QED
    BY <1>19, <2>1, <2>2 DEF TypeOK, LedgerTypeOK, OpenSequence
<1>20. ASSUME NEW q \in Sequences, NEW w \in Workers, OpenRejected(q, w) PROVE TypeOK'
  <2>1. outcome' \in [Sequences -> Outcome]
    BY <1>20 DEF TypeOK, OpenRejected, Outcome
  <2> QED
    BY <1>20, <2>1 DEF TypeOK, LedgerTypeOK, OpenRejected
<1>21. ASSUME NEW q \in Sequences, NEW w \in Workers, OpenAmbiguous(q, w) PROVE TypeOK'
  <2>1. daemon' \in [Workers -> Daemon]
    <3>1. CASE UNCHANGED daemon
      BY <3>1 DEF TypeOK
    <3>2. CASE daemon' = Opened(q, {w})
      BY <3>2, DaemonStepType
    <3> QED
      BY <1>21, <3>1, <3>2 DEF OpenAmbiguous
  <2>2. inFlight' \subseteq Request
    <3>1. StageCall("open", q, w) \in Request
      BY <1>21, StageCallType DEF OpenAmbiguous
    <3> QED
      BY <1>21, <3>1 DEF TypeOK, OpenAmbiguous
  <2>3. done' \in [Sequences -> SUBSET Workers] /\ outcome' \in [Sequences -> Outcome]
    BY <1>21 DEF TypeOK, OpenAmbiguous, Outcome
  <2> QED
    BY <1>21, <2>1, <2>2, <2>3 DEF TypeOK, LedgerTypeOK, OpenAmbiguous
<1>22. ASSUME NEW q \in Sequences, NEW w \in Workers, ObserveCleanup(q, w) PROVE TypeOK'
  <2>1. daemon' \in [Workers -> Daemon]
    BY <1>22, ObserveType DEF ObserveCleanup
  <2>2. daemon'[w].obs \in Nat
    BY <2>1 DEF Daemon, Observation
  <2>3. stages[q][w] \in Stage
    BY DEF TypeOK
  <2>4. /\ (stages[q][w].shard \in daemon[w].loaded) \in BOOLEAN
        /\ (daemon[w].open[stages[q][w].shard] # {}) \in BOOLEAN
    OBVIOUS
  <2>5. stages' \in [Sequences -> [Workers -> Stage]]
    BY <1>22, <2>2, <2>3, <2>4 DEF TypeOK, ObserveCleanup, Stage, Observation
  <2>6. done' \in [Sequences -> SUBSET Workers]
    BY <1>22 DEF TypeOK, ObserveCleanup
  <2> QED
    BY <1>22, <2>1, <2>5, <2>6 DEF TypeOK, LedgerTypeOK, ObserveCleanup
<1>23. ASSUME NEW q \in Sequences, NEW w \in Workers,
             ObserveCleanupFails(q, w)
      PROVE  TypeOK'
  BY <1>23 DEF TypeOK, LedgerTypeOK, ObserveCleanupFails
<1>24. ASSUME NEW w \in Workers, WorkerRestart(w) PROVE TypeOK'
  <2>1. [daemon[w] EXCEPT !.loaded = {}, !.open = NothingOpen] \in Daemon
    BY <1>24 DEF TypeOK, Daemon, NothingOpen
  <2>2. daemon' \in [Workers -> Daemon]
    BY <1>24, <2>1 DEF TypeOK, WorkerRestart
  <2> QED
    BY <1>24, <2>1, <2>2 DEF TypeOK, LedgerTypeOK, WorkerRestart
<1>25. ASSUME NEW w \in Workers, DaemonRestart(w) PROVE TypeOK'
  <2>1. /\ NewDaemon(daemon[w].instance + 1) \in Daemon
        /\ Sampled(NewDaemon(daemon[w].instance + 1)) \in Status
    BY <1>25, NewDaemonType DEF DaemonRestart
  <2>2. daemon' \in [Workers -> Daemon]
    BY <1>25, <2>1 DEF TypeOK, DaemonRestart
  <2>3. /\ cached' \in [Workers -> Status]
        /\ probing' \in [Workers -> Status \cup {Absent}]
        /\ statusPending' \in [Workers -> BOOLEAN]
    BY <1>25, <2>1 DEF TypeOK, DaemonRestart
  <2> QED
    BY <1>25, <2>1, <2>2, <2>3 DEF TypeOK, LedgerTypeOK, DaemonRestart
<1>26. ASSUME NEW w \in Workers, Probe(w) PROVE TypeOK'
  <2>1. daemon' \in [Workers -> Daemon]
    BY <1>26, ObserveType DEF Probe
  <2>2. Sampled(daemon'[w]) \in Status
    BY <1>26, <2>1, SampledType
  <2>3. probing' \in [Workers -> Status \cup {Absent}]
    BY <1>26, <2>2 DEF TypeOK, Probe
  <2> QED
    BY <1>26, <2>1, <2>2, <2>3 DEF TypeOK, LedgerTypeOK, Probe
<1>27. ASSUME NEW w \in Workers, RecordStatus(w) PROVE TypeOK'
  BY <1>27 DEF TypeOK, LedgerTypeOK, RecordStatus
<1>28. ASSUME NEW w \in Workers, Heartbeat(w) PROVE TypeOK'
  <2>1. membership[w] \in Member
    BY <1>28 DEF TypeOK, Heartbeat, Departed, Inventory
  <2>2. [membership[w] EXCEPT !.status = cached[w], !.fresh = TRUE] \in Member
    BY <1>28, <2>1 DEF TypeOK, Member
  <2>3. membership' \in Inventory
    BY <1>28, <2>2 DEF TypeOK, Heartbeat, Inventory
  <2>4. statusPending' \in [Workers -> BOOLEAN]
    BY <1>28 DEF TypeOK, Heartbeat
  <2> QED
    BY <1>28, <2>1, <2>2, <2>3, <2>4 DEF TypeOK, LedgerTypeOK, Heartbeat
<1>29. ASSUME NEW w \in Workers, LeaseEnds(w) PROVE TypeOK'
  <2>1. membership' \in Inventory
    BY <1>29 DEF TypeOK, LeaseEnds, Inventory
  <2> QED
    BY <1>29, <2>1 DEF TypeOK, LedgerTypeOK, LeaseEnds
<1>30. ASSUME NEW w \in Workers, Register(w) PROVE TypeOK'
  <2>1. [instance |-> daemon[w].instance, status |-> cached[w],
          fresh |-> statusPending[w]] \in Member
    BY <1>30 DEF TypeOK, Member, Daemon
  <2>2. membership' \in Inventory
    BY <1>30, <2>1 DEF TypeOK, Register, Inventory
  <2>3. statusPending' \in [Workers -> BOOLEAN]
    BY <1>30 DEF TypeOK, Register
  <2> QED
    BY <1>30, <2>1, <2>2, <2>3 DEF TypeOK, LedgerTypeOK, Register
<1>31. ASSUME NEW m \in inFlight, Deliver(m) PROVE TypeOK'
  <2>1. m \in Request
    BY DEF TypeOK
  <2>2. daemon' \in [Workers -> Daemon]
    <3>1. m.owner \in Sequences /\ m.worker \in Workers /\ m.shard \in Shards
      BY <2>1 DEF Request
    <3>2. CASE UNCHANGED daemon
      BY <3>2 DEF TypeOK
    <3>3. CASE daemon' = [daemon EXCEPT ![m.worker].loaded = @ \cup {m.shard}]
      BY <3>1, <3>3, DaemonStepType
    <3>4. CASE daemon' = Opened(m.owner, {m.worker})
      BY <3>1, <3>4, DaemonStepType
    <3>5. CASE daemon' = Closed(m.owner, {m.worker})
      BY <3>1, <3>5, DaemonStepType
    <3> QED
      BY <1>31, <3>2, <3>3, <3>4, <3>5 DEF Deliver
  <2>3. inFlight' \subseteq Request
    BY <1>31 DEF TypeOK, Deliver
  <2> QED
    BY <1>31, <2>2, <2>3 DEF TypeOK, LedgerTypeOK, Deliver
<1>33. ASSUME NEW q \in Sequences, EndClosing(q) PROVE TypeOK'
  <2>1. outcome[q].cleanupConfirmed \in BOOLEAN
    BY DEF TypeOK, Outcome
  <2>2. phase' \in [Sequences -> Phases] /\ done' \in [Sequences -> SUBSET Workers] /\ outcome' \in [Sequences -> Outcome]
    BY <1>33, <2>1, FinishType DEF EndClosing
  <2> QED
    BY <1>33, <2>2 DEF TypeOK, LedgerTypeOK, EndClosing
<1>34. ASSUME NEW q \in Sequences, NEW w \in Workers, CloseSequence(q, w) PROVE TypeOK'
  <2>1. daemon' \in [Workers -> Daemon]
    BY <1>34, DaemonStepType DEF CloseSequence
  <2>2. done' \in [Sequences -> SUBSET Workers]
    BY <1>34 DEF TypeOK, CloseSequence
  <2> QED
    BY <1>34, <2>1, <2>2 DEF TypeOK, LedgerTypeOK, CloseSequence
<1>35. ASSUME NEW q \in Sequences, NEW w \in Workers, CloseFails(q, w) PROVE TypeOK'
  <2>1. daemon' \in [Workers -> Daemon]
    <3>1. CASE UNCHANGED daemon
      BY <3>1 DEF TypeOK
    <3>2. CASE daemon' = Closed(q, {w})
      BY <3>2, DaemonStepType
    <3> QED
      BY <1>35, <3>1, <3>2 DEF CloseFails
  <2>2. inFlight' \subseteq Request
    <3>1. w \in Stages(q)
      BY <1>35 DEF CloseFails, ProgressPlaced, Holding
    <3>2. StageCall("close", q, w) \in Request
      BY <3>1, StageCallType
    <3> QED
      BY <1>35, <3>2 DEF TypeOK, CloseFails
  <2>3. done' \in [Sequences -> SUBSET Workers] /\ outcome' \in [Sequences -> Outcome]
    BY <1>35 DEF TypeOK, CloseFails, Outcome
  <2> QED
    BY <1>35, <2>1, <2>2, <2>3 DEF TypeOK, LedgerTypeOK, CloseFails
<1>32. CASE UNCHANGED vars
  BY <1>32 DEF vars, TypeOK, LedgerTypeOK
<1> QED
  BY <1>1, <1>2, <1>3, <1>4, <1>5, <1>6, <1>7, <1>8, <1>9, <1>10, <1>11, <1>12, <1>13, <1>14, <1>15, <1>16, <1>17, <1>18, <1>19, <1>20, <1>21, <1>22, <1>23, <1>24, <1>25, <1>26, <1>27, <1>28, <1>29, <1>30, <1>31, <1>32, <1>33, <1>34, <1>35
     DEF Next, Call, PlanStep, SetupStep, RunStep, WorkerStep, AgentStep

LEMMA ReservationProgress ==
    ASSUME TypeOK, ProgressPlaced, NEW q \in Sequences, ReserveAdmission(q)
    PROVE  ProgressPlaced'
<1>1. PICK place \in [Workers -> Shards \cup {NoShard}] : Admits(q, place) \/ TurnsDown(q)
  BY ReservationStep
<1>2. phase[q] = "planning" /\ UNCHANGED done
  BY ReservationStep
<1>3. phase \in [Sequences -> Phases] /\ stages \in [Sequences -> [Workers -> Stage]]
  BY DEF TypeOK
<1>4. \A p \in Sequences : p # q => phase'[p] = phase[p] /\ stages'[p] = stages[p]
  <2> DEFINE planned == PlannedStages(view[q], place)
  <2>1. \E next : phase' = [phase EXCEPT ![q] = next]
    BY <1>1, ZenonT(30) DEF Admits, TurnsDown
  <2>2. stages' = [stages EXCEPT ![q] = planned] \/ stages' = stages
    BY <1>1, ZenonT(30) DEF Admits, TurnsDown
  <2> HIDE DEF planned
  <2> QED
    BY <1>3, <2>1, <2>2
<1>5. done[q] = {}
  BY <1>2 DEF ProgressPlaced, Holding
<1>6. ASSUME NEW p \in Sequences
      PROVE  IF phase'[p] \in Holding THEN done'[p] \subseteq Placed(stages'[p])
             ELSE done'[p] = {}
  <2>1. CASE p = q
    BY <1>2, <1>5, <2>1
  <2>2. CASE p # q
    BY <1>2, <1>4, <2>2 DEF ProgressPlaced, Stages
  <2> QED
    BY <2>1, <2>2
<1> QED
  BY <1>6 DEF ProgressPlaced, Stages

LEMMA NextProgress == TypeOK /\ ProgressPlaced /\ [Next]_vars => ProgressPlaced'
<1> SUFFICES ASSUME TypeOK, ProgressPlaced, [Next]_vars PROVE ProgressPlaced'
  OBVIOUS
<1> USE DEF ledger, sequenceVars, agentVars, TypeOK, ProgressPlaced, Stages, Placed,
            Holding, Enter, Finish
<1>1. ASSUME NEW q \in Sequences, TakeSnapshot(q) PROVE ProgressPlaced'
  BY <1>1 DEF TakeSnapshot
<1>2. ASSUME NEW q \in Sequences, NoPlan(q) PROVE ProgressPlaced'
  BY <1>2 DEF NoPlan
<1>3. ASSUME NEW q \in Sequences, ReserveAdmission(q) PROVE ProgressPlaced'
  BY <1>3, ReservationProgress
<1>4. ASSUME NEW q \in Sequences, ResolveFails(q) PROVE ProgressPlaced'
  BY <1>4 DEF ResolveFails
<1>5. ASSUME NEW q \in Sequences, SetupDone(q) PROVE ProgressPlaced'
  BY <1>5 DEF SetupDone
<1>6. ASSUME NEW q \in Sequences, EndSetup(q) PROVE ProgressPlaced'
  BY ZenonT(40), <1>6 DEF EndSetup
<1>7. ASSUME NEW q \in Sequences, ObserveTimesOut(q) PROVE ProgressPlaced'
  BY <1>7 DEF ObserveTimesOut
<1>8. ASSUME NEW q \in Sequences, Generate(q) PROVE ProgressPlaced'
  BY <1>8 DEF Generate
<1>9. ASSUME NEW q \in Sequences, Close(q) PROVE ProgressPlaced'
  BY <1>9 DEF Close
<1>10. ASSUME NEW q \in Sequences, EndGenerate(q) PROVE ProgressPlaced'
  BY <1>10 DEF EndGenerate
<1>11. ASSUME NEW q \in Sequences, EndCleanup(q) PROVE ProgressPlaced'
  BY <1>11 DEF EndCleanup
<1>12. ASSUME NEW q \in Sequences, FinishSnapshot(q) PROVE ProgressPlaced'
  BY <1>12 DEF FinishSnapshot
<1>13. ASSUME NEW q \in Sequences, FinishReservation(q) PROVE ProgressPlaced'
  BY <1>13 DEF FinishReservation
<1>14. ASSUME NEW q \in Sequences, NEW w \in Workers, LoadShard(q, w) PROVE ProgressPlaced'
  BY <1>14 DEF LoadShard
<1>15. ASSUME NEW q \in Sequences, NEW w \in Workers, SetupFails(q, w) PROVE ProgressPlaced'
  BY <1>15 DEF SetupFails
<1>16. ASSUME NEW q \in Sequences, NEW w \in Workers,
             SetupTimesOut(q, w)
      PROVE  ProgressPlaced'
  BY <1>16 DEF SetupTimesOut
<1>17. ASSUME NEW q \in Sequences, NEW w \in Workers,
             ObserveSetup(q, w)
      PROVE  ProgressPlaced'
  BY <1>17 DEF ObserveSetup
<1>18. ASSUME NEW q \in Sequences, NEW w \in Workers,
             ObserveSetupFails(q, w)
      PROVE  ProgressPlaced'
  BY <1>18 DEF ObserveSetupFails
<1>19. ASSUME NEW q \in Sequences, NEW w \in Workers,
             OpenSequence(q, w)
      PROVE  ProgressPlaced'
  BY <1>19 DEF OpenSequence
<1>20. ASSUME NEW q \in Sequences, NEW w \in Workers,
             OpenRejected(q, w)
      PROVE  ProgressPlaced'
  BY <1>20 DEF OpenRejected
<1>21. ASSUME NEW q \in Sequences, NEW w \in Workers,
             OpenAmbiguous(q, w)
      PROVE  ProgressPlaced'
  BY <1>21 DEF OpenAmbiguous
<1>22. ASSUME NEW q \in Sequences, NEW w \in Workers,
             ObserveCleanup(q, w)
      PROVE  ProgressPlaced'
  BY <1>22 DEF ObserveCleanup
<1>23. ASSUME NEW q \in Sequences, NEW w \in Workers,
             ObserveCleanupFails(q, w)
      PROVE  ProgressPlaced'
  BY <1>23 DEF ObserveCleanupFails
<1>33. ASSUME NEW q \in Sequences, EndClosing(q) PROVE ProgressPlaced'
  BY <1>33 DEF EndClosing
<1>34. ASSUME NEW q \in Sequences, NEW w \in Workers, CloseSequence(q, w) PROVE ProgressPlaced'
  BY <1>34 DEF CloseSequence
<1>35. ASSUME NEW q \in Sequences, NEW w \in Workers, CloseFails(q, w) PROVE ProgressPlaced'
  BY <1>35 DEF CloseFails
<1>31. ASSUME NEW m \in inFlight, Deliver(m) PROVE ProgressPlaced'
  BY <1>31 DEF Deliver
<1>24. ASSUME NEW w \in Workers, WorkerStep(w) \/ AgentStep(w) PROVE ProgressPlaced'
  BY <1>24 DEF WorkerStep, WorkerRestart, DaemonRestart, AgentStep, Probe, RecordStatus,
               Heartbeat, LeaseEnds, Register
<1>32. CASE UNCHANGED vars
  BY <1>32 DEF vars
<1> QED
  BY <1>1, <1>2, <1>3, <1>4, <1>5, <1>6, <1>7, <1>8, <1>9, <1>10, <1>11, <1>12, <1>13, <1>14, <1>15, <1>16, <1>17, <1>18, <1>19, <1>20, <1>21, <1>22, <1>23, <1>24, <1>31, <1>32, <1>33, <1>34, <1>35
     DEF Next, Call, PlanStep, SetupStep, RunStep

\* Every variable stays within its type, through every interleaving of callers,
\* faults, restarts and lease changes.
THEOREM TypeCorrect == Spec => []TypeOK
<1>1. Init => TypeOK /\ ProgressPlaced
  <2>1. Init => ProgressPlaced
    BY DEF Init, ProgressPlaced, Holding
  <2> QED
    BY <2>1, InitType
<1>2. TypeOK /\ ProgressPlaced /\ [Next]_vars => (TypeOK /\ ProgressPlaced)'
  BY NextType, NextProgress
<1> QED
  BY <1>1, <1>2, PTL DEF Spec

-----------------------------------------------------------------------------
(***************************************************************************)
(* The ledger counts exactly the unfinished reservations.                  *)
(***************************************************************************)

\* What comes out of a sum is what the other addend was, and one more or one
\* fewer holder is one share more or fewer.
LEMMA MonusExact == \A a, b \in Nat : Monus(a + b, b) = a
BY DEF Monus

LEMMA ShareOfOne == \A c, n \in Nat : c * n \in Nat /\ c * (n + 1) = c * n + c
OBVIOUS

LEMMA CountAdded ==
    ASSUME NEW S, IsFiniteSet(S), NEW q, q \notin S
    PROVE  Cardinality(S) \in Nat /\ Cardinality(S \cup {q}) = Cardinality(S) + 1
BY FS_AddElement, FS_CardinalityType

LEMMA CountRemoved ==
    ASSUME NEW S, IsFiniteSet(S), NEW q \in S
    PROVE  /\ Cardinality(S \ {q}) \in Nat
           /\ Cardinality(S) = Cardinality(S \ {q}) + 1
<1>1. IsFiniteSet(S \ {q})
  BY FS_RemoveElement
<1>2. (S \ {q}) \cup {q} = S
  OBVIOUS
<1> QED
  BY <1>1, <1>2, CountAdded

LEMMA HoldersFinite ==
    \A w, i, s : /\ IsFiniteSet(ShardHolders(w, i, s))
                 /\ IsFiniteSet(WorkerHolders(w, i))
                 /\ IsFiniteSet(LoadHolders(w, i))
BY LedgerAssumption, FS_Subset DEF ShardHolders, WorkerHolders, LoadHolders

\* Where a sequence holds slots, and whether it pays for a load there.
SameFootprint(q) ==
    /\ phase'[q] \in Holding <=> phase[q] \in Holding
    /\ \A w \in Workers : /\ stages'[q][w].shard = stages[q][w].shard
                          /\ stages'[q][w].instance = stages[q][w].instance
                          /\ stages'[q][w].loads = stages[q][w].loads

SameCounters ==
    \A w \in Workers, i \in Instances :
      /\ \A s \in Shards : reservations'[w][i][s].active = reservations[w][i][s].active
      /\ workers'[w][i].activeRequests = workers[w][i].activeRequests
      /\ workers'[w][i].activeAvailable = workers[w][i].activeAvailable
      /\ workers'[w][i].activeRetained = workers[w][i].activeRetained

LEMMA LedgerStable ==
    ASSUME LedgerMatchesHolders, SameCounters, \A q \in Sequences : SameFootprint(q)
    PROVE  LedgerMatchesHolders'
<1> SUFFICES ASSUME NEW w \in Workers, NEW i \in Instances
             PROVE  /\ \A s \in Shards : ShardHolders(w, i, s)' = ShardHolders(w, i, s)
                    /\ WorkerHolders(w, i)' = WorkerHolders(w, i)
                    /\ LoadHolders(w, i)' = LoadHolders(w, i)
  BY DEF LedgerMatchesHolders, SameCounters
<1>1. \A s \in Shards : ShardHolders(w, i, s)' = ShardHolders(w, i, s)
  BY DEF ShardHolders, SameFootprint, OnShard
<1>2. WorkerHolders(w, i)' = WorkerHolders(w, i)
  BY DEF WorkerHolders, SameFootprint, OnWorker, Placed
<1>3. LoadHolders(w, i)' = LoadHolders(w, i)
  BY <1>2 DEF LoadHolders, WorkerHolders, SameFootprint
<1> QED
  BY <1>1, <1>2, <1>3

\* The sets of holders when one sequence comes, and when one goes.
Others(q) == \A p \in Sequences \ {q} : SameFootprint(p)

LEMMA HoldersGain ==
    ASSUME NEW q \in Sequences, Others(q), phase[q] \notin Holding, phase'[q] \in Holding,
           NEW w \in Workers, NEW i \in Instances
    PROVE  /\ \A s \in Shards :
                /\ q \notin ShardHolders(w, i, s)
                /\ ShardHolders(w, i, s)' = IF OnShard(stages[q], w, i, s)'
                                            THEN ShardHolders(w, i, s) \cup {q}
                                            ELSE ShardHolders(w, i, s)
           /\ q \notin WorkerHolders(w, i) /\ q \notin LoadHolders(w, i)
           /\ WorkerHolders(w, i)' = IF OnWorker(stages[q], w, i)'
                                     THEN WorkerHolders(w, i) \cup {q} ELSE WorkerHolders(w, i)
           /\ LoadHolders(w, i)' = IF OnWorker(stages[q], w, i)' /\ stages'[q][w].loads
                                   THEN LoadHolders(w, i) \cup {q} ELSE LoadHolders(w, i)
<1>1. ASSUME NEW p \in Sequences, p # q
      PROVE  SameFootprint(p)
  BY <1>1 DEF Others
<1>2. \A s \in Shards :
        /\ q \notin ShardHolders(w, i, s)
        /\ ShardHolders(w, i, s)' = IF OnShard(stages[q], w, i, s)'
                                    THEN ShardHolders(w, i, s) \cup {q}
                                    ELSE ShardHolders(w, i, s)
  BY <1>1 DEF ShardHolders, SameFootprint, OnShard
<1>3. /\ q \notin WorkerHolders(w, i)
      /\ WorkerHolders(w, i)' = IF OnWorker(stages[q], w, i)'
                                THEN WorkerHolders(w, i) \cup {q} ELSE WorkerHolders(w, i)
  BY <1>1 DEF WorkerHolders, SameFootprint, OnWorker, Placed
<1>4. /\ q \notin LoadHolders(w, i)
      /\ LoadHolders(w, i)' = IF OnWorker(stages[q], w, i)' /\ stages'[q][w].loads
                              THEN LoadHolders(w, i) \cup {q} ELSE LoadHolders(w, i)
  BY <1>1, <1>3 DEF LoadHolders, WorkerHolders, SameFootprint
<1> QED
  BY <1>2, <1>3, <1>4

LEMMA HoldersLose ==
    ASSUME NEW q \in Sequences, Others(q), phase[q] \in Holding, phase'[q] \notin Holding,
           NEW w \in Workers, NEW i \in Instances
    PROVE  /\ \A s \in Shards :
                /\ q \in ShardHolders(w, i, s) <=> OnShard(stages[q], w, i, s)
                /\ ShardHolders(w, i, s)' = ShardHolders(w, i, s) \ {q}
           /\ q \in WorkerHolders(w, i) <=> OnWorker(stages[q], w, i)
           /\ q \in LoadHolders(w, i) <=> OnWorker(stages[q], w, i) /\ stages[q][w].loads
           /\ WorkerHolders(w, i)' = WorkerHolders(w, i) \ {q}
           /\ LoadHolders(w, i)' = LoadHolders(w, i) \ {q}
<1>1. ASSUME NEW p \in Sequences, p # q
      PROVE  SameFootprint(p)
  BY <1>1 DEF Others
<1>2. \A s \in Shards :
        /\ q \in ShardHolders(w, i, s) <=> OnShard(stages[q], w, i, s)
        /\ ShardHolders(w, i, s)' = ShardHolders(w, i, s) \ {q}
  BY <1>1 DEF ShardHolders, SameFootprint, OnShard
<1>3. /\ q \in WorkerHolders(w, i) <=> OnWorker(stages[q], w, i)
      /\ WorkerHolders(w, i)' = WorkerHolders(w, i) \ {q}
  BY <1>1 DEF WorkerHolders, SameFootprint, OnWorker, Placed
<1>4. /\ q \in LoadHolders(w, i) <=> OnWorker(stages[q], w, i) /\ stages[q][w].loads
      /\ LoadHolders(w, i)' = LoadHolders(w, i) \ {q}
  BY <1>1, <1>3 DEF LoadHolders, WorkerHolders, SameFootprint
<1> QED
  BY <1>2, <1>3, <1>4

\* reserveAdmission adds one to every counter of every stage, and what the stage
\* costs to the bytes, from counters that are exact.
LEMMA ReserveExact ==
    ASSUME NEW q \in Sequences, NEW slots \in Slots, NEW hosts \in Hosts,
           stages'[q] \in [Workers -> Stage],
           LedgerMatchesHolders, Others(q), phase[q] \notin Holding, phase'[q] \in Holding,
           \A w \in Workers, i \in Instances :
             /\ \A s \in Shards : slots[w][i][s].active = reservations[w][i][s].active
             /\ hosts[w][i].activeRequests = workers[w][i].activeRequests
             /\ hosts[w][i].activeAvailable = workers[w][i].activeAvailable
             /\ hosts[w][i].activeRetained = workers[w][i].activeRetained,
           Reserve(slots, hosts, stages'[q])
    PROVE  LedgerMatchesHolders'
<1> SUFFICES ASSUME NEW w \in Workers, NEW i \in Instances
             PROVE  /\ \A s \in Shards :
                         reservations'[w][i][s].active = Cardinality(ShardHolders(w, i, s)')
                    /\ workers'[w][i].activeRequests = Cardinality(WorkerHolders(w, i)')
                    /\ workers'[w][i].activeRetained
                         = SequenceBytes * Cardinality(WorkerHolders(w, i)')
                    /\ workers'[w][i].activeAvailable
                         = SequenceBytes * Cardinality(WorkerHolders(w, i)')
                             + LoadBytes * Cardinality(LoadHolders(w, i)')
  BY DEF LedgerMatchesHolders
<1>1. ASSUME NEW s \in Shards
      PROVE  reservations'[w][i][s].active = Cardinality(ShardHolders(w, i, s)')
  <2>1. slots[w][i][s].active = Cardinality(ShardHolders(w, i, s))
    BY DEF LedgerMatchesHolders
  <2>2. slots[w][i][s] \in Slot
    BY DEF Slots
  <2>3. reservations'[w][i][s].active = IF OnShard(stages'[q], w, i, s)
                                        THEN slots[w][i][s].active + 1
                                        ELSE slots[w][i][s].active
    BY <2>2 DEF Reserve, Slot
  <2>4. OnShard(stages[q], w, i, s)' <=> OnShard(stages'[q], w, i, s)
    BY DEF OnShard
  <2> QED
    BY <2>1, <2>3, <2>4, HoldersGain, HoldersFinite, CountAdded
<1>2. /\ Cardinality(WorkerHolders(w, i)) \in Nat
      /\ Cardinality(LoadHolders(w, i)) \in Nat
      /\ SequenceBytes \in Nat /\ LoadBytes \in Nat
  BY HoldersFinite, FS_CardinalityType, LedgerAssumption
<1>3. /\ hosts[w][i].activeRequests = Cardinality(WorkerHolders(w, i))
      /\ hosts[w][i].activeRetained = SequenceBytes * Cardinality(WorkerHolders(w, i))
      /\ hosts[w][i].activeAvailable = SequenceBytes * Cardinality(WorkerHolders(w, i))
                                         + LoadBytes * Cardinality(LoadHolders(w, i))
  BY DEF LedgerMatchesHolders
<1>4. OnWorker(stages[q], w, i)' <=> OnWorker(stages'[q], w, i)
  BY DEF OnWorker, Placed
<1>5. CASE ~OnWorker(stages'[q], w, i)
  <2>1. workers'[w][i] = hosts[w][i]
    BY <1>5 DEF Reserve
  <2>2. WorkerHolders(w, i)' = WorkerHolders(w, i) /\ LoadHolders(w, i)' = LoadHolders(w, i)
    BY <1>4, <1>5, HoldersGain
  <2> QED
    BY <1>1, <1>3, <2>1, <2>2
<1>6. CASE OnWorker(stages'[q], w, i)
  <2>1. workers'[w][i] = [activeRequests |-> hosts[w][i].activeRequests + 1,
                          activeAvailable |-> hosts[w][i].activeAvailable
                                                + StageBytes(stages'[q][w].loads),
                          activeRetained |-> hosts[w][i].activeRetained + SequenceBytes,
                          pending |-> hosts[w][i].pending]
    BY <1>6 DEF Reserve
  <2>2. Cardinality(WorkerHolders(w, i)') = Cardinality(WorkerHolders(w, i)) + 1
    BY ZenonT(40), <1>4, <1>6, HoldersGain, HoldersFinite, CountAdded
  <2>3. SequenceBytes * Cardinality(WorkerHolders(w, i)')
          = SequenceBytes * Cardinality(WorkerHolders(w, i)) + SequenceBytes
    BY <2>2, <1>2, ShareOfOne
  <2>4. LoadBytes * Cardinality(LoadHolders(w, i)')
          = LoadBytes * Cardinality(LoadHolders(w, i))
              + (IF stages'[q][w].loads THEN LoadBytes ELSE 0)
    <3>1. CASE stages'[q][w].loads
      <4>1. Cardinality(LoadHolders(w, i)') = Cardinality(LoadHolders(w, i)) + 1
        BY <1>4, <1>6, <3>1, HoldersGain, HoldersFinite, CountAdded
      <4> QED
        BY <3>1, <4>1, <1>2, ShareOfOne
    <3>2. CASE ~stages'[q][w].loads
      <4>1. LoadHolders(w, i)' = LoadHolders(w, i)
        BY <1>4, <1>6, <3>2, HoldersGain
      <4>2. LoadBytes * Cardinality(LoadHolders(w, i)) \in Nat
        BY <1>2, ShareOfOne
      <4> QED
        BY <3>2, <4>1, <4>2
    <3> QED
      BY <3>1, <3>2
  <2>5. /\ SequenceBytes * Cardinality(WorkerHolders(w, i)) \in Nat
        /\ LoadBytes * Cardinality(LoadHolders(w, i)) \in Nat
    BY <1>2, ShareOfOne
  <2> QED
    BY <1>1, <1>2, <1>3, <2>1, <2>2, <2>3, <2>4, <2>5 DEF StageBytes
<1> QED
  BY <1>5, <1>6

\* finishReservation takes the same shares back: the counters hold them, so neither
\* Decrement nor Monus stops at zero.
LEMMA ReleaseExact ==
    ASSUME NEW q \in Sequences, NEW mayHaveLoaded, NEW confirmed, NEW listed,
           LedgerTypeOK, LedgerMatchesHolders, Others(q),
           phase[q] \in Holding, phase'[q] \notin Holding,
           Release(q, stages[q], mayHaveLoaded, confirmed, listed)
    PROVE  LedgerMatchesHolders'
<1> SUFFICES ASSUME NEW w \in Workers, NEW i \in Instances
             PROVE  /\ \A s \in Shards :
                         reservations'[w][i][s].active = Cardinality(ShardHolders(w, i, s)')
                    /\ workers'[w][i].activeRequests = Cardinality(WorkerHolders(w, i)')
                    /\ workers'[w][i].activeRetained
                         = SequenceBytes * Cardinality(WorkerHolders(w, i)')
                    /\ workers'[w][i].activeAvailable
                         = SequenceBytes * Cardinality(WorkerHolders(w, i)')
                             + LoadBytes * Cardinality(LoadHolders(w, i)')
  BY DEF LedgerMatchesHolders
<1>1. ASSUME NEW s \in Shards
      PROVE  reservations'[w][i][s].active = Cardinality(ShardHolders(w, i, s)')
  <2>1. reservations[w][i][s].active = Cardinality(ShardHolders(w, i, s))
    BY DEF LedgerMatchesHolders
  <2>2. reservations[w][i][s] \in Slot
    BY DEF LedgerTypeOK, Slots
  <2>3. ShardHolders(w, i, s)' = ShardHolders(w, i, s) \ {q}
    BY HoldersLose
  <2>4. CASE OnShard(stages[q], w, i, s)
    <3>1. reservations'[w][i][s].active = Decrement(reservations[w][i][s].active)
      BY <2>4 DEF Release
    <3>2. /\ Cardinality(ShardHolders(w, i, s)') \in Nat
          /\ Cardinality(ShardHolders(w, i, s)) = Cardinality(ShardHolders(w, i, s)') + 1
      BY <2>3, <2>4, HoldersLose, HoldersFinite, CountRemoved
    <3> QED
      BY <2>1, <3>1, <3>2 DEF Decrement
  <2>5. CASE ~OnShard(stages[q], w, i, s)
    <3>1. reservations'[w][i][s] = reservations[w][i][s]
      BY <2>5 DEF Release
    <3>2. ShardHolders(w, i, s)' = ShardHolders(w, i, s)
      BY <2>3, <2>5, HoldersLose
    <3> QED
      BY <2>1, <3>1, <3>2
  <2> QED
    BY <2>4, <2>5
<1>2. /\ SequenceBytes \in Nat /\ LoadBytes \in Nat
      /\ Cardinality(WorkerHolders(w, i)) \in Nat
      /\ Cardinality(LoadHolders(w, i)) \in Nat
  BY HoldersFinite, FS_CardinalityType, LedgerAssumption
<1>3. /\ workers[w][i].activeRequests = Cardinality(WorkerHolders(w, i))
      /\ workers[w][i].activeRetained = SequenceBytes * Cardinality(WorkerHolders(w, i))
      /\ workers[w][i].activeAvailable = SequenceBytes * Cardinality(WorkerHolders(w, i))
                                           + LoadBytes * Cardinality(LoadHolders(w, i))
  BY DEF LedgerMatchesHolders
<1>4. CASE ~OnWorker(stages[q], w, i)
  <2>1. workers'[w][i] = workers[w][i]
    BY <1>4 DEF Release
  <2>2. q \notin WorkerHolders(w, i) /\ q \notin LoadHolders(w, i)
    BY <1>4, HoldersLose
  <2>3. /\ WorkerHolders(w, i)' = WorkerHolders(w, i) \ {q}
        /\ LoadHolders(w, i)' = LoadHolders(w, i) \ {q}
    BY HoldersLose
  <2>4. /\ WorkerHolders(w, i)' = WorkerHolders(w, i)
        /\ LoadHolders(w, i)' = LoadHolders(w, i)
    BY <2>2, <2>3
  <2> QED
    BY <1>1, <1>3, <2>1, <2>4
<1>5. CASE OnWorker(stages[q], w, i)
  <2>1. /\ workers'[w][i].activeRequests = Decrement(workers[w][i].activeRequests)
        /\ workers'[w][i].activeAvailable
             = Monus(workers[w][i].activeAvailable, StageBytes(stages[q][w].loads))
        /\ workers'[w][i].activeRetained = Monus(workers[w][i].activeRetained, SequenceBytes)
    BY <1>5 DEF Release
  <2>2. /\ Cardinality(WorkerHolders(w, i)') \in Nat
        /\ Cardinality(WorkerHolders(w, i)) = Cardinality(WorkerHolders(w, i)') + 1
    BY <1>5, HoldersLose, HoldersFinite, CountRemoved
  <2>3. /\ SequenceBytes * Cardinality(WorkerHolders(w, i)') \in Nat
        /\ SequenceBytes * Cardinality(WorkerHolders(w, i))
             = SequenceBytes * Cardinality(WorkerHolders(w, i)') + SequenceBytes
    BY <2>2, <1>2, ShareOfOne
  <2>4. /\ LoadBytes * Cardinality(LoadHolders(w, i)') \in Nat
        /\ LoadBytes * Cardinality(LoadHolders(w, i))
             = LoadBytes * Cardinality(LoadHolders(w, i)')
                 + (IF stages[q][w].loads THEN LoadBytes ELSE 0)
    <3>1. CASE stages[q][w].loads
      <4>1. q \in LoadHolders(w, i) /\ LoadHolders(w, i)' = LoadHolders(w, i) \ {q}
        BY <1>5, <3>1, HoldersLose
      <4>2. /\ Cardinality(LoadHolders(w, i)') \in Nat
            /\ Cardinality(LoadHolders(w, i)) = Cardinality(LoadHolders(w, i)') + 1
        BY <4>1, HoldersFinite, CountRemoved
      <4> QED
        BY <3>1, <4>2, <1>2, ShareOfOne
    <3>2. CASE ~stages[q][w].loads
      <4>1. LoadHolders(w, i)' = LoadHolders(w, i)
        BY <3>2, HoldersLose
      <4>2. LoadBytes * Cardinality(LoadHolders(w, i)) \in Nat
        BY <1>2, ShareOfOne
      <4> QED
        BY <3>2, <4>1, <4>2
    <3> QED
      BY <3>1, <3>2
  <2>5. workers'[w][i].activeRequests = Cardinality(WorkerHolders(w, i)')
    BY <1>3, <2>1, <2>2 DEF Decrement
  <2>6. workers'[w][i].activeRetained = SequenceBytes * Cardinality(WorkerHolders(w, i)')
    BY <1>2, <1>3, <2>1, <2>3, MonusExact
  <2>7. workers'[w][i].activeAvailable = SequenceBytes * Cardinality(WorkerHolders(w, i)')
                                           + LoadBytes * Cardinality(LoadHolders(w, i)')
    <3> DEFINE left == SequenceBytes * Cardinality(WorkerHolders(w, i)')
                         + LoadBytes * Cardinality(LoadHolders(w, i)')
    <3>1. StageBytes(stages[q][w].loads) \in Nat
      BY <1>2 DEF StageBytes
    <3>2. left \in Nat
      BY <2>3, <2>4
    <3>3. workers[w][i].activeAvailable = left + StageBytes(stages[q][w].loads)
      BY <1>2, <1>3, <2>3, <2>4 DEF StageBytes
    <3> HIDE DEF left
    <3>4. workers'[w][i].activeAvailable = left
      BY <2>1, <3>1, <3>2, <3>3, MonusExact
    <3> QED
      BY <3>4 DEF left
  <2> QED
    BY <1>1, <2>5, <2>6, <2>7
<1> QED
  BY <1>4, <1>5

\* Reconciling drops quarantine and pending bytes, and leaves the counters alone.
LEMMA ReconciledSlot ==
    ASSUME NEW inventory, NEW w \in Workers, NEW i \in Instances, NEW s \in Shards
    PROVE  Reconciled(inventory).slots[w][i][s] =
             [reservations[w][i][s] EXCEPT !.poisoned =
                ReconciledPoison(inventory, w, i, s, reservations[w][i][s].poisoned)]
BY DEF Reconciled

LEMMA ReconciledHost ==
    ASSUME NEW inventory, NEW w \in Workers, NEW i \in Instances
    PROVE  Reconciled(inventory).hosts[w][i] =
             [workers[w][i] EXCEPT !.pending =
                ReconciledPending(inventory, w, i, workers[w][i].pending)]
BY DEF Reconciled

LEMMA ReconciledKeeps ==
    ASSUME TypeOK, NEW inventory
    PROVE  \A w \in Workers, i \in Instances :
             /\ \A s \in Shards : Reconciled(inventory).slots[w][i][s].active
                                    = reservations[w][i][s].active
             /\ Reconciled(inventory).hosts[w][i].activeRequests
                  = workers[w][i].activeRequests
             /\ Reconciled(inventory).hosts[w][i].activeAvailable
                  = workers[w][i].activeAvailable
             /\ Reconciled(inventory).hosts[w][i].activeRetained
                  = workers[w][i].activeRetained
<1> SUFFICES ASSUME NEW w \in Workers, NEW i \in Instances
             PROVE  /\ \A s \in Shards : Reconciled(inventory).slots[w][i][s].active
                                           = reservations[w][i][s].active
                    /\ Reconciled(inventory).hosts[w][i].activeRequests
                         = workers[w][i].activeRequests
                    /\ Reconciled(inventory).hosts[w][i].activeAvailable
                         = workers[w][i].activeAvailable
                    /\ Reconciled(inventory).hosts[w][i].activeRetained
                         = workers[w][i].activeRetained
  OBVIOUS
<1>1. workers[w][i] \in Host /\ \A s \in Shards : reservations[w][i][s] \in Slot
  BY DEF TypeOK, LedgerTypeOK, Hosts, Slots
<1>2. ASSUME NEW s \in Shards
      PROVE  Reconciled(inventory).slots[w][i][s].active = reservations[w][i][s].active
  <2> DEFINE kept == ReconciledPoison(inventory, w, i, s, reservations[w][i][s].poisoned)
             slot == Reconciled(inventory).slots[w][i][s]
  <2>1. slot = [reservations[w][i][s] EXCEPT !.poisoned = kept]
    BY ReconciledSlot
  <2>2. reservations[w][i][s] \in Slot
    BY <1>1
  <2> HIDE DEF kept, slot
  <2>3. slot.active = reservations[w][i][s].active
    BY <2>1, <2>2 DEF Slot
  <2> QED
    BY <2>3 DEF slot
<1>3. /\ Reconciled(inventory).hosts[w][i].activeRequests = workers[w][i].activeRequests
      /\ Reconciled(inventory).hosts[w][i].activeAvailable = workers[w][i].activeAvailable
      /\ Reconciled(inventory).hosts[w][i].activeRetained = workers[w][i].activeRetained
  <2> DEFINE kept == ReconciledPending(inventory, w, i, workers[w][i].pending)
             host == Reconciled(inventory).hosts[w][i]
  <2>1. host = [workers[w][i] EXCEPT !.pending = kept]
    BY ReconciledHost
  <2> HIDE DEF kept, host
  <2>2. /\ host.activeRequests = workers[w][i].activeRequests
        /\ host.activeAvailable = workers[w][i].activeAvailable
        /\ host.activeRetained = workers[w][i].activeRetained
    BY <1>1, <2>1 DEF Host
  <2> QED
    BY <2>2 DEF host
<1> QED
  BY <1>2, <1>3

\* Every step but an admission and a release leaves the footprints alone.
LEMMA NextLedger == TypeOK /\ LedgerMatchesHolders /\ [Next]_vars => LedgerMatchesHolders'
<1> SUFFICES ASSUME TypeOK, LedgerMatchesHolders, [Next]_vars PROVE LedgerMatchesHolders'
  OBVIOUS
<1> USE DEF ledger, sequenceVars, agentVars
<1>1. ASSUME UNCHANGED ledger, \A p \in Sequences : SameFootprint(p)
      PROVE  LedgerMatchesHolders'
  BY <1>1, LedgerStable DEF SameCounters
<1>2. ASSUME UNCHANGED <<ledger, phase, stages>> PROVE LedgerMatchesHolders'
  BY <1>1, <1>2 DEF SameFootprint
<1>3. /\ phase \in [Sequences -> Phases]
      /\ stages \in [Sequences -> [Workers -> Stage]]
  BY DEF TypeOK
<1>4. ASSUME NEW q \in Sequences, TakeSnapshot(q) PROVE LedgerMatchesHolders'
  <2>1. \A p \in Sequences : SameFootprint(p)
    BY <1>3, <1>4 DEF TakeSnapshot, SameFootprint, Holding, Enter, Finish
  <2> QED
    BY <1>1, <1>4, <2>1 DEF TakeSnapshot
<1>5. ASSUME NEW q \in Sequences, NoPlan(q) PROVE LedgerMatchesHolders'
  <2>1. \A p \in Sequences : SameFootprint(p)
    BY <1>3, <1>5 DEF NoPlan, SameFootprint, Holding, Enter, Finish
  <2> QED
    BY <1>1, <1>5, <2>1 DEF NoPlan
<1>6. ASSUME NEW q \in Sequences, ResolveFails(q) PROVE LedgerMatchesHolders'
  <2>1. \A p \in Sequences : SameFootprint(p)
    BY <1>3, <1>6 DEF ResolveFails, SameFootprint, Holding, Enter, Finish
  <2> QED
    BY <1>1, <1>6, <2>1 DEF ResolveFails
<1>7. ASSUME NEW q \in Sequences, SetupDone(q) PROVE LedgerMatchesHolders'
  <2>1. \A p \in Sequences : SameFootprint(p)
    BY <1>3, <1>7 DEF SetupDone, SameFootprint, Holding, Enter, Finish
  <2> QED
    BY <1>1, <1>7, <2>1 DEF SetupDone
<1>8. ASSUME NEW q \in Sequences, EndSetup(q) PROVE LedgerMatchesHolders'
  <2>1. \A p \in Sequences : SameFootprint(p)
    BY <1>3, <1>8 DEF EndSetup, SameFootprint, Holding, Enter, Finish
  <2> QED
    BY <1>1, <1>8, <2>1 DEF EndSetup
<1>9. ASSUME NEW q \in Sequences, ObserveTimesOut(q) PROVE LedgerMatchesHolders'
  <2>1. \A p \in Sequences : SameFootprint(p)
    BY <1>3, <1>9 DEF ObserveTimesOut, SameFootprint, Holding, Enter, Finish
  <2> QED
    BY <1>1, <1>9, <2>1 DEF ObserveTimesOut
<1>10. ASSUME NEW q \in Sequences, Generate(q) PROVE LedgerMatchesHolders'
  <2>1. \A p \in Sequences : SameFootprint(p)
    BY <1>3, <1>10 DEF Generate, SameFootprint, Holding, Enter, Finish
  <2> QED
    BY <1>1, <1>10, <2>1 DEF Generate
<1>11. ASSUME NEW q \in Sequences, Close(q) PROVE LedgerMatchesHolders'
  <2>1. \A p \in Sequences : SameFootprint(p)
    BY <1>3, <1>11 DEF Close, SameFootprint, Holding, Enter, Finish
  <2> QED
    BY <1>1, <1>11, <2>1 DEF Close
<1>12. ASSUME NEW q \in Sequences, EndGenerate(q) PROVE LedgerMatchesHolders'
  <2>1. \A p \in Sequences : SameFootprint(p)
    BY <1>3, <1>12 DEF EndGenerate, SameFootprint, Holding, Enter, Finish
  <2> QED
    BY <1>1, <1>12, <2>1 DEF EndGenerate
<1>13. ASSUME NEW q \in Sequences, EndCleanup(q) PROVE LedgerMatchesHolders'
  <2>1. \A p \in Sequences : SameFootprint(p)
    BY <1>3, <1>13 DEF EndCleanup, SameFootprint, Holding, Enter, Finish
  <2> QED
    BY <1>1, <1>13, <2>1 DEF EndCleanup
<1>14. ASSUME NEW q \in Sequences, FinishSnapshot(q) PROVE LedgerMatchesHolders'
  <2>1. \A p \in Sequences : SameFootprint(p)
    BY <1>3, <1>14 DEF FinishSnapshot, SameFootprint, Holding, Enter, Finish
  <2> QED
    BY <1>1, <1>14, <2>1 DEF FinishSnapshot
<1>15. ASSUME NEW q \in Sequences, NEW w \in Workers, LoadShard(q, w)
      PROVE  LedgerMatchesHolders'
  BY <1>2, <1>15 DEF LoadShard
<1>16. ASSUME NEW q \in Sequences, NEW w \in Workers, SetupFails(q, w)
      PROVE  LedgerMatchesHolders'
  <2>1. \A p \in Sequences : SameFootprint(p)
    BY <1>3, <1>16 DEF SetupFails, SameFootprint, Holding, Enter, Finish
  <2> QED
    BY <1>1, <1>16, <2>1 DEF SetupFails
<1>17. ASSUME NEW q \in Sequences, NEW w \in Workers, SetupTimesOut(q, w)
      PROVE  LedgerMatchesHolders'
  <2>1. \A p \in Sequences : SameFootprint(p)
    BY <1>3, <1>17 DEF SetupTimesOut, SameFootprint, Holding, Enter, Finish
  <2> QED
    BY <1>1, <1>17, <2>1 DEF SetupTimesOut
<1>18. ASSUME NEW q \in Sequences, NEW w \in Workers, ObserveSetup(q, w)
      PROVE  LedgerMatchesHolders'
  <2>1. \A p \in Sequences : SameFootprint(p)
    BY <1>3, <1>18 DEF ObserveSetup, SameFootprint, Holding, Enter, Finish, Stage
  <2> QED
    BY <1>1, <1>18, <2>1 DEF ObserveSetup
<1>19. ASSUME NEW q \in Sequences, NEW w \in Workers, ObserveSetupFails(q, w)
      PROVE  LedgerMatchesHolders'
  BY <1>2, <1>19 DEF ObserveSetupFails
<1>20. ASSUME NEW q \in Sequences, NEW w \in Workers, OpenSequence(q, w)
      PROVE  LedgerMatchesHolders'
  BY <1>2, <1>20 DEF OpenSequence
<1>21. ASSUME NEW q \in Sequences, NEW w \in Workers, OpenRejected(q, w)
      PROVE  LedgerMatchesHolders'
  BY <1>2, <1>21 DEF OpenRejected
<1>22. ASSUME NEW q \in Sequences, NEW w \in Workers, OpenAmbiguous(q, w)
      PROVE  LedgerMatchesHolders'
  BY <1>2, <1>22 DEF OpenAmbiguous
<1>23. ASSUME NEW q \in Sequences, NEW w \in Workers, ObserveCleanup(q, w)
      PROVE  LedgerMatchesHolders'
  <2>1. \A p \in Sequences : SameFootprint(p)
    BY <1>3, <1>23 DEF ObserveCleanup, SameFootprint, Holding, Enter, Finish, Stage
  <2> QED
    BY <1>1, <1>23, <2>1 DEF ObserveCleanup
<1>24. ASSUME NEW q \in Sequences, NEW w \in Workers, ObserveCleanupFails(q, w)
      PROVE  LedgerMatchesHolders'
  BY <1>2, <1>24 DEF ObserveCleanupFails
<1>30. ASSUME NEW q \in Sequences, EndClosing(q) PROVE LedgerMatchesHolders'
  <2>1. \A p \in Sequences : SameFootprint(p)
    BY <1>3, <1>30 DEF EndClosing, SameFootprint, Holding, Enter, Finish
  <2> QED
    BY <1>1, <1>30, <2>1 DEF EndClosing
<1>31. ASSUME NEW q \in Sequences, NEW w \in Workers, CloseSequence(q, w) \/ CloseFails(q, w)
      PROVE  LedgerMatchesHolders'
  BY <1>2, <1>31 DEF CloseSequence, CloseFails
<1>25. ASSUME NEW q \in Sequences, ReserveAdmission(q) PROVE LedgerMatchesHolders'
  <2> DEFINE now == Reconciled(view[q])
  <2>1. now.slots \in Slots /\ now.hosts \in Hosts
    BY ReconciledType DEF TypeOK
  <2>2. \A w \in Workers, i \in Instances :
          /\ \A s \in Shards : now.slots[w][i][s].active = reservations[w][i][s].active
          /\ now.hosts[w][i].activeRequests = workers[w][i].activeRequests
          /\ now.hosts[w][i].activeAvailable = workers[w][i].activeAvailable
          /\ now.hosts[w][i].activeRetained = workers[w][i].activeRetained
    BY ReconciledKeeps
  <2>3. phase[q] \notin Holding
    BY <1>25, ReservationStep DEF Holding
  <2>4. PICK place \in [Workers -> Shards \cup {NoShard}] :
          /\ Selectable(view[q], place)
          /\ Admits(q, place) \/ TurnsDown(q)
    BY <1>25, ReservationStep
  <2>5. CASE Admits(q, place)
    <3>1. Others(q) /\ phase'[q] \in Holding
      BY <1>3, <2>5 DEF Admits, Others, SameFootprint, Holding
    <3>2. stages'[q] = PlannedStages(view[q], place)
      BY <1>3, <2>5 DEF Admits
    <3>3. stages'[q] \in [Workers -> Stage]
      BY <2>4, <3>2, PlannedType DEF TypeOK
    <3>4. Reserve(now.slots, now.hosts, stages'[q])
      BY <2>5, <3>2 DEF Admits
    <3> HIDE DEF now
    <3> QED
      BY <2>1, <2>2, <2>3, <3>1, <3>3, <3>4, ReserveExact
  <2>6. CASE TurnsDown(q)
    <3>1. \A p \in Sequences : SameFootprint(p)
      BY <1>3, <2>3, <2>6 DEF TurnsDown, SameFootprint, Holding
    <3>2. SameCounters
      BY <2>2, <2>6 DEF TurnsDown, SameCounters
    <3> QED
      BY <3>1, <3>2, LedgerStable
  <2> QED
    BY <2>4, <2>5, <2>6
<1>26. ASSUME NEW q \in Sequences, FinishReservation(q) PROVE LedgerMatchesHolders'
  <2>1. Others(q) /\ phase[q] \in Holding /\ phase'[q] \notin Holding
    BY <1>3, <1>26 DEF FinishReservation, Enter, Others, SameFootprint, Holding
  <2>2. Release(q, stages[q], outcome[q].mayHaveLoaded, outcome[q].cleanupConfirmed, found[q])
    BY <1>26 DEF FinishReservation
  <2> QED
    BY <2>1, <2>2, ReleaseExact DEF TypeOK
<1>27. ASSUME NEW w \in Workers, WorkerStep(w) \/ AgentStep(w) PROVE LedgerMatchesHolders'
  BY <1>2, <1>27 DEF WorkerStep, WorkerRestart, DaemonRestart, AgentStep, Probe,
                     RecordStatus, Heartbeat, LeaseEnds, Register
<1>28. ASSUME NEW m \in inFlight, Deliver(m) PROVE LedgerMatchesHolders'
  BY <1>2, <1>28 DEF Deliver
<1>29. CASE UNCHANGED vars
  BY <1>2, <1>29 DEF vars
<1> QED
  BY <1>4, <1>5, <1>6, <1>7, <1>8, <1>9, <1>10, <1>11, <1>12, <1>13, <1>14, <1>15, <1>16, <1>17,
     <1>18, <1>19, <1>20, <1>21, <1>22, <1>23, <1>24, <1>25, <1>26, <1>27, <1>28, <1>29, <1>30, <1>31
     DEF Next, Call, PlanStep, SetupStep, RunStep

\* Whatever the faults and the order of the steps, the scheduler's counters are what
\* its unfinished sequences reserved, so nothing it admitted leaks and nothing is
\* given back twice.
THEOREM LedgerExact == Spec => []LedgerMatchesHolders
<1>1. Init => LedgerMatchesHolders
  <2> SUFFICES ASSUME Init PROVE LedgerMatchesHolders
    OBVIOUS
  <2>1. \A w \in Workers, i \in Instances :
          /\ \A s \in Shards : ShardHolders(w, i, s) = {}
          /\ WorkerHolders(w, i) = {} /\ LoadHolders(w, i) = {}
    BY DEF Init, ShardHolders, WorkerHolders, LoadHolders, Holding
  <2>2. Cardinality({}) = 0
    BY FS_EmptySet
  <2>3. /\ SequenceBytes * Cardinality({}) = 0
        /\ SequenceBytes * Cardinality({}) + LoadBytes * Cardinality({}) = 0
    BY <2>2, LedgerAssumption
  <2>4. \A w \in Workers, i \in Instances :
          /\ \A s \in Shards : reservations[w][i][s].active = 0
          /\ workers[w][i].activeRequests = 0
          /\ workers[w][i].activeAvailable = 0
          /\ workers[w][i].activeRetained = 0
    BY DEF Init, LedgerInit
  <2> SUFFICES ASSUME NEW w \in Workers, NEW i \in Instances
               PROVE  /\ \A s \in Shards :
                           reservations[w][i][s].active = Cardinality(ShardHolders(w, i, s))
                      /\ workers[w][i].activeRequests = Cardinality(WorkerHolders(w, i))
                      /\ workers[w][i].activeRetained
                           = SequenceBytes * Cardinality(WorkerHolders(w, i))
                      /\ workers[w][i].activeAvailable
                           = SequenceBytes * Cardinality(WorkerHolders(w, i))
                               + LoadBytes * Cardinality(LoadHolders(w, i))
    BY DEF LedgerMatchesHolders
  <2> QED
    BY <2>1, <2>2, <2>3, <2>4
<1>2. TypeOK /\ LedgerMatchesHolders /\ [Next]_vars => LedgerMatchesHolders'
  BY NextLedger
<1> QED
  BY <1>1, <1>2, TypeCorrect, PTL DEF Spec

-----------------------------------------------------------------------------
(***************************************************************************)
(* What the scheduler keeps between a controller and its workers: a        *)
(* sequence left open is quarantined, and what is open on a shard, or      *)
(* admitted to open there, fits its limit.                                 *)
(***************************************************************************)

\* The conditions under which the scheduler keeps them.  A call that executes after
\* its caller gave up, and a lease lost by a live daemon, each leave something open
\* that no quarantine covers; and so does a snapshot older than a daemon's restart
\* when another sequence was admitted meanwhile.
Steady ==
    /\ ~Fault("lateDelivery") /\ ~Fault("leaseLoss")
    /\ MaxPreparing <= 1 \/ ~Fault("daemonRestart")

Unplaced == {"idle", "planning"}
Opening == {"setup", "observing", "prepared", "running"}
Closing == {"closing", "cleaning", "finishing", "releasing", "done"}

\* A snapshot that lists the incarnation a worker daemon has now.
Current(inventory, w) == ~Departed(inventory, w, daemon[w].instance)

\* A stage that is bound to the incarnation its worker has now.
Bound(q, w) == w \in Stages(q) /\ Reaches(q, w)

-----------------------------------------------------------------------------
(***************************************************************************)
(* The inductive invariant.                                                *)
(***************************************************************************)

\* A stage is observed in order, once by setup and once by cleanup; only a cleanup
\* that is not confirmed is observed.
InOrder(q) ==
    /\ \A w \in Workers :
         /\ phase[q] \in Unplaced => w \notin Stages(q)
         /\ \/ phase[q] \in Unplaced \cup {"setup"}
            \/ phase[q] = "observing" /\ w \notin done[q]
            => stages[q][w].setupObs = 0
         /\ \/ phase[q] \in Unplaced \cup Opening \cup {"closing"}
            \/ phase[q] = "cleaning" /\ w \notin done[q]
            => stages[q][w].cleanupObs = 0
    /\ phase[q] = "cleaning" => ~outcome[q].cleanupConfirmed

ObservedInOrder == \A q \in Sequences : InOrder(q)

\* A worker's observations stay below the minimum that no status reaches.
SetupObserved(w) == {q \in Sequences : stages[q][w].setupObs # 0}
CleanupObserved(w) == {q \in Sequences : stages[q][w].cleanupObs # 0}

ObservationsBounded ==
    \A w \in Workers :
      daemon[w].obs <= 1 + MaxProbed + Cardinality(SetupObserved(w))
                         + Cardinality(CleanupObserved(w))

\* Callers plan one at a time where they have to.
PlansAlone ==
    MaxPreparing <= 1 =>
      \A p, q \in Sequences : phase[p] = "planning" /\ phase[q] = "planning" => p = q

\* Nothing is bound to an incarnation that is still to come, and what is bound to the
\* present one is in membership.
InstancesInOrder ==
    \A w \in Workers :
      /\ membership[w] # Absent => membership[w].instance <= daemon[w].instance
      /\ \A q \in Sequences :
           /\ phase[q] = "planning" /\ view[q][w] # Absent =>
                view[q][w].instance <= daemon[w].instance
           /\ w \in Stages(q) => stages[q][w].instance <= daemon[w].instance
           /\ phase[q] = "planning" /\ Current(view[q], w) => Current(membership, w)
           /\ Bound(q, w) => Current(membership, w)

\* Without restarts every snapshot lists every worker.
NeverDeparted ==
    ~Fault("daemonRestart") =>
      \A w \in Workers :
        /\ daemon[w].instance = 1 /\ Current(membership, w)
        /\ \A p \in Sequences : phase[p] = "planning" => Current(view[p], w)

\* A snapshot that does not list a daemon is older than anything placed on it.
OldViewsAreEmpty ==
    \A p, q \in Sequences, w \in Workers :
      phase[p] = "planning" /\ ~Current(view[p], w) => ~Bound(q, w)

\* What is under way belongs to a stage, and an open to a stage that is to be closed.
CallPlaced(m) ==
    /\ m.worker \in Stages(m.owner)
    /\ m.instance = stages[m.owner][m.worker].instance
    /\ m.shard = stages[m.owner][m.worker].shard
    /\ m.call = "open" =>
         /\ phase[m.owner] \in {"running"} \cup Closing
         /\ phase[m.owner] = "running" => m.worker \in done[m.owner]

CallsPlaced == \A m \in inFlight : CallPlaced(m)

\* Who owns a sequence open on a worker: the generation that opened it, the cleanup
\* that could not confirm it closed, or the quarantine.
Quarantined(q, w, s) ==
    \E p \in reservations[w][daemon[w].instance][s].poisoned : p.owner = q

Owned(q, w, s) ==
    /\ Bound(q, w) /\ stages[q][w].shard = s
    /\ phase[q] \in {"running"} \cup Closing
    /\ phase[q] = "running" => w \in done[q]
    /\ phase[q] = "closing" => w \in done[q] \/ ~outcome[q].cleanupConfirmed
    /\ phase[q] \in Closing \ {"closing", "done"} =>
         ~StageCleanupConfirmed(stages[q][w], outcome[q].cleanupConfirmed)
    /\ phase[q] = "releasing" => w \in found[q]
    /\ phase[q] = "done" => Quarantined(q, w, s)

OpenOwned ==
    \A w \in Workers, s \in Shards : \A q \in daemon[w].open[s] : Owned(q, w, s)

\* A quarantine ends with the first status ordered after its cleanup.
QuarantineOrdered ==
    \A w \in Workers, i \in Instances, s \in Shards :
      \A p \in reservations[w][i][s].poisoned :
        /\ phase[p.owner] = "done"
        /\ p.minimum = ObservationAfter(stages[p.owner][w].cleanupObs)

\* A status is no newer than the worker, and one that is ordered after the cleanup of
\* an open sequence reports it.
StatusTrue(w, status) ==
    /\ status.obs <= daemon[w].obs
    /\ \A s \in Shards : \A q \in daemon[w].open[s] :
         /\ phase[q] \in Closing
         /\ status.obs >= ObservationAfter(stages[q][w].cleanupObs)
         => q \in status.open[s]

StatusesTrue ==
    \A w \in Workers :
      /\ StatusTrue(w, cached[w])
      /\ probing[w] # Absent => StatusTrue(w, probing[w])
      /\ Current(membership, w) => StatusTrue(w, membership[w].status)
      /\ \A p \in Sequences :
           phase[p] = "planning" /\ Current(view[p], w) => StatusTrue(w, view[p][w].status)

\* What is open on a shard and what is still to open there.
SlotClaims(w, s) ==
    daemon[w].open[s] \cup
    {q \in Sequences : phase[q] \in Opening /\ Bound(q, w) /\ stages[q][w].shard = s}

SlotsFit ==
    \A w \in Workers, s \in Shards : Cardinality(SlotClaims(w, s)) <= MaxOpenPerShard

QuarantineInv ==
    /\ ObservedInOrder
    /\ ObservationsBounded
    /\ PlansAlone
    /\ InstancesInOrder
    /\ NeverDeparted
    /\ OldViewsAreEmpty
    /\ CallsPlaced
    /\ OpenOwned
    /\ QuarantineOrdered
    /\ StatusesTrue
    /\ SlotsFit

-----------------------------------------------------------------------------
(***************************************************************************)
(* What a step of one sequence leaves alone.                               *)
(***************************************************************************)

\* Every step of a sequence that neither takes a snapshot nor admits.
Progress(q) == NoPlan(q) \/ Generate(q) \/ Close(q) \/ SetupStep(q) \/ RunStep(q)

Untouched(p) ==
    /\ phase'[p] = phase[p] /\ view'[p] = view[p] /\ stages'[p] = stages[p]
    /\ done'[p] = done[p] /\ outcome'[p] = outcome[p] /\ found'[p] = found[p]

\* A stage stays where it was placed, and its cleanup is observed only once, with a
\* number that is new.
StageKept(q, w) ==
    /\ stages'[q][w].shard = stages[q][w].shard
    /\ stages'[q][w].instance = stages[q][w].instance
    /\ stages'[q][w].loads = stages[q][w].loads
    /\ \/ stages'[q][w].cleanupObs = stages[q][w].cleanupObs
       \/ phase[q] = "cleaning" /\ stages'[q][w].cleanupObs = daemon[w].obs + 1

\* A sequence goes from opening to closing, and opens one stage after the other.
PhaseMoves(q) ==
    /\ phase[q] \notin {"idle", "done"} /\ phase'[q] \notin Unplaced
    /\ phase'[q] \in Opening => phase[q] \in Opening
    /\ phase'[q] = "running" => phase[q] \in {"prepared", "running"}
    /\ phase[q] = "running" =>
         \/ phase'[q] \in Closing
         \/ phase'[q] = "running" /\ done[q] \subseteq done'[q]
    /\ phase[q] \in Closing => phase'[q] \in Closing
    /\ phase'[q] = "done" =>
         \/ phase[q] = "planning"
         \/ phase[q] = "releasing" /\ FinishReservation(q)

\* A daemon goes on counting, and opens nothing.
DaemonKept(w) ==
    /\ daemon'[w].instance = daemon[w].instance
    /\ daemon'[w].obs \in {daemon[w].obs, daemon[w].obs + 1}

OpenKept(q, w) == \A s \in Shards : q \in daemon'[w].open[s] => q \in daemon[w].open[s]

LEMMA OpenedKeeps ==
    ASSUME TypeOK, NEW q \in Sequences, NEW W \in SUBSET Workers,
           daemon' = Opened(q, W) \/ daemon' = Closed(q, W)
    PROVE  \A w \in Workers :
             /\ DaemonKept(w) /\ daemon'[w].obs = daemon[w].obs
             /\ \A p \in Sequences \ {q} : OpenKept(p, w)
<1> SUFFICES ASSUME NEW w \in Workers
             PROVE  /\ daemon'[w].instance = daemon[w].instance
                    /\ daemon'[w].obs = daemon[w].obs
                    /\ \A p \in Sequences \ {q} : OpenKept(p, w)
  BY DEF DaemonKept
<1>1. daemon[w] \in Daemon
  BY DEF TypeOK
<1>2. CASE daemon' = Opened(q, W)
  <2>1. \/ daemon'[w] = [daemon[w] EXCEPT !.open[stages[q][w].shard] = @ \cup {q}]
        \/ daemon'[w] = daemon[w]
    BY <1>2 DEF Opened
  <2> QED
    BY <1>1, <2>1 DEF Daemon, OpenKept
<1>3. CASE daemon' = Closed(q, W)
  <2>1. \/ daemon'[w] = [daemon[w] EXCEPT !.open = [s \in Shards |-> @[s] \ {q}]]
        \/ daemon'[w] = daemon[w]
    BY <1>3 DEF Closed
  <2> QED
    BY <1>1, <2>1 DEF Daemon, OpenKept
<1> QED
  BY <1>2, <1>3

\* Calls that fail or observe change no other sequence, and nothing of a stage but its
\* observations.
LEMMA ProgressUntouched ==
    ASSUME TypeOK, NEW q \in Sequences, Progress(q)
    PROVE  /\ \A p \in Sequences \ {q} : Untouched(p)
           /\ UNCHANGED agentVars
<1> USE DEF TypeOK, Untouched, Enter, Finish, agentVars
<1>1. ASSUME NoPlan(q)
      PROVE  (\A p \in Sequences \ {q} : Untouched(p)) /\ UNCHANGED agentVars
  BY <1>1 DEF NoPlan
<1>2. ASSUME Generate(q)
      PROVE  (\A p \in Sequences \ {q} : Untouched(p)) /\ UNCHANGED agentVars
  BY <1>2 DEF Generate
<1>3. ASSUME Close(q)
      PROVE  (\A p \in Sequences \ {q} : Untouched(p)) /\ UNCHANGED agentVars
  BY <1>3 DEF Close
<1>4. ASSUME ResolveFails(q)
      PROVE  (\A p \in Sequences \ {q} : Untouched(p)) /\ UNCHANGED agentVars
  BY <1>4 DEF ResolveFails
<1>5. ASSUME SetupDone(q)
      PROVE  (\A p \in Sequences \ {q} : Untouched(p)) /\ UNCHANGED agentVars
  BY <1>5 DEF SetupDone
<1>6. ASSUME EndSetup(q)
      PROVE  (\A p \in Sequences \ {q} : Untouched(p)) /\ UNCHANGED agentVars
  BY <1>6 DEF EndSetup
<1>7. ASSUME ObserveTimesOut(q)
      PROVE  (\A p \in Sequences \ {q} : Untouched(p)) /\ UNCHANGED agentVars
  BY <1>7 DEF ObserveTimesOut
<1>8. ASSUME EndGenerate(q)
      PROVE  (\A p \in Sequences \ {q} : Untouched(p)) /\ UNCHANGED agentVars
  BY <1>8 DEF EndGenerate
<1>9. ASSUME EndCleanup(q)
      PROVE  (\A p \in Sequences \ {q} : Untouched(p)) /\ UNCHANGED agentVars
  BY <1>9 DEF EndCleanup
<1>10. ASSUME FinishSnapshot(q)
      PROVE  (\A p \in Sequences \ {q} : Untouched(p)) /\ UNCHANGED agentVars
  BY <1>10 DEF FinishSnapshot
<1>11. ASSUME FinishReservation(q)
      PROVE  (\A p \in Sequences \ {q} : Untouched(p)) /\ UNCHANGED agentVars
  BY <1>11 DEF FinishReservation
<1>12. ASSUME NEW w \in Workers, LoadShard(q, w)
      PROVE  (\A p \in Sequences \ {q} : Untouched(p)) /\ UNCHANGED agentVars
  BY <1>12 DEF LoadShard
<1>13. ASSUME NEW w \in Workers, SetupFails(q, w)
      PROVE  (\A p \in Sequences \ {q} : Untouched(p)) /\ UNCHANGED agentVars
  BY <1>13 DEF SetupFails
<1>14. ASSUME NEW w \in Workers, SetupTimesOut(q, w)
      PROVE  (\A p \in Sequences \ {q} : Untouched(p)) /\ UNCHANGED agentVars
  BY <1>14 DEF SetupTimesOut
<1>15. ASSUME NEW w \in Workers, ObserveSetup(q, w)
      PROVE  (\A p \in Sequences \ {q} : Untouched(p)) /\ UNCHANGED agentVars
  BY <1>15 DEF ObserveSetup
<1>16. ASSUME NEW w \in Workers, ObserveSetupFails(q, w)
      PROVE  (\A p \in Sequences \ {q} : Untouched(p)) /\ UNCHANGED agentVars
  BY <1>16 DEF ObserveSetupFails
<1>17. ASSUME NEW w \in Workers, OpenSequence(q, w)
      PROVE  (\A p \in Sequences \ {q} : Untouched(p)) /\ UNCHANGED agentVars
  BY <1>17 DEF OpenSequence
<1>18. ASSUME NEW w \in Workers, OpenRejected(q, w)
      PROVE  (\A p \in Sequences \ {q} : Untouched(p)) /\ UNCHANGED agentVars
  BY <1>18 DEF OpenRejected
<1>19. ASSUME NEW w \in Workers, OpenAmbiguous(q, w)
      PROVE  (\A p \in Sequences \ {q} : Untouched(p)) /\ UNCHANGED agentVars
  BY <1>19 DEF OpenAmbiguous
<1>20. ASSUME NEW w \in Workers, ObserveCleanup(q, w)
      PROVE  (\A p \in Sequences \ {q} : Untouched(p)) /\ UNCHANGED agentVars
  BY <1>20 DEF ObserveCleanup
<1>21. ASSUME NEW w \in Workers, ObserveCleanupFails(q, w)
      PROVE  (\A p \in Sequences \ {q} : Untouched(p)) /\ UNCHANGED agentVars
  BY <1>21 DEF ObserveCleanupFails
<1>22. ASSUME EndClosing(q)
      PROVE  (\A p \in Sequences \ {q} : Untouched(p)) /\ UNCHANGED agentVars
  BY <1>22 DEF EndClosing
<1>23. ASSUME NEW w \in Workers, CloseSequence(q, w)
      PROVE  (\A p \in Sequences \ {q} : Untouched(p)) /\ UNCHANGED agentVars
  BY <1>23 DEF CloseSequence
<1>24. ASSUME NEW w \in Workers, CloseFails(q, w)
      PROVE  (\A p \in Sequences \ {q} : Untouched(p)) /\ UNCHANGED agentVars
  BY <1>24 DEF CloseFails
<1> QED
  BY <1>1, <1>2, <1>3, <1>4, <1>5, <1>6, <1>7, <1>8, <1>9, <1>10, <1>11, <1>12, <1>13,
     <1>14, <1>15, <1>16, <1>17, <1>18, <1>19, <1>20, <1>21, <1>22, <1>23, <1>24
     DEF Progress, SetupStep, RunStep

LEMMA ProgressPhase ==
    ASSUME TypeOK, NEW q \in Sequences, Progress(q)
    PROVE  PhaseMoves(q)
<1> USE DEF TypeOK, Enter, Finish, PhaseMoves, Unplaced, Opening, Closing
<1>1. ASSUME NoPlan(q) PROVE PhaseMoves(q)
  BY <1>1 DEF NoPlan
<1>2. ASSUME Generate(q) PROVE PhaseMoves(q)
  BY <1>2 DEF Generate
<1>3. ASSUME Close(q) PROVE PhaseMoves(q)
  BY <1>3 DEF Close
<1>4. ASSUME ResolveFails(q) PROVE PhaseMoves(q)
  BY <1>4 DEF ResolveFails
<1>5. ASSUME SetupDone(q) PROVE PhaseMoves(q)
  BY <1>5 DEF SetupDone
<1>6. ASSUME EndSetup(q) PROVE PhaseMoves(q)
  BY <1>6 DEF EndSetup
<1>7. ASSUME ObserveTimesOut(q) PROVE PhaseMoves(q)
  BY <1>7 DEF ObserveTimesOut
<1>8. ASSUME EndGenerate(q) PROVE PhaseMoves(q)
  BY <1>8 DEF EndGenerate
<1>9. ASSUME EndCleanup(q) PROVE PhaseMoves(q)
  BY <1>9 DEF EndCleanup
<1>10. ASSUME FinishSnapshot(q) PROVE PhaseMoves(q)
  BY <1>10 DEF FinishSnapshot
<1>11. ASSUME FinishReservation(q) PROVE PhaseMoves(q)
  BY <1>11 DEF FinishReservation
<1>12. ASSUME NEW w \in Workers, LoadShard(q, w) PROVE PhaseMoves(q)
  BY <1>12 DEF LoadShard
<1>13. ASSUME NEW w \in Workers, SetupFails(q, w) PROVE PhaseMoves(q)
  BY <1>13 DEF SetupFails
<1>14. ASSUME NEW w \in Workers, SetupTimesOut(q, w) PROVE PhaseMoves(q)
  BY <1>14 DEF SetupTimesOut
<1>15. ASSUME NEW w \in Workers, ObserveSetup(q, w) PROVE PhaseMoves(q)
  BY <1>15 DEF ObserveSetup
<1>16. ASSUME NEW w \in Workers, ObserveSetupFails(q, w) PROVE PhaseMoves(q)
  BY <1>16 DEF ObserveSetupFails
<1>17. ASSUME NEW w \in Workers, OpenSequence(q, w) PROVE PhaseMoves(q)
  BY <1>17 DEF OpenSequence
<1>18. ASSUME NEW w \in Workers, OpenRejected(q, w) PROVE PhaseMoves(q)
  BY <1>18 DEF OpenRejected
<1>19. ASSUME NEW w \in Workers, OpenAmbiguous(q, w) PROVE PhaseMoves(q)
  BY <1>19 DEF OpenAmbiguous
<1>20. ASSUME NEW w \in Workers, ObserveCleanup(q, w) PROVE PhaseMoves(q)
  BY <1>20 DEF ObserveCleanup
<1>21. ASSUME NEW w \in Workers, ObserveCleanupFails(q, w) PROVE PhaseMoves(q)
  BY <1>21 DEF ObserveCleanupFails
<1>22. ASSUME EndClosing(q) PROVE PhaseMoves(q)
  BY <1>22 DEF EndClosing
<1>23. ASSUME NEW w \in Workers, CloseSequence(q, w) PROVE PhaseMoves(q)
  BY <1>23 DEF CloseSequence
<1>24. ASSUME NEW w \in Workers, CloseFails(q, w) PROVE PhaseMoves(q)
  BY <1>24 DEF CloseFails
<1> QED
  BY <1>1, <1>2, <1>3, <1>4, <1>5, <1>6, <1>7, <1>8, <1>9, <1>10, <1>11, <1>12, <1>13,
     <1>14, <1>15, <1>16, <1>17, <1>18, <1>19, <1>20, <1>21, <1>22, <1>23, <1>24
     DEF Progress, SetupStep, RunStep

LEMMA ProgressStages ==
    ASSUME TypeOK, NEW q \in Sequences, Progress(q)
    PROVE  /\ \A w \in Workers : StageKept(q, w)
           /\ \/ UNCHANGED stages
              \/ \E w \in Workers : ObserveSetup(q, w) \/ ObserveCleanup(q, w)
<1>1. ASSUME UNCHANGED stages PROVE \A w \in Workers : StageKept(q, w)
  BY <1>1 DEF StageKept
<1>2. ASSUME NEW w \in Workers, ObserveSetup(q, w) PROVE \A v \in Workers : StageKept(q, v)
  BY <1>2 DEF ObserveSetup, StageKept, TypeOK, Stage
<1>3. ASSUME NEW w \in Workers, ObserveCleanup(q, w) PROVE \A v \in Workers : StageKept(q, v)
  <2>1. daemon'[w].obs = daemon[w].obs + 1
    BY <1>3 DEF ObserveCleanup, Observe, TypeOK, Daemon
  <2> QED
    BY <1>3, <2>1 DEF ObserveCleanup, StageKept, TypeOK, Stage
<1>4. ASSUME \/ NoPlan(q) \/ Generate(q) \/ Close(q) \/ ResolveFails(q) \/ SetupDone(q)
             \/ EndSetup(q) \/ ObserveTimesOut(q) \/ EndGenerate(q) \/ EndClosing(q) \/ EndCleanup(q)
             \/ FinishSnapshot(q) \/ FinishReservation(q)
      PROVE  UNCHANGED stages
  BY ZenonT(30), <1>4 DEF NoPlan, Generate, Close, ResolveFails, SetupDone, EndSetup, ObserveTimesOut, EndGenerate, EndClosing, EndCleanup, FinishSnapshot, FinishReservation
<1>5. ASSUME NEW w \in Workers,
             \/ LoadShard(q, w) \/ SetupFails(q, w) \/ SetupTimesOut(q, w)
             \/ ObserveSetupFails(q, w) \/ OpenSequence(q, w) \/ OpenRejected(q, w)
             \/ OpenAmbiguous(q, w) \/ CloseSequence(q, w) \/ CloseFails(q, w)
             \/ ObserveCleanupFails(q, w)
      PROVE  UNCHANGED stages
  BY ZenonT(30), <1>5 DEF LoadShard, SetupFails, SetupTimesOut, ObserveSetupFails, OpenSequence, OpenRejected, OpenAmbiguous, CloseSequence, CloseFails, ObserveCleanupFails
<1> QED
  BY <1>1, <1>2, <1>3, <1>4, <1>5 DEF Progress, SetupStep, RunStep

LEMMA ProgressDaemons ==
    ASSUME TypeOK, NEW q \in Sequences, Progress(q)
    PROVE  /\ \A w \in Workers : DaemonKept(w) /\ \A p \in Sequences \ {q} : OpenKept(p, w)
           /\ \/ \A w \in Workers : daemon'[w].obs = daemon[w].obs
              \/ \E w \in Workers : ObserveSetup(q, w) \/ ObserveCleanup(q, w)
<1> DEFINE Kept == \A w \in Workers : DaemonKept(w) /\ \A p \in Sequences \ {q} : OpenKept(p, w)
           Counts == \A w \in Workers : daemon'[w].obs = daemon[w].obs
<1>1. ASSUME UNCHANGED daemon PROVE Kept /\ Counts
  BY <1>1 DEF DaemonKept, OpenKept, TypeOK, Daemon
<1>2. ASSUME NEW W \in SUBSET Workers, daemon' = Opened(q, W) \/ daemon' = Closed(q, W)
      PROVE  Kept /\ Counts
  BY <1>2, OpenedKeeps
<1>3. ASSUME NEW w \in Workers, Observe(w) PROVE Kept
  BY <1>3 DEF Observe, DaemonKept, OpenKept, TypeOK, Daemon, Observation
<1>4. ASSUME NEW w \in Workers, daemon' = [daemon EXCEPT ![w].loaded = @ \cup {stages[q][w].shard}]
      PROVE  Kept /\ Counts
  BY <1>4 DEF DaemonKept, OpenKept, TypeOK, Daemon
<1> HIDE DEF Kept, Counts
<1>5. ASSUME NEW w \in Workers, CloseSequence(q, w) \/ CloseFails(q, w) PROVE Kept /\ Counts
  <2>1. {w} \in SUBSET Workers
    OBVIOUS
  <2>2. daemon' = Closed(q, {w}) \/ UNCHANGED daemon
    BY ZenonT(30), <1>5 DEF CloseSequence, CloseFails
  <2> QED
    BY <1>1, <1>2, <2>1, <2>2
<1>6. ASSUME NEW w \in Workers, LoadShard(q, w) \/ SetupFails(q, w) PROVE Kept /\ Counts
  BY ZenonT(30), <1>1, <1>4, <1>6 DEF LoadShard, SetupFails
<1>7. ASSUME NEW w \in Workers, ObserveSetup(q, w) \/ ObserveCleanup(q, w) PROVE Kept
  BY ZenonT(30), <1>3, <1>7 DEF ObserveSetup, ObserveCleanup
<1>8. ASSUME NEW w \in Workers, OpenSequence(q, w) \/ OpenAmbiguous(q, w) PROVE Kept /\ Counts
  <2>1. {w} \in SUBSET Workers
    OBVIOUS
  <2>2. daemon' = Opened(q, {w}) \/ UNCHANGED daemon
    BY ZenonT(30), <1>8 DEF OpenSequence, OpenAmbiguous
  <2> QED
    BY <1>1, <1>2, <2>1, <2>2
<1>9. ASSUME \/ NoPlan(q) \/ Generate(q) \/ Close(q) \/ ResolveFails(q) \/ SetupDone(q)
             \/ EndSetup(q) \/ ObserveTimesOut(q) \/ EndGenerate(q) \/ EndClosing(q) \/ EndCleanup(q)
             \/ FinishSnapshot(q) \/ FinishReservation(q)
      PROVE  UNCHANGED daemon
  BY ZenonT(30), <1>9 DEF NoPlan, Generate, Close, ResolveFails, SetupDone, EndSetup, ObserveTimesOut, EndGenerate, EndClosing, EndCleanup, FinishSnapshot, FinishReservation
<1>10. ASSUME NEW w \in Workers,
              \/ SetupTimesOut(q, w) \/ ObserveSetupFails(q, w) \/ OpenRejected(q, w)
              \/ ObserveCleanupFails(q, w)
       PROVE  UNCHANGED daemon
  BY ZenonT(30), <1>10 DEF SetupTimesOut, ObserveSetupFails, OpenRejected, ObserveCleanupFails
<1>11. /\ Kept
       /\ Counts \/ \E w \in Workers : ObserveSetup(q, w) \/ ObserveCleanup(q, w)
  BY <1>1, <1>5, <1>6, <1>7, <1>8, <1>9, <1>10 DEF Progress, SetupStep, RunStep
<1> QED
  BY <1>11 DEF Kept, Counts

-----------------------------------------------------------------------------
(***************************************************************************)
(* Observations come in order.                                             *)
(***************************************************************************)

LEMMA ProgressInOrder ==
    ASSUME TypeOK, NEW q \in Sequences, InOrder(q), Progress(q)
    PROVE  InOrder(q)'
<1> USE DEF TypeOK, Enter, Finish, InOrder, Unplaced, Opening, Stages, Placed
<1>1. ASSUME NoPlan(q) PROVE InOrder(q)'
  BY <1>1 DEF NoPlan
<1>2. ASSUME Generate(q) PROVE InOrder(q)'
  BY <1>2 DEF Generate
<1>3. ASSUME Close(q) PROVE InOrder(q)'
  BY <1>3 DEF Close
<1>4. ASSUME ResolveFails(q) PROVE InOrder(q)'
  BY <1>4 DEF ResolveFails
<1>5. ASSUME SetupDone(q) PROVE InOrder(q)'
  BY <1>5 DEF SetupDone
<1>6. ASSUME EndSetup(q) PROVE InOrder(q)'
  BY <1>6 DEF EndSetup
<1>7. ASSUME ObserveTimesOut(q) PROVE InOrder(q)'
  BY <1>7 DEF ObserveTimesOut
<1>8. ASSUME EndGenerate(q) PROVE InOrder(q)'
  BY <1>8 DEF EndGenerate
<1>9. ASSUME EndCleanup(q) PROVE InOrder(q)'
  BY <1>9 DEF EndCleanup
<1>10. ASSUME FinishSnapshot(q) PROVE InOrder(q)'
  BY <1>10 DEF FinishSnapshot
<1>11. ASSUME FinishReservation(q) PROVE InOrder(q)'
  BY <1>11 DEF FinishReservation
<1>12. ASSUME NEW w \in Workers, LoadShard(q, w) PROVE InOrder(q)'
  BY <1>12 DEF LoadShard
<1>13. ASSUME NEW w \in Workers, SetupFails(q, w) PROVE InOrder(q)'
  BY <1>13 DEF SetupFails
<1>14. ASSUME NEW w \in Workers, SetupTimesOut(q, w) PROVE InOrder(q)'
  BY <1>14 DEF SetupTimesOut
<1>15. ASSUME NEW w \in Workers, ObserveSetup(q, w) PROVE InOrder(q)'
  BY <1>15 DEF ObserveSetup
<1>16. ASSUME NEW w \in Workers, ObserveSetupFails(q, w) PROVE InOrder(q)'
  BY <1>16 DEF ObserveSetupFails
<1>17. ASSUME NEW w \in Workers, OpenSequence(q, w) PROVE InOrder(q)'
  BY <1>17 DEF OpenSequence
<1>18. ASSUME NEW w \in Workers, OpenRejected(q, w) PROVE InOrder(q)'
  BY <1>18 DEF OpenRejected
<1>19. ASSUME NEW w \in Workers, OpenAmbiguous(q, w) PROVE InOrder(q)'
  BY <1>19 DEF OpenAmbiguous
<1>20. ASSUME NEW w \in Workers, ObserveCleanup(q, w) PROVE InOrder(q)'
  BY <1>20 DEF ObserveCleanup
<1>21. ASSUME NEW w \in Workers, ObserveCleanupFails(q, w) PROVE InOrder(q)'
  BY <1>21 DEF ObserveCleanupFails
<1>22. ASSUME EndClosing(q) PROVE InOrder(q)'
  BY <1>22 DEF EndClosing
<1>23. ASSUME NEW w \in Workers, CloseSequence(q, w) PROVE InOrder(q)'
  BY <1>23 DEF CloseSequence
<1>24. ASSUME NEW w \in Workers, CloseFails(q, w) PROVE InOrder(q)'
  BY <1>24 DEF CloseFails
<1> QED
  BY <1>1, <1>2, <1>3, <1>4, <1>5, <1>6, <1>7, <1>8, <1>9, <1>10, <1>11, <1>12, <1>13,
     <1>14, <1>15, <1>16, <1>17, <1>18, <1>19, <1>20, <1>21, <1>22, <1>23, <1>24
     DEF Progress, SetupStep, RunStep

\* What an admission leaves alone, and what it places: stages no one observed yet.
LEMMA AdmissionUntouched ==
    ASSUME TypeOK, NEW q \in Sequences, ReserveAdmission(q)
    PROVE  /\ \A p \in Sequences \ {q} : Untouched(p)
           /\ UNCHANGED <<daemon, inFlight, agentVars>>
           /\ done'[q] = done[q] /\ outcome'[q] = outcome[q]
           /\ phase[q] = "planning"
<1>1. PICK place \in [Workers -> Shards \cup {NoShard}] : Admits(q, place) \/ TurnsDown(q)
  BY ReservationStep
<1>2. /\ phase[q] = "planning"
      /\ view' = [view EXCEPT ![q] = EmptyView]
      /\ UNCHANGED <<done, outcome, found, daemon, inFlight, agentVars>>
  BY ReservationStep
<1> DEFINE planned == PlannedStages(view[q], place)
<1>3. \E next : phase' = [phase EXCEPT ![q] = next]
  BY <1>1, ZenonT(30) DEF Admits, TurnsDown
<1>4. stages' = [stages EXCEPT ![q] = planned] \/ stages' = stages
  BY <1>1, ZenonT(30) DEF Admits, TurnsDown
<1> HIDE DEF planned
<1>5. \A p \in Sequences \ {q} : Untouched(p)
  BY <1>2, <1>3, <1>4 DEF Untouched, TypeOK
<1> QED
  BY <1>2, <1>5

LEMMA AdmissionPlaces ==
    ASSUME TypeOK, NEW q \in Sequences, ReserveAdmission(q)
    PROVE  \/ /\ phase'[q] = "done" /\ stages'[q] = stages[q]
              /\ reservations' = Reconciled(view[q]).slots
           \/ \E place \in [Workers -> Shards \cup {NoShard}] :
                /\ phase'[q] = "setup"
                /\ Selectable(view[q], place) /\ Admits(q, place)
                /\ stages'[q] = PlannedStages(view[q], place)
                /\ \A w \in Workers :
                     /\ stages'[q][w].setupObs = 0 /\ stages'[q][w].cleanupObs = 0
                     /\ stages'[q][w].shard = place[w]
                     /\ w \in Placed(stages'[q]) =>
                          /\ view[q][w] # Absent
                          /\ stages'[q][w].instance = view[q][w].instance
<1>1. PICK place \in [Workers -> Shards \cup {NoShard}] :
        /\ Selectable(view[q], place)
        /\ Admits(q, place) \/ TurnsDown(q)
  BY ReservationStep
<1>2. phase \in [Sequences -> Phases] /\ stages \in [Sequences -> [Workers -> Stage]]
  BY DEF TypeOK
<1>3. CASE TurnsDown(q)
  BY <1>2, <1>3 DEF TurnsDown
<1>4. CASE Admits(q, place)
  <2>1. phase'[q] = "setup" /\ stages'[q] = PlannedStages(view[q], place)
    BY <1>2, <1>4 DEF Admits
  <2>2. ASSUME NEW w \in Workers
        PROVE  LET stage == PlannedStages(view[q], place)[w] IN
               /\ stage.setupObs = 0 /\ stage.cleanupObs = 0 /\ stage.shard = place[w]
               /\ stage.shard # NoShard =>
                    view[q][w] # Absent /\ stage.instance = view[q][w].instance
    <3>1. CASE place[w] = NoShard
      BY <3>1 DEF PlannedStages, NoStage
    <3>2. CASE place[w] # NoShard
      <4>1. view[q][w] # Absent
        BY <1>1, <3>2 DEF Selectable
      <4>2. PlannedStages(view[q], place)[w] =
              [shard |-> place[w], instance |-> view[q][w].instance,
               loads |-> ~Reuses(view[q][w], place[w]), setupObs |-> 0, present |-> FALSE,
               cleanupObs |-> 0, stillOpen |-> FALSE]
        BY <3>2 DEF PlannedStages, NoStage
      <4> QED
        BY <4>1, <4>2
    <3> QED
      BY <3>1, <3>2
  <2>3. \A w \in Workers :
          /\ stages'[q][w].setupObs = 0 /\ stages'[q][w].cleanupObs = 0
          /\ stages'[q][w].shard = place[w]
          /\ w \in Placed(stages'[q]) =>
               view[q][w] # Absent /\ stages'[q][w].instance = view[q][w].instance
    BY <2>1, <2>2 DEF Placed
  <2> QED
    BY <1>1, <1>4, <2>1, <2>3
<1> QED
  BY <1>1, <1>3, <1>4

\* Workers, agents and calls under way change no sequence.
LEMMA OutsideUntouched ==
    ASSUME \/ \E w \in Workers : WorkerStep(w) \/ AgentStep(w)
           \/ \E m \in inFlight : Deliver(m)
           \/ UNCHANGED vars
    PROVE  UNCHANGED <<ledger, sequenceVars>>
BY DEF WorkerStep, WorkerRestart, DaemonRestart, AgentStep, Probe, RecordStatus, Heartbeat,
       LeaseEnds, Register, Deliver, vars

\* The steps of the system, by what they may change.
LEMMA StepKinds ==
    ASSUME [Next]_vars
    PROVE  \/ \E q \in Sequences : Progress(q) \/ TakeSnapshot(q) \/ ReserveAdmission(q)
           \/ \E w \in Workers : WorkerStep(w) \/ AgentStep(w)
           \/ \E m \in inFlight : Deliver(m)
           \/ UNCHANGED vars
BY DEF Next, Call, PlanStep, Progress

LEMMA UntouchedInOrder ==
    ASSUME NEW p \in Sequences, InOrder(p), Untouched(p)
    PROVE  InOrder(p)'
BY DEF InOrder, Untouched, Stages

LEMMA NextInOrder ==
    ASSUME TypeOK, ObservedInOrder, [Next]_vars
    PROVE  ObservedInOrder'
<1> SUFFICES ASSUME NEW p \in Sequences PROVE InOrder(p)'
  BY DEF ObservedInOrder
<1>1. InOrder(p)
  BY DEF ObservedInOrder
<1>2. ASSUME NEW q \in Sequences, Progress(q) PROVE InOrder(p)'
  BY <1>1, <1>2, ProgressInOrder, ProgressUntouched, UntouchedInOrder
<1>3. ASSUME NEW q \in Sequences, TakeSnapshot(q) PROVE InOrder(p)'
  BY <1>1, <1>3 DEF TakeSnapshot, InOrder, TypeOK, Unplaced, Opening, Stages
<1>4. ASSUME NEW q \in Sequences, ReserveAdmission(q) PROVE InOrder(p)'
  <2>1. CASE p # q
    BY <1>1, <1>4, <2>1, AdmissionUntouched, UntouchedInOrder
  <2>2. CASE p = q
    <3>1. phase[q] = "planning" /\ outcome'[q] = outcome[q]
      BY <1>4, AdmissionUntouched
    <3>2. \/ phase'[q] = "done"
          \/ /\ phase'[q] = "setup"
             /\ \A w \in Workers :
                  stages'[q][w].setupObs = 0 /\ stages'[q][w].cleanupObs = 0
      BY <1>4, AdmissionPlaces
    <3> QED
      BY <2>2, <3>1, <3>2 DEF InOrder, Unplaced, Opening
  <2> QED
    BY <2>1, <2>2
<1>5. ASSUME UNCHANGED sequenceVars PROVE InOrder(p)'
  BY <1>1, <1>5, UntouchedInOrder DEF Untouched, sequenceVars
<1> QED
  BY <1>2, <1>3, <1>4, <1>5, StepKinds, OutsideUntouched

\* A call that is executed late counts no observation and opens no other sequence.
LEMMA DeliverDaemons ==
    ASSUME TypeOK, NEW m \in inFlight, Deliver(m)
    PROVE  /\ m \in Request
           /\ \A w \in Workers :
                /\ DaemonKept(w) /\ daemon'[w].obs = daemon[w].obs
                /\ \A p \in Sequences \ {m.owner} : OpenKept(p, w)
           /\ UNCHANGED <<ledger, sequenceVars, agentVars>>
           /\ inFlight' \subseteq inFlight
<1>1. m \in Request /\ {m.worker} \in SUBSET Workers
  BY DEF TypeOK, Request
<1>2. \/ UNCHANGED daemon
      \/ daemon' = [daemon EXCEPT ![m.worker].loaded = @ \cup {m.shard}]
      \/ daemon' = Opened(m.owner, {m.worker}) \/ daemon' = Closed(m.owner, {m.worker})
  BY DEF Deliver
<1> DEFINE Kept == \A w \in Workers :
             /\ DaemonKept(w) /\ daemon'[w].obs = daemon[w].obs
             /\ \A p \in Sequences \ {m.owner} : OpenKept(p, w)
<1>3. ASSUME daemon' = [daemon EXCEPT ![m.worker].loaded = @ \cup {m.shard}] PROVE Kept
  BY <1>1, <1>3 DEF TypeOK, Daemon, Request, DaemonKept, OpenKept
<1>4. ASSUME daemon' = Opened(m.owner, {m.worker}) \/ daemon' = Closed(m.owner, {m.worker})
      PROVE  Kept
  BY <1>1, <1>4, OpenedKeeps DEF Request
<1>5. ASSUME UNCHANGED daemon PROVE Kept
  BY <1>5 DEF DaemonKept, OpenKept
<1>6. Kept
  BY <1>2, <1>3, <1>4, <1>5
<1>7. UNCHANGED <<ledger, sequenceVars, agentVars>> /\ inFlight' \subseteq inFlight
  BY DEF Deliver
<1> QED
  BY <1>1, <1>6, <1>7

-----------------------------------------------------------------------------
(***************************************************************************)
(* A worker's observations are counted by its probes and its stages.       *)
(***************************************************************************)

LEMMA ObserversFinite ==
    \A w : /\ IsFiniteSet(SetupObserved(w)) /\ Cardinality(SetupObserved(w)) \in Nat
           /\ IsFiniteSet(CleanupObserved(w)) /\ Cardinality(CleanupObserved(w)) \in Nat
           /\ Cardinality(SetupObserved(w)) <= Cardinality(Sequences)
           /\ Cardinality(CleanupObserved(w)) <= Cardinality(Sequences)
<1> SUFFICES ASSUME NEW w
             PROVE  /\ IsFiniteSet(SetupObserved(w))
                    /\ Cardinality(SetupObserved(w)) \in Nat
                    /\ IsFiniteSet(CleanupObserved(w))
                    /\ Cardinality(CleanupObserved(w)) \in Nat
                    /\ Cardinality(SetupObserved(w)) <= Cardinality(Sequences)
                    /\ Cardinality(CleanupObserved(w)) <= Cardinality(Sequences)
  OBVIOUS
<1>1. SetupObserved(w) \in SUBSET Sequences /\ CleanupObserved(w) \in SUBSET Sequences
  BY DEF SetupObserved, CleanupObserved
<1> QED
  BY <1>1, LedgerAssumption, FS_Subset, FS_CardinalityType

\* No status is as new as the minimum of a cleanup that was not observed.
LEMMA BelowUnreconciled ==
    ASSUME TypeOK, ObservationsBounded, NEW w \in Workers
    PROVE  daemon[w].obs \in Nat /\ daemon[w].obs < Unreconciled
<1>1. daemon[w].obs \in Nat
  BY DEF TypeOK, Daemon, Observation
<1>2. daemon[w].obs <= 1 + MaxProbed + Cardinality(SetupObserved(w))
                         + Cardinality(CleanupObserved(w))
  BY DEF ObservationsBounded
<1>3. Cardinality(Sequences) \in Nat
  BY LedgerAssumption, FS_CardinalityType
<1> QED
  BY <1>1, <1>2, <1>3, ObserversFinite, SchedulerAssumption, LedgerAssumption

LEMMA ObservationsKept ==
    ASSUME TypeOK, ObservationsBounded, NEW w \in Workers,
           daemon'[w].obs = daemon[w].obs,
           SetupObserved(w)' = SetupObserved(w), CleanupObserved(w)' = CleanupObserved(w)
    PROVE  daemon'[w].obs <= 1 + MaxProbed + Cardinality(SetupObserved(w)')
                               + Cardinality(CleanupObserved(w)')
BY DEF ObservationsBounded

LEMMA NextObservations ==
    ASSUME TypeOK, ObservedInOrder, ObservationsBounded, [Next]_vars
    PROVE  ObservationsBounded'
<1> SUFFICES ASSUME NEW w \in Workers
             PROVE  daemon'[w].obs <= 1 + MaxProbed + Cardinality(SetupObserved(w)')
                                        + Cardinality(CleanupObserved(w)')
  BY DEF ObservationsBounded
<1> DEFINE Goal == daemon'[w].obs <= 1 + MaxProbed + Cardinality(SetupObserved(w)')
                                       + Cardinality(CleanupObserved(w)')
<1>1. /\ daemon[w].obs \in Nat
      /\ daemon[w].obs <= 1 + MaxProbed + Cardinality(SetupObserved(w))
                            + Cardinality(CleanupObserved(w))
      /\ MaxProbed \in Nat
      /\ Cardinality(SetupObserved(w)) \in Nat /\ Cardinality(CleanupObserved(w)) \in Nat
  BY SchedulerAssumption, ObserversFinite
     DEF ObservationsBounded, TypeOK, Daemon, Observation
<1>2. ASSUME daemon'[w].obs = daemon[w].obs, UNCHANGED stages PROVE Goal
  BY <1>2, ObservationsKept DEF SetupObserved, CleanupObserved
<1>3. ASSUME NEW v \in Workers, Observe(v)
      PROVE  daemon'[w].obs = IF v = w THEN daemon[w].obs + 1 ELSE daemon[w].obs
  BY <1>3 DEF Observe, TypeOK, Daemon
<1>4. ASSUME NEW q \in Sequences, NEW v \in Workers, ObserveSetup(q, v) PROVE Goal
  <2>1. /\ q \notin SetupObserved(v)
        /\ SetupObserved(v)' = SetupObserved(v) \cup {q}
        /\ v # w => SetupObserved(w)' = SetupObserved(w)
        /\ CleanupObserved(w)' = CleanupObserved(w)
    <3>1. stages[q][v].setupObs = 0
      BY <1>4 DEF ObserveSetup, ObservedInOrder, InOrder
    <3>2. daemon'[v].obs # 0
      BY <1>4 DEF ObserveSetup, Observe, TypeOK, Daemon, Observation
    <3>3. \A p \in Sequences, x \in Workers :
            /\ stages'[p][x].cleanupObs = stages[p][x].cleanupObs
            /\ stages'[p][x].setupObs =
                 IF p = q /\ x = v THEN daemon'[v].obs ELSE stages[p][x].setupObs
      BY <1>4 DEF ObserveSetup, TypeOK, Stage
    <3> QED
      BY <3>1, <3>2, <3>3 DEF SetupObserved, CleanupObserved
  <2>2. Observe(v)
    BY <1>4 DEF ObserveSetup
  <2>3. Cardinality(SetupObserved(v) \cup {q}) = Cardinality(SetupObserved(v)) + 1
    BY <2>1, ObserversFinite, CountAdded
  <2>4. CASE v = w
    <3>1. daemon'[w].obs = daemon[w].obs + 1
      BY <1>3, <2>2, <2>4
    <3>2. Cardinality(SetupObserved(w)') = Cardinality(SetupObserved(w)) + 1
      BY <2>1, <2>3, <2>4
    <3> QED
      BY <1>1, <2>1, <3>1, <3>2
  <2>5. CASE v # w
    BY <1>1, <1>3, <2>1, <2>2, <2>5
  <2> QED
    BY <2>4, <2>5
<1>5. ASSUME NEW q \in Sequences, NEW v \in Workers, ObserveCleanup(q, v) PROVE Goal
  <2>1. /\ q \notin CleanupObserved(v)
        /\ CleanupObserved(v)' = CleanupObserved(v) \cup {q}
        /\ v # w => CleanupObserved(w)' = CleanupObserved(w)
        /\ SetupObserved(w)' = SetupObserved(w)
    <3>1. stages[q][v].cleanupObs = 0
      BY <1>5 DEF ObserveCleanup, ObservedInOrder, InOrder
    <3>2. daemon'[v].obs # 0
      BY <1>5 DEF ObserveCleanup, Observe, TypeOK, Daemon, Observation
    <3>3. \A p \in Sequences, x \in Workers :
            /\ stages'[p][x].setupObs = stages[p][x].setupObs
            /\ stages'[p][x].cleanupObs =
                 IF p = q /\ x = v THEN daemon'[v].obs ELSE stages[p][x].cleanupObs
      BY <1>5 DEF ObserveCleanup, TypeOK, Stage
    <3> QED
      BY <3>1, <3>2, <3>3 DEF SetupObserved, CleanupObserved
  <2>2. Observe(v)
    BY <1>5 DEF ObserveCleanup
  <2>3. Cardinality(CleanupObserved(v) \cup {q}) = Cardinality(CleanupObserved(v)) + 1
    BY <2>1, ObserversFinite, CountAdded
  <2>4. CASE v = w
    <3>1. daemon'[w].obs = daemon[w].obs + 1
      BY <1>3, <2>2, <2>4
    <3>2. Cardinality(CleanupObserved(w)') = Cardinality(CleanupObserved(w)) + 1
      BY <2>1, <2>3, <2>4
    <3> QED
      BY <1>1, <2>1, <3>1, <3>2
  <2>5. CASE v # w
    BY <1>1, <1>3, <2>1, <2>2, <2>5
  <2> QED
    BY <2>4, <2>5
<1>6. ASSUME NEW q \in Sequences, Progress(q) PROVE Goal
  BY <1>2, <1>4, <1>5, <1>6, ProgressStages, ProgressDaemons
<1>7. ASSUME NEW q \in Sequences, TakeSnapshot(q) PROVE Goal
  BY <1>2, <1>7 DEF TakeSnapshot
<1>8. ASSUME NEW q \in Sequences, ReserveAdmission(q) PROVE Goal
  <2>1. \A p \in Sequences \ {q} : stages'[p] = stages[p]
    BY <1>8, AdmissionUntouched DEF Untouched
  <2>2. UNCHANGED daemon /\ phase[q] = "planning"
    BY <1>8, AdmissionUntouched
  <2>3. stages[q][w].setupObs = 0 /\ stages[q][w].cleanupObs = 0
    BY <2>2 DEF ObservedInOrder, InOrder, Unplaced
  <2>4. stages'[q][w].setupObs = 0 /\ stages'[q][w].cleanupObs = 0
    BY <1>8, <2>3, AdmissionPlaces
  <2>5. SetupObserved(w)' = SetupObserved(w) /\ CleanupObserved(w)' = CleanupObserved(w)
    BY <2>1, <2>3, <2>4 DEF SetupObserved, CleanupObserved
  <2> QED
    BY <2>2, <2>5, ObservationsKept
<1>9. ASSUME UNCHANGED sequenceVars,
             daemon'[w].obs = daemon[w].obs \/ daemon'[w].obs \in 0 .. 1 + MaxProbed
      PROVE  Goal
  <2>1. SetupObserved(w)' = SetupObserved(w) /\ CleanupObserved(w)' = CleanupObserved(w)
    BY <1>9 DEF SetupObserved, CleanupObserved, sequenceVars
  <2> QED
    BY <1>1, <1>9, <2>1
<1>10. ASSUME NEW v \in Workers, Probe(v) PROVE Goal
  <2>1. daemon'[w].obs = daemon[w].obs \/ daemon'[w].obs \in 0 .. 1 + MaxProbed
    BY <1>1, <1>3, <1>10 DEF Probe
  <2>2. UNCHANGED sequenceVars
    BY <1>10 DEF Probe
  <2> QED
    BY <1>9, <2>1, <2>2
<1>11. ASSUME NEW v \in Workers, WorkerStep(v) PROVE Goal
  <2>1. CASE WorkerRestart(v)
    <3>1. daemon'[w].obs = daemon[w].obs
      BY <2>1 DEF WorkerRestart, TypeOK, Daemon
    <3> QED
      BY <1>9, <2>1, <3>1 DEF WorkerRestart
  <2>2. CASE DaemonRestart(v)
    <3>1. daemon'[w].obs = daemon[w].obs \/ daemon'[w].obs = 1
      BY <2>2 DEF DaemonRestart, TypeOK, Daemon, NewDaemon
    <3>2. daemon'[w].obs = daemon[w].obs \/ daemon'[w].obs \in 0 .. 1 + MaxProbed
      BY <1>1, <3>1
    <3>3. UNCHANGED sequenceVars
      BY <2>2 DEF DaemonRestart
    <3> QED
      BY <1>9, <3>2, <3>3
  <2> QED
    BY <1>11, <2>1, <2>2 DEF WorkerStep
<1>12. ASSUME NEW v \in Workers, AgentStep(v), ~Probe(v) PROVE Goal
  BY <1>9, <1>12 DEF AgentStep, RecordStatus, Heartbeat, LeaseEnds, Register
<1>13. ASSUME NEW m \in inFlight, Deliver(m) PROVE Goal
  BY <1>2, <1>13, DeliverDaemons DEF sequenceVars
<1>14. CASE UNCHANGED vars
  BY <1>2, <1>14 DEF vars, sequenceVars
<1> QED
  BY <1>6, <1>7, <1>8, <1>10, <1>11, <1>12, <1>13, <1>14, StepKinds

-----------------------------------------------------------------------------
(***************************************************************************)
(* Snapshots and incarnations.                                             *)
(***************************************************************************)

PlacesKept ==
    /\ \A q \in Sequences :
         /\ phase'[q] = "planning" => phase[q] = "planning" /\ view'[q] = view[q]
         /\ \A w \in Workers : /\ stages'[q][w].shard = stages[q][w].shard
                               /\ stages'[q][w].instance = stages[q][w].instance
    /\ \A w \in Workers :
         /\ daemon'[w].instance = daemon[w].instance
         /\ membership'[w] = Absent <=> membership[w] = Absent
         /\ membership[w] # Absent => membership'[w].instance = membership[w].instance

LEMMA ProgressPlaces ==
    ASSUME TypeOK, NEW q \in Sequences, Progress(q)
    PROVE  PlacesKept
<1>1. ASSUME NEW p \in Sequences \ {q}
      PROVE  /\ phase'[p] = "planning" => phase[p] = "planning" /\ view'[p] = view[p]
             /\ \A w \in Workers : /\ stages'[p][w].shard = stages[p][w].shard
                                   /\ stages'[p][w].instance = stages[p][w].instance
  BY ProgressUntouched DEF Untouched
<1>2. /\ phase'[q] # "planning"
      /\ \A w \in Workers : /\ stages'[q][w].shard = stages[q][w].shard
                            /\ stages'[q][w].instance = stages[q][w].instance
  BY ProgressPhase, ProgressStages DEF PhaseMoves, Unplaced, StageKept
<1>3. \A w \in Workers : daemon'[w].instance = daemon[w].instance
  BY ProgressDaemons DEF DaemonKept
<1>4. membership' = membership
  BY ProgressUntouched DEF agentVars
<1> QED
  BY <1>1, <1>2, <1>3, <1>4 DEF PlacesKept

\* Every step but a snapshot, an admission, a restart of a daemon, a registration and
\* the end of a lease.
Relists(w) == DaemonRestart(w) \/ LeaseEnds(w) \/ Register(w)

LEMMA StepPlaces ==
    ASSUME TypeOK, [Next]_vars,
           ~\E q \in Sequences : TakeSnapshot(q) \/ ReserveAdmission(q),
           ~\E w \in Workers : Relists(w)
    PROVE  PlacesKept
<1>1. ASSUME UNCHANGED sequenceVars,
             \A w \in Workers : daemon'[w].instance = daemon[w].instance,
             \A w \in Workers :
               /\ membership'[w] = Absent <=> membership[w] = Absent
               /\ membership[w] # Absent => membership'[w].instance = membership[w].instance
      PROVE  PlacesKept
  BY <1>1 DEF PlacesKept, sequenceVars
<1>2. ASSUME NEW w \in Workers, Heartbeat(w) PROVE PlacesKept
  <2>1. membership[w] # Absent /\ membership[w] \in Member
    BY <1>2 DEF Heartbeat, Departed, TypeOK, Inventory
  <2>2. [membership[w] EXCEPT !.status = cached[w], !.fresh = TRUE] \in Member
    BY <1>2, <2>1 DEF TypeOK, Member
  <2>3. \A v \in Workers :
          /\ membership'[v] = Absent <=> membership[v] = Absent
          /\ membership[v] # Absent => membership'[v].instance = membership[v].instance
    <3> SUFFICES ASSUME NEW v \in Workers
                 PROVE  /\ membership'[v] = Absent <=> membership[v] = Absent
                        /\ membership[v] # Absent =>
                             membership'[v].instance = membership[v].instance
      OBVIOUS
    <3>1. CASE v # w
      BY <1>2, <3>1 DEF Heartbeat, TypeOK, Inventory
    <3>2. CASE v = w
      <4>1. membership'[w] = [membership[w] EXCEPT !.status = cached[w], !.fresh = TRUE]
        BY <1>2 DEF Heartbeat, TypeOK, Inventory
      <4> QED
        BY <2>1, <2>2, <3>2, <4>1, NoConfusion DEF Member
    <3> QED
      BY <3>1, <3>2
  <2> QED
    BY <1>1, <1>2, <2>3 DEF Heartbeat
<1>3. ASSUME NEW w \in Workers, Probe(w) PROVE PlacesKept
  <2>1. \A v \in Workers : daemon'[v].instance = daemon[v].instance
    BY <1>3 DEF Probe, Observe, TypeOK, Daemon
  <2> QED
    BY <1>1, <1>3, <2>1 DEF Probe
<1>4. ASSUME NEW w \in Workers, WorkerRestart(w) PROVE PlacesKept
  <2>1. \A v \in Workers : daemon'[v].instance = daemon[v].instance
    BY <1>4 DEF WorkerRestart, TypeOK, Daemon
  <2> QED
    BY <1>1, <1>4, <2>1 DEF WorkerRestart, agentVars
<1>5. ASSUME NEW w \in Workers, RecordStatus(w) PROVE PlacesKept
  BY <1>1, <1>5 DEF RecordStatus
<1>6. ASSUME NEW m \in inFlight, Deliver(m) PROVE PlacesKept
  BY <1>1, <1>6, DeliverDaemons DEF DaemonKept, agentVars
<1>7. CASE UNCHANGED vars
  BY <1>1, <1>7 DEF vars, agentVars
<1> QED
  BY <1>2, <1>3, <1>4, <1>5, <1>6, <1>7, ProgressPlaces, StepKinds
     DEF Relists, WorkerStep, AgentStep

\* Where nothing is placed or listed anew, what is bound and what is current stays so.
LEMMA PlacesKeep ==
    ASSUME PlacesKept
    PROVE  \A w \in Workers :
             /\ Current(membership, w)' <=> Current(membership, w)
             /\ \A q \in Sequences :
                  /\ w \in Stages(q)' <=> w \in Stages(q)
                  /\ Bound(q, w)' <=> Bound(q, w)
                  /\ phase'[q] = "planning" =>
                       (Current(view[q], w)' <=> Current(view[q], w))
<1> SUFFICES ASSUME NEW w \in Workers
             PROVE  /\ Current(membership, w)' <=> Current(membership, w)
                    /\ \A q \in Sequences :
                         /\ w \in Stages(q)' <=> w \in Stages(q)
                         /\ Bound(q, w)' <=> Bound(q, w)
                         /\ phase'[q] = "planning" =>
                              (Current(view[q], w)' <=> Current(view[q], w))
  OBVIOUS
<1>1. Current(membership, w)' <=> Current(membership, w)
  BY DEF PlacesKept, Current, Departed
<1>2. ASSUME NEW q \in Sequences
      PROVE  /\ w \in Stages(q)' <=> w \in Stages(q)
             /\ Bound(q, w)' <=> Bound(q, w)
             /\ phase'[q] = "planning" => (Current(view[q], w)' <=> Current(view[q], w))
  BY DEF PlacesKept, Stages, Placed, Bound, Reaches, Current, Departed
<1> QED
  BY <1>1, <1>2

Listed == PlansAlone /\ InstancesInOrder /\ NeverDeparted /\ OldViewsAreEmpty

LEMMA ListedKept ==
    ASSUME Listed, PlacesKept
    PROVE  Listed'
<1>1. PlansAlone'
  BY DEF Listed, PlansAlone, PlacesKept
<1>2. InstancesInOrder'
  BY PlacesKeep DEF Listed, InstancesInOrder, PlacesKept
<1>3. NeverDeparted'
  BY PlacesKeep DEF Listed, NeverDeparted, PlacesKept
<1>4. OldViewsAreEmpty'
  BY PlacesKeep DEF Listed, OldViewsAreEmpty, PlacesKept
<1> QED
  BY <1>1, <1>2, <1>3, <1>4 DEF Listed

LEMMA SnapshotListed ==
    ASSUME TypeOK, ObservedInOrder, Listed, NEW q \in Sequences, TakeSnapshot(q)
    PROVE  Listed'
<1>1. /\ phase[q] = "idle" /\ phase'[q] = "planning" /\ view'[q] = membership
      /\ \A p \in Sequences \ {q} : phase'[p] = phase[p] /\ view'[p] = view[p]
      /\ stages' = stages /\ daemon' = daemon /\ membership' = membership
  BY DEF TakeSnapshot, TypeOK, agentVars
<1>2. /\ \A p \in Sequences : Stages(p)' = Stages(p)
      /\ \A p \in Sequences, w \in Workers : Bound(p, w)' <=> Bound(p, w)
      /\ \A w \in Workers : Current(membership, w)' <=> Current(membership, w)
  BY <1>1 DEF Stages, Bound, Reaches, Current
<1>3. /\ \A w \in Workers : Current(view[q], w)' <=> Current(membership, w)
      /\ \A p \in Sequences \ {q}, w \in Workers : Current(view[p], w)' <=> Current(view[p], w)
  BY <1>1 DEF Current
<1>4. PlansAlone'
  <2> SUFFICES ASSUME MaxPreparing <= 1
               PROVE  \A p \in Sequences : phase'[p] = "planning" => p = q
    BY DEF PlansAlone
  <2> DEFINE P == {p \in Sequences : phase[p] = "planning"}
  <2>1. IsFiniteSet(P) /\ Cardinality(P) \in Nat
    BY LedgerAssumption, FS_Subset, FS_CardinalityType
  <2>2. Cardinality(P) < MaxPreparing /\ MaxPreparing \in Nat
    BY SchedulerAssumption DEF TakeSnapshot
  <2>3. P = {}
    BY <2>1, <2>2, FS_EmptySet
  <2> QED
    BY <1>1, <2>3
<1>5. InstancesInOrder'
  <2> SUFFICES ASSUME NEW w \in Workers, NEW p \in Sequences
               PROVE  /\ membership'[w] # Absent => membership'[w].instance <= daemon'[w].instance
                      /\ phase'[p] = "planning" /\ view'[p][w] # Absent =>
                           view'[p][w].instance <= daemon'[w].instance
                      /\ w \in Stages(p)' => stages'[p][w].instance <= daemon'[w].instance
                      /\ phase'[p] = "planning" /\ Current(view[p], w)' => Current(membership, w)'
                      /\ Bound(p, w)' => Current(membership, w)'
    BY DEF InstancesInOrder
  <2>1. CASE p = q
    BY <1>1, <1>2, <1>3, <2>1 DEF Listed, InstancesInOrder
  <2>2. CASE p # q
    BY <1>1, <1>2, <1>3, <2>2 DEF Listed, InstancesInOrder
  <2> QED
    BY <2>1, <2>2
<1>6. NeverDeparted'
  BY <1>1, <1>2, <1>3 DEF Listed, NeverDeparted
<1>7. OldViewsAreEmpty'
  <2> SUFFICES ASSUME NEW p \in Sequences, NEW r \in Sequences, NEW w \in Workers,
                      phase'[p] = "planning", ~Current(view[p], w)', Bound(r, w)
               PROVE  FALSE
    BY <1>2 DEF OldViewsAreEmpty
  <2>1. CASE p = q
    BY <1>3, <2>1 DEF Listed, InstancesInOrder
  <2>2. CASE p # q
    BY <1>1, <1>3, <2>2 DEF Listed, OldViewsAreEmpty
  <2> QED
    BY <2>1, <2>2
<1> QED
  BY <1>4, <1>5, <1>6, <1>7 DEF Listed

\* A plan binds to incarnations its snapshot lists; a snapshot that is older than one
\* of them is no longer in use, or would list it.
LEMMA AdmissionListed ==
    ASSUME TypeOK, Steady, Listed, NEW q \in Sequences, ReserveAdmission(q)
    PROVE  Listed'
<1>1. /\ phase[q] = "planning" /\ phase'[q] # "planning"
      /\ \A p \in Sequences \ {q} :
           phase'[p] = phase[p] /\ view'[p] = view[p] /\ stages'[p] = stages[p]
      /\ daemon' = daemon /\ membership' = membership
  BY AdmissionUntouched, AdmissionPlaces DEF Untouched, agentVars
<1>2. /\ \A p \in Sequences \ {q} : Stages(p)' = Stages(p)
      /\ \A p \in Sequences \ {q}, w \in Workers : Bound(p, w)' <=> Bound(p, w)
      /\ \A w \in Workers : Current(membership, w)' <=> Current(membership, w)
      /\ \A p \in Sequences \ {q}, w \in Workers : Current(view[p], w)' <=> Current(view[p], w)
  BY <1>1 DEF Stages, Bound, Reaches, Current
<1>3. ASSUME NEW w \in Workers, w \in Stages(q)'
      PROVE  \/ w \in Stages(q) /\ stages'[q] = stages[q]
             \/ view[q][w] # Absent /\ stages'[q][w].instance = view[q][w].instance
  BY <1>3, AdmissionPlaces DEF Stages
<1>4. ASSUME NEW w \in Workers, Bound(q, w)'
      PROVE  Bound(q, w) \/ Current(view[q], w)
  BY <1>1, <1>3, <1>4 DEF Bound, Reaches, Current, Departed
<1>5. PlansAlone'
  BY <1>1 DEF Listed, PlansAlone
<1>6. InstancesInOrder'
  <2> SUFFICES ASSUME NEW w \in Workers, NEW p \in Sequences
               PROVE  /\ membership'[w] # Absent => membership'[w].instance <= daemon'[w].instance
                      /\ phase'[p] = "planning" /\ view'[p][w] # Absent =>
                           view'[p][w].instance <= daemon'[w].instance
                      /\ w \in Stages(p)' => stages'[p][w].instance <= daemon'[w].instance
                      /\ phase'[p] = "planning" /\ Current(view[p], w)' => Current(membership, w)'
                      /\ Bound(p, w)' => Current(membership, w)'
    BY DEF InstancesInOrder
  <2>1. CASE p = q
    <3>1. w \in Stages(q)' => stages'[q][w].instance <= daemon[w].instance
      BY <1>1, <1>3 DEF Listed, InstancesInOrder
    <3>2. Bound(q, w)' => Current(membership, w)
      BY <1>1, <1>4 DEF Listed, InstancesInOrder
    <3> QED
      BY <1>1, <1>2, <2>1, <3>1, <3>2 DEF Listed, InstancesInOrder
  <2>2. CASE p # q
    BY <1>1, <1>2, <2>2 DEF Listed, InstancesInOrder
  <2> QED
    BY <2>1, <2>2
<1>7. NeverDeparted'
  BY <1>1, <1>2 DEF Listed, NeverDeparted
<1>8. OldViewsAreEmpty'
  <2> SUFFICES ASSUME NEW p \in Sequences, NEW r \in Sequences, NEW w \in Workers,
                      phase'[p] = "planning", ~Current(view[p], w)', Bound(r, w)'
               PROVE  FALSE
    BY DEF OldViewsAreEmpty
  <2>1. p # q /\ phase[p] = "planning" /\ ~Current(view[p], w)
    BY <1>1, <1>2
  <2>2. MaxPreparing <= 1 => FALSE
    BY <1>1, <2>1 DEF Listed, PlansAlone
  <2>3. ~Fault("daemonRestart") => FALSE
    BY <2>1 DEF Listed, NeverDeparted
  <2> QED
    BY <2>2, <2>3 DEF Steady
<1> QED
  BY <1>5, <1>6, <1>7, <1>8 DEF Listed

\* A new incarnation is bound to nothing and listed nowhere.
LEMMA RestartListed ==
    ASSUME TypeOK, Listed, NEW v \in Workers, DaemonRestart(v)
    PROVE  Listed'
<1>1. /\ phase' = phase /\ view' = view /\ stages' = stages /\ membership' = membership
      /\ Fault("daemonRestart")
      /\ daemon'[v].instance = daemon[v].instance + 1
      /\ \A w \in Workers \ {v} : daemon'[w] = daemon[w]
  BY DEF DaemonRestart, sequenceVars, TypeOK, NewDaemon
<1>2. \A w \in Workers : daemon[w].instance \in Nat
  BY LedgerAssumption DEF TypeOK, Daemon
<1>3. \A w \in Workers :
        daemon'[w].instance \in Nat /\ daemon[w].instance <= daemon'[w].instance
  BY <1>1, <1>2
<1>4. /\ ~Current(membership, v)'
      /\ \A p \in Sequences : /\ phase[p] = "planning" => ~Current(view[p], v)'
                              /\ ~Bound(p, v)'
  <2>1. ~Current(membership, v)'
    BY <1>1, <1>2 DEF Listed, InstancesInOrder, Current, Departed
  <2>2. ASSUME NEW p \in Sequences, phase[p] = "planning" PROVE ~Current(view[p], v)'
    BY <1>1, <1>2, <2>2 DEF Listed, InstancesInOrder, Current, Departed
  <2>3. ASSUME NEW p \in Sequences PROVE ~Bound(p, v)'
    <3>1. v \in Stages(p) => stages[p][v].instance <= daemon[v].instance
      BY DEF Listed, InstancesInOrder
    <3> QED
      BY <1>1, <1>2, <3>1 DEF Bound, Reaches, Stages
  <2> QED
    BY <2>1, <2>2, <2>3
<1>5. \A w \in Workers \ {v} :
        /\ Current(membership, w)' <=> Current(membership, w)
        /\ \A p \in Sequences : /\ Current(view[p], w)' <=> Current(view[p], w)
                                /\ Bound(p, w)' <=> Bound(p, w)
  BY <1>1 DEF Current, Bound, Reaches, Stages
<1>6. PlansAlone'
  BY <1>1 DEF Listed, PlansAlone
<1>7. InstancesInOrder'
  <2>1. ASSUME NEW w \in Workers, membership[w] # Absent
        PROVE  membership[w].instance <= daemon'[w].instance
    <3>1. membership[w].instance \in Nat
      BY <2>1, LedgerAssumption DEF TypeOK, Inventory, Member
    <3>2. membership[w].instance <= daemon[w].instance
      BY <2>1 DEF Listed, InstancesInOrder
    <3> QED
      BY <1>2, <1>3, <3>1, <3>2
  <2>2. ASSUME NEW w \in Workers, NEW p \in Sequences, phase[p] = "planning",
               view[p][w] # Absent
        PROVE  view[p][w].instance <= daemon'[w].instance
    <3>1. view[p][w].instance \in Nat
      <4>1. view[p][w] \in Member
        BY <2>2 DEF TypeOK, Inventory
      <4> QED
        BY <4>1, LedgerAssumption DEF Member
    <3>2. view[p][w].instance <= daemon[w].instance
      BY <2>2 DEF Listed, InstancesInOrder
    <3> QED
      BY <1>2, <1>3, <3>1, <3>2
  <2>3. ASSUME NEW w \in Workers, NEW p \in Sequences, w \in Stages(p)
        PROVE  stages[p][w].instance <= daemon'[w].instance
    <3>1. stages[p][w].instance \in Nat
      <4>1. stages[p][w] \in Stage
        BY DEF TypeOK
      <4> QED
        BY <4>1, LedgerAssumption DEF Stage
    <3>2. stages[p][w].instance <= daemon[w].instance
      BY <2>3 DEF Listed, InstancesInOrder
    <3> QED
      BY <1>2, <1>3, <3>1, <3>2
  <2>4. ASSUME NEW w \in Workers, NEW p \in Sequences
        PROVE  /\ phase'[p] = "planning" /\ Current(view[p], w)' => Current(membership, w)'
               /\ Bound(p, w)' => Current(membership, w)'
    BY <1>1, <1>4, <1>5 DEF Listed, InstancesInOrder
  <2>5. \A p \in Sequences : Stages(p)' = Stages(p)
    BY <1>1 DEF Stages
  <2> QED
    BY <1>1, <2>1, <2>2, <2>3, <2>4, <2>5 DEF InstancesInOrder
<1>8. NeverDeparted'
  BY <1>1 DEF NeverDeparted
<1>9. OldViewsAreEmpty'
  BY <1>1, <1>4, <1>5 DEF Listed, OldViewsAreEmpty
<1> QED
  BY <1>6, <1>7, <1>8, <1>9 DEF Listed

\* Only a daemon that restarted loses its lease.
LEMMA LeaseListed ==
    ASSUME TypeOK, Steady, Listed, NEW v \in Workers, LeaseEnds(v) \/ Register(v)
    PROVE  Listed'
<1>1. phase' = phase /\ view' = view /\ stages' = stages /\ daemon' = daemon
  BY DEF LeaseEnds, Register, sequenceVars
<1>2. \A w \in Workers \ {v} : membership'[w] = membership[w]
  BY DEF LeaseEnds, Register, TypeOK, Inventory
<1>3. \/ membership'[v] = Absent /\ ~Current(membership, v)
      \/ membership'[v] # Absent /\ membership'[v].instance = daemon[v].instance
  <2>1. CASE LeaseEnds(v)
    BY <2>1 DEF LeaseEnds, Steady, Current, TypeOK, Inventory
  <2>2. CASE Register(v)
    <3>1. membership'[v] =
            [instance |-> daemon[v].instance, status |-> cached[v], fresh |-> statusPending[v]]
      BY <2>2 DEF Register, TypeOK, Inventory
    <3>2. membership'[v] \in Member
      BY <3>1 DEF TypeOK, Member, Daemon
    <3> QED
      BY <3>1, <3>2, NoConfusion
  <2> QED
    BY <2>1, <2>2
<1>4. \A w \in Workers : Current(membership, w) => Current(membership, w)'
  BY <1>1, <1>2, <1>3 DEF Current, Departed
<1>5. \A p \in Sequences, w \in Workers :
        /\ Current(view[p], w)' <=> Current(view[p], w)
        /\ Bound(p, w)' <=> Bound(p, w)
  BY <1>1 DEF Current, Bound, Reaches, Stages
<1>6. \A w \in Workers : membership'[w] # Absent => membership'[w].instance <= daemon'[w].instance
  <2>1. \A w \in Workers : daemon[w].instance \in Nat
    BY LedgerAssumption DEF TypeOK, Daemon
  <2> QED
    BY <1>1, <1>2, <1>3, <2>1 DEF Listed, InstancesInOrder
<1>7. PlansAlone' /\ OldViewsAreEmpty'
  BY <1>1, <1>5 DEF Listed, PlansAlone, OldViewsAreEmpty
<1>8. InstancesInOrder'
  BY <1>1, <1>4, <1>5, <1>6 DEF Listed, InstancesInOrder, Stages
<1>9. NeverDeparted'
  BY <1>1, <1>4, <1>5 DEF Listed, NeverDeparted
<1> QED
  BY <1>7, <1>8, <1>9 DEF Listed

LEMMA NextListed ==
    ASSUME TypeOK, Steady, ObservedInOrder, Listed, [Next]_vars
    PROVE  Listed'
BY StepPlaces, ListedKept, SnapshotListed, AdmissionListed, RestartListed, LeaseListed
   DEF Relists

-----------------------------------------------------------------------------
(***************************************************************************)
(* Calls under way belong to stages.                                       *)
(***************************************************************************)

\* A call is abandoned at a stage; an open only by a generation that will close it.
LEMMA ProgressCalls ==
    ASSUME TypeOK, ProgressPlaced, NEW q \in Sequences, Progress(q), NEW m \in inFlight',
           m \notin inFlight
    PROVE  /\ m.owner = q /\ m.worker \in Stages(q)
           /\ m.instance = stages[q][m.worker].instance
           /\ m.shard = stages[q][m.worker].shard
           /\ m.call = "open" => phase'[q] = "running" /\ m.worker \in done'[q]
<1> DEFINE Goal == /\ m.owner = q /\ m.worker \in Stages(q)
                   /\ m.instance = stages[q][m.worker].instance
                   /\ m.shard = stages[q][m.worker].shard
                   /\ m.call = "open" => phase'[q] = "running" /\ m.worker \in done'[q]
<1>1. ASSUME NEW w \in Workers, SetupTimesOut(q, w) PROVE Goal
  <2>1. m = StageCall("load", q, w) /\ w \in Stages(q)
    BY <1>1 DEF SetupTimesOut
  <2> QED
    BY <2>1 DEF StageCall
<1>2. ASSUME NEW w \in Workers, OpenAmbiguous(q, w) PROVE Goal
  <2>1. m = StageCall("open", q, w) /\ w \in Stages(q)
    BY <1>2 DEF OpenAmbiguous
  <2>2. phase'[q] = "running" /\ w \in done'[q]
    BY <1>2 DEF OpenAmbiguous, TypeOK
  <2> QED
    BY <2>1, <2>2 DEF StageCall
<1>3. ASSUME NEW w \in Workers, CloseFails(q, w) PROVE Goal
  <2>1. m = StageCall("close", q, w)
    BY <1>3 DEF CloseFails
  <2>2. w \in Stages(q)
    BY <1>3 DEF CloseFails, ProgressPlaced, Holding
  <2> QED
    BY <2>1, <2>2 DEF StageCall
<1>4. ASSUME \/ NoPlan(q) \/ Generate(q) \/ Close(q) \/ ResolveFails(q) \/ SetupDone(q)
             \/ EndSetup(q) \/ ObserveTimesOut(q) \/ EndGenerate(q) \/ EndClosing(q) \/ EndCleanup(q)
             \/ FinishSnapshot(q) \/ FinishReservation(q)
      PROVE  Goal
  BY ZenonT(30), <1>4 DEF NoPlan, Generate, Close, ResolveFails, SetupDone, EndSetup, ObserveTimesOut, EndGenerate, EndClosing, EndCleanup, FinishSnapshot, FinishReservation
<1>5. ASSUME NEW w \in Workers,
             \/ LoadShard(q, w) \/ SetupFails(q, w) \/ ObserveSetup(q, w)
             \/ ObserveSetupFails(q, w) \/ OpenSequence(q, w) \/ OpenRejected(q, w)
             \/ CloseSequence(q, w) \/ ObserveCleanup(q, w) \/ ObserveCleanupFails(q, w)
      PROVE  Goal
  BY ZenonT(30), <1>5 DEF LoadShard, SetupFails, ObserveSetup, ObserveSetupFails, OpenSequence, OpenRejected, CloseSequence, ObserveCleanup, ObserveCleanupFails
<1> HIDE DEF Goal
<1>6. Goal
  BY <1>1, <1>2, <1>3, <1>4, <1>5 DEF Progress, SetupStep, RunStep
<1> QED
  BY <1>6 DEF Goal

LEMMA OutsideCalls ==
    ASSUME TypeOK,
           \/ \E w \in Workers : WorkerStep(w) \/ AgentStep(w)
           \/ \E m \in inFlight : Deliver(m)
           \/ UNCHANGED vars
    PROVE  inFlight' \subseteq inFlight
BY DeliverDaemons DEF WorkerStep, WorkerRestart, DaemonRestart, AgentStep, Probe, RecordStatus,
   Heartbeat, LeaseEnds, Register, vars

LEMMA UntouchedCall ==
    ASSUME NEW m, CallPlaced(m), Untouched(m.owner)
    PROVE  CallPlaced(m)'
BY DEF CallPlaced, Untouched, Stages

LEMMA NextCalls ==
    ASSUME TypeOK, ProgressPlaced, ObservedInOrder, CallsPlaced, [Next]_vars
    PROVE  CallsPlaced'
<1> SUFFICES ASSUME NEW m \in inFlight' PROVE CallPlaced(m)'
  BY DEF CallsPlaced
<1>1. m \in inFlight => CallPlaced(m) /\ m.owner \in Sequences /\ m.worker \in Workers
  BY DEF CallsPlaced, TypeOK, Request
<1>2. ASSUME NEW q \in Sequences, Progress(q) PROVE CallPlaced(m)'
  <2>1. \A w \in Workers : /\ w \in Stages(q)' <=> w \in Stages(q)
                           /\ stages'[q][w].shard = stages[q][w].shard
                           /\ stages'[q][w].instance = stages[q][w].instance
    BY <1>2, ProgressStages DEF StageKept, Stages, Placed
  <2>2. CASE m \notin inFlight
    <3>1. m.worker \in Workers
      BY <1>2, <2>2, ProgressCalls DEF Stages, Placed
    <3> QED
      BY <1>2, <2>1, <2>2, <3>1, ProgressCalls DEF CallPlaced
  <2>3. CASE m \in inFlight /\ m.owner = q
    <3>1. PhaseMoves(q)
      BY <1>2, ProgressPhase
    <3> QED
      BY <1>1, <2>1, <2>3, <3>1 DEF CallPlaced, PhaseMoves, Opening, Closing
  <2>4. CASE m \in inFlight /\ m.owner # q
    BY <1>1, <1>2, <2>4, ProgressUntouched, UntouchedCall
  <2> QED
    BY <2>2, <2>3, <2>4
<1>3. ASSUME NEW q \in Sequences, phase[q] \in Unplaced, inFlight' = inFlight,
             \A p \in Sequences \ {q} : Untouched(p)
      PROVE  CallPlaced(m)'
  <2>1. m.owner # q
    BY <1>1, <1>3 DEF CallPlaced, ObservedInOrder, InOrder
  <2> QED
    BY <1>1, <1>3, <2>1, UntouchedCall
<1>4. ASSUME NEW q \in Sequences, TakeSnapshot(q) PROVE CallPlaced(m)'
  BY <1>3, <1>4 DEF TakeSnapshot, Untouched, Unplaced, TypeOK
<1>5. ASSUME NEW q \in Sequences, ReserveAdmission(q) PROVE CallPlaced(m)'
  BY <1>3, <1>5, AdmissionUntouched DEF Unplaced
<1>6. ASSUME UNCHANGED sequenceVars, inFlight' \subseteq inFlight PROVE CallPlaced(m)'
  BY <1>1, <1>6, UntouchedCall DEF Untouched, sequenceVars
<1> QED
  BY <1>2, <1>4, <1>5, <1>6, StepKinds, OutsideUntouched, OutsideCalls

-----------------------------------------------------------------------------
(***************************************************************************)
(* Quarantines come with finished reservations and go with ordered         *)
(* statuses.                                                               *)
(***************************************************************************)

LEMMA ProgressLedger ==
    ASSUME NEW q \in Sequences, Progress(q)
    PROVE  UNCHANGED ledger \/ FinishReservation(q)
<1>1. ASSUME \/ NoPlan(q) \/ Generate(q) \/ Close(q) \/ ResolveFails(q) \/ SetupDone(q)
             \/ EndSetup(q) \/ ObserveTimesOut(q) \/ EndGenerate(q) \/ EndClosing(q) \/ EndCleanup(q)
             \/ FinishSnapshot(q)
      PROVE  UNCHANGED ledger
  BY ZenonT(30), <1>1 DEF NoPlan, Generate, Close, ResolveFails, SetupDone, EndSetup, ObserveTimesOut, EndGenerate, EndClosing, EndCleanup, FinishSnapshot
<1>2. ASSUME NEW w \in Workers,
             \/ LoadShard(q, w) \/ SetupFails(q, w) \/ SetupTimesOut(q, w)
             \/ ObserveSetup(q, w) \/ ObserveSetupFails(q, w) \/ OpenSequence(q, w)
             \/ OpenRejected(q, w) \/ OpenAmbiguous(q, w) \/ CloseSequence(q, w) \/ CloseFails(q, w)
             \/ ObserveCleanup(q, w) \/ ObserveCleanupFails(q, w)
      PROVE  UNCHANGED ledger
  BY ZenonT(30), <1>2 DEF LoadShard, SetupFails, SetupTimesOut, ObserveSetup, ObserveSetupFails, OpenSequence, OpenRejected, OpenAmbiguous, CloseSequence, CloseFails, ObserveCleanup, ObserveCleanupFails
<1> QED
  BY <1>1, <1>2 DEF Progress, SetupStep, RunStep

LEMMA DoneUntouched ==
    ASSUME TypeOK, [Next]_vars, NEW p \in Sequences, phase[p] = "done"
    PROVE  Untouched(p)
<1>1. ASSUME NEW q \in Sequences, Progress(q) PROVE Untouched(p)
  <2>1. p # q
    BY <1>1, ProgressPhase DEF PhaseMoves
  <2> QED
    BY <1>1, <2>1, ProgressUntouched
<1>2. ASSUME NEW q \in Sequences, TakeSnapshot(q) PROVE Untouched(p)
  BY <1>2 DEF TakeSnapshot, Untouched, TypeOK
<1>3. ASSUME NEW q \in Sequences, ReserveAdmission(q) PROVE Untouched(p)
  BY <1>3, AdmissionUntouched
<1>4. ASSUME UNCHANGED sequenceVars PROVE Untouched(p)
  BY <1>4 DEF Untouched, sequenceVars
<1> QED
  BY <1>1, <1>2, <1>3, <1>4, StepKinds, OutsideUntouched

LEMMA AdmissionPoison ==
    ASSUME TypeOK, NEW q \in Sequences, ReserveAdmission(q),
           NEW w \in Workers, NEW i \in Instances, NEW s \in Shards
    PROVE  reservations'[w][i][s].poisoned =
             ReconciledPoison(view[q], w, i, s, reservations[w][i][s].poisoned)
<1> DEFINE kept == ReconciledPoison(view[q], w, i, s, reservations[w][i][s].poisoned)
           slot == Reconciled(view[q]).slots[w][i][s]
<1>1. slot = [reservations[w][i][s] EXCEPT !.poisoned = kept]
  BY ReconciledSlot
<1>2. reservations[w][i][s] \in Slot
  BY DEF TypeOK, LedgerTypeOK, Slots
<1>3. slot.poisoned = kept /\ slot = [active |-> slot.active, poisoned |-> slot.poisoned]
  <2> HIDE DEF kept, slot
  <2> QED
    BY <1>1, <1>2 DEF Slot
<1>4. \/ reservations'[w][i][s] = slot
      \/ reservations'[w][i][s] = [slot EXCEPT !.active = @ + 1]
  <2> DEFINE slots == Reconciled(view[q]).slots
  <2>1. CASE reservations' = slots
    BY <2>1
  <2>2. ASSUME NEW place, Admits(q, place)
        PROVE  \/ reservations'[w][i][s] = slots[w][i][s]
               \/ reservations'[w][i][s] = [slots[w][i][s] EXCEPT !.active = @ + 1]
    <3> DEFINE hosts == Reconciled(view[q]).hosts
               planned == PlannedStages(view[q], place)
    <3>1. Reserve(slots, hosts, planned)
      BY <2>2, Zenon DEF Admits
    <3> HIDE DEF slots, hosts, planned
    <3> QED
      BY <3>1 DEF Reserve
  <2> QED
    BY <2>1, <2>2, AdmissionPlaces
<1>5. reservations'[w][i][s].poisoned = slot.poisoned
  <2> HIDE DEF slot
  <2> QED
    BY <1>3, <1>4
<1> QED
  BY <1>3, <1>5

LEMMA ReleasePoison ==
    ASSUME NEW q \in Sequences, FinishReservation(q),
           NEW w \in Workers, NEW i \in Instances, NEW s \in Shards
    PROVE  reservations'[w][i][s].poisoned = reservations[w][i][s].poisoned \cup
             (IF OnShard(stages[q], w, i, s)
              THEN NewPoison(q, stages[q][w], outcome[q].cleanupConfirmed, w \in found[q])
              ELSE {})
BY DEF FinishReservation, Release

\* Where a quarantine comes from, and that only an admission lifts it.
LEMMA PoisonOrigin ==
    ASSUME TypeOK, [Next]_vars, NEW w \in Workers, NEW i \in Instances, NEW s \in Shards,
           NEW p \in reservations'[w][i][s].poisoned, p \notin reservations[w][i][s].poisoned
    PROVE  \E q \in Sequences :
             /\ FinishReservation(q)
             /\ p = [owner |-> q, minimum |-> ObservationAfter(stages[q][w].cleanupObs)]
<1>1. ASSUME NEW q \in Sequences, FinishReservation(q)
      PROVE  p = [owner |-> q, minimum |-> ObservationAfter(stages[q][w].cleanupObs)]
  BY <1>1, ReleasePoison DEF NewPoison
<1>2. ASSUME NEW q \in Sequences, ReserveAdmission(q) PROVE FALSE
  <2>1. ReconciledPoison(view[q], w, i, s, reservations[w][i][s].poisoned)
          \subseteq reservations[w][i][s].poisoned
    BY DEF ReconciledPoison
  <2> QED
    BY <1>2, <2>1, AdmissionPoison
<1>3. ASSUME UNCHANGED ledger PROVE FALSE
  BY <1>3 DEF ledger
<1> QED
  BY <1>1, <1>2, <1>3, StepKinds, OutsideUntouched, ProgressLedger DEF TakeSnapshot

LEMMA PoisonStays ==
    ASSUME TypeOK, [Next]_vars, ~\E q \in Sequences : ReserveAdmission(q),
           NEW w \in Workers, NEW i \in Instances, NEW s \in Shards
    PROVE  reservations[w][i][s].poisoned \subseteq reservations'[w][i][s].poisoned
<1>1. ASSUME NEW q \in Sequences, FinishReservation(q)
      PROVE  reservations[w][i][s].poisoned \subseteq reservations'[w][i][s].poisoned
  BY <1>1, ReleasePoison
<1>2. ASSUME UNCHANGED ledger
      PROVE  reservations[w][i][s].poisoned \subseteq reservations'[w][i][s].poisoned
  BY <1>2 DEF ledger
<1> QED
  BY <1>1, <1>2, StepKinds, OutsideUntouched, ProgressLedger DEF TakeSnapshot

LEMMA NextQuarantineOrdered ==
    ASSUME TypeOK, QuarantineOrdered, [Next]_vars
    PROVE  QuarantineOrdered'
<1> SUFFICES ASSUME NEW w \in Workers, NEW i \in Instances, NEW s \in Shards,
                    NEW p \in reservations'[w][i][s].poisoned
             PROVE  /\ phase'[p.owner] = "done"
                    /\ p.minimum = ObservationAfter(stages'[p.owner][w].cleanupObs)
  BY DEF QuarantineOrdered
<1>1. CASE p \in reservations[w][i][s].poisoned
  <2>1. p.owner \in Sequences
    BY <1>1 DEF TypeOK, LedgerTypeOK, Slots, Slot, Poison
  <2>2. /\ phase[p.owner] = "done"
        /\ p.minimum = ObservationAfter(stages[p.owner][w].cleanupObs)
    BY <1>1 DEF QuarantineOrdered
  <2> QED
    BY <2>1, <2>2, DoneUntouched DEF Untouched
<1>2. CASE p \notin reservations[w][i][s].poisoned
  <2>1. PICK q \in Sequences :
          /\ FinishReservation(q)
          /\ p = [owner |-> q, minimum |-> ObservationAfter(stages[q][w].cleanupObs)]
    BY <1>2, PoisonOrigin
  <2>2. phase'[q] = "done" /\ stages' = stages
    BY <2>1 DEF FinishReservation, Enter, TypeOK
  <2> QED
    BY <2>1, <2>2
<1> QED
  BY <1>1, <1>2

-----------------------------------------------------------------------------
(***************************************************************************)
(* Whatever is open has an owner.                                          *)
(***************************************************************************)

LEMMA OpenedOnly ==
    ASSUME TypeOK, NEW q \in Sequences, NEW v \in Workers, daemon' = Opened(q, {v}),
           NEW w \in Workers, NEW s \in Shards, q \in daemon'[w].open[s],
           q \notin daemon[w].open[s]
    PROVE  w = v /\ s = stages[q][w].shard
<1>1. daemon[w] \in Daemon
  BY DEF TypeOK
<1>2. w = v
  BY DEF Opened
<1>3. daemon'[w] = [daemon[w] EXCEPT !.open[stages[q][w].shard] = @ \cup {q}]
  BY DEF Opened
<1>4. s = stages[q][w].shard
  BY <1>1, <1>3 DEF Daemon
<1> QED
  BY <1>2, <1>4

LEMMA ClosedOnly ==
    ASSUME TypeOK, NEW q \in Sequences, NEW W \in SUBSET Workers, daemon' = Closed(q, W),
           NEW w \in Workers, NEW s \in Shards, q \in daemon'[w].open[s]
    PROVE  w \notin W /\ q \in daemon[w].open[s]
<1>1. daemon[w] \in Daemon
  BY DEF TypeOK
<1>2. ASSUME w \in W PROVE FALSE
  <2>1. daemon'[w] = [daemon[w] EXCEPT !.open = [x \in Shards |-> @[x] \ {q}]]
    BY <1>2 DEF Closed
  <2> QED
    BY <1>1, <2>1 DEF Daemon
<1>3. daemon'[w] = daemon[w]
  BY <1>2 DEF Closed
<1> QED
  BY <1>2, <1>3

LEMMA OwnedUntouched ==
    ASSUME NEW p \in Sequences, NEW w \in Workers, NEW s \in Shards,
           Owned(p, w, s), Untouched(p), daemon'[w].instance = daemon[w].instance,
           phase[p] = "done" => Quarantined(p, w, s)'
    PROVE  Owned(p, w, s)'
BY DEF Owned, Untouched, Bound, Reaches, Stages

\* A step of the owner: what it opened stays its own, until the quarantine has it.
LEMMA OwnerKeeps ==
    ASSUME TypeOK, ObservedInOrder, InstancesInOrder, NEW q \in Sequences, Progress(q),
           NEW w \in Workers, NEW s \in Shards, Owned(q, w, s),
           q \in daemon[w].open[s], q \in daemon'[w].open[s]
    PROVE  Owned(q, w, s)'
<1>1. /\ Bound(q, w)' /\ stages'[q][w].shard = s
      /\ phase'[q] \in {"running"} \cup Closing
  <2>1. daemon'[w].instance = daemon[w].instance
    BY ProgressDaemons DEF DaemonKept
  <2>2. StageKept(q, w) /\ PhaseMoves(q)
    BY ProgressStages, ProgressPhase
  <2> QED
    BY <2>1, <2>2 DEF Owned, Bound, Reaches, Stages, Placed, StageKept, PhaseMoves, Closing
<1>2. phase[q] \in {"running"} \cup Closing
  BY DEF Owned
<1> DEFINE Kept == /\ phase'[q] = "running" => w \in done'[q]
                   /\ phase'[q] = "closing" => w \in done'[q] \/ ~outcome'[q].cleanupConfirmed
                   /\ phase'[q] \in Closing \ {"closing", "done"} =>
                        ~StageCleanupConfirmed(stages'[q][w], outcome'[q].cleanupConfirmed)
                   /\ phase'[q] = "releasing" => w \in found'[q]
                   /\ phase'[q] = "done" => Quarantined(q, w, s)'
<1>3. ASSUME NEW v \in Workers, OpenSequence(q, v) \/ OpenRejected(q, v) \/ OpenAmbiguous(q, v)
      PROVE  Kept
  <2>1. phase'[q] = "running" /\ phase[q] = "running" /\ done[q] \subseteq done'[q]
    BY <1>3 DEF OpenSequence, OpenRejected, OpenAmbiguous, TypeOK
  <2> QED
    BY <2>1 DEF Owned, Closing
<1>4. ASSUME EndGenerate(q) PROVE Kept
  <2>1. phase[q] = "running" /\ phase'[q] = "closing" /\ done' = done
    BY <1>4 DEF EndGenerate, TypeOK
  <2> QED
    BY <2>1 DEF Owned
<1>13. ASSUME NEW v \in Workers, CloseSequence(q, v) \/ CloseFails(q, v) PROVE Kept
  <2>1. /\ phase[q] = "closing" /\ phase'[q] = "closing"
        /\ done'[q] = done[q] \ {v}
    BY <1>13 DEF CloseSequence, CloseFails, TypeOK
  <2>2. CASE CloseSequence(q, v)
    <3>1. daemon' = Closed(q, {v}) /\ outcome' = outcome
      BY <2>2 DEF CloseSequence
    <3>2. w # v
      BY <3>1, ClosedOnly
    <3> QED
      BY <2>1, <3>1, <3>2 DEF Owned
  <2>3. CASE CloseFails(q, v)
    <3>1. ~outcome'[q].cleanupConfirmed
      BY <2>3 DEF CloseFails, TypeOK, Outcome
    <3> QED
      BY <2>1, <3>1
  <2> QED
    BY <1>13, <2>2, <2>3
<1>14. ASSUME EndClosing(q) PROVE Kept
  <2>1. /\ phase[q] = "closing" /\ done[q] = {} /\ UNCHANGED stages
        /\ Finish(q, TRUE, outcome[q].cleanupConfirmed)
    BY <1>14 DEF EndClosing
  <2>2. ~outcome[q].cleanupConfirmed
    BY <2>1 DEF Owned
  <2>3. phase'[q] = "cleaning" /\ ~outcome'[q].cleanupConfirmed
    BY <2>1, <2>2 DEF Finish, Enter, TypeOK, Outcome
  <2>4. stages'[q][w].cleanupObs = 0
    BY <2>1 DEF ObservedInOrder, InOrder
  <2> QED
    BY <2>3, <2>4 DEF StageCleanupConfirmed
<1>5. ASSUME NEW v \in Workers, ObserveCleanup(q, v) PROVE Kept
  <2>1. phase[q] = "cleaning" /\ phase'[q] = "cleaning" /\ outcome'[q] = outcome[q]
    BY <1>5 DEF ObserveCleanup
  <2>2. ~outcome[q].cleanupConfirmed
    BY <2>1 DEF ObservedInOrder, InOrder
  <2>3. ASSUME v = w PROVE stages'[q][w].stillOpen = (daemon[w].open[stages[q][w].shard] # {})
    <3>1. stages' = [stages EXCEPT ![q][w].cleanupObs = daemon'[w].obs,
                                   ![q][w].stillOpen = daemon[w].open[stages[q][w].shard] # {}]
      BY <1>5, <2>3 DEF ObserveCleanup
    <3>2. stages[q][w] \in Stage
      BY DEF TypeOK
    <3> QED
      BY <3>1, <3>2 DEF TypeOK, Stage
  <2>4. v # w => stages'[q][w] = stages[q][w]
    BY <1>5 DEF ObserveCleanup, TypeOK
  <2>5. v = w => stages'[q][w].stillOpen
    BY <2>3 DEF Owned
  <2>6. ~StageCleanupConfirmed(stages[q][w], outcome[q].cleanupConfirmed)
    BY <2>1 DEF Owned, Closing
  <2> QED
    BY <2>1, <2>2, <2>4, <2>5, <2>6 DEF StageCleanupConfirmed
<1>6. ASSUME NEW v \in Workers, ObserveCleanupFails(q, v) PROVE Kept
  <2>1. /\ phase'[q] = phase[q] /\ phase[q] = "cleaning"
        /\ stages'[q] = stages[q] /\ outcome'[q] = outcome[q]
    BY <1>6 DEF ObserveCleanupFails
  <2> QED
    BY <2>1 DEF Owned
<1>7. ASSUME EndCleanup(q) PROVE Kept
  <2>1. /\ phase[q] = "cleaning" /\ phase'[q] = "finishing"
        /\ stages'[q] = stages[q] /\ outcome'[q] = outcome[q]
    BY <1>7 DEF EndCleanup, Enter, TypeOK
  <2> QED
    BY <2>1 DEF Owned, Closing
<1>8. ASSUME FinishSnapshot(q) PROVE Kept
  <2>1. /\ phase[q] = "finishing" /\ phase'[q] = "releasing"
        /\ stages'[q] = stages[q] /\ outcome'[q] = outcome[q]
        /\ found'[q] = {v \in Stages(q) : ~Departed(membership, v, stages[q][v].instance)}
    BY <1>8 DEF FinishSnapshot, Enter, TypeOK
  <2>2. w \in found'[q]
    BY <2>1 DEF Owned, InstancesInOrder, Current, Bound, Reaches
  <2> QED
    BY <2>1, <2>2 DEF Owned, Closing
<1>9. ASSUME FinishReservation(q) PROVE Kept
  <2>1. phase[q] = "releasing" /\ phase'[q] = "done" /\ daemon' = daemon
    BY <1>9 DEF FinishReservation, Enter, TypeOK
  <2>2. /\ OnShard(stages[q], w, daemon[w].instance, s)
        /\ w \in found[q]
        /\ ~StageCleanupConfirmed(stages[q][w], outcome[q].cleanupConfirmed)
    BY <2>1 DEF Owned, Bound, Reaches, OnShard, Closing
  <2>3. daemon[w].instance \in Instances
    BY DEF TypeOK, Daemon
  <2>4. [owner |-> q, minimum |-> ObservationAfter(stages[q][w].cleanupObs)]
          \in reservations'[w][daemon[w].instance][s].poisoned
    BY <1>9, <2>2, <2>3, ReleasePoison DEF NewPoison
  <2>5. Quarantined(q, w, s)'
    BY <2>1, <2>4 DEF Quarantined
  <2> QED
    BY <2>1, <2>5 DEF Closing
<1>10. ASSUME \/ NoPlan(q) \/ Generate(q) \/ Close(q) \/ ResolveFails(q)
              \/ SetupDone(q) \/ EndSetup(q) \/ ObserveTimesOut(q)
       PROVE  phase[q] \notin {"running"} \cup Closing
  BY <1>10 DEF NoPlan, Generate, Close, ResolveFails, SetupDone, EndSetup, ObserveTimesOut, Closing
<1>11. ASSUME NEW v \in Workers,
              \/ LoadShard(q, v) \/ SetupFails(q, v) \/ SetupTimesOut(q, v)
              \/ ObserveSetup(q, v) \/ ObserveSetupFails(q, v)
       PROVE  phase[q] \notin {"running"} \cup Closing
  BY <1>11 DEF LoadShard, SetupFails, SetupTimesOut, ObserveSetup, ObserveSetupFails, Closing
<1> HIDE DEF Kept
<1>12. Kept
  BY <1>2, <1>3, <1>4, <1>5, <1>6, <1>7, <1>8, <1>9, <1>10, <1>11, <1>13, <1>14
     DEF Progress, SetupStep, RunStep
<1> QED
  BY <1>1, <1>12 DEF Owned, Kept

\* What a step opens belongs to a generation that will close it.
LEMMA OpenerOwns ==
    ASSUME TypeOK, NEW q \in Sequences, Progress(q), NEW w \in Workers, NEW s \in Shards,
           q \notin daemon[w].open[s], q \in daemon'[w].open[s]
    PROVE  Owned(q, w, s)' /\ phase[q] = "running" /\ Bound(q, w) /\ stages[q][w].shard = s
<1>1. PICK v \in Workers : OpenSequence(q, v) \/ OpenAmbiguous(q, v)
  <2>1. ASSUME UNCHANGED daemon PROVE FALSE
    BY <2>1
  <2>2. ASSUME NEW v \in Workers, Observe(v) PROVE FALSE
    BY <2>2 DEF Observe, TypeOK, Daemon
  <2>3. ASSUME NEW v \in Workers,
               daemon' = [daemon EXCEPT ![v].loaded = @ \cup {stages[q][v].shard}]
        PROVE  FALSE
    BY <2>3 DEF TypeOK, Daemon
  <2>4. ASSUME NEW v \in Workers, CloseSequence(q, v) \/ CloseFails(q, v) PROVE FALSE
    <3>1. daemon' = Closed(q, {v}) \/ UNCHANGED daemon
      BY ZenonT(30), <2>4 DEF CloseSequence, CloseFails
    <3>2. {v} \in SUBSET Workers
      OBVIOUS
    <3> QED
      BY <2>1, <3>1, <3>2, ClosedOnly
  <2>5. ASSUME NEW v \in Workers, LoadShard(q, v) \/ SetupFails(q, v) PROVE FALSE
    BY ZenonT(30), <2>1, <2>3, <2>5 DEF LoadShard, SetupFails
  <2>6. ASSUME NEW v \in Workers, ObserveSetup(q, v) \/ ObserveCleanup(q, v) PROVE FALSE
    BY ZenonT(30), <2>2, <2>6 DEF ObserveSetup, ObserveCleanup
  <2>7. ASSUME \/ NoPlan(q) \/ Generate(q) \/ Close(q) \/ ResolveFails(q) \/ SetupDone(q)
               \/ EndSetup(q) \/ ObserveTimesOut(q) \/ EndGenerate(q) \/ EndClosing(q) \/ EndCleanup(q)
               \/ FinishSnapshot(q) \/ FinishReservation(q)
        PROVE  UNCHANGED daemon
    BY ZenonT(30), <2>7 DEF NoPlan, Generate, Close, ResolveFails, SetupDone, EndSetup, ObserveTimesOut, EndGenerate, EndClosing, EndCleanup, FinishSnapshot, FinishReservation
  <2>8. ASSUME NEW v \in Workers,
               \/ SetupTimesOut(q, v) \/ ObserveSetupFails(q, v) \/ OpenRejected(q, v)
               \/ ObserveCleanupFails(q, v)
        PROVE  UNCHANGED daemon
    BY ZenonT(30), <2>8 DEF SetupTimesOut, ObserveSetupFails, OpenRejected, ObserveCleanupFails
  <2> QED
    BY <2>1, <2>4, <2>5, <2>6, <2>7, <2>8 DEF Progress, SetupStep, RunStep
<1>2. daemon' = Opened(q, {v})
  <2>1. \/ daemon' = Opened(q, {v})
        \/ UNCHANGED daemon
    BY ZenonT(30), <1>1 DEF OpenSequence, OpenAmbiguous
  <2> QED
    BY <2>1
<1>3. w = v /\ s = stages[q][w].shard
  BY <1>2, OpenedOnly
<1>4. Reaches(q, v)
  <2>1. ~Reaches(q, v) => UNCHANGED daemon
    BY ZenonT(30), <1>1 DEF OpenSequence, OpenAmbiguous
  <2> QED
    BY <2>1
<1>5. /\ phase[q] = "running" /\ phase' = phase /\ stages' = stages /\ v \in Stages(q)
      /\ v \in done'[q]
  BY <1>1 DEF OpenSequence, OpenAmbiguous, TypeOK
<1>6. Bound(q, w)' /\ Bound(q, w)
  <2>1. daemon'[w].instance = daemon[w].instance
    BY ProgressDaemons DEF DaemonKept
  <2> QED
    BY <1>3, <1>4, <1>5, <2>1 DEF Bound, Reaches, Stages
<1> QED
  BY <1>3, <1>5, <1>6 DEF Owned, Closing

\* A quarantine outlives an admission planned before its sequence is reported closed.
LEMMA AdmissionQuarantines ==
    ASSUME TypeOK, QuarantineInv, NEW q \in Sequences, ReserveAdmission(q),
           NEW p \in Sequences, phase[p] = "done", NEW w \in Workers, NEW s \in Shards,
           p \in daemon[w].open[s], Bound(p, w), Quarantined(p, w, s)
    PROVE  Quarantined(p, w, s)'
<1> DEFINE i == daemon[w].instance
           poisoned == reservations[w][i][s].poisoned
           member == view[q][w]
<1>1. i \in Instances
  BY DEF TypeOK, Daemon
<1>2. PICK e \in poisoned : e.owner = p
  BY DEF Quarantined
<1>3. phase[q] = "planning" /\ daemon' = daemon
  BY AdmissionUntouched
<1>4. Current(view[q], w)
  BY <1>3 DEF QuarantineInv, OldViewsAreEmpty
<1>5. ~Departed(view[q], w, i)
  BY <1>4 DEF Current
<1>6. member \in Member
  BY <1>5 DEF TypeOK, Inventory, Departed
<1>7. /\ member.status.obs \in Nat
      /\ e.minimum = ObservationAfter(stages[p][w].cleanupObs)
      /\ e.minimum \in Nat
  <2>1. e \in Poison
    BY <1>1 DEF TypeOK, LedgerTypeOK, Slots, Slot
  <2>2. e.minimum = ObservationAfter(stages[p][w].cleanupObs)
    BY <1>1, <1>2 DEF QuarantineInv, QuarantineOrdered
  <2> QED
    BY <1>6, <2>1, <2>2 DEF Poison, Observation, Member, Status
<1>8. StatusTrue(w, member.status)
  BY <1>3, <1>4 DEF QuarantineInv, StatusesTrue
<1>9. member.status.open[s] = {} => member.status.obs < e.minimum
  <2>1. ASSUME member.status.obs >= e.minimum PROVE p \in member.status.open[s]
    BY <1>7, <1>8, <2>1 DEF StatusTrue, Closing
  <2> QED
    BY <1>7, <2>1
<1>10. e \in ReconciledPoison(view[q], w, i, s, poisoned)
  BY <1>5, <1>9 DEF ReconciledPoison
<1>11. e \in reservations'[w][i][s].poisoned
  BY <1>1, <1>10, AdmissionPoison
<1> QED
  BY <1>2, <1>3, <1>11 DEF Quarantined

LEMMA AgentDaemons ==
    ASSUME TypeOK, NEW v \in Workers, AgentStep(v)
    PROVE  \A w \in Workers : DaemonKept(w) /\ daemon'[w].open = daemon[w].open
<1> SUFFICES ASSUME NEW w \in Workers
             PROVE  DaemonKept(w) /\ daemon'[w].open = daemon[w].open
  OBVIOUS
<1>1. daemon[w] \in Daemon
  BY DEF TypeOK
<1>2. UNCHANGED daemon \/ Observe(v)
  BY DEF AgentStep, Probe, RecordStatus, Heartbeat, LeaseEnds, Register
<1>3. CASE Observe(v)
  <2>1. daemon'[w] = daemon[w] \/ daemon'[w] = [daemon[w] EXCEPT !.obs = @ + 1]
    BY <1>3 DEF Observe, TypeOK
  <2> QED
    BY <1>1, <2>1 DEF DaemonKept, Daemon
<1> QED
  BY <1>2, <1>3 DEF DaemonKept

\* Outside the callers only a late open opens, and the sequence is one still running.
LEMMA OutsideOpens ==
    ASSUME TypeOK, NEW w \in Workers, NEW s \in Shards, NEW p \in daemon'[w].open[s],
           \/ \E v \in Workers : WorkerStep(v) \/ AgentStep(v)
           \/ UNCHANGED vars
    PROVE  p \in daemon[w].open[s] /\ daemon'[w].instance = daemon[w].instance
<1>1. ASSUME NEW v \in Workers, WorkerRestart(v) \/ DaemonRestart(v)
      PROVE  p \in daemon[w].open[s] /\ daemon'[w].instance = daemon[w].instance
  <2>1. CASE w = v
    <3>1. daemon'[w].open = NothingOpen
      BY <1>1, <2>1 DEF WorkerRestart, DaemonRestart, TypeOK, Daemon, NewDaemon
    <3> QED
      BY <3>1 DEF NothingOpen
  <2>2. CASE w # v
    BY <1>1, <2>2 DEF WorkerRestart, DaemonRestart, TypeOK
  <2> QED
    BY <2>1, <2>2
<1> QED
  BY <1>1, AgentDaemons DEF WorkerStep, DaemonKept, vars

LEMMA DeliverOpens ==
    ASSUME TypeOK, Steady, CallsPlaced, NEW m \in inFlight, Deliver(m),
           NEW w \in Workers, NEW s \in Shards, NEW p \in Sequences, p \in daemon'[w].open[s],
           p \notin daemon[w].open[s]
    PROVE  Bound(p, w) /\ stages[p][w].shard = s /\ phase[p] = "running" /\ w \in done[p]
<1>1. m \in Request /\ (p # m.owner => OpenKept(p, w))
  BY DeliverDaemons
<1>2. p = m.owner
  BY <1>1 DEF OpenKept
<1>3. /\ daemon[m.worker].instance = m.instance
      /\ phase[p] = "running" /\ daemon' = Opened(p, {m.worker}) /\ m.call = "open"
  <2>1. daemon' # daemon
    OBVIOUS
  <2>2. ASSUME daemon' = [daemon EXCEPT ![m.worker].loaded = @ \cup {m.shard}]
        PROVE  FALSE
    <3>1. daemon[w] \in Daemon
      BY DEF TypeOK
    <3>2. \/ daemon'[w] = daemon[w]
          \/ daemon'[w] = [daemon[w] EXCEPT !.loaded = @ \cup {m.shard}]
      BY <2>2 DEF TypeOK
    <3> QED
      BY <3>1, <3>2 DEF Daemon
  <2>3. daemon' # Closed(p, {m.worker})
    <3>1. {m.worker} \in SUBSET Workers
      BY <1>1 DEF Request
    <3>2. ASSUME daemon' = Closed(p, {m.worker}) PROVE FALSE
      BY <3>1, <3>2, ClosedOnly
    <3> QED
      BY <3>2
  <2>4. /\ daemon[m.worker].instance = m.instance
        /\ m.call = "open" /\ (Fault("lateDelivery") \/ phase[p] = "running")
        /\ daemon' = Opened(p, {m.worker})
    BY ZenonT(30), <1>2, <2>1, <2>2, <2>3 DEF Deliver
  <2> QED
    BY <2>4 DEF Steady
<1>4. w = m.worker /\ s = stages[p][w].shard
  <2>1. m.worker \in Workers /\ daemon' = Opened(p, {m.worker})
    BY <1>1, <1>3 DEF Request
  <2> QED
    BY <2>1, OpenedOnly
<1>5. CallPlaced(m)
  BY DEF CallsPlaced
<1> QED
  BY <1>2, <1>3, <1>4, <1>5 DEF CallPlaced, Bound, Reaches, Stages

\* Whatever a step opens was admitted there.
LEMMA StepOpens ==
    ASSUME TypeOK, Steady, CallsPlaced, [Next]_vars,
           NEW w \in Workers, NEW s \in Shards, NEW p \in Sequences, p \in daemon'[w].open[s]
    PROVE  /\ daemon'[w].instance = daemon[w].instance
           /\ \/ p \in daemon[w].open[s]
              \/ Bound(p, w) /\ stages[p][w].shard = s /\ phase[p] = "running"
<1>1. ASSUME NEW q \in Sequences, TakeSnapshot(q) \/ ReserveAdmission(q)
      PROVE  daemon' = daemon
  BY <1>1, AdmissionUntouched DEF TakeSnapshot
<1>2. ASSUME NEW q \in Sequences, Progress(q)
      PROVE  /\ daemon'[w].instance = daemon[w].instance
             /\ \/ p \in daemon[w].open[s]
                \/ Bound(p, w) /\ stages[p][w].shard = s /\ phase[p] = "running"
  BY <1>2, ProgressDaemons, OpenerOwns DEF DaemonKept, OpenKept
<1>3. ASSUME NEW m \in inFlight, Deliver(m)
      PROVE  /\ daemon'[w].instance = daemon[w].instance
             /\ \/ p \in daemon[w].open[s]
                \/ Bound(p, w) /\ stages[p][w].shard = s /\ phase[p] = "running"
  BY <1>3, DeliverDaemons, DeliverOpens DEF DaemonKept
<1> QED
  BY <1>1, <1>2, <1>3, OutsideOpens, StepKinds

LEMMA NextOpenOwned ==
    ASSUME TypeOK, TypeOK', Steady, QuarantineInv, [Next]_vars
    PROVE  OpenOwned'
<1> SUFFICES ASSUME NEW w \in Workers, NEW s \in Shards, NEW p \in daemon'[w].open[s]
             PROVE  Owned(p, w, s)'
  BY DEF OpenOwned
<1>1. p \in Sequences
  BY DEF TypeOK, Daemon
<1>2. ASSUME p \in daemon[w].open[s] PROVE Owned(p, w, s)
  BY <1>2 DEF QuarantineInv, OpenOwned
<1>3. /\ ObservedInOrder /\ InstancesInOrder /\ CallsPlaced
  BY DEF QuarantineInv
<1>4. ASSUME Owned(p, w, s), Untouched(p), ~\E q \in Sequences : ReserveAdmission(q)
      PROVE  Owned(p, w, s)'
  <2>1. daemon[w].instance \in Instances
    BY DEF TypeOK, Daemon
  <2>2. daemon'[w].instance = daemon[w].instance
    BY <1>1, <1>3, StepOpens
  <2>3. Quarantined(p, w, s) => Quarantined(p, w, s)'
    BY <1>4, <2>1, <2>2, PoisonStays DEF Quarantined
  <2> QED
    BY <1>1, <1>4, <2>2, <2>3, OwnedUntouched DEF Owned
<1>5. ASSUME NEW q \in Sequences, ReserveAdmission(q) PROVE Owned(p, w, s)'
  <2>1. daemon' = daemon /\ phase[q] = "planning"
    BY <1>5, AdmissionUntouched
  <2>2. Owned(p, w, s)
    BY <1>2, <2>1
  <2>3. Untouched(p)
    BY <1>1, <1>5, <2>1, <2>2, AdmissionUntouched DEF Owned, Closing
  <2>4. phase[p] = "done" => Quarantined(p, w, s)'
    BY <1>1, <1>5, <2>1, <2>2, AdmissionQuarantines DEF Owned
  <2> QED
    BY <1>1, <2>1, <2>2, <2>3, <2>4, OwnedUntouched
<1>6. ASSUME NEW q \in Sequences, Progress(q), ~\E r \in Sequences : ReserveAdmission(r)
      PROVE  Owned(p, w, s)'
  <2>1. CASE p # q
    <3>1. p \in daemon[w].open[s] /\ Untouched(p)
      BY <1>1, <1>6, <2>1, ProgressDaemons, ProgressUntouched DEF OpenKept
    <3> QED
      BY <1>2, <1>4, <1>6, <3>1
  <2>2. CASE p = q /\ p \in daemon[w].open[s]
    BY <1>2, <1>3, <1>6, <2>2, OwnerKeeps
  <2>3. CASE p = q /\ p \notin daemon[w].open[s]
    BY <1>6, <2>3, OpenerOwns
  <2> QED
    BY <2>1, <2>2, <2>3
<1>7. ASSUME NEW q \in Sequences, TakeSnapshot(q), ~\E r \in Sequences : ReserveAdmission(r)
      PROVE  Owned(p, w, s)'
  <2>1. daemon' = daemon /\ phase[q] = "idle"
    BY <1>7 DEF TakeSnapshot
  <2>2. p # q
    BY <1>2, <2>1 DEF Owned, Closing
  <2>3. Untouched(p)
    BY <1>1, <1>7, <2>2 DEF TakeSnapshot, Untouched, TypeOK
  <2> QED
    BY <1>2, <1>4, <1>7, <2>1, <2>3
<1>8. ASSUME \/ \E v \in Workers : WorkerStep(v) \/ AgentStep(v)
             \/ UNCHANGED vars,
             ~\E r \in Sequences : ReserveAdmission(r)
      PROVE  Owned(p, w, s)'
  <2>1. p \in daemon[w].open[s]
    BY <1>8, OutsideOpens
  <2>2. Untouched(p)
    BY <1>8, OutsideUntouched DEF sequenceVars, Untouched
  <2> QED
    BY <1>2, <1>4, <1>8, <2>1, <2>2
<1>9. ASSUME NEW m \in inFlight, Deliver(m), ~\E r \in Sequences : ReserveAdmission(r)
      PROVE  Owned(p, w, s)'
  <2>1. Untouched(p)
    BY <1>9, DeliverDaemons DEF sequenceVars, Untouched
  <2>2. Owned(p, w, s)
    <3>1. CASE p \notin daemon[w].open[s]
      BY <1>1, <1>3, <1>9, <3>1, DeliverOpens DEF Owned, Closing
    <3> QED
      BY <1>2, <3>1
  <2> QED
    BY <1>4, <1>9, <2>1, <2>2
<1> QED
  BY <1>5, <1>6, <1>7, <1>8, <1>9, StepKinds

-----------------------------------------------------------------------------
(***************************************************************************)
(* A status that is ordered after a cleanup reports what it left open.     *)
(***************************************************************************)

LEMMA InstanceKept ==
    ASSUME TypeOK, [Next]_vars, NEW w \in Workers, ~DaemonRestart(w)
    PROVE  DaemonKept(w)
<1>1. ASSUME NEW v \in Workers, WorkerRestart(v) \/ DaemonRestart(v) PROVE DaemonKept(w)
  BY <1>1 DEF WorkerRestart, DaemonRestart, DaemonKept, TypeOK, Daemon
<1>2. ASSUME NEW q \in Sequences, TakeSnapshot(q) \/ ReserveAdmission(q) PROVE DaemonKept(w)
  BY <1>2, AdmissionUntouched DEF TakeSnapshot, DaemonKept
<1>3. ASSUME NEW q \in Sequences, Progress(q) PROVE DaemonKept(w)
  BY <1>3, ProgressDaemons
<1>4. ASSUME NEW m \in inFlight, Deliver(m) PROVE DaemonKept(w)
  BY <1>4, DeliverDaemons
<1> QED
  BY <1>1, <1>2, <1>3, <1>4, AgentDaemons, StepKinds DEF WorkerStep, DaemonKept, vars

\* A sequence that is to be closed was already, or no status is ordered after its
\* cleanup yet.
LEMMA ClosingOrdered ==
    ASSUME TypeOK, Steady, ObservedInOrder, ObservationsBounded, CallsPlaced, [Next]_vars,
           NEW w \in Workers, NEW s \in Shards, NEW q \in Sequences,
           q \in daemon'[w].open[s], phase'[q] \in Closing
    PROVE  \/ /\ q \in daemon[w].open[s] /\ phase[q] \in Closing
              /\ stages'[q][w].cleanupObs = stages[q][w].cleanupObs
           \/ ObservationAfter(stages'[q][w].cleanupObs) > daemon[w].obs
<1>1. /\ daemon[w].obs \in Nat /\ daemon[w].obs < Unreconciled
      /\ Unreconciled \in Nat
  BY BelowUnreconciled, LedgerAssumption
<1>2. \/ q \in daemon[w].open[s]
      \/ Bound(q, w) /\ stages[q][w].shard = s /\ phase[q] = "running"
  BY StepOpens
<1>3. phase[q] \in Unplaced \cup Opening => stages[q][w].cleanupObs = 0
  BY DEF ObservedInOrder, InOrder
<1>4. /\ ObservationAfter(0) > daemon[w].obs
      /\ ObservationAfter(daemon[w].obs + 1) > daemon[w].obs
  BY <1>1 DEF ObservationAfter
<1>5. phase[q] \in Closing => q \in daemon[w].open[s]
  BY <1>2 DEF Closing
<1>6. ASSUME Progress(q)
      PROVE  \/ /\ phase[q] \in Closing
                /\ stages'[q][w].cleanupObs = stages[q][w].cleanupObs
             \/ stages'[q][w].cleanupObs \in {0, daemon[w].obs + 1}
  <2>1. StageKept(q, w) /\ PhaseMoves(q) /\ phase[q] \in Phases
    BY <1>6, ProgressStages, ProgressPhase DEF TypeOK
  <2> QED
    BY <1>3, <2>1 DEF StageKept, PhaseMoves, Phases, Holding, Unplaced, Opening, Closing
<1>7. ASSUME Untouched(q)
      PROVE  phase[q] \in Closing /\ stages'[q][w].cleanupObs = stages[q][w].cleanupObs
  BY <1>7 DEF Untouched
<1>8. ASSUME NEW r \in Sequences, ReserveAdmission(r), r = q
      PROVE  stages'[q][w].cleanupObs = 0
  BY <1>3, <1>8, AdmissionPlaces, AdmissionUntouched DEF Unplaced
<1>9. ASSUME NEW r \in Sequences, TakeSnapshot(r) PROVE Untouched(q)
  BY <1>9 DEF TakeSnapshot, TypeOK, Untouched, Closing
<1>10. ASSUME UNCHANGED sequenceVars PROVE Untouched(q)
  BY <1>10 DEF Untouched, sequenceVars
<1>11. \/ Progress(q) \/ Untouched(q)
       \/ \E r \in Sequences : ReserveAdmission(r) /\ r = q
  BY <1>9, <1>10, StepKinds, OutsideUntouched, ProgressUntouched, AdmissionUntouched
<1> QED
  BY <1>4, <1>5, <1>6, <1>7, <1>8, <1>11

\* What StatusTrue says after the step of a status that stays.
StillTrue(w, status) ==
    /\ status.obs <= daemon'[w].obs
    /\ \A s \in Shards : \A q \in daemon'[w].open[s] :
         /\ phase'[q] \in Closing
         /\ status.obs >= ObservationAfter(stages'[q][w].cleanupObs)
         => q \in status.open[s]

LEMMA StatusKept ==
    ASSUME TypeOK, TypeOK', Steady, ObservedInOrder, ObservationsBounded, CallsPlaced,
           [Next]_vars, NEW w \in Workers, ~DaemonRestart(w),
           NEW status \in Status, StatusTrue(w, status)
    PROVE  StillTrue(w, status)
<1>1. /\ status.obs \in Nat /\ daemon[w].obs \in Nat
      /\ daemon'[w].obs \in {daemon[w].obs, daemon[w].obs + 1}
  BY InstanceKept DEF DaemonKept, TypeOK, Daemon, Status, Observation
<1>2. status.obs <= daemon'[w].obs
  BY <1>1 DEF StatusTrue
<1>3. ASSUME NEW s \in Shards, NEW q \in daemon'[w].open[s], phase'[q] \in Closing,
             status.obs >= ObservationAfter(stages'[q][w].cleanupObs)
      PROVE  q \in status.open[s]
  <2>1. q \in Sequences
    BY DEF TypeOK, Daemon
  <2>2. stages'[q][w].cleanupObs \in Nat
    BY <2>1 DEF TypeOK, Stage, Observation
  <2>3. ObservationAfter(stages'[q][w].cleanupObs) \in Nat
    BY <2>2, LedgerAssumption DEF ObservationAfter
  <2>4. \/ /\ q \in daemon[w].open[s] /\ phase[q] \in Closing
           /\ stages'[q][w].cleanupObs = stages[q][w].cleanupObs
        \/ ObservationAfter(stages'[q][w].cleanupObs) > daemon[w].obs
    BY <1>3, <2>1, ClosingOrdered
  <2>5. ~(ObservationAfter(stages'[q][w].cleanupObs) > daemon[w].obs)
    BY <1>1, <1>3, <2>3 DEF StatusTrue
  <2> QED
    BY <1>3, <2>4, <2>5 DEF StatusTrue
<1> QED
  BY <1>2, <1>3 DEF StillTrue

\* Where the statuses of a worker come from: a probe, the agent's cache, membership.
LEMMA StatusMoves ==
    ASSUME TypeOK, [Next]_vars, NEW w \in Workers, ~DaemonRestart(w)
    PROVE  /\ \/ cached'[w] = cached[w]
              \/ probing[w] # Absent /\ cached'[w] = probing[w]
           /\ probing'[w] \in {probing[w], Absent, Sampled(daemon'[w])}
           /\ \/ membership'[w] \in {membership[w], Absent}
              \/ membership'[w].status = cached[w]
           /\ \A p \in Sequences : phase'[p] = "planning" =>
                \/ phase[p] = "planning" /\ view'[p][w] = view[p][w]
                \/ view'[p][w] = membership[w]
<1> DEFINE Agent == /\ \/ cached'[w] = cached[w]
                       \/ probing[w] # Absent /\ cached'[w] = probing[w]
                    /\ probing'[w] \in {probing[w], Absent, Sampled(daemon'[w])}
                    /\ \/ membership'[w] \in {membership[w], Absent}
                       \/ membership'[w].status = cached[w]
           Views == \A p \in Sequences : phase'[p] = "planning" =>
                \/ phase[p] = "planning" /\ view'[p][w] = view[p][w]
                \/ view'[p][w] = membership[w]
<1>1. UNCHANGED agentVars => Agent
  BY DEF agentVars
<1>2. UNCHANGED sequenceVars => Views
  BY DEF sequenceVars
<1>3. ASSUME NEW v \in Workers, WorkerRestart(v) \/ DaemonRestart(v) PROVE Agent
  BY <1>1, <1>3 DEF WorkerRestart, DaemonRestart, TypeOK
<1>4. ASSUME NEW v \in Workers, Probe(v) PROVE Agent
  <2>1. probing' = [probing EXCEPT ![v] = Sampled(daemon'[v])]
        /\ cached' = cached /\ membership' = membership
    BY <1>4 DEF Probe
  <2>2. v = w => probing'[w] = Sampled(daemon'[w])
    BY <2>1 DEF TypeOK
  <2>3. v # w => probing'[w] = probing[w]
    BY <2>1 DEF TypeOK
  <2> QED
    BY <2>1, <2>2, <2>3
<1>5. ASSUME NEW v \in Workers, RecordStatus(v) PROVE Agent
  BY <1>5 DEF RecordStatus, TypeOK
<1>6. ASSUME NEW v \in Workers, Heartbeat(v) PROVE Agent
  <2>1. /\ membership' = [membership EXCEPT ![v].status = cached[v], ![v].fresh = TRUE]
        /\ ~Departed(membership, v, daemon[v].instance)
        /\ probing' = probing /\ cached' = cached
    BY <1>6 DEF Heartbeat
  <2>2. membership[v] \in Member
    BY <2>1 DEF TypeOK, Inventory, Departed
  <2>3. v = w => membership'[w].status = cached[w]
    BY <2>1, <2>2 DEF TypeOK, Inventory, Member
  <2>4. v # w => membership'[w] = membership[w]
    BY <2>1 DEF TypeOK, Inventory
  <2> QED
    BY <2>1, <2>3, <2>4
<1>7. ASSUME NEW v \in Workers, LeaseEnds(v) PROVE Agent
  BY <1>7 DEF LeaseEnds, TypeOK, Inventory
<1>8. ASSUME NEW v \in Workers, Register(v) PROVE Agent
  BY <1>8 DEF Register, TypeOK, Inventory
<1>9. ASSUME NEW q \in Sequences, TakeSnapshot(q) PROVE Agent /\ Views
  BY <1>1, <1>9 DEF TakeSnapshot, TypeOK
<1>10. ASSUME NEW q \in Sequences, Progress(q) \/ ReserveAdmission(q) PROVE Agent /\ Views
  <2>1. /\ \A p \in Sequences \ {q} : Untouched(p)
        /\ UNCHANGED agentVars
    BY <1>10, ProgressUntouched, AdmissionUntouched
  <2>2. phase'[q] # "planning"
    BY <1>10, ProgressPhase, AdmissionPlaces DEF PhaseMoves, Unplaced
  <2> QED
    BY <1>1, <2>1, <2>2 DEF Untouched
<1>11. ASSUME NEW m \in inFlight, Deliver(m) PROVE Agent
  BY <1>1, <1>11, DeliverDaemons
<1> HIDE DEF Agent, Views
<1>12. Agent
  BY <1>1, <1>3, <1>4, <1>5, <1>6, <1>7, <1>8, <1>9, <1>10, <1>11, StepKinds
     DEF WorkerStep, AgentStep, vars
<1>13. Views
  BY <1>2, <1>9, <1>10, StepKinds, OutsideUntouched
<1> QED
  BY <1>12, <1>13 DEF Agent, Views

LEMMA NextStatusesTrue ==
    ASSUME TypeOK, TypeOK', Steady, QuarantineInv, [Next]_vars
    PROVE  StatusesTrue'
<1> SUFFICES ASSUME NEW w \in Workers
             PROVE  /\ StatusTrue(w, cached[w])'
                    /\ probing'[w] # Absent => StatusTrue(w, probing[w])'
                    /\ Current(membership, w)' => StatusTrue(w, membership[w].status)'
                    /\ \A p \in Sequences : phase'[p] = "planning" /\ Current(view[p], w)' =>
                         StatusTrue(w, view[p][w].status)'
  BY DEF StatusesTrue
<1>1. /\ ObservedInOrder /\ ObservationsBounded /\ CallsPlaced /\ InstancesInOrder
      /\ StatusesTrue
  BY DEF QuarantineInv
<1>2. CASE DaemonRestart(w)
  <2>1. /\ daemon'[w] = NewDaemon(daemon[w].instance + 1)
        /\ cached'[w] = Sampled(daemon'[w]) /\ probing'[w] = Absent
        /\ membership' = membership /\ phase' = phase /\ view' = view
    <3>1. /\ daemon' = [daemon EXCEPT ![w] = NewDaemon(daemon[w].instance + 1)]
          /\ cached' = [cached EXCEPT ![w] = Sampled(daemon'[w])]
          /\ probing' = [probing EXCEPT ![w] = Absent]
      BY ZenonT(30), <1>2 DEF DaemonRestart
    <3>2. membership' = membership /\ phase' = phase /\ view' = view
      BY <1>2 DEF DaemonRestart, sequenceVars
    <3> QED
      BY <3>1, <3>2 DEF TypeOK
  <2>2. StatusTrue(w, cached[w])'
    <3>1. cached'[w].obs = 1 /\ daemon'[w].obs = 1 /\ daemon'[w].open = NothingOpen
      BY <2>1 DEF Sampled, NewDaemon
    <3>2. \A s \in Shards : daemon'[w].open[s] = {}
      BY <3>1 DEF NothingOpen
    <3> QED
      BY <3>1, <3>2 DEF StatusTrue
  <2>3. Instances \subseteq Nat
    BY LedgerAssumption
  <2>4. \A i \in Nat : i <= daemon[w].instance => i # daemon'[w].instance
    <3> DEFINE now == daemon[w].instance
               next == daemon'[w].instance
    <3>1. now \in Instances
      BY DEF TypeOK, Daemon
    <3>2. next = now + 1
      BY <2>1 DEF NewDaemon
    <3>3. now \in Nat
      BY <2>3, <3>1
    <3> HIDE DEF now, next
    <3>4. \A i \in Nat : i <= now => i # next
      BY <3>2, <3>3
    <3> QED
      BY <3>4 DEF now, next
  <2>5. ~Current(membership, w)'
    <3>1. membership[w] # Absent => membership[w].instance \in Nat
      <4>1. membership[w] # Absent => membership[w].instance \in Instances
        BY DEF TypeOK, Inventory, Member
      <4> QED
        BY <2>3, <4>1
    <3> QED
      BY <1>1, <2>1, <2>4, <3>1 DEF InstancesInOrder, Current, Departed
  <2>6. ASSUME NEW p \in Sequences, phase'[p] = "planning" PROVE ~Current(view[p], w)'
    <3>1. view[p][w] # Absent => view[p][w].instance \in Nat
      <4>1. view[p][w] # Absent => view[p][w].instance \in Instances
        BY DEF TypeOK, Inventory, Member
      <4> QED
        BY <2>3, <4>1
    <3> QED
      BY <1>1, <2>1, <2>4, <2>6, <3>1 DEF InstancesInOrder, Current, Departed
  <2> QED
    BY <2>1, <2>2, <2>5, <2>6
<1>3. CASE ~DaemonRestart(w)
  <2>1. \A status \in Status : StatusTrue(w, status) => StillTrue(w, status)
    BY <1>1, <1>3, StatusKept
  <2>2. daemon'[w].instance = daemon[w].instance
    BY <1>3, InstanceKept DEF DaemonKept
  <2>3. StillTrue(w, cached[w])
    BY <1>1, <2>1 DEF StatusesTrue, TypeOK
  <2>4. probing[w] # Absent => StillTrue(w, probing[w])
    BY <1>1, <2>1 DEF StatusesTrue, TypeOK
  <2>5. Current(membership, w) => StillTrue(w, membership[w].status)
    <3>1. Current(membership, w) => membership[w].status \in Status
      BY DEF Current, Departed, TypeOK, Inventory, Member
    <3> QED
      BY <1>1, <2>1, <3>1 DEF StatusesTrue
  <2>6. ASSUME NEW p \in Sequences, phase[p] = "planning", Current(view[p], w)
        PROVE  StillTrue(w, view[p][w].status)
    <3>1. view[p][w].status \in Status
      BY <2>6 DEF Current, Departed, TypeOK, Inventory, Member
    <3> QED
      BY <1>1, <2>1, <2>6, <3>1 DEF StatusesTrue
  <2>7. StillTrue(w, Sampled(daemon'[w]))
    <3>1. daemon'[w] \in Daemon
      BY DEF TypeOK
    <3> QED
      BY <3>1 DEF StillTrue, Sampled, Daemon, Observation
  <2>8. StillTrue(w, cached'[w])
    BY <1>3, <2>3, <2>4, StatusMoves
  <2>9. probing'[w] # Absent => StillTrue(w, probing'[w])
    BY <1>3, <2>4, <2>7, StatusMoves
  <2>10. Current(membership, w)' => StillTrue(w, membership'[w].status)
    BY <1>3, <2>2, <2>3, <2>5, StatusMoves DEF Current, Departed
  <2>11. ASSUME NEW p \in Sequences, phase'[p] = "planning", Current(view[p], w)'
         PROVE  StillTrue(w, view'[p][w].status)
    <3>1. \/ phase[p] = "planning" /\ view'[p][w] = view[p][w]
          \/ view'[p][w] = membership[w]
      BY <1>3, <2>11, StatusMoves
    <3> QED
      BY <2>2, <2>5, <2>6, <2>11, <3>1 DEF Current, Departed
  <2> QED
    BY <2>8, <2>9, <2>10, <2>11 DEF StatusTrue, StillTrue
<1> QED
  BY <1>2, <1>3

-----------------------------------------------------------------------------
(***************************************************************************)
(* What is open and what is still to open fits a shard.                    *)
(***************************************************************************)

LEMMA UnionBounded ==
    ASSUME NEW S, NEW T, IsFiniteSet(S), IsFiniteSet(T)
    PROVE  /\ IsFiniteSet(S \cup T)
           /\ Cardinality(S \cup T) <= Cardinality(S) + Cardinality(T)
<1>1. IsFiniteSet(S \cap T)
  BY FS_Subset
<1>2. Cardinality(S) \in Nat /\ Cardinality(T) \in Nat /\ Cardinality(S \cap T) \in Nat
  BY <1>1, FS_CardinalityType
<1>3. /\ IsFiniteSet(S \cup T)
      /\ Cardinality(S \cup T) = Cardinality(S) + Cardinality(T) - Cardinality(S \cap T)
  BY FS_Union
<1> QED
  BY <1>2, <1>3

LEMMA ClaimsFinite ==
    ASSUME TypeOK, NEW w \in Workers, NEW s \in Shards
    PROVE  /\ SlotClaims(w, s) \subseteq Sequences
           /\ IsFiniteSet(SlotClaims(w, s))
           /\ Cardinality(SlotClaims(w, s)) \in Nat
<1>1. SlotClaims(w, s) \subseteq Sequences
  BY DEF SlotClaims, TypeOK, Daemon
<1>2. IsFiniteSet(SlotClaims(w, s))
  BY <1>1, LedgerAssumption, FS_Subset
<1> QED
  BY <1>1, <1>2, FS_CardinalityType

\* A sequence is quarantined once.
LEMMA QuarantineCounts ==
    ASSUME TypeOK, QuarantineOrdered,
           NEW w \in Workers, NEW i \in Instances, NEW s \in Shards,
           NEW P \in SUBSET reservations[w][i][s].poisoned
    PROVE  LET owners == {q \in Sequences : \E e \in P : e.owner = q}
           IN  /\ IsFiniteSet(owners) /\ IsFiniteSet(P)
               /\ Cardinality(owners) <= Cardinality(P)
<1> DEFINE owners == {q \in Sequences : \E e \in P : e.owner = q}
           minimum(q) == ObservationAfter(stages[q][w].cleanupObs)
           entry == [q \in owners |-> [owner |-> q, minimum |-> minimum(q)]]
           owner == [e \in P |-> e.owner]
<1>1. \A e \in P : e \in Poison /\ e.minimum = minimum(e.owner)
  BY DEF TypeOK, LedgerTypeOK, Slots, Slot, QuarantineOrdered
<1>2. \A e \in P : e = [owner |-> e.owner, minimum |-> minimum(e.owner)]
  BY <1>1 DEF Poison
<1> HIDE DEF minimum
<1>3. owner \in Injection(P, Sequences)
  <2>1. owner \in [P -> Sequences]
    BY <1>1 DEF Poison
  <2>2. \A a, b \in P : owner[a] = owner[b] => a = b
    BY <1>2
  <2> QED
    BY <2>1, <2>2 DEF Injection, IsInjective
<1>4. IsFiniteSet(P)
  BY <1>3, LedgerAssumption, FS_Injection
<1>5. entry \in Injection(owners, P)
  <2>1. entry \in [owners -> P]
    BY <1>2
  <2>2. \A a, b \in owners : entry[a] = entry[b] => a = b
    OBVIOUS
  <2> QED
    BY <2>1, <2>2 DEF Injection, IsInjective
<1>6. IsFiniteSet(owners) /\ Cardinality(owners) <= Cardinality(P)
  BY <1>4, <1>5, FS_Injection
<1> QED
  BY <1>4, <1>6

\* Only an admission claims a slot that was not claimed.
LEMMA ClaimsKept ==
    ASSUME TypeOK, TypeOK', Steady, CallsPlaced, [Next]_vars,
           NEW w \in Workers, NEW s \in Shards, ~DaemonRestart(w),
           NEW q \in SlotClaims(w, s)', ~ReserveAdmission(q)
    PROVE  q \in SlotClaims(w, s)
<1>1. q \in Sequences
  BY DEF SlotClaims, TypeOK, Daemon
<1>2. daemon'[w].instance = daemon[w].instance
  BY InstanceKept DEF DaemonKept
<1>3. ASSUME q \in daemon'[w].open[s] PROVE q \in SlotClaims(w, s)
  BY <1>1, <1>3, StepOpens DEF SlotClaims, Opening
<1>4. ASSUME phase'[q] \in Opening, Bound(q, w)', stages'[q][w].shard = s
      PROVE  q \in SlotClaims(w, s)
  <2>1. ASSUME Progress(q)
        PROVE  /\ phase[q] \in Opening
               /\ stages[q][w].shard = stages'[q][w].shard
               /\ stages[q][w].instance = stages'[q][w].instance
    BY <1>1, <1>4, <2>1, ProgressPhase, ProgressStages DEF PhaseMoves, StageKept
  <2>2. ASSUME Untouched(q)
        PROVE  /\ phase[q] \in Opening
               /\ stages[q][w].shard = stages'[q][w].shard
               /\ stages[q][w].instance = stages'[q][w].instance
    BY <1>4, <2>2 DEF Untouched
  <2>3. ASSUME NEW r \in Sequences, TakeSnapshot(r) PROVE Untouched(q)
    BY <1>1, <1>4, <2>3 DEF TakeSnapshot, TypeOK, Untouched, Opening
  <2>4. ASSUME UNCHANGED sequenceVars PROVE Untouched(q)
    BY <2>4 DEF Untouched, sequenceVars
  <2>5. Progress(q) \/ Untouched(q)
    BY <1>1, <2>3, <2>4, StepKinds, OutsideUntouched, ProgressUntouched, AdmissionUntouched
  <2>6. /\ phase[q] \in Opening
        /\ stages[q][w].shard = stages'[q][w].shard
        /\ stages[q][w].instance = stages'[q][w].instance
    BY <2>1, <2>2, <2>5
  <2> QED
    BY <1>1, <1>2, <1>4, <2>6 DEF SlotClaims, Bound, Reaches, Stages, Placed
<1> QED
  BY <1>3, <1>4 DEF SlotClaims

\* What the scheduler counts against a new stage covers every slot that is claimed.
LEMMA AdmissionFits ==
    ASSUME TypeOK, TypeOK', QuarantineInv, LedgerMatchesHolders,
           NEW q \in Sequences, ReserveAdmission(q), NEW w \in Workers, NEW s \in Shards,
           q \in SlotClaims(w, s)'
    PROVE  Cardinality(SlotClaims(w, s)) < MaxOpenPerShard
<1> DEFINE i == daemon[w].instance
           slot == Reconciled(view[q]).slots[w][i][s]
           P == ReconciledPoison(view[q], w, i, s, reservations[w][i][s].poisoned)
           owners == {p \in Sequences : \E e \in P : e.owner = p}
           holders == ShardHolders(w, i, s)
           reported == view[q][w].status.open[s]
<1>1. i \in Instances
  BY DEF TypeOK, Daemon
<1>2. daemon' = daemon /\ phase[q] = "planning"
  BY AdmissionUntouched
<1>3. q \notin daemon[w].open[s]
  BY <1>2 DEF QuarantineInv, OpenOwned, Owned, Closing
<1>4. phase'[q] \in Opening /\ Bound(q, w)' /\ stages'[q][w].shard = s
  BY <1>2, <1>3 DEF SlotClaims
<1>5. PICK place \in [Workers -> Shards \cup {NoShard}] :
        /\ Admits(q, place)
        /\ stages'[q] = PlannedStages(view[q], place)
        /\ stages'[q][w].shard = place[w]
        /\ w \in Placed(stages'[q]) =>
             view[q][w] # Absent /\ stages'[q][w].instance = view[q][w].instance
  BY <1>4, AdmissionPlaces DEF Opening
<1>6. /\ w \in Placed(PlannedStages(view[q], place)) /\ place[w] = s
      /\ PlannedStages(view[q], place)[w].instance = i
      /\ view[q][w] # Absent
  BY <1>2, <1>4, <1>5 DEF Bound, Reaches, Stages
<1>7. HasShardSlot(slot, view[q][w].status, s)
  <2>1. StageFits(slot, Reconciled(view[q]).hosts[w][i], view[q][w], s,
                  PlannedStages(view[q], place)[w].loads)
    BY <1>5, <1>6 DEF Admits
  <2> QED
    BY <2>1 DEF StageFits
<1>8. slot.active = Cardinality(holders) /\ slot.poisoned = P
  <2>1. slot.active = Cardinality(holders)
    BY <1>1, ReconciledKeeps DEF LedgerMatchesHolders
  <2>2. slot = [reservations[w][i][s] EXCEPT !.poisoned = P]
    BY <1>1, ReconciledSlot
  <2>3. reservations[w][i][s] \in Slot
    BY <1>1 DEF TypeOK, LedgerTypeOK, Slots
  <2> HIDE DEF P, slot, holders
  <2>4. slot.poisoned = P
    BY <2>2, <2>3 DEF Slot
  <2> QED
    BY <2>1, <2>4
<1>9. SlotClaims(w, s) \subseteq holders \cup owners
  <2> SUFFICES ASSUME NEW p \in SlotClaims(w, s), p \notin holders
               PROVE  p \in owners
    OBVIOUS
  <2>1. p \in Sequences
    BY ClaimsFinite
  <2>2. p \in daemon[w].open[s]
    BY <2>1 DEF SlotClaims, ShardHolders, Opening, Holding, OnShard, Bound, Reaches
  <2>3. Owned(p, w, s)
    BY <2>2 DEF QuarantineInv, OpenOwned
  <2>4. phase[p] = "done" /\ Bound(p, w) /\ Quarantined(p, w, s)
    BY <2>1, <2>3 DEF Owned, ShardHolders, Closing, Holding, OnShard, Bound, Reaches
  <2>5. Quarantined(p, w, s)'
    BY <2>1, <2>2, <2>4, AdmissionQuarantines
  <2>6. reservations'[w][i][s].poisoned = P
    BY <1>1, AdmissionPoison
  <2>7. \E e \in P : e.owner = p
    BY <1>2, <2>5, <2>6 DEF Quarantined
  <2> QED
    BY <2>1, <2>7
<1>10. /\ IsFiniteSet(owners) /\ IsFiniteSet(P)
       /\ Cardinality(owners) <= Cardinality(P)
  <2>1. P \in SUBSET reservations[w][i][s].poisoned
    BY DEF ReconciledPoison
  <2> HIDE DEF P
  <2> QED
    BY <1>1, <2>1, QuarantineCounts DEF QuarantineInv
<1>11. IsFiniteSet(reported)
  <2>1. view[q][w] \in Member
    BY <1>6 DEF TypeOK, Inventory
  <2>2. reported \subseteq Sequences
    BY <2>1 DEF Member, Status
  <2> QED
    BY <2>2, LedgerAssumption, FS_Subset
<1>12. IsFiniteSet(holders)
  BY HoldersFinite
<1>13. Cardinality(reported) + Cardinality(holders) + Cardinality(P) < MaxOpenPerShard
  BY <1>7, <1>8 DEF HasShardSlot
<1> HIDE DEF i, slot, P, owners, holders, reported
<1>14. /\ IsFiniteSet(holders \cup owners)
       /\ Cardinality(holders \cup owners) <= Cardinality(holders) + Cardinality(owners)
  BY <1>10, <1>12, UnionBounded
<1>15. Cardinality(SlotClaims(w, s)) <= Cardinality(holders \cup owners)
  BY <1>9, <1>14, FS_Subset
<1>16. /\ Cardinality(reported) \in Nat /\ Cardinality(holders) \in Nat
       /\ Cardinality(P) \in Nat /\ Cardinality(owners) \in Nat
       /\ Cardinality(holders \cup owners) \in Nat
       /\ Cardinality(SlotClaims(w, s)) \in Nat /\ MaxOpenPerShard \in Nat
  BY <1>10, <1>11, <1>12, <1>14, FS_CardinalityType, ClaimsFinite, LedgerAssumption
<1> QED
  BY <1>10, <1>13, <1>14, <1>15, <1>16

LEMMA NextSlotsFit ==
    ASSUME TypeOK, TypeOK', Steady, QuarantineInv, LedgerMatchesHolders, [Next]_vars
    PROVE  SlotsFit'
<1> SUFFICES ASSUME NEW w \in Workers, NEW s \in Shards
             PROVE  Cardinality(SlotClaims(w, s)') <= MaxOpenPerShard
  BY DEF SlotsFit
<1> DEFINE claims == SlotClaims(w, s)
           claimed == SlotClaims(w, s)'
<1>1. /\ IsFiniteSet(claims) /\ Cardinality(claims) \in Nat
      /\ IsFiniteSet(claimed) /\ Cardinality(claimed) \in Nat
      /\ claimed \subseteq Sequences
      /\ MaxOpenPerShard \in Nat /\ Cardinality(claims) <= MaxOpenPerShard
  <2>1. claimed \subseteq Sequences
    BY DEF SlotClaims, TypeOK, Daemon
  <2>2. IsFiniteSet(claimed) /\ Cardinality(claimed) \in Nat
    BY <2>1, LedgerAssumption, FS_Subset, FS_CardinalityType
  <2> QED
    BY <2>1, <2>2, ClaimsFinite, LedgerAssumption DEF QuarantineInv, SlotsFit
<1>2. CASE DaemonRestart(w)
  <2>1. /\ daemon'[w] = NewDaemon(daemon[w].instance + 1)
        /\ phase' = phase /\ stages' = stages
    BY <1>2 DEF DaemonRestart, TypeOK, sequenceVars
  <2>2. daemon'[w].open[s] = {}
    BY <2>1 DEF NewDaemon, NothingOpen
  <2>3. \A q \in Sequences : ~Bound(q, w)'
    <3>1. daemon'[w].instance = daemon[w].instance + 1
      BY <2>1 DEF NewDaemon
    <3>2. daemon[w].instance \in Nat
      <4>1. daemon[w].instance \in Instances
        BY DEF TypeOK, Daemon
      <4> QED
        BY <4>1, LedgerAssumption
    <3>3. \A q \in Sequences : w \in Stages(q) => stages[q][w].instance <= daemon[w].instance
      BY DEF QuarantineInv, InstancesInOrder
    <3>4. \A q \in Sequences : w \in Stages(q) => stages[q][w].instance # daemon'[w].instance
      <4>1. \A q \in Sequences : stages[q][w].instance \in Nat
        <5>1. \A q \in Sequences : stages[q][w].instance \in Instances
          BY DEF TypeOK, Stage
        <5> QED
          BY <5>1, LedgerAssumption
      <4> QED
        BY <3>1, <3>2, <3>3, <4>1
    <3> QED
      BY <2>1, <3>4 DEF Bound, Reaches, Stages
  <2>4. claimed = {}
    BY <2>2, <2>3 DEF SlotClaims
  <2> QED
    BY <1>1, <2>4, FS_EmptySet
<1>3. ASSUME ~DaemonRestart(w), NEW q \in claimed, ReserveAdmission(q)
      PROVE  Cardinality(claimed) <= MaxOpenPerShard
  <2>1. q \in Sequences /\ Cardinality(claims) < MaxOpenPerShard
    BY <1>1, <1>3, AdmissionFits
  <2>2. \A p \in claimed : p # q => p \in claims
    <3> SUFFICES ASSUME NEW p \in claimed, p # q, p \notin claims PROVE FALSE
      OBVIOUS
    <3>1. ReserveAdmission(p)
      BY <1>3, ClaimsKept DEF QuarantineInv
    <3>2. p \in Sequences
      BY <1>1
    <3>3. phase'[p] # phase[p]
      <4>1. phase[p] = "planning" /\ phase'[p] \in {"done", "setup"}
        BY <3>1, <3>2, AdmissionPlaces, AdmissionUntouched
      <4> QED
        BY <4>1
    <3>4. phase'[p] = phase[p]
      BY <1>3, <2>1, <3>2, AdmissionUntouched DEF Untouched
    <3> QED
      BY <3>3, <3>4
  <2>3. claimed \subseteq claims \cup {q}
    BY <2>2
  <2> HIDE DEF claims, claimed
  <2>4. /\ IsFiniteSet(claims \cup {q})
        /\ Cardinality(claims \cup {q}) <= Cardinality(claims) + 1
    <3>1. CASE q \in claims
      <4>1. claims \cup {q} = claims
        BY <3>1
      <4>2. Cardinality(claims) <= Cardinality(claims) + 1
        BY <1>1
      <4> QED
        BY <1>1, <4>1, <4>2
    <3>2. CASE q \notin claims
      <4>1. Cardinality(claims \cup {q}) = Cardinality(claims) + 1
        BY <1>1, <3>2, CountAdded
      <4>2. IsFiniteSet(claims \cup {q})
        BY <1>1, FS_AddElement
      <4> QED
        BY <1>1, <4>1, <4>2
    <3> QED
      BY <3>1, <3>2
  <2>5. Cardinality(claimed) <= Cardinality(claims \cup {q})
    BY <2>3, <2>4, FS_Subset
  <2>6. Cardinality(claims \cup {q}) \in Nat
    BY <2>4, FS_CardinalityType
  <2> QED
    BY <1>1, <2>1, <2>4, <2>5, <2>6
<1>4. ASSUME ~DaemonRestart(w), ~\E q \in claimed : ReserveAdmission(q)
      PROVE  Cardinality(claimed) <= MaxOpenPerShard
  <2>1. claimed \subseteq claims
    BY <1>4, ClaimsKept DEF QuarantineInv
  <2>2. Cardinality(claimed) <= Cardinality(claims)
    BY <1>1, <2>1, FS_Subset
  <2> HIDE DEF claims, claimed
  <2> QED
    BY <1>1, <2>2
<1> QED
  BY <1>2, <1>3, <1>4

-----------------------------------------------------------------------------
(***************************************************************************)
(* The theorems.                                                           *)
(***************************************************************************)

LEMMA InitQuarantine == Init => QuarantineInv
<1> SUFFICES ASSUME Init PROVE QuarantineInv
  OBVIOUS
<1>1. /\ \A q \in Sequences : phase[q] = "idle" /\ Stages(q) = {}
      /\ \A q \in Sequences, w \in Workers :
           stages[q][w].setupObs = 0 /\ stages[q][w].cleanupObs = 0
  BY DEF Init, Stages, Placed, NoStage
<1>2. \A w \in Workers :
        /\ daemon[w].instance = 1 /\ daemon[w].obs = 1
        /\ \A s \in Shards : daemon[w].open[s] = {}
        /\ cached[w].obs = 1 /\ probing[w] = Absent
  BY DEF Init, NewDaemon, NothingOpen, Sampled
<1>3. \A w \in Workers :
        /\ membership[w] # Absent /\ membership[w].instance = 1
        /\ membership[w].status.obs = 1
  <2>1. \A w \in Workers : membership[w] = Join(NewDaemon(1))
    BY DEF Init
  <2>2. Join(NewDaemon(1)) # Absent
    <3>1. NewDaemon(1) \in Daemon /\ Sampled(NewDaemon(1)) \in Status
      BY NewDaemonType, LedgerAssumption
    <3>2. Join(NewDaemon(1)) \in Member
      BY <3>1 DEF Join, Member, NewDaemon, Daemon
    <3> QED
      BY <3>2, NoConfusion
  <2> QED
    BY <2>1, <2>2 DEF Join, Sampled, NewDaemon
<1>4. \A w \in Workers, i \in Instances, s \in Shards : reservations[w][i][s].poisoned = {}
  BY DEF Init, LedgerInit
<1>5. \A w \in Workers, s \in Shards : SlotClaims(w, s) = {}
  BY <1>1, <1>2 DEF SlotClaims, Opening
<1>6. ObservedInOrder
  BY <1>1 DEF ObservedInOrder, InOrder, Unplaced
<1>7. ObservationsBounded
  <2> SUFFICES ASSUME NEW w \in Workers
               PROVE  1 <= 1 + MaxProbed + Cardinality(SetupObserved(w))
                                         + Cardinality(CleanupObserved(w))
    BY <1>2 DEF ObservationsBounded
  <2>1. Cardinality(SetupObserved(w)) \in Nat /\ Cardinality(CleanupObserved(w)) \in Nat
    BY ObserversFinite
  <2> QED
    BY <2>1, SchedulerAssumption
<1>8. PlansAlone /\ OldViewsAreEmpty
  BY <1>1 DEF PlansAlone, OldViewsAreEmpty
<1>9. InstancesInOrder /\ NeverDeparted
  BY <1>1, <1>2, <1>3 DEF InstancesInOrder, NeverDeparted, Current, Departed, Bound
<1>10. CallsPlaced /\ OpenOwned /\ QuarantineOrdered
  BY <1>2, <1>4 DEF Init, CallsPlaced, OpenOwned, QuarantineOrdered
<1>11. StatusesTrue
  BY <1>1, <1>2, <1>3 DEF StatusesTrue, StatusTrue
<1>12. SlotsFit
  BY <1>5, FS_EmptySet, LedgerAssumption DEF SlotsFit
<1> QED
  BY <1>6, <1>7, <1>8, <1>9, <1>10, <1>11, <1>12 DEF QuarantineInv

LEMMA NextQuarantine ==
    ASSUME TypeOK, TypeOK', ProgressPlaced, LedgerMatchesHolders, Steady, QuarantineInv,
           [Next]_vars
    PROVE  QuarantineInv'
<1>1. ObservedInOrder' /\ ObservationsBounded'
  BY NextInOrder, NextObservations DEF QuarantineInv
<1>2. PlansAlone' /\ InstancesInOrder' /\ NeverDeparted' /\ OldViewsAreEmpty'
  BY NextListed DEF QuarantineInv, Listed
<1>3. CallsPlaced'
  BY NextCalls DEF QuarantineInv
<1>4. QuarantineOrdered'
  BY NextQuarantineOrdered DEF QuarantineInv
<1> QED
  BY <1>1, <1>2, <1>3, <1>4, NextOpenOwned, NextStatusesTrue, NextSlotsFit DEF QuarantineInv

\* Reservations, quarantine, statuses and daemons agree, in every reachable state.
THEOREM QuarantineKept == ASSUME Steady PROVE Spec => []QuarantineInv
<1>1. Init => QuarantineInv
  BY InitQuarantine
<1>2. Init => ProgressPlaced
  BY DEF Init, ProgressPlaced, Holding
<1>3. TypeOK /\ ProgressPlaced /\ [Next]_vars => ProgressPlaced'
  BY NextProgress
<1>4. /\ TypeOK /\ TypeOK' /\ ProgressPlaced /\ LedgerMatchesHolders /\ QuarantineInv
      /\ [Next]_vars
      => QuarantineInv'
  BY NextQuarantine
<1> QED
  BY <1>1, <1>2, <1>3, <1>4, TypeCorrect, LedgerExact, PTL DEF Spec

\* A sequence that an ambiguous cleanup left open on a worker is quarantined there
\* until the status in membership reports it (finishReservation,
\* reconcileReservationsLocked), when no abandoned call is late and no lease is lost.
THEOREM QuarantineSafe == ASSUME Steady PROVE Spec => []QuarantineCoversOpen
<1>1. QuarantineInv => QuarantineCoversOpen
  <2> SUFFICES ASSUME QuarantineInv, NEW w \in Workers, NEW s \in Shards, NEW q \in Sequences,
                      q \in daemon[w].open[s], phase[q] = "done"
               PROVE  \E p \in reservations[w][daemon[w].instance][s].poisoned : p.owner = q
    BY DEF QuarantineCoversOpen
  <2> QED
    BY DEF QuarantineInv, OpenOwned, Owned, Quarantined
<1> QED
  BY <1>1, QuarantineKept, PTL

\* No admitted sequence is turned away for want of a slot: what is open on a shard and
\* what is admitted to open there fit its limit together (reserveAdmission).
THEOREM ShardSlotsSafe == ASSUME Steady PROVE Spec => []ShardSlotsRespected
<1>1. TypeOK /\ QuarantineInv => ShardSlotsRespected
  <2> SUFFICES ASSUME TypeOK, QuarantineInv, NEW w \in Workers, NEW s \in Shards
               PROVE  Cardinality(daemon[w].open[s] \cup
                        {q \in Sequences : ToOpen(q, w) /\ stages[q][w].shard = s})
                        <= MaxOpenPerShard
    BY DEF ShardSlotsRespected
  <2> DEFINE expected == daemon[w].open[s] \cup
                         {q \in Sequences : ToOpen(q, w) /\ stages[q][w].shard = s}
  <2>1. expected \subseteq SlotClaims(w, s)
    BY DEF SlotClaims, ToOpen, Opening, Bound
  <2>2. IsFiniteSet(expected) /\ Cardinality(expected) <= Cardinality(SlotClaims(w, s))
    BY <2>1, ClaimsFinite, FS_Subset
  <2>3. Cardinality(expected) \in Nat /\ Cardinality(SlotClaims(w, s)) \in Nat
        /\ MaxOpenPerShard \in Nat /\ Cardinality(SlotClaims(w, s)) <= MaxOpenPerShard
    BY <2>2, FS_CardinalityType, ClaimsFinite, LedgerAssumption DEF QuarantineInv, SlotsFit
  <2> HIDE DEF expected
  <2>4. Cardinality(expected) <= MaxOpenPerShard
    BY <2>2, <2>3
  <2> QED
    BY <2>4 DEF expected
<1> QED
  BY <1>1, TypeCorrect, QuarantineKept, PTL
=============================================================================

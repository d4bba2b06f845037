--------------------------- MODULE AdmissionLedger ---------------------------
(***************************************************************************)
(* The admission bookkeeping of mesh.SequenceScheduler                     *)
(* (src/internal/mesh/scheduler.go): what one controller has reserved on   *)
(* every worker incarnation, and the four operations the scheduler's mutex *)
(* makes atomic: reconcile with a snapshot, test an admission, reserve it, *)
(* and release it.                                                         *)
(*                                                                         *)
(* The Go maps drop an entry that holds nothing; here it is the empty      *)
(* record, so a deletion is not an update of its own.  The slices          *)
(* poisonedAfter and pendingMemory are sets whose entries carry the        *)
(* sequence they come from: a sequence adds at most one entry to each      *)
(* slice, and only their lengths and minima are read.                      *)
(***************************************************************************)
EXTENDS Integers, FiniteSetsExt

CONSTANTS
    Workers,          \* worker IDs of the membership
    Instances,        \* daemon incarnations of one worker ID
    Shards,           \* shard IDs an execution plan can place
    Sequences,        \* calls of Prepare
    NoShard,          \* the shard of a worker that is not in a plan
    Absent,           \* a worker that is not in a snapshot
    Unreconciled,     \* ^uint64(0): the minimum no status ever reaches
    MaxOpenPerShard,  \* Admission.MaxOpenSequencesPerShard
    MaxRequests,      \* Admission.MaxConcurrentRequests
    RetainedBudget,   \* Admission.RetainedByteBudget
    Capacity,         \* the allocatable memory of a worker
    LoadBytes,        \* StageCostEstimate.LoadMemoryBytes
    SequenceBytes     \* StageCostEstimate.SequenceMemoryBytes

ASSUME LedgerAssumption ==
    /\ Instances \subseteq Nat /\ 1 \in Instances
    /\ NoShard \notin Shards
    /\ Unreconciled \in Nat /\ Unreconciled > 2
    /\ {MaxOpenPerShard, MaxRequests, LoadBytes, SequenceBytes} \subseteq Nat \ {0}
    /\ {RetainedBudget, Capacity} \subseteq Nat
    /\ IsFiniteSet(Sequences)

VARIABLES
    reservations,     \* [worker][instance][shard]: slots held on one shard
    workers           \* [worker][instance]: requests and bytes held on one worker

ledger == <<reservations, workers>>

\* workerObservationSequence; 0 is "not observed".
Observation == Nat

Poison == [owner : Sequences, minimum : Observation]

Pending == [owner : Sequences, available : Nat, retained : Nat, minimum : Observation]

\* registry.Status as the scheduler reads it.  open names the sequences a
\* shard reports; the code reads only how many there are.
Status == [obs : Observation, loaded : SUBSET Shards, open : [Shards -> SUBSET Sequences]]

\* registry.Worker; fresh is Worker.StatusFresh at the snapshot.
Member == [instance : Instances, status : Status, fresh : BOOLEAN]

\* A worker that is not listed is no record of one.
ASSUME NoConfusion == Absent \notin Member \cup Status

Inventory == [Workers -> Member \cup {Absent}]

\* sequenceReservationState and workerReservationState.
Slot == [active : Nat, poisoned : SUBSET Poison]

Host == [activeRequests : Nat, activeAvailable : Nat, activeRetained : Nat,
         pending : SUBSET Pending]

Slots == [Workers -> [Instances -> [Shards -> Slot]]]
Hosts == [Workers -> [Instances -> Host]]

LedgerTypeOK == reservations \in Slots /\ workers \in Hosts

LedgerInit ==
    /\ reservations = [w \in Workers |-> [i \in Instances |-> [s \in Shards |->
                         [active |-> 0, poisoned |-> {}]]]]
    /\ workers = [w \in Workers |-> [i \in Instances |->
                    [activeRequests |-> 0, activeAvailable |-> 0,
                     activeRetained |-> 0, pending |-> {}]]]

-----------------------------------------------------------------------------
\* subtractAvailable: unsigned subtraction that stops at zero.
Monus(a, b) == IF b >= a THEN 0 ELSE a - b

\* if counter > 0 { counter-- }
Decrement(n) == IF n > 0 THEN n - 1 ELSE n

ObservationAfter(n) == IF n \in {0, Unreconciled} THEN Unreconciled ELSE n + 1

OpenSequenceCount(status) == Cardinality(UNION {status.open[s] : s \in Shards})

\* membershipStatus: what the backend may still allocate, and what the open
\* sequences retain.
AvailableMemoryBytes(status) ==
    Monus(Capacity, LoadBytes * Cardinality(status.loaded)
                      + SequenceBytes * OpenSequenceCount(status))

RetainedBytes(status) == SequenceBytes * OpenSequenceCount(status)

\* reservedWorkerMemory: the bytes the pending entries of a worker hold.
PendingAvailable(pending) == MapThenSumSet(LAMBDA p : p.available, pending)
PendingRetained(pending) == MapThenSumSet(LAMBDA p : p.retained, pending)

-----------------------------------------------------------------------------
\* reconcileReservationsLocked: a snapshot frees what an incarnation that left
\* it still had quarantined, and what a status ordered after the operation
\* already reflects.
Departed(inventory, w, i) == inventory[w] = Absent \/ inventory[w].instance # i

\* Slip: any status without open sequences lifts the quarantine, however old.
ReconciledPoisonUnordered(inventory, w, i, s, poisoned) ==
    IF Departed(inventory, w, i) \/ inventory[w].status.open[s] = {} THEN {} ELSE poisoned

ReconciledPoison(inventory, w, i, s, poisoned) ==
    IF Departed(inventory, w, i) THEN {}
    ELSE IF inventory[w].status.open[s] # {} THEN poisoned
    ELSE {p \in poisoned : inventory[w].status.obs < p.minimum}

\* Slip: any snapshot that lists the worker releases what was pending.
ReconciledPendingUnordered(inventory, w, i, pending) == {}

ReconciledPending(inventory, w, i, pending) ==
    IF Departed(inventory, w, i) THEN {}
    ELSE {p \in pending : inventory[w].status.obs < p.minimum}

Reconciled(inventory) ==
    [slots |-> [w \in Workers |-> [i \in Instances |-> [s \in Shards |->
        [reservations[w][i][s] EXCEPT
           !.poisoned = ReconciledPoison(inventory, w, i, s, @)]]]],
     hosts |-> [w \in Workers |-> [i \in Instances |->
        [workers[w][i] EXCEPT !.pending = ReconciledPending(inventory, w, i, @)]]]]

-----------------------------------------------------------------------------
\* The admission tests of one stage, in the order of reserveAdmission.
\* Slips: quarantined slots, or those of other reservations, are not counted.
HasShardSlotUnpoisoned(slot, status, s) ==
    Cardinality(status.open[s]) + slot.active < MaxOpenPerShard

HasShardSlotReported(slot, status, s) ==
    Cardinality(status.open[s]) + Cardinality(slot.poisoned) < MaxOpenPerShard

HasShardSlot(slot, status, s) ==
    Cardinality(status.open[s]) + slot.active + Cardinality(slot.poisoned) < MaxOpenPerShard

HasRequestSlot(host, status) ==
    OpenSequenceCount(status) + host.activeRequests < MaxRequests

StageBytes(loads) == SequenceBytes + (IF loads THEN LoadBytes ELSE 0)

\* Slip: pending bytes are not counted.
HasMemoryActiveOnly(host, status, loads) ==
    StageBytes(loads) <= Monus(AvailableMemoryBytes(status), host.activeAvailable)

HasMemory(host, status, loads) ==
    LET reserved == host.activeAvailable + PendingAvailable(host.pending) IN
    /\ reserved <= AvailableMemoryBytes(status)
    /\ StageBytes(loads) <= Monus(AvailableMemoryBytes(status), reserved)

HasRetainedBudget(host, status) ==
    RetainedBytes(status) + host.activeRetained + PendingRetained(host.pending)
      + SequenceBytes <= RetainedBudget

\* A stage fits when the member has an ordered observation and every test passes.
StageFits(slot, host, member, s, loads) ==
    /\ member.status.obs > 0
    /\ HasShardSlot(slot, member.status, s)
    /\ HasRequestSlot(host, member.status)
    /\ HasMemory(host, member.status, loads)
    /\ HasRetainedBudget(host, member.status)

\* A stage of a reservation: the shard on this worker, the incarnation the
\* plan was bound to and whether load memory was reserved; then what the
\* observations after setup and after cleanup recorded (0: not observed).
Stage == [shard : Shards \cup {NoShard}, instance : Instances, loads : BOOLEAN,
          setupObs : Observation, present : BOOLEAN,
          cleanupObs : Observation, stillOpen : BOOLEAN]

Placed(stages) == {w \in Workers : stages[w].shard # NoShard}

OnShard(stages, w, i, s) == stages[w].shard = s /\ stages[w].instance = i

OnWorker(stages, w, i) == w \in Placed(stages) /\ stages[w].instance = i

\* The tail of reserveAdmission: every stage is counted, after every test passed.
Reserve(slots, hosts, stages) ==
    /\ reservations' = [w \in Workers |-> [i \in Instances |-> [s \in Shards |->
         IF OnShard(stages, w, i, s)
         THEN [slots[w][i][s] EXCEPT !.active = @ + 1]
         ELSE slots[w][i][s]]]]
    /\ workers' = [w \in Workers |-> [i \in Instances |->
         IF OnWorker(stages, w, i)
         THEN [activeRequests |-> hosts[w][i].activeRequests + 1,
               activeAvailable |-> hosts[w][i].activeAvailable + StageBytes(stages[w].loads),
               activeRetained |-> hosts[w][i].activeRetained + SequenceBytes,
               pending |-> hosts[w][i].pending]
         ELSE hosts[w][i]]]

-----------------------------------------------------------------------------
\* finishReservation.
StageCleanupConfirmed(stage, confirmed) ==
    confirmed \/ (stage.cleanupObs # 0 /\ ~stage.stillOpen)

\* Setup may have left weights that no status reflects yet.
LoadOutstanding(stage, mayHaveLoaded) ==
    /\ mayHaveLoaded
    /\ stage.loads
    /\ stage.setupObs = 0 \/ stage.present

\* ObservationAfter maps "not observed" to Unreconciled, the code's own default.
QuarantineMinimum(stage, mayHaveLoaded, confirmed) ==
    LET setup == IF mayHaveLoaded /\ (stage.setupObs = 0 \/ stage.present)
                 THEN ObservationAfter(stage.setupObs) ELSE 0
        cleanup == IF StageCleanupConfirmed(stage, confirmed)
                   THEN 0 ELSE ObservationAfter(stage.cleanupObs)
    IN IF cleanup > setup THEN cleanup ELSE setup

\* Slip: only a sequence seen open is quarantined.
NewPoisonSeenOpen(q, stage, confirmed, found) ==
    IF found /\ ~confirmed /\ stage.stillOpen
    THEN {[owner |-> q, minimum |-> ObservationAfter(stage.cleanupObs)]}
    ELSE {}

NewPoison(q, stage, confirmed, found) ==
    IF found /\ ~StageCleanupConfirmed(stage, confirmed)
    THEN {[owner |-> q, minimum |-> ObservationAfter(stage.cleanupObs)]}
    ELSE {}

NewPending(q, stage, mayHaveLoaded, confirmed, found) ==
    LET load == IF LoadOutstanding(stage, mayHaveLoaded) THEN LoadBytes ELSE 0
        kept == IF StageCleanupConfirmed(stage, confirmed) THEN 0 ELSE SequenceBytes
    IN IF found /\ load + kept > 0
       THEN {[owner |-> q, available |-> load + kept, retained |-> kept,
              minimum |-> QuarantineMinimum(stage, mayHaveLoaded, confirmed)]}
       ELSE {}

\* Slip: a stage whose incarnation left membership is skipped altogether.
ReleaseListed(q, stages, mayHaveLoaded, confirmed, found) ==
    /\ reservations' = [w \in Workers |-> [i \in Instances |-> [s \in Shards |->
         IF OnShard(stages, w, i, s) /\ w \in found
         THEN [active |-> Decrement(reservations[w][i][s].active),
               poisoned |-> reservations[w][i][s].poisoned
                              \cup NewPoison(q, stages[w], confirmed, TRUE)]
         ELSE reservations[w][i][s]]]]
    /\ workers' = [w \in Workers |-> [i \in Instances |->
         IF OnWorker(stages, w, i) /\ w \in found
         THEN [activeRequests |-> Decrement(workers[w][i].activeRequests),
               activeAvailable |-> Monus(workers[w][i].activeAvailable,
                                         StageBytes(stages[w].loads)),
               activeRetained |-> Monus(workers[w][i].activeRetained, SequenceBytes),
               pending |-> workers[w][i].pending
                             \cup NewPending(q, stages[w], mayHaveLoaded, confirmed, TRUE)]
         ELSE workers[w][i]]]

\* found holds the workers whose bound incarnation is in the closing snapshot.
Release(q, stages, mayHaveLoaded, confirmed, found) ==
    /\ reservations' = [w \in Workers |-> [i \in Instances |-> [s \in Shards |->
         IF OnShard(stages, w, i, s)
         THEN [active |-> Decrement(reservations[w][i][s].active),
               poisoned |-> reservations[w][i][s].poisoned
                              \cup NewPoison(q, stages[w], confirmed, w \in found)]
         ELSE reservations[w][i][s]]]]
    /\ workers' = [w \in Workers |-> [i \in Instances |->
         IF OnWorker(stages, w, i)
         THEN [activeRequests |-> Decrement(workers[w][i].activeRequests),
               activeAvailable |-> Monus(workers[w][i].activeAvailable,
                                         StageBytes(stages[w].loads)),
               activeRetained |-> Monus(workers[w][i].activeRetained, SequenceBytes),
               pending |-> workers[w][i].pending
                             \cup NewPending(q, stages[w], mayHaveLoaded, confirmed,
                                             w \in found)]
         ELSE workers[w][i]]]
=============================================================================

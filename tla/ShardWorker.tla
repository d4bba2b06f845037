---------------------------- MODULE ShardWorker ----------------------------
(***************************************************************************)
(* The shard worker process, PersistentShardService                        *)
(* (src/worker/mlx/Sources/MLXWorker/PersistentShardWorker.swift): the     *)
(* checkpoint shards it holds, the sequences open on each of them with     *)
(* their KV cache, and the last mutation of every sequence, which it       *)
(* answers again when a client repeats it.                                 *)
(*                                                                         *)
(* serveStdio handles one frame after the other, so every handler is one   *)
(* action; its status parameter is how the frame is answered.  Refusals    *)
(* are told apart only where a client tells them apart.  A KV cache is the *)
(* tokens it was computed from, in order, and so is a stage's output: what *)
(* a stage returns is a function of all the positions it has seen.  The    *)
(* load and forward counters, which are only reported, the tokenizer cache *)
(* and the arrays of the tensor runtime are left out.                      *)
(***************************************************************************)
EXTENDS Integers, Sequences, FiniteSetsExt

CONSTANTS
    Workers,                \* worker processes
    Shards,                 \* checkpoint shards
    Host,                   \* the worker a shard is loaded on
    InputShards,            \* shards that own the input embedding
    OutputShards,           \* shards that own the output head
    SequenceIDs,            \* public sequence IDs
    Owners,                 \* private owners, one for every OpenSequences
    NoOwner,                \* a request without an ownerID
    Closed,                 \* a sequence that is not open
    NoMutation,             \* no completedMutation
    Tokens,                 \* tokens, and the hidden state each becomes
    MaxOpenPerShard,        \* maxOpenSequencesPerShard
    MaximumSequenceLength,  \* inputMetadata.maximumSequenceLength
    WorkerBudget,           \* workerBudgetBytes
    CacheBytes,             \* KV bytes of one position
    OutputBytes,            \* estimated output bytes of one position
    TokenBytes              \* bytes of a sampled token

ASSUME ShardAssumption ==
    /\ Host \in [Shards -> Workers]
    /\ InputShards \subseteq Shards /\ OutputShards \subseteq Shards
    /\ NoOwner \notin Owners
    /\ {MaxOpenPerShard, MaximumSequenceLength} \subseteq Nat \ {0}
    /\ {WorkerBudget, CacheBytes, OutputBytes, TokenBytes} \subseteq Nat
    /\ TokenBytes <= OutputBytes
    /\ IsFiniteSet(Shards) /\ IsFiniteSet(SequenceIDs)

VARIABLES
    loaded,      \* the keys of shards, over all workers
    sequences    \* [shard][sequence ID]: shard.sequences

serviceVars == <<loaded, sequences>>

Positions == 0..MaximumSequenceLength
Contents == {content \in Seq(Tokens) : Len(content) <= MaximumSequenceLength}

\* What a prefill or decode asks for; the digest stands for the input.
Mutation == [op : {"prefill", "decode"}, position : Nat, input : Seq(Tokens) \ {<<>>},
             sampled : BOOLEAN]

\* PersistentCompletedMutation, with its retained result or failure.
Completed == [mutation : Mutation, failed : BOOLEAN, content : Contents]

\* PersistentSequenceState.
SequenceState ==
    [owner : Owners \cup {NoOwner}, prefilled : BOOLEAN, next : Nat,
     cache : Contents, completed : Completed \cup {NoMutation}]

ASSUME NoConfusion == Closed \notin SequenceState /\ NoMutation \notin Completed

Statuses == {"ok", "notLoaded", "notOpen", "refused", "expired"}

ServiceInit ==
    /\ loaded = {}
    /\ sequences = [shard \in Shards |-> [id \in SequenceIDs |-> Closed]]

----------------------------------------------------------------------------
\* Reading the state

IsOpen(shard, id) == sequences[shard][id] # Closed
OpenOn(shard) == {id \in SequenceIDs : IsOpen(shard, id)}
HostedOn(worker) == {shard \in Shards : Host[shard] = worker}

\* cache.memoryBytes of a cache that holds so many positions.
MemoryBytes(positions) == CacheBytes * positions

\* retainedBytes(sequence:): the cache and the result kept for a retry.
RetainedBySequence(sequence) ==
    LET kept == sequence.completed
        replayBytes == IF kept = NoMutation \/ kept.failed THEN 0
                       ELSE IF kept.mutation.sampled THEN TokenBytes
                       ELSE OutputBytes * Len(kept.mutation.input)
    IN MemoryBytes(Len(sequence.cache)) + replayBytes

RetainedByShard(shard) ==
    MapThenSumSet(LAMBDA id : RetainedBySequence(sequences[shard][id]), OpenOn(shard))

\* retainedBytes(): of all the shards of one process.
RetainedByWorker(worker) == MapThenSumSet(RetainedByShard, HostedOn(worker))

\* The shard's own sequences only.
WithinBudgetOfShard(shard, sequence, m) ==
    RetainedByShard(shard) - RetainedBySequence(sequence)
        + MemoryBytes(sequence.next + Len(m.input)) + OutputBytes * Len(m.input)
      <= WorkerBudget

\* validateMutationBudget: the sequence may grow within its maximum length, and
\* what the worker retains, with the larger cache and the output instead of
\* what this sequence retains now, within the worker's budget.
WithinBudget(shard, sequence, m) ==
    RetainedByWorker(Host[shard]) - RetainedBySequence(sequence)
        + MemoryBytes(sequence.next + Len(m.input)) + OutputBytes * Len(m.input)
      <= WorkerBudget

WithinLength(sequence, m) == sequence.next + Len(m.input) <= MaximumSequenceLength

----------------------------------------------------------------------------
\* Shards

\* loadShard; the checkpoint may not resolve or not load.
LoadShard(shard, status) ==
    /\ UNCHANGED sequences
    /\ \/ status = "refused" /\ UNCHANGED loaded
       \/ /\ shard \notin loaded
          /\ status = "ok"
          /\ loaded' = loaded \cup {shard}

UnloadShard(shard, status) ==
    /\ UNCHANGED sequences
    /\ \/ shard \notin loaded /\ status = "notLoaded" /\ UNCHANGED loaded
       \/ shard \in loaded /\ OpenOn(shard) # {} /\ status = "refused" /\ UNCHANGED loaded
       \/ /\ shard \in loaded /\ OpenOn(shard) = {}
          /\ status = "ok"
          /\ loaded' = loaded \ {shard}

\* tokenize and detokenize, whose tokenizer may not load (requireLoadedInputModel).
UseTokenizer(shard, status) ==
    /\ UNCHANGED serviceVars
    /\ \/ status = "refused"
       \/ loaded \cap HostedOn(Host[shard]) \cap InputShards # {} /\ status = "ok"

\* The process ends, after a shutdown or by itself, and holds nothing any more.
EndProcess(worker) ==
    /\ loaded' = loaded \ HostedOn(worker)
    /\ sequences' = [shard \in Shards |->
          IF Host[shard] = worker THEN [id \in SequenceIDs |-> Closed] ELSE sequences[shard]]

----------------------------------------------------------------------------
\* Sequences

NewSequence(owner) ==
    [owner |-> owner, prefilled |-> FALSE, next |-> 0, cache |-> <<>>,
     completed |-> NoMutation]

\* Whether an open is the repetition of the one that opened the sequence.
OwnedAlready(sequence, owner) == owner # NoOwner /\ sequence.owner = owner

\* One more than the limit.
HasRoomOffByOne(shard) == Cardinality(OpenOn(shard)) <= MaxOpenPerShard

\* The shard is below maxOpenSequencesPerShard.
HasRoom(shard) == Cardinality(OpenOn(shard)) < MaxOpenPerShard

\* openSequence of an open sequence answers its owner and refuses the others.
OpenSequence(shard, id, owner, status) ==
    /\ UNCHANGED loaded
    /\ \/ shard \notin loaded /\ status = "notLoaded" /\ UNCHANGED sequences
       \/ /\ shard \in loaded /\ IsOpen(shard, id)
          /\ status = IF OwnedAlready(sequences[shard][id], owner) THEN "ok" ELSE "refused"
          /\ UNCHANGED sequences
       \/ /\ shard \in loaded /\ ~IsOpen(shard, id)
          /\ ~HasRoom(shard)
          /\ status = "refused"
          /\ UNCHANGED sequences
       \/ /\ shard \in loaded /\ ~IsOpen(shard, id)
          /\ HasRoom(shard)
          /\ status = "ok"
          /\ sequences' = [sequences EXCEPT ![shard][id] = NewSequence(owner)]

\* Anybody closes any sequence.
MayCloseAny(sequence, owner) == TRUE

\* closeSequence: an owner closes what it opened; without one, anything.
MayClose(sequence, owner) == owner = NoOwner \/ sequence.owner = owner

CloseSequence(shard, id, owner, status) ==
    /\ UNCHANGED loaded
    /\ \/ shard \notin loaded /\ status = "notLoaded" /\ UNCHANGED sequences
       \/ /\ shard \in loaded /\ ~IsOpen(shard, id)
          /\ status = "notOpen"
          /\ UNCHANGED sequences
       \/ /\ shard \in loaded /\ IsOpen(shard, id)
          /\ ~MayClose(sequences[shard][id], owner)
          /\ status = "refused"
          /\ UNCHANGED sequences
       \/ /\ shard \in loaded /\ IsOpen(shard, id)
          /\ MayClose(sequences[shard][id], owner)
          /\ status = "ok"
          /\ sequences' = [sequences EXCEPT ![shard][id] = Closed]

----------------------------------------------------------------------------
\* Inference

\* The shard and the sequence exist, and a token is asked of the last stage.
Addressed(shard, id, sampled) ==
    /\ shard \in loaded
    /\ IsOpen(shard, id)
    /\ sampled => shard \in OutputShards

\* PersistentCompletedMutation.matches of one that differs in the input only.
RepeatsAtPosition(sequence, m) ==
    /\ sequence.completed # NoMutation
    /\ sequence.completed.mutation.op = m.op
    /\ sequence.completed.mutation.position = m.position

\* PersistentCompletedMutation.matches.
Repeats(sequence, m) ==
    /\ sequence.completed # NoMutation
    /\ sequence.completed.mutation = m

\* The last mutation failed after it was computed.
Poisoned(sequence) ==
    /\ sequence.completed # NoMutation
    /\ sequence.completed.failed

\* One prefill, of any length and at position zero; then decodes of one
\* position each, at the next position; nothing after a failed mutation
\* (validatePosition and the guards of the two operations).
InPlace(sequence, m) ==
    /\ ~Poisoned(sequence)
    /\ m.op = "prefill" => ~sequence.prefilled /\ m.position = 0
    /\ m.op = "decode" =>
         sequence.prefilled /\ Len(m.input) = 1 /\ m.position = sequence.next
    /\ Len(sequence.cache) = sequence.next

\* A failed mutation is not recorded.
AdvancedUnrecorded(sequence, m, failed) ==
    LET content == sequence.cache \o m.input
    IN [sequence EXCEPT
          !.prefilled = TRUE,
          !.next = @ + Len(m.input),
          !.cache = content,
          !.completed = IF failed THEN @
                        ELSE [mutation |-> m, failed |-> FALSE, content |-> content]]

\* What the stage and advance leave in the sequence.
Advanced(sequence, m, failed) ==
    LET content == sequence.cache \o m.input
    IN [owner |-> sequence.owner,
        prefilled |-> TRUE,
        next |-> sequence.next + Len(m.input),
        cache |-> content,
        completed |-> [mutation |-> m, failed |-> failed,
                       content |-> IF failed THEN <<>> ELSE content]]

Computable(shard, sequence, m) ==
    /\ InPlace(sequence, m)
    /\ WithinLength(sequence, m)
    /\ WithinBudget(shard, sequence, m)

\* The mutation is computed; the logits it samples from may be unusable, and
\* the deadline may have passed when it is done.
Compute(shard, id, m, status) ==
    \E failed \in BOOLEAN :
       /\ failed => m.sampled
       /\ status \in IF failed THEN {"refused"} ELSE {"ok", "expired"}
       /\ sequences' = [sequences EXCEPT ![shard][id] = Advanced(@, m, failed)]

\* handle of prefill and decode: requireActiveDeadline before and after
\* forwardRequest, which may also refuse the input, or fail, before it touches
\* the cache.  The stage has checked the input before its first layer writes, and
\* its evaluation does not throw (Gemma3CheckpointShard.swift:226-300): an error
\* of the tensor runtime ends the process.
Mutate(shard, id, m, status) ==
    /\ UNCHANGED loaded
    /\ \/ status \in {"expired", "refused"} /\ UNCHANGED sequences
       \/ /\ Addressed(shard, id, m.sampled)
          /\ Repeats(sequences[shard][id], m)
          /\ ~sequences[shard][id].completed.failed
          /\ status = "ok"
          /\ UNCHANGED sequences
       \/ /\ Addressed(shard, id, m.sampled)
          /\ ~Repeats(sequences[shard][id], m)
          /\ Computable(shard, sequences[shard][id], m)
          /\ Compute(shard, id, m, status)
=============================================================================

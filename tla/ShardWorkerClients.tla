------------------------- MODULE ShardWorkerClients -------------------------
(***************************************************************************)
(* A shard worker and the clients of its protocol                          *)
(* (docs/persistent-worker-protocol.md), which send any request at any     *)
(* time: repeat one whose answer was lost or late, send one out of order,  *)
(* open and close under any owner or none, and stop the process.           *)
(***************************************************************************)
EXTENDS ShardWorker

CONSTANTS
    MaxInput     \* bound: positions of one request

ASSUME ClientAssumption == MaxInput \in Nat \ {0}

VARIABLES
    answers,     \* [shard][ID]: results returned since the sequence was opened
    spoiled      \* [shard]: IDs of open sequences with a mutation computed but refused

vars == <<serviceVars, answers, spoiled>>

Inputs == UNION {[1..length -> Tokens] : length \in 1..MaxInput}

Answer == [position : Nat, input : Seq(Tokens) \ {<<>>}, content : Contents]

Init ==
    /\ ServiceInit
    /\ answers = [shard \in Shards |-> [id \in SequenceIDs |-> {}]]
    /\ spoiled = [shard \in Shards |-> {}]

\* What was seen of a sequence belongs to the one that was open then.
ForgetClosed ==
    /\ answers' = [shard \in Shards |-> [id \in SequenceIDs |->
                     IF sequences'[shard][id] = Closed THEN {} ELSE answers[shard][id]]]
    /\ spoiled' = [shard \in Shards |->
                     {id \in spoiled[shard] : sequences'[shard][id] # Closed}]

Load == \E shard \in Shards, status \in Statuses : LoadShard(shard, status)
Unload == \E shard \in Shards, status \in Statuses : UnloadShard(shard, status)
Open == \E shard \in Shards, id \in SequenceIDs, owner \in Owners \cup {NoOwner},
           status \in Statuses : OpenSequence(shard, id, owner, status)
Close == \E shard \in Shards, id \in SequenceIDs, owner \in Owners \cup {NoOwner},
            status \in Statuses : CloseSequence(shard, id, owner, status)
End == \E worker \in Workers : EndProcess(worker)

Manage == (Load \/ Unload \/ Open \/ Close \/ End) /\ ForgetClosed

\* The result of a mutation, which a client sees if it is not late.
Result(shard, id, m) ==
    [position |-> m.position, input |-> m.input,
     content |-> sequences'[shard][id].completed.content]

Infer(shard, id, m) ==
    \E status \in Statuses :
       /\ Mutate(shard, id, m, status)
       /\ answers' = [answers EXCEPT ![shard][id] =
                         IF status = "ok" THEN @ \cup {Result(shard, id, m)} ELSE @]
       /\ spoiled' = [spoiled EXCEPT ![shard] =
                         IF status = "refused" /\ sequences' # sequences THEN @ \cup {id} ELSE @]

Prefill == \E shard \in Shards, id \in SequenceIDs, position \in Positions,
              input \in Inputs, sampled \in BOOLEAN :
             Infer(shard, id, [op |-> "prefill", position |-> position,
                               input |-> input, sampled |-> sampled])

Decode == \E shard \in Shards, id \in SequenceIDs, position \in Positions,
             input \in Inputs, sampled \in BOOLEAN :
            Infer(shard, id, [op |-> "decode", position |-> position,
                              input |-> input, sampled |-> sampled])

Next == Manage \/ Prefill \/ Decode

Spec == Init /\ [][Next]_vars

----------------------------------------------------------------------------
\* Properties

\* A sequence is open only on a loaded shard, on no shard more than the limit,
\* and a result is kept only for an open sequence (unloadShard, openSequence).
TypeOK ==
    /\ loaded \in SUBSET Shards
    /\ sequences \in [Shards -> [SequenceIDs -> SequenceState \cup {Closed}]]
    /\ answers \in [Shards -> [SequenceIDs -> SUBSET Answer]]
    /\ spoiled \in [Shards -> SUBSET SequenceIDs]
    /\ \A shard \in Shards :
         /\ shard \notin loaded => OpenOn(shard) = {}
         /\ Cardinality(OpenOn(shard)) <= MaxOpenPerShard
    /\ \A shard \in Shards, id \in SequenceIDs :
         sequences[shard][id] = Closed => answers[shard][id] = {}

\* Every position of a sequence is computed once, whatever clients repeat,
\* reorder or mix: the result of a mutation at a position is what the cache held
\* up to there, with the input of the request just behind it, and is the only
\* result for that position (replay of completedMutation, validatePosition).
IsResultOf(answer, cache) ==
    /\ Len(answer.content) = answer.position + Len(answer.input)
    /\ Len(answer.content) <= Len(cache)
    /\ \A i \in 1..Len(answer.content) : answer.content[i] = cache[i]
    /\ \A i \in 1..Len(answer.input) :
         answer.input[i] = answer.content[answer.position + i]

ComputedOnce ==
    \A shard \in Shards, id \in SequenceIDs : IsOpen(shard, id) =>
       /\ \A answer \in answers[shard][id] : IsResultOf(answer, sequences[shard][id].cache)
       /\ \A answer, other \in answers[shard][id] :
            answer.position = other.position => answer = other

\* What the sequences of a process retain never exceeds its budget, over all its
\* shards and with the results kept for retries (validateMutationBudget).
BudgetRespected == \A worker \in Workers : RetainedByWorker(worker) <= WorkerBudget

\* A mutation that was computed and then refused, because its logits could not
\* be sampled, has spoiled the cache: the sequence is never advanced again and
\* keeps its state until it is closed (recordMutationFailure).
PoisonHolds ==
    [][\A shard \in Shards : \A id \in spoiled[shard] :
         sequences'[shard][id] \in {sequences[shard][id], Closed}]_vars
=============================================================================

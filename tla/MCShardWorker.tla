--------------------------- MODULE MCShardWorker ---------------------------
(***************************************************************************)
(* Small instances of ShardWorkerClients: one process with the two shards  *)
(* of a two-stage plan.                                                    *)
(***************************************************************************)
EXTENDS ShardWorkerClients, TLC

CONSTANTS w1,        \* the worker
          s1, s2     \* the first and the last shard

OneWorker == {w1}
Both == {s1, s2}
First == {s1}
Last == {s2}
OnOne == [shard \in Both |-> w1]

Symmetry == Permutations(SequenceIDs) \cup Permutations(Tokens) \cup Permutations(Owners)
=============================================================================

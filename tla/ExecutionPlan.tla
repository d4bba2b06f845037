--------------------------- MODULE ExecutionPlan ---------------------------
(***************************************************************************)
(* Execution plans (src/internal/generation/execution_plan.go): ordered    *)
(* stages, each a contiguous range of the model's layers on one target.    *)
(*                                                                         *)
(* A range is the pair of its first layer and of the one behind its last.  *)
(* A stage's name is its index, its shard ID is derived from its range and *)
(* what it owns, and the revision is a digest of the plan: all three are   *)
(* what finalizeExecutionPlan puts there and are left out.  So is the      *)
(* response mode, which validation checks too: a tensor between stages,    *)
(* and whichever of the two modes the caller asks for behind the last.     *)
(***************************************************************************)
EXTENDS Integers, Sequences

CONSTANTS LayerCount     \* model.LayerCount

ASSUME LayerAssumption == LayerCount \in Nat \ {0}

\* DeriveExecutionShardID accepts these.
LayerRanges == {range \in (0..LayerCount) \X (0..LayerCount) : range[1] < range[2]}

\* ExecutionStage of a target, at a place in the plan.
Stage(target, start, end, first, last) ==
    [target |-> target, start |-> start, end |-> end,
     ownsInput |-> first, ownsOutput |-> last]

\* ValidateExecutionPlan, one part for each of its checks over the stages.
TargetsDistinct(stages) ==
    \A i, j \in DOMAIN stages : stages[i].target = stages[j].target => i = j

ShardsDistinct(stages) ==
    \A i, j \in DOMAIN stages :
       stages[i].start = stages[j].start /\ stages[i].end = stages[j].end => i = j

Contiguous(stages) ==
    /\ \A i \in DOMAIN stages :
         /\ stages[i].start = IF i = 1 THEN 0 ELSE stages[i - 1].end
         /\ stages[i].start < stages[i].end
         /\ stages[i].end <= LayerCount
    /\ stages[Len(stages)].end = LayerCount

OwnershipMatches(stages) ==
    \A i \in DOMAIN stages :
       /\ stages[i].ownsInput = (i = 1)
       /\ stages[i].ownsOutput = (i = Len(stages))

ValidPlan(stages) ==
    /\ Len(stages) \in 1..LayerCount
    /\ TargetsDistinct(stages) /\ ShardsDistinct(stages)
    /\ Contiguous(stages)
    /\ OwnershipMatches(stages)

\* BuildBalancedExecutionPlan: where its loop starts the stage behind the first
\* count stages of a plan for so many targets; the remainder goes to the first.
BalancedStart(count, targets) ==
    LET base == LayerCount \div targets
        remainder == LayerCount % targets
    IN count * base + IF count < remainder THEN count ELSE remainder

BalancedPlan(targetIDs) ==
    [index \in 1..Len(targetIDs) |->
       Stage(targetIDs[index],
             BalancedStart(index - 1, Len(targetIDs)), BalancedStart(index, Len(targetIDs)),
             index = 1, index = Len(targetIDs))]
=============================================================================

-------------------------- MODULE PlanConstruction --------------------------
(***************************************************************************)
(* The placement planner (src/internal/placement/eligibility.go,           *)
(* scoring.go and planner.go): which workers may take a range of layers,   *)
(* what a plan costs, and the search for the best plan, a dynamic          *)
(* programme over the number of stages that keeps one partial plan for     *)
(* every boundary and set of workers.                                      *)
(*                                                                         *)
(* Worker IDs are numbers, in the order of their strings.  A worker's      *)
(* health and its advertised adapter, checkpoints, operations and          *)
(* transport are one flag, and one more for the operations only a first    *)
(* stage needs.  Scores are the tuple that comparePlanScores compares;     *)
(* the counts that are only reported are left out.  A sum that does not    *)
(* fit a word fails the construction, and so here one above WordLimit.     *)
(***************************************************************************)
EXTENDS ExecutionPlan, ProfileStore

CONSTANTS
    Workers,          \* worker IDs
    WordLimit,        \* math.MaxUint64
    StatusMaxAge      \* request.StatusMaxAgeMillis

ASSUME PlannerAssumption ==
    /\ Workers \subseteq Nat /\ IsFiniteSet(Workers)
    /\ {WordLimit, StatusMaxAge} \subseteq Nat
    /\ LinkKeys \subseteq {<<worker>> : worker \in Workers}
    /\ ComputeKeys \subseteq Workers \X LayerRanges \X {"prefill", "decode"}

----------------------------------------------------------------------------
\* eligibility.go

\* compatibleRetainedShard: the shard of the range is loaded already.
ReusesRetained(worker, range) == range \in DOMAIN worker.retained

RequiredMemory(worker, range, estimate) ==
    estimate.sequence + IF ReusesRetained(worker, range) THEN 0 ELSE estimate.load

\* evaluateCandidate: no reason to reject.
Eligible(worker, at, range, estimate) ==
    /\ worker.observedAt <= at /\ at - worker.observedAt <= StatusMaxAge
    /\ worker.capable
    /\ range[1] = 0 => worker.tokenizes
    /\ worker.open < worker.maxRequests
    /\ worker.available >= RequiredMemory(worker, range, estimate)
    /\ worker.retainedBytes + estimate.sequence <= worker.budget
    /\ ReusesRetained(worker, range) => worker.retained[range] < worker.maxOpenPerShard

----------------------------------------------------------------------------
\* scoring.go

\* multiplyDivideCeil.
MultiplyDivideCeil(left, right, denominator) ==
    (left * right + denominator - 1) \div denominator

\* estimateCompute of an operation.
ComputeMicros(profile, worker, range, operation, tokens, repetitions, fallback) ==
    LET key == <<worker, range, operation>>
        perCall == IF key \in DOMAIN profile
                   THEN MultiplyDivideCeil(MedianOf(profile[key], 2), tokens,
                                           MedianOf(profile[key], 1))
                   ELSE fallback
    IN perCall * repetitions

\* scoreStageCompute.
StageCompute(profile, request, worker, range) ==
    LET estimate == request.ranges[range]
    IN ComputeMicros(profile, worker, range, "prefill", request.tokens, 1,
                     estimate.prefillMicros)
       + ComputeMicros(profile, worker, range, "decode", 1, request.steps,
                       estimate.decodeMicros)

\* scoreStageTransfer: what the link's profile does not know comes from the
\* request.
StageTransfer(profile, request, worker, range) ==
    LET estimate == request.ranges[range]
        key == <<worker>>
        profiled == key \in DOMAIN profile
        rates == IF profiled THEN Throughputs(profile[key]) ELSE <<>>
        rtt == IF profiled THEN MedianOf(profile[key], 1) ELSE request.rtt
        rate == IF rates # <<>> THEN Median(rates) ELSE request.rate
    IN rtt + MultiplyDivideCeil(estimate.prefillBytes, PerSecond, rate)
       + request.steps * (rtt + MultiplyDivideCeil(estimate.decodeBytes, PerSecond, rate))

\* What mergeStageScore adds, in the order of comparePlanScores: time, recent
\* failures, memory pressure, newly loaded bytes, additional bytes, restarts,
\* stages.
StageScore(profile, request, inventory, worker, range) ==
    LET state == inventory[worker]
        estimate == request.ranges[range]
    IN <<StageCompute(profile, request, worker, range)
           + StageTransfer(profile, request, worker, range),
         state.failures,
         state.pressure,
         IF ReusesRetained(state, range) THEN 0 ELSE estimate.load,
         RequiredMemory(state, range, estimate),
         state.restarts,
         1>>

NoScore == [i \in 1..7 |-> 0]
AddScores(left, right) == [i \in 1..7 |-> left[i] + right[i]]
Overflows(score) == \E i \in 1..7 : score[i] > WordLimit

\* Stages of a plan, in the order comparePlanIdentity compares them in.
StageIdentity(stage) == <<stage.target, stage.start, stage.end>>

Identity(stages) == FlattenSeq([i \in DOMAIN stages |-> StageIdentity(stages[i])])

\* ComparePlanEvaluations of two eligible plans, comparePartialPlans: of plans of
\* equal score the one with the smaller identity is better.
Better(left, right) ==
    Precedes(left.score \o Identity(left.stages), right.score \o Identity(right.stages))

\* ScorePlan of an eligible plan: the score of all its stages.
ScoreOf(profile, request, inventory, stages) ==
    FoldLeft(LAMBDA score, stage :
               AddScores(score, StageScore(profile, request, inventory, stage.target,
                                           <<stage.start, stage.end>>)),
             NoScore, stages)

\* validateDistribution, the rest holds of every snapshot: no link's throughput
\* is zero.
ProfileValid(profile) ==
    \A key \in DOMAIN profile \cap LinkKeys :
       \A i \in DOMAIN Throughputs(profile[key]) : Throughputs(profile[key])[i] > 0

----------------------------------------------------------------------------
\* planner.go

TargetsOf(plan) == {plan.stages[i].target : i \in DOMAIN plan.stages}
EndOf(plan) == IF plan.stages = <<>> THEN 0 ELSE Last(plan.stages).end

\* preparePlanRange: the eligible workers of every allowed range.
Options(request, inventory, at) ==
    {option \in (DOMAIN request.ranges) \X (DOMAIN inventory) :
       Eligible(inventory[option[2]], at, option[1], request.ranges[option[1]])}

\* Its errors: the compute or the transfer estimate of an option does not fit.
\* Their sum is formed only for a plan with that option.
OptionOverflows(profile, request, option) ==
    \/ StageCompute(profile, request, option[2], option[1]) > WordLimit
    \/ StageTransfer(profile, request, option[2], option[1]) > WordLimit

\* extendPartialPlan.
Extended(profile, request, inventory, plan, option) ==
    LET range == option[1]
        worker == option[2]
    IN [stages |-> Append(plan.stages,
                     Stage(worker, range[1], range[2],
                           range[1] = 0, range[2] = LayerCount)),
        score |-> AddScores(plan.score,
                            StageScore(profile, request, inventory, worker, range))]

\* One round of the search: every partial plan with one more stage, which in the
\* last round has to end the model.
Extensions(profile, request, inventory, options, plans, round) ==
    {Extended(profile, request, inventory, step[1], step[2]) :
       step \in {s \in plans \X options :
                   /\ s[2][1][1] = EndOf(s[1])
                   /\ s[2][2] \notin TargetsOf(s[1])
                   /\ s[2][1][2] = LayerCount \/ round < request.maxStages}}

\* One plan is kept for a boundary.
SameEnd(left, right) == EndOf(left) = EndOf(right)

\* The key of the plans that compete, partialWorkerSetKey and the boundary.
SameKey(left, right) == EndOf(left) = EndOf(right) /\ TargetsOf(left) = TargetsOf(right)

Dominant(plans) ==
    {plan \in plans : \A other \in plans : SameKey(plan, other) => ~Better(other, plan)}

\* The rounds: what each keeps to extend, the complete plans so far, and the
\* extensions there were.
Search(profile, request, inventory, options) ==
    LET rounds[round \in 0..request.maxStages] ==
          IF round = 0
          THEN [kept |-> {[stages |-> <<>>, score |-> NoScore]}, complete |-> {},
                operations |-> Cardinality(DOMAIN request.ranges)
                                 * Cardinality(DOMAIN inventory),
                overflow |-> \E option \in options :
                               OptionOverflows(profile, request, option)]
          ELSE LET before == rounds[round - 1]
                   extensions == Extensions(profile, request, inventory, options,
                                            before.kept, round)
                   kept == Dominant(extensions)
               IN [kept |-> {plan \in kept : EndOf(plan) < LayerCount},
                   complete |-> before.complete
                                  \cup {plan \in kept : EndOf(plan) = LayerCount},
                   operations |-> before.operations + Cardinality(extensions),
                   overflow |-> \/ before.overflow
                                \/ \E plan \in extensions : Overflows(plan.score)]
    IN rounds[request.maxStages]

NoPlan(kind) == [kind |-> kind, stages |-> <<>>, score |-> NoScore]

\* evaluateCompletePlan: a complete plan is built, validated and scored again.
Rescored(profile, request, inventory, plan) ==
    /\ ValidPlan(plan.stages)
    /\ plan.score = ScoreOf(profile, request, inventory, plan.stages)

\* ConstructPlan: an error, no plan, or the best of the complete plans.
ConstructPlan(profile, request, inventory, at) ==
    LET options == Options(request, inventory, at)
        search == Search(profile, request, inventory, options)
        best == CHOOSE plan \in search.complete :
                  \A other \in search.complete : ~Better(other, plan)
    IN IF ~ProfileValid(profile) THEN NoPlan("profile")
       ELSE IF search.operations > request.maxOperations THEN NoPlan("limit")
       ELSE IF search.overflow THEN NoPlan("overflow")
       ELSE IF search.complete = {} THEN NoPlan("none")
       ELSE IF \E plan \in search.complete : ~Rescored(profile, request, inventory, plan)
            THEN NoPlan("disagrees")
       ELSE [kind |-> "plan", stages |-> best.stages, score |-> best.score]
=============================================================================

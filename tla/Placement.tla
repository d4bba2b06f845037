----------------------------- MODULE Placement -----------------------------
(***************************************************************************)
(* Planning on a live mesh: measurements arrive in the profile store while *)
(* the scheduler takes an inventory, a profile snapshot as of the          *)
(* inventory's time and constructs a plan from the two                     *)
(* (SequenceScheduler.snapshots and Prepare, scheduler.go).  Callers read  *)
(* the clock before they observe, so acceptance times come out of order.   *)
(***************************************************************************)
EXTENDS PlanConstruction

CONSTANTS
    LinkValues,      \* measurements of a link
    ComputeValues,   \* measurements of an execution
    Inventories,     \* what the registry may hold
    Requests,        \* planning requests
    None,            \* no inventory taken
    Attempts,        \* defaultSnapshotAttempts
    MaxTime          \* bound: the clock

VARIABLES
    now,             \* the server's clock
    taken,           \* the planner's inventory: its time and the attempt
    planned,         \* the last construction with its evidence
    accepted,        \* [key]: the samples accepted so far, oldest first
    pruned           \* the latest time the store was pruned at

vars == <<storeVars, now, taken, planned, accepted, pruned>>

Samples(key) == IF key \in LinkKeys THEN LinkValues ELSE ComputeValues

Init ==
    /\ StoreInit
    /\ now = 0
    /\ taken = None /\ planned = None
    /\ accepted = [key \in SeriesKeys |-> <<>>]
    /\ pruned = 0

Tick ==
    /\ now < MaxTime
    /\ now' = now + 1
    /\ UNCHANGED <<planned, storeVars, taken, accepted, pruned>>

\* The accepted samples of a key, oldest first.
Sorted(samples) ==
    SortSeq(samples, LAMBDA left, right : Precedes(SampleOrder(left), SampleOrder(right)))

Later(left, right) == IF left > right THEN left ELSE right

Observed(at, batch) ==
    /\ Observe(at, batch)
    /\ accepted' = IF revision' = revision THEN accepted
                   ELSE [key \in SeriesKeys |->
                           IF key \in DOMAIN batch THEN Sorted(Append(accepted[key], batch[key]))
                           ELSE accepted[key]]
    /\ pruned' = IF series' = series THEN pruned ELSE Later(pruned, ReferenceTime(at))
    /\ UNCHANGED <<planned, now, taken>>

\* ObserveLink.
ObserveLink ==
    \E key \in LinkKeys, at, observedAt \in 0..now : \E values \in Samples(key) :
       Observed(at, [k \in {key} |-> [observedAt |-> observedAt, values |-> values]])

\* ObservePlannedSample: one measurement of every stage of a plan, as of the
\* acceptance; ObserveCompute when there is one stage.
ObservePlannedSample ==
    \E keys \in SUBSET ComputeKeys \ {{}}, at \in 0..now :
       \E measured \in [keys -> ComputeValues] :
          Observed(at, [key \in keys |-> [observedAt |-> at, values |-> measured[key]]])

\* Anybody else's snapshot.
ReadProfile ==
    /\ TakeSnapshot(now)
    /\ pruned' = Later(pruned, now)
    /\ UNCHANGED <<planned, now, taken, accepted>>

\* What the inventory holds is left open until a plan is made from it.
TakeInventory ==
    /\ taken = None
    /\ taken' = [at |-> now, attempt |-> 1]
    /\ UNCHANGED <<planned, storeVars, now, accepted, pruned>>

\* An observation was accepted after the inventory was taken.
Retry ==
    /\ taken # None /\ Rewinds(taken.at)
    /\ taken' = IF taken.attempt < Attempts
                THEN [at |-> now, attempt |-> taken.attempt + 1] ELSE None
    /\ UNCHANGED <<planned, storeVars, now, accepted, pruned>>

Plan ==
    /\ taken # None
    /\ TakeSnapshot(taken.at)
    /\ \E request \in Requests, inventory \in Inventories :
          planned' = [at |-> taken.at, inventory |-> inventory, request |-> request,
                      profile |-> Fresh(taken.at),
                      result |-> ConstructPlan(Fresh(taken.at), request, inventory, taken.at)]
    /\ taken' = None
    /\ pruned' = Later(pruned, taken.at)
    /\ UNCHANGED <<now, accepted>>

\* The construction is history: it is looked at and forgotten.
Forget ==
    /\ planned' = None
    /\ UNCHANGED <<storeVars, now, taken, accepted, pruned>>

Next ==
    \/ /\ planned = None
       /\ \/ Tick \/ ObserveLink \/ ObservePlannedSample \/ ReadProfile
          \/ TakeInventory \/ Retry \/ Plan
    \/ planned # None /\ Forget

Spec == Init /\ [][Next]_vars

----------------------------------------------------------------------------
\* Properties

\* No series is empty or longer than its limit, and there are no more than the
\* limit of them; samples are in the order of their times.
TypeOK ==
    /\ DOMAIN series \subseteq SeriesKeys
    /\ Cardinality(DOMAIN series) <= MaxSeries
    /\ \A key \in DOMAIN series :
         /\ series[key] \in Seq(Sample)
         /\ Len(series[key]) \in 1..MaxSamples
         /\ \A i \in 1..(Len(series[key]) - 1) :
              ~Precedes(SampleOrder(series[key][i + 1]), SampleOrder(series[key][i]))
    /\ revision \in 0..RevisionLimit /\ latestAcceptedAt \in 0..MaxTime

\* A plan is made from the evidence there is: of every series the newest samples
\* accepted that are not expired at the plan's time, all stages of an accepted
\* execution or none, in whatever order they arrived.  When a reader with a later
\* clock pruned the store before, some are missing and older ones in their place.
Evidence(key, at) ==
    RetainNewest(NotExpired(accepted[key], at))

PlannedFromEvidence ==
    planned # None =>
       /\ \A key \in DOMAIN planned.profile :
            ToSet(planned.profile[key]) \subseteq ToSet(NotExpired(accepted[key], planned.at))
       /\ pruned = planned.at =>
            planned.profile =
              [key \in {k \in SeriesKeys : Evidence(k, planned.at) # <<>>} |->
                 Evidence(key, planned.at)]

\* Every way to cut the layers into at most maxStages allowed ranges and to give
\* each to a worker of its own that may take it.
CompletePlans(request, inventory, at) ==
    LET Cuts == {cuts \in SUBSET (1..(LayerCount - 1)) : Cardinality(cuts) < request.maxStages}
        Ranges(cuts) ==
          LET bounds == SetToSortSeq(cuts \cup {0, LayerCount}, <)
          IN [i \in 1..(Len(bounds) - 1) |-> <<bounds[i], bounds[i + 1]>>]
        Staged(ranges, targets) ==
          [i \in DOMAIN ranges |->
             Stage(targets[i], ranges[i][1], ranges[i][2], i = 1, i = Len(ranges))]
        Takes(ranges, targets) ==
          /\ IsInjective(targets)
          /\ \A i \in DOMAIN ranges :
               /\ ranges[i] \in DOMAIN request.ranges
               /\ Eligible(inventory[targets[i]], at, ranges[i], request.ranges[ranges[i]])
    IN UNION {{Staged(Ranges(cuts), targets) :
                 targets \in {t \in [1..(Cardinality(cuts) + 1) -> DOMAIN inventory] :
                                Takes(Ranges(cuts), t)}} : cuts \in Cuts}

\* The planner finds the best of all complete plans, a valid one, although it
\* keeps one partial plan for a boundary and a set of workers only, and declines
\* only when there is none or the search was cut off.
PlanOptimal ==
    planned # None =>
       LET result == planned.result
           plans == CompletePlans(planned.request, planned.inventory, planned.at)
           Scored(stages) ==
             [stages |-> stages,
              score |-> ScoreOf(planned.profile, planned.request, planned.inventory, stages)]
       IN /\ result.kind \in {"plan", "none", "limit", "overflow"}
          /\ result.kind = "none" => plans = {}
          /\ result.kind = "plan" =>
               /\ result.stages \in plans /\ ValidPlan(result.stages)
               /\ \A other \in plans : ~Better(Scored(other), Scored(result.stages))
=============================================================================

------------------------- MODULE ExecutionPlanProofs -------------------------
(***************************************************************************)
(* What TLAPS proves of ExecutionPlan, for every number of layers: the     *)
(* plan that BuildBalancedExecutionPlan makes for distinct targets, no     *)
(* more than there are layers, passes ValidateExecutionPlan.               *)
(***************************************************************************)
EXTENDS ExecutionPlan, TLAPS

\* Division with a remainder, the only fact about \div and % the rest uses.
LEMMA Division ==
    ASSUME NEW a \in Nat, NEW n \in Nat, n > 0, a >= n,
           NEW quotient, quotient = a \div n, NEW rest, rest = a % n
    PROVE  /\ quotient \in Nat \ {0}
           /\ rest \in 0..(n - 1)
           /\ a = n * quotient + rest
<1>1. a \div n >= 1 /\ a \div n \in Int
  OBVIOUS
<1>2. a % n \in 0..(n - 1)
  OBVIOUS
<1>3. quotient \in Nat \ {0}
  BY <1>1
<1>4. rest \in Nat
  BY <1>2
<1>5. a = n * quotient + rest
  BY <1>3, <1>4
<1> QED
  BY <1>2, <1>3, <1>5

\* The boundaries start at zero, grow and end at the last layer.
LEMMA Boundaries ==
    ASSUME NEW n \in 1..LayerCount
    PROVE  /\ \A count \in 0..n : BalancedStart(count, n) \in 0..LayerCount
           /\ BalancedStart(0, n) = 0
           /\ BalancedStart(n, n) = LayerCount
           /\ \A fewer, count \in 0..n :
                fewer < count => BalancedStart(fewer, n) < BalancedStart(count, n)
<1> DEFINE base == LayerCount \div n
           remainder == LayerCount % n
           Least(count) == IF count < remainder THEN count ELSE remainder
<1>1. base \in Nat \ {0} /\ remainder \in 0..(n - 1) /\ LayerCount = n * base + remainder
  <2>1. LayerCount \in Nat /\ n \in Nat /\ n > 0 /\ LayerCount >= n
    BY LayerAssumption
  <2> QED
    BY <2>1, Division
<1>2. n \in Nat \ {0} /\ LayerCount \in Nat
  BY LayerAssumption
<1>3. ASSUME NEW count
      PROVE  BalancedStart(count, n) = count * base + Least(count)
  BY DEF BalancedStart
<1> HIDE DEF base, remainder
<1>4. ASSUME NEW fewer \in 0..n, NEW count \in 0..n, fewer < count
      PROVE  /\ fewer * base \in Nat /\ count * base \in Nat
             /\ fewer * base < count * base
             /\ Least(fewer) \in Nat /\ Least(count) \in Nat
             /\ Least(fewer) <= Least(count)
  <2>1. fewer \in Nat /\ count \in Nat /\ base \in Nat /\ base > 0
    BY <1>1, <1>2
  <2>2. fewer * base \in Nat /\ count * base \in Nat /\ fewer * base < count * base
    BY <1>4, <2>1
  <2>3. remainder \in Nat
    BY <1>1, <1>2
  <2>4. Least(fewer) \in Nat /\ Least(count) \in Nat /\ Least(fewer) <= Least(count)
    BY <1>4, <2>1, <2>3
  <2> QED
    BY <2>2, <2>4
<1>5. BalancedStart(0, n) = 0
  BY <1>1, <1>2, <1>3
<1>6. BalancedStart(n, n) = LayerCount
  BY <1>1, <1>2, <1>3
<1>7. \A count \in 0..n : BalancedStart(count, n) \in Nat
  <2> TAKE count \in 0..n
  <2>1. count \in Nat /\ base \in Nat /\ remainder \in Nat
    BY <1>1, <1>2
  <2>2. count * base \in Nat /\ Least(count) \in Nat
    BY <2>1
  <2> QED
    BY <1>3, <2>2
<1>8. \A fewer, count \in 0..n :
        fewer < count => BalancedStart(fewer, n) < BalancedStart(count, n)
  <2> SUFFICES ASSUME NEW fewer \in 0..n, NEW count \in 0..n, fewer < count
               PROVE  BalancedStart(fewer, n) < BalancedStart(count, n)
    OBVIOUS
  <2> DEFINE a == fewer * base
             b == count * base
             c == Least(fewer)
             d == Least(count)
  <2>1. a \in Nat /\ b \in Nat /\ a < b /\ c \in Nat /\ d \in Nat /\ c <= d
    BY <1>4
  <2>2. BalancedStart(fewer, n) = a + c /\ BalancedStart(count, n) = b + d
    BY <1>3
  <2> HIDE DEF a, b, c, d
  <2> QED
    BY <2>1, <2>2
<1>9. \A count \in 0..n : BalancedStart(count, n) <= LayerCount
  <2> TAKE count \in 0..n
  <2>1. n \in 0..n /\ (count = n \/ count < n)
    BY <1>2
  <2> QED
    BY <1>2, <1>6, <1>7, <1>8, <2>1
<1> QED
  BY <1>2, <1>5, <1>6, <1>7, <1>8, <1>9

\* The plan BuildBalancedExecutionPlan makes is valid: contiguous from the first
\* layer to the last, no stage empty, targets and shards distinct, and the input
\* and the output owned by the stages at the ends
\* (BuildBalancedExecutionPlan, ValidateExecutionPlan).
THEOREM BalancedPlanIsValid ==
    ASSUME NEW Targets, NEW targetIDs \in Seq(Targets),
           Len(targetIDs) \in 1..LayerCount,
           \A i, j \in DOMAIN targetIDs : targetIDs[i] = targetIDs[j] => i = j
    PROVE  ValidPlan(BalancedPlan(targetIDs))
<1> DEFINE n == Len(targetIDs)
           stages == BalancedPlan(targetIDs)
<1>1. n \in 1..LayerCount /\ n \in Nat \ {0}
  BY LayerAssumption
<1>2. DOMAIN targetIDs = 1..n
  OBVIOUS
<1> HIDE DEF n
<1>3. DOMAIN stages = 1..n
  BY DEF BalancedPlan, n
<1>4. ASSUME NEW i \in 1..n
      PROVE  /\ stages[i].target = targetIDs[i]
             /\ stages[i].start = BalancedStart(i - 1, n)
             /\ stages[i].end = BalancedStart(i, n)
             /\ stages[i].ownsInput = (i = 1)
             /\ stages[i].ownsOutput = (i = n)
  BY DEF BalancedPlan, Stage, n
<1>5. Len(stages) = n
  <2>1. stages = [index \in 1..n |->
                    Stage(targetIDs[index], BalancedStart(index - 1, n),
                          BalancedStart(index, n), index = 1, index = n)]
    BY DEF BalancedPlan, n
  <2>2. Len([index \in 1..n |->
               Stage(targetIDs[index], BalancedStart(index - 1, n),
                     BalancedStart(index, n), index = 1, index = n)]) = n
    BY <1>1
  <2> QED
    BY <2>1, <2>2
<1> HIDE DEF stages
<1>6. TargetsDistinct(stages)
  BY <1>2, <1>3, <1>4 DEF TargetsDistinct
<1>7. ASSUME NEW i \in 1..n
      PROVE  /\ BalancedStart(i - 1, n) \in 0..LayerCount
             /\ BalancedStart(i, n) \in 0..LayerCount
             /\ BalancedStart(i - 1, n) < BalancedStart(i, n)
  <2>1. i - 1 \in 0..n /\ i \in 0..n /\ i - 1 < i
    BY <1>1
  <2> QED
    BY <1>1, <2>1, Boundaries
<1>8. ShardsDistinct(stages)
  <2> SUFFICES ASSUME NEW i \in 1..n, NEW j \in 1..n, i # j
               PROVE  stages[i].start # stages[j].start
    BY <1>3 DEF ShardsDistinct
  <2>1. i - 1 \in 0..n /\ j - 1 \in 0..n /\ (i - 1 < j - 1 \/ j - 1 < i - 1)
    BY <1>1
  <2>2. \/ BalancedStart(i - 1, n) < BalancedStart(j - 1, n)
        \/ BalancedStart(j - 1, n) < BalancedStart(i - 1, n)
    BY <1>1, <2>1, Boundaries
  <2> QED
    BY <1>4, <1>7, <2>2
<1>9. Contiguous(stages)
  <2>1. ASSUME NEW i \in 1..n
        PROVE  stages[i].start = IF i = 1 THEN 0 ELSE stages[i - 1].end
    <3>1. CASE i = 1
      <4>1. i - 1 = 0
        BY <3>1
      <4>2. BalancedStart(i - 1, n) = 0
        BY <1>1, <4>1, Boundaries
      <4> QED
        BY <1>4, <3>1, <4>2
    <3>2. CASE i # 1
      <4>1. i - 1 \in 1..n
        BY <1>1, <3>2
      <4> QED
        BY <1>4, <3>2, <4>1
    <3> QED
      BY <3>1, <3>2
  <2>2. ASSUME NEW i \in 1..n
        PROVE  stages[i].start < stages[i].end /\ stages[i].end <= LayerCount
    BY <1>4, <1>7
  <2>3. stages[n].end = LayerCount
    <3>1. n \in 1..n
      BY <1>1
    <3> QED
      BY <1>1, <1>4, <3>1, Boundaries
  <2> QED
    BY <1>3, <1>5, <2>1, <2>2, <2>3 DEF Contiguous
<1>10. OwnershipMatches(stages)
  BY <1>3, <1>4, <1>5 DEF OwnershipMatches
<1> QED
  BY <1>1, <1>5, <1>6, <1>8, <1>9, <1>10 DEF ValidPlan, stages
=============================================================================

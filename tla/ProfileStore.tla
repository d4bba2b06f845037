---------------------------- MODULE ProfileStore ----------------------------
(***************************************************************************)
(* The topology and compute profile, ProfileStore                          *)
(* (src/internal/placement/profile.go and profile_generation.go): rolling  *)
(* series of link and compute samples, bounded in age, in samples of a     *)
(* series and in series, of which a snapshot holds what is fresh.          *)
(*                                                                         *)
(* The two maps, and the two copies of the code that keep them, are one    *)
(* function here.  Labels are normalized and valid.  A sample's values are *)
(* <<rtt, payload, elapsed>> of a link and <<tokens, micros>> of an        *)
(* execution; a payload of zero is no transfer.  Times are the server's    *)
(* clock, which callers read before they get the lock.                     *)
(***************************************************************************)
EXTENDS Integers, Sequences, SequencesExt

CONSTANTS
    LinkKeys,           \* linkKey
    ComputeKeys,        \* computeKey
    MaxAge,             \* config.MaxAge
    MaxSamples,         \* config.MaxSamplesPerSeries
    MaxSeries,          \* config.MaxSeries
    RevisionLimit,      \* bound, for math.MaxUint64
    PerSecond           \* micros of a second

ASSUME ProfileAssumption ==
    /\ LinkKeys \cap ComputeKeys = {}
    /\ {MaxAge, MaxSamples, MaxSeries, PerSecond} \subseteq Nat \ {0}
    /\ RevisionLimit \in Nat

VARIABLES
    series,             \* links and compute: the samples of the keys there are
    revision,           \* the store's revision
    latestAcceptedAt    \* the latest time an observation was accepted at

storeVars == <<series, revision, latestAcceptedAt>>

SeriesKeys == LinkKeys \cup ComputeKeys

Sample == [observedAt : Nat, values : Seq(Nat)]

StoreInit == series = <<>> /\ revision = 0 /\ latestAcceptedAt = 0

----------------------------------------------------------------------------
\* Series

\* Lexicographic order of two sequences of numbers.
Precedes(left, right) ==
    \/ \E i \in DOMAIN left \cap DOMAIN right :
         left[i] < right[i] /\ \A j \in 1..(i - 1) : left[j] = right[j]
    \/ Len(left) < Len(right) /\ IsPrefix(left, right)

SampleOrder(sample) == <<sample.observedAt>> \o sample.values

\* Samples stay in the order they arrive in.
InsertedLast(samples, sample) == Append(samples, sample)

\* sortLinkObservations and sortComputeObservations after an append.
Inserted(samples, sample) ==
    LET before == {i \in DOMAIN samples :
                     ~Precedes(SampleOrder(sample), SampleOrder(samples[i]))}
    IN InsertAt(samples, Cardinality(before) + 1, sample)

RetainNewest(samples) ==
    SubSeq(samples, 1 + (IF Len(samples) <= MaxSamples THEN 0 ELSE Len(samples) - MaxSamples),
           Len(samples))

\* What is not older than MaxAge at a time.
NotExpired(samples, at) ==
    LET Current(sample) == sample.observedAt >= at - MaxAge
    IN SelectSeq(samples, Current)

\* pruneExpiredLocked: expired samples go, and series without any.
Pruned(at) ==
    [key \in {k \in DOMAIN series : NotExpired(series[k], at) # <<>>} |->
       NotExpired(series[key], at)]

----------------------------------------------------------------------------
\* Operations

ReferenceTime(at) == IF latestAcceptedAt > at THEN latestAcceptedAt ELSE at

\* validateObservationTimeLocked.
TimeAccepted(at, observedAt) ==
    observedAt <= at /\ observedAt >= ReferenceTime(at) - MaxAge

\* The samples of a batch are put into the series they belong to.
WithBatch(current, batch) ==
    [key \in DOMAIN current \cup DOMAIN batch |->
       IF key \in DOMAIN batch
       THEN RetainNewest(Inserted(IF key \in DOMAIN current THEN current[key] ELSE <<>>,
                                  batch[key]))
       ELSE current[key]]

\* A batch is accepted sample by sample while there is room for its series.
HasRoomForOne(current, batch) == Cardinality(DOMAIN current) < MaxSeries

\* The series limit counts the new series of a batch together.
HasRoomFor(current, batch) ==
    Cardinality(DOMAIN current \cup DOMAIN batch) <= MaxSeries

\* ObserveLink with a batch of one, observeComputeBatch: all of the samples are
\* accepted or none; expired ones may be dropped by the attempt all the same.
\* A batch has one sample for a key.
Observe(at, batch) ==
    LET current == Pruned(ReferenceTime(at))
    IN \/ /\ \E key \in DOMAIN batch : ~TimeAccepted(at, batch[key].observedAt)
          /\ UNCHANGED storeVars
       \/ /\ \A key \in DOMAIN batch : TimeAccepted(at, batch[key].observedAt)
          /\ IF HasRoomFor(current, batch) /\ revision < RevisionLimit
             THEN /\ series' = WithBatch(current, batch)
                  /\ revision' = revision + 1
                  /\ latestAcceptedAt' = ReferenceTime(at)
             ELSE /\ series' = current
                  /\ UNCHANGED <<revision, latestAcceptedAt>>

\* ErrProfileSnapshotRewind.
Rewinds(at) == at < latestAcceptedAt

\* Snapshot drops what has expired.
TakeSnapshot(at) ==
    /\ ~Rewinds(at)
    /\ series' = Pruned(at)
    /\ UNCHANGED <<revision, latestAcceptedAt>>

\* The samples a snapshot summarizes: fresh and not from after its time.
Fresh(at) ==
    LET NotAfter(sample) == sample.observedAt <= at
        current == Pruned(at)
    IN [key \in {k \in DOMAIN current : SelectSeq(current[k], NotAfter) # <<>>} |->
          SelectSeq(current[key], NotAfter)]

----------------------------------------------------------------------------
\* Summaries

\* nearestRank of the 50th percentile of one of the values.
Median(numbers) == SortSeq(numbers, <)[(50 * Len(numbers) + 99) \div 100]

BytesPerSecond(payload, elapsed) ==
    (payload \div elapsed) * PerSecond + ((payload % elapsed) * PerSecond) \div elapsed

\* P50 of one value of a series.
MedianOf(samples, value) == Median([i \in DOMAIN samples |-> samples[i].values[value]])

\* The measured throughputs of a link (summarizeLink).
Throughputs(samples) ==
    LET Transferred(sample) == sample.values[2] > 0
        transfers == SelectSeq(samples, Transferred)
    IN [i \in DOMAIN transfers |-> BytesPerSecond(transfers[i].values[2],
                                                  transfers[i].values[3])]
=============================================================================

---------------------------- MODULE MCPlacement ----------------------------
(***************************************************************************)
(* Small instances of Placement: three workers and three layers.           *)
(***************************************************************************)
EXTENDS Placement

Trio == {1, 2, 3}

FirstLink == {<<1>>}
TwoExecutions == {<<1, <<0, 1>>, "decode">>, <<2, <<1, 3>>, "decode">>}

\* A slow round trip, and a fast one with a transfer.
RoundTrips == {<<6, 0, 0>>, <<1, 4, 1>>}
Executions == {<<1, 1>>, <<1, 7>>}

\* Workers.
Idle == [observedAt |-> 1, capable |-> TRUE, tokenizes |-> TRUE, open |-> 0,
         maxRequests |-> 1, available |-> 3, retainedBytes |-> 0, budget |-> 2,
         retained |-> <<>>, maxOpenPerShard |-> 1,
         failures |-> 0, pressure |-> 0, restarts |-> 0]

Small == [Idle EXCEPT !.available = 2, !.pressure = 1]
Failing == [Idle EXCEPT !.failures = 1, !.restarts = 1]
Headless == [Idle EXCEPT !.tokenizes = FALSE]
Retaining == [Idle EXCEPT !.available = 1, !.retained = [range \in {<<0, 1>>} |-> 0]]
Full == [Idle EXCEPT !.retained = [range \in {<<0, 1>>} |-> 1]]

Meshes == {<<Idle, Failing, Idle>>, <<Retaining, Small, Headless>>, <<Full, Small, Idle>>}

\* Estimates grow with a range's layers.
RangeEstimate(range) ==
    [load |-> range[2] - range[1], sequence |-> 1, prefillBytes |-> 4, decodeBytes |-> 2,
     prefillMicros |-> 2 * (range[2] - range[1]), decodeMicros |-> range[2] - range[1]]

Request(ranges, stages, operations) ==
    [ranges |-> [range \in ranges |-> RangeEstimate(range)],
     maxStages |-> stages, maxOperations |-> operations,
     tokens |-> 2, steps |-> 2, rtt |-> 3, rate |-> 20]

AnySplit == LayerRanges
FirstAlone == LayerRanges \ {<<0, 2>>, <<0, 3>>}

Plans == {Request(AnySplit, 3, 100), Request(AnySplit, 2, 100), Request(FirstAlone, 3, 25)}
=============================================================================

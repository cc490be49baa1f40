-------------------------- MODULE MCTelemetryIngest --------------------------
(***************************************************************************)
(* Small instances of TelemetryIngest.  Times are in half seconds: second  *)
(* 1 is ticks 2 and 3, and the clock starts there.                         *)
(***************************************************************************)
EXTENDS TelemetryIngest, TLC

CONSTANTS d1, d2, m1, m2

It(d, m, s) == [dev |-> d, metric |-> m, stamp |-> s, ok |-> TRUE]
Bad == [dev |-> d1, metric |-> m1, stamp |-> 1, ok |-> FALSE]

Metrics(src, items) == {[kind |-> "metric", src |-> src, items |-> <<i>>] : i \in items}
Batches(seqs) == {[kind |-> "batch", src |-> "grpc", items |-> s] : s \in seqs}

\* A metric of one second, one that the server stamps, a batch that overlaps
\* them, and one that has an invalid item and names an unknown device.
FaultCalls ==
  Metrics("grpc", {It(d1, m1, 1)}) \cup Metrics("mqtt", {It(d1, m2, 0)})
    \cup Batches({<<It(d1, m1, 1), It(d1, m1, 2)>>, <<It(d2, m1, 1), Bad>>})

\* Overlapping work of both kinds, and a batch larger than MaxBatch.
LivenessCalls ==
  Metrics("mqtt", {It(d1, m1, 1)})
    \cup Batches({<<It(d1, m1, 1), It(d1, m2, 2)>>, <<Bad, Bad, Bad>>})

\* Readings of two seconds, so that one can be refused and sent again.
RetryCalls == Metrics("grpc", {It(d1, m1, 1), It(d1, m1, 2)})

\* A batch, and a reading that has to wait behind it.
BatchThenMetric ==
  Metrics("grpc", {It(d1, m2, 3)}) \cup Batches({<<It(d1, m1, 1), It(d1, m1, 2)>>})

Symmetric == Permutations(Request)
=============================================================================

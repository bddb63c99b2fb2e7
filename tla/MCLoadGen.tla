------------------------------ MODULE MCLoadGen ------------------------------
(* The instance of LoadGen that TLC checks. *)
EXTENDS LoadGen

\* In the first bucket of three, and beyond the last.
SomeLatencies == {0, 9}

\* More answers than a run of phases can reach: 101, of which some are the slowest.  The
\* ranks of their percentiles are whole, where the code may be one short.
ManyAnswers(slow) ==
    [l \in Latencies |-> IF l = Max(Latencies) THEN slow
                         ELSE IF l = Min(Latencies) THEN 101 - slow ELSE 0]
Histogram(counts) ==
    [Reset EXCEPT !.ok = SumFunctionOnSet(counts, Latencies),
                  !.buckets = [i \in 0 .. kBuckets - 1 |->
                      SumFunctionOnSet(counts, {l \in Latencies : BucketOf(l) = i})]]

ASSUME ManyAreSummarised ==
    \A slow \in 0 .. 101 : LET counts == ManyAnswers(slow) IN Summarises(Histogram(counts), counts)
=============================================================================

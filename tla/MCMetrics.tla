------------------------------ MODULE MCMetrics ------------------------------
(* The instance of Metrics that TLC checks. *)
EXTENDS Metrics

CONSTANTS t1, t2, p1, s1, s2

TwoThreads == {t1, t2}
OnePath == {p1}
TwoStatuses == {s1, s2}

\* A latency on a bound, between two, and beyond the last.
SomeLatencies == {1, 2, 4}
UnsortedBounds == <<3, 1, 3>>
=============================================================================

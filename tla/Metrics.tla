------------------------------- MODULE Metrics -------------------------------
(***************************************************************************)
(* chmicro::MetricsRegistry and its metrics (src/src/core/metrics.cpp) as  *)
(* the HTTP server uses them (src/src/http/http_server.cpp:111-123): each  *)
(* request observes its latency in the histogram of its path and then      *)
(* increments the counter of its path and status; a request for the        *)
(* exposition text (ToPrometheusText) reads all of them.                   *)
(*                                                                         *)
(* mu_ of the registry guards the maps, not the metrics: a thread that has *)
(* its reference updates the metric whatever holds mu_.  A counter is an   *)
(* atomic, a histogram has a mutex of its own, so an update of one metric  *)
(* is one step.  The scrape takes mu_ first and a histogram's mutex inside *)
(* it; nobody takes them in the other order.                               *)
(***************************************************************************)
EXTENDS Integers, Sequences, FiniteSets, FiniteSetsExt, Functions

CONSTANTS
    Threads,      \* worker threads that serve requests
    Paths,
    Statuses,
    Latencies,    \* latencies that occur, in the unit of the bounds
    bounds,       \* the bucket bounds passed to HistogramMetric, in any order
    MaxRequests,  \* bound: requests counted
    MaxScrapes    \* bound: expositions

ASSUME MetricsAssumption ==
    /\ IsFiniteSet(Threads) /\ "free" \notin Threads /\ IsFiniteSet(Statuses)
    /\ Latencies \subseteq Nat
    /\ bounds \in Seq(Nat)
    /\ MaxRequests \in Nat /\ MaxScrapes \in Nat

Free == "free"
Idle == [at |-> "idle"]

VARIABLES
    mu_,          \* the thread that holds the registry's mutex, or Free
    counters_,    \* value per key that is in the map
    histograms_,  \* [counts, sum, count] per path that is in the map
    pc,           \* what each thread does
    text,         \* the exposition a thread is writing: counters, then histograms
    shown,        \* the last exposition that was returned
    observed,     \* ghost: the latencies observed so far per path, in order
    requests, scrapes

maps == <<counters_, histograms_>>
bounded == <<requests, scrapes>>
vars == <<mu_, maps, pc, text, shown, observed, bounded>>

-----------------------------------------------------------------------------
(* Histogram *)

\* The constructor sorts the bounds.
buckets_ ==
    LET reordered == {[i \in DOMAIN bounds |-> bounds[p[i]]] :
                        p \in Bijection(DOMAIN bounds, DOMAIN bounds)}
    IN  CHOOSE b \in reordered : \A i, j \in DOMAIN b : i <= j => b[i] <= b[j]

NewHistogram == [counts |-> [i \in DOMAIN buckets_ |-> 0], sum |-> 0, count |-> 0]

LowerBound_Strict(v) == {i \in DOMAIN buckets_ : v < buckets_[i]}
\* The buckets at and after std::lower_bound(v); empty when that is end().
LowerBound(v) == {i \in DOMAIN buckets_ : v <= buckets_[i]}

\* Observe(v)
WithObservation(h, v) ==
    [counts |-> IF LowerBound(v) = {} THEN h.counts
                ELSE [h.counts EXCEPT ![Min(LowerBound(v))] = @ + 1],
     sum    |-> h.sum + v,
     count  |-> h.count + 1]

-----------------------------------------------------------------------------
Init ==
    /\ mu_ = Free
    /\ counters_ = [k \in {} |-> 0]
    /\ histograms_ = [p \in {} |-> NewHistogram]
    /\ pc = [t \in Threads |-> Idle]
    /\ text = [t \in Threads |-> [c |-> counters_, h |-> histograms_]]
    /\ shown = [c |-> counters_, h |-> histograms_]
    /\ observed = [p \in Paths |-> <<>>]
    /\ requests = 0
    /\ scrapes = 0

At(t, label) == pc[t].at = label
Goto(t, label) == pc' = [pc EXCEPT ![t].at = label]

\* Value of a map at a key, and the map with an entry added if it has none.
ValueOf(map, k, default) == IF k \in DOMAIN map THEN map[k] ELSE default
WithEntry(map, k, default) ==
    [x \in DOMAIN map \cup {k} |-> IF x \in DOMAIN map THEN map[x] ELSE default]

-----------------------------------------------------------------------------
(* A request: OnRead after the handler has run *)

Order_CounterFirst ==
    [request |-> "find_counter", find_counter |-> "inc", inc |-> "find_histogram",
     find_histogram |-> "observe", observe |-> "idle"]
\* What follows what: the latency is recorded before the request is counted.
Order ==
    [request |-> "find_histogram", find_histogram |-> "observe",
     observe |-> "find_counter", find_counter |-> "inc", inc |-> "idle"]

\* Thread t has executed the step with this label.
Proceed(t, label) ==
    pc' = [pc EXCEPT ![t] = IF Order[label] = "idle" THEN Idle
                            ELSE [@ EXCEPT !.at = Order[label]]]

Request(t) ==
    /\ At(t, "idle")
    /\ requests < MaxRequests
    /\ requests' = requests + 1
    /\ \E p \in Paths, s \in Statuses, v \in Latencies :
         pc' = [pc EXCEPT ![t] = [at |-> Order.request, path |-> p, status |-> s, ms |-> v]]
    /\ UNCHANGED <<mu_, maps, text, shown, observed, scrapes>>

\* HistogramMetric(): find or insert, with mu_ held.
FindHistogram(t) ==
    /\ At(t, "find_histogram") /\ mu_ = Free
    /\ histograms_' = WithEntry(histograms_, pc[t].path, NewHistogram)
    /\ Proceed(t, "find_histogram")
    /\ UNCHANGED <<mu_, counters_, text, shown, observed, bounded>>

Observe(t) ==
    /\ At(t, "observe")
    /\ histograms_' = [histograms_ EXCEPT ![pc[t].path] = WithObservation(@, pc[t].ms)]
    /\ observed' = [observed EXCEPT ![pc[t].path] = Append(@, pc[t].ms)]
    /\ Proceed(t, "observe")
    /\ UNCHANGED <<mu_, counters_, text, shown, bounded>>

FindCounter_Replaces(t) ==
    /\ At(t, "find_counter") /\ mu_ = Free
    /\ counters_' = [x \in DOMAIN counters_ \cup {<<pc[t].path, pc[t].status>>} |->
                        IF x # <<pc[t].path, pc[t].status>> THEN counters_[x] ELSE 0]
    /\ Proceed(t, "find_counter")
    /\ UNCHANGED <<mu_, histograms_, text, shown, observed, bounded>>
\* CounterMetric(): find or insert, with mu_ held.
FindCounter(t) ==
    /\ At(t, "find_counter") /\ mu_ = Free
    /\ counters_' = WithEntry(counters_, <<pc[t].path, pc[t].status>>, 0)
    /\ Proceed(t, "find_counter")
    /\ UNCHANGED <<mu_, histograms_, text, shown, observed, bounded>>

Inc(t) ==
    /\ At(t, "inc")
    /\ counters_' = [counters_ EXCEPT ![<<pc[t].path, pc[t].status>>] = @ + 1]
    /\ Proceed(t, "inc")
    /\ UNCHANGED <<mu_, histograms_, text, shown, observed, bounded>>

-----------------------------------------------------------------------------
(* ToPrometheusText() *)

Scrape_Unlocked(t) ==
    /\ At(t, "idle")
    /\ scrapes < MaxScrapes
    /\ scrapes' = scrapes + 1
    /\ mu_' = t
    /\ text' = [text EXCEPT ![t] = [c |-> [k \in {} |-> 0], h |-> [p \in {} |-> NewHistogram]]]
    /\ Goto(t, "counters")
    /\ UNCHANGED <<maps, shown, observed, requests>>
\* The lock is held until the text is complete.
Scrape(t) ==
    /\ At(t, "idle") /\ mu_ = Free
    /\ scrapes < MaxScrapes
    /\ scrapes' = scrapes + 1
    /\ mu_' = t
    /\ text' = [text EXCEPT ![t] = [c |-> [k \in {} |-> 0], h |-> [p \in {} |-> NewHistogram]]]
    /\ Goto(t, "counters")
    /\ UNCHANGED <<maps, shown, observed, requests>>

\* One round of the loop over counters_, which is unordered.
ReadCounter(t) ==
    /\ At(t, "counters")
    /\ \E k \in DOMAIN counters_ \ DOMAIN text[t].c :
         text' = [text EXCEPT ![t].c = WithEntry(@, k, counters_[k])]
    /\ UNCHANGED <<mu_, maps, pc, shown, observed, bounded>>

CountersDone(t) ==
    /\ At(t, "counters")
    /\ DOMAIN counters_ \subseteq DOMAIN text[t].c
    /\ Goto(t, "histograms")
    /\ UNCHANGED <<mu_, maps, text, shown, observed, bounded>>

\* One round of the loop over histograms_: Snapshot() under the histogram's mutex.
ReadHistogram(t) ==
    /\ At(t, "histograms")
    /\ \E p \in DOMAIN histograms_ \ DOMAIN text[t].h :
         text' = [text EXCEPT ![t].h = WithEntry(@, p, histograms_[p])]
    /\ UNCHANGED <<mu_, maps, pc, shown, observed, bounded>>

\* The text is returned and mu_ released.
ScrapeDone(t) ==
    /\ At(t, "histograms")
    /\ DOMAIN histograms_ \subseteq DOMAIN text[t].h
    /\ shown' = text[t]
    /\ mu_' = Free
    /\ Goto(t, "idle")
    /\ UNCHANGED <<maps, text, observed, bounded>>

-----------------------------------------------------------------------------
ThreadStep(t) ==
    \/ Request(t) \/ FindHistogram(t) \/ Observe(t) \/ FindCounter(t) \/ Inc(t)
    \/ Scrape(t) \/ ReadCounter(t) \/ CountersDone(t) \/ ReadHistogram(t) \/ ScrapeDone(t)

\* All bounded work is done.
Quiet ==
    /\ requests = MaxRequests /\ scrapes = MaxScrapes
    /\ \A t \in Threads : At(t, "idle")
    /\ UNCHANGED vars

Next == Quiet \/ \E t \in Threads : ThreadStep(t)

Spec == Init /\ [][Next]_vars

-----------------------------------------------------------------------------
(* Properties *)

\* The cumulative value that is written for bucket i.
Cumulative(h, i) == SumFunctionOnSet(h.counts, 1 .. i)

\* A path's counters together.
RequestsTotal(counters, p) == SumFunction([s \in Statuses |-> ValueOf(counters, <<p, s>>, 0)])

\* No increment is lost between find-or-insert and Inc(): when no request is under
\* way, the counters of a path add up to the observations of its histogram.
CountersAddUp ==
    (\A t \in Threads : At(t, "idle")) =>
        \A p \in DOMAIN histograms_ :
            histograms_[p].count = RequestsTotal(counters_, p)

\* Every exposition is consistent across metrics although requests go on while it
\* is written: a path's requests_total never exceeds its request_ms_count.  It
\* needs the server's order: Observe, then Inc.
CountersBehindHistograms ==
    \A p \in Paths :
        RequestsTotal(shown.c, p) <= ValueOf(shown.h, p, NewHistogram).count

\* The exposed bucket with bound b counts the observations <= b, for every bound
\* including the equal ones and those beyond the last, although the code finds the
\* bucket by binary search and adds up when it writes.
BucketsCountObservations ==
    \A p \in DOMAIN shown.h :
        LET h == shown.h[p]
            seen == SubSeq(observed[p], 1, h.count)
        IN  /\ h.count <= Len(observed[p])
            /\ h.sum = SumFunction(seen)
            /\ \A i \in DOMAIN buckets_ :
                 Cumulative(h, i) = Cardinality({k \in DOMAIN seen : seen[k] <= buckets_[i]})

\* Successive expositions never go back, whichever threads write them: no counter
\* or histogram that was shown is smaller or missing in the next one.
ScrapesMonotone ==
    [][ /\ \A k \in DOMAIN shown.c : k \in DOMAIN shown'.c /\ shown.c[k] <= shown'.c[k]
        /\ \A p \in DOMAIN shown.h : p \in DOMAIN shown'.h /\ shown.h[p].count <= shown'.h[p].count
      ]_shown
=============================================================================

---------------------------- MODULE MetricsProofs ----------------------------
(***************************************************************************)
(* What the metrics promise however requests and expositions interleave:   *)
(* no increment is lost, a path's counters are behind its histogram in     *)
(* every exposition, no exposition goes back behind the one before, and    *)
(* every bucket counts exactly the observations up to its bound.           *)
(***************************************************************************)
EXTENDS Metrics, Sums, SequenceTheorems, TLAPS

-----------------------------------------------------------------------------
(* RequestsTotal *)

\* The counters c have numbers as values.
Counters(c) == \A k \in DOMAIN c : c[k] \in Nat

\* Nothing in c is ahead of d.
Behind(c, d) == \A k \in DOMAIN c : k \in DOMAIN d /\ c[k] <= d[k]

\* What RequestsTotal adds up.
PerStatus(c, p) == [s \in Statuses |-> ValueOf(c, <<p, s>>, 0)]

LEMMA TotalIsSum ==
    ASSUME NEW c, NEW p, Counters(c)
    PROVE  /\ RequestsTotal(c, p) = SumFunctionOnSet(PerStatus(c, p), Statuses)
           /\ Terms(PerStatus(c, p), Statuses)
  <1>1. Terms(PerStatus(c, p), Statuses)
    BY MetricsAssumption DEF Terms, PerStatus, ValueOf, Counters
  <1>2. RequestsTotal(c, p) = SumFunctionOnSet(PerStatus(c, p), Statuses)
    BY DEF RequestsTotal, SumFunction, PerStatus
  <1>3. QED
    BY <1>1, <1>2

LEMMA TotalType == ASSUME NEW c, NEW p, Counters(c) PROVE RequestsTotal(c, p) \in Nat
  BY TotalIsSum, SumNat

LEMMA TotalGrows ==
    ASSUME NEW c, NEW d, NEW p, Counters(c), Counters(d), Behind(c, d)
    PROVE  RequestsTotal(c, p) <= RequestsTotal(d, p)
  <1>1. \A s \in Statuses : PerStatus(c, p)[s] <= PerStatus(d, p)[s]
    BY DEF PerStatus, ValueOf, Counters, Behind
  <1>2. QED
    BY <1>1, TotalIsSum, SumGrows

\* Counters with the same value under every key of p.
LEMMA TotalSame ==
    ASSUME NEW c, NEW d, NEW p, Counters(c), Counters(d),
           \A s \in Statuses : ValueOf(c, <<p, s>>, 0) = ValueOf(d, <<p, s>>, 0)
    PROVE  RequestsTotal(c, p) = RequestsTotal(d, p)
  BY TotalIsSum DEF PerStatus

\* Inc() of the counter of s.
LEMMA TotalOneMore ==
    ASSUME NEW c, NEW d, NEW p, NEW s \in Statuses, Counters(c), Counters(d),
           ValueOf(d, <<p, s>>, 0) = ValueOf(c, <<p, s>>, 0) + 1,
           \A r \in Statuses : r # s => ValueOf(c, <<p, r>>, 0) = ValueOf(d, <<p, r>>, 0)
    PROVE  RequestsTotal(d, p) = RequestsTotal(c, p) + 1
  <1>1. OneMoreAt(s, PerStatus(c, p), PerStatus(d, p), Statuses)
    BY DEF OneMoreAt, PerStatus
  <1>2. Terms(PerStatus(c, p), Statuses)
    BY TotalIsSum
  <1>3. SumFunctionOnSet(PerStatus(d, p), Statuses) = SumFunctionOnSet(PerStatus(c, p), Statuses) + 1
    BY <1>1, <1>2, SumOneMore
  <1>4. QED
    BY <1>3, TotalIsSum

\* No counter yet.
LEMMA TotalOfNothing ==
    ASSUME NEW c, NEW p, DOMAIN c = {}
    PROVE  RequestsTotal(c, p) = 0
  <1>1. \A s \in Statuses : PerStatus(c, p)[s] = 0
    BY DEF PerStatus, ValueOf
  <1>2. Counters(c)
    BY DEF Counters
  <1>3. QED
    BY <1>1, <1>2, TotalIsSum, SumZero

-----------------------------------------------------------------------------
(* The inductive invariant *)

Serving == {"find_histogram", "observe", "find_counter", "inc"}
Scraping == {"counters", "histograms"}
Requests == [at : Serving, path : Paths, status : Statuses, ms : Latencies]
Others == [at : {"idle"} \cup Scraping]

\* The histograms h have numbers as counts, and are not ahead of those in g.
Histograms(h) == \A p \in DOMAIN h : h[p].count \in Nat
NotAhead(h, g) == \A p \in DOMAIN h : p \in DOMAIN g /\ h[p].count <= g[p].count

\* A path's request_ms_count.
CountOf(h, p) == ValueOf(h, p, NewHistogram).count

Pair(c, h) == [c |-> c, h |-> h]

TypeInv ==
    /\ Counters(counters_) /\ Histograms(histograms_) /\ DOMAIN histograms_ \subseteq Paths
    /\ pc \in [Threads -> Requests \cup Others]
    /\ text = [t \in Threads |-> Pair(text[t].c, text[t].h)]

\* Who writes an exposition holds mu_, so that there is one at a time,
Locked == \A t \in Threads : pc[t].at \in Scraping => mu_ = t

\* and nothing disappears from the maps between find-or-insert and the update.
Entered ==
    \A t \in Threads :
        /\ pc[t].at = "observe" => pc[t].path \in DOMAIN histograms_
        /\ pc[t].at = "inc" => <<pc[t].path, pc[t].status>> \in DOMAIN counters_

\* The requests of a path that are observed and not yet counted are the difference
\* between its histogram and its counters.
Uncounted(p) == {t \in Threads : pc[t].at \in {"find_counter", "inc"} /\ pc[t].path = p}
Balanced ==
    \A p \in Paths :
        CountOf(histograms_, p) = RequestsTotal(counters_, p) + Cardinality(Uncounted(p))

\* An exposition is behind the metrics, and its counters are behind its histograms.
Consistent(c, h) ==
    /\ Counters(c) /\ Behind(c, counters_)
    /\ Histograms(h) /\ NotAhead(h, histograms_)
    /\ \A p \in DOMAIN h : RequestsTotal(c, p) <= h[p].count

\* The exposition (c, h) that is being written at a place is not behind the last one.
NotBack(place, c, h) ==
    /\ \A k \in DOMAIN shown.c \cap DOMAIN c : shown.c[k] <= c[k]
    /\ \A p \in DOMAIN shown.h \cap DOMAIN h : shown.h[p].count <= h[p].count
    /\ place = "counters" => DOMAIN h = {}
    /\ place = "histograms" => DOMAIN shown.c \subseteq DOMAIN c

Written ==
    \A t \in Threads : pc[t].at \in Scraping =>
        Consistent(text[t].c, text[t].h) /\ NotBack(pc[t].at, text[t].c, text[t].h)

Shown == Consistent(shown.c, shown.h) /\ CountersBehindHistograms

IInv == TypeInv /\ Locked /\ Entered /\ Balanced /\ Written /\ Shown

-----------------------------------------------------------------------------
LEMMA Kinds ==
    ASSUME NEW q \in Requests \cup Others
    PROVE  /\ q.at \in Serving => q \in Requests
           /\ q.at \notin Serving => q \in Others
           /\ q.at \in Serving \cup Scraping \cup {"idle"}
  BY DEF Requests, Others, Serving, Scraping

\* The step of a request is done.
LEMMA Proceeds ==
    ASSUME TypeInv, NEW t \in Threads, NEW label \in Serving, At(t, label), Proceed(t, label)
    PROVE  /\ pc[t] \in Requests
           /\ pc' \in [Threads -> Requests \cup Others]
           /\ \A u \in Threads \ {t} : pc'[u] = pc[u]
           /\ pc'[t].at = Order[label]
           /\ label # "inc" => pc'[t].path = pc[t].path /\ pc'[t].status = pc[t].status
  <1>1. pc[t] \in Requests /\ pc \in [Threads -> Requests \cup Others]
    BY Kinds DEF TypeInv, At
  <1>2. CASE label = "inc"
    <2>1. pc' = [pc EXCEPT ![t] = Idle]
      BY <1>2 DEF Proceed, Order
    <2>2. Idle \in Others /\ Idle.at = "idle"
      BY DEF Idle, Others
    <2>3. QED
      BY <1>1, <1>2, <2>1, <2>2 DEF Order
  <1>3. CASE label # "inc"
    <2>1. Order[label] \in Serving
      BY <1>3 DEF Order, Serving
    <2> DEFINE q == [pc[t] EXCEPT !.at = Order[label]]
    <2>2. pc' = [pc EXCEPT ![t] = q]
      BY <2>1 DEF Proceed, Serving
    <2>3. /\ q \in Requests /\ q.at = Order[label] /\ q.path = pc[t].path
          /\ q.status = pc[t].status
      BY <1>1, <2>1 DEF Requests
    <2> HIDE DEF q
    <2>4. QED
      BY <1>1, <2>2, <2>3
  <1>4. QED
    BY <1>2, <1>3

LEMMA ConsistentOn ==
    ASSUME NEW c, NEW h, Consistent(c, h), Behind(counters_, counters_'),
           NotAhead(histograms_, histograms_'), Counters(counters_), Counters(counters_'),
           Histograms(histograms_), Histograms(histograms_')
    PROVE  Consistent(c, h)'
  <1>1. Behind(c, counters_')
    BY DEF Consistent, Behind, Counters
  <1>2. NotAhead(h, histograms_')
    BY DEF Consistent, NotAhead, Histograms
  <1>3. QED
    BY <1>1, <1>2 DEF Consistent

\* Steps of a request leave what is written and what was shown in order.
LEMMA UpdateFrame ==
    ASSUME IInv, TypeInv', UNCHANGED <<text, shown, mu_>>,
           Behind(counters_, counters_'), NotAhead(histograms_, histograms_'),
           \A t \in Threads : pc'[t].at \in Scraping => pc'[t] = pc[t]
    PROVE  Locked' /\ Written' /\ Shown'
  <1>1. /\ Counters(counters_) /\ Counters(counters_')
        /\ Histograms(histograms_) /\ Histograms(histograms_')
    BY DEF IInv, TypeInv
  <1>2. Locked'
    BY DEF IInv, Locked
  <1>3. ASSUME NEW t \in Threads, pc'[t].at \in Scraping
        PROVE  Consistent(text[t].c, text[t].h)' /\ NotBack(pc[t].at, text[t].c, text[t].h)'
    <2>1. PICK c, h : c = text[t].c /\ h = text[t].h
      OBVIOUS
    <2>2. Consistent(c, h) /\ NotBack(pc[t].at, c, h) /\ pc'[t] = pc[t]
      BY <1>3, <2>1 DEF IInv, Written
    <2>3. Consistent(c, h)'
      BY <1>1, <2>2, ConsistentOn
    <2>4. c = text'[t].c /\ h = text'[t].h /\ shown' = shown
      BY <2>1
    <2>5. Consistent(text[t].c, text[t].h)'
      BY <2>3, <2>4 DEF Consistent
    <2>6. NotBack(pc[t].at, text[t].c, text[t].h)'
      BY <2>1, <2>2, <2>4 DEF NotBack
    <2>7. QED
      BY <2>5, <2>6
  <1>4. Shown'
    <2>1. PICK c, h : c = shown.c /\ h = shown.h
      OBVIOUS
    <2>2. Consistent(c, h)
      BY <2>1 DEF IInv, Shown
    <2>3. Consistent(c, h)'
      BY <1>1, <2>2, ConsistentOn
    <2>4. Consistent(shown.c, shown.h)'
      BY <2>1, <2>3 DEF Consistent
    <2>5. CountersBehindHistograms'
      BY DEF IInv, Shown, CountersBehindHistograms
    <2>6. QED
      BY <2>4, <2>5 DEF Shown
  <1>5. QED
    BY <1>2, <1>3, <1>4 DEF Written

\* Nothing is observed or counted.
LEMMA BalanceFrame ==
    ASSUME IInv,
           \A p \in Paths : CountOf(histograms_', p) = CountOf(histograms_, p),
           \A p \in Paths : RequestsTotal(counters_', p) = RequestsTotal(counters_, p),
           \A t \in Threads, p \in Paths :
             pc'[t].at \in {"find_counter", "inc"} /\ pc'[t].path = p <=>
               pc[t].at \in {"find_counter", "inc"} /\ pc[t].path = p
    PROVE  Balanced'
  <1> SUFFICES ASSUME NEW p \in Paths
               PROVE  CountOf(histograms_', p)
                        = RequestsTotal(counters_', p) + Cardinality(Uncounted(p)')
    BY DEF Balanced
  <1>1. Uncounted(p)' = Uncounted(p)
    BY DEF Uncounted
  <1>2. QED
    BY <1>1 DEF IInv, Balanced

LEMMA SameMaps ==
    ASSUME TypeInv
    PROVE  Behind(counters_, counters_) /\ NotAhead(histograms_, histograms_)
  BY DEF TypeInv, Behind, NotAhead, Counters, Histograms

LEMMA RequestInv == ASSUME IInv, NEW t \in Threads, Request(t) PROVE IInv'
  <1>1. PICK p \in Paths, s \in Statuses, v \in Latencies :
          pc' = [pc EXCEPT ![t] = [at |-> Order.request, path |-> p, status |-> s, ms |-> v]]
    BY DEF Request
  <1> DEFINE q == [at |-> "find_histogram", path |-> p, status |-> s, ms |-> v]
  <1>2. pc' = [pc EXCEPT ![t] = q] /\ UNCHANGED <<mu_, maps, text, shown>>
    BY <1>1 DEF Request, Order
  <1>3. q \in Requests /\ q.at = "find_histogram"
    BY DEF Requests, Serving
  <1> HIDE DEF q
  <1>4. pc \in [Threads -> Requests \cup Others] /\ pc[t].at = "idle"
    BY DEF IInv, TypeInv, Request, At
  <1>5. /\ pc' \in [Threads -> Requests \cup Others] /\ pc'[t].at = "find_histogram"
        /\ \A u \in Threads \ {t} : pc'[u] = pc[u]
    BY <1>2, <1>3, <1>4
  <1>6. TypeInv'
    BY <1>2, <1>5 DEF IInv, TypeInv, maps
  <1>7. Locked' /\ Written' /\ Shown'
    BY <1>2, <1>5, <1>6, SameMaps, UpdateFrame DEF IInv, maps, Scraping
  <1>8. Entered'
    BY <1>2, <1>5 DEF IInv, Entered, maps
  <1>9. Balanced'
    BY <1>2, <1>4, <1>5, BalanceFrame DEF maps
  <1>10. QED
    BY <1>6, <1>7, <1>8, <1>9 DEF IInv

LEMMA FindHistogramInv == ASSUME IInv, NEW t \in Threads, FindHistogram(t) PROVE IInv'
  <1> DEFINE p == pc[t].path
  <1>1. /\ At(t, "find_histogram") /\ UNCHANGED <<mu_, counters_, text, shown>>
        /\ histograms_' = WithEntry(histograms_, p, NewHistogram)
        /\ Proceed(t, "find_histogram")
    BY DEF FindHistogram
  <1>2. /\ pc[t] \in Requests /\ pc' \in [Threads -> Requests \cup Others]
        /\ \A u \in Threads \ {t} : pc'[u] = pc[u]
        /\ pc'[t].at = "observe" /\ pc'[t].path = p /\ pc[t].at = "find_histogram"
    BY <1>1, Proceeds DEF Serving, Order, IInv, At
  <1>3. p \in Paths
    BY <1>2 DEF Requests
  <1> HIDE DEF p
  <1>4. NewHistogram.count = 0
    BY DEF NewHistogram
  <1>5. /\ DOMAIN histograms_' = DOMAIN histograms_ \cup {p}
        /\ \A r \in DOMAIN histograms_ : histograms_'[r] = histograms_[r]
        /\ p \notin DOMAIN histograms_ => histograms_'[p] = NewHistogram
    BY <1>1 DEF WithEntry
  <1>6. Histograms(histograms_') /\ DOMAIN histograms_' \subseteq Paths
    BY <1>3, <1>4, <1>5 DEF IInv, TypeInv, Histograms
  <1>7. TypeInv'
    BY <1>1, <1>2, <1>6 DEF IInv, TypeInv
  <1>8. Behind(counters_, counters_') /\ NotAhead(histograms_, histograms_')
    BY <1>1, <1>5, SameMaps DEF IInv, TypeInv, NotAhead, Histograms
  <1>9. Locked' /\ Written' /\ Shown'
    BY <1>1, <1>2, <1>7, <1>8, UpdateFrame DEF Scraping
  <1>10. Entered'
    BY <1>1, <1>2, <1>5 DEF IInv, Entered
  <1>11. \A r \in Paths : CountOf(histograms_', r) = CountOf(histograms_, r)
    BY <1>5 DEF CountOf, ValueOf
  <1>12. Balanced'
    BY <1>1, <1>2, <1>11, BalanceFrame
  <1>13. QED
    BY <1>7, <1>9, <1>10, <1>12 DEF IInv

\* A set of threads with one more or one less.
LEMMA ThreadsFinite ==
    ASSUME NEW A \in SUBSET Threads, NEW t \in Threads
    PROVE  /\ Cardinality(A) \in Nat
           /\ t \notin A => Cardinality(A \cup {t}) = Cardinality(A) + 1
           /\ t \in A => Cardinality(A \ {t}) = Cardinality(A) - 1
  BY MetricsAssumption, FS_Subset, FS_CardinalityType, FS_AddElement, FS_RemoveElement

LEMMA ObserveInv == ASSUME IInv, NEW t \in Threads, Observe(t) PROVE IInv'
  <1> DEFINE p == pc[t].path
             h == WithObservation(histograms_[p], pc[t].ms)
  <1>1. /\ At(t, "observe") /\ UNCHANGED <<mu_, counters_, text, shown>>
        /\ histograms_' = [histograms_ EXCEPT ![p] = h]
        /\ Proceed(t, "observe")
    BY DEF Observe
  <1>2. /\ pc[t] \in Requests /\ pc' \in [Threads -> Requests \cup Others]
        /\ \A u \in Threads \ {t} : pc'[u] = pc[u]
        /\ pc'[t].at = "find_counter" /\ pc'[t].path = p /\ pc[t].at = "observe"
    BY <1>1, Proceeds DEF Serving, Order, IInv, At
  <1>3. p \in Paths /\ p \in DOMAIN histograms_ /\ histograms_[p].count \in Nat
    BY <1>2 DEF Requests, IInv, Entered, TypeInv, Histograms
  <1>4. h.count = histograms_[p].count + 1
    BY DEF WithObservation
  <1> HIDE DEF h, p
  <1>5. /\ DOMAIN histograms_' = DOMAIN histograms_
        /\ histograms_'[p].count = histograms_[p].count + 1
        /\ \A r \in DOMAIN histograms_ : r # p => histograms_'[r] = histograms_[r]
    BY <1>1, <1>3, <1>4
  <1>6. Histograms(histograms_')
    BY <1>3, <1>5 DEF IInv, TypeInv, Histograms
  <1>7. TypeInv'
    BY <1>1, <1>2, <1>5, <1>6 DEF IInv, TypeInv
  <1>8. Behind(counters_, counters_') /\ NotAhead(histograms_, histograms_')
    <2>1. ASSUME NEW r \in DOMAIN histograms_ PROVE histograms_[r].count <= histograms_'[r].count
      <3>1. histograms_[r].count \in Nat
        BY DEF IInv, TypeInv, Histograms
      <3>2. QED
        BY <1>3, <1>5, <3>1
    <2>2. QED
      BY <1>1, <1>5, <2>1, SameMaps DEF IInv, NotAhead
  <1>9. Locked' /\ Written' /\ Shown'
    BY <1>1, <1>2, <1>7, <1>8, UpdateFrame DEF Scraping
  <1>10. Entered'
    BY <1>1, <1>2, <1>5 DEF IInv, Entered
  <1>11. ASSUME NEW r \in Paths
         PROVE  CountOf(histograms_', r)
                  = RequestsTotal(counters_', r) + Cardinality(Uncounted(r)')
    <2>1. /\ CountOf(histograms_, r) = RequestsTotal(counters_, r) + Cardinality(Uncounted(r))
          /\ RequestsTotal(counters_, r) \in Nat /\ UNCHANGED counters_
      BY <1>1, TotalType DEF IInv, Balanced, TypeInv
    <2>2. Uncounted(r) \in SUBSET Threads
      BY DEF Uncounted
    <2>3. CASE r = p
      <3>1. t \notin Uncounted(r) /\ Uncounted(r)' = Uncounted(r) \cup {t}
        BY <1>2, <2>3 DEF Uncounted
      <3>2. /\ Cardinality(Uncounted(r)') = Cardinality(Uncounted(r)) + 1
            /\ Cardinality(Uncounted(r)) \in Nat
        BY <2>2, <3>1, ThreadsFinite
      <3>3. CountOf(histograms_', r) = CountOf(histograms_, r) + 1
        BY <1>3, <1>5, <2>3 DEF CountOf, ValueOf
      <3>4. QED
        BY <2>1, <3>2, <3>3
    <2>4. CASE r # p
      <3>1. Uncounted(r)' = Uncounted(r)
        BY <1>2, <2>4 DEF Uncounted
      <3>2. CountOf(histograms_', r) = CountOf(histograms_, r)
        BY <1>5, <2>4 DEF CountOf, ValueOf
      <3>3. QED
        BY <2>1, <3>1, <3>2
    <2>5. QED
      BY <2>3, <2>4
  <1>12. Balanced'
    BY <1>11 DEF Balanced
  <1>13. QED
    BY <1>7, <1>9, <1>10, <1>12 DEF IInv

LEMMA FindCounterInv == ASSUME IInv, NEW t \in Threads, FindCounter(t) PROVE IInv'
  <1> DEFINE k == <<pc[t].path, pc[t].status>>
  <1>1. /\ At(t, "find_counter") /\ UNCHANGED <<mu_, histograms_, text, shown>>
        /\ counters_' = WithEntry(counters_, k, 0)
        /\ Proceed(t, "find_counter")
    BY DEF FindCounter
  <1>2. /\ pc[t] \in Requests /\ pc' \in [Threads -> Requests \cup Others]
        /\ \A u \in Threads \ {t} : pc'[u] = pc[u]
        /\ pc'[t].at = "inc" /\ pc[t].at = "find_counter"
        /\ pc'[t].path = pc[t].path /\ pc'[t].status = pc[t].status
    BY <1>1, Proceeds DEF Serving, Order, IInv, At
  <1>3. k = <<pc'[t].path, pc'[t].status>>
    BY <1>2
  <1> HIDE DEF k
  <1>4. /\ DOMAIN counters_' = DOMAIN counters_ \cup {k}
        /\ \A j \in DOMAIN counters_ : counters_'[j] = counters_[j]
        /\ k \notin DOMAIN counters_ => counters_'[k] = 0
    BY <1>1 DEF WithEntry
  <1>5. Counters(counters_')
    BY <1>4 DEF IInv, TypeInv, Counters
  <1>6. TypeInv'
    BY <1>1, <1>2, <1>5 DEF IInv, TypeInv
  <1>7. Behind(counters_, counters_') /\ NotAhead(histograms_, histograms_')
    BY <1>1, <1>4, SameMaps DEF IInv, TypeInv, Behind, Counters
  <1>8. Locked' /\ Written' /\ Shown'
    BY <1>1, <1>2, <1>6, <1>7, UpdateFrame DEF Scraping
  <1>9. Entered'
    BY <1>1, <1>2, <1>3, <1>4 DEF IInv, Entered
  <1>10. ASSUME NEW p \in Paths PROVE RequestsTotal(counters_', p) = RequestsTotal(counters_, p)
    <2>1. \A s \in Statuses : ValueOf(counters_', <<p, s>>, 0) = ValueOf(counters_, <<p, s>>, 0)
      BY <1>4 DEF ValueOf
    <2>2. Counters(counters_)
      BY DEF IInv, TypeInv
    <2>3. QED
      BY <1>5, <2>1, <2>2, TotalSame
  <1>11. Balanced'
    BY <1>1, <1>2, <1>10, BalanceFrame
  <1>12. QED
    BY <1>6, <1>8, <1>9, <1>11 DEF IInv

LEMMA IncInv == ASSUME IInv, NEW t \in Threads, Inc(t) PROVE IInv'
  <1> DEFINE p == pc[t].path
             s == pc[t].status
             k == <<p, s>>
  <1>1. /\ At(t, "inc") /\ UNCHANGED <<mu_, histograms_, text, shown>>
        /\ counters_' = [counters_ EXCEPT ![k] = @ + 1]
        /\ Proceed(t, "inc")
    BY DEF Inc
  <1>2. /\ pc[t] \in Requests /\ pc' \in [Threads -> Requests \cup Others]
        /\ \A u \in Threads \ {t} : pc'[u] = pc[u]
        /\ pc'[t].at = "idle" /\ pc[t].at = "inc"
    BY <1>1, Proceeds DEF Serving, Order, IInv, At
  <1>3. p \in Paths /\ s \in Statuses /\ k \in DOMAIN counters_ /\ counters_[k] \in Nat
    BY <1>2 DEF Requests, IInv, Entered, TypeInv, Counters
  <1> HIDE DEF k
  <1>4. /\ DOMAIN counters_' = DOMAIN counters_ /\ counters_'[k] = counters_[k] + 1
        /\ \A j \in DOMAIN counters_ : j # k => counters_'[j] = counters_[j]
    BY <1>1, <1>3
  <1>5. Counters(counters_')
    BY <1>3, <1>4 DEF IInv, TypeInv, Counters
  <1>6. TypeInv'
    BY <1>1, <1>2, <1>5 DEF IInv, TypeInv
  <1>7. Behind(counters_, counters_') /\ NotAhead(histograms_, histograms_')
    <2>1. ASSUME NEW j \in DOMAIN counters_ PROVE counters_[j] <= counters_'[j]
      <3>1. counters_[j] \in Nat
        BY DEF IInv, TypeInv, Counters
      <3>2. QED
        BY <1>3, <1>4, <3>1
    <2>2. QED
      BY <1>1, <1>4, <2>1, SameMaps DEF IInv, Behind
  <1>8. Locked' /\ Written' /\ Shown'
    BY <1>1, <1>2, <1>6, <1>7, UpdateFrame DEF Scraping
  <1>9. Entered'
    BY <1>1, <1>2, <1>4 DEF IInv, Entered
  <1>10. ASSUME NEW r \in Paths
         PROVE  CountOf(histograms_', r)
                  = RequestsTotal(counters_', r) + Cardinality(Uncounted(r)')
    <2>1. /\ CountOf(histograms_, r) = RequestsTotal(counters_, r) + Cardinality(Uncounted(r))
          /\ RequestsTotal(counters_, r) \in Nat /\ UNCHANGED histograms_ /\ Counters(counters_)
      BY <1>1, TotalType DEF IInv, Balanced, TypeInv
    <2>2. Uncounted(r) \in SUBSET Threads
      BY DEF Uncounted
    <2>3. CASE r = p
      <3>1. t \in Uncounted(r) /\ Uncounted(r)' = Uncounted(r) \ {t}
        BY <1>2, <2>3 DEF Uncounted
      <3>2. /\ Cardinality(Uncounted(r)') = Cardinality(Uncounted(r)) - 1
            /\ Cardinality(Uncounted(r)) \in Nat
        BY <2>2, <3>1, ThreadsFinite
      <3>3. /\ ValueOf(counters_', <<p, s>>, 0) = ValueOf(counters_, <<p, s>>, 0) + 1
            /\ \A x \in Statuses : x # s =>
                 ValueOf(counters_, <<p, x>>, 0) = ValueOf(counters_', <<p, x>>, 0)
        BY <1>3, <1>4 DEF ValueOf, k
      <3>4. RequestsTotal(counters_', p) = RequestsTotal(counters_, p) + 1
        BY <1>3, <1>5, <2>1, <3>3, TotalOneMore
      <3>5. QED
        BY <2>1, <2>3, <3>2, <3>4
    <2>4. CASE r # p
      <3>1. Uncounted(r)' = Uncounted(r)
        BY <1>2, <2>4 DEF Uncounted
      <3>2. \A x \in Statuses : ValueOf(counters_', <<r, x>>, 0) = ValueOf(counters_, <<r, x>>, 0)
        BY <1>4, <2>4 DEF ValueOf, k
      <3>3. RequestsTotal(counters_', r) = RequestsTotal(counters_, r)
        BY <1>5, <2>1, <3>2, TotalSame
      <3>4. QED
        BY <2>1, <3>1, <3>3
    <2>5. QED
      BY <2>3, <2>4
  <1>11. Balanced'
    BY <1>10 DEF Balanced
  <1>12. QED
    BY <1>6, <1>8, <1>9, <1>11 DEF IInv

-----------------------------------------------------------------------------
(* ToPrometheusText() *)

LEMMA Goes ==
    ASSUME TypeInv, NEW t \in Threads, NEW label \in Scraping \cup {"idle"},
           pc[t].at \notin Serving, Goto(t, label)
    PROVE  /\ pc' \in [Threads -> Requests \cup Others]
           /\ pc'[t].at = label
           /\ \A u \in Threads \ {t} : pc'[u] = pc[u]
  <1>1. pc \in [Threads -> Requests \cup Others] /\ pc[t] \in Others
    BY Kinds DEF TypeInv
  <1> DEFINE q == [pc[t] EXCEPT !.at = label]
  <1>2. q \in Others /\ q.at = label
    BY <1>1 DEF Others
  <1>3. pc' = [pc EXCEPT ![t] = q]
    BY DEF Goto
  <1> HIDE DEF q
  <1>4. QED
    BY <1>1, <1>2, <1>3

\* Thread t, which serves no request, has written (c, h).
Writes(t, c, h) ==
    /\ UNCHANGED maps
    /\ pc' \in [Threads -> Requests \cup Others]
    /\ pc[t].at \notin Serving /\ pc'[t].at \notin Serving
    /\ \A u \in Threads \ {t} : pc'[u] = pc[u]
    /\ text' = [text EXCEPT ![t] = Pair(c, h)]

LEMMA ScrapeFrame ==
    ASSUME IInv, NEW t \in Threads, NEW c, NEW h, Writes(t, c, h)
    PROVE  /\ TypeInv' /\ Entered' /\ Balanced'
           /\ text'[t].c = c /\ text'[t].h = h
           /\ \A u \in Threads \ {t} : text'[u].c = text[u].c /\ text'[u].h = text[u].h
  <1>1. text = [u \in Threads |-> Pair(text[u].c, text[u].h)]
    BY DEF IInv, TypeInv
  <1>2. /\ text' = [u \in Threads |-> IF u = t THEN Pair(c, h) ELSE text[u]]
        /\ Pair(c, h).c = c /\ Pair(c, h).h = h
    BY <1>1 DEF Writes, Pair
  <1>3. /\ text'[t].c = c /\ text'[t].h = h
        /\ \A u \in Threads \ {t} : text'[u] = text[u]
    BY <1>2
  <1>4. text' = [u \in Threads |-> Pair(text'[u].c, text'[u].h)]
    <2>1. ASSUME NEW u \in Threads PROVE text'[u] = Pair(text'[u].c, text'[u].h)
      BY <1>1, <1>2, <1>3
    <2>2. QED
      BY <1>2, <2>1
  <1>5. TypeInv'
    BY <1>4 DEF IInv, TypeInv, Writes, maps
  <1>6. Entered'
    BY DEF IInv, Entered, Writes, maps, Serving
  <1>7. Balanced'
    BY BalanceFrame DEF Writes, maps, Serving
  <1>8. QED
    BY <1>3, <1>5, <1>6, <1>7

\* (c, h) is consistent and not behind what was shown.
LEMMA WrittenFrame ==
    ASSUME IInv, NEW t \in Threads, NEW c, NEW h, Writes(t, c, h), UNCHANGED shown, Locked',
           pc'[t].at \in Scraping => Consistent(c, h) /\ NotBack(pc'[t].at, c, h)
    PROVE  IInv'
  <1>1. UNCHANGED <<counters_, histograms_, shown>>
    BY DEF Writes, maps
  <1>2. Shown'
    BY <1>1 DEF IInv, Shown, Consistent, CountersBehindHistograms
  <1>3. ASSUME NEW u \in Threads, pc'[u].at \in Scraping
        PROVE  Consistent(text[u].c, text[u].h)' /\ NotBack(pc[u].at, text[u].c, text[u].h)'
    <2>1. PICK d, g : d = text'[u].c /\ g = text'[u].h
      OBVIOUS
    <2>2. Consistent(d, g) /\ NotBack(pc'[u].at, d, g)
      <3>1. CASE u = t
        BY <1>3, <2>1, <3>1, ScrapeFrame
      <3>2. CASE u # t
        BY <1>3, <2>1, <3>2, ScrapeFrame DEF IInv, Written, Writes
      <3>3. QED
        BY <3>1, <3>2
    <2>3. Consistent(text[u].c, text[u].h)'
      BY <1>1, <2>1, <2>2 DEF Consistent
    <2>4. NotBack(pc[u].at, text[u].c, text[u].h)'
      BY <1>1, <2>1, <2>2 DEF NotBack
    <2>5. QED
      BY <2>3, <2>4
  <1>4. Written'
    BY <1>3 DEF Written
  <1>5. QED
    BY <1>2, <1>4, ScrapeFrame DEF IInv

Nothing == [k \in {} |-> 0]
NoHistograms == [p \in {} |-> NewHistogram]

LEMMA ScrapeInv == ASSUME IInv, NEW t \in Threads, Scrape(t) PROVE IInv'
  <1>1. /\ pc[t].at = "idle" /\ mu_ = Free /\ mu_' = t /\ Goto(t, "counters")
        /\ UNCHANGED <<maps, shown>>
        /\ text' = [text EXCEPT ![t] = Pair(Nothing, NoHistograms)]
    BY DEF Scrape, At, Pair, Nothing, NoHistograms
  <1>2. /\ pc' \in [Threads -> Requests \cup Others] /\ pc'[t].at = "counters"
        /\ \A u \in Threads \ {t} : pc'[u] = pc[u]
    BY <1>1, Goes DEF IInv, Serving, Scraping
  <1>3. Writes(t, Nothing, NoHistograms)
    BY <1>1, <1>2 DEF Writes, Serving
  <1>4. Locked'
    BY <1>1, <1>2, MetricsAssumption DEF IInv, Locked, Free
  <1>5. DOMAIN Nothing = {} /\ DOMAIN NoHistograms = {}
    BY DEF Nothing, NoHistograms
  <1> HIDE DEF Nothing, NoHistograms
  <1>6. Consistent(Nothing, NoHistograms) /\ NotBack("counters", Nothing, NoHistograms)
    BY <1>5 DEF Consistent, NotBack, Counters, Histograms, Behind, NotAhead
  <1>7. QED
    BY <1>1, <1>2, <1>3, <1>4, <1>6, WrittenFrame

\* What t has written so far.
LEMMA WrittenSoFar ==
    ASSUME IInv, NEW t \in Threads, pc[t].at \in Scraping, NEW c, NEW h,
           c = text[t].c, h = text[t].h
    PROVE  /\ Consistent(c, h) /\ NotBack(pc[t].at, c, h) /\ text[t] = Pair(c, h)
           /\ \A u \in Threads : pc[u].at \in Scraping => u = t
  BY DEF IInv, Locked, Written, TypeInv

LEMMA ReadCounterInv == ASSUME IInv, NEW t \in Threads, ReadCounter(t) PROVE IInv'
  <1>1. PICK c, h : c = text[t].c /\ h = text[t].h
    OBVIOUS
  <1>2. pc[t].at = "counters" /\ UNCHANGED <<mu_, maps, pc, shown>>
    BY DEF ReadCounter, At
  <1>3. Consistent(c, h) /\ NotBack("counters", c, h) /\ text[t] = Pair(c, h)
    BY <1>1, <1>2, WrittenSoFar DEF Scraping
  <1>4. PICK k \in DOMAIN counters_ \ DOMAIN text[t].c :
          text' = [text EXCEPT ![t].c = WithEntry(@, k, counters_[k])]
    BY DEF ReadCounter
  <1> DEFINE d == WithEntry(c, k, counters_[k])
  <1>5. text' = [text EXCEPT ![t] = Pair(d, h)]
    <2>1. [text[t] EXCEPT !.c = d] = Pair(d, h)
      BY <1>3 DEF Pair
    <2>2. text' = [text EXCEPT ![t] = [text[t] EXCEPT !.c = d]]
      BY <1>1, <1>4
    <2>3. QED
      BY <2>1, <2>2
  <1>6. /\ k \in DOMAIN counters_ /\ DOMAIN d = DOMAIN c \cup {k} /\ d[k] = counters_[k]
        /\ \A j \in DOMAIN c : d[j] = c[j]
    BY <1>1, <1>4 DEF WithEntry
  <1> HIDE DEF d
  <1>7. Counters(counters_) /\ DOMAIN h = {}
    BY <1>3 DEF IInv, TypeInv, NotBack
  <1>8. Consistent(d, h)
    <2>1. Counters(d) /\ Behind(d, counters_)
      BY <1>3, <1>6, <1>7 DEF Consistent, Counters, Behind
    <2>2. QED
      BY <1>3, <1>7, <2>1 DEF Consistent
  <1>9. NotBack("counters", d, h)
    <2>1. ASSUME NEW j \in DOMAIN shown.c \cap DOMAIN d PROVE shown.c[j] <= d[j]
      BY <1>3, <1>6 DEF NotBack, IInv, Shown, Consistent, Behind
    <2>2. QED
      BY <1>7, <2>1 DEF NotBack
  <1>10. Writes(t, d, h) /\ Locked'
    BY <1>2, <1>5 DEF Writes, IInv, TypeInv, Serving, Locked
  <1>11. QED
    BY <1>2, <1>8, <1>9, <1>10, WrittenFrame

LEMMA CountersDoneInv == ASSUME IInv, NEW t \in Threads, CountersDone(t) PROVE IInv'
  <1>1. PICK c, h : c = text[t].c /\ h = text[t].h
    OBVIOUS
  <1>2. /\ pc[t].at = "counters" /\ UNCHANGED <<mu_, maps, text, shown>>
        /\ DOMAIN counters_ \subseteq DOMAIN c /\ Goto(t, "histograms")
    BY <1>1 DEF CountersDone, At
  <1>3. Consistent(c, h) /\ NotBack("counters", c, h) /\ text[t] = Pair(c, h)
    BY <1>1, <1>2, WrittenSoFar DEF Scraping
  <1>4. /\ pc' \in [Threads -> Requests \cup Others] /\ pc'[t].at = "histograms"
        /\ \A u \in Threads \ {t} : pc'[u] = pc[u]
    BY <1>2, Goes DEF IInv, Serving, Scraping
  <1>5. text' = [text EXCEPT ![t] = Pair(c, h)]
    <2>1. text = [u \in Threads |-> Pair(text[u].c, text[u].h)]
      BY DEF IInv, TypeInv
    <2>2. QED
      BY <1>2, <1>3, <2>1
  <1>6. Writes(t, c, h)
    BY <1>2, <1>4, <1>5 DEF Writes, Serving
  <1>7. Locked'
    BY <1>2, <1>4 DEF IInv, Locked, Scraping
  <1>8. DOMAIN shown.c \subseteq DOMAIN c
    BY <1>2 DEF IInv, Shown, Consistent, Behind
  <1>9. NotBack("histograms", c, h)
    BY <1>3, <1>8 DEF NotBack
  <1>10. QED
    BY <1>2, <1>3, <1>4, <1>6, <1>7, <1>9, WrittenFrame

\* The counters of a path that were written are behind its histogram now.
LEMMA HistogramAhead ==
    ASSUME IInv, NEW c, NEW p \in Paths, Counters(c), Behind(c, counters_)
    PROVE  RequestsTotal(c, p) <= CountOf(histograms_, p)
  <1>1. RequestsTotal(c, p) <= RequestsTotal(counters_, p)
    BY TotalGrows DEF IInv, TypeInv
  <1>2. RequestsTotal(c, p) \in Nat /\ RequestsTotal(counters_, p) \in Nat
    BY TotalType DEF IInv, TypeInv
  <1>3. Cardinality(Uncounted(p)) \in Nat
    BY MetricsAssumption, FS_Subset, FS_CardinalityType DEF Uncounted
  <1>4. CountOf(histograms_, p) = RequestsTotal(counters_, p) + Cardinality(Uncounted(p))
    BY DEF IInv, Balanced
  <1>5. QED
    BY <1>1, <1>2, <1>3, <1>4

LEMMA ReadHistogramInv == ASSUME IInv, NEW t \in Threads, ReadHistogram(t) PROVE IInv'
  <1>1. PICK c, h : c = text[t].c /\ h = text[t].h
    OBVIOUS
  <1>2. pc[t].at = "histograms" /\ UNCHANGED <<mu_, maps, pc, shown>>
    BY DEF ReadHistogram, At
  <1>3. Consistent(c, h) /\ NotBack("histograms", c, h) /\ text[t] = Pair(c, h)
    BY <1>1, <1>2, WrittenSoFar DEF Scraping
  <1>4. PICK p \in DOMAIN histograms_ \ DOMAIN text[t].h :
          text' = [text EXCEPT ![t].h = WithEntry(@, p, histograms_[p])]
    BY DEF ReadHistogram
  <1> DEFINE g == WithEntry(h, p, histograms_[p])
  <1>5. text' = [text EXCEPT ![t] = Pair(c, g)]
    <2>1. [text[t] EXCEPT !.h = g] = Pair(c, g)
      BY <1>3 DEF Pair
    <2>2. text' = [text EXCEPT ![t] = [text[t] EXCEPT !.h = g]]
      BY <1>1, <1>4
    <2>3. QED
      BY <2>1, <2>2
  <1>6. /\ p \in DOMAIN histograms_ /\ DOMAIN g = DOMAIN h \cup {p} /\ g[p] = histograms_[p]
        /\ \A q \in DOMAIN h : g[q] = h[q]
    BY <1>1, <1>4 DEF WithEntry
  <1> HIDE DEF g
  <1>7. Histograms(histograms_) /\ p \in Paths
    BY <1>6 DEF IInv, TypeInv
  <1>8. Consistent(c, g)
    <2>1. Histograms(g) /\ NotAhead(g, histograms_)
      BY <1>3, <1>6, <1>7 DEF Consistent, Histograms, NotAhead
    <2>2. RequestsTotal(c, p) <= g[p].count
      BY <1>3, <1>6, <1>7, HistogramAhead DEF Consistent, CountOf, ValueOf
    <2>3. QED
      BY <1>3, <1>6, <2>1, <2>2 DEF Consistent
  <1>9. NotBack("histograms", c, g)
    <2>1. ASSUME NEW q \in DOMAIN shown.h \cap DOMAIN g PROVE shown.h[q].count <= g[q].count
      BY <1>3, <1>6 DEF NotBack, IInv, Shown, Consistent, NotAhead
    <2>2. QED
      BY <1>3, <2>1 DEF NotBack
  <1>10. Writes(t, c, g) /\ Locked'
    BY <1>2, <1>5 DEF Writes, IInv, TypeInv, Serving, Locked
  <1>11. QED
    BY <1>2, <1>8, <1>9, <1>10, WrittenFrame

LEMMA ScrapeDoneInv ==
    ASSUME IInv, NEW t \in Threads, ScrapeDone(t)
    PROVE  IInv' /\ Behind(shown.c, shown'.c) /\ NotAhead(shown.h, shown'.h)
  <1>1. PICK c, h : c = text[t].c /\ h = text[t].h
    OBVIOUS
  <1>2. /\ pc[t].at = "histograms" /\ UNCHANGED <<maps, text>> /\ Goto(t, "idle")
        /\ DOMAIN histograms_ \subseteq DOMAIN h /\ shown' = text[t]
    BY <1>1 DEF ScrapeDone, At
  <1>3. /\ Consistent(c, h) /\ NotBack("histograms", c, h) /\ text[t] = Pair(c, h)
        /\ \A u \in Threads : pc[u].at \in Scraping => u = t
    BY <1>1, <1>2, WrittenSoFar DEF Scraping
  <1>4. /\ pc' \in [Threads -> Requests \cup Others] /\ pc'[t].at = "idle"
        /\ \A u \in Threads \ {t} : pc'[u] = pc[u]
    BY <1>2, Goes DEF IInv, Serving, Scraping
  <1>5. text' = [text EXCEPT ![t] = Pair(c, h)]
    <2>1. text = [u \in Threads |-> Pair(text[u].c, text[u].h)]
      BY DEF IInv, TypeInv
    <2>2. QED
      BY <1>2, <1>3, <2>1
  <1>6. Writes(t, c, h)
    BY <1>2, <1>4, <1>5 DEF Writes, Serving
  <1>7. shown'.c = c /\ shown'.h = h
    BY <1>1, <1>2
  <1>8. Locked' /\ Written'
    BY <1>3, <1>4 DEF Locked, Written, Scraping
  <1>9. CountersBehindHistograms'
    <2> SUFFICES ASSUME NEW p \in Paths
                 PROVE  RequestsTotal(shown'.c, p) <= CountOf(shown'.h, p)
      BY DEF CountersBehindHistograms, CountOf
    <2>1. CASE p \in DOMAIN h
      BY <1>3, <1>7, <2>1 DEF Consistent, CountOf, ValueOf
    <2>2. CASE p \notin DOMAIN h
      <3>1. CountOf(histograms_, p) = CountOf(h, p)
        BY <1>2, <2>2 DEF CountOf, ValueOf
      <3>2. RequestsTotal(c, p) <= CountOf(histograms_, p)
        BY <1>3, HistogramAhead DEF Consistent
      <3>3. QED
        BY <1>7, <3>1, <3>2
    <2>3. QED
      BY <2>1, <2>2
  <1>10. Shown'
    BY <1>2, <1>3, <1>7, <1>9 DEF Shown, Consistent, maps
  <1>11. Behind(shown.c, shown'.c)
    BY <1>3, <1>7 DEF NotBack, Behind
  <1>12. NotAhead(shown.h, shown'.h)
    <2>1. DOMAIN shown.h \subseteq DOMAIN h
      BY <1>2 DEF IInv, Shown, Consistent, NotAhead
    <2>2. QED
      BY <1>3, <1>7, <2>1 DEF NotBack, NotAhead
  <1>13. QED
    BY <1>6, <1>8, <1>10, <1>11, <1>12, ScrapeFrame DEF IInv

-----------------------------------------------------------------------------
LEMMA InitInv == Init => IInv
  <1> SUFFICES ASSUME Init PROVE IInv
    OBVIOUS
  <1>1. /\ counters_ = Nothing /\ histograms_ = NoHistograms
        /\ pc = [t \in Threads |-> Idle]
        /\ text = [t \in Threads |-> Pair(counters_, histograms_)]
        /\ shown = Pair(counters_, histograms_)
    BY DEF Init, Nothing, NoHistograms, Pair
  <1>2. DOMAIN Nothing = {} /\ DOMAIN NoHistograms = {}
    BY DEF Nothing, NoHistograms
  <1>3. Idle \in Others /\ Idle.at = "idle"
    BY DEF Idle, Others
  <1>4. /\ \A t \in Threads : text[t].c = counters_ /\ text[t].h = histograms_
        /\ shown.c = counters_ /\ shown.h = histograms_
    BY <1>1 DEF Pair
  <1> HIDE DEF Nothing, NoHistograms
  <1>5. TypeInv
    BY <1>1, <1>2, <1>3, <1>4 DEF TypeInv, Counters, Histograms
  <1>6. \A t \in Threads : pc[t].at = "idle"
    BY <1>1, <1>3
  <1>7. Locked /\ Entered /\ Written
    BY <1>6 DEF Locked, Entered, Written, Scraping
  <1>8. ASSUME NEW p \in Paths
        PROVE  RequestsTotal(counters_, p) = 0 /\ CountOf(histograms_, p) = 0
    <2>1. CountOf(histograms_, p) = 0
      BY <1>1, <1>2 DEF CountOf, ValueOf, NewHistogram
    <2>2. RequestsTotal(counters_, p) = 0
      BY <1>1, <1>2, TotalOfNothing
    <2>3. QED
      BY <2>1, <2>2
  <1>9. Balanced
    <2>1. ASSUME NEW p \in Paths PROVE Uncounted(p) = {}
      BY <1>6 DEF Uncounted
    <2>2. QED
      BY <1>8, <2>1, FS_EmptySet DEF Balanced
  <1>10. Shown
    <2>1. Consistent(shown.c, shown.h)
      BY <1>1, <1>2, <1>4 DEF Consistent, Counters, Histograms, Behind, NotAhead
    <2>2. CountersBehindHistograms
      BY <1>4, <1>8 DEF CountersBehindHistograms, CountOf
    <2>3. QED
      BY <2>1, <2>2 DEF Shown
  <1>11. QED
    BY <1>5, <1>7, <1>9, <1>10 DEF IInv

\* Nothing changes that the invariant reads.
LEMMA StutterInv == ASSUME IInv, UNCHANGED vars PROVE IInv'
  <1>1. UNCHANGED <<mu_, counters_, histograms_, pc, text, shown>>
    BY DEF vars, maps
  <1>2. TypeInv' /\ Locked' /\ Entered'
    BY <1>1 DEF IInv, TypeInv, Locked, Entered
  <1>3. Balanced'
    BY <1>1 DEF IInv, Balanced, Uncounted
  <1>4. Written' /\ Shown'
    BY <1>1 DEF IInv, Written, Shown, Consistent, NotBack, CountersBehindHistograms
  <1>5. QED
    BY <1>2, <1>3, <1>4 DEF IInv

LEMMA StepInv == IInv /\ [Next]_vars => IInv'
  <1> SUFFICES ASSUME IInv, [Next]_vars PROVE IInv'
    OBVIOUS
  <1>1. ASSUME NEW t \in Threads, ThreadStep(t) PROVE IInv'
    BY <1>1, RequestInv, FindHistogramInv, ObserveInv, FindCounterInv, IncInv, ScrapeInv,
       ReadCounterInv, CountersDoneInv, ReadHistogramInv, ScrapeDoneInv DEF ThreadStep
  <1>2. CASE UNCHANGED vars
    BY <1>2, StutterInv
  <1>3. QED
    BY <1>1, <1>2 DEF Next, Quiet

LEMMA Invariant == Spec => []IInv
  BY InitInv, StepInv, PTL DEF Spec

-----------------------------------------------------------------------------
(* The sorted bounds *)

\* The order p of the first k bounds is ascending.
Ascending(p, k) ==
    /\ p \in Bijection(1 .. k, 1 .. k)
    /\ \A i, j \in 1 .. k : i <= j => bounds[p[i]] <= bounds[p[j]]

LEMMA Bijective ==
    ASSUME NEW S, NEW p
    PROVE  p \in Bijection(S, S) <=>
             /\ p \in [S -> S]
             /\ \A a, b \in S : p[a] = p[b] => a = b
             /\ \A b \in S : \E a \in S : p[a] = b
  BY DEF Bijection, Injection, Surjection, IsInjective

LEMMA BoundNat == ASSUME NEW i \in DOMAIN bounds PROVE bounds[i] \in Nat
  BY MetricsAssumption

\* The next bound goes in front of the first that is greater.
LEMMA Insertion ==
    ASSUME NEW k \in Nat, k + 1 <= Len(bounds), NEW p, Ascending(p, k)
    PROVE  \E q : Ascending(q, k + 1)
  <1> DEFINE Greater == {i \in 1 .. k : bounds[p[i]] > bounds[k + 1]} \cup {k + 1}
  <1>1. PICK m \in Greater : \A i \in Nat : i < m => i \notin Greater
    <2>1. Greater \in SUBSET Nat /\ Greater # {}
      OBVIOUS
    <2> HIDE DEF Greater
    <2>2. QED
      BY <2>1, SmallestNumber
  <1>2. m \in 1 .. k + 1
    OBVIOUS
  <1>3. /\ p \in [1 .. k -> 1 .. k]
        /\ \A a, b \in 1 .. k : p[a] = p[b] => a = b
        /\ \A b \in 1 .. k : \E a \in 1 .. k : p[a] = b
        /\ \A i, j \in 1 .. k : i <= j => bounds[p[i]] <= bounds[p[j]]
    BY Bijective DEF Ascending
  <1>4. \A i \in 1 .. k + 1 : bounds[i] \in Nat
    BY BoundNat, MetricsAssumption
  <1>5. \A i \in 1 .. k : p[i] \in 1 .. k /\ p[i] # k + 1 /\ bounds[p[i]] \in Nat
    <2> SUFFICES ASSUME NEW i \in 1 .. k
                 PROVE  p[i] \in 1 .. k /\ p[i] # k + 1 /\ bounds[p[i]] \in Nat
      OBVIOUS
    <2>1. p[i] \in 1 .. k
      BY <1>3
    <2>2. p[i] \in 1 .. k + 1 /\ p[i] # k + 1
      BY <2>1
    <2>3. QED
      BY <1>4, <2>1, <2>2
  <1>6. /\ \A i \in 1 .. k : i < m => bounds[p[i]] <= bounds[k + 1]
        /\ \A i \in 1 .. k : i >= m => bounds[k + 1] <= bounds[p[i]]
    <2>1. ASSUME NEW i \in 1 .. k, i < m PROVE bounds[p[i]] <= bounds[k + 1]
      BY <1>1, <1>4, <1>5, <2>1
    <2>2. ASSUME NEW i \in 1 .. k, i >= m PROVE bounds[k + 1] <= bounds[p[i]]
      <3>1. m \in 1 .. k /\ bounds[p[m]] > bounds[k + 1]
        BY <1>2, <2>2
      <3>2. bounds[p[m]] <= bounds[p[i]]
        BY <1>3, <2>2, <3>1
      <3>3. QED
        BY <1>4, <1>5, <3>1, <3>2
    <2>3. QED
      BY <2>1, <2>2
  <1> HIDE DEF Greater
  <1> DEFINE q == [i \in 1 .. k + 1 |-> IF i < m THEN p[i] ELSE IF i = m THEN k + 1 ELSE p[i - 1]]
  <1>7. \A i \in 1 .. k + 1 :
          /\ i < m => i \in 1 .. k /\ q[i] = p[i]
          /\ i = m => q[i] = k + 1
          /\ i > m => i - 1 \in 1 .. k /\ i - 1 >= m /\ q[i] = p[i - 1]
    BY <1>2
  <1>8. q \in [1 .. k + 1 -> 1 .. k + 1]
    <2>1. ASSUME NEW i \in 1 .. k + 1 PROVE q[i] \in 1 .. k + 1
      <3>1. \A x \in 1 .. k : x \in 1 .. k + 1
        OBVIOUS
      <3>2. k + 1 \in 1 .. k + 1
        OBVIOUS
      <3>3. i < m \/ i = m \/ i > m
        BY <1>2
      <3> HIDE DEF q
      <3>4. QED
        BY <1>5, <1>7, <3>1, <3>2, <3>3
    <2>2. QED
      BY <2>1
  <1> HIDE DEF q
  <1>9. ASSUME NEW a \in 1 .. k + 1, NEW b \in 1 .. k + 1, q[a] = q[b] PROVE a = b
    <2>0. \A i \in 1 .. k + 1 : i # m => q[i] # k + 1
      BY <1>2, <1>5, <1>7
    <2>1. CASE a = m
      BY <1>7, <1>9, <2>0, <2>1
    <2>2. CASE b = m
      BY <1>7, <1>9, <2>0, <2>2
    <2>3. CASE a # m /\ b # m
      <3> DEFINE A == IF a < m THEN a ELSE a - 1
                 B == IF b < m THEN b ELSE b - 1
      <3>1. A \in 1 .. k /\ q[a] = p[A] /\ B \in 1 .. k /\ q[b] = p[B]
        BY <1>2, <1>7, <2>3
      <3>2. A = B
        BY <1>3, <1>9, <3>1
      <3>3. QED
        BY <1>2, <2>3, <3>2
    <2>4. QED
      BY <2>1, <2>2, <2>3
  <1>10. ASSUME NEW b \in 1 .. k + 1 PROVE \E a \in 1 .. k + 1 : q[a] = b
    <2>1. CASE b = k + 1
      BY <1>2, <1>7, <2>1
    <2>2. CASE b # k + 1
      <3>1. PICK a \in 1 .. k : p[a] = b
        BY <1>3, <2>2
      <3>2. CASE a < m
        BY <1>2, <1>7, <3>1, <3>2
      <3>3. CASE a >= m
        <4>1. a + 1 \in 1 .. k + 1 /\ a + 1 > m /\ (a + 1) - 1 = a
          BY <1>2, <3>3
        <4>2. QED
          BY <1>7, <3>1, <4>1
      <3>4. QED
        BY <1>2, <3>2, <3>3
    <2>3. QED
      BY <2>1, <2>2
  <1>11. ASSUME NEW i \in 1 .. k + 1, NEW j \in 1 .. k + 1, i <= j
         PROVE  bounds[q[i]] <= bounds[q[j]]
    <2>1. CASE j < m
      <3>1. i < m /\ i \in 1 .. k /\ j \in 1 .. k
        BY <1>2, <1>11, <2>1
      <3>2. q[i] = p[i] /\ q[j] = p[j]
        BY <1>7, <2>1, <3>1
      <3>3. QED
        BY <1>3, <1>11, <3>1, <3>2
    <2>2. CASE j = m
      <3>1. CASE i = m
        BY <1>4, <1>7, <1>2, <2>2, <3>1
      <3>2. CASE i < m
        BY <1>6, <1>7, <2>2, <3>2
      <3>3. QED
        BY <1>11, <1>2, <2>2, <3>1, <3>2
    <2>3. CASE j > m
      <3>1. CASE i < m
        <4>1. i <= j - 1 /\ i \in 1 .. k /\ j - 1 \in 1 .. k
          BY <1>2, <1>7, <2>3, <3>1
        <4>2. q[i] = p[i] /\ q[j] = p[j - 1]
          BY <1>7, <2>3, <3>1
        <4>3. QED
          BY <1>3, <4>1, <4>2
      <3>2. CASE i = m
        BY <1>6, <1>7, <2>3, <3>2
      <3>3. CASE i > m
        <4>1. i - 1 <= j - 1 /\ i - 1 \in 1 .. k /\ j - 1 \in 1 .. k
          BY <1>7, <1>11, <2>3, <3>3
        <4>2. q[i] = p[i - 1] /\ q[j] = p[j - 1]
          BY <1>7, <2>3, <3>3
        <4>3. QED
          BY <1>3, <4>1, <4>2
      <3>4. QED
        BY <1>2, <3>1, <3>2, <3>3
    <2>4. QED
      BY <1>2, <2>1, <2>2, <2>3
  <1>12. q \in Bijection(1 .. k + 1, 1 .. k + 1)
    BY <1>8, <1>9, <1>10, Bijective
  <1>13. QED
    BY <1>11, <1>12 DEF Ascending

LEMMA OrderExists == \E p : Ascending(p, Len(bounds))
  <1> DEFINE Bad == {k \in 0 .. Len(bounds) : ~\E p : Ascending(p, k)}
  <1>1. Len(bounds) \in Nat
    BY MetricsAssumption
  <1>2. ASSUME Bad # {} PROVE FALSE
    <2>1. PICK k \in Bad : \A j \in Nat : j < k => j \notin Bad
      <3>1. Bad \in SUBSET Nat
        OBVIOUS
      <3> HIDE DEF Bad
      <3>2. QED
        BY <1>2, <3>1, SmallestNumber
    <2>2. k \in 0 .. Len(bounds) /\ ~\E p : Ascending(p, k)
      OBVIOUS
    <2>3. k # 0
      <3> DEFINE p == [i \in 1 .. 0 |-> i]
      <3>1. 1 .. 0 = {}
        OBVIOUS
      <3>2. Ascending(p, 0)
        BY <3>1, Bijective DEF Ascending
      <3>3. QED
        BY <2>2, <3>2
    <2>4. k - 1 \in Nat /\ (k - 1) + 1 = k /\ k <= Len(bounds) /\ k - 1 \in 0 .. Len(bounds)
      BY <1>1, <2>2, <2>3
    <2>5. \E p : Ascending(p, k - 1)
      BY <2>1, <2>4
    <2>6. QED
      BY <2>2, <2>4, <2>5, Insertion
  <1>3. Len(bounds) \notin Bad
    BY <1>2
  <1>4. QED
    BY <1>1, <1>3

\* The constructor's sort.
LEMMA Sorted ==
    /\ buckets_ \in [1 .. Len(bounds) -> Nat]
    /\ \A i, j \in 1 .. Len(bounds) : i <= j => buckets_[i] <= buckets_[j]
  <1> DEFINE D == DOMAIN bounds
             reordered == {[i \in D |-> bounds[p[i]]] : p \in Bijection(D, D)}
             Asc(b) == \A i, j \in DOMAIN b : i <= j => b[i] <= b[j]
  <1>1. D = 1 .. Len(bounds)
    BY MetricsAssumption
  <1>2. PICK p : Ascending(p, Len(bounds))
    BY OrderExists
  <1>3. p \in Bijection(D, D) /\ \A i, j \in D : i <= j => bounds[p[i]] <= bounds[p[j]]
    BY <1>1, <1>2 DEF Ascending
  <1>4. [i \in D |-> bounds[p[i]]] \in reordered /\ Asc([i \in D |-> bounds[p[i]]])
    BY <1>3
  <1>5. buckets_ \in reordered /\ Asc(buckets_)
    BY <1>4 DEF buckets_
  <1>6. ASSUME NEW r \in Bijection(D, D) PROVE \A i \in D : bounds[r[i]] \in Nat
    BY Bijective, BoundNat
  <1>7. buckets_ \in [D -> Nat]
    BY <1>5, <1>6
  <1>8. QED
    BY <1>1, <1>5, <1>7

-----------------------------------------------------------------------------
(* What a histogram says of the latencies that it was given *)

\* The observations in seen that bucket i of the exposition counts.
Below(seen, i) == {k \in DOMAIN seen : seen[k] <= buckets_[i]}

\* Observe() was called for the latencies in seen, and no other.
Describes(h, seen) ==
    /\ h.counts \in [DOMAIN buckets_ -> Nat]
    /\ h.sum = SumFunction(seen)
    /\ h.count = Len(seen)
    /\ \A i \in DOMAIN buckets_ : Cumulative(h, i) = Cardinality(Below(seen, i))

LEMMA BucketDomain == DOMAIN buckets_ = 1 .. Len(bounds) /\ Len(bounds) \in Nat
  BY Sorted, MetricsAssumption

LEMMA CountTerms ==
    ASSUME NEW c \in [DOMAIN buckets_ -> Nat], NEW i \in DOMAIN buckets_
    PROVE  Terms(c, 1 .. i) /\ 1 .. i \subseteq DOMAIN buckets_ /\ i \in Nat
  <1>1. i \in 1 .. Len(bounds) /\ i \in Nat
    BY BucketDomain
  <1>2. 1 .. i \subseteq DOMAIN buckets_
    BY <1>1, BucketDomain
  <1>3. \A j \in 1 .. i : c[j] \in Nat
    BY <1>2
  <1>4. Terms(c, 1 .. i)
    BY <1>1, <1>3, IntervalTerms
  <1>5. QED
    BY <1>1, <1>2, <1>4

LEMMA SeqTerms ==
    ASSUME NEW seen \in Seq(Latencies)
    PROVE  /\ DOMAIN seen = 1 .. Len(seen) /\ Len(seen) \in Nat
           /\ Terms(seen, 1 .. Len(seen)) /\ SumFunction(seen) = SumFunctionOnSet(seen, 1 .. Len(seen))
  <1>1. DOMAIN seen = 1 .. Len(seen) /\ Len(seen) \in Nat
    OBVIOUS
  <1>2. ASSUME NEW i \in 1 .. Len(seen) PROVE seen[i] \in Nat
    <2>1. seen[i] \in Latencies
      OBVIOUS
    <2>2. QED
      BY <2>1, MetricsAssumption
  <1>3. Terms(seen, 1 .. Len(seen))
    BY <1>1, <1>2, IntervalTerms
  <1>4. SumFunction(seen) = SumFunctionOnSet(seen, 1 .. Len(seen))
    BY <1>1 DEF SumFunction
  <1>5. QED
    BY <1>1, <1>3, <1>4

LEMMA NewDescribesNothing == Describes(NewHistogram, <<>>)
  <1>1. /\ NewHistogram.counts = [i \in DOMAIN buckets_ |-> 0]
        /\ NewHistogram.sum = 0 /\ NewHistogram.count = 0
    BY DEF NewHistogram
  <1>2. NewHistogram.counts \in [DOMAIN buckets_ -> Nat]
    BY <1>1
  <1>3. SumFunction(<<>>) = 0
    BY SumEmpty DEF SumFunction
  <1>4. ASSUME NEW i \in DOMAIN buckets_
        PROVE  Cumulative(NewHistogram, i) = Cardinality(Below(<<>>, i))
    <2>1. Terms(NewHistogram.counts, 1 .. i) /\ \A j \in 1 .. i : NewHistogram.counts[j] = 0
      BY <1>1, <1>2, <1>4, CountTerms
    <2>2. Cumulative(NewHistogram, i) = 0
      BY <2>1, SumZero DEF Cumulative
    <2>3. Below(<<>>, i) = {}
      BY DEF Below
    <2>4. QED
      BY <2>2, <2>3, FS_EmptySet
  <1>5. QED
    BY <1>1, <1>2, <1>3, <1>4 DEF Describes

\* The bucket that Observe(v) increments is one of the first i exactly if v is not
\* above bound i: lower_bound on sorted bounds.
LEMMA BucketOfLatency ==
    ASSUME NEW v \in Nat, LowerBound(v) # {}
    PROVE  /\ Min(LowerBound(v)) \in DOMAIN buckets_
           /\ \A i \in DOMAIN buckets_ : Min(LowerBound(v)) <= i <=> v <= buckets_[i]
  <1> DEFINE m == Min(LowerBound(v))
  <1>1. LowerBound(v) \in SUBSET Nat
    BY BucketDomain DEF LowerBound
  <1>2. \E n \in LowerBound(v) : \A k \in LowerBound(v) : n <= k
    <2>1. PICK n \in LowerBound(v) : \A k \in Nat : k < n => k \notin LowerBound(v)
      BY <1>1, SmallestNumber
    <2>2. QED
      BY <1>1, <2>1
  <1>3. m \in LowerBound(v) /\ \A k \in LowerBound(v) : m <= k
    BY <1>2 DEF Min
  <1> HIDE DEF m
  <1>4. m \in DOMAIN buckets_ /\ v <= buckets_[m]
    BY <1>3 DEF LowerBound
  <1>5. ASSUME NEW i \in DOMAIN buckets_ PROVE m <= i <=> v <= buckets_[i]
    <2>1. m \in 1 .. Len(bounds) /\ i \in 1 .. Len(bounds)
      BY <1>4, BucketDomain
    <2>2. buckets_[m] \in Nat /\ buckets_[i] \in Nat
      BY <2>1, Sorted
    <2>3. ASSUME m <= i PROVE v <= buckets_[i]
      <3>1. buckets_[m] <= buckets_[i]
        BY <2>1, <2>3, Sorted
      <3>2. QED
        BY <1>4, <2>2, <3>1
    <2>4. ASSUME v <= buckets_[i] PROVE m <= i
      BY <1>3, <2>4 DEF LowerBound
    <2>5. QED
      BY <2>3, <2>4
  <1>6. QED
    BY <1>4, <1>5 DEF m

LEMMA BelowOneMore ==
    ASSUME NEW seen \in Seq(Latencies), NEW v \in Latencies, NEW i \in DOMAIN buckets_
    PROVE  /\ Cardinality(Below(seen, i)) \in Nat
           /\ Cardinality(Below(Append(seen, v), i)) =
                Cardinality(Below(seen, i)) + IF v <= buckets_[i] THEN 1 ELSE 0
  <1> DEFINE n == Len(seen)
             B == Below(seen, i)
             C == Below(Append(seen, v), i)
  <1>1. n \in Nat /\ DOMAIN seen = 1 .. n /\ DOMAIN Append(seen, v) = 1 .. n + 1
    OBVIOUS
  <1>2. Append(seen, v)[n + 1] = v /\ \A k \in 1 .. n : Append(seen, v)[k] = seen[k]
    OBVIOUS
  <1>3. IsFiniteSet(B) /\ n + 1 \notin B
    <2>1. B \subseteq 1 .. n
      BY <1>1 DEF Below
    <2>2. IsFiniteSet(1 .. n)
      BY <1>1, FS_Interval
    <2>3. n + 1 \notin 1 .. n
      BY <1>1
    <2> HIDE DEF B, n
    <2>4. QED
      BY <2>1, <2>2, <2>3, FS_Subset
  <1>4. C = B \cup IF v <= buckets_[i] THEN {n + 1} ELSE {}
    <2>1. 1 .. n + 1 = 1 .. n \cup {n + 1}
      BY <1>1
    <2>2. QED
      BY <1>1, <1>2, <2>1 DEF Below
  <1> HIDE DEF B, C, n
  <1>5. Cardinality(B) \in Nat
    BY <1>3, FS_CardinalityType
  <1>6. CASE v <= buckets_[i]
    <2>1. C = B \cup {n + 1}
      BY <1>4, <1>6
    <2>2. Cardinality(C) = Cardinality(B) + 1
      BY <1>3, <2>1, FS_AddElement
    <2>3. QED
      BY <1>5, <1>6, <2>2 DEF B, C
  <1>7. CASE ~(v <= buckets_[i])
    <2>1. C = B
      BY <1>4, <1>7
    <2>2. QED
      BY <1>5, <1>7, <2>1 DEF B, C
  <1>8. QED
    BY <1>6, <1>7

\* Observe(v).
LEMMA ObservationDescribed ==
    ASSUME NEW h, NEW seen \in Seq(Latencies), NEW v \in Latencies, Describes(h, seen)
    PROVE  Describes(WithObservation(h, v), Append(seen, v))
  <1> DEFINE g == WithObservation(h, v)
             m == Min(LowerBound(v))
  <1>1. v \in Nat /\ h.counts \in [DOMAIN buckets_ -> Nat]
    BY MetricsAssumption DEF Describes
  <1>2. /\ g.sum = h.sum + v /\ g.count = h.count + 1
        /\ g.counts = IF LowerBound(v) = {} THEN h.counts ELSE [h.counts EXCEPT ![m] = @ + 1]
    BY DEF WithObservation
  <1>3. g.counts \in [DOMAIN buckets_ -> Nat]
    BY <1>1, <1>2, BucketOfLatency
  <1>4. g.count = Len(Append(seen, v))
    BY <1>2 DEF Describes
  <1>5. g.sum = SumFunction(Append(seen, v))
    <2> DEFINE n == Len(seen)
               s == Append(seen, v)
    <2>1. n \in Nat /\ Terms(seen, 1 .. n) /\ h.sum = SumFunctionOnSet(seen, 1 .. n)
      BY SeqTerms DEF Describes
    <2>2. s \in Seq(Latencies) /\ Len(s) = n + 1 /\ s[n + 1] = v /\ \A k \in 1 .. n : s[k] = seen[k]
      OBVIOUS
    <2>3. SumFunction(s) = SumFunctionOnSet(s, 1 .. n + 1)
      BY <2>2, SeqTerms
    <2> HIDE DEF n, s
    <2>4. Terms(s, 1 .. n) /\ SumFunctionOnSet(s, 1 .. n) = SumFunctionOnSet(seen, 1 .. n)
      BY <2>1, <2>2, SumSame
    <2>5. SumFunctionOnSet(s, 1 .. n + 1) = SumFunctionOnSet(s, 1 .. n) + s[n + 1]
      <3>1. s[n + 1] \in Nat /\ 1 \in Int /\ n \in Int /\ 1 <= n + 1
        BY <1>1, <2>1, <2>2
      <3>2. QED
        BY <2>4, <3>1, SumNext
    <2>6. QED
      BY <1>2, <2>1, <2>2, <2>3, <2>4, <2>5 DEF s
  <1> HIDE DEF g
  <1>6. ASSUME NEW i \in DOMAIN buckets_
        PROVE  Cumulative(g, i) = Cumulative(h, i) + IF v <= buckets_[i] THEN 1 ELSE 0
    <2>1. Terms(h.counts, 1 .. i) /\ 1 .. i \subseteq DOMAIN buckets_ /\ i \in Nat
      BY <1>1, CountTerms
    <2>2. Cumulative(h, i) \in Nat
      BY <2>1, SumNat DEF Cumulative
    <2>3. CASE LowerBound(v) = {}
      <3>1. ~(v <= buckets_[i]) /\ g.counts = h.counts
        BY <1>2, <2>3 DEF LowerBound
      <3>2. QED
        BY <2>2, <3>1 DEF Cumulative
    <2>4. CASE LowerBound(v) # {}
      <3>1. /\ m \in DOMAIN buckets_ /\ (m <= i <=> v <= buckets_[i])
            /\ g.counts = [h.counts EXCEPT ![m] = @ + 1] /\ m \in Nat /\ m >= 1
        BY <1>1, <1>2, <2>4, BucketOfLatency, BucketDomain
      <3> HIDE DEF m
      <3>2. CASE m <= i
        <4>1. m \in 1 .. i /\ OneMoreAt(m, h.counts, g.counts, 1 .. i)
          BY <1>1, <2>1, <3>1, <3>2 DEF OneMoreAt
        <4>2. SumFunctionOnSet(g.counts, 1 .. i) = SumFunctionOnSet(h.counts, 1 .. i) + 1
          BY <2>1, <4>1, SumOneMore
        <4>3. QED
          BY <3>1, <3>2, <4>2 DEF Cumulative
      <3>3. CASE ~(m <= i)
        <4>1. \A j \in 1 .. i : g.counts[j] = h.counts[j]
          BY <1>1, <2>1, <3>1, <3>3
        <4>2. SumFunctionOnSet(g.counts, 1 .. i) = SumFunctionOnSet(h.counts, 1 .. i)
          BY <2>1, <4>1, SumSame
        <4>3. QED
          BY <2>2, <3>1, <3>3, <4>2 DEF Cumulative
      <3>4. QED
        BY <3>2, <3>3
    <2>5. QED
      BY <2>3, <2>4
  <1>7. ASSUME NEW i \in DOMAIN buckets_
        PROVE  Cumulative(g, i) = Cardinality(Below(Append(seen, v), i))
    BY <1>6, <1>7, BelowOneMore DEF Describes
  <1>8. QED
    BY <1>3, <1>4, <1>5, <1>7 DEF Describes, g

\* Each histogram in h describes the first latencies of its path.
Exact(h) ==
    \A p \in DOMAIN h :
        /\ p \in Paths /\ h[p].count \in Nat /\ h[p].count <= Len(observed[p])
        /\ Describes(h[p], SubSeq(observed[p], 1, h[p].count))

\* The histogram of a path describes all of them, and what was written or shown the
\* first ones: those that were observed when Snapshot() was taken.
Current ==
    \A p \in Paths :
        IF p \in DOMAIN histograms_ THEN Describes(histograms_[p], observed[p])
        ELSE observed[p] = <<>>

BucketInv ==
    /\ observed \in [Paths -> Seq(Latencies)]
    /\ Current /\ Exact(shown.h) /\ \A t \in Threads : Exact(text[t].h)

LEMMA InitBuckets == Init => BucketInv
  <1> SUFFICES ASSUME Init PROVE BucketInv
    OBVIOUS
  <1>1. /\ DOMAIN histograms_ = {} /\ shown.h = histograms_
        /\ \A t \in Threads : text[t].h = histograms_
    BY DEF Init
  <1>2. observed = [p \in Paths |-> <<>>]
    BY DEF Init
  <1>3. <<>> \in Seq(Latencies)
    BY EmptySeq
  <1>4. observed \in [Paths -> Seq(Latencies)] /\ Current
    BY <1>1, <1>2, <1>3 DEF Current
  <1>5. QED
    BY <1>1, <1>4 DEF BucketInv, Exact

\* What is exact stays so when further latencies are observed.
LEMMA ExactOn ==
    ASSUME BucketInv, NEW h, Exact(h), NEW p \in Paths, NEW v \in Latencies,
           observed' = [observed EXCEPT ![p] = Append(@, v)]
    PROVE  Exact(h)'
  <1> SUFFICES ASSUME NEW q \in DOMAIN h
               PROVE  /\ q \in Paths /\ h[q].count \in Nat /\ h[q].count <= Len(observed'[q])
                      /\ Describes(h[q], SubSeq(observed'[q], 1, h[q].count))
    BY DEF Exact
  <1>1. /\ q \in Paths /\ h[q].count \in Nat /\ h[q].count <= Len(observed[q])
        /\ Describes(h[q], SubSeq(observed[q], 1, h[q].count))
    BY DEF Exact
  <1>2. observed[q] \in Seq(Latencies)
    BY <1>1 DEF BucketInv
  <1>3. CASE q = p
    <2>1. observed'[q] = Append(observed[q], v)
      BY <1>1, <1>3 DEF BucketInv
    <2> DEFINE s == observed[q]
               n == h[q].count
    <2>2. s \in Seq(Latencies) /\ n \in Nat /\ n <= Len(s)
      BY <1>1, <1>2
    <2> HIDE DEF s, n
    <2>3. n <= Len(Append(s, v)) /\ SubSeq(Append(s, v), 1, n) = SubSeq(s, 1, n)
      BY <2>2
    <2>4. QED
      BY <1>1, <2>1, <2>3 DEF s, n
  <1>4. CASE q # p
    <2>1. observed'[q] = observed[q]
      BY <1>1, <1>4 DEF BucketInv
    <2>2. QED
      BY <1>1, <2>1
  <1>5. QED
    BY <1>3, <1>4

\* No latency is observed.
LEMMA ExactSame == ASSUME NEW h, Exact(h), UNCHANGED observed PROVE Exact(h)'
  BY DEF Exact

LEMMA ObserveBuckets == ASSUME IInv, BucketInv, NEW t \in Threads, Observe(t) PROVE BucketInv'
  <1> DEFINE p == pc[t].path
             v == pc[t].ms
  <1>1. /\ histograms_' = [histograms_ EXCEPT ![p] = WithObservation(@, v)]
        /\ observed' = [observed EXCEPT ![p] = Append(@, v)]
        /\ UNCHANGED <<text, shown>> /\ pc[t].at = "observe"
    BY DEF Observe, At
  <1>2. p \in Paths /\ v \in Latencies /\ p \in DOMAIN histograms_
    <2>1. pc[t] \in Requests
      BY <1>1, Kinds DEF IInv, TypeInv, Serving
    <2>2. QED
      BY <1>1, <2>1 DEF Requests, IInv, Entered
  <1> HIDE DEF p, v
  <1>3. observed' \in [Paths -> Seq(Latencies)]
    BY <1>1, <1>2 DEF BucketInv
  <1>4. Current'
    <2>1. Describes(histograms_[p], observed[p]) /\ observed[p] \in Seq(Latencies)
      BY <1>2 DEF BucketInv, Current
    <2>2. Describes(WithObservation(histograms_[p], v), Append(observed[p], v))
      BY <1>2, <2>1, ObservationDescribed
    <2>3. /\ histograms_'[p] = WithObservation(histograms_[p], v)
          /\ observed'[p] = Append(observed[p], v)
          /\ DOMAIN histograms_' = DOMAIN histograms_
          /\ \A q \in Paths : q # p => histograms_'[q] = histograms_[q] /\ observed'[q] = observed[q]
      BY <1>1, <1>2 DEF BucketInv
    <2>4. QED
      BY <1>2, <2>2, <2>3 DEF BucketInv, Current
  <1>5. \A h : Exact(h) => Exact(h)'
    BY <1>1, <1>2, ExactOn
  <1>6. QED
    BY <1>1, <1>3, <1>4, <1>5 DEF BucketInv

LEMMA FindHistogramBuckets ==
    ASSUME IInv, BucketInv, NEW t \in Threads, FindHistogram(t)
    PROVE  BucketInv'
  <1>1. /\ histograms_' = WithEntry(histograms_, pc[t].path, NewHistogram)
        /\ UNCHANGED <<text, shown, observed>>
    BY DEF FindHistogram
  <1>2. Current'
    <2> SUFFICES ASSUME NEW q \in Paths
                 PROVE  IF q \in DOMAIN histograms_' THEN Describes(histograms_'[q], observed[q])
                        ELSE observed[q] = <<>>
      BY <1>1 DEF Current
    <2>1. IF q \in DOMAIN histograms_ THEN Describes(histograms_[q], observed[q])
          ELSE observed[q] = <<>>
      BY DEF BucketInv, Current
    <2>2. /\ DOMAIN histograms_' = DOMAIN histograms_ \cup {pc[t].path}
          /\ q \in DOMAIN histograms_ => histograms_'[q] = histograms_[q]
          /\ q \in DOMAIN histograms_' \ DOMAIN histograms_ => histograms_'[q] = NewHistogram
      BY <1>1 DEF WithEntry
    <2>3. QED
      BY <2>1, <2>2, NewDescribesNothing
  <1>3. QED
    BY <1>1, <1>2, ExactSame DEF BucketInv

\* Steps that touch no histogram, and no text but that of shown.
LEMMA SameBuckets ==
    ASSUME BucketInv, UNCHANGED <<histograms_, observed, text>>,
           NEW t \in Threads, shown'.h = shown.h \/ shown'.h = text[t].h
    PROVE  BucketInv'
  <1>1. Current'
    BY DEF BucketInv, Current
  <1>2. \A h : Exact(h) => Exact(h)'
    BY ExactSame
  <1>3. QED
    BY <1>1, <1>2 DEF BucketInv

\* t has g in its text now.
LEMMA TextBuckets ==
    ASSUME IInv, BucketInv, UNCHANGED <<histograms_, observed, shown>>,
           NEW t \in Threads, NEW c, NEW g, text' = [text EXCEPT ![t] = Pair(c, g)], Exact(g)
    PROVE  BucketInv'
  <1>1. Current'
    BY DEF BucketInv, Current
  <1>2. ASSUME NEW u \in Threads PROVE text'[u].h = IF u = t THEN g ELSE text[u].h
    <2>1. DOMAIN text = Threads
      BY DEF IInv, TypeInv
    <2>2. QED
      BY <2>1 DEF Pair
  <1>3. \A h : Exact(h) => Exact(h)'
    BY ExactSame
  <1>4. QED
    BY <1>1, <1>2, <1>3 DEF BucketInv

LEMMA ScrapeBuckets == ASSUME IInv, BucketInv, NEW t \in Threads, Scrape(t) PROVE BucketInv'
  <1>1. /\ UNCHANGED <<histograms_, observed, shown>>
        /\ text' = [text EXCEPT ![t] = Pair(Nothing, NoHistograms)]
    BY DEF Scrape, maps, Pair, Nothing, NoHistograms
  <1>2. Exact(NoHistograms)
    BY DEF Exact, NoHistograms
  <1> HIDE DEF Nothing, NoHistograms
  <1>3. QED
    BY <1>1, <1>2, TextBuckets

LEMMA ReadCounterBuckets ==
    ASSUME IInv, BucketInv, NEW t \in Threads, ReadCounter(t)
    PROVE  BucketInv'
  <1>1. UNCHANGED <<histograms_, observed, shown>>
    BY DEF ReadCounter, maps
  <1>2. PICK k \in DOMAIN counters_ \ DOMAIN text[t].c :
          text' = [text EXCEPT ![t].c = WithEntry(@, k, counters_[k])]
    BY DEF ReadCounter
  <1> DEFINE d == WithEntry(text[t].c, k, counters_[k])
             g == text[t].h
  <1>3. text[t] = Pair(text[t].c, g)
    BY DEF IInv, TypeInv
  <1>4. [text[t] EXCEPT !.c = d] = Pair(d, g)
    BY <1>3 DEF Pair
  <1>5. text' = [text EXCEPT ![t] = Pair(d, g)]
    BY <1>2, <1>4
  <1>6. Exact(g)
    BY DEF BucketInv
  <1> HIDE DEF d, g
  <1>7. QED
    BY <1>1, <1>5, <1>6, TextBuckets

LEMMA ReadHistogramBuckets ==
    ASSUME IInv, BucketInv, NEW t \in Threads, ReadHistogram(t)
    PROVE  BucketInv'
  <1>1. UNCHANGED <<histograms_, observed, shown>>
    BY DEF ReadHistogram, maps
  <1>2. PICK p \in DOMAIN histograms_ \ DOMAIN text[t].h :
          text' = [text EXCEPT ![t].h = WithEntry(@, p, histograms_[p])]
    BY DEF ReadHistogram
  <1> DEFINE c == text[t].c
             h == text[t].h
             g == WithEntry(h, p, histograms_[p])
  <1>3. text[t] = Pair(c, h)
    BY DEF IInv, TypeInv
  <1>4. [text[t] EXCEPT !.h = g] = Pair(c, g)
    BY <1>3 DEF Pair
  <1>5. text' = [text EXCEPT ![t] = Pair(c, g)]
    BY <1>2, <1>4
  <1>6. Exact(g)
    <2>1. Exact(h) /\ p \in Paths /\ p \notin DOMAIN h
      BY <1>2 DEF BucketInv, IInv, TypeInv
    <2>2. Describes(histograms_[p], observed[p]) /\ observed[p] \in Seq(Latencies)
      BY <1>2, <2>1 DEF BucketInv, Current
    <2>3. /\ histograms_[p].count = Len(observed[p]) /\ Len(observed[p]) \in Nat
          /\ SubSeq(observed[p], 1, Len(observed[p])) = observed[p]
      BY <2>2 DEF Describes
    <2>4. /\ DOMAIN g = DOMAIN h \cup {p}
          /\ \A q \in DOMAIN h : g[q] = h[q]
          /\ g[p] = histograms_[p]
      BY <2>1 DEF WithEntry
    <2> HIDE DEF g, h
    <2>5. Len(observed[p]) <= Len(observed[p])
      BY <2>3
    <2>6. ASSUME NEW q \in DOMAIN g
          PROVE  /\ q \in Paths /\ g[q].count \in Nat /\ g[q].count <= Len(observed[q])
                 /\ Describes(g[q], SubSeq(observed[q], 1, g[q].count))
      <3>1. CASE q = p
        BY <2>1, <2>2, <2>3, <2>4, <2>5, <3>1
      <3>2. CASE q # p
        BY <2>1, <2>4, <3>2 DEF Exact
      <3>3. QED
        BY <3>1, <3>2
    <2>7. QED
      BY <2>6 DEF Exact
  <1> HIDE DEF c, g
  <1>7. QED
    BY <1>1, <1>5, <1>6, TextBuckets

LEMMA StepBuckets == IInv /\ BucketInv /\ [Next]_vars => BucketInv'
  <1> SUFFICES ASSUME IInv, BucketInv, [Next]_vars PROVE BucketInv'
    OBVIOUS
  <1>1. ASSUME NEW t \in Threads, ThreadStep(t) PROVE BucketInv'
    <2>1. CASE Request(t) \/ FindCounter(t) \/ Inc(t) \/ CountersDone(t) \/ ScrapeDone(t)
      <3>1. /\ UNCHANGED <<histograms_, observed, text>>
            /\ shown' = shown \/ shown' = text[t]
        BY <2>1 DEF Request, FindCounter, Inc, CountersDone, ScrapeDone, maps
      <3>2. QED
        BY <3>1, SameBuckets
    <2>2. QED
      BY <1>1, <2>1, FindHistogramBuckets, ObserveBuckets, ScrapeBuckets, ReadCounterBuckets,
         ReadHistogramBuckets DEF ThreadStep
  <1>2. CASE UNCHANGED vars
    <2>1. UNCHANGED <<histograms_, observed, text, shown>>
      BY <1>2 DEF vars, maps
    <2>2. Current'
      BY <2>1 DEF BucketInv, Current
    <2>3. \A h : Exact(h) => Exact(h)'
      BY <2>1, ExactSame
    <2>4. QED
      BY <2>1, <2>2, <2>3 DEF BucketInv
  <1>3. QED
    BY <1>1, <1>2 DEF Next, Quiet

-----------------------------------------------------------------------------
(* Metrics *)

\* When no request is under way the counters of a path add up to the observations of
\* its histogram, whatever requests raced to enter and to update them: the difference
\* is the number of requests between Observe() and Inc().
THEOREM CountersAdd == Spec => []CountersAddUp
  <1>1. ASSUME IInv PROVE CountersAddUp
    <2> SUFFICES ASSUME \A t \in Threads : pc[t].at = "idle", NEW p \in DOMAIN histograms_
                 PROVE  histograms_[p].count = RequestsTotal(counters_, p)
      BY DEF CountersAddUp, At
    <2>1. p \in Paths
      BY <1>1 DEF IInv, TypeInv
    <2>2. Uncounted(p) = {}
      BY DEF Uncounted
    <2>3. histograms_[p].count = RequestsTotal(counters_, p) + 0
      BY <1>1, <2>1, <2>2, FS_EmptySet DEF IInv, Balanced, CountOf, ValueOf
    <2>4. RequestsTotal(counters_, p) \in Nat
      BY <1>1, TotalType DEF IInv, TypeInv
    <2>5. QED
      BY <2>3, <2>4
  <1>2. QED
    BY <1>1, Invariant, PTL

\* In every exposition a path's requests_total is at most its request_ms_count,
\* although requests go on between the reads of the two.
THEOREM CountersBehind == Spec => []CountersBehindHistograms
  <1>1. IInv => CountersBehindHistograms
    BY DEF IInv, Shown
  <1>2. QED
    BY <1>1, Invariant, PTL

\* No exposition goes back behind the one before, whichever threads write them.
THEOREM ExpositionsGrow == Spec => ScrapesMonotone
  <1>1. ASSUME IInv, [Next]_vars
        PROVE  [Behind(shown.c, shown'.c) /\ NotAhead(shown.h, shown'.h)]_shown
    <2>1. ASSUME NEW t \in Threads, ThreadStep(t)
          PROVE  [Behind(shown.c, shown'.c) /\ NotAhead(shown.h, shown'.h)]_shown
      <3>1. CASE ScrapeDone(t)
        BY <1>1, <3>1, ScrapeDoneInv
      <3>2. CASE ~ScrapeDone(t)
        BY <2>1, <3>2 DEF ThreadStep, Request, FindHistogram, Observe, FindCounter, Inc,
           Scrape, ReadCounter, CountersDone, ReadHistogram
      <3>3. QED
        BY <3>1, <3>2
    <2>2. CASE UNCHANGED vars
      BY <2>2 DEF vars
    <2>3. QED
      BY <1>1, <2>1, <2>2 DEF Next, Quiet
  <1>2. IInv /\ [Next]_vars =>
         [ /\ \A k \in DOMAIN shown.c : k \in DOMAIN shown'.c /\ shown.c[k] <= shown'.c[k]
           /\ \A p \in DOMAIN shown.h : p \in DOMAIN shown'.h /\ shown.h[p].count <= shown'.h[p].count
         ]_shown
    BY <1>1 DEF Behind, NotAhead
  <1>3. QED
    BY <1>2, Invariant, PTL DEF Spec, ScrapesMonotone

\* In every exposition the bucket with bound b counts exactly the observations <= b of
\* those that the histogram has counted, whatever the bounds and their order, and the sum
\* is theirs: std::lower_bound on the sorted bounds and the running total in
\* ToPrometheusText() agree with the definition of a histogram.
THEOREM BucketsExact == Spec => []BucketsCountObservations
  <1>1. BucketInv => BucketsCountObservations
    BY DEF BucketInv, BucketsCountObservations, Exact, Describes, Below
  <1>2. Spec => []BucketInv
    BY InitBuckets, StepBuckets, Invariant, PTL DEF Spec
  <1>3. QED
    BY <1>1, <1>2, PTL
=============================================================================

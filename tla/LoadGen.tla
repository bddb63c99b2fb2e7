------------------------------- MODULE LoadGen -------------------------------
(***************************************************************************)
(* The load generator (src/examples/loadgen/http_loadgen.cpp): main() with *)
(* its warm-up and measured phases, the sessions that it starts in each,   *)
(* and the histogram that they share.                                      *)
(*                                                                         *)
(* A session is a chain of operations, one outstanding at a time, and one  *)
(* timer_ that serves two purposes: the deadline of a request and the      *)
(* pause before a reconnect.  A handler is one step: it shares nothing     *)
(* with other sessions but atomics, and main() touches them only when the  *)
(* threads are joined.  (With several threads two handlers of one session  *)
(* may overlap; the model gives them some order.)                          *)
(***************************************************************************)
EXTENDS Integers, FiniteSets, FiniteSetsExt, Functions

CONSTANTS
    Concurrency,  \* sessions started by each phase
    kBuckets,     \* buckets of the histogram
    Latencies,    \* latencies that occur, in microseconds
    MaxAnswers,   \* bound: responses in each phase
    MaxErrors,    \* bound: err_ is not counted further
    MaxLate       \* bound: expired request timers whose handler is queued

ASSUME LoadGenAssumption ==
    /\ Concurrency \in Nat \ {0} /\ kBuckets \in Nat \ {0}
    /\ Latencies \subseteq Nat /\ IsFiniteSet(Latencies)
    /\ MaxAnswers \in Nat /\ MaxErrors \in Nat /\ MaxLate \in Nat \ {0}

WarmupSessions == 1 .. Concurrency
MeasuredSessions == Concurrency + 1 .. 2 * Concurrency
Sessions == WarmupSessions \cup MeasuredSessions
StreamOps == {"connect", "write", "read"}

VARIABLES
    main,      \* where main() is
    past,      \* the clock has passed stop_at_ns
    session,   \* per session: the outstanding operation op (or "new", "paused",
               \* "ended") and its result res, the pending wait of timer_, the
               \* expired waits whose handlers are queued (late: OnTimeout, due:
               \* OnReconnectTimer), and whether the socket is open
    hist_,     \* LatencyHistogram
    seen       \* ghost: how often each latency was recorded since Reset()

vars == <<main, past, session, hist_, seen>>

NewSession == [op |-> "new", res |-> "ok", wait |-> "none", late |-> 0, due |-> 0, open |-> FALSE]
Reset == [ok |-> 0, err |-> 0, buckets |-> [i \in 0 .. kBuckets - 1 |-> 0]]

Init ==
    /\ main \in {"start", "between"}   \* with and without a warm-up
    /\ past = FALSE
    /\ session = [s \in Sessions |-> NewSession]
    /\ hist_ = Reset
    /\ seen = [l \in Latencies |-> 0]

-----------------------------------------------------------------------------
(* LatencyHistogram *)

Log2Floor(v) == CHOOSE i \in 0 .. v : 2 ^ i <= v /\ v < 2 ^ (i + 1)

BucketOf(l) == Min({Log2Floor(l + 1), kBuckets - 1})

RecordOk(l) ==
    /\ hist_' = [hist_ EXCEPT !.ok = @ + 1, !.buckets[BucketOf(l)] = @ + 1]
    /\ seen' = [seen EXCEPT ![l] = @ + 1]

RecordErr ==
    /\ hist_' = [hist_ EXCEPT !.err = Min({@ + 1, MaxErrors})]
    /\ UNCHANGED seen

\* The ranks that ApproxPercentileUs may take for the percentile p, in thousandths, of n + 1
\* answers: it truncates (long double)n * p, and the doubles 0.99 and 0.999 lie below the
\* decimals.  A whole product is one less where long double is wider than double, and
\* exact where it is not.
Ranks(n, p) ==
    {(n * p) \div 1000} \cup
    {r \in {(n * p) \div 1000 - 1} : p \in {990, 999} /\ n > 0 /\ (n * p) % 1000 = 0}

\* What it prints for a rank: the first power of two whose bucket reaches beyond it.
ForRank(h, rank) ==
    LET beyond == {i \in DOMAIN h.buckets : SumFunctionOnSet(h.buckets, 0 .. i) > rank}
    IN  2 ^ (IF beyond = {} THEN kBuckets - 1 ELSE Min(beyond))

Percentile(h, p) ==
    IF h.ok = 0 THEN {0} ELSE {ForRank(h, rank) : rank \in Ranks(h.ok - 1, p)}

-----------------------------------------------------------------------------
(* What the handlers do to their session q *)

ShouldStop == main = "stopping" \/ past

Ended(q) == [q EXCEPT !.op = "ended"]

\* An operation that is started on a closed socket fails.
Begin(q, op) == [q EXCEPT !.op = op, !.res = IF q.open THEN "pending" ELSE "error"]

\* Closing the socket aborts the operation that is outstanding on it.
Close(q) ==
    [q EXCEPT !.open = FALSE,
              !.res = IF q.op \in StreamOps /\ @ = "pending" THEN "error" ELSE @]

Resolve(q) ==
    IF ShouldStop THEN Ended(q) ELSE [q EXCEPT !.op = "resolve", !.res = "pending"]

DoRequest(q) ==
    IF ShouldStop THEN Ended(Close(q)) ELSE [Begin(q, "write") EXCEPT !.wait = "request"]

ReconnectSoon(q) ==
    IF ShouldStop THEN Ended(Close(q))
    ELSE [Close(q) EXCEPT !.op = "paused", !.wait = "reconnect"]

\* timer_.cancel() reaches a pending wait, not a handler that is queued.
Cancel(q) == [q EXCEPT !.wait = "none"]

-----------------------------------------------------------------------------
(* main() *)

Running == main \in {"warmup", "measured", "stopping"}

\* Both phases reset the histogram and the deadline and start their sessions before
\* any thread runs the context.
StartPhase(phase, new) ==
    /\ main' = phase
    /\ past' = FALSE
    /\ session' = [s \in Sessions |-> IF s \in new
                     THEN [NewSession EXCEPT !.op = "resolve", !.res = "pending"]
                     ELSE session[s]]
    /\ hist_' = Reset
    /\ seen' = [l \in Latencies |-> 0]

StartWarmup == main = "start" /\ StartPhase("warmup", WarmupSessions)

StartMeasured_NoReset ==
    /\ main = "between" /\ main' = "measured" /\ past' = FALSE
    /\ session' = [s \in Sessions |-> IF s \in MeasuredSessions
                     THEN [NewSession EXCEPT !.op = "resolve", !.res = "pending"]
                     ELSE session[s]]
    /\ seen' = [l \in Latencies |-> 0]
    /\ UNCHANGED hist_
StartMeasured == main = "between" /\ StartPhase("measured", MeasuredSessions)

DeadlinePasses ==
    /\ Running /\ ~past
    /\ past' = TRUE
    /\ UNCHANGED <<main, session, hist_, seen>>

\* sleep_for ends after stop_at_ns.  The warm-up stops the context at once, the
\* measured phase sets stop first; the threads are joined and the context's queue
\* and timers stay as they are.
EndSleep ==
    /\ main \in {"warmup", "measured"} /\ past
    /\ main' = IF main = "warmup" THEN "between" ELSE "stopping"
    /\ UNCHANGED <<past, session, hist_, seen>>

StopContext ==
    /\ main = "stopping"
    /\ main' = "done"
    /\ UNCHANGED <<past, session, hist_, seen>>

-----------------------------------------------------------------------------
(* The network and the clock *)

Set(s, q) == session' = [session EXCEPT ![s] = q]
Answers == SumFunctionOnSet(seen, Latencies)

Complete(s) ==
    /\ Running /\ session[s].op \in StreamOps \cup {"resolve"} /\ session[s].res = "pending"
    /\ \E r \in {"ok", "error"} :
         /\ session[s].op = "read" /\ r = "ok" => Answers < MaxAnswers
         /\ Set(s, [session[s] EXCEPT !.res = r])
    /\ UNCHANGED <<main, past, hist_, seen>>

\* stream_.expires_after(), which is set before the connect and never again.
StreamExpires(s) ==
    /\ Running /\ session[s].op \in StreamOps /\ session[s].res = "pending"
    /\ Set(s, Close(session[s]))
    /\ UNCHANGED <<main, past, hist_, seen>>

TimerExpires(s) ==
    /\ Running
    /\ \/ /\ session[s].wait = "request" /\ session[s].late < MaxLate
          /\ Set(s, [session[s] EXCEPT !.wait = "none", !.late = @ + 1])
       \/ /\ session[s].wait = "reconnect"
          /\ Set(s, [session[s] EXCEPT !.wait = "none", !.due = @ + 1])
    /\ UNCHANGED <<main, past, hist_, seen>>

-----------------------------------------------------------------------------
(* The handlers *)

\* The handler of op has something to handle.
Ready(s, op) == Running /\ session[s].op = op /\ session[s].res # "pending"

OnResolve_GivesUp(s) ==
    /\ Ready(s, "resolve")
    /\ IF session[s].res = "error"
       THEN RecordErr /\ Set(s, Ended(session[s]))
       ELSE Set(s, Begin([session[s] EXCEPT !.open = TRUE], "connect")) /\ UNCHANGED <<hist_, seen>>
    /\ UNCHANGED <<main, past>>
OnResolve(s) ==
    /\ Ready(s, "resolve")
    /\ IF session[s].res = "error"
       THEN RecordErr /\ Set(s, ReconnectSoon(session[s]))
       ELSE Set(s, Begin([session[s] EXCEPT !.open = TRUE], "connect")) /\ UNCHANGED <<hist_, seen>>
    /\ UNCHANGED <<main, past>>

OnConnect(s) ==
    /\ Ready(s, "connect")
    /\ IF session[s].res = "error"
       THEN RecordErr /\ Set(s, ReconnectSoon(session[s]))
       ELSE Set(s, DoRequest(session[s])) /\ UNCHANGED <<hist_, seen>>
    /\ UNCHANGED <<main, past>>

OnWrite(s) ==
    /\ Ready(s, "write")
    /\ IF session[s].res = "error"
       THEN RecordErr /\ Set(s, ReconnectSoon(Cancel(session[s])))
       ELSE Set(s, Begin(session[s], "read")) /\ UNCHANGED <<hist_, seen>>
    /\ UNCHANGED <<main, past>>

\* A response that ends with the connection (need_eof) makes the session reconnect.
OnRead(s) ==
    /\ Ready(s, "read")
    /\ IF session[s].res = "error"
       THEN RecordErr /\ Set(s, ReconnectSoon(Cancel(session[s])))
       ELSE /\ \E l \in Latencies : RecordOk(l)
            /\ \/ Set(s, ReconnectSoon(Cancel(session[s])))
               \/ Set(s, DoRequest(Cancel(session[s])))
    /\ UNCHANGED <<main, past>>

OnTimeout_NoClose(s) ==
    /\ Running /\ session[s].late > 0
    /\ RecordErr
    /\ Set(s, [session[s] EXCEPT !.late = @ - 1])
    /\ UNCHANGED <<main, past>>
OnTimeout_Reconnects(s) ==
    /\ Running /\ session[s].late > 0
    /\ RecordErr
    /\ Set(s, [Close(session[s]) EXCEPT !.late = @ - 1, !.wait = "reconnect"])
    /\ UNCHANGED <<main, past>>
\* The request's deadline, possibly after its answer: counts an error and closes
\* whatever connection the session has now.
OnTimeout(s) ==
    /\ Running /\ session[s].late > 0
    /\ RecordErr
    /\ Set(s, [Close(session[s]) EXCEPT !.late = @ - 1])
    /\ UNCHANGED <<main, past>>

OnReconnectTimer(s) ==
    /\ Running /\ session[s].due > 0
    /\ Set(s, Resolve([session[s] EXCEPT !.due = @ - 1]))
    /\ UNCHANGED <<main, past, hist_, seen>>

-----------------------------------------------------------------------------
Handler(s) ==
    \/ OnResolve(s) \/ OnConnect(s) \/ OnWrite(s) \/ OnRead(s)
    \/ OnTimeout(s) \/ OnReconnectTimer(s)

Next ==
    \/ StartWarmup \/ StartMeasured \/ DeadlinePasses \/ EndSleep \/ StopContext
    \/ \E s \in Sessions : Handler(s) \/ Complete(s) \/ StreamExpires(s) \/ TimerExpires(s)

Spec == Init /\ [][Next]_vars

\* main() goes on, handlers that are ready run, timer_ expires, and so does a connect.
\* A phase may last as long as it likes and the server need not answer.
FairSpec ==
    /\ Spec
    /\ WF_vars(StartMeasured)
    /\ \A s \in Sessions :
         /\ WF_vars(Handler(s)) /\ WF_vars(OnTimeout(s)) /\ WF_vars(TimerExpires(s))
         /\ WF_vars(session[s].op = "connect" /\ StreamExpires(s))

-----------------------------------------------------------------------------
(* Properties *)

\* Every variable has its type, and a session that has been started is continued by
\* exactly one thing: an operation, the wait before a reconnect, or its handler.  The
\* two uses of timer_ never meet, although OnTimeout may run at any time: cancelling
\* a request's deadline never cancels a reconnect.
TypeOK ==
    /\ main \in {"start", "warmup", "between", "measured", "stopping", "done"}
    /\ past \in BOOLEAN
    /\ hist_.ok \in Nat /\ hist_.err \in 0 .. MaxErrors
    /\ \A s \in Sessions :
         LET q == session[s] IN
         /\ q.res \in {"pending", "ok", "error"} /\ q.open \in BOOLEAN
         /\ q.late \in 0 .. MaxLate /\ q.due \in 0 .. 1
         /\ q.wait = "request" => q.op \in {"write", "read"}
         /\ (q.wait = "reconnect" \/ q.due > 0) <=> q.op = "paused"
         /\ q.wait = "reconnect" => q.due = 0

\* Errors, timeouts and reconnects never cost a session: until its deadline, every
\* session that the measured phase started goes on.
LoadSustained ==
    main = "measured" /\ ~past => \A s \in MeasuredSessions : session[s].op # "ended"

\* A request that hits its deadline comes to an end however silent the server is, also
\* when an earlier deadline's handler is still queued.
RequestsEnd ==
    \A s \in Sessions :
        session[s].op \in {"write", "read"} /\ session[s].res = "pending"
            ~> session[s].res # "pending" \/ main = "done"

\* The latency with this rank among those counted.
Ranked(counts, rank) ==
    Min({l \in Latencies : SumFunctionOnSet(counts, {m \in Latencies : m <= l}) > rank})

\* The thousandths p of the n + 1 answers counted end at this rank, to within one answer.
IsRank(rank, n, p) == rank * 1000 <= n * p /\ n * p <= (rank + 1) * 1000

\* What is printed for a latency t is right to within a factor of two: t + 1 is in
\* [2^i, 2^(i+1)) for the printed 2^i, except in the last bucket, which holds everything
\* beyond.
Near(printed, t) ==
    printed <= t + 1 /\ (t + 1 < 2 * printed \/ printed = 2 ^ (kBuckets - 1))

\* The percentiles printed for h are those of the latencies counted.
Summarises(h, counts) ==
    \A p \in {500, 900, 990, 999} : \A printed \in Percentile(h, p) :
        \E rank \in 0 .. h.ok - 1 :
            IsRank(rank, h.ok - 1, p) /\ Near(printed, Ranked(counts, rank))

\* The summary is that of the measured phase alone: it counts the answers of that phase,
\* and its percentiles are theirs, each the lower end of the bucket of the true one (the
\* comment at http_loadgen.cpp:115 says upper: see PercentileIsUpperBound).
PercentilesWithinBucket ==
    main = "done" /\ hist_.ok > 0 => hist_.ok = Answers /\ Summarises(hist_, seen)

\* "Approx upper bound of this bucket: 2^i us" (http_loadgen.cpp:115): no latency is more
\* than the percentile that is printed for it, unless it is beyond all the buckets.
\* (Refuted, and in no run: README, section 6.)
PercentileIsUpperBound ==
    main = "done" /\ hist_.ok > 0 =>
        \A p \in {500, 900, 990, 999} : \A printed \in Percentile(hist_, p) :
            \E rank \in 0 .. hist_.ok - 1 :
                /\ IsRank(rank, hist_.ok - 1, p)
                /\ Ranked(seen, rank) <= printed \/ printed = 2 ^ (kBuckets - 1)

\* "Stop warmup sessions by letting them see stop_at." (http_loadgen.cpp:380): when
\* the measured phase runs, the sessions of the warm-up have ended.
WarmupSessionsStop ==
    main = "measured" => \A s \in WarmupSessions : session[s].op \in {"new", "ended"}
=============================================================================

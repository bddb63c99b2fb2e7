---------------------------- MODULE ClientProofs ----------------------------
(***************************************************************************)
(* Proofs about the two HTTP clients of the repository: Get() of the       *)
(* library (HttpClient), for any number of endpoints and of reads, and the *)
(* load generator (LoadGen), for any number of sessions.                   *)
(***************************************************************************)
EXTENDS HttpClient, LoadGen, Sums, TLAPS

-----------------------------------------------------------------------------
(* Get() *)

\* The rounds left, apart from the rest of GetInv.
Rounds == left \in 0 .. Endpoints + MaxReads

LEMMA InitInv == GetInit => GetInv
  <1> SUFFICES ASSUME GetInit PROVE GetInv
    OBVIOUS
  <1>1. Rounds
    BY ClientAssumption DEF GetInit, Rounds
  <1>2. QED
    BY <1>1 DEF GetInit, GetInv, GetTypeOK, ErrorEndsChain, Rounds

\* An operation never has more rounds than endpoints and reads together.
LEMMA RoundsBounded == ASSUME Rounds, [GetNext]_get_vars PROVE Rounds'
  <1> USE ClientAssumption DEF Rounds
  <1>1. CASE ResolveHandler \/ ConnectHandler \/ WriteHandler
    BY <1>1 DEF ResolveHandler, ConnectHandler, WriteHandler, Fail, EndChain, BeginRound
  <1>2. CASE ReadHandler
    BY <1>2 DEF ReadHandler, Fail, EndChain, BeginRound
  <1>3. CASE \/ TimerHandler \/ Return \/ RoundCompletes \/ DeadlineExpires
             \/ Done \/ UNCHANGED get_vars
    BY <1>3 DEF TimerHandler, Return, RoundCompletes, DeadlineExpires, Done, get_vars, chain
  <1>4. QED
    BY <1>1, <1>2, <1>3 DEF GetNext, GetHandler

\* A handler of the chain starts the next round,
LEMMA RoundBegun ==
    ASSUME GetInv, op # "none", Rounds',
           NEW o \in {"connect", "write", "read"}, NEW n, BeginRound(o, n),
           UNCHANGED <<timer, timed_out, ec, answered, result>>
    PROVE  GetInv'
  <1>1. ~ec /\ ~answered
    BY DEF GetInv, ErrorEndsChain
  <1>2. op' \in {"none", "resolve", "connect", "write", "read"} /\ outcome' = "pending"
    BY DEF BeginRound
  <1>3. late' \in BOOLEAN
    BY DEF BeginRound, GetInv, GetTypeOK
  <1>4. ~ec' /\ ~answered'
    BY <1>1
  <1>5. GetTypeOK'
    BY <1>2, <1>3 DEF GetInv, GetTypeOK, Rounds
  <1>6. QED
    BY <1>4, <1>5 DEF GetInv, ErrorEndsChain

\* or records an error,
LEMMA ErrorRecorded ==
    ASSUME GetInv, op # "none", Rounds', Fail,
           UNCHANGED <<timer, timed_out, answered, result>>
    PROVE  GetInv'
  <1>1. ~answered
    BY DEF GetInv
  <1>2. op' = "none" /\ outcome' = "pending" /\ ec'
    BY DEF Fail, EndChain
  <1>3. GetTypeOK'
    BY <1>2 DEF Fail, EndChain, GetInv, GetTypeOK, Rounds
  <1>4. QED
    BY <1>1, <1>2, <1>3 DEF GetInv, ErrorEndsChain

\* or has the whole response.
LEMMA ResponseComplete ==
    ASSUME GetInv, op # "none", Rounds', EndChain, answered' = TRUE,
           UNCHANGED <<timer, timed_out, ec, result>>
    PROVE  GetInv'
  <1>1. ~ec
    BY DEF GetInv, ErrorEndsChain
  <1>2. op' = "none" /\ outcome' = "pending" /\ ~ec'
    BY <1>1 DEF EndChain
  <1>3. GetTypeOK'
    BY <1>2 DEF EndChain, GetInv, GetTypeOK, Rounds
  <1>4. QED
    BY <1>2, <1>3 DEF GetInv, ErrorEndsChain

\* One step per handler, and one for the network and the clock.
LEMMA NextInv == GetInv /\ [GetNext]_get_vars => GetInv'
  <1> SUFFICES ASSUME GetInv, [GetNext]_get_vars PROVE GetInv'
    OBVIOUS
  <1>1. Rounds'
    BY RoundsBounded DEF GetInv, GetTypeOK, Rounds
  <1>2. CASE TimerHandler
    BY <1>1, <1>2 DEF TimerHandler, GetInv, GetTypeOK, ErrorEndsChain, Rounds
  <1>3. CASE ResolveHandler
    BY <1>1, <1>3, RoundBegun, ErrorRecorded DEF ResolveHandler
  <1>4. CASE ConnectHandler
    BY <1>1, <1>4, RoundBegun, ErrorRecorded DEF ConnectHandler
  <1>5. CASE WriteHandler
    BY <1>1, <1>5, RoundBegun, ErrorRecorded DEF WriteHandler
  <1>6. CASE ReadHandler
    <2>1. CASE Failed /\ Fail /\ UNCHANGED answered
      BY <1>1, <1>6, <2>1, ErrorRecorded DEF ReadHandler
    <2>2. CASE left > 1 /\ BeginRound("read", left - 1) /\ UNCHANGED <<ec, answered>>
      BY <1>1, <1>6, <2>2, RoundBegun DEF ReadHandler
    <2>3. CASE EndChain /\ answered' = TRUE /\ UNCHANGED ec
      BY <1>1, <1>6, <2>3, ResponseComplete DEF ReadHandler
    <2>4. QED
      BY <1>6, <2>1, <2>2, <2>3 DEF ReadHandler
  <1>7. CASE Return
    BY <1>1, <1>7 DEF Return, chain, GetInv, GetTypeOK, ErrorEndsChain, Rounds
  <1>8. CASE RoundCompletes \/ DeadlineExpires
    BY <1>1, <1>8 DEF RoundCompletes, DeadlineExpires, chain,
                      GetInv, GetTypeOK, ErrorEndsChain, Rounds
  <1>9. CASE Done \/ UNCHANGED get_vars
    BY <1>1, <1>9 DEF Done, get_vars, chain, GetInv, GetTypeOK, ErrorEndsChain, Rounds
  <1>10. QED
    BY <1>2, <1>3, <1>4, <1>5, <1>6, <1>7, <1>8, <1>9 DEF GetNext, GetHandler

LEMMA Inductive == GetSpec => []GetInv
  BY InitInv, NextInv, PTL DEF GetSpec

-----------------------------------------------------------------------------

\* A handler that has recorded an error starts nothing more on the stream, after
\* any number of endpoints tried and reads done.
THEOREM ErrorsEndChain == GetSpec => []ErrorEndsChain
  <1>1. GetInv => ErrorEndsChain
    BY DEF GetInv
  <1>2. QED
    BY <1>1, Inductive, PTL

-----------------------------------------------------------------------------
(* The load generator: its inductive invariant *)

SessionStates ==
    [op : StreamOps \cup {"new", "resolve", "paused", "ended"},
     res : {"pending", "ok", "error"}, wait : {"none", "request", "reconnect"},
     late : 0 .. MaxLate, due : 0 .. 1, open : BOOLEAN]

\* The two uses of timer_ do not meet.
OneTimer(q) ==
    /\ q.wait = "request" => q.op \in {"write", "read"}
    /\ (q.wait = "reconnect" \/ q.due > 0) <=> q.op = "paused"
    /\ q.wait = "reconnect" => q.due = 0

Continued == {q \in SessionStates : OneTimer(q)}

Histogram(h) == /\ h = [ok |-> h.ok, err |-> h.err, buckets |-> h.buckets]
                /\ h.ok \in Nat /\ h.err \in 0 .. MaxErrors

TypeInv ==
    /\ main \in {"start", "warmup", "between", "measured", "stopping", "done"}
    /\ past \in BOOLEAN
    /\ Histogram(hist_)
    /\ session \in [Sessions -> Continued]

LoadInv == TypeInv /\ LoadSustained

-----------------------------------------------------------------------------
(* LatencyHistogram *)

LEMMA MinOfTwo ==
    ASSUME NEW a \in Int, NEW b \in Int
    PROVE  Min({a, b}) = IF a <= b THEN a ELSE b
  <1>1. \E x \in {a, b} : \A y \in {a, b} : x <= y
    OBVIOUS
  <1>2. Min({a, b}) \in {a, b} /\ \A y \in {a, b} : Min({a, b}) <= y
    BY <1>1 DEF Min
  <1>3. QED
    BY <1>2

LEMMA ResetType == Histogram(Reset)
  BY LoadGenAssumption DEF Histogram, Reset

LEMMA RecordOkType == ASSUME Histogram(hist_), NEW l, RecordOk(l) PROVE Histogram(hist_')
  <1>1. PICK b : hist_' = [ok |-> hist_.ok + 1, err |-> hist_.err, buckets |-> b]
    <2>1. PICK x, y, z : hist_ = [ok |-> x, err |-> y, buckets |-> z]
      BY DEF Histogram
    <2>2. hist_' = [[ok |-> x, err |-> y, buckets |-> z]
                       EXCEPT !.ok = @ + 1, !.buckets[BucketOf(l)] = @ + 1]
      BY <2>1 DEF RecordOk
    <2>3. hist_' = [ok |-> x + 1, err |-> y, buckets |-> [z EXCEPT ![BucketOf(l)] = @ + 1]]
      BY <2>2
    <2>4. QED
      BY <2>1, <2>3
  <1>2. QED
    BY <1>1 DEF Histogram

LEMMA RecordErrType == ASSUME Histogram(hist_), RecordErr PROVE Histogram(hist_')
  <1>1. hist_.err \in 0 .. MaxErrors /\ MaxErrors \in Nat
    BY LoadGenAssumption DEF Histogram
  <1>2. PICK e : e = Min({hist_.err + 1, MaxErrors})
    OBVIOUS
  <1>3. e \in 0 .. MaxErrors
    BY <1>1, <1>2, MinOfTwo
  <1>4. hist_' = [ok |-> hist_.ok, err |-> e, buckets |-> hist_.buckets]
    BY <1>2 DEF Histogram, RecordErr
  <1>5. QED
    BY <1>3, <1>4 DEF Histogram

-----------------------------------------------------------------------------
(* What the handlers do to their session *)

\* q goes on as r: no session ends unless it should stop.
GoesOn(q, r) == r \in Continued /\ (r.op = "ended" => q.op = "ended" \/ ShouldStop)

\* q waits for nothing but its operation.
Busy(q) == q \in SessionStates /\ q.wait = "none" /\ q.due = 0

LEMMA CloseType ==
    ASSUME NEW q \in SessionStates
    PROVE  /\ Close(q) \in SessionStates
           /\ Close(q).op = q.op /\ Close(q).wait = q.wait
           /\ Close(q).due = q.due /\ Close(q).late = q.late
  BY DEF Close, SessionStates

LEMMA BeginType ==
    ASSUME NEW q \in SessionStates, NEW kind \in StreamOps
    PROVE  /\ Begin(q, kind) \in SessionStates
           /\ Begin(q, kind).op = kind
           /\ Begin(q, kind).wait = q.wait /\ Begin(q, kind).due = q.due
  BY DEF Begin, SessionStates

LEMMA EndedType ==
    ASSUME NEW q, Busy(q), ShouldStop
    PROVE  GoesOn(q, Ended(q))
  BY DEF Busy, GoesOn, Continued, OneTimer, Ended, SessionStates, StreamOps

LEMMA DoRequestType == ASSUME NEW q, Busy(q) PROVE GoesOn(q, DoRequest(q))
  <1>1. CASE ShouldStop
    <2>1. Busy(Close(q))
      BY CloseType DEF Busy
    <2>2. GoesOn(Close(q), Ended(Close(q)))
      BY <1>1, <2>1, EndedType
    <2>3. QED
      BY <1>1, <2>2 DEF GoesOn, DoRequest
  <1>2. CASE ~ShouldStop
    <2>1. PICK r : /\ r = Begin(q, "write") /\ r \in SessionStates
                   /\ r.op = "write" /\ r.due = 0
      BY BeginType DEF Busy, StreamOps
    <2>2. DoRequest(q) = [r EXCEPT !.wait = "request"]
      BY <1>2, <2>1 DEF DoRequest
    <2>3. /\ [r EXCEPT !.wait = "request"] \in Continued
          /\ [r EXCEPT !.wait = "request"].op = "write"
      BY <2>1 DEF Continued, OneTimer, SessionStates
    <2>4. QED
      BY <2>2, <2>3 DEF GoesOn
  <1>3. QED
    BY <1>1, <1>2

LEMMA ReconnectSoonType == ASSUME NEW q, Busy(q) PROVE GoesOn(q, ReconnectSoon(q))
  <1>1. PICK r : r = Close(q) /\ Busy(r)
    BY CloseType DEF Busy
  <1>2. CASE ShouldStop
    <2>1. GoesOn(r, Ended(r))
      BY <1>1, <1>2, EndedType
    <2>2. QED
      BY <1>1, <1>2, <2>1 DEF GoesOn, ReconnectSoon
  <1>3. CASE ~ShouldStop
    <2> DEFINE p == [r EXCEPT !.op = "paused", !.wait = "reconnect"]
    <2>1. p \in Continued /\ p.op = "paused"
      BY <1>1 DEF Busy, Continued, OneTimer, SessionStates
    <2>2. ReconnectSoon(q) = p
      BY <1>1, <1>3 DEF ReconnectSoon
    <2> HIDE DEF p
    <2>3. QED
      BY <2>1, <2>2 DEF GoesOn
  <1>4. QED
    BY <1>2, <1>3

LEMMA CancelType ==
    ASSUME NEW q \in Continued, q.op \in {"write", "read"}
    PROVE  Busy(Cancel(q)) /\ Cancel(q).op = q.op
  BY DEF Busy, Cancel, Continued, OneTimer, SessionStates

\* A session with an operation of the resolver or of a connect has no wait.
LEMMA NoWait ==
    ASSUME NEW q \in Continued, q.op \in {"resolve", "connect"}
    PROVE  Busy(q)
  BY DEF Busy, Continued, OneTimer, SessionStates

-----------------------------------------------------------------------------
LEMMA LoadInit == Init => LoadInv
  <1> SUFFICES ASSUME Init PROVE LoadInv
    OBVIOUS
  <1>1. NewSession \in Continued
    BY LoadGenAssumption DEF NewSession, Continued, OneTimer, SessionStates
  <1>2. session \in [Sessions -> Continued]
    BY <1>1 DEF Init
  <1>3. QED
    BY <1>2, ResetType DEF Init, LoadInv, TypeInv, LoadSustained

LEMMA StartInv ==
    ASSUME LoadInv, NEW phase \in {"warmup", "measured"}, NEW new,
           StartPhase(phase, new), phase = "measured" => new = MeasuredSessions
    PROVE  LoadInv'
  <1> DEFINE q == [NewSession EXCEPT !.op = "resolve", !.res = "pending"]
  <1>1. q \in Continued /\ q.op = "resolve"
    <2>1. q = [op |-> "resolve", res |-> "pending", wait |-> "none", late |-> 0, due |-> 0,
               open |-> FALSE]
      <3>1. PICK n : n = NewSession
        OBVIOUS
      <3>2. n = [op |-> "new", res |-> "ok", wait |-> "none", late |-> 0, due |-> 0,
                 open |-> FALSE]
        BY <3>1 DEF NewSession
      <3>3. q = [n EXCEPT !.op = "resolve", !.res = "pending"]
        BY <3>1
      <3> HIDE DEF q
      <3>4. QED
        BY ONLY <3>2, <3>3
    <2> HIDE DEF q
    <2>2. q \in SessionStates
      BY <2>1, LoadGenAssumption DEF SessionStates
    <2>3. QED
      BY <2>1, <2>2 DEF Continued, OneTimer
  <1>2. session' = [s \in Sessions |-> IF s \in new THEN q ELSE session[s]]
    BY DEF StartPhase
  <1> HIDE DEF q
  <1>3. session' \in [Sessions -> Continued]
    BY <1>1, <1>2 DEF LoadInv, TypeInv
  <1>4. LoadSustained'
    BY <1>1, <1>2 DEF StartPhase, LoadSustained, Sessions
  <1>5. TypeInv'
    BY <1>3, ResetType DEF StartPhase, LoadInv, TypeInv
  <1>6. QED
    BY <1>4, <1>5 DEF LoadInv

\* Session s goes on as q.
LEMMA SessionStep ==
    ASSUME LoadInv, NEW s \in Sessions, NEW q, Set(s, q), GoesOn(session[s], q),
           Histogram(hist_'), UNCHANGED <<main, past>>
    PROVE  LoadInv'
  <1>1. q \in Continued
    BY DEF GoesOn
  <1>2. session' = [session EXCEPT ![s] = q]
    BY DEF Set
  <1>3. /\ session' \in [Sessions -> Continued] /\ session'[s] = q
        /\ \A r \in Sessions \ {s} : session'[r] = session[r]
    BY <1>1, <1>2 DEF LoadInv, TypeInv
  <1>4. TypeInv'
    BY <1>3 DEF LoadInv, TypeInv
  <1>5. LoadSustained'
    BY <1>3 DEF LoadInv, LoadSustained, GoesOn, ShouldStop, Sessions
  <1>6. QED
    BY <1>4, <1>5 DEF LoadInv

\* What the network and the clock do: the operation goes on or has a result.
LEMMA EnvironmentInv ==
    ASSUME LoadInv, NEW s \in Sessions,
           Complete(s) \/ StreamExpires(s) \/ TimerExpires(s)
    PROVE  LoadInv'
  <1>1. PICK q : q = session[s] /\ q \in Continued /\ q \in SessionStates
    BY DEF LoadInv, TypeInv, Continued
  <1>2. UNCHANGED <<main, past, hist_>> /\ Histogram(hist_)
    BY DEF Complete, StreamExpires, TimerExpires, LoadInv, TypeInv
  <1>3. Histogram(hist_')
    BY <1>2
  <1>4. CASE Complete(s)
    <2>1. PICK r \in {"ok", "error"} : Set(s, [q EXCEPT !.res = r])
      BY <1>1, <1>4 DEF Complete
    <2>2. q.op # "ended"
      BY <1>1, <1>4 DEF Complete, StreamOps
    <2>3. GoesOn(q, [q EXCEPT !.res = r])
      BY <1>1, <2>2 DEF GoesOn, Continued, OneTimer, SessionStates
    <2>4. QED
      BY <1>1, <1>2, <1>3, <2>1, <2>3, SessionStep
  <1>5. CASE StreamExpires(s)
    <2>1. Set(s, Close(q))
      BY <1>1, <1>5 DEF StreamExpires
    <2>2. GoesOn(q, Close(q))
      BY <1>1, CloseType DEF GoesOn, Continued, OneTimer
    <2>3. QED
      BY <1>1, <1>2, <1>3, <2>1, <2>2, SessionStep
  <1>6. CASE TimerExpires(s)
    <2>1. CASE q.wait = "request" /\ q.late < MaxLate
                 /\ Set(s, [q EXCEPT !.wait = "none", !.late = @ + 1])
      <3> DEFINE r == [q EXCEPT !.wait = "none", !.late = @ + 1]
      <3>1. r \in SessionStates /\ r.wait = "none" /\ r.op = q.op /\ r.due = q.due
        <4>1. q.late + 1 \in 0 .. MaxLate
          BY <1>1, <2>1, LoadGenAssumption DEF SessionStates
        <4>2. PICK n : n = q.late + 1 /\ n \in 0 .. MaxLate
          BY <4>1
        <4>3. r = [q EXCEPT !.wait = "none", !.late = n]
          BY <4>2
        <4>4. QED
          BY ONLY <1>1, <4>2, <4>3 DEF SessionStates
      <3> HIDE DEF r
      <3>2. GoesOn(q, r)
        BY <1>1, <2>1, <3>1 DEF GoesOn, Continued, OneTimer
      <3>3. QED
        BY <1>1, <1>2, <1>3, <2>1, <3>2, SessionStep DEF r
    <2>2. CASE q.wait = "reconnect" /\ Set(s, [q EXCEPT !.wait = "none", !.due = @ + 1])
      <3> DEFINE r == [q EXCEPT !.wait = "none", !.due = @ + 1]
      <3>1. q.due = 0 /\ q.op = "paused"
        BY <1>1, <2>2 DEF Continued, OneTimer
      <3>2. r \in SessionStates /\ r.wait = "none" /\ r.op = q.op /\ r.due = 1
        <4>1. PICK n : n = 1 /\ n \in 0 .. 1
          OBVIOUS
        <4>2. r = [q EXCEPT !.wait = "none", !.due = n]
          BY <3>1, <4>1
        <4>3. q.op = q.op /\ "none" \in {"none", "request", "reconnect"}
          OBVIOUS
        <4>4. QED
          BY ONLY <1>1, <4>1, <4>2, <4>3 DEF SessionStates
      <3> HIDE DEF r
      <3>3. GoesOn(q, r)
        BY <1>1, <3>1, <3>2 DEF GoesOn, Continued, OneTimer
      <3>4. QED
        BY <1>1, <1>2, <1>3, <2>2, <3>3, SessionStep DEF r
    <2>3. QED
      BY <1>1, <1>6, <2>1, <2>2 DEF TimerExpires
  <1>7. QED
    BY <1>4, <1>5, <1>6

\* The handlers: an error is recorded and the session pauses, or it goes on.
LEMMA HandlerInv == ASSUME LoadInv, NEW s \in Sessions, Handler(s) PROVE LoadInv'
  <1>1. PICK q : q = session[s] /\ q \in Continued /\ q \in SessionStates
    BY DEF LoadInv, TypeInv, Continued
  <1>2. UNCHANGED <<main, past>>
    BY DEF Handler, OnResolve, OnConnect, OnWrite, OnRead,
       OnTimeout, OnReconnectTimer
  <1>3. Histogram(hist_)
    BY DEF LoadInv, TypeInv
  <1>4. ASSUME NEW r, Set(s, r), GoesOn(q, r), RecordErr \/ UNCHANGED hist_
        PROVE  LoadInv'
    <2>1. Histogram(hist_')
      BY <1>3, <1>4, RecordErrType
    <2>2. QED
      BY <1>1, <1>2, <1>4, <2>1, SessionStep
  <1>5. CASE OnResolve(s)
    <2>1. q.op = "resolve" /\ Busy(q)
      BY <1>1, <1>5, NoWait DEF OnResolve, Ready
    <2>2. CASE RecordErr /\ Set(s, ReconnectSoon(q))
      BY <1>4, <2>1, <2>2, ReconnectSoonType
    <2>3. CASE Set(s, Begin([q EXCEPT !.open = TRUE], "connect")) /\ UNCHANGED hist_
      <3>1. PICK o : o = [q EXCEPT !.open = TRUE]
        OBVIOUS
      <3>2. Busy(o)
        <4>1. o \in SessionStates /\ o.wait = q.wait /\ o.due = q.due
          BY ONLY <1>1, <3>1 DEF SessionStates
        <4>2. QED
          BY <2>1, <4>1 DEF Busy
      <3>3. PICK r : r = Begin(o, "connect") /\ Busy(r) /\ r.op = "connect"
        <4>1. "connect" \in StreamOps
          BY DEF StreamOps
        <4>2. QED
          BY <3>2, <4>1, BeginType DEF Busy
      <3>4. GoesOn(q, r)
        BY <3>3 DEF GoesOn, Busy, Continued, OneTimer
      <3>5. QED
        BY <1>4, <2>3, <3>1, <3>3, <3>4
    <2>4. QED
      BY <1>1, <1>5, <2>2, <2>3 DEF OnResolve
  <1>6. CASE OnConnect(s)
    <2>1. Busy(q)
      BY <1>1, <1>6, NoWait DEF OnConnect, Ready
    <2>2. CASE RecordErr /\ Set(s, ReconnectSoon(q))
      BY <1>4, <2>1, <2>2, ReconnectSoonType
    <2>3. CASE Set(s, DoRequest(q)) /\ UNCHANGED hist_
      BY <1>4, <2>1, <2>3, DoRequestType
    <2>4. QED
      BY <1>1, <1>6, <2>2, <2>3 DEF OnConnect
  <1>7. ASSUME q.op \in {"write", "read"}
        PROVE  /\ GoesOn(q, ReconnectSoon(Cancel(q)))
               /\ GoesOn(q, DoRequest(Cancel(q)))
    <2>1. PICK r : r = Cancel(q) /\ Busy(r) /\ r.op = q.op
      BY <1>1, <1>7, CancelType
    <2>2. GoesOn(r, ReconnectSoon(r)) /\ GoesOn(r, DoRequest(r))
      BY <2>1, ReconnectSoonType, DoRequestType
    <2>3. QED
      BY <2>1, <2>2 DEF GoesOn
  <1>8. CASE OnWrite(s)
    <2>1. q.op = "write"
      BY <1>1, <1>8 DEF OnWrite, Ready
    <2>2. CASE RecordErr /\ Set(s, ReconnectSoon(Cancel(q)))
      BY <1>4, <1>7, <2>1, <2>2
    <2>3. CASE Set(s, Begin(q, "read")) /\ UNCHANGED hist_
      <3>1. PICK r : /\ r = Begin(q, "read") /\ r \in SessionStates /\ r.op = "read"
                     /\ r.wait = q.wait /\ r.due = q.due
        BY <1>1, BeginType DEF StreamOps
      <3>2. GoesOn(q, r)
        BY <1>1, <2>1, <3>1 DEF GoesOn, Continued, OneTimer
      <3>3. QED
        BY <1>4, <2>3, <3>1, <3>2
    <2>4. QED
      BY <1>1, <1>8, <2>2, <2>3 DEF OnWrite
  <1>9. CASE OnRead(s)
    <2>1. q.op = "read"
      BY <1>1, <1>9 DEF OnRead, Ready
    <2>2. CASE RecordErr /\ Set(s, ReconnectSoon(Cancel(q)))
      BY <1>4, <1>7, <2>1, <2>2
    <2>3. ASSUME NEW l \in Latencies, RecordOk(l),
                 \/ Set(s, ReconnectSoon(Cancel(q)))
                 \/ Set(s, DoRequest(Cancel(q)))
          PROVE  LoadInv'
      BY <1>1, <1>2, <1>3, <1>7, <2>1, <2>3, RecordOkType, SessionStep
    <2>4. QED
      BY <1>1, <1>9, <2>2, <2>3 DEF OnRead
  <1>10. CASE OnTimeout(s)
    <2>1. PICK c : /\ c = Close(q) /\ c \in SessionStates /\ c.op = q.op /\ c.wait = q.wait
                   /\ c.due = q.due /\ c.late = q.late
      BY <1>1, CloseType
    <2>2. RecordErr /\ Set(s, [c EXCEPT !.late = @ - 1]) /\ c.late > 0
      BY <1>1, <1>10, <2>1 DEF OnTimeout
    <2> DEFINE r == [c EXCEPT !.late = @ - 1]
    <2>3. r \in SessionStates /\ r.op = q.op /\ r.wait = q.wait /\ r.due = q.due
      BY <2>1, <2>2, LoadGenAssumption DEF SessionStates
    <2> HIDE DEF r
    <2>4. GoesOn(q, r)
      BY <1>1, <2>3 DEF GoesOn, Continued, OneTimer
    <2>5. QED
      BY <1>4, <2>2, <2>4 DEF r
  <1>11. CASE OnReconnectTimer(s)
    <2>1. Set(s, Resolve([q EXCEPT !.due = @ - 1])) /\ UNCHANGED hist_ /\ q.due > 0
      BY <1>1, <1>11 DEF OnReconnectTimer
    <2>2. PICK r : r = [q EXCEPT !.due = @ - 1] /\ Busy(r)
      BY <1>1, <2>1 DEF Busy, Continued, OneTimer, SessionStates
    <2>3. GoesOn(q, Resolve(r))
      <3>1. CASE ShouldStop
        BY <2>2, <3>1, EndedType DEF GoesOn, Resolve
      <3>2. CASE ~ShouldStop
        <4>1. PICK p : p = [r EXCEPT !.op = "resolve", !.res = "pending"]
          OBVIOUS
        <4>2. p \in Continued /\ p.op = "resolve"
          <5>1. p \in SessionStates /\ p.op = "resolve" /\ p.wait = r.wait /\ p.due = r.due
            BY <2>2, <4>1 DEF Busy, SessionStates
          <5>2. QED
            BY <2>2, <5>1 DEF Busy, Continued, OneTimer
        <4>3. QED
          BY <3>2, <4>1, <4>2 DEF GoesOn, Resolve
      <3>3. QED
        BY <3>1, <3>2
    <2>4. QED
      BY <1>4, <2>1, <2>2, <2>3
  <1>12. QED
    BY <1>5, <1>6, <1>8, <1>9, <1>10, <1>11 DEF Handler

LEMMA LoadStep == LoadInv /\ [Next]_vars => LoadInv'
  <1> SUFFICES ASSUME LoadInv, [Next]_vars PROVE LoadInv'
    OBVIOUS
  <1>1. CASE StartWarmup
    BY <1>1, StartInv DEF StartWarmup
  <1>2. CASE StartMeasured
    BY <1>2, StartInv DEF StartMeasured
  <1>3. CASE DeadlinePasses \/ EndSleep \/ StopContext
    BY <1>3 DEF DeadlinePasses, EndSleep, StopContext,
                LoadInv, TypeInv, LoadSustained
  <1>4. ASSUME NEW s \in Sessions,
               \/ Handler(s) \/ Complete(s)
               \/ StreamExpires(s) \/ TimerExpires(s)
        PROVE  LoadInv'
    BY <1>4, HandlerInv, EnvironmentInv
  <1>5. CASE UNCHANGED vars
    BY <1>5 DEF vars, LoadInv, TypeInv, LoadSustained
  <1>6. QED
    BY <1>1, <1>2, <1>3, <1>4, <1>5 DEF Next

LEMMA LoadInvariant == Spec => []LoadInv
  BY LoadInit, LoadStep, PTL DEF Spec

-----------------------------------------------------------------------------
(* Powers of two *)

Pow(n) == 2 ^ n

\* Pow(n) is the number of subsets of 1 .. n.

LEMMA PowerZero == Pow(0) = 1
  <1>1. SUBSET {} = {{}}
    OBVIOUS
  <1>2. Cardinality(SUBSET {}) = 1
    BY <1>1, FS_Singleton
  <1>3. QED
    BY <1>2, FS_EmptySet, FS_SUBSET DEF Pow

LEMMA PowerIsCardinality ==
    ASSUME NEW n \in Nat
    PROVE  /\ IsFiniteSet(1 .. n) /\ IsFiniteSet(SUBSET (1 .. n))
           /\ Cardinality(SUBSET (1 .. n)) = Pow(n) /\ Pow(n) \in Nat
  <1>1. IsFiniteSet(1 .. n) /\ Cardinality(1 .. n) = n
    BY FS_Interval
  <1>2. IsFiniteSet(SUBSET (1 .. n)) /\ Cardinality(SUBSET (1 .. n)) = Pow(n)
    BY <1>1, FS_SUBSET DEF Pow
  <1>3. QED
    BY <1>1, <1>2, FS_CardinalityType

LEMMA PowerStep == ASSUME NEW n \in Nat PROVE Pow(n + 1) = 2 * Pow(n)
  <1> DEFINE A == SUBSET (1 .. n)
             B == {T \in SUBSET (1 .. n + 1) : n + 1 \in T}
             f == [T \in A |-> T \cup {n + 1}]
  <1>1. SUBSET (1 .. n + 1) = A \cup B /\ A \cap B = {}
    <2>1. 1 .. n + 1 = (1 .. n) \cup {n + 1} /\ n + 1 \notin 1 .. n
      OBVIOUS
    <2>2. QED
      BY <2>1
  <1>2. /\ IsFiniteSet(A) /\ Cardinality(A) = Pow(n) /\ Pow(n) \in Nat
        /\ Cardinality(SUBSET (1 .. n + 1)) = Pow(n + 1)
    <2>1. n + 1 \in Nat
      OBVIOUS
    <2>2. QED
      BY <2>1, PowerIsCardinality
  <1>3. ExistsBijection(A, B)
    <2>1. 1 .. n + 1 = (1 .. n) \cup {n + 1} /\ n + 1 \notin 1 .. n
      OBVIOUS
    <2>2. f \in [A -> B]
      BY <2>1
    <2>3. ASSUME NEW T \in A, NEW U \in A, f[T] = f[U] PROVE T = U
      <3>1. n + 1 \notin T /\ n + 1 \notin U /\ T \cup {n + 1} = U \cup {n + 1}
        BY <2>1, <2>3
      <3>2. QED
        BY <3>1
    <2>4. ASSUME NEW U \in B PROVE \E T \in A : f[T] = U
      <3>1. U \ {n + 1} \in A /\ (U \ {n + 1}) \cup {n + 1} = U
        BY <2>1
      <3>2. QED
        BY <3>1
    <2> HIDE DEF A, B, f
    <2>5. f \in Bijection(A, B)
      BY <2>2, <2>3, <2>4 DEF Bijection, Injection, Surjection, IsInjective
    <2>6. QED
      BY <2>5 DEF ExistsBijection
  <1> HIDE DEF A, B
  <1>4. IsFiniteSet(B) /\ Cardinality(B) = Pow(n)
    BY <1>2, <1>3, FS_Bijection
  <1>5. Cardinality(A \cup B) = Cardinality(A) + Cardinality(B) - Cardinality(A \cap B)
    BY <1>2, <1>4, FS_Union
  <1>6. Cardinality(A \cap B) = 0
    <2>1. A \cap B = {}
      BY <1>1
    <2>2. QED
      BY <2>1, FS_EmptySet
  <1>7. Cardinality(A \cup B) = Pow(n + 1)
    BY <1>1, <1>2, Zenon
  <1>8. QED
    BY <1>2, <1>4, <1>5, <1>6, <1>7

LEMMA Powers ==
    /\ Pow(0) = 1
    /\ \A n \in Nat : Pow(n) \in Nat /\ Pow(n + 1) = 2 * Pow(n)
  BY PowerZero, PowerIsCardinality, PowerStep

LEMMA PowerAbove == ASSUME NEW n \in Nat PROVE n < Pow(n)
  <1> DEFINE Bad == {k \in Nat : ~(k < Pow(k))}
  <1>1. ASSUME Bad # {} PROVE FALSE
    <2>1. PICK k \in Bad : \A j \in Nat : j < k => j \notin Bad
      <3>1. Bad \in SUBSET Nat
        OBVIOUS
      <3> HIDE DEF Bad
      <3>2. QED
        BY <1>1, <3>1, SmallestNumber
    <2>2. k \in Nat /\ ~(k < Pow(k))
      OBVIOUS
    <2>3. k # 0
      BY <2>2, Powers
    <2>4. k - 1 \in Nat /\ k - 1 < Pow(k - 1)
      <3>1. k - 1 \in Nat /\ k - 1 < k
        BY <2>2, <2>3
      <3>2. QED
        BY <2>1, <3>1
    <2>5. Pow(k) = 2 * Pow(k - 1) /\ Pow(k - 1) \in Nat
      <3>1. (k - 1) + 1 = k
        BY <2>2
      <3>2. QED
        BY <2>4, <3>1, Powers
    <2>6. QED
      BY <2>2, <2>4, <2>5
  <1>2. n \notin Bad
    BY <1>1
  <1>3. QED
    BY <1>2

LEMMA PowerGrows == ASSUME NEW m \in Nat, NEW n \in Nat, m <= n PROVE Pow(m) <= Pow(n)
  <1> DEFINE Bad == {k \in Nat : m <= k /\ ~(Pow(m) <= Pow(k))}
  <1>1. ASSUME Bad # {} PROVE FALSE
    <2>1. PICK k \in Bad : \A j \in Nat : j < k => j \notin Bad
      <3>1. Bad \in SUBSET Nat
        OBVIOUS
      <3> HIDE DEF Bad
      <3>2. QED
        BY <1>1, <3>1, SmallestNumber
    <2>2. k \in Nat /\ m <= k /\ ~(Pow(m) <= Pow(k))
      OBVIOUS
    <2>3. Pow(m) \in Nat
      BY Powers
    <2>4. k - 1 \in Nat /\ m <= k - 1 /\ k - 1 < k
      <3>1. k # m
        BY <2>2, <2>3
      <3>2. QED
        BY <2>2, <3>1
    <2>5. Pow(m) <= Pow(k - 1)
      BY <2>1, <2>4
    <2>6. Pow(k) = 2 * Pow(k - 1) /\ Pow(k - 1) \in Nat
      <3>1. (k - 1) + 1 = k
        BY <2>2
      <3>2. QED
        BY <2>4, <3>1, Powers
    <2>7. QED
      BY <2>2, <2>3, <2>5, <2>6
  <1>2. n \notin Bad
    BY <1>1
  <1>3. QED
    BY <1>2

\* Log2Floor(v) exists for every v that Log2FloorU64 is called with.
LEMMA Log2Exists ==
    ASSUME NEW v \in Nat, v > 0
    PROVE  Log2Floor(v) \in Nat /\ Pow(Log2Floor(v)) <= v /\ v < Pow(Log2Floor(v) + 1)
  <1> DEFINE Above == {k \in Nat : v < Pow(k + 1)}
  <1>1. \A k \in Nat : Pow(k) \in Nat
    BY Powers
  <1>2. v \in Above
    BY <1>1, Powers, PowerAbove
  <1>3. PICK k \in Above : \A j \in Nat : j < k => j \notin Above
    <2>1. Above \in SUBSET Nat
      OBVIOUS
    <2> HIDE DEF Above
    <2>2. QED
      BY <1>2, <2>1, SmallestNumber
  <1>4. k \in Nat /\ v < Pow(k + 1) /\ k \in 0 .. v
    <2>1. ~(v < k)
      BY <1>2, <1>3
    <2>2. QED
      BY <2>1
  <1>5. Pow(k) <= v
    <2>1. CASE k = 0
      BY <2>1, Powers
    <2>2. CASE k # 0
      <3>1. k - 1 \in Nat /\ k - 1 < k /\ (k - 1) + 1 = k
        BY <1>4, <2>2
      <3>2. ~(v < Pow((k - 1) + 1))
        BY <1>3, <3>1
      <3>3. QED
        BY <1>1, <1>4, <3>1, <3>2
    <2>3. QED
      BY <2>1, <2>2
  <1>6. \E i \in 0 .. v : Pow(i) <= v /\ v < Pow(i + 1)
    BY <1>4, <1>5
  <1> DEFINE L == CHOOSE i \in 0 .. v : Pow(i) <= v /\ v < Pow(i + 1)
  <1>7. L \in 0 .. v /\ Pow(L) <= v /\ v < Pow(L + 1)
    BY <1>6
  <1>8. L = Log2Floor(v)
    BY DEF Log2Floor, Pow
  <1> HIDE DEF L
  <1>9. QED
    BY <1>7, <1>8

-----------------------------------------------------------------------------
(* The buckets of the histogram *)

Buckets == 0 .. kBuckets - 1

\* RecordOk stays inside buckets_, and the bucket tells the latency to a factor of two.
LEMMA BucketBounds ==
    ASSUME NEW l \in Nat
    PROVE  /\ BucketOf(l) \in Buckets
           /\ Pow(BucketOf(l)) \in Nat /\ Pow(BucketOf(l)) <= l + 1
           /\ l + 1 < 2 * Pow(BucketOf(l)) \/ BucketOf(l) = kBuckets - 1
  <1>1. PICK v \in Nat : v = l + 1 /\ v > 0
    OBVIOUS
  <1>2. PICK L \in Nat : L = Log2Floor(v) /\ Pow(L) <= v /\ v < Pow(L + 1)
    BY <1>1, Log2Exists
  <1>3. BucketOf(l) = IF L <= kBuckets - 1 THEN L ELSE kBuckets - 1
    <2>1. kBuckets - 1 \in Int
      BY LoadGenAssumption
    <2>2. QED
      BY <1>1, <1>2, <2>1, MinOfTwo DEF BucketOf
  <1>4. PICK b \in Buckets : b = BucketOf(l) /\ b <= L /\ (b = L \/ b = kBuckets - 1)
    BY <1>3, LoadGenAssumption DEF Buckets
  <1>5. b \in Nat /\ Pow(b) \in Nat /\ Pow(L) \in Nat /\ Pow(b) <= Pow(L)
    BY <1>4, Powers, PowerGrows DEF Buckets
  <1>6. v < 2 * Pow(b) \/ b = kBuckets - 1
    <2>1. CASE b = L
      BY <1>2, <2>1, Powers
    <2>2. QED
      BY <1>4, <2>1
  <1>7. QED
    BY <1>1, <1>2, <1>4, <1>5, <1>6

\* A later bucket holds greater latencies.
LEMMA BucketGrows ==
    ASSUME NEW l \in Nat, NEW m \in Nat, l <= m
    PROVE  BucketOf(l) <= BucketOf(m)
  <1>1. PICK v \in Nat, w \in Nat : v = l + 1 /\ v > 0 /\ w = m + 1 /\ w > 0 /\ v <= w
    OBVIOUS
  <1>2. PICK L \in Nat : L = Log2Floor(v) /\ Pow(L) <= v /\ v < Pow(L + 1)
    BY <1>1, Log2Exists
  <1>3. PICK M \in Nat : M = Log2Floor(w) /\ Pow(M) <= w /\ w < Pow(M + 1)
    BY <1>1, Log2Exists
  <1>4. L <= M
    <2>1. ASSUME M + 1 <= L PROVE FALSE
      <3>1. Pow(M + 1) <= Pow(L) /\ Pow(M + 1) \in Nat /\ Pow(L) \in Nat
        BY <2>1, Powers, PowerGrows
      <3>2. QED
        BY <1>1, <1>2, <1>3, <3>1
    <2>2. QED
      BY <2>1
  <1>5. kBuckets - 1 \in Int
    BY LoadGenAssumption
  <1>6. BucketOf(l) = IF L <= kBuckets - 1 THEN L ELSE kBuckets - 1
    BY <1>1, <1>2, <1>5, MinOfTwo DEF BucketOf
  <1>7. BucketOf(m) = IF M <= kBuckets - 1 THEN M ELSE kBuckets - 1
    BY <1>1, <1>3, <1>5, MinOfTwo DEF BucketOf
  <1>8. QED
    BY <1>4, <1>5, <1>6, <1>7

-----------------------------------------------------------------------------
(* What the histogram knows *)

\* The latencies in the first i + 1 buckets.
UpTo(i) == {l \in Latencies : BucketOf(l) <= i}

\* Every bucket and all before it count what was recorded there, whatever the phase.
HistInv ==
    /\ seen \in [Latencies -> Nat]
    /\ hist_.buckets \in [Buckets -> Nat]
    /\ hist_.ok = Answers
    /\ \A i \in Buckets :
           SumFunctionOnSet(hist_.buckets, 0 .. i) = SumFunctionOnSet(seen, UpTo(i))

LEMMA SeenTerms ==
    ASSUME NEW f \in [Latencies -> Nat], NEW S \in SUBSET Latencies PROVE Terms(f, S)
  BY LoadGenAssumption, FS_Subset DEF Terms

LEMMA BucketTerms ==
    ASSUME NEW b \in [Buckets -> Nat], NEW i \in Buckets PROVE Terms(b, 0 .. i)
  <1>1. i \in Int /\ 0 \in Int /\ \A j \in 0 .. i : j \in Buckets
    BY LoadGenAssumption DEF Buckets
  <1>2. \A j \in 0 .. i : b[j] \in Nat
    BY <1>1
  <1>3. QED
    BY <1>1, <1>2, IntervalTerms

\* Both phases start with an empty histogram.
LEMMA HistReset ==
    ASSUME NEW f, f = [l \in Latencies |-> 0],
           NEW b, b = [i \in Buckets |-> 0]
    PROVE  /\ f \in [Latencies -> Nat] /\ b \in [Buckets -> Nat]
           /\ SumFunctionOnSet(f, Latencies) = 0
           /\ \A i \in Buckets : SumFunctionOnSet(b, 0 .. i) = SumFunctionOnSet(f, UpTo(i))
  <1>1. f \in [Latencies -> Nat] /\ b \in [Buckets -> Nat]
    OBVIOUS
  <1>2. ASSUME NEW S \in SUBSET Latencies PROVE SumFunctionOnSet(f, S) = 0
    <2>1. Terms(f, S) /\ \A l \in S : f[l] = 0
      BY <1>1, SeenTerms
    <2>2. QED
      BY <2>1, SumZero
  <1>3. ASSUME NEW i \in Buckets PROVE SumFunctionOnSet(b, 0 .. i) = 0
    <2>1. Terms(b, 0 .. i)
      BY <1>1, BucketTerms
    <2>2. \A j \in 0 .. i : b[j] = 0
      BY LoadGenAssumption DEF Buckets
    <2>3. QED
      BY <2>1, <2>2, SumZero
  <1>4. \A i \in Buckets : UpTo(i) \in SUBSET Latencies
    BY DEF UpTo
  <1>5. QED
    BY <1>1, <1>2, <1>3, <1>4

LEMMA HistInit == Init => HistInv
  <1> SUFFICES ASSUME Init PROVE HistInv
    OBVIOUS
  <1>1. seen = [l \in Latencies |-> 0]
    BY DEF Init
  <1>2. hist_.ok = 0 /\ hist_.buckets = [i \in Buckets |-> 0]
    BY DEF Init, Reset, Buckets
  <1>3. QED
    BY <1>1, <1>2, HistReset DEF HistInv, Answers

LEMMA HistStart ==
    ASSUME NEW phase, NEW new, StartPhase(phase, new) PROVE HistInv'
  <1>1. seen' = [l \in Latencies |-> 0]
    BY DEF StartPhase
  <1>2. (hist_').ok = 0 /\ (hist_').buckets = [i \in Buckets |-> 0]
    BY DEF StartPhase, Reset, Buckets
  <1>3. QED
    BY <1>1, <1>2, HistReset DEF HistInv, Answers

\* An answer is one more of its latency, and one more in every prefix with its bucket.
LEMMA HistRecordOk ==
    ASSUME HistInv, Histogram(hist_), NEW l \in Latencies, RecordOk(l)
    PROVE  HistInv'
  <1>1. PICK k \in Buckets : k = BucketOf(l)
    BY BucketBounds, LoadGenAssumption
  <1>2. PICK f \in [Latencies -> Nat], b \in [Buckets -> Nat], n \in Nat :
          f = seen /\ b = hist_.buckets /\ n = hist_.ok
    BY DEF HistInv, Histogram
  <1>3. PICK g \in [Latencies -> Nat] : g = seen' /\ g = [f EXCEPT ![l] = @ + 1]
    <2>1. seen' = [f EXCEPT ![l] = @ + 1]
      BY <1>2 DEF RecordOk
    <2>2. [f EXCEPT ![l] = @ + 1] \in [Latencies -> Nat]
      OBVIOUS
    <2>3. QED
      BY <2>1, <2>2
  <1>4. PICK c \in [Buckets -> Nat] :
          /\ c = (hist_').buckets /\ c = [b EXCEPT ![k] = @ + 1]
          /\ (hist_').ok = n + 1
    <2>1. PICK e : hist_ = [ok |-> n, err |-> e, buckets |-> b]
      BY <1>2 DEF Histogram
    <2>2. hist_' = [hist_ EXCEPT !.ok = @ + 1, !.buckets[k] = @ + 1]
      BY <1>1 DEF RecordOk
    <2>3. hist_' = [ok |-> n + 1, err |-> e, buckets |-> [b EXCEPT ![k] = @ + 1]]
      BY <2>1, <2>2
    <2>4. [b EXCEPT ![k] = @ + 1] \in [Buckets -> Nat]
      OBVIOUS
    <2>5. QED
      BY <2>3, <2>4
  <1>5. ASSUME NEW S \in SUBSET Latencies
        PROVE  SumFunctionOnSet(g, S) =
                 IF l \in S THEN SumFunctionOnSet(f, S) + 1 ELSE SumFunctionOnSet(f, S)
    <2>1. Terms(f, S)
      BY SeenTerms
    <2>2. CASE l \in S
      <3>1. OneMoreAt(l, f, g, S)
        BY <1>3 DEF OneMoreAt
      <3>2. QED
        BY <2>1, <2>2, <3>1, SumOneMore
    <2>3. CASE l \notin S
      <3>1. \A y \in S : g[y] = f[y]
        BY <1>3, <2>3
      <3>2. QED
        BY <2>1, <2>3, <3>1, SumSame
    <2>4. QED
      BY <2>2, <2>3
  <1>6. ASSUME NEW i \in Buckets
        PROVE  SumFunctionOnSet(c, 0 .. i) =
                 IF k <= i THEN SumFunctionOnSet(b, 0 .. i) + 1
                           ELSE SumFunctionOnSet(b, 0 .. i)
    <2>0. PICK S : S = 0 .. i
      OBVIOUS
    <2>1. Terms(b, S) /\ \A j \in S : j \in Buckets
      <3>1. Terms(b, S)
        BY <2>0, BucketTerms
      <3>2. \A j \in S : j \in Buckets
        BY <2>0, LoadGenAssumption DEF Buckets
      <3>3. QED
        BY <3>1, <3>2
    <2>2. CASE k <= i
      <3>1. k \in S /\ OneMoreAt(k, b, c, S)
        BY <1>4, <2>0, <2>1, <2>2 DEF OneMoreAt, Buckets
      <3>2. QED
        BY <2>0, <2>1, <2>2, <3>1, SumOneMore
    <2>3. CASE ~(k <= i)
      <3>1. \A y \in S : c[y] = b[y]
        BY <1>4, <2>0, <2>1, <2>3
      <3>2. QED
        BY <2>0, <2>1, <2>3, <3>1, SumSame
    <2>4. QED
      BY <2>2, <2>3
  <1>7. SumFunctionOnSet(g, Latencies) = n + 1
    BY <1>2, <1>5 DEF HistInv, Answers
  <1>8. ASSUME NEW i \in Buckets
        PROVE  SumFunctionOnSet(c, 0 .. i) = SumFunctionOnSet(g, UpTo(i))
    <2>1. PICK S \in SUBSET Latencies : S = UpTo(i) /\ (l \in S <=> k <= i)
      <3>1. UpTo(i) \in SUBSET Latencies /\ (l \in UpTo(i) <=> k <= i)
        BY <1>1 DEF UpTo
      <3>2. QED
        BY <3>1
    <2>2. SumFunctionOnSet(b, 0 .. i) = SumFunctionOnSet(f, S)
      BY <1>2, <2>1 DEF HistInv
    <2>3. QED
      BY <1>5, <1>6, <2>1, <2>2
  <1>9. QED
    BY <1>3, <1>4, <1>7, <1>8 DEF HistInv, Answers

LEMMA HistSame == ASSUME HistInv, UNCHANGED <<hist_, seen>> PROVE HistInv'
  BY DEF HistInv, Answers

\* An error is not in the buckets.
LEMMA HistRecordErr == ASSUME HistInv, Histogram(hist_), RecordErr PROVE HistInv'
  <1>1. (hist_').ok = hist_.ok /\ (hist_').buckets = hist_.buckets /\ seen' = seen
    <2>1. PICK n, e, b, m : hist_ = [ok |-> n, err |-> e, buckets |-> b]
                            /\ hist_' = [hist_ EXCEPT !.err = m]
      BY DEF Histogram, RecordErr
    <2>2. QED
      BY <2>1 DEF RecordErr
  <1>2. QED
    BY <1>1 DEF HistInv, Answers

LEMMA HistStep == HistInv /\ Histogram(hist_) /\ [Next]_vars => HistInv'
  <1> SUFFICES ASSUME HistInv, Histogram(hist_), [Next]_vars PROVE HistInv'
    OBVIOUS
  <1>1. CASE StartWarmup \/ StartMeasured
    BY <1>1, HistStart DEF StartWarmup, StartMeasured
  <1>2. CASE DeadlinePasses \/ EndSleep \/ StopContext \/ UNCHANGED vars
    BY <1>2, HistSame DEF DeadlinePasses, EndSleep, StopContext, vars
  <1>3. ASSUME NEW s \in Sessions, Complete(s) \/ StreamExpires(s) \/ TimerExpires(s)
        PROVE  HistInv'
    BY <1>3, HistSame DEF Complete, StreamExpires, TimerExpires
  <1>4. ASSUME NEW s \in Sessions, Handler(s) PROVE HistInv'
    <2>1. \/ UNCHANGED <<hist_, seen>>
          \/ RecordErr
          \/ \E l \in Latencies : RecordOk(l)
      BY <1>4 DEF Handler, OnResolve, OnConnect, OnWrite, OnRead, OnTimeout,
                  OnReconnectTimer
    <2>2. QED
      BY <2>1, HistSame, HistRecordErr, HistRecordOk
  <1>5. QED
    BY <1>1, <1>2, <1>3, <1>4 DEF Next

LEMMA HistInvariant == Spec => [](HistInv /\ Histogram(hist_))
  <1>1. LoadInv => Histogram(hist_)
    BY DEF LoadInv, TypeInv
  <1>2. QED
    BY <1>1, LoadInvariant, HistInit, HistStep, PTL DEF Spec

-----------------------------------------------------------------------------
(* The percentiles *)

LEMMA MinIs ==
    ASSUME NEW S \in SUBSET Int, NEW x \in S, \A y \in S : x <= y
    PROVE  Min(S) = x
  <1>1. \A z \in S : (\A y \in S : z <= y) => z = x
    OBVIOUS
  <1>2. QED
    BY <1>1 DEF Min

LEMMA MinIn ==
    ASSUME NEW S \in SUBSET Nat, S # {}
    PROVE  Min(S) \in S /\ \A y \in S : Min(S) <= y
  <1>1. PICK m \in S : \A k \in Nat : k < m => k \notin S
    BY SmallestNumber
  <1>2. \A y \in S : m <= y
    BY <1>1
  <1>3. QED
    BY <1>2 DEF Min

LEMMA Greatest ==
    ASSUME NEW S \in SUBSET Nat, IsFiniteSet(S), S # {}
    PROVE  \E g \in S : \A y \in S : y <= g
  <1> DEFINE Bad == {T \in SUBSET S : T # {} /\ ~ \E g \in T : \A y \in T : y <= g}
  <1>1. ASSUME Bad # {} PROVE FALSE
    <2>1. PICK T \in Bad : \A U \in SUBSET T : U # T => U \notin Bad
      <3>1. Bad \in SUBSET SUBSET S
        OBVIOUS
      <3> HIDE DEF Bad
      <3>2. QED
        BY <1>1, <3>1, SmallestSubset
    <2>2. T \in SUBSET Nat /\ T # {} /\ ~ \E g \in T : \A y \in T : y <= g
      OBVIOUS
    <2>3. PICK x \in T : x \in Nat
      BY <2>2
    <2>4. PICK y \in T : ~(y <= x)
      BY <2>2
    <2>5. T \ {x} # {} /\ T \ {x} # T /\ T \ {x} \in SUBSET T
      BY <2>3, <2>4
    <2>6. PICK g \in T \ {x} : \A z \in T \ {x} : z <= g
      <3>1. T \ {x} \notin Bad /\ T \ {x} \in SUBSET S
        BY <2>1, <2>5
      <3>2. QED
        BY <2>5, <3>1
    <2>7. x <= g
      BY <2>2, <2>3, <2>4, <2>6
    <2>8. QED
      BY <2>2, <2>6, <2>7
  <1>2. S \notin Bad
    BY <1>1
  <1>3. QED
    BY <1>2

\* What Ranked and Percentile speak of.
AtMost(l) == {m \in Latencies : m <= l}
Beyond(rank) ==
    {i \in DOMAIN hist_.buckets : SumFunctionOnSet(hist_.buckets, 0 .. i) > rank}

LEMMA SeenSums ==
    ASSUME HistInv, NEW S \in SUBSET Latencies, NEW T \in SUBSET S
    PROVE  /\ SumFunctionOnSet(seen, S) \in Nat /\ SumFunctionOnSet(seen, T) \in Nat
           /\ SumFunctionOnSet(seen, T) <= SumFunctionOnSet(seen, S)
  <1>1. Terms(seen, S)
    BY SeenTerms DEF HistInv
  <1>2. QED
    BY <1>1, SumSubset, SumNat

\* Every rank has its latency.
LEMMA RankedIn ==
    ASSUME HistInv, NEW rank \in Nat, rank < Answers
    PROVE  /\ Ranked(seen, rank) \in Latencies
           /\ SumFunctionOnSet(seen, AtMost(Ranked(seen, rank))) > rank
           /\ \A l \in Latencies :
                  l < Ranked(seen, rank) => ~(SumFunctionOnSet(seen, AtMost(l)) > rank)
  <1> DEFINE R == {l \in Latencies : SumFunctionOnSet(seen, AtMost(l)) > rank}
  <1>1. Ranked(seen, rank) = Min(R)
    BY DEF Ranked, AtMost
  <1>2. R # {}
    <2>1. Latencies # {}
      BY SumEmpty DEF Answers
    <2>2. PICK g \in Latencies : \A y \in Latencies : y <= g
      BY <2>1, Greatest, LoadGenAssumption
    <2>3. AtMost(g) = Latencies
      BY <2>2 DEF AtMost
    <2>4. g \in R
      BY <2>3 DEF Answers
    <2>5. QED
      BY <2>4
  <1>3. R \in SUBSET Nat
    BY LoadGenAssumption
  <1> DEFINE t == Min(R)
  <1>4. t \in R /\ \A y \in R : t <= y
    <2> HIDE DEF R
    <2>1. QED
      BY <1>2, <1>3, MinIn
  <1>5. t \in Latencies /\ t \in Nat /\ SumFunctionOnSet(seen, AtMost(t)) > rank
    BY <1>3, <1>4
  <1>6. ASSUME NEW l \in Latencies, l < t PROVE ~(SumFunctionOnSet(seen, AtMost(l)) > rank)
    <2>1. l \in Nat /\ ~(t <= l)
      BY <1>5, <1>6, LoadGenAssumption
    <2>2. QED
      BY <1>4, <2>1
  <1> HIDE DEF t
  <1>7. QED
    BY <1>1, <1>5, <1>6 DEF t

\* The bucket that ApproxPercentileUs finds is the bucket of that latency.
LEMMA PercentileBucket ==
    ASSUME HistInv, NEW rank \in Nat, rank < Answers
    PROVE  Beyond(rank) # {} /\ Min(Beyond(rank)) = BucketOf(Ranked(seen, rank))
  <1>1. PICK t \in Latencies :
          /\ t = Ranked(seen, rank)
          /\ SumFunctionOnSet(seen, AtMost(t)) > rank
          /\ \A l \in Latencies : l < t => ~(SumFunctionOnSet(seen, AtMost(l)) > rank)
    BY RankedIn
  <1>2. \A l \in Latencies : l \in Nat
    BY LoadGenAssumption
  <1>3. PICK b \in Buckets : b = BucketOf(t)
    BY <1>2, BucketBounds
  <1>4. DOMAIN hist_.buckets = Buckets
    BY DEF HistInv
  <1>5. \A i \in Buckets : UpTo(i) \in SUBSET Latencies
                           /\ SumFunctionOnSet(hist_.buckets, 0 .. i) = SumFunctionOnSet(seen, UpTo(i))
    BY DEF HistInv, UpTo
  <1>6. b \in Beyond(rank)
    <2>1. \A l \in AtMost(t) : l \in UpTo(b)
      <3> SUFFICES ASSUME NEW l \in Latencies, l <= t PROVE BucketOf(l) <= b
        BY DEF AtMost, UpTo
      <3>1. QED
        BY <1>2, <1>3, BucketGrows
    <2>2. AtMost(t) \in SUBSET UpTo(b)
      BY <2>1
    <2>3. /\ SumFunctionOnSet(seen, AtMost(t)) <= SumFunctionOnSet(seen, UpTo(b))
          /\ SumFunctionOnSet(seen, AtMost(t)) \in Nat
          /\ SumFunctionOnSet(seen, UpTo(b)) \in Nat
      BY <1>5, <2>2, SeenSums
    <2>4. SumFunctionOnSet(hist_.buckets, 0 .. b) > rank
      BY <1>1, <1>5, <2>3
    <2>5. QED
      BY <1>4, <2>4 DEF Beyond
  <1>7. ASSUME NEW i \in Buckets, i < b PROVE i \notin Beyond(rank)
    <2>1. CASE UpTo(i) = {}
      <3>1. SumFunctionOnSet(hist_.buckets, 0 .. i) = 0
        BY <1>5, <2>1, SumEmpty
      <3>2. QED
        BY <3>1 DEF Beyond
    <2>2. CASE UpTo(i) # {}
      <3>1. PICK g \in UpTo(i) : \A y \in UpTo(i) : y <= g
        <4>1. UpTo(i) \in SUBSET Nat /\ IsFiniteSet(UpTo(i))
          BY <1>2, <1>5, LoadGenAssumption, FS_Subset
        <4>2. QED
          BY <2>2, <4>1, Greatest
      <3>2. g \in Latencies /\ g \in Nat /\ t \in Nat /\ BucketOf(g) <= i /\ BucketOf(g) \in Buckets
        BY <1>2, BucketBounds DEF UpTo
      <3>3. g < t
        <4>1. ASSUME t <= g PROVE FALSE
          <5>1. b <= BucketOf(g)
            BY <1>3, <3>2, <4>1, BucketGrows
          <5>2. QED
            BY <1>7, <3>2, <5>1 DEF Buckets
        <4>2. QED
          BY <3>2, <4>1
      <3>4. UpTo(i) \in SUBSET AtMost(g) /\ AtMost(g) \in SUBSET Latencies
        BY <1>5, <3>1 DEF AtMost
      <3>5. /\ SumFunctionOnSet(seen, UpTo(i)) <= SumFunctionOnSet(seen, AtMost(g))
            /\ SumFunctionOnSet(seen, AtMost(g)) \in Nat
            /\ SumFunctionOnSet(seen, UpTo(i)) \in Nat
        BY <3>4, SeenSums
      <3>6. ~(SumFunctionOnSet(seen, AtMost(g)) > rank)
        BY <1>1, <3>2, <3>3
      <3>7. ~(SumFunctionOnSet(hist_.buckets, 0 .. i) > rank)
        BY <1>5, <3>5, <3>6
      <3>8. QED
        BY <3>7 DEF Beyond
    <2>3. QED
      BY <2>1, <2>2
  <1>8. Beyond(rank) \in SUBSET Buckets
    BY <1>4 DEF Beyond
  <1>9. Beyond(rank) \in SUBSET Int /\ \A y \in Beyond(rank) : b <= y
    BY <1>7, <1>8 DEF Buckets
  <1>10. Min(Beyond(rank)) = b
    BY <1>6, <1>9, MinIs
  <1>11. QED
    BY <1>1, <1>3, <1>6, <1>10

\* Whichever rank the code takes, some answer has it, and it is the percentile's.
LEMMA RankBelow ==
    ASSUME NEW n \in Nat, NEW p \in {500, 900, 990, 999}, NEW rank \in Ranks(n, p)
    PROVE  rank \in 0 .. n /\ IsRank(rank, n, p)
  <1> DEFINE q == (n * p) \div 1000
             m == (n * p) % 1000
  <1>1. n * p \in Nat /\ n * p <= 1000 * n /\ (n > 0 => n * p >= 500)
    <2>1. CASE p = 500
      BY <2>1
    <2>2. CASE p = 900
      BY <2>2
    <2>3. CASE p = 990
      BY <2>3
    <2>4. CASE p = 999
      BY <2>4
    <2>5. QED
      BY <2>1, <2>2, <2>3, <2>4
  <1>2. PICK x \in Nat : x = n * p
    BY <1>1
  <1>3. q \in Nat /\ m \in 0 .. 999 /\ x = 1000 * q + m
    BY <1>2
  <1>4. rank = q \/ (rank = q - 1 /\ n > 0 /\ m = 0)
    BY DEF Ranks
  <1>5. rank \in 0 .. n
    <2> HIDE DEF q, m
    <2>1. QED
      BY <1>1, <1>2, <1>3, <1>4
  <1>6. rank * 1000 <= x /\ x <= (rank + 1) * 1000
    <2> HIDE DEF q, m
    <2>1. QED
      BY <1>3, <1>4
  <1>7. QED
    BY <1>2, <1>5, <1>6 DEF IsRank

LEMMA PercentileClose ==
    ASSUME HistInv, NEW rank \in Nat, rank < Answers, NEW t, t = Ranked(seen, rank),
           NEW printed, printed = ForRank(hist_, rank)
    PROVE  Near(printed, t)
  <1>1. t \in Nat
    <2>1. Ranked(seen, rank) \in Latencies
      BY RankedIn
    <2>2. QED
      BY <2>1, LoadGenAssumption
  <1>2. printed = Pow(BucketOf(t))
    <2>1. Beyond(rank) # {} /\ Min(Beyond(rank)) = BucketOf(t)
      BY PercentileBucket
    <2>2. QED
      BY <2>1 DEF Pow, ForRank, Beyond
  <1>3. /\ Pow(BucketOf(t)) \in Nat /\ Pow(BucketOf(t)) <= t + 1
        /\ t + 1 < 2 * Pow(BucketOf(t)) \/ BucketOf(t) = kBuckets - 1
    BY <1>1, BucketBounds
  <1>4. BucketOf(t) = kBuckets - 1 => printed = 2 ^ (kBuckets - 1)
    BY <1>2 DEF Pow
  <1>5. QED
    BY <1>2, <1>3, <1>4 DEF Near

-----------------------------------------------------------------------------
\* A session is continued by exactly one thing, and cancelling the deadline of a request
\* never cancels the pause before a reconnect.
THEOREM SessionsContinued == Spec => []TypeOK
  <1>1. LoadInv => TypeOK
    BY DEF LoadInv, TypeInv, TypeOK, Histogram, Continued, OneTimer, SessionStates
  <1>2. QED
    BY <1>1, LoadInvariant, PTL

\* However many errors, timeouts and reconnects there are, every session of the measured
\* phase goes on until its deadline.
THEOREM LoadIsSustained == Spec => []LoadSustained
  <1>1. LoadInv => LoadSustained
    BY DEF LoadInv
  <1>2. QED
    BY <1>1, LoadInvariant, PTL

\* The summary counts the answers of the measured phase alone, and every percentile that
\* it prints is the true one to within one answer and one bucket, whichever way the
\* platform rounds its rank.
THEOREM PercentilesClose == Spec => []PercentilesWithinBucket
  <1>1. HistInv /\ Histogram(hist_) => PercentilesWithinBucket
    <2> SUFFICES ASSUME HistInv, Histogram(hist_), hist_.ok > 0
                 PROVE  PercentilesWithinBucket
      BY DEF PercentilesWithinBucket, Histogram
    <2>1. hist_.ok = Answers
      BY DEF HistInv
    <2>2. ASSUME NEW p \in {500, 900, 990, 999}, NEW printed \in Percentile(hist_, p)
          PROVE  \E rank \in 0 .. hist_.ok - 1 :
                     IsRank(rank, hist_.ok - 1, p) /\ Near(printed, Ranked(seen, rank))
      <3>1. hist_.ok \in Nat /\ hist_.ok # 0
        BY DEF Histogram
      <3>2. PICK rank \in Ranks(hist_.ok - 1, p) : printed = ForRank(hist_, rank)
        BY <2>2, <3>1 DEF Percentile
      <3>3. rank \in 0 .. hist_.ok - 1 /\ IsRank(rank, hist_.ok - 1, p)
        BY <3>1, RankBelow
      <3>4. rank \in Nat /\ rank < Answers
        BY <2>1, <3>1, <3>3
      <3>5. PICK t : t = Ranked(seen, rank)
        OBVIOUS
      <3>6. Near(printed, t)
        BY <3>2, <3>4, <3>5, PercentileClose
      <3>7. QED
        BY <3>3, <3>5, <3>6
    <2>3. Summarises(hist_, seen)
      BY <2>2 DEF Summarises
    <2>4. QED
      BY <2>1, <2>3 DEF PercentilesWithinBucket
  <1>2. QED
    BY <1>1, HistInvariant, PTL
=============================================================================

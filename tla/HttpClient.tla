----------------------------- MODULE HttpClient -----------------------------
(***************************************************************************)
(* chmicro::http::HttpClient::Get (src/src/http/http_client.cpp): one call *)
(* with its own io_context, whose run() executes on the caller's thread    *)
(* the handlers of two chains: resolve -> connect -> write -> read, and    *)
(* the deadline timer.                                                     *)
(*                                                                         *)
(* The operations of asio and beast are external.  An operation is made of *)
(* rounds (a connect tries one endpoint after the other, a read takes as   *)
(* many reads of the socket as the response needs).  A round is pending    *)
(* until the peer answers, then its completion is queued, then its handler *)
(* runs.  stream.cancel() aborts a pending round of the socket; it touches *)
(* neither the resolver nor a round whose completion is queued already.    *)
(***************************************************************************)
EXTENDS Integers

CONSTANTS Endpoints,   \* bound: addresses the resolver returns
          MaxReads     \* bound: rounds of async_read

ASSUME ClientAssumption == Endpoints \in Nat \ {0} /\ MaxReads \in Nat \ {0}

VARIABLES
    op,         \* the operation of the chain that is outstanding
    left,       \* rounds it may still take, this one included
    outcome,    \* of its round: "pending", or the queued completion
    late,       \* the round was started after the deadline
    timer,      \* "armed", "queued" (expired) or "done"
    timed_out,  \* st.timed_out
    ec,         \* st.ec is set
    answered,   \* st.resp holds a complete response
    result      \* what Get() returned

chain == <<op, left, outcome, late>>
get_vars == <<chain, timer, timed_out, ec, answered, result>>

SocketOps == {"connect", "write", "read"}

GetInit ==
    /\ op = "resolve" /\ left = 1 /\ outcome = "pending" /\ late = FALSE
    /\ timer = "armed"
    /\ timed_out = FALSE
    /\ ec = FALSE
    /\ answered = FALSE
    /\ result = "none"

\* Start a round of operation o.
BeginRound(o, n) ==
    op' = o /\ left' = n /\ outcome' = "pending" /\ late' = timed_out

\* The chain has nothing outstanding any more.
EndChain == op' = "none" /\ left' = 0 /\ outcome' = "pending" /\ UNCHANGED late

\* if (ec) { st.ec = ec; return; }
Fail == ec' = TRUE /\ EndChain

Failed == outcome \in {"error", "aborted"}

-----------------------------------------------------------------------------
(* The network and the clock *)

RoundCompletes ==
    /\ op # "none" /\ outcome = "pending"
    /\ outcome' \in {"ok", "error"}
    /\ UNCHANGED <<op, left, late, timer, timed_out, ec, answered, result>>

DeadlineExpires ==
    /\ timer = "armed"
    /\ timer' = "queued"
    /\ UNCHANGED <<chain, timed_out, ec, answered, result>>

-----------------------------------------------------------------------------
(* The handlers, run one at a time by st.ioc.run() *)

TimerHandler_NoCancel ==
    /\ timer = "queued"
    /\ timer' = "done"
    /\ timed_out' = TRUE
    /\ UNCHANGED <<chain, ec, answered, result>>
TimerHandler_Rearms ==
    /\ timer = "queued"
    /\ timer' = "armed"
    /\ timed_out' = TRUE
    /\ outcome' = IF op \in SocketOps /\ outcome = "pending"
                  THEN "aborted" ELSE outcome
    /\ UNCHANGED <<op, left, late, ec, answered, result>>
TimerHandler ==
    /\ timer = "queued"
    /\ timer' = "done"
    /\ timed_out' = TRUE
    /\ outcome' = IF op \in SocketOps /\ outcome = "pending"
                  THEN "aborted" ELSE outcome
    /\ UNCHANGED <<op, left, late, ec, answered, result>>

ResolveHandler ==
    /\ op = "resolve"
    /\ \/ Failed /\ Fail
       \/ outcome = "ok" /\ BeginRound("connect", Endpoints) /\ UNCHANGED ec
    /\ UNCHANGED <<timer, timed_out, answered, result>>

ConnectHandler_NoReturn ==
    /\ op = "connect"
    /\ \/ Failed /\ left > 1 /\ BeginRound("connect", left - 1) /\ UNCHANGED ec
       \/ Failed /\ left = 1 /\ ec' = TRUE /\ BeginRound("write", 1)
       \/ outcome = "ok" /\ BeginRound("write", 1) /\ UNCHANGED ec
    /\ UNCHANGED <<timer, timed_out, answered, result>>
\* An attempt that fails, or is aborted by cancel(), is followed by the next
\* endpoint; the handler of Get() runs after the last one.
ConnectHandler ==
    /\ op = "connect"
    /\ \/ Failed /\ left > 1 /\ BeginRound("connect", left - 1) /\ UNCHANGED ec
       \/ Failed /\ left = 1 /\ Fail
       \/ outcome = "ok" /\ BeginRound("write", 1) /\ UNCHANGED ec
    /\ UNCHANGED <<timer, timed_out, answered, result>>

WriteHandler ==
    /\ op = "write"
    /\ \/ Failed /\ Fail
       \/ outcome = "ok" /\ BeginRound("read", MaxReads) /\ UNCHANGED ec
    /\ UNCHANGED <<timer, timed_out, answered, result>>

\* The response is complete, or another read is needed.
ReadHandler ==
    /\ op = "read"
    /\ \/ Failed /\ Fail /\ UNCHANGED answered
       \/ outcome = "ok" /\ left > 1 /\ BeginRound("read", left - 1) /\ UNCHANGED <<ec, answered>>
       \/ outcome = "ok" /\ EndChain /\ answered' = TRUE /\ UNCHANGED ec
    /\ UNCHANGED <<timer, timed_out, result>>

\* run() returns when no handler is outstanding, the timer's included.
Return ==
    /\ result = "none"
    /\ op = "none" /\ timer = "done"
    /\ result' = IF timed_out THEN "timeout" ELSE IF ec THEN "unavailable" ELSE "response"
    /\ UNCHANGED <<chain, timer, timed_out, ec, answered>>

-----------------------------------------------------------------------------
GetHandler ==
    \/ TimerHandler \/ ResolveHandler \/ ConnectHandler
    \/ WriteHandler \/ ReadHandler \/ Return

\* Get() has returned.
Done == result # "none" /\ UNCHANGED get_vars

GetNext == GetHandler \/ RoundCompletes \/ DeadlineExpires \/ Done

GetSpec == GetInit /\ [][GetNext]_get_vars

\* The caller's thread runs every handler that is ready and time passes; the peer
\* need not answer.
GetFairSpec == GetSpec /\ WF_get_vars(GetHandler) /\ WF_get_vars(DeadlineExpires)

-----------------------------------------------------------------------------
(* Properties *)

\* Every variable has its type.
GetTypeOK ==
    /\ op \in {"none", "resolve", "connect", "write", "read"}
    /\ left \in 0 .. Endpoints + MaxReads
    /\ outcome \in {"pending", "ok", "error", "aborted"}
    /\ late \in BOOLEAN
    /\ timer \in {"armed", "queued", "done"}
    /\ timed_out \in BOOLEAN
    /\ ec \in BOOLEAN
    /\ answered \in BOOLEAN
    /\ result \in {"none", "timeout", "unavailable", "response"}

\* Every handler returns after it recorded an error: once st.ec is set nothing is
\* started any more on the stream, and no response counts.
ErrorEndsChain == ec => op = "none" /\ ~answered

\* The inductive invariant behind the theorem: a response ends the chain as an error does.
GetInv ==
    /\ GetTypeOK
    /\ ErrorEndsChain
    /\ answered => op = "none"

\* The deadline works on an operation of the socket that was outstanding when the
\* timer fired: Get() is not blocked for ever on it, however silent the peer.
DeadlineUnblocks ==
    []<>~(op \in SocketOps /\ outcome = "pending" /\ ~late)

\* If every operation completes in the end, with a result or an error, Get() returns.
GetReturns == WF_get_vars(RoundCompletes) => <>(result # "none")

\* A response that is complete before the deadline is returned: the code has
\* "http client timeout" (http_client.cpp:76) for the other case, and lines 82-88 to
\* build the result from st.resp.
AnswerIsReturned == answered /\ timer = "armed" ~> result = "response"
=============================================================================

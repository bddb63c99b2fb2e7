----------------------------- MODULE HttpServer -----------------------------
(***************************************************************************)
(* chmicro::http::HttpServer (src/src/http/http_server.cpp:167-236): the   *)
(* acceptor and the loop of asynchronous accepts.                          *)
(*                                                                         *)
(* Start() and Stop() are called by threads of the application (App::Run   *)
(* and App::Stop); the accept handlers run on the one thread of the        *)
(* server's io_context.  The acceptor is not guarded by anything: a call   *)
(* of Stop() interleaves with a handler at every access of the two.  The   *)
(* acceptor's operations are external: cancel() and close() complete every *)
(* pending accept with an error, an accept on an acceptor that does not    *)
(* listen completes with an error at once.                                 *)
(***************************************************************************)
EXTENDS Integers, Sequences, FiniteSets

CONSTANTS
    Callers,          \* threads that call Start() and Stop()
    StopDuringStart,  \* TRUE: Stop() may be called while Start() is under way
    MaxStarts,        \* bound: calls of Start()
    MaxAccepts        \* bound: accepts that the kernel completes

ASSUME ServerAssumption ==
    StopDuringStart \in BOOLEAN /\ MaxStarts \in Nat /\ MaxAccepts \in Nat

VARIABLES
    running_,
    acceptor,   \* "closed", "open" (not listening) or "listening"
    pending,    \* accepts that wait for a connection
    queue,      \* completed accepts whose handler has not run
    handler,    \* "idle", or "accept": the handler is about to call DoAccept()
    pc,         \* where each caller is
    sessions,   \* sessions created
    starts, accepts

server_vars == <<running_, acceptor, pending, queue, handler, pc, sessions, starts, accepts>>

ServerInit ==
    /\ running_ = FALSE
    /\ acceptor = "closed"
    /\ pending = 0
    /\ queue = <<>>
    /\ handler = "idle"
    /\ pc = [t \in Callers |-> "idle"]
    /\ sessions = 0
    /\ starts = 0
    /\ accepts = 0

Goto(t, label) == pc' = [pc EXCEPT ![t] = label]
Starting == {"listen", "accept"}
Stopping == {"cancel", "close"}

\* The handlers of all pending accepts are queued with an error.
AbortPending ==
    /\ queue' = queue \o [i \in 1 .. pending |-> "error"]
    /\ pending' = 0

\* acceptor_.async_accept()
DoAccept ==
    IF acceptor = "listening"
    THEN pending' = pending + 1 /\ UNCHANGED queue
    ELSE queue' = Append(queue, "error") /\ UNCHANGED pending

-----------------------------------------------------------------------------
(* Start() *)

Start(t) ==
    /\ pc[t] = "idle"
    /\ starts < MaxStarts
    /\ \A u \in Callers : pc[u] \notin Starting
    /\ starts' = starts + 1
    /\ running_' = TRUE
    /\ Goto(t, IF running_ THEN "idle" ELSE "listen")
    /\ UNCHANGED <<acceptor, pending, queue, handler, sessions, accepts>>

\* make_address, open, bind, listen: each may fail, and leaves running_ set.  An
\* acceptor that is still open cannot be opened again.
Listen(t) ==
    /\ pc[t] = "listen"
    /\ \/ /\ acceptor = "closed"
          /\ acceptor' = "listening"
          /\ Goto(t, "accept")
       \/ /\ acceptor' \in IF acceptor = "closed" THEN {"closed", "open"} ELSE {acceptor}
          /\ Goto(t, "idle")
    /\ UNCHANGED <<running_, pending, queue, handler, sessions, starts, accepts>>

FirstAccept(t) ==
    /\ pc[t] = "accept"
    /\ DoAccept
    /\ Goto(t, "idle")
    /\ UNCHANGED <<running_, acceptor, handler, sessions, starts, accepts>>

-----------------------------------------------------------------------------
(* Stop() *)

Stop(t) ==
    /\ pc[t] = "idle"
    /\ StopDuringStart \/ \A u \in Callers : pc[u] \notin Starting
    /\ running_
    /\ running_' = FALSE
    /\ Goto(t, "cancel")
    /\ UNCHANGED <<acceptor, pending, queue, handler, sessions, starts, accepts>>

Cancel(t) ==
    /\ pc[t] = "cancel"
    /\ AbortPending
    /\ Goto(t, "close")
    /\ UNCHANGED <<running_, acceptor, handler, sessions, starts, accepts>>

Close_Dropped(t) ==
    /\ pc[t] = "close"
    /\ Goto(t, "idle")
    /\ UNCHANGED <<acceptor, pending, queue, running_, handler, sessions, starts, accepts>>
Close(t) ==
    /\ pc[t] = "close"
    /\ AbortPending
    /\ acceptor' = "closed"
    /\ Goto(t, "idle")
    /\ UNCHANGED <<running_, handler, sessions, starts, accepts>>

-----------------------------------------------------------------------------
(* The accept loop *)

\* The kernel completes an accept: a connection, or an error such as a lack of
\* file descriptors.
Accepted ==
    /\ pending > 0 /\ accepts < MaxAccepts
    /\ accepts' = accepts + 1
    /\ pending' = pending - 1
    /\ \E r \in {"ok", "error"} : queue' = Append(queue, r)
    /\ UNCHANGED <<running_, acceptor, handler, pc, sessions, starts>>

OnAccept_ErrorEndsLoop ==
    /\ handler = "idle" /\ queue # <<>>
    /\ queue' = Tail(queue)
    /\ \/ /\ Head(queue) = "ok"
          /\ sessions' = sessions + 1
          /\ handler' = "accept"
       \/ /\ Head(queue) = "error"
          /\ UNCHANGED <<handler, sessions>>
    /\ UNCHANGED <<running_, acceptor, pending, pc, starts, accepts>>
OnAccept_RearmsAlways ==
    /\ handler = "idle" /\ queue # <<>>
    /\ queue' = Tail(queue)
    /\ handler' = "accept"
    /\ sessions' = IF Head(queue) = "ok" THEN sessions + 1 ELSE sessions
    /\ UNCHANGED <<running_, acceptor, pending, pc, starts, accepts>>
\* The handler: a session for a connection, and the next accept; after an error
\* the next accept only while the server runs.
OnAccept ==
    /\ handler = "idle" /\ queue # <<>>
    /\ queue' = Tail(queue)
    /\ \/ /\ Head(queue) = "ok"
          /\ sessions' = sessions + 1
          /\ handler' = "accept"
       \/ /\ Head(queue) = "error"
          /\ handler' = IF running_ THEN "accept" ELSE "idle"
          /\ UNCHANGED sessions
    /\ UNCHANGED <<running_, acceptor, pending, pc, starts, accepts>>

NextAccept_Twice ==
    /\ handler = "accept"
    /\ IF acceptor = "listening" THEN pending' = pending + 2 /\ UNCHANGED queue
       ELSE queue' = Append(queue, "error") /\ UNCHANGED pending
    /\ handler' = "idle"
    /\ UNCHANGED <<running_, acceptor, pc, sessions, starts, accepts>>
NextAccept ==
    /\ handler = "accept"
    /\ DoAccept
    /\ handler' = "idle"
    /\ UNCHANGED <<running_, acceptor, pc, sessions, starts, accepts>>

-----------------------------------------------------------------------------
CallerStep(t) == Listen(t) \/ FirstAccept(t) \/ Cancel(t) \/ Close(t)

ServerNext ==
    \/ \E t \in Callers : Start(t) \/ Stop(t) \/ CallerStep(t)
    \/ Accepted \/ OnAccept \/ NextAccept

ServerSpec == ServerInit /\ [][ServerNext]_server_vars

\* A call that has begun goes on, and the context's thread runs its handlers.
\* Nobody has to call Start() or Stop(), and no connection has to come.
ServerFairSpec ==
    /\ ServerSpec
    /\ \A t \in Callers : WF_server_vars(CallerStep(t))
    /\ WF_server_vars(OnAccept \/ NextAccept)

-----------------------------------------------------------------------------
(* Properties *)

AllIdle == \A t \in Callers : pc[t] = "idle"

\* The accept loops that exist, wherever they are.
Loops == pending + Len(queue) + IF handler = "accept" THEN 1 ELSE 0

\* Every variable has its type; there are at most as many accept loops as calls
\* of Start() (a Stop() followed at once by a Start() leaves two: the aborted
\* handler finds the server running again and accepts once more).
TypeOK ==
    /\ running_ \in BOOLEAN
    /\ acceptor \in {"closed", "open", "listening"}
    /\ pending \in Nat
    /\ queue \in Seq({"ok", "error"})
    /\ handler \in {"idle", "accept"}
    /\ pc \in [Callers -> {"idle"} \cup Starting \cup Stopping]
    /\ sessions \in Nat /\ starts \in Nat /\ accepts \in Nat
    /\ Loops <= starts

\* A server that runs and listens has an accept outstanding, or a handler on its
\* way that will start one: neither an accept error nor any order of Stop() and
\* Start() ends the loop of a running server.
AcceptLoopAlive == running_ /\ acceptor = "listening" /\ AllIdle => Loops >= 1

\* When Stop() has returned the port is closed and no accept waits, also when a
\* handler was between its test of running_ and DoAccept() during the Stop().
StoppedIsClosed == ~running_ /\ AllIdle => acceptor = "closed" /\ pending = 0

\* The parts of the inductive invariant behind the theorems, for StopDuringStart =
\* FALSE: one thread at a time opens the acceptor, and only of a running server;
\* what is still open on a stopped server has a Stop() that will close it; and a
\* listening acceptor has a loop, or a call under way that starts one or closes it.
OneStarter ==
    \A t, u \in Callers : pc[t] \in Starting /\ pc[u] \in Starting => t = u
StartsRunning == ~running_ => \A t \in Callers : pc[t] \notin Starting
BeingClosed ==
    ~running_ /\ (acceptor # "closed" \/ pending > 0) =>
        \E t \in Callers : pc[t] \in Stopping
LoopCarried ==
    acceptor = "listening" =>
        Loops >= 1 \/ \E t \in Callers : pc[t] \in {"accept"} \cup Stopping
LoopsCounted == (\E t \in Callers : pc[t] \in Starting) => Loops < starts
IInv == TypeOK /\ OneStarter /\ StartsRunning /\ BeingClosed /\ LoopCarried /\ LoopsCounted

\* After Stop() the accept loop ends: no handler re-arms for ever, so the handlers
\* let go of the server (each holds a shared_ptr to it).
StopEndsLoop == ~running_ /\ AllIdle ~> running_ \/ Loops = 0
=============================================================================

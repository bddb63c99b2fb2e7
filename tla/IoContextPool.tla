---------------------------- MODULE IoContextPool ----------------------------
(***************************************************************************)
(* chmicro::IoContextPool (src/src/runtime/io_context_pool.cpp): one       *)
(* io_context and one worker thread per index 1..N.                        *)
(*                                                                         *)
(* The module holds the pool's state and the steps of Start() and Stop();  *)
(* module App composes them with the threads that call them.  A thread is  *)
(* a number: 0 is the thread of App::Run(), 1..N are the workers, the rest *)
(* call App::Stop() from outside.  Each step is one access to shared       *)
(* memory: started_ is atomic, but workers_ is a plain vector, so Start()  *)
(* and Stop() running together interleave on it.                           *)
(***************************************************************************)
EXTENDS Integers, Sequences, FiniteSets

CONSTANTS N,    \* number of io_contexts
          E     \* number of outside threads that may stop the application

ASSUME PoolAssumption == N \in Nat \ {0} /\ E \in Nat

Main == 0
Workers == 1 .. N
Outside == N + 1 .. N + E
Threads == 0 .. N + E

VARIABLES
    started_,
    rr_,          \* cursor of Next()
    ctx_stopped,  \* io_contexts on which stop() was called; nothing restarts them
    workers_,     \* the vector of std::thread objects, as worker indexes
    joinable,     \* the workers whose std::thread is still joinable
    pc,           \* where each thread is
    pos,          \* position of each thread in the loop it executes
    lim,          \* the end of that loop, taken when the loop starts
    terminated    \* std::terminate was called

pool == <<started_, rr_, ctx_stopped, workers_, joinable>>
control == <<pc, pos, lim>>

PoolInit ==
    /\ started_ = FALSE
    /\ ctx_stopped = {}
    /\ workers_ = <<>>
    /\ joinable = {}
    /\ terminated = FALSE

Goto(t, label) == pc' = [pc EXCEPT ![t] = label]

\* Start a loop over 1..n at the given label.
Loop(t, label, n) ==
    /\ Goto(t, label)
    /\ pos' = [pos EXCEPT ![t] = 1]
    /\ lim' = [lim EXCEPT ![t] = n]

\* Next(): the context that the round-robin cursor points at.
NextContext == (rr_ % N) + 1

-----------------------------------------------------------------------------
(* Start() *)

\* The compare-and-swap on started_.  The caller goes on with a loop over 1..n
\* at label after.
PoolStart(t, after, n) ==
    /\ IF started_
       THEN Loop(t, after, n) /\ UNCHANGED started_
       ELSE started_' = TRUE /\ Loop(t, "spawn", N)
    /\ UNCHANGED <<rr_, ctx_stopped, workers_, joinable, terminated>>

Spawn_OneMore(t, after, n) ==
    IF pos[t] > lim[t] + 1
    THEN Loop(t, after, n) /\ UNCHANGED <<pool, terminated>>
    ELSE /\ workers_' = Append(workers_, pos[t])
         /\ joinable' = joinable \cup {pos[t]}
         /\ pc' = [pc EXCEPT ![pos[t]] = "run"]
         /\ pos' = [pos EXCEPT ![t] = @ + 1]
         /\ UNCHANGED <<started_, rr_, ctx_stopped, lim, terminated>>
Spawn_OneShort(t, after, n) ==
    IF pos[t] >= lim[t]
    THEN Loop(t, after, n) /\ UNCHANGED <<pool, terminated>>
    ELSE /\ workers_' = Append(workers_, pos[t])
         /\ joinable' = joinable \cup {pos[t]}
         /\ pc' = [pc EXCEPT ![pos[t]] = "run"]
         /\ pos' = [pos EXCEPT ![t] = @ + 1]
         /\ UNCHANGED <<started_, rr_, ctx_stopped, lim, terminated>>
\* One round of the loop that creates the workers.
Spawn(t, after, n) ==
    IF pos[t] > lim[t]
    THEN Loop(t, after, n) /\ UNCHANGED <<pool, terminated>>
    ELSE /\ workers_' = Append(workers_, pos[t])
         /\ joinable' = joinable \cup {pos[t]}
         /\ pc' = [pc EXCEPT ![pos[t]] = "run"]
         /\ pos' = [pos EXCEPT ![t] = @ + 1]
         /\ UNCHANGED <<started_, rr_, ctx_stopped, lim, terminated>>

\* A worker's io_context::run() returns once its context is stopped.
WorkerExit(w) ==
    /\ pc[w] = "run"
    /\ w \in ctx_stopped
    /\ Goto(w, "exited")
    /\ UNCHANGED <<pool, pos, lim, terminated>>

-----------------------------------------------------------------------------
(* Stop() *)

PoolStop(t, after) ==
    /\ IF started_
       THEN started_' = FALSE /\ Goto(t, "stop_contexts")
       ELSE Goto(t, after) /\ UNCHANGED started_
    /\ UNCHANGED <<rr_, ctx_stopped, workers_, joinable, pos, lim, terminated>>

\* The work guards are reset and every context is stopped; then the loop over
\* workers_ starts, with the end the vector has now.
StopContexts(t) ==
    /\ ctx_stopped' = Workers
    /\ Loop(t, "join", Len(workers_))
    /\ UNCHANGED <<started_, rr_, workers_, joinable, terminated>>

\* join() on a thread's own std::thread throws; the exception leaves the handler
\* and the worker's run(), and std::terminate() is called.
SelfJoin(t) == pos[t] <= lim[t] /\ workers_[pos[t]] = t /\ t \in joinable

Join_NoWait(t) ==
    /\ IF pos[t] > lim[t]
       THEN Goto(t, "clear") /\ UNCHANGED <<joinable, pos, terminated>>
       ELSE /\ joinable' = joinable \ {workers_[pos[t]]}
            /\ pos' = [pos EXCEPT ![t] = @ + 1]
            /\ UNCHANGED <<pc, terminated>>
    /\ UNCHANGED <<started_, rr_, ctx_stopped, workers_, lim>>
Join_SkipsLast(t) ==
    /\ IF pos[t] >= lim[t]
       THEN Goto(t, "clear") /\ UNCHANGED <<joinable, pos, terminated>>
       ELSE /\ pc[workers_[pos[t]]] = "exited"
            /\ joinable' = joinable \ {workers_[pos[t]]}
            /\ pos' = [pos EXCEPT ![t] = @ + 1]
            /\ UNCHANGED <<pc, terminated>>
    /\ UNCHANGED <<started_, rr_, ctx_stopped, workers_, lim>>
\* One round of the join loop; it blocks until the worker's thread has ended.
Join(t) ==
    /\ IF SelfJoin(t) THEN terminated' = TRUE /\ UNCHANGED <<pc, pos, joinable>>
       ELSE IF pos[t] > lim[t]
       THEN Goto(t, "clear") /\ UNCHANGED <<joinable, pos, terminated>>
       ELSE /\ pc[workers_[pos[t]]] = "exited"
            /\ joinable' = joinable \ {workers_[pos[t]]}
            /\ pos' = [pos EXCEPT ![t] = @ + 1]
            /\ UNCHANGED <<pc, terminated>>
    /\ UNCHANGED <<started_, rr_, ctx_stopped, workers_, lim>>

\* workers_.clear() destroys the std::thread objects; destroying a joinable one
\* calls std::terminate().
Clear(t, after) ==
    /\ IF \E i \in 1 .. Len(workers_) : workers_[i] \in joinable
       THEN terminated' = TRUE /\ UNCHANGED <<workers_, pc>>
       ELSE workers_' = <<>> /\ Goto(t, after) /\ UNCHANGED terminated
    /\ UNCHANGED <<started_, rr_, ctx_stopped, joinable, pos, lim>>
=============================================================================

--------------------------------- MODULE App ---------------------------------
(***************************************************************************)
(* chmicro::App (src/src/runtime/app.cpp) with its IoContextPool: the      *)
(* thread that executes App::Run() and then destroys the App, the workers  *)
(* of the pool, and outside threads that call App::Stop(), directly or     *)
(* through the Windows console handler.  On POSIX a signal is delivered by *)
(* a worker, which then executes App::Stop() itself.                       *)
(*                                                                         *)
(* Servers are their running_ flag here; module HttpServer has the rest.   *)
(***************************************************************************)
EXTENDS IoContextPool

CONSTANTS
    S,             \* number of servers added before Run()
    Platforms,     \* the platforms considered: "posix", "windows"
    Signals,       \* TRUE: ctrl-c may be typed
    StopWindow,    \* the places of Run() during which outside threads may
                   \* stop, directly or through the console handler
    MaxRuns        \* bound: how often Run() is called

ASSUME AppAssumption ==
    /\ S \in Nat /\ MaxRuns \in Nat
    /\ Platforms \subseteq {"posix", "windows"} /\ Signals \in BOOLEAN

Servers == 1 .. S

\* The places of Run(), in program order.
InRun == {"reset_stopped", "reset_requested", "arm", "pool_start", "spawn",
          "servers", "wait", "sleep", "deregister"}
\* The body of Stop(), after the exchange that lets one caller through.
InStop == {"unregister", "stop_servers", "pool_stop", "stop_contexts", "join",
           "clear", "set_stopped", "notify"}
Labels == {"new", "none", "idle", "run", "exited", "returned", "stop",
           "members", "free", "gone"} \cup InRun \cup InStop
ASSUME WindowAssumption == StopWindow \subseteq InRun

VARIABLES
    g_app,            \* the App is registered with the console handler
    registered,       \* this Run() made that registration
    stop_requested_,
    stopped_,         \* guarded by stop_mu_
    running_,         \* per server
    sigctx,           \* the context on which the signal wait is armed, 0: none
    runs,             \* calls of Run() so far
    destroyed,        \* the members after io_ are gone
    platform          \* the platform the program was built for

flags == <<stop_requested_, stopped_>>
app == <<g_app, registered, flags, running_, sigctx, runs, destroyed,
         platform>>
vars == <<pool, control, terminated, app>>

\* The constructor takes one context from Next(), and so does every server.
Init ==
    /\ PoolInit
    /\ rr_ = 1 + S
    /\ pc = [t \in Threads |-> IF t = Main THEN "new"
                               ELSE IF t \in Workers THEN "none" ELSE "idle"]
    /\ pos = [t \in Threads |-> 0]
    /\ lim = [t \in Threads |-> 0]
    /\ g_app = FALSE
    /\ registered = FALSE
    /\ stop_requested_ = FALSE
    /\ stopped_ = FALSE
    /\ running_ = [s \in Servers |-> FALSE]
    /\ sigctx = 0
    /\ runs = 0
    /\ destroyed = FALSE
    /\ platform \in Platforms

At(t, label) == ~terminated /\ pc[t] = label

-----------------------------------------------------------------------------
(* Run() *)

\* ScopedAppRegistration: compare-and-swap of g_app.
RunEnter ==
    /\ At(Main, "new") \/ At(Main, "returned")
    /\ runs < MaxRuns
    /\ runs' = runs + 1
    /\ g_app' = TRUE
    /\ registered' = ~g_app
    /\ Goto(Main, "reset_stopped")
    /\ UNCHANGED <<pool, pos, lim, terminated, flags, running_, sigctx, destroyed,
                   platform>>

ResetStopped ==
    /\ At(Main, "reset_stopped")
    /\ stopped_' = FALSE
    /\ Goto(Main, "reset_requested")
    /\ UNCHANGED <<pool, pos, lim, terminated, g_app, registered,
                   stop_requested_, running_, sigctx, runs, destroyed, platform>>

ResetRequested ==
    /\ At(Main, "reset_requested")
    /\ stop_requested_' = FALSE
    /\ Goto(Main, IF platform = "posix" THEN "arm" ELSE "pool_start")
    /\ UNCHANGED <<pool, pos, lim, terminated, g_app, registered, stopped_,
                   running_, sigctx, runs, destroyed, platform>>

\* POSIX: a signal_set on the next context, waiting for SIGINT and SIGTERM.
ArmSignals ==
    /\ At(Main, "arm")
    /\ sigctx' = NextContext
    /\ rr_' = rr_ + 1
    /\ Goto(Main, "pool_start")
    /\ UNCHANGED <<started_, ctx_stopped, workers_, joinable, pos, lim,
                   terminated, g_app, registered, flags, running_, runs,
                   destroyed, platform>>

RunStartPool ==
    At(Main, "pool_start") /\ PoolStart(Main, "servers", S) /\ UNCHANGED app

RunSpawn == At(Main, "spawn") /\ Spawn(Main, "servers", S) /\ UNCHANGED app

\* One round of a loop of thread t over the servers, which leaves running_ = b.
ServerLoop(t, b, after) ==
    /\ IF pos[t] > lim[t]
       THEN Goto(t, after) /\ UNCHANGED <<running_, pos>>
       ELSE /\ running_' = [running_ EXCEPT ![pos[t]] = b]
            /\ pos' = [pos EXCEPT ![t] = @ + 1]
            /\ UNCHANGED pc
    /\ UNCHANGED <<pool, lim, terminated, g_app, registered, flags, sigctx, runs,
                   destroyed, platform>>

StartServer == At(Main, "servers") /\ ServerLoop(Main, TRUE, "wait")

\* The predicate of stop_cv_.wait(), tested with stop_mu_ held.
WaitStopped ==
    /\ At(Main, "wait")
    /\ Goto(Main, IF stopped_ THEN "deregister" ELSE "sleep")
    /\ UNCHANGED <<pool, pos, lim, terminated, app>>

\* A condition variable may wake its waiter for no reason.
SpuriousWake ==
    /\ At(Main, "sleep")
    /\ Goto(Main, "wait")
    /\ UNCHANGED <<pool, pos, lim, terminated, app>>

\* ~ScopedAppRegistration, and Run() returns.
Deregister ==
    /\ At(Main, "deregister")
    /\ g_app' = (g_app /\ ~registered)
    /\ registered' = FALSE
    /\ Goto(Main, "returned")
    /\ UNCHANGED <<pool, pos, lim, terminated, flags, running_, sigctx, runs,
                   destroyed, platform>>

-----------------------------------------------------------------------------
(* Stop() *)

\* Where a thread continues after Stop(): the destructor goes on to the members,
\* a worker returns to run(), an outside thread to its own code.
AfterStop(t) ==
    IF t = Main THEN "members" ELSE IF t \in Workers THEN "run" ELSE "idle"

Exchange_Ignored(t) ==
    /\ stop_requested_' = TRUE
    /\ Goto(t, "unregister")
    /\ UNCHANGED <<pool, pos, lim, terminated, g_app, registered, stopped_,
                   running_, runs, destroyed, platform>>
\* stop_requested_.exchange(true): one caller gets through.
Exchange(t) ==
    /\ stop_requested_' = TRUE
    /\ Goto(t, IF stop_requested_ THEN AfterStop(t) ELSE "unregister")
    /\ UNCHANGED <<pool, pos, lim, terminated, g_app, registered, stopped_,
                   running_, runs, destroyed, platform>>

\* A thread that owns a reference to the App calls Stop().
OutsideStop(t) ==
    /\ At(t, "idle")
    /\ pc[Main] \in StopWindow
    /\ Exchange(t)
    /\ UNCHANGED sigctx

\* Windows: the console handler loads g_app and calls Stop() on what it found.
ConsoleCtrlHandler(t) ==
    /\ platform = "windows" /\ Signals
    /\ At(t, "idle") /\ pc[Main] \in StopWindow
    /\ g_app
    /\ Goto(t, "stop")
    /\ UNCHANGED <<pool, pos, lim, terminated, app>>

\* POSIX: the worker whose context the signal_set is on runs its handler.
SignalHandler(w) ==
    /\ platform = "posix" /\ Signals
    /\ At(w, "run")
    /\ sigctx = w /\ w \notin ctx_stopped
    /\ sigctx' = 0
    /\ Exchange(w)

StopEnter(t) == At(t, "stop") /\ Exchange(t) /\ UNCHANGED sigctx

\* g_app.store(nullptr), whoever is registered.
Unregister(t) ==
    /\ At(t, "unregister")
    /\ g_app' = FALSE
    /\ Loop(t, "stop_servers", S)
    /\ UNCHANGED <<pool, terminated, registered, flags, running_, sigctx, runs,
                   destroyed, platform>>

StopServer_Early(t) ==
    At(t, "stop_servers") /\
    IF pos[t] = lim[t]
    THEN /\ Goto(t, "pool_stop")
         /\ UNCHANGED <<running_, pos, pool, lim, terminated, g_app, registered,
                        flags, sigctx, runs, destroyed, platform>>
    ELSE ServerLoop(t, FALSE, "pool_stop")
StopServer(t) == At(t, "stop_servers") /\ ServerLoop(t, FALSE, "pool_stop")

\* io_.Stop() is called by App::Stop() and by ~IoContextPool.
AfterPoolStop(t) == IF t = Main /\ destroyed THEN "free" ELSE "set_stopped"

StopPool(t) ==
    /\ \/ At(t, "pool_stop") /\ PoolStop(t, AfterPoolStop(t))
       \/ At(t, "stop_contexts") /\ StopContexts(t)
       \/ At(t, "join") /\ Join(t)
       \/ At(t, "clear") /\ Clear(t, AfterPoolStop(t))
    /\ UNCHANGED app

SetStopped(t) ==
    /\ At(t, "set_stopped")
    /\ stopped_' = TRUE
    /\ Goto(t, "notify")
    /\ UNCHANGED <<pool, pos, lim, terminated, g_app, registered,
                   stop_requested_, running_, sigctx, runs, destroyed, platform>>

Notify_Lost(t) ==
    /\ At(t, "notify")
    /\ Goto(t, AfterStop(t))
    /\ UNCHANGED <<pool, pos, lim, terminated, app>>
\* stop_cv_.notify_all(), after stop_mu_ is released.
Notify(t) ==
    /\ At(t, "notify")
    /\ pc' = [pc EXCEPT ![t] = AfterStop(t),
                        ![Main] = IF t = Main THEN AfterStop(t)
                                  ELSE IF @ = "sleep" THEN "wait" ELSE @]
    /\ UNCHANGED <<pool, pos, lim, terminated, app>>

-----------------------------------------------------------------------------
(* ~App() *)

Destroy ==
    /\ At(Main, "new") \/ At(Main, "returned")
    /\ Goto(Main, "stop")
    /\ UNCHANGED <<pool, pos, lim, terminated, app>>

\* The members declared after io_ are destroyed, then ~IoContextPool calls Stop().
DestroyMembers ==
    /\ At(Main, "members")
    /\ destroyed' = TRUE
    /\ Goto(Main, "pool_stop")
    /\ UNCHANGED <<pool, pos, lim, terminated, g_app, registered, flags,
                   running_, sigctx, runs, platform>>

\* workers_ is destroyed with what is still in it.
FreePool ==
    /\ At(Main, "free")
    /\ IF joinable # {}
       THEN terminated' = TRUE /\ UNCHANGED pc
       ELSE Goto(Main, "gone") /\ UNCHANGED terminated
    /\ UNCHANGED <<pool, pos, lim, app>>

-----------------------------------------------------------------------------
RunReturns(w) == At(w, "run") /\ WorkerExit(w) /\ UNCHANGED app

MainStep ==
    \/ RunEnter \/ ResetStopped \/ ResetRequested \/ ArmSignals \/ RunStartPool
    \/ RunSpawn \/ StartServer \/ WaitStopped \/ Deregister
    \/ Destroy \/ DestroyMembers \/ FreePool

StopStep(t) ==
    StopEnter(t) \/ Unregister(t) \/ StopServer(t) \/ StopPool(t)
    \/ SetStopped(t) \/ Notify(t)

Next ==
    \/ MainStep
    \/ SpuriousWake
    \/ \E t \in Threads : StopStep(t)
    \/ \E t \in Outside : OutsideStop(t) \/ ConsoleCtrlHandler(t)
    \/ \E w \in Workers : SignalHandler(w) \/ RunReturns(w)

Spec == Init /\ [][Next]_vars

\* The scheduler runs every thread that can run.  Nobody has to stop the App, no
\* signal has to arrive, and no spurious wake-up is counted on.
FairSpec ==
    /\ Spec
    /\ WF_vars(MainStep)
    /\ \A t \in Threads : WF_vars(StopStep(t))
    /\ \A w \in Workers : WF_vars(RunReturns(w))

-----------------------------------------------------------------------------
(* Properties *)

\* Every variable has its type; in particular every thread that Start() makes
\* belongs to a context.
TypeOK ==
    /\ started_ \in BOOLEAN
    /\ rr_ \in Nat
    /\ ctx_stopped \in {{}, Workers}
    /\ workers_ \in Seq(Workers)
    /\ joinable \subseteq Workers
    /\ pc \in [Threads -> Labels]
    /\ pos \in [Threads -> Nat]
    /\ lim \in [Threads -> Nat]
    /\ terminated \in BOOLEAN
    /\ g_app \in BOOLEAN
    /\ registered \in BOOLEAN
    /\ stop_requested_ \in BOOLEAN
    /\ stopped_ \in BOOLEAN
    /\ running_ \in [Servers -> BOOLEAN]
    /\ sigctx \in 0 .. N
    /\ runs \in 0 .. MaxRuns
    /\ destroyed \in BOOLEAN
    /\ platform \in Platforms

\* "idempotent" (app.cpp:142): however many threads call Stop() in one call of Run(),
\* after it has reset the flag, the servers and the pool are stopped by one of them
\* (its notify_all() may be late) until the destructor stops the pool again.
OneStopper ==
    \A t, u \in Threads :
        pc[t] \in InStop \ {"notify"} /\ pc[u] \in InStop \ {"notify"}
        /\ ~destroyed => t = u

\* When stopped_ is set, no worker is left: all threads have ended, were joined,
\* and the vector is empty (io_.Stop() comes before stopped_ = true).
WorkersJoined ==
    stopped_ => /\ workers_ = <<>> /\ joinable = {}
                /\ \A w \in Workers : pc[w] \in {"none", "exited"}

\* No std::thread is destroyed joinable and none joins itself: however the App is
\* stopped, from outside or by "ctrl-c" (app.h:39, "Blocking until Stop() or
\* ctrl-c"), Run() ends by returning and not by std::terminate().
NoTerminate == ~terminated

\* What is left of it: the only way to std::terminate() is a worker that executes
\* Stop() and joins itself.  Every other stopper joins all workers before the
\* vector is cleared or destroyed.
OnlySelfJoinTerminates ==
    terminated => \E w \in Workers : pc[w] = "join" /\ SelfJoin(w)

\* While Run() waits and nobody has asked to stop, every context has a thread that
\* runs it: no server, and no signal wait, sits on a context without a worker.
ServingWorkersRun ==
    pc[Main] \in {"wait", "sleep"} /\ ~stop_requested_ =>
        \A w \in Workers : pc[w] = "run"

\* The phase that the App is in, as its users see it: where Run() is, and for a waiting
\* Run() how far a stop has come.
Waits == pc[Main] \in {"wait", "sleep"}
SignalStops == \E w \in Workers : pc[w] \in InStop
Phase ==
    IF terminated THEN "dead"
    ELSE IF SignalStops THEN "dying"
    ELSE IF pc[Main] = "new" THEN "new"
    ELSE IF pc[Main] \in InRun \ {"wait", "sleep", "deregister"} THEN "starting"
    ELSE IF Waits /\ ~stop_requested_ THEN "serving"
    ELSE IF Waits /\ ~stopped_ THEN "stopping"
    ELSE IF Waits \/ pc[Main] = "deregister" THEN "stopped" ELSE "over"

Busy == {w \in Workers : pc[w] \notin {"none", "exited"}}
Accepting == {s \in Servers : running_[s]}

Contract == INSTANCE AppContract WITH phase <- Phase, busy <- Busy, accepting <- Accepting

\* The App implements its contract: it serves only with all workers and all servers up,
\* it takes the servers down before the workers, whoever stops it and however many do,
\* Run() returns only when all of them are down, and nothing is ever revived.
ImplementsContract == Contract!Spec

\* Once a stop is requested while Run() waits, Run() returns: the wake-up is never
\* lost between the test of stopped_ and the wait (or a worker joins itself, see
\* OnlySelfJoinTerminates).
StopEndsRun ==
    pc[Main] \in {"wait", "sleep"} /\ stop_requested_
        ~> pc[Main] = "returned" \/ terminated

\* "Blocking until Stop() or ctrl-c" (app.h:39): a Stop() called at any time after
\* Run() was entered makes Run() return (or the process dies, see NoTerminate).
\* (Refuted, and in no run: README, section 6.)
StopIsHeard ==
    (\E t \in Outside : pc[t] \in InStop) /\ runs > 0
        ~> pc[Main] \in {"returned", "gone"} \/ terminated

\* "Block until Stop() completes." (app.cpp:132): when Run() has returned and the
\* App is destroyed, no thread is still inside its Stop().
\* (Refuted, and in no run: README, section 6.)
StopCompletes ==
    destroyed => \A t \in Threads \ {Main} : pc[t] \notin InStop \cup {"stop"}
=============================================================================

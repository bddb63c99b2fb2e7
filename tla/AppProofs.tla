------------------------------ MODULE AppProofs ------------------------------
(***************************************************************************)
(* Proofs about App and its IoContextPool, for any number of workers,      *)
(* servers and outside threads, on both platforms, when Run() is called    *)
(* once and outside threads stop the App after its pool has started.  A    *)
(* signal may come at any time.  The last sections, on the servers and on  *)
(* the refinement of AppContract, assume that Run() waits by then.         *)
(***************************************************************************)
EXTENDS App, SequenceTheorems, TLAPS

\* Run() is called at most once, and outside threads stop the App after its pool has started.
StopAfterStart ==
    /\ StopWindow \subseteq {"servers", "wait", "sleep", "deregister"}
    /\ MaxRuns <= 1

\* What the servers need in addition: nobody outside stops the App before Run() waits.
StopOnlyWhileWaiting == StopAfterStart /\ StopWindow \subseteq {"wait", "sleep"}

-----------------------------------------------------------------------------
(* The inductive invariant *)

\* Stop() before and after the pool has been found started.
EarlyStop == {"unregister", "stop_servers", "pool_stop"}
LateStop == {"stop_contexts", "join", "clear", "set_stopped"}
Stopping == EarlyStop \cup LateStop

\* The places of Run() where the pool is in use, and those before it.
Active == {"spawn", "servers", "wait", "sleep"}
Early == {"new", "reset_stopped", "reset_requested", "arm", "pool_start"}

\* Where threads can be.  A worker that executes Stop() never comes out of the
\* join loop, and the thread of Run() never executes that loop.
Places ==
    /\ pc[Main] \in Early \cup Active \cup EarlyStop \cup
                    {"deregister", "returned", "stop", "set_stopped", "notify",
                     "members", "free", "gone"}
    /\ \A w \in Workers :
         pc[w] \in {"none", "run", "exited", "stop_contexts", "join"} \cup EarlyStop
    /\ \A t \in Outside : pc[t] \in {"idle", "stop", "notify"} \cup Stopping

\* stop_requested_ admits one thread to the body of Stop().
Admitted ==
    /\ \A t, u \in Threads : pc[t] \in Stopping /\ pc[u] \in Stopping => t = u
    /\ ~stop_requested_ => /\ ~stopped_ /\ pc[Main] # "members"
                           /\ \A t \in Threads : pc[t] \notin InStop

\* Nobody outside is in Stop() before the pool has started, or after Run() has returned,
\* apart from what the first one to stop has decided already.
Window ==
    /\ pc[Main] \in Early => /\ ~stop_requested_ /\ ctx_stopped = {}
                             /\ \A t \in Outside : pc[t] = "idle"
    /\ pc[Main] \in InRun \cup {"returned"} => runs >= 1
    /\ pc[Main] = "deregister" => stop_requested_
    /\ \A t \in Outside :
         /\ pc[t] \in Stopping => pc[Main] \in {"servers", "wait", "sleep"}
         /\ pc[t] = "stop" => stop_requested_ \/ pc[Main] \in {"servers", "wait", "sleep"}

\* There is no thread and nothing to join.
PoolIdle ==
    /\ ~started_
    /\ workers_ = <<>> /\ joinable = {}
    /\ \A w \in Workers : pc[w] \in {"none", "exited"}

Idle ==
    pc[Main] \notin Active \/ stopped_ =>
        /\ PoolIdle
        /\ \A t \in Outside : pc[t] \notin Stopping
        /\ pc[Main] # "spawn"

\* The vector holds the workers made so far, those from n on are joinable and the
\* ones before n have ended.
JoinedUpTo(n) ==
    /\ \A i \in 1 .. Len(workers_) : workers_[i] = i
    /\ joinable = n .. Len(workers_)
    /\ \A w \in Workers : /\ pc[w] = "none" <=> w > Len(workers_)
                          /\ w < n => pc[w] = "exited"

\* How far Start() has come.
Spawned ==
    /\ pc[Main] = "spawn" =>
         pos[Main] = Len(workers_) + 1 /\ lim[Main] = N /\ Len(workers_) <= N
    /\ pc[Main] \in {"servers", "wait", "sleep"} => Len(workers_) = N

\* The pool while it is in use, by the progress of the thread that stops it.
InUse ==
    pc[Main] \in Active /\ ~stopped_ =>
        /\ (\A t \in Threads : pc[t] \notin LateStop) =>
             started_ /\ ctx_stopped = {} /\ JoinedUpTo(1) /\ Spawned
        /\ \A t \in Threads :
             /\ pc[t] = "stop_contexts" =>
                  ~started_ /\ ctx_stopped = {} /\ JoinedUpTo(1) /\ Spawned
             /\ pc[t] = "join" =>
                  /\ ~started_ /\ ctx_stopped = Workers /\ Spawned
                  /\ pos[t] >= 1 /\ JoinedUpTo(pos[t])
                  /\ t \in Workers => pos[t] <= t /\ t <= lim[t] /\ lim[t] <= Len(workers_)
                  /\ t \in Outside => pos[t] <= N + 1 /\ lim[t] = N
             /\ pc[t] = "clear" =>
                  ~started_ /\ ctx_stopped = Workers /\ JoinedUpTo(N + 1) /\ Spawned
             /\ pc[t] = "set_stopped" => PoolIdle

EndedBecauseStopped ==
    \A w \in Workers : pc[w] = "exited" => ctx_stopped = Workers

IInv == /\ TypeOK /\ Places /\ Admitted /\ Window /\ Idle /\ InUse
        /\ EndedBecauseStopped /\ OnlySelfJoinTerminates

-----------------------------------------------------------------------------

\* The kinds of threads are disjoint.
LEMMA ThreadKinds ==
    /\ Main \in Threads /\ Workers \subseteq Threads /\ Outside \subseteq Threads
    /\ Threads = {Main} \cup Workers \cup Outside
    /\ Main \notin Workers /\ Main \notin Outside
    /\ \A w \in Workers : w \notin Outside /\ w \in 1 .. N
  BY PoolAssumption DEF Main, Threads, Workers, Outside

LEMMA InitInv == Init => IInv
  <1> SUFFICES ASSUME Init PROVE IInv
    OBVIOUS
  <1> USE ThreadKinds, PoolAssumption, AppAssumption
  <1>1. /\ workers_ = <<>> /\ workers_ \in Seq(Workers) /\ Len(workers_) = 0
        /\ pos \in [Threads -> Nat] /\ lim \in [Threads -> Nat]
    BY EmptySeq DEF Init, PoolInit
  <1>2. /\ pc[Main] = "new"
        /\ \A w \in Workers : pc[w] = "none"
        /\ \A t \in Outside : pc[t] = "idle"
        /\ pc \in [Threads -> Labels]
    BY DEF Init, Labels
  <1>3. TypeOK
    <2>1. rr_ \in Nat /\ sigctx \in 0 .. N /\ runs \in 0 .. MaxRuns
      BY DEF Init
    <2>2. QED
      BY <1>1, <1>2, <2>1 DEF Init, PoolInit, TypeOK
  <1>4. Places
    BY <1>2 DEF Places, Early
  <1>5. Admitted
    BY <1>2 DEF Init, Admitted, Stopping, EarlyStop, LateStop, InStop
  <1>6. Window
    BY <1>2 DEF Init, PoolInit, Window, InRun, Stopping, EarlyStop, LateStop
  <1>7. Idle /\ InUse
    BY <1>1, <1>2 DEF Init, PoolInit, Idle, InUse, PoolIdle, Active, Stopping,
                      EarlyStop, LateStop
  <1>8. EndedBecauseStopped /\ OnlySelfJoinTerminates
    BY <1>2 DEF Init, PoolInit, EndedBecauseStopped, OnlySelfJoinTerminates
  <1>9. QED
    BY <1>3, <1>4, <1>5, <1>6, <1>7, <1>8 DEF IInv

-----------------------------------------------------------------------------
(* Run() and ~App() *)

\* InUse survives a step outside of the pool: nobody enters or moves in LateStop,
\* no worker begins or ends, and Run() stays where it is or only waits.
LEMMA OutsidePool ==
    ASSUME TypeOK, InUse,
           UNCHANGED <<started_, ctx_stopped, workers_, joinable, stopped_>>,
           pc'[Main] \in Active /\ ~stopped_ =>
             pc[Main] \in Active /\ (Spawned => Spawned'),
           \A t \in Threads :
             /\ pc'[t] \in LateStop => pc[t] = pc'[t]
             /\ pc[t] \in LateStop =>
                  pc'[t] = pc[t] /\ pos'[t] = pos[t] /\ lim'[t] = lim[t],
           \A w \in Workers : /\ pc'[w] = "none" <=> pc[w] = "none"
                              /\ pc[w] = "exited" => pc'[w] = "exited"
                              /\ pc'[w] = "exited" => pc[w] \in {"run", "exited"}
    PROVE  InUse'
  <1> SUFFICES ASSUME pc'[Main] \in Active, ~stopped_' PROVE InUse'
    BY DEF InUse
  <1> USE ThreadKinds
  <1>1. \A n \in Int : JoinedUpTo(n) => JoinedUpTo(n)'
    BY DEF JoinedUpTo
  <1>2. PoolIdle => PoolIdle'
    BY DEF PoolIdle
  <1>3. (\A t \in Threads : pc'[t] \notin LateStop) =>
          \A t \in Threads : pc[t] \notin LateStop
    OBVIOUS
  <1>4. N \in Int /\ \A t \in Threads : pos[t] \in Int
    BY PoolAssumption DEF TypeOK
  <1>5. QED
    BY <1>1, <1>2, <1>3, <1>4 DEF InUse, LateStop

\* The steps of Run() and ~App() that do not touch the pool's vector.
LEMMA RunInv ==
    ASSUME IInv, StopAfterStart,
           \/ RunEnter \/ ResetStopped \/ ResetRequested \/ ArmSignals \/ RunStartPool
           \/ Deregister \/ Destroy \/ DestroyMembers \/ FreePool
    PROVE  IInv'
  <1> USE ThreadKinds, PoolAssumption, AppAssumption
  <1> USE DEF StopAfterStart, IInv, TypeOK, Places, Admitted, Window, Idle,
              InUse, EndedBecauseStopped, OnlySelfJoinTerminates, PoolIdle, SelfJoin,
              Stopping, EarlyStop, LateStop, Active, Early, InRun, InStop,
              Labels, At, Goto, flags, pool
  <1>1. CASE RunEnter
    <2>1. TypeOK'
      BY <1>1 DEF RunEnter
    <2>2. QED
      BY <1>1, <2>1 DEF RunEnter
  <1>2. CASE ResetStopped
    <2>1. TypeOK'
      BY <1>2 DEF ResetStopped
    <2>2. QED
      BY <1>2, <2>1 DEF ResetStopped
  <1>3. CASE ResetRequested
    <2>1. TypeOK'
      BY <1>3 DEF ResetRequested
    <2>2. QED
      BY <1>3, <2>1 DEF ResetRequested
  <1>4. CASE ArmSignals
    <2>1. TypeOK'
      BY <1>4 DEF ArmSignals, NextContext
    <2>2. QED
      BY <1>4, <2>1 DEF ArmSignals, NextContext
  <1>5. CASE RunStartPool
    <2>1. /\ pc' = [pc EXCEPT ![Main] = "spawn"] /\ started_'
          /\ pos'[Main] = 1 /\ lim'[Main] = N
          /\ pos' \in [Threads -> Nat] /\ lim' \in [Threads -> Nat]
          /\ UNCHANGED <<ctx_stopped, workers_, joinable, terminated, app>>
      BY <1>5 DEF RunStartPool, PoolStart, Loop
    <2>2. workers_' = <<>> /\ Len(workers_') = 0 /\ joinable' = 1 .. 0
      BY <1>5, <2>1, EmptySeq DEF RunStartPool
    <2>3. ctx_stopped' = {}
      BY <1>5, <2>1 DEF RunStartPool
    <2>4. InUse'
      BY <1>5, <2>1, <2>2, <2>3 DEF RunStartPool, JoinedUpTo, Spawned
    <2>5. QED
      BY <1>5, <2>1, <2>4 DEF RunStartPool, PoolStart, Loop, app
  <1>6. CASE Deregister
    <2>1. TypeOK'
      BY <1>6 DEF Deregister
    <2>2. QED
      BY <1>6, <2>1 DEF Deregister
  <1>7. CASE Destroy
    <2>1. TypeOK'
      BY <1>7 DEF Destroy, app
    <2>2. QED
      BY <1>7, <2>1 DEF Destroy, app
  <1>8. CASE DestroyMembers
    <2>1. \A t \in Threads : pc[t] \notin Stopping
      BY <1>8 DEF DestroyMembers
    <2>2. TypeOK' /\ Admitted'
      BY <1>8, <2>1 DEF DestroyMembers
    <2>3. QED
      BY <1>8, <2>2 DEF DestroyMembers
  <1>9. CASE FreePool
    <2>1. pc' = [pc EXCEPT ![Main] = "gone"] /\ ~terminated'
      BY <1>9 DEF FreePool
    <2>2. TypeOK'
      BY <1>9, <2>1 DEF FreePool, app
    <2>3. QED
      BY <1>9, <2>1, <2>2 DEF FreePool, app
  <1>10. QED
    BY <1>1, <1>2, <1>3, <1>4, <1>5, <1>6, <1>7, <1>8, <1>9

\* One round of the loop that makes the workers.
LEMMA SpawnInv == ASSUME IInv, StopAfterStart, RunSpawn PROVE IInv'
  <1> USE ThreadKinds, PoolAssumption, AppAssumption
  <1> USE DEF StopAfterStart, IInv, Stopping, EarlyStop, LateStop, Active,
              Early, InRun, InStop, At, Goto
  <1>1. /\ pc[Main] = "spawn" /\ ~stopped_ /\ ~terminated
        /\ \A t \in Outside : pc[t] \notin Stopping
        /\ UNCHANGED <<started_, rr_, ctx_stopped, terminated, app>>
    BY DEF RunSpawn, Spawn, Loop, Idle, Window, pool
  <1>2. /\ pc \in [Threads -> Labels] /\ pos \in [Threads -> Nat]
        /\ lim \in [Threads -> Nat] /\ workers_ \in Seq(Workers)
    BY DEF TypeOK
  <1>3. /\ Spawned /\ Len(workers_) \in Nat
        /\ \A i \in 1 .. Len(workers_) : workers_[i] = i
        /\ \A w \in Workers : pc[w] = "none" <=> w > Len(workers_)
    BY <1>1, <1>2, LenProperties DEF InUse, Places, JoinedUpTo
  <1>4. CASE pos[Main] > lim[Main]
    <2>1. /\ pc' = [pc EXCEPT ![Main] = "servers"]
          /\ pos' = [pos EXCEPT ![Main] = 1] /\ lim' = [lim EXCEPT ![Main] = S]
          /\ UNCHANGED <<workers_, joinable>>
      BY <1>4 DEF RunSpawn, Spawn, Loop, pool
    <2>2. Len(workers_) = N
      BY <1>1, <1>3, <1>4 DEF Spawned
    <2>3. TypeOK'
      BY <1>1, <1>2, <2>1 DEF TypeOK, app, flags, Labels
    <2>4. InUse'
      BY <1>1, <1>2, <2>1, <2>2, OutsidePool DEF app, flags, Spawned
    <2>5. QED
      BY <1>1, <1>2, <2>1, <2>3, <2>4 DEF app, flags, Places, Admitted, Window, Idle,
         EndedBecauseStopped, OnlySelfJoinTerminates
  <1>5. CASE ~(pos[Main] > lim[Main])
    <2> DEFINE w == Len(workers_) + 1
    <2>1. w \in Workers /\ w = pos[Main] /\ pc[w] = "none" /\ lim[Main] = N
      BY <1>1, <1>2, <1>3, <1>5 DEF Spawned, Workers
    <2>2. /\ workers_' = Append(workers_, w) /\ joinable' = joinable \cup {w}
          /\ pc' = [pc EXCEPT ![w] = "run"]
          /\ pos' = [pos EXCEPT ![Main] = w + 1] /\ UNCHANGED lim
      BY <1>5, <2>1 DEF RunSpawn, Spawn
    <2>3. /\ workers_' \in Seq(Workers) /\ Len(workers_') = w
          /\ \A i \in 1 .. Len(workers_') : workers_'[i] = i
      BY <1>2, <1>3, <2>1, <2>2, AppendProperties
    <2>4. TypeOK'
      BY <1>1, <1>2, <1>3, <2>1, <2>2, <2>3 DEF TypeOK, app, flags, Labels
    <2>5. Spawned'
      BY <1>1, <1>2, <2>1, <2>2, <2>3 DEF Spawned, Workers
    <2>6. ASSUME NEW n \in Nat, n <= w, JoinedUpTo(n) PROVE JoinedUpTo(n)'
      BY <1>2, <1>3, <2>1, <2>2, <2>3, <2>6 DEF JoinedUpTo
    <2>7. InUse'
      <3> SUFFICES ASSUME pc'[Main] \in Active, ~stopped_' PROVE InUse'
        BY DEF InUse
      <3>1. \A t \in Threads : pc'[t] \in LateStop =>
               pc[t] = pc'[t] /\ t \in Workers /\ t # w /\ pos'[t] = pos[t]
        BY <1>1, <1>2, <2>1, <2>2 DEF Places
      <3>2. /\ 1 \in Nat /\ 1 <= w /\ UNCHANGED <<started_, ctx_stopped>>
            /\ \A t \in Threads : pc[t] \in LateStop => pc'[t] = pc[t]
        BY <1>1, <1>3, <2>1, <2>2
      <3>3. (\A t \in Threads : pc'[t] \notin LateStop) =>
               started_' /\ ctx_stopped' = {} /\ JoinedUpTo(1)' /\ Spawned'
        BY <1>1, <2>5, <2>6, <3>2 DEF InUse
      <3>4. ASSUME NEW t \in Threads, pc'[t] = "stop_contexts"
            PROVE  ~started_' /\ ctx_stopped' = {} /\ JoinedUpTo(1)' /\ Spawned'
        BY <1>1, <2>5, <2>6, <3>1, <3>2, <3>4 DEF InUse
      <3>5. ASSUME NEW t \in Threads, pc'[t] = "join"
            PROVE  /\ ~started_' /\ ctx_stopped' = Workers
                   /\ t \in Workers /\ pos'[t] >= 1 /\ pos'[t] <= t
                   /\ t <= lim'[t] /\ lim'[t] <= w /\ JoinedUpTo(pos[t])'
        <4>1. /\ t \in Workers /\ pos[t] >= 1 /\ JoinedUpTo(pos[t])
              /\ ~started_ /\ ctx_stopped = Workers
              /\ pos[t] <= t /\ t <= lim[t] /\ lim[t] <= Len(workers_)
              /\ pos'[t] = pos[t] /\ lim'[t] = lim[t]
          BY <1>1, <2>2, <3>1, <3>5 DEF InUse
        <4>2. pos[t] \in Nat /\ pos[t] <= w
          BY <1>2, <1>3, <4>1 DEF Workers
        <4>3. PICK n \in Nat : n = pos[t]
          BY <4>2
        <4>4. JoinedUpTo(n)'
          BY <2>6, <4>1, <4>2, <4>3
        <4>5. JoinedUpTo(pos[t])'
          BY <4>1, <4>3, <4>4 DEF JoinedUpTo
        <4>6. lim[t] \in Nat
          BY <1>2
        <4>7. QED
          BY <1>3, <3>2, <4>1, <4>2, <4>5, <4>6
      <3>6. \A t \in Threads : pc'[t] \notin {"clear", "set_stopped"}
        BY <3>1, <2>1 DEF Places
      <3>7. QED
        BY <2>3, <2>5, <3>3, <3>4, <3>5, <3>6 DEF InUse
    <2>8. QED
      BY <1>1, <1>2, <2>1, <2>2, <2>4, <2>7 DEF app, flags, Places, Admitted, Window,
         Idle, EndedBecauseStopped, OnlySelfJoinTerminates
  <1>6. QED
    BY <1>4, <1>5

\* Run() starts the servers and waits.
LEMMA WaitInv ==
    ASSUME IInv, StopAfterStart, StartServer \/ WaitStopped \/ SpuriousWake
    PROVE  IInv'
  <1> USE ThreadKinds, PoolAssumption, AppAssumption
  <1> USE DEF IInv, Stopping, EarlyStop, LateStop, Active, Early, InRun, InStop, At, Goto
  <1>1. /\ pc[Main] \in {"servers", "wait", "sleep"}
        /\ UNCHANGED <<pool, lim, terminated, flags, sigctx, runs, destroyed,
                       g_app, registered, platform>>
    BY DEF StartServer, ServerLoop, WaitStopped, SpuriousWake, app
  <1>2. \E l \in {"servers", "wait", "sleep", "deregister"} :
           /\ pc' = [pc EXCEPT ![Main] = l]
           /\ l = "servers" => pc[Main] = "servers"
           /\ l = "deregister" => stopped_
           /\ pc[Main] = "servers" => l \in {"servers", "wait"}
    <2> pc \in [Threads -> Labels]
      BY DEF TypeOK
    <2>1. CASE StartServer
      BY <2>1 DEF StartServer, ServerLoop
    <2>2. CASE WaitStopped \/ SpuriousWake
      BY <2>2 DEF WaitStopped, SpuriousWake
    <2>3. QED
      BY <2>1, <2>2
  <1>3. /\ pos' \in [Threads -> Nat] /\ running_' \in [Servers -> BOOLEAN]
        /\ \A t \in Threads \ {Main} : pos'[t] = pos[t]
    <2> /\ pos \in [Threads -> Nat] /\ running_ \in [Servers -> BOOLEAN]
      BY DEF TypeOK
    <2>1. CASE StartServer
      <3>1. CASE pos[Main] > lim[Main]
        BY <2>1, <3>1 DEF StartServer, ServerLoop
      <3>2. CASE ~(pos[Main] > lim[Main])
        <4>1. /\ running_' = [running_ EXCEPT ![pos[Main]] = TRUE]
              /\ pos' = [pos EXCEPT ![Main] = @ + 1]
          BY <2>1, <3>2 DEF StartServer, ServerLoop
        <4>2. running_' \in [Servers -> BOOLEAN]
          BY <4>1
        <4>3. QED
          BY <4>1, <4>2
      <3>3. QED
        BY <3>1, <3>2
    <2>2. CASE WaitStopped \/ SpuriousWake
      BY <2>2 DEF WaitStopped, SpuriousWake, app
    <2>3. QED
      BY <2>1, <2>2
  <1>4. TypeOK'
    BY <1>1, <1>2, <1>3 DEF TypeOK, pool, flags, Labels
  <1>5. InUse'
    BY <1>1, <1>2, <1>3, OutsidePool DEF TypeOK, pool, flags, Spawned
  <1>6. /\ \A t \in Threads \ {Main} : pc'[t] = pc[t]
        /\ pc'[Main] \in {"servers", "wait", "sleep", "deregister"}
    BY <1>2 DEF TypeOK
  <1>7. Places' /\ Admitted'
    BY <1>1, <1>6 DEF Places, Admitted, flags
  <1>8. Window'
    BY <1>1, <1>2, <1>6 DEF Window, Idle, Admitted, flags, pool
  <1>9. Idle'
    BY <1>1, <1>2, <1>6 DEF Idle, PoolIdle, flags, pool
  <1>10. EndedBecauseStopped' /\ OnlySelfJoinTerminates'
    <2>1. ~terminated
      BY DEF StartServer, WaitStopped, SpuriousWake
    <2>2. QED
      BY <1>1, <1>6, <2>1 DEF EndedBecauseStopped, OnlySelfJoinTerminates, pool
  <1>11. QED
    BY <1>4, <1>5, <1>7, <1>8, <1>9, <1>10

-----------------------------------------------------------------------------
(* Stop() *)

\* The exchange, by whoever may execute it.
LEMMA ExchangeInv ==
    ASSUME IInv, ~terminated, NEW t \in Threads, Exchange(t), sigctx' \in 0 .. N,
           \/ t = Main /\ pc[t] = "stop"
           \/ t \in Workers /\ pc[t] = "run"
           \/ /\ t \in Outside /\ pc[t] \in {"idle", "stop"}
              /\ stop_requested_ \/ pc[Main] \in {"servers", "wait", "sleep"}
    PROVE  IInv'
  <1> USE ThreadKinds, PoolAssumption, AppAssumption
  <1> USE DEF IInv, Stopping, EarlyStop, LateStop, Active, Early, InRun, InStop, Goto
  <1> DEFINE l == IF stop_requested_ THEN AfterStop(t) ELSE "unregister"
  <1>1. /\ pc' = [pc EXCEPT ![t] = l] /\ stop_requested_'
        /\ UNCHANGED <<pool, pos, lim, terminated, g_app, registered, stopped_,
                       running_, runs, destroyed, platform>>
    BY DEF Exchange
  <1>2. pc \in [Threads -> Labels] /\ pc[t] \notin InStop
    BY DEF TypeOK
  <1>3. /\ t = Main => l \in {"members", "unregister"}
        /\ t \in Workers => l \in {"run", "unregister"}
        /\ t \in Outside => l \in {"idle", "unregister"}
        /\ l = "unregister" => ~stop_requested_
    BY DEF AfterStop
  <1>4. /\ pc'[t] = l /\ \A u \in Threads \ {t} : pc'[u] = pc[u]
        /\ pc' \in [Threads -> Labels]
    BY <1>1, <1>2, <1>3 DEF Labels
  <1> HIDE DEF l
  <1>5. TypeOK'
    BY <1>1, <1>4 DEF TypeOK, pool
  <1>6. InUse'
    BY <1>1, <1>3, <1>4, OutsidePool DEF pool, Spawned, Places
  <1>7. Places'
    BY <1>3, <1>4 DEF Places
  <1>8. Admitted'
    BY <1>1, <1>3, <1>4 DEF Admitted
  <1>9. Window'
    <2>1. t \in Workers => pc[Main] \in Active
      BY DEF Idle, PoolIdle
    <2>2. pc[Main] \in Early => FALSE
      BY <2>1 DEF Window
    <2>3. QED
      BY <1>1, <1>3, <1>4, <2>2 DEF Window, pool
  <1>10. Idle'
    BY <1>1, <1>3, <1>4 DEF Idle, PoolIdle, Admitted, pool
  <1>11. EndedBecauseStopped' /\ OnlySelfJoinTerminates'
    BY <1>1, <1>3, <1>4 DEF EndedBecauseStopped, OnlySelfJoinTerminates, pool
  <1>12. QED
    BY <1>5, <1>6, <1>7, <1>8, <1>9, <1>10, <1>11

\* What starts a Stop(), and the end of a worker.
LEMMA CallInv ==
    ASSUME IInv, StopAfterStart,
           \/ \E t \in Threads : StopEnter(t)
           \/ \E t \in Outside : OutsideStop(t) \/ ConsoleCtrlHandler(t)
           \/ \E w \in Workers : SignalHandler(w) \/ RunReturns(w)
    PROVE  IInv'
  <1> USE ThreadKinds, PoolAssumption
  <1>0. pc \in [Threads -> Labels] /\ sigctx \in 0 .. N
    BY DEF IInv, TypeOK
  <1>1. ASSUME NEW t \in Threads, StopEnter(t) PROVE IInv'
    <2>1. ~terminated /\ pc[t] = "stop" /\ Exchange(t) /\ sigctx' = sigctx
      BY <1>1 DEF StopEnter, At
    <2>2. t \notin Workers
      BY <2>1 DEF IInv, Places, EarlyStop
    <2>3. t \in Outside => stop_requested_ \/ pc[Main] \in {"servers", "wait", "sleep"}
      BY <2>1 DEF IInv, Window
    <2>4. QED
      BY <1>0, <2>1, <2>2, <2>3, ExchangeInv
  <1>2. ASSUME NEW t \in Outside, OutsideStop(t) PROVE IInv'
    <2>1. /\ ~terminated /\ pc[t] = "idle" /\ Exchange(t) /\ sigctx' = sigctx
          /\ pc[Main] \in {"servers", "wait", "sleep", "deregister"}
      BY <1>2 DEF OutsideStop, At, StopAfterStart
    <2>2. stop_requested_ \/ pc[Main] \in {"servers", "wait", "sleep"}
      BY <2>1 DEF IInv, Window
    <2>3. QED
      BY <1>0, <2>1, <2>2, ExchangeInv
  <1>3. ASSUME NEW w \in Workers, SignalHandler(w) PROVE IInv'
    BY <1>3, ExchangeInv DEF SignalHandler, At
  <1>4. ASSUME NEW t \in Outside, ConsoleCtrlHandler(t) PROVE IInv'
    <2>1. /\ ~terminated /\ pc[t] = "idle"
          /\ pc[Main] \in {"servers", "wait", "sleep", "deregister"}
          /\ pc' = [pc EXCEPT ![t] = "stop"]
          /\ UNCHANGED <<pool, pos, lim, terminated, app>>
      BY <1>4 DEF ConsoleCtrlHandler, At, Goto, StopAfterStart
    <2>2. /\ pc' \in [Threads -> Labels] /\ pc'[t] = "stop"
          /\ \A u \in Threads \ {t} : pc'[u] = pc[u]
      BY <1>0, <2>1 DEF Labels
    <2>3. InUse'
      BY <2>1, <2>2, OutsidePool DEF IInv, pool, app, flags, Spawned, LateStop
    <2>4. TypeOK'
      BY <2>1, <2>2 DEF IInv, TypeOK, pool, app, flags
    <2>5. Places' /\ Admitted'
      BY <2>1, <2>2 DEF IInv, Places, Admitted, app, flags, Stopping, EarlyStop,
                        LateStop, InStop
    <2>6. Window' /\ Idle'
      BY <2>1, <2>2 DEF IInv, Window, Idle, PoolIdle, pool, app, flags, Stopping,
                        EarlyStop, LateStop, Active, Early, InRun
    <2>7. EndedBecauseStopped' /\ OnlySelfJoinTerminates'
      BY <2>1, <2>2 DEF IInv, EndedBecauseStopped, OnlySelfJoinTerminates, pool
    <2>8. QED
      BY <2>3, <2>4, <2>5, <2>6, <2>7 DEF IInv
  <1>5. ASSUME NEW w \in Workers, RunReturns(w) PROVE IInv'
    <2>1. /\ ~terminated /\ pc[w] = "run" /\ ctx_stopped = Workers
          /\ pc' = [pc EXCEPT ![w] = "exited"]
          /\ UNCHANGED <<pool, pos, lim, terminated, app>>
      BY <1>5 DEF RunReturns, WorkerExit, At, Goto, IInv, TypeOK
    <2>2. /\ pc' \in [Threads -> Labels] /\ pc'[w] = "exited"
          /\ \A u \in Threads \ {w} : pc'[u] = pc[u]
      BY <1>0, <2>1 DEF Labels
    <2>3. InUse'
      BY <2>1, <2>2, OutsidePool DEF IInv, pool, app, flags, Spawned, LateStop
    <2>4. TypeOK'
      BY <2>1, <2>2 DEF IInv, TypeOK, pool, app, flags
    <2>5. Places' /\ Admitted'
      BY <2>1, <2>2 DEF IInv, Places, Admitted, app, flags, Stopping, EarlyStop,
                        LateStop, InStop
    <2>6. Window' /\ Idle'
      BY <2>1, <2>2 DEF IInv, Window, Idle, PoolIdle, pool, app, flags, Stopping,
                        EarlyStop, LateStop, Active, Early, InRun
    <2>7. EndedBecauseStopped' /\ OnlySelfJoinTerminates'
      BY <2>1, <2>2 DEF IInv, EndedBecauseStopped, OnlySelfJoinTerminates, pool
    <2>8. QED
      BY <2>3, <2>4, <2>5, <2>6, <2>7 DEF IInv
  <1>6. QED
    BY <1>1, <1>2, <1>3, <1>4, <1>5

\* The steps of Stop() before the pool.
LEMMA EarlyStopInv ==
    ASSUME IInv, NEW t \in Threads, Unregister(t) \/ StopServer(t)
    PROVE  IInv'
  <1> USE ThreadKinds, PoolAssumption, AppAssumption
  <1> USE DEF Stopping, EarlyStop, LateStop, InStop
  <1>0. /\ pc \in [Threads -> Labels] /\ pos \in [Threads -> Nat]
        /\ lim \in [Threads -> Nat] /\ running_ \in [Servers -> BOOLEAN]
    BY DEF IInv, TypeOK
  <1>1. /\ ~terminated /\ pc[t] \in {"unregister", "stop_servers"}
        /\ UNCHANGED <<pool, terminated, registered, flags, sigctx, runs, destroyed,
                       platform>>
    BY DEF Unregister, StopServer, ServerLoop, At
  <1>2. /\ g_app' \in BOOLEAN /\ running_' \in [Servers -> BOOLEAN]
        /\ pos' \in [Threads -> Nat] /\ lim' \in [Threads -> Nat]
        /\ \E l \in {"stop_servers", "pool_stop"} : pc' = [pc EXCEPT ![t] = l]
        /\ \A u \in Threads \ {t} : pos'[u] = pos[u] /\ lim'[u] = lim[u]
    <2>1. CASE Unregister(t)
      BY <1>0, <2>1 DEF Unregister, Loop, Goto
    <2>2. CASE StopServer(t) /\ pos[t] > lim[t]
      BY <1>0, <2>2 DEF StopServer, ServerLoop, Goto, IInv, TypeOK
    <2>3. CASE StopServer(t) /\ ~(pos[t] > lim[t])
      <3>1. /\ running_' = [running_ EXCEPT ![pos[t]] = FALSE]
            /\ pos' = [pos EXCEPT ![t] = @ + 1]
            /\ UNCHANGED <<pc, lim, g_app>> /\ pc[t] = "stop_servers"
        BY <2>3 DEF StopServer, ServerLoop, At
      <3>2. running_' \in [Servers -> BOOLEAN] /\ g_app' \in BOOLEAN
        BY <1>0, <3>1 DEF IInv, TypeOK
      <3>3. pc' = [pc EXCEPT ![t] = "stop_servers"]
        BY <1>0, <3>1
      <3>4. QED
        BY <1>0, <3>1, <3>2, <3>3
    <2>4. QED
      BY <2>1, <2>2, <2>3
  <1>3. /\ pc' \in [Threads -> Labels] /\ pc'[t] \in {"stop_servers", "pool_stop"}
        /\ \A u \in Threads \ {t} : pc'[u] = pc[u]
    BY <1>0, <1>2 DEF Labels
  <1>4. TypeOK'
    BY <1>1, <1>2, <1>3 DEF IInv, TypeOK, pool, flags
  <1>5. InUse'
    BY <1>1, <1>2, <1>3, OutsidePool DEF IInv, pool, flags, Spawned, Active
  <1>6. Places' /\ Admitted'
    BY <1>1, <1>3 DEF IInv, Places, Admitted, flags
  <1>7. Window' /\ Idle'
    BY <1>1, <1>3 DEF IInv, Window, Idle, PoolIdle, flags, pool, Active, Early, InRun
  <1>8. EndedBecauseStopped' /\ OnlySelfJoinTerminates'
    BY <1>1, <1>3 DEF IInv, EndedBecauseStopped, OnlySelfJoinTerminates, pool
  <1>9. QED
    BY <1>4, <1>5, <1>6, <1>7, <1>8 DEF IInv

\* What the pool looks like to a thread at one of the steps of its Stop(): it is
\* the only one there.
LEMMA OneInPool ==
    ASSUME IInv, NEW t \in Threads, pc[t] \in Stopping
    PROVE  /\ \A u \in Threads \ {t} : pc[u] \notin Stopping
           /\ stop_requested_
           /\ t # Main => /\ pc[Main] \in Active /\ ~stopped_
                          /\ t \in Outside => pc[Main] \in {"servers", "wait", "sleep"}
           /\ t = Main => pc[Main] \notin Active
  BY ThreadKinds DEF IInv, Admitted, Window, Idle, PoolIdle, Stopping, EarlyStop,
     LateStop, InStop, Active

\* started_ tells the first stop of the pool from the one of ~IoContextPool.
LEMMA PoolStopInv ==
    ASSUME IInv, NEW t \in Threads, At(t, "pool_stop"),
           PoolStop(t, AfterPoolStop(t)), UNCHANGED app
    PROVE  IInv'
  <1> USE ThreadKinds, PoolAssumption
  <1> USE DEF Stopping, EarlyStop, LateStop, InStop, At, Goto
  <1>0. /\ pc \in [Threads -> Labels] /\ pc[t] = "pool_stop" /\ ~terminated
        /\ UNCHANGED <<rr_, ctx_stopped, workers_, joinable, pos, lim, terminated, app>>
    BY DEF IInv, TypeOK, PoolStop
  <1>1. \A u \in Threads \ {t} : pc[u] \notin Stopping
    BY <1>0, OneInPool
  <1>2. CASE t = Main
    <2>1. ~started_
      BY <1>0, <1>2, OneInPool DEF IInv, Idle, PoolIdle
    <2>2. /\ pc' = [pc EXCEPT ![Main] = AfterPoolStop(Main)] /\ UNCHANGED started_
          /\ AfterPoolStop(Main) \in {"free", "set_stopped"}
      BY <1>2, <2>1 DEF PoolStop, AfterPoolStop
    <2>3. /\ pc' \in [Threads -> Labels] /\ pc'[Main] \in {"free", "set_stopped"}
          /\ \A u \in Threads \ {Main} : pc'[u] = pc[u]
      BY <1>0, <2>2 DEF Labels
    <2>4. TypeOK'
      BY <1>0, <2>2, <2>3 DEF IInv, TypeOK, app, flags
    <2>5. Places' /\ Admitted'
      BY <1>0, <1>1, <1>2, <2>3, OneInPool DEF IInv, Places, Admitted, app, flags
    <2>6. Window' /\ Idle' /\ InUse'
      BY <1>0, <1>2, <2>2, <2>3 DEF IInv, Window, Idle, InUse, PoolIdle, Active, Early,
         InRun, app, flags
    <2>7. EndedBecauseStopped' /\ OnlySelfJoinTerminates'
      BY <1>0, <2>3 DEF IInv, EndedBecauseStopped, OnlySelfJoinTerminates
    <2>8. QED
      BY <2>4, <2>5, <2>6, <2>7 DEF IInv
  <1>3. CASE t # Main
    <2>0. pc[Main] \in Active /\ ~stopped_ /\ stop_requested_
      BY <1>0, <1>3, OneInPool
    <2>1. /\ pc[Main] \in Active /\ ~stopped_ /\ stop_requested_
          /\ started_ /\ ctx_stopped = {} /\ JoinedUpTo(1) /\ Spawned
      BY <1>0, <1>1, <2>0 DEF IInv, InUse
    <2>2. pc' = [pc EXCEPT ![t] = "stop_contexts"] /\ ~started_'
      BY <2>1 DEF PoolStop
    <2>3. /\ pc' \in [Threads -> Labels] /\ pc'[t] = "stop_contexts"
          /\ \A u \in Threads \ {t} : pc'[u] = pc[u]
      BY <1>0, <2>2 DEF Labels
    <2>4. TypeOK'
      BY <1>0, <2>2, <2>3, <2>1 DEF IInv, TypeOK, PoolStop, app, flags
    <2>5. JoinedUpTo(1)' /\ Spawned'
      BY <1>0, <1>3, <2>1, <2>3 DEF JoinedUpTo, Spawned
    <2>6. InUse'
      BY <1>0, <1>1, <1>3, <2>1, <2>2, <2>3, <2>5 DEF InUse
    <2>7. Places' /\ Admitted'
      BY <1>0, <1>1, <1>3, <2>1, <2>3 DEF IInv, Places, Admitted, app, flags
    <2>8. Window' /\ Idle'
      BY <1>0, <1>3, <2>1, <2>3 DEF IInv, Window, Idle, Active, Early, InRun, app, flags
    <2>9. EndedBecauseStopped' /\ OnlySelfJoinTerminates'
      BY <1>0, <2>3 DEF IInv, EndedBecauseStopped, OnlySelfJoinTerminates
    <2>10. QED
      BY <2>4, <2>6, <2>7, <2>8, <2>9 DEF IInv
  <1>4. QED
    BY <1>2, <1>3

\* Every context is stopped, and the join loop ends at what the vector holds now.
LEMMA StopContextsInv ==
    ASSUME IInv, NEW t \in Threads, At(t, "stop_contexts"), StopContexts(t), UNCHANGED app
    PROVE  IInv'
  <1> USE ThreadKinds, PoolAssumption
  <1> USE DEF Stopping, EarlyStop, LateStop, InStop, At, Goto
  <1>0. /\ pc \in [Threads -> Labels] /\ pos \in [Threads -> Nat]
        /\ lim \in [Threads -> Nat] /\ Len(workers_) \in Nat
        /\ pc[t] = "stop_contexts" /\ ~terminated /\ t # Main
    BY LenProperties DEF IInv, TypeOK, Places, Early, Active
  <1>1. /\ pc[Main] \in Active /\ ~stopped_ /\ stop_requested_
        /\ t \in Outside => pc[Main] \in {"servers", "wait", "sleep"}
        /\ \A u \in Threads \ {t} : pc[u] \notin Stopping
    <2>1. pc[t] \in Stopping
      BY <1>0
    <2>2. QED
      BY <1>0, <2>1, OneInPool
  <1>2. ~started_ /\ JoinedUpTo(1) /\ Spawned
    BY <1>0, <1>1 DEF IInv, InUse
  <1>3. /\ ctx_stopped' = Workers
        /\ pc' = [pc EXCEPT ![t] = "join"] /\ pos' = [pos EXCEPT ![t] = 1]
        /\ lim' = [lim EXCEPT ![t] = Len(workers_)]
        /\ UNCHANGED <<started_, rr_, workers_, joinable, terminated, app>>
    BY DEF StopContexts, Loop
  <1>4. /\ pc' \in [Threads -> Labels] /\ pc'[t] = "join"
        /\ \A u \in Threads \ {t} : pc'[u] = pc[u]
        /\ pos'[t] = 1 /\ lim'[t] = Len(workers_)
        /\ \A u \in Threads \ {t} : pos'[u] = pos[u] /\ lim'[u] = lim[u]
        /\ pos' \in [Threads -> Nat] /\ lim' \in [Threads -> Nat]
    BY <1>0, <1>3 DEF Labels
  <1>5. JoinedUpTo(1)' /\ Spawned'
    BY <1>0, <1>2, <1>3, <1>4 DEF JoinedUpTo, Spawned
  <1>6. t \in Workers => 1 <= t /\ t <= Len(workers_)
    BY <1>0, <1>2 DEF JoinedUpTo, Workers
  <1>7. t \in Outside => Len(workers_) = N
    BY <1>1, <1>2 DEF Spawned
  <1>8. JoinedUpTo(pos[t])'
    BY <1>4, <1>5 DEF JoinedUpTo
  <1>9. InUse'
    BY <1>0, <1>1, <1>2, <1>3, <1>4, <1>5, <1>6, <1>7, <1>8 DEF InUse
  <1>10. TypeOK'
    BY <1>3, <1>4 DEF IInv, TypeOK, app, flags
  <1>11. Places' /\ Admitted'
    BY <1>0, <1>1, <1>3, <1>4 DEF IInv, Places, Admitted, app, flags
  <1>12. Window' /\ Idle'
    BY <1>0, <1>1, <1>3, <1>4 DEF IInv, Window, Idle, Active, Early, InRun, app, flags
  <1>13. EndedBecauseStopped' /\ OnlySelfJoinTerminates'
    BY <1>0, <1>3, <1>4 DEF IInv, EndedBecauseStopped, OnlySelfJoinTerminates
  <1>14. QED
    BY <1>9, <1>10, <1>11, <1>12, <1>13 DEF IInv

\* One round of the join loop: a worker stops at itself and goes no further, an
\* outside thread joins them all.
LEMMA JoinInv ==
    ASSUME IInv, NEW t \in Threads, At(t, "join"), Join(t), UNCHANGED app
    PROVE  IInv'
  <1> USE ThreadKinds, PoolAssumption
  <1> USE DEF Stopping, EarlyStop, LateStop, InStop, At, Goto
  <1>0. /\ pc \in [Threads -> Labels] /\ pos \in [Threads -> Nat]
        /\ lim \in [Threads -> Nat] /\ Len(workers_) \in Nat
        /\ joinable \subseteq Workers
        /\ pc[t] = "join" /\ ~terminated /\ t # Main
    BY LenProperties DEF IInv, TypeOK, Places, Early, Active
  <1>1. /\ pc[Main] \in Active /\ ~stopped_ /\ stop_requested_
        /\ t \in Outside => pc[Main] \in {"servers", "wait", "sleep"}
        /\ \A u \in Threads \ {t} : pc[u] \notin Stopping
    <2>1. pc[t] \in Stopping
      BY <1>0
    <2>2. QED
      BY <1>0, <2>1, OneInPool
  <1>2. /\ ~started_ /\ ctx_stopped = Workers /\ Spawned
        /\ pos[t] >= 1 /\ JoinedUpTo(pos[t])
        /\ t \in Workers => pos[t] <= t /\ t <= lim[t] /\ lim[t] <= Len(workers_)
        /\ t \in Outside => pos[t] <= N + 1 /\ lim[t] = N
    BY <1>0, <1>1 DEF IInv, InUse
  <1>3. t \in Outside => Len(workers_) = N
    BY <1>1, <1>2 DEF Spawned
  <1>4. UNCHANGED <<started_, rr_, ctx_stopped, workers_, lim, app>>
    BY DEF Join
  <1>5. CASE SelfJoin(t)
    <2>1. terminated' = TRUE /\ UNCHANGED <<pc, pos, joinable>>
      BY <1>5 DEF Join
    <2>2. t \in Workers
      BY <1>0, <1>5 DEF SelfJoin
    <2>3. OnlySelfJoinTerminates'
      BY <1>0, <1>4, <1>5, <2>1, <2>2 DEF OnlySelfJoinTerminates, SelfJoin
    <2>4. TypeOK'
      BY <1>4, <2>1 DEF IInv, TypeOK, app, flags
    <2>5. Places' /\ Admitted' /\ Window' /\ Idle' /\ EndedBecauseStopped'
      BY <1>4, <2>1 DEF IInv, Places, Admitted, Window, Idle, PoolIdle,
                        EndedBecauseStopped, app, flags
    <2>6. InUse'
      BY <1>4, <2>1 DEF IInv, InUse, PoolIdle, JoinedUpTo, Spawned, app, flags
    <2>7. QED
      BY <2>3, <2>4, <2>5, <2>6 DEF IInv
  <1>6. CASE ~SelfJoin(t) /\ pos[t] > lim[t]
    <2>1. t \in Outside /\ pos[t] = N + 1
      BY <1>0, <1>2, <1>6 DEF Workers
    <2>2. /\ pc' = [pc EXCEPT ![t] = "clear"]
          /\ UNCHANGED <<joinable, pos, terminated>>
      BY <1>6 DEF Join
    <2>3. /\ pc' \in [Threads -> Labels] /\ pc'[t] = "clear"
          /\ \A u \in Threads \ {t} : pc'[u] = pc[u]
      BY <1>0, <2>2 DEF Labels
    <2>4. JoinedUpTo(N + 1)' /\ Spawned'
      BY <1>0, <1>2, <1>4, <2>1, <2>2, <2>3 DEF JoinedUpTo, Spawned
    <2>5. InUse'
      BY <1>0, <1>1, <1>2, <1>4, <2>3, <2>4 DEF InUse
    <2>6. TypeOK'
      BY <1>4, <2>2, <2>3 DEF IInv, TypeOK, app, flags
    <2>7. Places'
      BY <1>0, <1>1, <1>4, <2>1, <2>3 DEF IInv, Places
    <2>8. Admitted'
      BY <1>0, <1>1, <1>4, <2>1, <2>3 DEF IInv, Admitted, app, flags
    <2>9. Window' /\ Idle'
      BY <1>0, <1>1, <1>4, <2>3 DEF IInv, Window, Idle, Active, Early, InRun, app, flags
    <2>10. EndedBecauseStopped' /\ OnlySelfJoinTerminates'
      BY <1>0, <1>4, <2>2, <2>3 DEF IInv, EndedBecauseStopped, OnlySelfJoinTerminates
    <2>11. QED
      BY <2>5, <2>6, <2>7, <2>8, <2>9, <2>10 DEF IInv
  <1>7. CASE ~SelfJoin(t) /\ ~(pos[t] > lim[t])
    <2> DEFINE n == pos[t]
    <2>1. n \in 1 .. Len(workers_) /\ workers_[n] = n /\ n \in Workers
      BY <1>0, <1>2, <1>3, <1>7 DEF JoinedUpTo, Workers
    <2>2. /\ pc[n] = "exited" /\ joinable' = joinable \ {n}
          /\ pos' = [pos EXCEPT ![t] = n + 1]
          /\ UNCHANGED <<pc, terminated>>
      BY <1>7, <2>1 DEF Join
    <2>3. t \in Workers => n # t
      BY <1>0, <1>2, <1>7, <2>1 DEF SelfJoin, JoinedUpTo, Workers
    <2>4. /\ pos' \in [Threads -> Nat] /\ pos'[t] = n + 1
          /\ \A u \in Threads \ {t} : pos'[u] = pos[u]
      BY <1>0, <2>2
    <2>5. JoinedUpTo(pos[t])'
      BY <1>0, <1>2, <1>4, <2>1, <2>2, <2>4 DEF JoinedUpTo, Workers
    <2>6. Spawned'
      BY <1>0, <1>2, <1>4, <2>2, <2>4 DEF Spawned
    <2>7. /\ t \in Workers => pos'[t] <= t
          /\ t \in Outside => pos'[t] <= N + 1
      BY <1>0, <1>2, <1>7, <2>1, <2>3, <2>4 DEF Workers
    <2>8. pos'[t] >= 1
      BY <1>0, <2>4
    <2>9. InUse'
      BY <1>0, <1>1, <1>2, <1>4, <2>2, <2>5, <2>6, <2>7, <2>8 DEF InUse
    <2>10. TypeOK'
      BY <1>4, <2>2, <2>4 DEF IInv, TypeOK, app, flags
    <2>11. Places' /\ Admitted' /\ Window' /\ EndedBecauseStopped'
      BY <1>4, <2>2 DEF IInv, Places, Admitted, Window, EndedBecauseStopped, app, flags
    <2>12. Idle' /\ OnlySelfJoinTerminates'
      BY <1>0, <1>1, <1>4, <2>2 DEF IInv, Idle, OnlySelfJoinTerminates, app, flags
    <2>13. QED
      BY <2>9, <2>10, <2>11, <2>12 DEF IInv
  <1>8. QED
    BY <1>5, <1>6, <1>7

\* An outside thread clears the vector when every worker has been joined.
LEMMA ClearInv ==
    ASSUME IInv, NEW t \in Threads, At(t, "clear"),
           Clear(t, AfterPoolStop(t)), UNCHANGED app
    PROVE  IInv'
  <1> USE ThreadKinds, PoolAssumption
  <1> USE DEF Stopping, EarlyStop, LateStop, InStop, At, Goto
  <1>0. /\ pc \in [Threads -> Labels] /\ pc[t] = "clear" /\ ~terminated
        /\ t \in Outside /\ t # Main
    BY DEF IInv, TypeOK, Places, Early, Active
  <1>1. /\ pc[Main] \in {"servers", "wait", "sleep"} /\ ~stopped_ /\ stop_requested_
        /\ \A u \in Threads \ {t} : pc[u] \notin Stopping
    <2>1. pc[t] \in Stopping
      BY <1>0
    <2>2. QED
      BY <1>0, <2>1, OneInPool
  <1>2. ~started_ /\ ctx_stopped = Workers /\ JoinedUpTo(N + 1) /\ Len(workers_) = N
    BY <1>0, <1>1 DEF IInv, InUse, Active, Spawned
  <1>3. joinable = {} /\ \A w \in Workers : pc[w] = "exited"
    BY <1>2 DEF JoinedUpTo
  <1>4. /\ workers_' = <<>> /\ pc' = [pc EXCEPT ![t] = "set_stopped"]
        /\ UNCHANGED <<started_, rr_, ctx_stopped, joinable, pos, lim, terminated, app>>
    BY <1>0, <1>3 DEF Clear, AfterPoolStop
  <1>5. /\ pc' \in [Threads -> Labels] /\ pc'[t] = "set_stopped"
        /\ \A u \in Threads \ {t} : pc'[u] = pc[u]
    BY <1>0, <1>4 DEF Labels
  <1>6. PoolIdle'
    BY <1>0, <1>2, <1>3, <1>4, <1>5 DEF PoolIdle
  <1>7. InUse'
    BY <1>0, <1>1, <1>5, <1>6 DEF InUse
  <1>8. TypeOK'
    BY <1>4, <1>5, EmptySeq DEF IInv, TypeOK, app, flags
  <1>9. Places' /\ Admitted'
    BY <1>0, <1>1, <1>4, <1>5 DEF IInv, Places, Admitted, app, flags
  <1>10. Window' /\ Idle'
    BY <1>0, <1>1, <1>4, <1>5 DEF IInv, Window, Idle, Active, Early, InRun, app, flags
  <1>11. EndedBecauseStopped' /\ OnlySelfJoinTerminates'
    BY <1>0, <1>2, <1>4, <1>5 DEF IInv, EndedBecauseStopped, OnlySelfJoinTerminates
  <1>12. QED
    BY <1>7, <1>8, <1>9, <1>10, <1>11 DEF IInv

\* The end of Stop(), by an outside thread or the destructor.
LEMMA LastInv ==
    ASSUME IInv, NEW t \in Threads, SetStopped(t) \/ Notify(t)
    PROVE  IInv'
  <1> USE ThreadKinds, PoolAssumption
  <1> USE DEF Stopping, EarlyStop, LateStop, InStop, At, Goto
  <1>0. /\ pc \in [Threads -> Labels] /\ ~terminated /\ t \notin Workers
        /\ UNCHANGED <<pool, pos, lim, terminated, stop_requested_, g_app, registered,
                       running_, sigctx, runs, destroyed, platform>>
        /\ stopped_' \in BOOLEAN /\ stop_requested_
    BY DEF IInv, TypeOK, Places, Admitted, SetStopped, Notify, app, flags
  <1>1. CASE SetStopped(t)
    <2>1. /\ pc[t] = "set_stopped" /\ pc' = [pc EXCEPT ![t] = "notify"] /\ stopped_'
      BY <1>1 DEF SetStopped
    <2>2. /\ pc' \in [Threads -> Labels] /\ pc'[t] = "notify"
          /\ \A u \in Threads \ {t} : pc'[u] = pc[u]
      BY <1>0, <2>1 DEF Labels
    <2>3. /\ \A u \in Threads \ {t} : pc[u] \notin Stopping
          /\ t # Main => pc[Main] \in {"servers", "wait", "sleep"} /\ ~stopped_
          /\ t = Main => pc[Main] \notin Active
      BY <1>0, <2>1, OneInPool
    <2>4. PoolIdle
      BY <1>0, <2>1, <2>3 DEF IInv, InUse, Idle, Active
    <2>5. TypeOK'
      BY <1>0, <2>2 DEF IInv, TypeOK, pool
    <2>6. Places' /\ Admitted'
      BY <1>0, <2>1, <2>2, <2>3 DEF IInv, Places, Admitted
    <2>7. Window' /\ Idle' /\ InUse'
      BY <1>0, <2>1, <2>2, <2>3, <2>4 DEF IInv, Window, Idle, InUse, PoolIdle, Active,
         Early, InRun, pool
    <2>8. EndedBecauseStopped' /\ OnlySelfJoinTerminates'
      BY <1>0, <2>2 DEF IInv, EndedBecauseStopped, OnlySelfJoinTerminates, pool
    <2>9. QED
      BY <2>5, <2>6, <2>7, <2>8 DEF IInv
  <1>2. CASE Notify(t)
    <2>1. pc[t] = "notify" /\ UNCHANGED stopped_
      BY <1>2 DEF Notify, app, flags
    <2>2. /\ pc' \in [Threads -> Labels]
          /\ t = Main => pc'[Main] = "members"
          /\ t # Main => /\ pc'[t] = "idle"
                         /\ pc'[Main] = IF pc[Main] = "sleep" THEN "wait" ELSE pc[Main]
          /\ \A u \in Threads \ {t, Main} : pc'[u] = pc[u]
      <3>1. CASE t = Main
        <4>1. pc' = [pc EXCEPT ![t] = "members", ![Main] = "members"]
          BY <1>0, <1>2, <3>1 DEF Notify, AfterStop
        <4>2. QED
          BY <1>0, <3>1, <4>1 DEF Labels
      <3>2. CASE t # Main
        <4>1. AfterStop(t) = "idle"
          BY <1>0, <3>2 DEF AfterStop
        <4>2. pc' = [pc EXCEPT ![t] = "idle",
                               ![Main] = IF pc[Main] = "sleep" THEN "wait" ELSE pc[Main]]
          BY <1>0, <1>2, <3>2, <4>1 DEF Notify
        <4>3. Main \in Threads /\ t \in Threads /\ pc[Main] \in Labels
          BY <1>0
        <4>4. /\ pc'[t] = "idle"
              /\ pc'[Main] = IF pc[Main] = "sleep" THEN "wait" ELSE pc[Main]
              /\ \A u \in Threads \ {t, Main} : pc'[u] = pc[u]
          BY <1>0, <3>2, <4>2, <4>3
        <4>5. "idle" \in Labels /\ "wait" \in Labels
          BY DEF Labels, InRun
        <4>6. pc' \in [Threads -> Labels]
          BY <1>0, <4>2, <4>3, <4>5
        <4>7. QED
          BY <3>2, <4>4, <4>6
      <3>3. QED
        BY <3>1, <3>2
    <2>3. InUse'
      BY <1>0, <2>1, <2>2, OutsidePool DEF IInv, pool, Spawned, Active, Places
    <2>4. TypeOK'
      BY <1>0, <2>1, <2>2 DEF IInv, TypeOK, pool
    <2>5. Places' /\ Admitted'
      BY <1>0, <2>1, <2>2 DEF IInv, Places, Admitted, Active
    <2>6. Window' /\ Idle'
      BY <1>0, <2>1, <2>2 DEF IInv, Window, Idle, PoolIdle, Active, Early, InRun, pool
    <2>7. EndedBecauseStopped' /\ OnlySelfJoinTerminates'
      BY <1>0, <2>2 DEF IInv, EndedBecauseStopped, OnlySelfJoinTerminates, pool
    <2>8. QED
      BY <2>3, <2>4, <2>5, <2>6, <2>7 DEF IInv
  <1>3. QED
    BY <1>1, <1>2

-----------------------------------------------------------------------------

LEMMA NextInv == ASSUME StopAfterStart PROVE IInv /\ [Next]_vars => IInv'
  <1> SUFFICES ASSUME IInv, [Next]_vars PROVE IInv'
    OBVIOUS
  <1>1. CASE MainStep \/ SpuriousWake
    BY <1>1, RunInv, SpawnInv, WaitInv DEF MainStep
  <1>2. ASSUME NEW t \in Threads, StopPool(t) PROVE IInv'
    BY <1>2, PoolStopInv, StopContextsInv, JoinInv, ClearInv DEF StopPool
  <1>3. ASSUME NEW t \in Threads, StopStep(t) PROVE IInv'
    BY <1>2, <1>3, CallInv, EarlyStopInv, LastInv DEF StopStep
  <1>4. CASE UNCHANGED vars
    <2>1. TypeOK'
      BY <1>4 DEF IInv, TypeOK, vars, pool, control, app, flags
    <2>2. Places' /\ Admitted' /\ Window' /\ Idle' /\ EndedBecauseStopped'
      BY <1>4 DEF IInv, Places, Admitted, Window, Idle, PoolIdle, EndedBecauseStopped,
         vars, pool, control, app, flags
    <2>3. InUse' /\ OnlySelfJoinTerminates'
      BY <1>4 DEF IInv, InUse, PoolIdle, JoinedUpTo, Spawned, OnlySelfJoinTerminates,
         SelfJoin, vars, pool, control, app, flags
    <2>4. QED
      BY <2>1, <2>2, <2>3 DEF IInv
  <1>5. QED
    BY <1>1, <1>3, <1>4, CallInv DEF Next

LEMMA Inductive == ASSUME StopAfterStart PROVE Spec => []IInv
  BY InitInv, NextInv, PTL DEF Spec

-----------------------------------------------------------------------------

\* Start() gives every worker its context, and every variable keeps its type.
THEOREM TypeCorrect == ASSUME StopAfterStart PROVE Spec => []TypeOK
  <1>1. IInv => TypeOK
    BY DEF IInv
  <1>2. QED
    BY <1>1, Inductive, PTL

\* However many threads stop the App, with a signal at any moment, one of them at a
\* time is in the body of Stop().
THEOREM StopsOnce == ASSUME StopAfterStart PROVE Spec => []OneStopper
  <1>1. InStop \ {"notify"} = Stopping
    BY DEF InStop, Stopping, EarlyStop, LateStop
  <1>2. IInv => OneStopper
    BY <1>1 DEF IInv, Admitted, OneStopper
  <1>3. QED
    BY <1>2, Inductive, PTL

\* When stopped_ is set every worker has ended and was joined.
THEOREM JoinsAll == ASSUME StopAfterStart PROVE Spec => []WorkersJoined
  <1>1. IInv => WorkersJoined
    BY DEF IInv, Idle, PoolIdle, WorkersJoined
  <1>2. QED
    BY <1>1, Inductive, PTL

\* No thread object is cleared or destroyed before it was joined, and no outside
\* thread dies in Stop(): what is left is the worker that handles the signal.
THEOREM TerminatesBySelfJoinOnly ==
    ASSUME StopAfterStart PROVE Spec => []OnlySelfJoinTerminates
  <1>1. IInv => OnlySelfJoinTerminates
    BY DEF IInv
  <1>2. QED
    BY <1>1, Inductive, PTL

\* While Run() waits and nobody stops it, each of the N contexts has its worker.
THEOREM ContextsServed == ASSUME StopAfterStart PROVE Spec => []ServingWorkersRun
  <1>1. IInv => ServingWorkersRun
    <2> SUFFICES ASSUME IInv, pc[Main] \in {"wait", "sleep"}, ~stop_requested_,
                        NEW w \in Workers
                 PROVE  pc[w] = "run"
      BY DEF ServingWorkersRun
    <2>1. ~stopped_ /\ \A t \in Threads : pc[t] \notin InStop
      BY DEF IInv, Admitted
    <2>2. ctx_stopped = {} /\ JoinedUpTo(1) /\ Len(workers_) = N
      BY <2>1 DEF IInv, InUse, Spawned, Active, InStop, LateStop
    <2>3. pc[w] # "none" /\ pc[w] # "exited"
      BY <2>2, PoolAssumption DEF IInv, JoinedUpTo, EndedBecauseStopped, Workers
    <2>4. QED
      BY <2>1, <2>3, ThreadKinds DEF IInv, Places, InStop, EarlyStop
  <1>2. QED
    BY <1>1, Inductive, PTL
-----------------------------------------------------------------------------
(* The servers *)

\* Nobody outside stops the App before Run() waits.
OnlyWaiting ==
    /\ stopped_ => pc[Main] # "servers"
    /\ \A t \in Outside : /\ pc[t] \in Stopping => Waits
                          /\ pc[t] = "stop" => stop_requested_ \/ Waits

\* Steps after which the outside threads in Stop() were there before, and Run() still waits.
LEMMA WaitingFrame ==
    ASSUME OnlyWaiting,
           \A t \in Outside : /\ pc'[t] \in Stopping => pc[t] \in Stopping
                              /\ pc'[t] = "stop" => pc[t] = "stop",
           Waits => Waits', stop_requested_ => stop_requested_',
           stopped_' => pc'[Main] # "servers"
    PROVE  OnlyWaiting'
  BY DEF OnlyWaiting

LEMMA MainWaiting == ASSUME IInv, OnlyWaiting, MainStep \/ SpuriousWake PROVE OnlyWaiting'
  <1> USE ThreadKinds
  <1> USE DEF At, Goto
  <1>1. pc \in [Threads -> Labels]
    BY DEF IInv, TypeOK
  <1>2. CASE WaitStopped \/ SpuriousWake
    <2>1. /\ UNCHANGED flags /\ \A t \in Outside : pc'[t] = pc[t]
          /\ pc'[Main] \in {"wait", "sleep"} \/ (pc'[Main] = "deregister" /\ stopped_)
      BY <1>1, <1>2 DEF WaitStopped, SpuriousWake, app
    <2>2. CASE Waits'
      BY <2>1, <2>2 DEF OnlyWaiting, flags, Waits
    <2>3. CASE stopped_
      <3>1. stop_requested_ /\ \A t \in Outside : pc[t] \notin Stopping
        BY <2>3 DEF IInv, Admitted, Idle
      <3>2. QED
        BY <2>1, <3>1 DEF OnlyWaiting, flags
    <2>4. QED
      BY <2>1, <2>2, <2>3 DEF Waits
  <1>3. CASE ResetStopped \/ ResetRequested
    <2>1. /\ pc'[Main] \in {"reset_requested", "arm", "pool_start"}
          /\ \A t \in Outside : pc'[t] = "idle"
      BY <1>1, <1>3 DEF ResetStopped, ResetRequested, IInv, Window, Early
    <2>2. QED
      BY <2>1 DEF OnlyWaiting, Stopping, EarlyStop, LateStop
  <1>4. CASE RunSpawn
    <2>1. /\ UNCHANGED flags /\ ~stopped_ /\ ~Waits
          /\ \A t \in Outside : pc'[t] = pc[t] \/ pc'[t] = "run"
      BY <1>1, <1>4 DEF RunSpawn, Spawn, Loop, app, IInv, Idle, Waits
    <2>2. QED
      BY <2>1, WaitingFrame DEF flags, Stopping, EarlyStop, LateStop
  <1>5. CASE RunStartPool
    <2>1. /\ UNCHANGED flags /\ ~Waits /\ pc'[Main] = "spawn"
          /\ \A t \in Outside : pc'[t] = pc[t]
      BY <1>1, <1>5 DEF RunStartPool, PoolStart, Loop, app, Waits, IInv, Idle, PoolIdle, Active
    <2>2. QED
      BY <2>1, WaitingFrame DEF flags
  <1>6. CASE StartServer
    <2>1. /\ UNCHANGED flags /\ ~Waits /\ ~stopped_ /\ \A t \in Outside : pc'[t] = pc[t]
      BY <1>1, <1>6 DEF StartServer, ServerLoop, OnlyWaiting, Waits
    <2>2. QED
      BY <2>1, WaitingFrame DEF flags
  <1>7. CASE RunEnter \/ ArmSignals \/ Deregister \/ Destroy \/ DestroyMembers \/ FreePool
    <2>1. /\ UNCHANGED flags /\ ~Waits /\ pc'[Main] # "servers"
          /\ \A t \in Outside : pc'[t] = pc[t]
      BY <1>1, <1>7 DEF RunEnter, ArmSignals, Deregister, Destroy, DestroyMembers, FreePool,
         Waits, app
    <2>2. QED
      BY <2>1, WaitingFrame DEF flags
  <1>8. QED
    BY <1>2, <1>3, <1>4, <1>5, <1>6, <1>7 DEF MainStep

LEMMA StopWaiting ==
    ASSUME IInv, OnlyWaiting, NEW t \in Threads, StopStep(t) PROVE OnlyWaiting'
  <1> USE ThreadKinds
  <1> USE DEF At, Goto
  <1>1. pc \in [Threads -> Labels]
    BY DEF IInv, TypeOK
  <1>2. CASE StopEnter(t)
    <2>1. /\ UNCHANGED stopped_ /\ stop_requested_' /\ \A u \in Threads \ {t} : pc'[u] = pc[u]
          /\ pc[t] = "stop" /\ pc'[t] \in {AfterStop(t), "unregister"}
          /\ pc'[t] = "unregister" => ~stop_requested_
      BY <1>1, <1>2 DEF StopEnter, Exchange, AfterStop
    <2>2. CASE t = Main
      <3>1. ~Waits /\ pc'[Main] # "servers"
        BY <2>1, <2>2 DEF Waits, AfterStop
      <3>2. QED
        BY <2>1, <2>2, <3>1, WaitingFrame
    <2>3. CASE t # Main
      <3>1. (Waits => Waits') /\ pc'[Main] = pc[Main]
        BY <2>1, <2>3 DEF Waits
      <3>2. t \in Outside => AfterStop(t) = "idle"
        BY DEF AfterStop
      <3>3. QED
        BY <2>1, <3>1, <3>2 DEF OnlyWaiting, Stopping, EarlyStop, LateStop
    <2>4. QED
      BY <2>2, <2>3
  <1>3. CASE Notify(t)
    <2>1. /\ UNCHANGED flags /\ \A u \in Threads \ {t, Main} : pc'[u] = pc[u]
          /\ t # Main => pc'[t] \in {"run", "idle"}
          /\ t # Main => pc'[Main] = IF pc[Main] = "sleep" THEN "wait" ELSE pc[Main]
          /\ t = Main => ~Waits /\ pc'[Main] = "members"
      BY <1>1, <1>3 DEF Notify, AfterStop, app, Waits
    <2>2. (Waits => Waits') /\ (stopped_' => pc'[Main] # "servers")
      BY <2>1 DEF Waits, OnlyWaiting, flags
    <2>3. QED
      BY <2>1, <2>2, WaitingFrame DEF flags, Stopping, EarlyStop, LateStop
  <1>4. CASE Unregister(t) \/ StopServer(t) \/ StopPool(t) \/ SetStopped(t)
    <2>1. pc[t] \in Stopping /\ UNCHANGED stop_requested_
      BY <1>4 DEF Unregister, StopServer, ServerLoop, StopPool, SetStopped, Stopping, EarlyStop,
         LateStop, app, flags
    <2>2. \A u \in Threads \ {t} : pc'[u] = pc[u]
      <3>1. CASE StopPool(t)
        BY <1>1, <3>1 DEF StopPool, PoolStop, StopContexts, Join, Clear, Loop
      <3>2. CASE ~StopPool(t)
        BY <1>1, <1>4, <3>2 DEF Unregister, Loop, StopServer, ServerLoop, SetStopped
      <3>3. QED
        BY <3>1, <3>2
    <2>3. pc'[t] # "stop" /\ pc'[t] # "servers"
      <3>1. CASE StopPool(t)
        BY <1>1, <3>1 DEF StopPool, PoolStop, StopContexts, Join, Clear, Loop, AfterPoolStop
      <3>2. CASE ~StopPool(t)
        BY <1>1, <1>4, <3>2 DEF Unregister, Loop, StopServer, ServerLoop, SetStopped
      <3>3. QED
        BY <3>1, <3>2
    <2>4. Waits => Waits'
      BY <2>1, <2>2 DEF Waits, Stopping, EarlyStop, LateStop
    <2>5. stopped_' => pc'[Main] # "servers"
      <3>1. CASE UNCHANGED stopped_
        BY <2>2, <2>3, <3>1 DEF OnlyWaiting
      <3>2. CASE SetStopped(t)
        <4>1. t \notin Workers
          BY <3>2 DEF SetStopped, IInv, Places, EarlyStop
        <4>2. QED
          BY <2>1, <2>2, <2>3, <4>1 DEF OnlyWaiting, Waits
      <3>3. QED
        BY <1>4, <3>1, <3>2 DEF Unregister, StopServer, ServerLoop, StopPool, app, flags
    <2>6. QED
      BY <2>1, <2>2, <2>3, <2>4, <2>5, WaitingFrame
  <1>5. QED
    BY <1>2, <1>3, <1>4 DEF StopStep

LEMMA CallWaiting ==
    ASSUME IInv, OnlyWaiting, StopOnlyWhileWaiting,
           \/ \E t \in Outside : OutsideStop(t) \/ ConsoleCtrlHandler(t)
           \/ \E w \in Workers : SignalHandler(w) \/ RunReturns(w)
    PROVE  OnlyWaiting'
  <1> USE ThreadKinds
  <1> USE DEF At, Goto
  <1>1. pc \in [Threads -> Labels]
    BY DEF IInv, TypeOK
  <1>2. UNCHANGED stopped_ /\ (stop_requested_ => stop_requested_')
    BY DEF OutsideStop, ConsoleCtrlHandler, SignalHandler, RunReturns, WorkerExit, Exchange,
       app, flags
  <1>3. CASE \E t \in Outside : OutsideStop(t) \/ ConsoleCtrlHandler(t)
    <2>1. Waits /\ pc'[Main] = pc[Main]
      BY <1>1, <1>3 DEF OutsideStop, ConsoleCtrlHandler, Exchange, StopOnlyWhileWaiting, Waits
    <2>2. QED
      BY <1>2, <2>1 DEF OnlyWaiting, Waits
  <1>4. CASE \E w \in Workers : SignalHandler(w) \/ RunReturns(w)
    <2>1. \A t \in Threads \ Workers : pc'[t] = pc[t]
      BY <1>1, <1>4 DEF SignalHandler, RunReturns, WorkerExit, Exchange
    <2>2. QED
      BY <1>2, <2>1, WaitingFrame DEF OnlyWaiting, Waits
  <1>5. QED
    BY <1>3, <1>4

LEMMA NextWaiting ==
    ASSUME StopOnlyWhileWaiting PROVE IInv /\ OnlyWaiting /\ [Next]_vars => OnlyWaiting'
  <1> SUFFICES ASSUME IInv, OnlyWaiting, [Next]_vars PROVE OnlyWaiting'
    OBVIOUS
  <1>1. CASE UNCHANGED vars
    BY <1>1 DEF OnlyWaiting, Waits, vars, control, app, flags
  <1>2. QED
    BY <1>1, MainWaiting, StopWaiting, CallWaiting DEF Next

AllStopped == \A s \in Servers : ~running_[s]

\* An outside stopper leaves no running server behind it, and none starts again before
\* Run() returns.  (A worker that executes Stop() may pass servers that Run() has not
\* started yet; it never comes out of the join loop to set stopped_.)
ServersInv ==
    /\ \A t \in Outside :
         /\ pc[t] = "stop_servers" =>
              /\ pos[t] >= 1 /\ lim[t] = S
              /\ \A s \in Servers : s < pos[t] => ~running_[s]
         /\ pc[t] \in {"pool_stop"} \cup LateStop => AllStopped
    /\ stopped_ /\ pc[Main] \in {"wait", "sleep"} => AllStopped
    /\ pc[Main] \in {"deregister", "returned"} => AllStopped

\* Steps that start no server and move no outside thread within the body of Stop().
LEMMA ServersFrame ==
    ASSUME ServersInv,
           \A s \in Servers : running_'[s] => running_[s],
           \A t \in Outside : pc'[t] \in {"stop_servers", "pool_stop"} \cup LateStop =>
             UNCHANGED pc[t] /\ UNCHANGED pos[t] /\ UNCHANGED lim[t],
           stopped_' /\ pc'[Main] \in {"wait", "sleep"} =>
             stopped_ /\ pc[Main] \in {"wait", "sleep"},
           pc'[Main] \in {"deregister", "returned"} => AllStopped
    PROVE  ServersInv'
  BY DEF ServersInv, AllStopped

LEMMA MainServers ==
    ASSUME IInv, OnlyWaiting, ServersInv, MainStep \/ SpuriousWake PROVE ServersInv'
  <1> USE ThreadKinds
  <1> USE DEF At, Goto
  <1>1. /\ pc \in [Threads -> Labels] /\ running_ \in [Servers -> BOOLEAN]
        /\ pos \in [Threads -> Nat] /\ lim \in [Threads -> Nat]
    BY DEF IInv, TypeOK
  <1>2. CASE StartServer
    <2>1. ~stopped_ /\ \A t \in Outside : pc[t] \notin Stopping
      BY <1>2 DEF StartServer, OnlyWaiting, Waits
    <2>2. \A t \in Outside : pc'[t] = pc[t]
      BY <1>1, <1>2 DEF StartServer, ServerLoop
    <2>3. ~stopped_' /\ pc'[Main] \in {"servers", "wait"}
      BY <1>1, <1>2, <2>1 DEF StartServer, ServerLoop, flags
    <2>4. QED
      BY <2>1, <2>2, <2>3 DEF ServersInv, Stopping, EarlyStop, LateStop
  <1>3. CASE RunSpawn
    <2>1. pc[Main] = "spawn" /\ UNCHANGED <<running_, stopped_>> /\ ~stopped_
      BY <1>3 DEF RunSpawn, app, flags, IInv, Idle
    <2>2. pc'[Main] \in {"spawn", "servers"}
      <3>1. \A t \in Threads : pc[t] # "set_stopped"
        BY <2>1, OneInPool DEF IInv, Places, Window, Stopping, EarlyStop, LateStop
      <3>2. Spawned
        BY <2>1, <3>1 DEF IInv, InUse, Places, Window, Active, Stopping, LateStop
      <3>3. pos[Main] # Main
        BY <2>1, <3>2, LenProperties DEF Spawned, Main, IInv, TypeOK
      <3>4. QED
        BY <1>1, <1>3, <3>3 DEF RunSpawn, Spawn, Loop
    <2>3. \A t \in Outside : pc'[t] = pc[t] \/ pc'[t] = "run"
      BY <1>1, <1>3 DEF RunSpawn, Spawn, Loop
    <2>4. \A t \in Outside : pos'[t] = pos[t] /\ lim'[t] = lim[t]
      BY <1>1, <1>3 DEF RunSpawn, Spawn, Loop
    <2>5. \A t \in Outside : pc'[t] \in {"stop_servers", "pool_stop"} \cup LateStop => pc'[t] = pc[t]
      BY <2>3 DEF LateStop
    <2>6. QED
      BY <2>1, <2>2, <2>4, <2>5, ServersFrame
  <1>4. CASE RunStartPool
    <2>1. UNCHANGED <<running_, stopped_>>
      BY <1>4 DEF RunStartPool, app, flags
    <2>2. pc'[Main] \in {"spawn", "servers"}
      BY <1>1, <1>4 DEF RunStartPool, PoolStart, Loop
    <2>3. \A t \in Outside : pc'[t] = pc[t] /\ pos'[t] = pos[t] /\ lim'[t] = lim[t]
      BY <1>1, <1>4 DEF RunStartPool, PoolStart, Loop
    <2>4. QED
      BY <2>1, <2>2, <2>3, ServersFrame
  <1>5. CASE WaitStopped \/ SpuriousWake
    <2>1. UNCHANGED <<running_, stopped_, pos, lim>> /\ pc[Main] \in {"wait", "sleep"}
      BY <1>5 DEF WaitStopped, SpuriousWake, app, flags
    <2>2. pc'[Main] \in {"wait", "sleep"} \/ (pc'[Main] = "deregister" /\ stopped_)
      BY <1>1, <1>5 DEF WaitStopped, SpuriousWake
    <2>3. \A t \in Outside : pc'[t] = pc[t]
      BY <1>1, <1>5 DEF WaitStopped, SpuriousWake
    <2>4. pc'[Main] \in {"deregister", "returned"} => AllStopped
      BY <2>1, <2>2 DEF ServersInv
    <2>5. QED
      BY <2>1, <2>3, <2>4, ServersFrame
  <1>6. CASE Deregister
    <2>1. UNCHANGED <<running_, stopped_, pos, lim>> /\ AllStopped
      BY <1>6 DEF Deregister, flags, ServersInv
    <2>2. pc'[Main] = "returned" /\ \A t \in Outside : pc'[t] = pc[t]
      BY <1>1, <1>6 DEF Deregister
    <2>3. QED
      BY <2>1, <2>2, ServersFrame
  <1>7. CASE RunEnter \/ ResetStopped \/ ResetRequested \/ ArmSignals \/ Destroy
               \/ DestroyMembers \/ FreePool
    <2>1. UNCHANGED <<running_, pos, lim>>
      BY <1>7 DEF RunEnter, ResetStopped, ResetRequested, ArmSignals, Destroy,
         DestroyMembers, FreePool, app
    <2>2. /\ pc'[Main] \notin {"wait", "sleep", "deregister", "returned"}
          /\ \A t \in Outside : pc'[t] = pc[t]
      BY <1>1, <1>7 DEF RunEnter, ResetStopped, ResetRequested, ArmSignals, Destroy,
         DestroyMembers, FreePool
    <2>3. QED
      BY <2>1, <2>2, ServersFrame
  <1>8. QED
    BY <1>2, <1>3, <1>4, <1>5, <1>6, <1>7 DEF MainStep

LEMMA StopServers ==
    ASSUME IInv, ServersInv, NEW t \in Threads, StopStep(t)
    PROVE  ServersInv'
  <1> USE ThreadKinds
  <1> USE DEF At, Goto
  <1>1. /\ pc \in [Threads -> Labels] /\ running_ \in [Servers -> BOOLEAN]
        /\ pos \in [Threads -> Nat] /\ lim \in [Threads -> Nat] /\ S \in Nat
    BY AppAssumption DEF IInv, TypeOK
  <1>2. CASE StopServer(t)
    <2>1. /\ pc[t] = "stop_servers" /\ UNCHANGED <<lim, stopped_>>
          /\ \A s \in Servers : running_'[s] => running_[s]
      BY <1>1, <1>2 DEF StopServer, ServerLoop, flags
    <2>2. /\ \A u \in Threads \ {t} : pc'[u] = pc[u] /\ pos'[u] = pos[u]
          /\ pc'[t] \in {"stop_servers", "pool_stop"}
      BY <1>1, <1>2 DEF StopServer, ServerLoop
    <2>3. CASE t \notin Outside
      <3>1. /\ pc'[Main] \in {"wait", "sleep"} => pc[Main] = pc'[Main]
            /\ pc'[Main] \in {"deregister", "returned"} => pc[Main] = pc'[Main]
        BY <2>2
      <3>2. pc'[Main] \in {"deregister", "returned"} => AllStopped
        BY <3>1 DEF ServersInv
      <3>3. \A u \in Outside : pc'[u] = pc[u] /\ pos'[u] = pos[u] /\ lim'[u] = lim[u]
        BY <2>1, <2>2, <2>3
      <3>4. QED
        BY <2>1, <3>1, <3>2, <3>3, ServersFrame
    <2>4. CASE t \in Outside /\ pos[t] > lim[t]
      <3>1. pc'[t] = "pool_stop" /\ UNCHANGED running_
        BY <1>1, <1>2, <2>4 DEF StopServer, ServerLoop
      <3>2. lim[t] = S /\ \A s \in Servers : s < pos[t] => ~running_[s]
        BY <2>1, <2>4 DEF ServersInv
      <3>3. AllStopped
        BY <1>1, <2>4, <3>2 DEF AllStopped, Servers
      <3>4. QED
        BY <2>1, <2>2, <3>1, <3>3 DEF ServersInv, AllStopped
    <2>5. CASE t \in Outside /\ ~(pos[t] > lim[t])
      <3>1. /\ UNCHANGED pc /\ pos'[t] = pos[t] + 1
            /\ running_' = [running_ EXCEPT ![pos[t]] = FALSE]
        BY <1>1, <1>2, <2>5 DEF StopServer, ServerLoop
      <3>2. /\ lim[t] = S /\ pos[t] >= 1
            /\ \A s \in Servers : s < pos[t] => ~running_[s]
        BY <2>1, <2>5 DEF ServersInv
      <3>3. \A s \in Servers : s < pos'[t] => ~running_'[s]
        BY <1>1, <2>5, <3>1, <3>2 DEF Servers
      <3>4. pos'[t] >= 1 /\ lim'[t] = S
        BY <1>1, <2>1, <3>1, <3>2
      <3>5. QED
        BY <2>1, <2>2, <3>1, <3>3, <3>4 DEF ServersInv, AllStopped
    <2>6. QED
      BY <2>3, <2>4, <2>5
  <1>3. CASE Unregister(t)
    <2>1. /\ UNCHANGED <<running_, stopped_>> /\ pc'[t] = "stop_servers"
          /\ pos'[t] = 1 /\ lim'[t] = S
          /\ \A u \in Threads \ {t} : pc'[u] = pc[u] /\ pos'[u] = pos[u] /\ lim'[u] = lim[u]
      BY <1>1, <1>3 DEF Unregister, Loop, flags
    <2>2. \A s \in Servers : ~(s < 1)
      BY <1>1 DEF Servers
    <2>3. QED
      BY <2>1, <2>2 DEF ServersInv, AllStopped, LateStop
  <1>4. CASE StopPool(t)
    <2>1. UNCHANGED <<running_, stopped_>>
      BY <1>4 DEF StopPool, app, flags
    <2>2. pc[t] \in {"pool_stop", "stop_contexts", "join", "clear"}
      BY <1>4 DEF StopPool
    <2>3. /\ pc'[t] \in {"stop_contexts", "join", "clear", "set_stopped", "free"}
          /\ \A u \in Threads \ {t} : pc'[u] = pc[u]
      BY <1>1, <1>4 DEF StopPool, PoolStop, StopContexts, Join, Clear, Loop, AfterPoolStop
    <2>4. \A u \in Threads \ {t} : pos'[u] = pos[u] /\ lim'[u] = lim[u]
      BY <1>1, <1>4 DEF StopPool, PoolStop, StopContexts, Join, Clear, Loop
    <2>5. t \in Outside => AllStopped
      BY <2>2 DEF ServersInv, LateStop
    <2>6. QED
      BY <2>1, <2>3, <2>4, <2>5 DEF ServersInv, AllStopped, LateStop
  <1>5. CASE SetStopped(t)
    <2>1. /\ pc[t] = "set_stopped" /\ pc'[t] = "notify" /\ UNCHANGED <<running_, pos, lim>>
          /\ \A u \in Threads \ {t} : pc'[u] = pc[u]
      BY <1>1, <1>5 DEF SetStopped
    <2>2. t \in Outside => AllStopped
      BY <2>1 DEF ServersInv, LateStop
    <2>3. t \notin Workers
      BY <2>1 DEF IInv, Places, EarlyStop
    <2>4. QED
      BY <2>1, <2>2, <2>3 DEF ServersInv, AllStopped, LateStop
  <1>6. CASE StopEnter(t) \/ Notify(t)
    <2>1. UNCHANGED <<running_, stopped_, pos, lim>>
      BY <1>6 DEF StopEnter, Exchange, Notify, app, flags
    <2>2. \A u \in Outside : pc'[u] = pc[u] \/ pc'[u] \in {"unregister", "idle", "members", "run"}
      BY <1>1, <1>6 DEF StopEnter, Exchange, Notify, AfterStop
    <2>3. /\ pc'[Main] \in {"wait", "sleep"} => pc[Main] \in {"wait", "sleep"}
          /\ pc'[Main] \in {"deregister", "returned"} => pc'[Main] = pc[Main]
      BY <1>1, <1>6 DEF StopEnter, Exchange, Notify, AfterStop
    <2>4. pc'[Main] \in {"deregister", "returned"} => AllStopped
      BY <2>3 DEF ServersInv
    <2>5. \A u \in Outside : pc'[u] \in {"stop_servers", "pool_stop"} \cup LateStop => pc'[u] = pc[u]
      BY <2>2 DEF LateStop
    <2>6. QED
      BY <2>1, <2>3, <2>4, <2>5, ServersFrame
  <1>7. QED
    BY <1>2, <1>3, <1>4, <1>5, <1>6 DEF StopStep

LEMMA CallServers ==
    ASSUME IInv, ServersInv,
           \/ \E t \in Outside : OutsideStop(t) \/ ConsoleCtrlHandler(t)
           \/ \E w \in Workers : SignalHandler(w) \/ RunReturns(w)
    PROVE  ServersInv'
  <1> USE ThreadKinds
  <1> USE DEF At, Goto
  <1>1. pc \in [Threads -> Labels]
    BY DEF IInv, TypeOK
  <1>2. UNCHANGED <<running_, stopped_, pos, lim>>
    BY DEF OutsideStop, ConsoleCtrlHandler, SignalHandler, RunReturns, WorkerExit, Exchange,
       app, flags
  <1>3. PICK t \in Threads \ {Main} :
          pc'= [pc EXCEPT ![t] = pc'[t]] /\ pc'[t] \in {"unregister", "idle", "stop", "run", "exited"}
    BY <1>1 DEF OutsideStop, ConsoleCtrlHandler, SignalHandler, RunReturns, WorkerExit,
       Exchange, AfterStop
  <1>4. \A u \in Outside : pc'[u] \in {"stop_servers", "pool_stop"} \cup LateStop => pc'[u] = pc[u]
    BY <1>1, <1>3 DEF LateStop
  <1>5. pc'[Main] = pc[Main]
    BY <1>1, <1>3
  <1>6. QED
    BY <1>2, <1>4, <1>5, ServersFrame DEF ServersInv

LEMMA NextServers == IInv /\ OnlyWaiting /\ ServersInv /\ [Next]_vars => ServersInv'
  <1> SUFFICES ASSUME IInv, OnlyWaiting, ServersInv, [Next]_vars PROVE ServersInv'
    OBVIOUS
  <1>1. CASE UNCHANGED vars
    BY <1>1 DEF ServersInv, AllStopped, vars, control, app, flags
  <1>2. QED
    BY <1>1, MainServers, StopServers, CallServers DEF Next

LEMMA InitServers == Init => ServersInv /\ OnlyWaiting
  BY ThreadKinds DEF Init, PoolInit, ServersInv, OnlyWaiting, Stopping, EarlyStop, LateStop

\* The second assumption gives the first.
LEMMA AfterStart == StopOnlyWhileWaiting => StopAfterStart
  BY DEF StopOnlyWhileWaiting

-----------------------------------------------------------------------------
(* App implements AppContract *)

\* What the phases mean for the servers: none runs before Run() starts them or when it has
\* stopped waiting, and unless a worker executes Stop() all of those started still run.
\* Only a worker can have requested a stop before Run() waits.
UpInv ==
    /\ pc[Main] \notin {"servers", "wait", "sleep"} => AllStopped
    /\ pc[Main] = "servers" => lim[Main] = S /\ pos[Main] >= 1
    /\ pc[Main] = "servers" /\ ~SignalStops => \A s \in Servers : s < pos[Main] => running_[s]
    /\ Waits /\ ~stop_requested_ => \A s \in Servers : running_[s]
    /\ pc[Main] \in {"spawn", "servers"} /\ stop_requested_ => SignalStops

LifeInv == IInv /\ OnlyWaiting /\ ServersInv /\ UpInv

\* A step of App that a lemma below is about keeps UpInv and is one of the contract.
Implements == UpInv' /\ [Contract!Next]_(Contract!vars)

LEMMA Stutters == ASSUME UpInv', UNCHANGED <<Phase, Busy, Accepting>> PROVE Implements
  BY DEF Implements, Contract!vars

LEMMA Dies ==
    ASSUME UpInv', Phase = "dying", Phase' \in {"dying", "dead"} PROVE Implements
  <1>1. Busy' \subseteq Workers /\ Accepting' \subseteq Servers
    BY DEF Busy, Accepting
  <1>2. Contract!Die
    BY <1>1 DEF Contract!Die
  <1>3. QED
    BY <1>2 DEF Implements, Contract!Next

\* Where an outside thread executes Stop().
LEMMA Stopper ==
    ASSUME IInv, OnlyWaiting, ~terminated, NEW t \in Outside, pc[t] \in Stopping
    PROVE  /\ Waits /\ ~SignalStops /\ stop_requested_ /\ ~stopped_
           /\ Phase = "stopping"
  <1> USE ThreadKinds
  <1>1. Waits
    BY DEF OnlyWaiting
  <1>2. ~SignalStops
    BY DEF IInv, Admitted, Places, SignalStops, InStop, Stopping, EarlyStop, LateStop
  <1>3. stop_requested_
    BY DEF IInv, Admitted, InStop, Stopping, EarlyStop, LateStop
  <1>4. ~stopped_
    BY DEF IInv, Idle
  <1>5. QED
    BY <1>1, <1>2, <1>3, <1>4 DEF Phase, Waits, InRun

\* While Run() starts the servers or serves, every worker runs.
LEMMA AllBusy ==
    ASSUME IInv, pc[Main] \in {"servers", "wait", "sleep"}, ~stopped_, ~SignalStops,
           \A t \in Outside : pc[t] \notin Stopping
    PROVE  Busy = Workers
  <1> USE ThreadKinds
  <1>1. \A t \in Threads : pc[t] \notin LateStop
    BY DEF IInv, Places, SignalStops, InStop, Stopping, LateStop
  <1>2. ctx_stopped = {} /\ JoinedUpTo(1) /\ Len(workers_) = N
    BY <1>1 DEF IInv, InUse, Spawned, Active
  <1>3. \A w \in Workers : pc[w] # "none" /\ pc[w] # "exited"
    BY <1>2, PoolAssumption DEF IInv, JoinedUpTo, EndedBecauseStopped, Workers
  <1>4. QED
    BY <1>3 DEF Busy

\* When no thread of the pool is left.
LEMMA NoneBusy == ASSUME PoolIdle PROVE Busy = {} /\ ~SignalStops
  BY DEF PoolIdle, Busy, SignalStops, InStop

LEMMA NoneAccepting == Accepting = {} <=> AllStopped
  BY DEF Accepting, AllStopped

\* The steps of Run() before it makes a thread, and the rest of its way to ~App().
LEMMA RunLife ==
    ASSUME LifeInv, StopOnlyWhileWaiting, IInv',
           \/ RunEnter \/ ResetStopped \/ ResetRequested \/ ArmSignals \/ RunStartPool
           \/ Deregister \/ Destroy \/ DestroyMembers \/ FreePool
    PROVE  Implements
  <1> USE ThreadKinds
  <1> USE DEF At, Goto
  <1>1. /\ pc \in [Threads -> Labels] /\ ~terminated
        /\ pc[Main] \notin Active /\ PoolIdle /\ AllStopped /\ UpInv /\ IInv
    BY DEF LifeInv, UpInv, IInv, TypeOK, Idle, Active, RunEnter, ResetStopped, ResetRequested,
       ArmSignals, RunStartPool, Deregister, Destroy, DestroyMembers, FreePool
  <1>2. ~SignalStops
    BY <1>1, NoneBusy
  <1>3. /\ UNCHANGED <<running_, terminated>> /\ \A w \in Workers : pc'[w] = pc[w]
    <2>1. CASE FreePool
      <3>1. joinable = {}
        BY <1>1 DEF PoolIdle
      <3>2. QED
        BY <1>1, <2>1, <3>1 DEF FreePool, app
    <2>2. QED
      BY <1>1, <2>1 DEF RunEnter, ResetStopped, ResetRequested, ArmSignals, RunStartPool,
         PoolStart, Loop, Deregister, Destroy, DestroyMembers, app
  <1>4. UNCHANGED <<Busy, Accepting, SignalStops>> /\ AllStopped'
    BY <1>1, <1>3 DEF Busy, Accepting, SignalStops, AllStopped
  <1>5. CASE RunEnter
    <2>1. pc[Main] = "new" /\ pc'[Main] = "reset_stopped"
      <3>1. runs \in Int /\ MaxRuns \in Int /\ runs < 1
        BY <1>1, <1>5, AppAssumption
        DEF RunEnter, IInv, TypeOK, StopOnlyWhileWaiting, StopAfterStart
      <3>2. pc[Main] # "returned"
        BY <1>1, <3>1 DEF IInv, Window
      <3>3. QED
        BY <1>1, <1>5, <3>2 DEF RunEnter
    <2>2. Phase = "new" /\ Phase' = "starting"
      BY <1>1, <1>2, <1>3, <1>4, <2>1 DEF Phase, InRun
    <2>3. UpInv'
      BY <1>4, <2>1 DEF UpInv, Waits
    <2>4. Contract!Enter
      BY <1>4, <2>2 DEF Contract!Enter, Contract!Become
    <2>5. QED
      BY <2>3, <2>4 DEF Implements, Contract!Next
  <1>6. CASE ResetStopped \/ ResetRequested \/ ArmSignals \/ RunStartPool
    <2>1. /\ pc[Main] \in {"reset_stopped", "reset_requested", "arm", "pool_start"}
          /\ pc'[Main] \in {"reset_requested", "arm", "pool_start", "spawn"}
          /\ ~stop_requested_'
      BY <1>1, <1>6 DEF ResetStopped, ResetRequested, ArmSignals, RunStartPool, PoolStart, Loop,
         PoolIdle, IInv, Window, Early, app, flags
    <2>2. UNCHANGED Phase
      BY <1>1, <1>2, <1>3, <1>4, <2>1 DEF Phase, InRun
    <2>3. UpInv'
      BY <1>4, <2>1 DEF UpInv, Waits
    <2>4. QED
      BY <1>4, <2>2, <2>3, Stutters
  <1>7. CASE Deregister
    <2>1. pc[Main] = "deregister" /\ pc'[Main] = "returned"
      BY <1>1, <1>7 DEF Deregister
    <2>2. Phase = "stopped" /\ Phase' = "over"
      BY <1>1, <1>2, <1>3, <1>4, <2>1 DEF Phase, InRun, Waits
    <2>3. UpInv'
      BY <1>4, <2>1 DEF UpInv, Waits
    <2>4. Contract!Leave
      BY <1>4, <2>2 DEF Contract!Leave, Contract!Become
    <2>5. QED
      BY <2>3, <2>4 DEF Implements, Contract!Next
  <1>8. CASE Destroy \/ DestroyMembers \/ FreePool
    <2>1. /\ pc[Main] \in {"new", "returned", "members", "free"}
          /\ pc'[Main] \in {"stop", "pool_stop", "gone"}
      BY <1>1, <1>3, <1>8 DEF Destroy, DestroyMembers, FreePool
    <2>2. Phase \in {"new", "over"} /\ Phase' = "over"
      BY <1>1, <1>2, <1>3, <1>4, <2>1 DEF Phase, InRun, Waits
    <2>3. UpInv'
      BY <1>4, <2>1 DEF UpInv, Waits
    <2>4. CASE Phase = "new"
      <3>1. Contract!Leave
        BY <1>4, <2>2, <2>4 DEF Contract!Leave, Contract!Become
      <3>2. QED
        BY <2>3, <3>1 DEF Implements, Contract!Next
    <2>5. CASE Phase = "over"
      BY <1>4, <2>2, <2>3, <2>5, Stutters
    <2>6. QED
      BY <2>2, <2>4, <2>5
  <1>9. QED
    BY <1>5, <1>6, <1>7, <1>8

\* The workers come up one by one.
LEMMA SpawnLife == ASSUME LifeInv, StopOnlyWhileWaiting, IInv', RunSpawn PROVE Implements
  <1> USE ThreadKinds
  <1> USE DEF At, Goto
  <1>1. /\ pc \in [Threads -> Labels] /\ pos \in [Threads -> Nat] /\ lim \in [Threads -> Nat]
        /\ workers_ \in Seq(Workers) /\ ~terminated
        /\ pc[Main] = "spawn" /\ ~stopped_ /\ AllStopped /\ UpInv /\ IInv
    BY DEF LifeInv, UpInv, IInv, TypeOK, Idle, RunSpawn
  <1>2. UNCHANGED <<terminated, app>>
    BY DEF RunSpawn, Spawn, pool
  <1>3. UNCHANGED Accepting /\ AllStopped' /\ Accepting = {}
    BY <1>1, <1>2 DEF Accepting, AllStopped, app
  <1>4. CASE pos[Main] > lim[Main]
    <2>1. /\ pc' = [pc EXCEPT ![Main] = "servers"]
          /\ pos'[Main] = 1 /\ lim'[Main] = S
      BY <1>1, <1>4 DEF RunSpawn, Spawn, Loop
    <2>2. UNCHANGED <<Busy, SignalStops>>
      BY <1>1, <2>1 DEF Busy, SignalStops
    <2>3. UNCHANGED Phase
      BY <1>1, <1>2, <2>1, <2>2 DEF Phase, InRun
    <2>4. \A s \in Servers : ~(s < 1)
      BY AppAssumption DEF Servers
    <2>5. UpInv'
      BY <1>1, <1>2, <2>1, <2>2, <2>4 DEF UpInv, Waits, app, flags
    <2>6. QED
      BY <1>3, <2>2, <2>3, <2>5, Stutters
  <1>5. CASE ~(pos[Main] > lim[Main])
    <2>1. PICK w : w = pos[Main]
      OBVIOUS
    <2>2. w \in Workers /\ pc[w] = "none"
      <3>1. /\ \A t \in Threads : pc[t] # "set_stopped"
            /\ \A t \in Outside : pc[t] \notin Stopping
        BY <1>1, OneInPool DEF IInv, Places, Window, Stopping, EarlyStop, LateStop
      <3>2. Spawned /\ \A v \in Workers : pc[v] = "none" <=> v > Len(workers_)
        BY <1>1, <3>1 DEF IInv, InUse, Places, Window, Active, Stopping, LateStop, JoinedUpTo
      <3>3. QED
        BY <1>1, <1>5, <2>1, <3>2, LenProperties DEF Spawned, Workers
    <2>3. pc' = [pc EXCEPT ![w] = "run"]
      BY <1>5, <2>1 DEF RunSpawn, Spawn
    <2>4. pc'[Main] = "spawn" /\ UNCHANGED SignalStops /\ Busy' = Busy \cup {w}
      BY <1>1, <2>2, <2>3 DEF Busy, SignalStops, InStop
    <2>5. UNCHANGED Phase /\ Phase \in {"starting", "dying"}
      BY <1>1, <1>2, <2>4 DEF Phase, InRun
    <2>6. UpInv'
      BY <1>1, <1>2, <1>3, <2>4 DEF UpInv, Waits, app, flags
    <2>7. CASE Phase = "starting"
      <3>1. Contract!StartWorker(w)
        BY <1>3, <2>4, <2>5, <2>7 DEF Contract!StartWorker
      <3>2. QED
        BY <2>2, <2>6, <3>1 DEF Implements, Contract!Next
    <2>8. CASE Phase = "dying"
      BY <2>5, <2>6, <2>8, Dies
    <2>9. QED
      BY <2>5, <2>7, <2>8
  <1>6. QED
    BY <1>4, <1>5

\* The servers come up one by one, with every worker running.
LEMMA ServeLife == ASSUME LifeInv, StartServer PROVE Implements
  <1> USE ThreadKinds
  <1> USE DEF At, Goto
  <1>1. /\ pc \in [Threads -> Labels] /\ pos \in [Threads -> Nat] /\ lim \in [Threads -> Nat]
        /\ running_ \in [Servers -> BOOLEAN] /\ S \in Nat /\ ~terminated
        /\ pc[Main] = "servers" /\ ~stopped_ /\ UpInv /\ IInv
        /\ lim[Main] = S /\ pos[Main] >= 1
    BY AppAssumption DEF LifeInv, OnlyWaiting, UpInv, IInv, TypeOK, StartServer
  <1>2. UNCHANGED <<terminated, flags, lim>>
    BY DEF StartServer, ServerLoop
  <1>3. \A t \in Outside : pc[t] \notin Stopping
    BY <1>1 DEF LifeInv, OnlyWaiting, Waits
  <1>4. \A w \in Workers : pc'[w] = pc[w]
    BY <1>1 DEF StartServer, ServerLoop
  <1>5. UNCHANGED <<Busy, SignalStops>>
    BY <1>4 DEF Busy, SignalStops
  <1>6. CASE pos[Main] > lim[Main]
    <2>1. pc'[Main] = "wait" /\ UNCHANGED running_
      BY <1>1, <1>6 DEF StartServer, ServerLoop
    <2>2. UNCHANGED Accepting
      BY <2>1 DEF Accepting
    <2>3. CASE SignalStops
      <3>1. Phase = "dying" /\ Phase' = "dying"
        BY <1>1, <1>2, <1>5, <2>3 DEF Phase
      <3>2. stop_requested_'
        BY <1>2, <2>3 DEF LifeInv, IInv, Admitted, SignalStops, flags
      <3>3. UpInv'
        BY <2>1, <3>2 DEF UpInv, Waits
      <3>4. QED
        BY <3>1, <3>3, Dies
    <2>4. CASE ~SignalStops
      <3>1. ~stop_requested_ /\ ~stop_requested_'
        BY <1>1, <1>2, <2>4 DEF UpInv, flags
      <3>2. \A s \in Servers : running_[s]
        BY <1>1, <1>6, <2>4 DEF UpInv, Servers
      <3>3. Accepting = Servers /\ Busy = Workers
        BY <1>1, <1>3, <2>4, <3>2, AllBusy DEF Accepting
      <3>4. Phase = "starting" /\ Phase' = "serving"
        BY <1>1, <1>2, <1>5, <2>1, <2>4, <3>1 DEF Phase, InRun, Waits
      <3>5. UpInv'
        BY <2>1, <3>2 DEF UpInv, Waits
      <3>6. Contract!Serve
        BY <1>5, <2>2, <3>3, <3>4 DEF Contract!Serve, Contract!Become
      <3>7. QED
        BY <3>5, <3>6 DEF Implements, Contract!Next
    <2>5. QED
      BY <2>3, <2>4
  <1>7. CASE ~(pos[Main] > lim[Main])
    <2>1. PICK s : s = pos[Main] /\ s \in Servers
      BY <1>1, <1>7 DEF Servers
    <2>2. /\ UNCHANGED pc /\ pos'[Main] = s + 1
          /\ running_' = [running_ EXCEPT ![s] = TRUE]
      BY <1>1, <1>7, <2>1 DEF StartServer, ServerLoop
    <2>3. Accepting' = Accepting \cup {s}
      BY <1>1, <2>1, <2>2 DEF Accepting
    <2>4. UNCHANGED Phase /\ Phase \in {"starting", "dying"} /\ (Phase = "starting" => ~SignalStops)
      BY <1>1, <1>2, <1>5, <2>2 DEF Phase, InRun, Waits, flags
    <2>5. UpInv'
      <3>1. ~SignalStops => \A r \in Servers : r < s + 1 => running_'[r]
        BY <1>1, <2>1, <2>2 DEF UpInv, Servers
      <3>2. s + 1 >= 1
        BY <1>1, <2>1
      <3>3. QED
        BY <1>1, <1>2, <1>5, <2>2, <3>1, <3>2 DEF UpInv, Waits, flags
    <2>6. CASE Phase = "starting"
      <3>1. Busy = Workers
        BY <1>1, <1>3, <2>4, <2>6, AllBusy
      <3>2. Contract!StartServer(s)
        BY <1>5, <2>3, <2>4, <2>6, <3>1 DEF Contract!StartServer
      <3>3. QED
        BY <2>1, <2>5, <3>2 DEF Implements, Contract!Next
    <2>7. CASE Phase = "dying"
      BY <2>4, <2>5, <2>7, Dies
    <2>8. QED
      BY <2>4, <2>6, <2>7
  <1>8. QED
    BY <1>6, <1>7

\* While Run() waits it cannot tell a stop from a wake-up for no reason but by stopped_.
LEMMA WaitLife == ASSUME LifeInv, WaitStopped \/ SpuriousWake PROVE Implements
  <1> USE ThreadKinds
  <1>1. /\ pc \in [Threads -> Labels] /\ Waits /\ UNCHANGED <<terminated, app>>
        /\ pc'[Main] \in {"wait", "sleep"} \/ (pc'[Main] = "deregister" /\ stopped_)
        /\ \A w \in Workers : pc'[w] = pc[w]
    BY DEF LifeInv, IInv, TypeOK, WaitStopped, SpuriousWake, At, Goto, Waits
  <1>2. UNCHANGED <<Busy, Accepting, SignalStops>>
    BY <1>1 DEF Busy, Accepting, SignalStops, app
  <1>3. stopped_ => stop_requested_ /\ AllStopped
    BY <1>1 DEF LifeInv, IInv, Admitted, ServersInv, Waits
  <1>4. UNCHANGED Phase
    BY <1>1, <1>2, <1>3 DEF Phase, Waits, InRun, app, flags
  <1>5. UpInv'
    BY <1>1, <1>2, <1>3 DEF LifeInv, UpInv, Waits, AllStopped, app, flags
  <1>6. QED
    BY <1>2, <1>4, <1>5, Stutters

\* Stop() in ~App() finds everything down.
LEMMA DestructorLife == ASSUME LifeInv, StopStep(Main) PROVE Implements
  <1> USE ThreadKinds
  <1> USE DEF At, Goto
  <1>1. /\ pc \in [Threads -> Labels] /\ running_ \in [Servers -> BOOLEAN] /\ ~terminated
        /\ pc[Main] \in {"stop", "set_stopped", "notify"} \cup EarlyStop
    BY DEF LifeInv, IInv, TypeOK, Places, StopStep, StopEnter, Unregister, StopServer, StopPool,
       SetStopped, Notify, Early, Active, EarlyStop
  <1>2. PoolIdle /\ AllStopped
    BY <1>1 DEF LifeInv, IInv, Idle, UpInv, Active, EarlyStop
  <1>3. CASE StopServer(Main)
    <2>1. /\ pc'[Main] \in {"stop_servers", "pool_stop"} /\ UNCHANGED terminated
          /\ \A w \in Workers : pc'[w] = pc[w]
      BY <1>1, <1>3 DEF StopServer, ServerLoop
    <2>2. AllStopped'
      BY <1>1, <1>2, <1>3 DEF StopServer, ServerLoop, AllStopped
    <2>3. UNCHANGED <<Busy, Accepting, SignalStops>>
      BY <1>2, <2>1, <2>2 DEF Busy, Accepting, SignalStops, AllStopped
    <2>4. UNCHANGED Phase
      BY <1>1, <2>1, <2>3 DEF Phase, Waits, InRun, EarlyStop
    <2>5. UpInv'
      BY <2>1, <2>2 DEF UpInv, Waits
    <2>6. QED
      BY <2>3, <2>4, <2>5, Stutters
  <1>4. CASE ~StopServer(Main)
    <2>1. UNCHANGED <<terminated, running_>> /\ \A w \in Workers : pc'[w] = pc[w]
      BY <1>1, <1>4 DEF StopStep, StopEnter, Exchange, Unregister, Loop, StopPool, PoolStop,
         SetStopped, Notify, EarlyStop, app
    <2>2. pc'[Main] \in {"unregister", "stop_servers", "members", "free", "set_stopped", "notify"}
      BY <1>1, <1>2, <1>4 DEF StopStep, StopEnter, Exchange, Unregister, Loop, StopPool, PoolStop,
         SetStopped, Notify, EarlyStop, AfterStop, AfterPoolStop, PoolIdle
    <2>3. UNCHANGED <<Busy, Accepting, SignalStops>> /\ AllStopped'
      BY <1>2, <2>1 DEF Busy, Accepting, SignalStops, AllStopped
    <2>4. UNCHANGED Phase
      BY <1>1, <2>1, <2>2, <2>3 DEF Phase, Waits, InRun, EarlyStop
    <2>5. UpInv'
      BY <2>2, <2>3 DEF UpInv, Waits
    <2>6. QED
      BY <2>3, <2>4, <2>5, Stutters
  <1>5. QED
    BY <1>3, <1>4

\* A worker that executes Stop() never comes out of it: the process is dying.
LEMMA WorkerStopLife ==
    ASSUME LifeInv, NEW w \in Workers, StopStep(w) PROVE Implements
  <1> USE ThreadKinds
  <1> USE DEF At, Goto
  <1>1. /\ pc \in [Threads -> Labels] /\ running_ \in [Servers -> BOOLEAN] /\ ~terminated
        /\ pc[w] \in {"stop_contexts", "join"} \cup EarlyStop /\ pc[w] \in InStop
        /\ pos \in [Threads -> Nat] /\ lim \in [Threads -> Nat]
    BY DEF LifeInv, IInv, TypeOK, Places, StopStep, StopEnter, Unregister, StopServer, StopPool,
       SetStopped, Notify, EarlyStop, InStop
  <1>2. stop_requested_ /\ SignalStops
    BY <1>1 DEF LifeInv, IInv, Admitted, SignalStops
  <1>3. /\ pc'[w] \in InStop /\ stop_requested_' /\ (AllStopped => AllStopped')
        /\ pc'[Main] = pc[Main] /\ pos'[Main] = pos[Main] /\ lim'[Main] = lim[Main]
    <2>1. CASE StopServer(w)
      <3>1. AllStopped => AllStopped'
        BY <1>1, <2>1 DEF StopServer, ServerLoop, AllStopped
      <3>2. QED
        BY <1>1, <1>2, <2>1, <3>1 DEF StopServer, ServerLoop, InStop, flags
    <2>2. CASE Unregister(w)
      BY <1>1, <1>2, <2>2 DEF Unregister, Loop, InStop, AllStopped, flags
    <2>3. CASE StopPool(w)
      <3>1. UNCHANGED <<running_, stop_requested_>>
        BY <2>3 DEF StopPool, app, flags
      <3>2. pc'[w] \in {"pool_stop", "stop_contexts", "join", "clear", "set_stopped"}
        BY <1>1, <2>3
        DEF StopPool, PoolStop, StopContexts, Loop, Join, AfterPoolStop, EarlyStop
      <3>3. pc'[Main] = pc[Main] /\ pos'[Main] = pos[Main] /\ lim'[Main] = lim[Main]
        BY <1>1, <2>3 DEF StopPool, PoolStop, StopContexts, Loop, Join, EarlyStop
      <3>4. QED
        BY <1>2, <3>1, <3>2, <3>3 DEF InStop, AllStopped
    <2>4. QED
      BY <1>1, <2>1, <2>2, <2>3 DEF StopStep, StopEnter, SetStopped, Notify, EarlyStop
  <1>4. SignalStops'
    BY <1>3 DEF SignalStops
  <1>5. UpInv'
    BY <1>3, <1>4 DEF LifeInv, UpInv, Waits
  <1>6. Phase = "dying" /\ Phase' \in {"dying", "dead"}
    BY <1>1, <1>2, <1>4 DEF Phase
  <1>7. QED
    BY <1>5, <1>6, Dies

\* An outside thread gets through to the body of Stop() or finds that a stop was requested.
LEMMA ExchangeLife ==
    ASSUME LifeInv, ~terminated, NEW t \in Outside, Exchange(t), stop_requested_ \/ Waits
    PROVE  Implements
  <1> USE ThreadKinds
  <1>1. /\ UNCHANGED <<running_, stopped_, terminated, pos, lim>> /\ stop_requested_'
        /\ pc'[Main] = pc[Main] /\ \A w \in Workers : pc'[w] = pc[w]
    BY DEF LifeInv, IInv, TypeOK, Exchange, Goto
  <1>2. UNCHANGED <<Busy, Accepting, SignalStops>> /\ (AllStopped => AllStopped')
    BY <1>1 DEF Busy, Accepting, SignalStops, AllStopped
  <1>3. UpInv'
    BY <1>1, <1>2 DEF LifeInv, UpInv, Waits
  <1>4. CASE stop_requested_
    <2>1. UNCHANGED Phase
      BY <1>1, <1>2, <1>4 DEF Phase, Waits
    <2>2. QED
      BY <1>2, <1>3, <2>1, Stutters
  <1>5. CASE ~stop_requested_
    <2>1. Waits /\ ~stopped_ /\ ~SignalStops
      BY <1>5 DEF LifeInv, IInv, Admitted, SignalStops
    <2>2. Phase = "serving" /\ Phase' = "stopping"
      BY <1>1, <1>2, <1>5, <2>1 DEF Phase, Waits, InRun
    <2>3. Contract!Stop
      BY <1>2, <2>2 DEF Contract!Stop, Contract!Become
    <2>4. QED
      BY <1>3, <2>3 DEF Implements, Contract!Next
  <1>6. QED
    BY <1>4, <1>5

\* Stop() by an outside thread: the servers, the pool, and only then stopped_.
LEMMA OutsideLife ==
    ASSUME LifeInv, IInv', NEW t \in Outside, StopStep(t) PROVE Implements
  <1> USE ThreadKinds
  <1> USE DEF At, Goto
  <1>1. /\ pc \in [Threads -> Labels] /\ running_ \in [Servers -> BOOLEAN] /\ ~terminated
        /\ pos \in [Threads -> Nat] /\ lim \in [Threads -> Nat] /\ S \in Nat
        /\ IInv /\ OnlyWaiting /\ ServersInv /\ UpInv
    BY AppAssumption DEF LifeInv, IInv, TypeOK, StopStep, StopEnter, Unregister, StopServer,
       StopPool, SetStopped, Notify
  <1>2. CASE StopEnter(t)
    <2>1. stop_requested_ \/ Waits
      BY <1>1, <1>2 DEF StopEnter, OnlyWaiting
    <2>2. QED
      BY <1>1, <1>2, <2>1, ExchangeLife DEF StopEnter
  <1>3. CASE Notify(t)
    <2>1. /\ \A w \in Workers : pc'[w] = pc[w]
          /\ UNCHANGED <<running_, flags, terminated, pos, lim>>
          /\ pc'[Main] = pc[Main] \/ (pc[Main] = "sleep" /\ pc'[Main] = "wait")
      BY <1>1, <1>3 DEF Notify, app
    <2>2. UNCHANGED <<Busy, Accepting, SignalStops>> /\ (AllStopped => AllStopped')
      BY <2>1 DEF Busy, Accepting, SignalStops, AllStopped
    <2>3. UNCHANGED Phase
      BY <2>1, <2>2 DEF Phase, Waits, InRun, flags
    <2>4. UpInv'
      BY <1>1, <2>1, <2>2 DEF UpInv, Waits, flags
    <2>5. QED
      BY <2>2, <2>3, <2>4, Stutters
  <1>4. ASSUME pc[t] \in Stopping PROVE Implements
    <2>1. Waits /\ ~SignalStops /\ stop_requested_ /\ ~stopped_ /\ Phase = "stopping"
      BY <1>1, <1>4, Stopper
    <2>2. /\ \A u \in Threads \ {t} : pc'[u] = pc[u]
          /\ pc'[Main] = pc[Main] /\ \A w \in Workers : pc'[w] = pc[w]
      <3>1. \A u \in Threads \ {t} : pc'[u] = pc[u]
        <4>1. CASE StopPool(t)
          BY <1>1, <4>1 DEF StopPool, PoolStop, StopContexts, Join, Clear, Loop
        <4>2. CASE ~StopPool(t)
          BY <1>1, <1>4, <4>2 DEF StopStep, StopEnter, Unregister, Loop, StopServer, ServerLoop,
             SetStopped, Notify, Stopping, EarlyStop, LateStop
        <4>3. QED
          BY <4>1, <4>2
      <3>2. QED
        BY <3>1
    <2>3. UNCHANGED <<Busy, SignalStops>>
      BY <2>2 DEF Busy, SignalStops
    <2>4. UNCHANGED terminated
      <3>1. ~terminated'
        BY <2>1, <2>3 DEF IInv, OnlySelfJoinTerminates, SignalStops, InStop
      <3>2. QED
        BY <1>1, <3>1 DEF IInv, TypeOK
    <2>5. stop_requested_' /\ Waits'
      BY <1>1, <1>4, <2>1, <2>2 DEF StopStep, StopEnter, Unregister, StopServer, ServerLoop, StopPool,
         SetStopped, Notify, Stopping, EarlyStop, LateStop, Waits, app, flags
    <2>6. UpInv'
      BY <2>5 DEF UpInv, Waits
    <2>7. CASE UNCHANGED <<stopped_, running_>>
      <3>1. UNCHANGED <<Phase, Accepting>>
        BY <2>1, <2>2, <2>3, <2>4, <2>5, <2>7 DEF Phase, Waits, Accepting, InRun
      <3>2. QED
        BY <2>3, <2>6, <3>1, Stutters
    <2>8. CASE SetStopped(t)
      <3>1. PoolIdle /\ AllStopped
        BY <1>1, <2>1, <2>8 DEF SetStopped, IInv, InUse, ServersInv, LateStop, Active, Waits
      <3>2. UNCHANGED Accepting /\ stopped_'
        BY <2>8 DEF SetStopped, Accepting
      <3>3. Phase' = "stopped"
        BY <2>1, <2>3, <2>4, <2>5, <3>2, <1>1 DEF Phase, Waits, InRun
      <3>4. Contract!Stopped
        BY <2>1, <2>3, <3>1, <3>2, <3>3, NoneBusy, NoneAccepting
        DEF Contract!Stopped, Contract!Become
      <3>5. QED
        BY <2>6, <3>4 DEF Implements, Contract!Next
    <2>9. CASE StopServer(t) /\ ~(pos[t] > lim[t])
      <3>1. PICK s : s = pos[t] /\ s \in Servers
        BY <1>1, <2>9 DEF StopServer, ServersInv, Servers
      <3>2. running_' = [running_ EXCEPT ![s] = FALSE] /\ UNCHANGED stopped_
        BY <2>9, <3>1 DEF StopServer, ServerLoop, flags
      <3>3. Accepting' = Accepting \ {s}
        BY <1>1, <3>1, <3>2 DEF Accepting
      <3>4. UNCHANGED Phase
        BY <2>1, <2>2, <2>3, <2>4, <2>5, <3>2 DEF Phase, Waits, InRun
      <3>5. Contract!StopServer(s)
        BY <2>1, <2>3, <3>3, <3>4 DEF Contract!StopServer
      <3>6. QED
        BY <2>6, <3>1, <3>5 DEF Implements, Contract!Next
    <2>10. QED
      <3>1. CASE StopServer(t) /\ pos[t] > lim[t]
        BY <2>7, <3>1 DEF StopServer, ServerLoop, flags
      <3>2. CASE Unregister(t) \/ StopPool(t)
        BY <2>7, <3>2 DEF Unregister, StopPool, app, flags
      <3>3. QED
        BY <1>1, <1>4, <2>8, <2>9, <3>1, <3>2
        DEF StopStep, StopEnter, Notify, Stopping, EarlyStop, LateStop
  <1>5. QED
    BY <1>2, <1>3, <1>4 DEF StopStep, Unregister, StopServer, StopPool, SetStopped, Stopping,
       EarlyStop, LateStop

\* A signal that nobody has forestalled ends the App for good.
LEMMA SignalLife ==
    ASSUME LifeInv, NEW w \in Workers, SignalHandler(w) PROVE Implements
  <1> USE ThreadKinds
  <1> USE DEF At, Goto
  <1>1. /\ pc \in [Threads -> Labels] /\ pc[w] = "run" /\ ~terminated
        /\ UNCHANGED <<running_, stopped_, terminated, pos, lim>> /\ stop_requested_'
        /\ pc' = [pc EXCEPT ![w] = IF stop_requested_ THEN "run" ELSE "unregister"]
        /\ IInv /\ UpInv
    BY DEF LifeInv, IInv, TypeOK, SignalHandler, Exchange, AfterStop
  <1>2. /\ UNCHANGED <<Busy, Accepting>> /\ w \in Busy /\ (AllStopped => AllStopped')
        /\ pc'[Main] = pc[Main]
    BY <1>1 DEF Busy, Accepting, AllStopped
  <1>3. CASE stop_requested_
    <2>1. UNCHANGED SignalStops
      BY <1>1, <1>3 DEF SignalStops
    <2>2. UNCHANGED Phase
      BY <1>1, <1>2, <1>3, <2>1 DEF Phase, Waits
    <2>3. UpInv'
      BY <1>1, <1>2, <1>3, <2>1 DEF UpInv, Waits
    <2>4. QED
      BY <1>2, <2>2, <2>3, Stutters
  <1>4. CASE ~stop_requested_
    <2>1. ~SignalStops /\ ~stopped_
      BY <1>1, <1>4 DEF IInv, Admitted, SignalStops
    <2>2. pc[Main] \in Active
      BY <1>1 DEF IInv, Idle, PoolIdle
    <2>3. Phase \in {"starting", "serving"}
      BY <1>1, <1>4, <2>1, <2>2 DEF Phase, Waits, InRun, Active
    <2>4. SignalStops'
      BY <1>1, <1>4 DEF SignalStops, InStop
    <2>5. Phase' = "dying"
      BY <1>1, <2>4 DEF Phase
    <2>6. UpInv'
      BY <1>1, <1>2, <2>4 DEF UpInv, Waits
    <2>7. Contract!Signal
      BY <1>2, <2>3, <2>5 DEF Contract!Signal, Contract!Become
    <2>8. QED
      BY <2>6, <2>7 DEF Implements, Contract!Next
  <1>5. QED
    BY <1>3, <1>4

\* A worker's run() returns only when the servers are down, unless the process is dying.
LEMMA ReturnLife ==
    ASSUME LifeInv, NEW w \in Workers, RunReturns(w) PROVE Implements
  <1> USE ThreadKinds
  <1> USE DEF At, Goto
  <1>1. /\ pc \in [Threads -> Labels] /\ pc[w] = "run" /\ w \in ctx_stopped /\ ~terminated
        /\ UNCHANGED <<terminated, app, pos, lim>> /\ pc' = [pc EXCEPT ![w] = "exited"]
        /\ IInv /\ OnlyWaiting /\ UpInv /\ ServersInv
    BY DEF LifeInv, IInv, TypeOK, RunReturns, WorkerExit
  <1>2. UNCHANGED <<Accepting, SignalStops>> /\ Busy' = Busy \ {w} /\ pc'[Main] = pc[Main]
    BY <1>1 DEF Accepting, SignalStops, Busy, InStop, app
  <1>3. UpInv'
    BY <1>1, <1>2 DEF UpInv, Waits, AllStopped, app, flags
  <1>4. UNCHANGED Phase
    BY <1>1, <1>2 DEF Phase, Waits, app, flags
  <1>5. CASE SignalStops
    <2>1. Phase = "dying"
      BY <1>1, <1>5 DEF Phase
    <2>2. QED
      BY <1>3, <1>4, <2>1, Dies
  <1>6. CASE ~SignalStops
    <2>1. pc[Main] \in Active /\ ~stopped_
      BY <1>1 DEF IInv, Idle, PoolIdle
    <2>2. PICK t \in Threads : pc[t] \in LateStop
      BY <1>1, <2>1 DEF IInv, InUse
    <2>3. t \in Outside
      BY <1>1, <1>6, <2>1, <2>2, OneInPool DEF SignalStops, InStop, Stopping, LateStop
    <2>4. Phase = "stopping"
      BY <1>1, <2>2, <2>3, Stopper DEF Stopping
    <2>5. Accepting = {}
      BY <1>1, <2>2, <2>3, NoneAccepting DEF ServersInv
    <2>6. Contract!EndWorker(w)
      BY <1>2, <1>4, <2>4, <2>5 DEF Contract!EndWorker
    <2>7. QED
      BY <1>3, <2>6 DEF Implements, Contract!Next
  <1>7. QED
    BY <1>5, <1>6

LEMMA NextLife ==
    ASSUME LifeInv, IInv', StopOnlyWhileWaiting, [Next]_vars PROVE Implements
  <1>1. CASE MainStep \/ SpuriousWake
    BY <1>1, RunLife, SpawnLife, ServeLife, WaitLife DEF MainStep
  <1>2. CASE \E t \in Threads : StopStep(t)
    BY <1>2, ThreadKinds, DestructorLife, WorkerStopLife, OutsideLife
  <1>3. ASSUME NEW t \in Outside, OutsideStop(t) PROVE Implements
    <2>1. ~terminated /\ Exchange(t) /\ Waits
      BY <1>3 DEF OutsideStop, At, StopOnlyWhileWaiting, Waits
    <2>2. QED
      BY <2>1, ExchangeLife
  <1>4. CASE UNCHANGED vars \/ \E t \in Outside : ConsoleCtrlHandler(t)
    <2>1. /\ UNCHANGED <<terminated, app, pos, lim>> /\ pc'[Main] = pc[Main]
          /\ \A w \in Workers : pc'[w] = pc[w]
      BY <1>4, ThreadKinds DEF ConsoleCtrlHandler, Goto, vars, control, LifeInv, IInv, TypeOK
    <2>2. UNCHANGED <<Busy, Accepting, SignalStops>>
      BY <2>1 DEF Busy, Accepting, SignalStops, app
    <2>3. UNCHANGED Phase
      BY <2>1, <2>2 DEF Phase, Waits, app, flags
    <2>4. UpInv'
      BY <2>1, <2>2 DEF LifeInv, UpInv, Waits, AllStopped, app, flags
    <2>5. QED
      BY <2>2, <2>3, <2>4, Stutters
  <1>5. QED
    BY <1>1, <1>2, <1>3, <1>4, SignalLife, ReturnLife DEF Next

\* The App implements its contract: all workers, all servers, serve, and down again in the
\* order servers, workers, Run(); nothing comes back.  A signal is the only way out of it.
THEOREM AppImplementsContract ==
    ASSUME StopOnlyWhileWaiting PROVE Spec => ImplementsContract
  <1>1. Init => UpInv /\ Contract!Init
    <2> SUFFICES ASSUME Init PROVE UpInv /\ Contract!Init
      OBVIOUS
    <2>1. /\ pc[Main] = "new" /\ AllStopped /\ ~terminated
          /\ \A w \in Workers : pc[w] = "none"
          /\ \A t \in Outside : pc[t] = "idle"
      BY ThreadKinds DEF Init, AllStopped, PoolInit
    <2>2. Busy = {} /\ Accepting = {} /\ ~SignalStops
      BY <2>1 DEF Busy, Accepting, AllStopped, SignalStops, InStop
    <2>3. UpInv
      BY <2>1 DEF UpInv, Waits
    <2>4. Phase = "new"
      BY <2>1, <2>2 DEF Phase
    <2>5. QED
      BY <2>2, <2>3, <2>4 DEF Contract!Init
  <1>2. IInv /\ IInv' /\ OnlyWaiting /\ ServersInv /\ UpInv /\ [Next]_vars
          => UpInv' /\ [Contract!Next]_(Contract!vars)
    BY NextLife DEF LifeInv, Implements
  <1>3. QED
    BY <1>1, <1>2, InitServers, AfterStart, Inductive, NextWaiting, NextServers, PTL
    DEF Spec, ImplementsContract, Contract!Spec

=============================================================================

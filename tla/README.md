# A TLA+ model of chmicro

chmicro is a small C++ framework for HTTP services: an application runtime with a
pool of I/O threads, an HTTP server and client on boost::beast, a router, metrics, a
circuit breaker, retry and client-side load balancing helpers, and three example
programs. This directory models the library and two of the examples, above all where
threads, callbacks and failures meet, checks them with TLC on small instances, and proves
the safety properties that the passing runs check with TLAPS, for every value of
the constants.

Paths below are relative to the repository root (`src/...` is the library,
`include/...` its headers).

## 1. The system

### Components

| Component | State | Operations | Talks to |
|---|---|---|---|
| Circuit breaker `src/resilience/circuit_breaker.cpp` | `state_` (atomic), and under `mu_`: two consecutive counters, `opened_at_`, `half_open_inflight_` | `AllowRequest`, `OnSuccess`, `OnFailure` | any number of calling threads, the steady clock |
| I/O context pool `src/runtime/io_context_pool.cpp` | `started_` (atomic), contexts and work guards, `workers_` (plain vector of threads), `rr_` | `Next`, `Start`, `Stop`, destructor | one worker thread per context; owned by App |
| App `src/runtime/app.cpp` | `stop_requested_`, `stopped_`, `stop_mu_`/`stop_cv_`, the servers, process-wide `g_app` | `AddServer`, `Run`, `Stop`, destructor; POSIX signal handler, Windows console handler | pool, servers, operating system |
| HTTP server `src/http/http_server.cpp` (167-236) | `running_` (atomic), the acceptor | `Start`, `Stop`, the accept handler | one context of the pool; creates sessions |
| HTTP session `src/http/http_server.cpp` (21-150) | `buffer_`, `req_`, `res_` | read, handle, write, close | a client over TCP, the router, metrics, trace, log |
| HTTP client `src/http/http_client.cpp` | an `io_context`, stream, resolver and timer per call | `Get` | a server |
| Metrics `src/core/metrics.cpp` | maps of counters, gauges and histograms under `mu_`; each metric has its own atomic or mutex | find-or-create, `Inc`, `Set`, `Observe`, `ToPrometheusText` | all worker threads |
| Router `src/http/router.cpp` | routes, middleware | `Use`, `AddRoute`, `Handle` | sessions, user handlers |
| Retry policy `src/resilience/retry.cpp` | options | `BackoffBeforeAttempt` | - |
| Service discovery, load balancer `src/governance/*.cpp` | endpoint table (no lock); a cursor per service (mutex) | `Set`, `Resolve`; `Pick` | each other, through the caller |
| Trace context `src/core/trace.cpp` | none | `NewRoot`, `NewChild`, `ParseTraceParent`, `ToTraceParent` | sessions |
| Logging `src/core/log.cpp` | `g_logger` | `Init`, `Get` | everything |
| Configuration `src/config/config.cpp` | a parsed JSON document | `LoadFile`, typed getters | the chjson submodule (not in the repository) |
| Status and Result `src/core/status.cpp` | value type | - | - |
| KV service `examples/kv/kv_service.cpp` | a map in shards, a `shared_mutex` each | `/put`, `/get`, `/stats`; `/health`, `/compute`, `/metrics` | router, server, App |
| Load generator `examples/loadgen/http_loadgen.cpp` | per session a stream and a timer; a shared histogram and stop time | two phases of sessions, each a loop of requests | any HTTP server |
| Hello `examples/hello` | none | routes and a command line | the library |

### How they interact

`main` builds an App and servers, hands the servers to the App and calls `Run()`. The
constructor of App takes one context of the pool (for a timer that nothing uses), each
server takes one for its acceptor, and on POSIX `Run()` takes one for the signal wait.
Each context is run by one worker, so all handlers of one server run on one thread;
several servers share metrics and logging. `App::Stop()` may be called by a thread of
the user, by the signal handler (a worker!), by the Windows console thread through
`g_app`, and by the destructor. It stops the servers, then the pool - which joins the
workers - and then wakes `Run()`. The breaker, the retry policy, discovery and the
client are libraries that the user's threads call.

### What is hard, and what makes each part correct

`PROJECT.json` lists each hazard at its line. In short:

* **Circuit breaker.** `state_` and the clock are read before the lock and used after
  it; reports come late and in another phase than their admission; callers may never
  report. Correct: no half-open slot leaks; the in-flight limit is exceeded only in a
  bounded, explained way; a threshold that is reached is acted on at once; nobody is
  admitted while open, and open lasts the real interval; every phase ends.
* **Pool and App.** Many stoppers, one of them possibly a thread that has to be joined;
  flags that `Run()` resets and `Stop()` sets; a wait on a condition variable; a
  vector of threads that is cleared and destroyed. Correct: one stopper at a time, all
  workers joined and all servers stopped before `Run()` returns, `Run()` always woken, no `std::terminate`.
* **HTTP server.** `Stop()` interleaves with an accept handler; every acceptor operation
  can fail. Correct: a running server keeps accepting, a stopped one has closed its
  port and its loop ends.
* **HTTP session.** Pipelined bytes, keep-alive, half-close, resets. Correct: one answer per
  request, in order, none after a close; the session ends.
* **HTTP client.** The deadline races with four asynchronous steps, each of which can
  fail. Correct: an error ends the chain, the deadline unblocks the call, the call
  returns the right result.
* **Metrics.** Find-or-create and update from many threads, exposition in between.
  Correct: no update lost, expositions consistent across metrics, exact and monotone.
* **Router and trace.** Nested continuations that share one position; a trace context that is
  parsed, replaced and echoed per request. Correct: no handler runs past a middleware that did
  not call on; a response carries its own request's trace, or a new one.
* **Retry, discovery, load balancer.** A conversion that overflows; lists that change between
  resolving and picking; several callers and services. Correct: waits within the limits, picks
  of a service rotate.
* **Load generator.** One timer with two meanings, a deadline whose handler may come
  late, reconnects, two phases in one `io_context`. Correct: a session is never lost and
  never stuck, the summary is that of the measured phase.
* **KV service.** Correct: what was acknowledged is found, `/stats` tells a size the store had.

## 2. The modules

| Module | Models | Composition |
|---|---|---|
| `BreakerContract` | what a breaker promises: phases, trip time, who is inside | abstract |
| `CircuitBreaker` | `circuit_breaker.cpp` | implements `BreakerContract` |
| `CircuitBreakerProofs` | theorems | extends `CircuitBreaker` |
| `IoContextPool` | `io_context_pool.cpp`: the pool's state and the steps of `Start()`/`Stop()` as operators of the executing thread | used by `App` |
| `AppContract` | what an App promises: its phases, the workers that run, the servers that run | abstract |
| `App` | `app.cpp`, all threads | extends `IoContextPool`, implements `AppContract` |
| `AppProofs` | theorems | extends `App` |
| `HttpServer` | acceptor and accept loop | - |
| `HttpServerProofs` | theorems about the server and its sessions | extends `HttpServer` and `HttpSession` |
| `HttpSession` | one connection and its client | extends `Router` and `TraceContext` |
| `Router` | `router.cpp`: one call of `Handle()`, as operators and the variable `handling` | used by `HttpSession` |
| `TraceContext` | `trace.cpp` as operators | used by `HttpSession` |
| `HttpClient` | one `Get()` | - |
| `Metrics` | registry, counters, histograms, exposition, as `http_server.cpp:111-123` uses them | - |
| `Sums` | lemmas on `SumFunctionOnSet`, with which `Metrics` and `LoadGen` add up | - |
| `MetricsProofs` | theorems | extends `Metrics` and `Sums` |
| `LoadGen` | `http_loadgen.cpp`: `main()`, the sessions, the histogram | - |
| `ClientProofs` | theorems about both HTTP clients | extends `HttpClient`, `LoadGen` and `Sums` |
| `KvService` | `kv_service.cpp`: the store and its three handlers, with clients | - |
| `KvServiceProofs` | theorems | extends `KvService` |
| `RetryPolicy` | `retry.cpp` as operators | used by `Governance` |
| `Governance` | `service_discovery.cpp`, `load_balancer.cpp` and callers that retry | extends `RetryPolicy` |
| `GovernanceProofs` | theorems | extends `Governance` |
| `MC...` | values of the constants that a `.cfg` cannot write | extend the module they are named after |

Conventions. Variables keep the names of the code (`state_`, `half_open_inflight_`,
`running_`, ...). `pc` says where each thread is; a label is named after the code that
comes next. An action is the code between two accesses to shared state that another
thread can see in between: a critical section is one step, code outside of a lock is
one step per access. An operator `Name_Suffix` directly before `Name` is a wrong
variant of it (an off-by-one, a dropped guard, a forgotten reset, ...) that no specification uses:
replacing `Name` by it must make the property that `PROJECT.json` pairs it with fail,
which shows that the property depends on that piece of code.

### CircuitBreaker

`AllowRequest` is three steps: the load of `state_` (a closed breaker admits at once),
`ReadClock`, and the critical section, which is one of `RefusedOpen`, `EnterHalfOpen`
and `AskForSlot`. `OnSuccess` and `OnFailure` are single steps under the lock, by the
phase they find. A caller that was admitted reports once; callers in `Unreliable` may
die instead (`Die`). `probes` and `stale` are history variables: the callers admitted in
the current half-open period that have not reported, and the reports in this
period from callers admitted before it. Thresholds are normalised as the constructor
does; a zero option becomes one. `opened_at_` is initially 0; the code
default-constructs the time point, and no step reads it before the first trip
sets it.

### IoContextPool and App

A thread is a number: 0 runs `App::Run()` and then destroys the App, `1..N` are the
workers, the others are outside. `Run()` is `RunEnter`, `ResetStopped`,
`ResetRequested`, `ArmSignals` (POSIX), `RunStartPool`, `RunSpawn` per worker,
`StartServer` per server, `WaitStopped`/`SpuriousWake`, `Deregister`. `Stop()` is
`Exchange` (reached by `OutsideStop`, `SignalHandler`, `ConsoleCtrlHandler` +
`StopEnter`, or the destructor), `Unregister`, `StopServer` per server, `StopPool`
(the pool's `PoolStop`, `StopContexts`, `Join` per worker, `Clear`), `SetStopped`,
`Notify`. `join()` of the executing thread throws, and so does destroying a joinable
`std::thread` end the process: both set `terminated`, after which nothing moves.
Destruction continues through `~IoContextPool`, which stops the pool a second time. A
use of the App after its destruction is undefined behaviour; the model lets the
late thread run on, and `StopCompletes` is what says that there is none. Servers are only
their `running_` flag here; `HttpServer` has the rest.

`AppContract` has no flags, locks or loops: a phase, the workers that run their context and
the servers that run. `App` maps to it by `Phase` (where `Run()` is, and while it waits the two
flags of `Stop()`), `Busy` and `Accepting`. The phases `"dying"` and `"dead"` are those of a
process in which a worker executes `Stop()` (finding 1).

### HttpServer, HttpSession, HttpClient

`HttpServer` names its specification `ServerSpec` (`ServerInit`, `ServerNext`) and the one of
`HttpClient` is `GetSpec`, as each is extended together with another module by its proofs.
In `HttpServer` an accept is `pending`, then its completion is in `queue`, then
the handler is at `accept`, about to call `DoAccept()`: `Stop()` (three steps:
the flag, `cancel`, `close`) can fall between any two of these. `bind`, `listen` and
the others are one step that may fail, and which then leaves the acceptor closed or open.

In `HttpSession` a request is its position in what the client sent, its keep-alive
flag and its trace header. The client may send ahead of the answers, shut down its sending
side between two requests or within one, or reset. `Fetch` brings any number of requests into
`buffer_` at once. The handler `OnRead` is three actions, as the router calls user code:
`OnRead` (up to `Handle()`), `RunMiddleware` until no middleware is open, and `Respond`.

`Router` keeps one call of `Handle()`: the shared `idx`, the stack of middlewares that
have been entered (each with the calls of `next()` that it will still make), and which
of them have called on. A middleware that calls `next()` is a middleware that lets the request
pass; one that does not has answered itself. `NextCalls` is {0, 1} in the run. With 2 in it,
`HandlerIsGuarded` fails: the second call continues where the first has ended, and passes by a
later middleware that has refused (hazard `router.cpp:38`).

`TraceContext` tells apart ids that are usable (a positive number), all zero, and ill-formed.
Random ids are numbers that nobody has drawn before; the client sends no header, a child
(`NewChild`) of the last context it was told, or that with a span of zeros.

In `HttpClient` (`GetInit`, `GetNext`, `GetSpec`) every operation is made of rounds (a connect tries endpoint after
endpoint, a read reads until the response is complete). A round is pending, then
queued with a result, then handled: the lambdas of `Get()` have no names in the code and
are called after what they handle (`ResolveHandler`, ..., `TimerHandler`). `cancel()` aborts only a pending round of the socket;
the resolver and a queued completion are out of its reach. These are properties of
asio and beast, which the code relies on; they are marked external in the map.

### Metrics

A request finds or creates the histogram of its path under `mu_`, observes, finds or
creates the counter of path and status under `mu_`, and increments (`Order` is this sequence). An exposition
holds `mu_` and reads one metric per step in any order, counters first; observations
and increments go on meanwhile, since they do not take `mu_`. `shown` is the last
exposition that was returned; `observed` is a ghost with every latency in order.

### LoadGen

A session is the operation it waits for (`op`) and its result, the pending wait of `timer_`,
and the expired waits whose handlers are queued: `late` (`OnTimeout`) and `due`
(`OnReconnectTimer`). `timer_.cancel()` and a new `expires_after` reach a pending wait, not a queued
handler, so `OnTimeout` may run in any later state of its session, where it closes
whatever socket is open. An operation on a closed socket fails; `StreamExpires` is the deadline
of the stream, which `OnResolve` sets once. `past` says whether the clock has reached
`stop_at_ns`. `EndSleep` and `StopContext` leave the sessions as they are - that is
what `io_context::stop()` does - and `StartMeasured` starts the second set beside them.
`seen` is a ghost that counts each latency. `Percentile` is the set of what
`ApproxPercentileUs` may print. It truncates `(long double)(ok - 1) * p` (`:110`), and the doubles
0.99 and 0.999 lie just below the decimals: where the product should be whole, the rank is one less on a platform
with a wide `long double` (98 of 101 answers) and exact where `long double` is `double`. `Ranks` has both.
A comment calls the value that is printed for a bucket its upper bound (`:115`); it is the
lower one (section 6), and `PercentilesWithinBucket` says how near it is.

### KvService

A client has one request under way and may send the next when it has taken the answer. `Begin` lets at most
`Threads` handlers run. The program runs its server on one context and so on one thread; the
store is written for more, and the run has two. `Size()` is one step per shard. The n-th value
put under a key is the number n, which makes "at least as new as" a comparison of numbers.
/health, /compute and /metrics do not touch the store.

### RetryPolicy and Governance

`BackoffBeforeAttempt(o, attempt)` is the set of what the function can return for the options
`o`: the exponential converted to `long long` (with both ends for what does not fit), limited, scaled
by any jitter, truncated and converted again, and clamped. The options are any numbers, negative
durations included, since the constructor takes them as they are. A product that should be whole may be
rounded to just below, as 10 * (1.0 - 0.9) is, and then loses one (`Shortest`). `Governance` has the
callers for which the headers are written - wait, `Resolve`, `Pick`, call, again - since no code of
the repository combines these parts; each has a policy, and their number of attempts is theirs. The
list that a caller picks from is its copy; `Set` may have replaced it.

## 3. The runs

| Run | Asks | Bounds, and why they are enough |
|---|---|---|
| `breaker` | safety, refinement and liveness of the breaker | 3 callers (one asks, one reports late, one trips or recovers the breaker), two of which may die; 2 half-open slots, so that the limit is reached and exceeded and none, one or both of the slots are lost; thresholds 2 and 2, interval 2, clock up to 4 so that the breaker can trip, wait out the interval, trip again in the half-open period and wait again. Zero options, which the constructor turns into one, are left to the theorems |
| `app_stop` | stopping the App, on both platforms, however it is stopped | 2 contexts, 2 outside threads, 2 servers, one `Run()`: two concurrent stoppers, a signal and the destructor; a worker that joins itself has another worker before or after it |
| `server_accept` | the accept loop under `Start()`, `Stop()` and failures | 2 threads, 3 starts, 3 accepts: a stop and restart during an aborted handler, twice |
| `session_pipeline` | pipelining, routing and tracing, and the end of a connection | 3 requests with any mix of keep-alive and close, found and not found, with three kinds of trace header: one answered, one handled and one buffered at a time; 2 middlewares, the first and the last |
| `client_get` | one `Get()` | 3 endpoints and 3 reads: a first, a middle and a last one; the deadline anywhere |
| `metrics_scrape` | concurrent updates and expositions | 2 threads, 3 requests, 2 expositions, one path, two statuses; latencies on a bound, between bounds and beyond the last; bounds given unsorted and one of them twice |
| `loadgen` | both phases of the load generator | 1 session per phase (sessions share only the histogram and the clock, and in the second phase there are two), 1 late timer handler, 3 answers per phase, so that the percentiles have different ranks; 3 buckets, a latency in the first and one beyond the last. `ManyAreSummarised`, an assumption of `MCLoadGen`, has every split of 101 answers between the two latencies, where the ranks are whole |
| `kv_service` | what clients see of the store | 3 clients, 2 handlers at a time, 3 keys in 2 shards, 5 requests: a put that is overtaken, a size that is read while two puts go on |
| `governance` | rotation and waits | 2 callers, 2 services, lists of length 0, 2 and 3 with two changes, a `long long` of 4 bits (7 is the largest): a policy whose exponential overflows in the third attempt, one whose jitter does and exceeds its range, one with a negative maximum and one with a negative base; a cursor that wraps after 5 |

Three more runs each check one sentence of a comment or header against the code, and
TLC finds a counterexample (section 6).

The deadlock check is off for `App`, `HttpServer`, `HttpSession`, `LoadGen`, `KvService` and
`Governance`: an App
that nobody stops waits for ever, a destroyed or terminated one makes no step, an idle server and a closed
session have nothing to do, and the others end when their clients, callers or phases do. In `CircuitBreaker` the callers always have a next step;
in `HttpClient` and `Metrics` the regular ends (`Done`, `Quiet`) are explicit, so a
deadlock would be reported.

### What the properties say

* Breaker: `NoSlotLeak`, `OvershootIsStaleReports` (together: how far
  `half_open_inflight_` and the number of probes really under way can be apart, in both
  directions), `ThresholdsActedOn`, `ImplementsContract` (refinement), `OpenEnds`, and
  `HalfOpenResolves`: a half-open period ends unless callers have died with all of its slots.
* App: `OneStopper` (in one `Run()`, from its resets on), `WorkersJoined`, `ServingWorkersRun`, `OnlySelfJoinTerminates` (the
  one way to `std::terminate` is the one of finding 1), `ImplementsContract` (refinement: up in
  the order workers, servers, serving, down in the order servers, workers, `Run()`, and
  no phase comes back), `StopEndsRun` (no lost wake-up).
* Server: `AcceptLoopAlive`, `StoppedIsClosed`, `StopEndsLoop`. It is possible that two
  accept loops run after a stop followed at once by a start, and `TypeOK` bounds their number.
* Session: `AnswersInOrder` (no request is lost or in two places either),
  `NoAnswerAfterClose`, `HandlerIsGuarded`, `TraceEchoed`, `PipelineIsServed`, `SessionEnds`.
* Client: `ErrorEndsChain`, `DeadlineUnblocks`, `GetReturns`. What `Get()` returns is
  finding 2.
* Metrics: `CountersAddUp`, `CountersBehindHistograms` (needs the server's order of the two
  updates), `BucketsCountObservations`, `ScrapesMonotone`.
* Load generator: `TypeOK` (a session is continued by exactly one thing, and a cancelled deadline
  is never the pause of a reconnect), `LoadSustained`, `RequestsEnd`, `PercentilesWithinBucket`.
* KV: `ReadsAreFresh` and `SizeWasReal`, both from the clients' side: what is visible is
  compared with what had been answered when the request was sent.
* Retry and load balancer: `RotationCovers` (any n picks of a service in a row from lists of
  length n are distinct, as long as the cursor does not wrap), `BackoffInRange` (no wait is
  negative or longer than `max_backoff`, whatever overflows; without an overflow it is within the
  jitter of what is due).

### Fairness

* Threads that can run are run (weak fairness of each thread's steps): the operating
  system's scheduler. In `App`, nobody is obliged to call `Stop()`, no
  signal has to arrive, and spurious wake-ups are not counted on.
* Handlers whose completion is queued are run by the context's thread
  (`HttpServer`, `HttpSession`, `HttpClient`).
* `HttpClient`: the timer expires. The peer need not answer; `GetReturns` has the
  assumption that every operation completes as an explicit premise.
* `CircuitBreaker`: time passes, a caller takes its next step and asks again
  after a request - without traffic the breaker stays open, as nothing in the code wakes it up. An
  admitted caller reports, unless it dies; `HalfOpenResolves` excepts only that all slots of
  the period are lost in this way.
* `LoadGen`: queued handlers are run, `timer_` expires, a connect that hangs is ended by the
  stream's deadline, and `main()` starts the measured phase after the warm-up. The server need not answer;
  a phase need not end.
* `Metrics`, `KvService` and `Governance` have no liveness property.

## 4. What is proved

### The circuit breaker

`CircuitBreakerProofs`, for any finite set of callers, any natural options (zero
included), any integer interval, any bound on the clock:

| Theorem | States |
|---|---|
| `TypeCorrect` | `Spec => []TypeOK`; the counters never pass their thresholds, so 32 bits suffice |
| `SlotsDoNotLeak` | `Spec => []NoSlotLeak` |
| `OvershootBounded` | `Spec => []OvershootIsStaleReports` |
| `ThresholdsRespected` | `Spec => []ThresholdsActedOn` |
| `RefinesContract` | `Spec => Contract!Spec` |

The argument. None of the properties is inductive. `IInv` joins them with three
facts about history: `ProbesAreInside` (probes are admitted callers that have not
reported, and there are none outside a half-open period), `ProbesCounted`
(probes are at most the slots taken plus stale reports - the form of the
overshoot bound that survives a step, since the code compares `half_open_inflight_`
and not the probes with the limit), and `StampsArePast` (no time stamp is from the
future; the refinement needs it, because the clock is read before the lock and `opened_at_`
may be set in between, yet a stamp that passes the interval test implies that the real
clock passes it). `NoSlotLeak` and `ProbesCounted` bound
`half_open_inflight_` from both sides. `InitInv` and `CallerStepInv` (one case per
action) establish `IInv`; each theorem follows from it. The refinement maps `inside` to the
callers at `calling` or `dead`; every step of the code is a step of the
contract or a stutter.

Assumptions: `OptionsAssumption` and `CallersAssumption` of module
`CircuitBreaker`, which TLC also evaluates. The lemmas on cardinalities rest on the library's
`FiniteSetTheorems`.

### The App and its pool

`AppProofs`, for any number of contexts, servers and outside threads, either platform, with or
without signals:

| Theorem | States |
|---|---|
| `TypeCorrect` | `Spec => []TypeOK` |
| `StopsOnce` | `Spec => []OneStopper` |
| `JoinsAll` | `Spec => []WorkersJoined` |
| `TerminatesBySelfJoinOnly` | `Spec => []OnlySelfJoinTerminates` |
| `ContextsServed` | `Spec => []ServingWorkersRun` |
| `AppImplementsContract` | `Spec => ImplementsContract` |

The first five have the assumption `StopAfterStart`: `Run()` is called at most once, and outside
threads stop the App when its pool has started, which is while `Run()` starts the servers, waits
or leaves. A stop that comes earlier makes `OnlySelfJoinTerminates` and `WorkersJoined`
false, and a second `Run()` makes `ServingWorkersRun` false (both in section 6). The last has
`StopOnlyWhileWaiting`: outside threads also leave `Run()` time to start the
servers; otherwise a server that is started after the loop of `Stop()` passed it goes on
running, and the contract is not implemented. The signal and the destructor are not restricted.

The argument. The exchange on `stop_requested_` admits one thread to the body of
`Stop()` (`Admitted`), and that is only useful together with where everybody else is:
`Places` says which labels a worker, the main thread and an outside thread can have, and
`Window` what the main thread may be doing while another stops. The state of the
pool is a function of how far the stopper is. `Idle` describes the phases in which
nobody works on the pool (before `Start()`, and after the stop: `PoolIdle`), `InUse` the
others: while `Run()` spawns, `workers_` is `<<1, ..., n>>`, all joinable (`Spawned`);
in the join loop, the threads before the position are joined and have ended and those
from it on are still joinable (`JoinedUpTo`). A worker that is the stopper never gets
past itself in the loop, as its own join ends the process; hence a stopper that
reaches `Clear` is an outside thread, and has joined all N (the destructor finds the pool
stopped, or never started).
`EndedBecauseStopped` says that a worker leaves `run()` only after its context
was stopped. `RunInv`, `SpawnInv`, ... `LastInv` establish these parts, one lemma per group
of actions.

`ServersInv` follows the servers in the same way: while the stopper is in its
loop, those before its position are stopped, after it all are, and no thread starts one
again, since `Run()` waits by then (`OnlyWaiting`).

For the refinement, `UpInv` says what each phase means for the servers: those that `Run()` has
passed run, unless a worker executes `Stop()`, none runs before `"servers"` or after the
wait, and before the wait only a worker can have requested a stop. Each action then is one of the contract
or a stutter, one lemma per group again (`RunLife`, `SpawnLife`, `ServeLife`, `WaitLife`,
`DestructorLife`, `WorkerStopLife`, `OutsideLife`, `SignalLife`, `ReturnLife`). Two cases carry the
weight. A worker's `run()` returns only when its context was stopped, hence an outside
thread is in the second half of `Stop()`, hence all servers are down: that is the contract's
`EndWorker`. And `stopped_` is set only when the pool is idle and the servers are down:
that is `Stopped`, and `Run()` leaves its wait on nothing else. A worker that executes
`Stop()` may pass servers that `Run()` has not started yet, and it never finishes; the contract
allows such a process nothing but to die.

### The server

`HttpServerProofs`, for any set of calling threads and any number of starts and accepts,
under the assumption `~StopDuringStart` (section 5):

| Theorem | States |
|---|---|
| `TypeCorrect` | `ServerSpec => []TypeOK`: never more accept loops than calls of `Start()` |
| `KeepsAccepting` | `ServerSpec => []AcceptLoopAlive` |
| `StopCloses` | `ServerSpec => []StoppedIsClosed` |

An accept loop is a pending accept, a queued completion or the handler; `LoopsCounted` says
that a `Start()` under way has not used up its own, `LoopCarried` that a listening
acceptor has one, or a call under way that starts one or closes it, `BeingClosed` that an
acceptor that is open on a server that does not run has a thread in `Stop()` that will close it.

### The session

`HttpServerProofs` too, for any number of requests and middlewares and every mix of keep-alive,
routes and trace headers:

| Theorem | States |
|---|---|
| `InOrder` | `Spec => []AnswersInOrder` |
| `ClosesForGood` | `Spec => []NoAnswerAfterClose` |
| `TracesEchoed` | `Spec => []TraceEchoed` |
| `GuardedHandler` | `NextCalls \subseteq {0, 1}` implies `Spec => []HandlerIsGuarded` |

Three inductive invariants, one per question. `OrderInv`: what the client has received, what
is on its way, the request that is handled, the buffer and what is still on the network are
one sequence without a gap until the client resets the connection (`NoGap`), and a session that is open has answered only requests that
keep the connection alive (`OpenKeepsAlive`). `TraceInv` ties the trace of the request under
way and of every answer to the header that came with it. `ChainInv` describes the stack of
the router: the middlewares that are open are `0, 1, ..., idx - 1`, innermost first, and all but
the innermost are in their one call of `next()`. That is where the assumption is needed: with
a second call of `next()` the property is false (hazard `router.cpp:38`).

### The clients

`ClientProofs` has the two HTTP clients of the repository. For any number of endpoints and
reads, `ErrorsEndChain` (`GetSpec => []ErrorEndsChain`) of `Get()`; the invariant (`GetInv`) adds
that a complete response has no operation left.

For any number of sessions of the load generator, latencies and buckets, `SessionsContinued`
(`Spec => []TypeOK`) and `LoadIsSustained` (`Spec => []LoadSustained`). The invariant
(`LoadInv`) is on single sessions: a session that is handed to `DoRequest` or `ReconnectSoon` is `Busy`, it has no
wait pending and no reconnect queued, and it `GoesOn`, which means that it ends only when
`ShouldStop` is true.

`PercentilesClose` (`Spec => []PercentilesWithinBucket`), for any number of buckets and any finite
set of latencies, and either rounding of the rank: the printed percentile is at most `t + 1` and more
than half of that, unless it is the last bucket's, for a latency `t` whose rank is that of the percentile to within
one answer (`IsRank`); and the summary counts the answers of the measured phase. `RankBelow` says of
each rank the code may take that there is such an answer.
`HistInv` says what the histogram knows: the buckets up to each one count
what was recorded there (`UpTo`), also after the reset between the
phases. A percentile is read off the first bucket up to which more than its rank are counted
(`PercentileBucket`), and that is the bucket of the latency with this rank (`RankedIn`),
whose bounds are a factor of two apart (`BucketBounds`). The provers know nothing of powers of
two; that each doubles the last, and so that they grow, is proved from the number of
subsets of an interval.

### The metrics

`MetricsProofs`, for any threads, paths, latencies and bounds and any finite set of statuses:

| Theorem | States |
|---|---|
| `CountersAdd` | `Spec => []CountersAddUp` |
| `CountersBehind` | `Spec => []CountersBehindHistograms` |
| `BucketsExact` | `Spec => []BucketsCountObservations` |
| `ExpositionsGrow` | `Spec => ScrapesMonotone`, an action property |

`Balanced` is the heart: a path's histogram is ahead of its counters by exactly the number of
requests between `Observe()` and `Inc()` (`Uncounted`). `Entered` says that what a request has
found is still in the map when it updates it, `Locked` that one exposition is written at a
time. Of an exposition, the unfinished one included, the invariant says that it is behind
the metrics and its counters behind its histograms (`Consistent`), and that it is not behind the
last one (`NotBack`). A histogram that is read is ahead of all the counters that were read
before, as `Balanced` holds now and counters only grow; this is where the server's order of the
two updates enters.

`BucketsExact`, for any bounds, in any order and with repetitions, first needs that they can be
sorted: `buckets_` is the sorted one among their rearrangements, and that there is one is shown
by inserting one bound after the other (`Insertion`). `BucketInv` then says of every histogram
that its buckets up to each bound count the observations up to that bound, and its count all of
them (`Describes`); of one that was read into an exposition it says so for the first
observations of its path, those that had been made when it was read (`Exact`).

What a sum over a finite set is, that it grows with each of its terms and with the set, and by one with one
of the terms, is proved in `Sums` without induction, from the
well-foundedness of strict inclusion: a finite set for which it fails would have a smallest
subset for which it does (`SmallestSubset`).

### Retry and load balancing

`GovernanceProofs`, for any callers, services, lists and options:

| Theorem | States |
|---|---|
| `Rotation` | `Spec => []RotationCovers` |
| `BackoffHolds` | `Spec => []BackoffInRange` |

`Rotation` rests on `Paced`: the cursor is never further ahead of a pick than the number of
picks made since, whether it wraps around or not; picks closer than `n` whose cursors grow have
different remainders modulo `n`. `BackoffHolds` has no hypothesis on the options. Its property has
two parts: the range of a wait, which the clamp gives whatever the conversions make of a value out of
range, and its distance from the exponential, which is claimed where neither conversion is out of
range. Beyond that (a `max_backoff` of about half of `long long`, or an attempt past some sixty) a wait may be zero
instead of `max_backoff`.

### The KV store

`KvServiceProofs`, for any clients, shards and handler threads, any finite set of keys and any
assignment of keys to shards: `ReadsFresh` (`Spec => []ReadsAreFresh`) and `SizesReal`
(`Spec => []SizeWasReal`). For the first the invariant adds
`FloorsStored`: no value in the table is older than the latest acknowledged one, than the
floor of a get under way or than the result of a put. `Inductive` rewrites it as a statement about the
table and one about each call, so that `OnlyTheCall` and `OneCall` leave, for each action, the call it
changes; `StoreNewer` says that `Put` makes one value newer and no value older. For the second,
`SizeInv` bounds what `Size()` has counted so far (`Counted`), over the shards it has passed
(`Before`): no fewer than the keys acknowledged when the call began, no more than those stored now.

### Assumptions

The theorems rest on the `ASSUME`s of the modules, which TLC evaluates on every run, and on the
hypotheses named above. `MetricsAssumption` asks for finitely many threads and statuses, as
there are in any execution, `LoadGenAssumption` for finitely many latencies (they are 64-bit
numbers); `GovernanceAssumption` for lists that are sequences.

### Only model-checked

The liveness properties, as liveness under fairness is out of this prover's reach. No module
declares a RECURSIVE operator: what the code computes in loops is a step per round, a
function defined by a closed formula, or `SumFunctionOnSet`.

## 5. What is not modelled, and limits of the models

* Logging is not modelled: it is one pointer and a `call_once`, and the logger is the chlog
  submodule. Its race (`log.cpp:42`) is a hazard without a property. Configuration is a
  sequential wrapper over the chjson submodule; Status is a value type; the hello
  example is command line and routes.
* `HttpSession` leaves out path and query parsing and the headers that handlers set (a middleware
  could replace `traceparent`). Routes are not a table: a request is found or not. `Use()` and
  `AddRoute()` come before serving, as `router.h` demands.
* `Metrics` leaves out gauges (nothing in the repository sets one), label escaping, and the
  rounding of doubles (latencies are integers in the unit of the bounds).
* `RetryPolicy` has integer durations: beyond 2^53 milliseconds, where a double no longer holds every
  integer, the distance from the exponential is that of the rounded numbers.
* `TraceContext` takes random ids to be new; the generator is seeded with 32 bits per id, and
  how likely a collision is is not a question for a model checker.
* `LoadGen` gives the handlers of one session an order. With several threads, which is the
  default, they may overlap, since there is no strand: `OnTimeout` and a handler of the stream then
  use the socket at the same time, which is undefined. `Ranks` is right for the four percentiles
  that `main()` asks for, up to some 10^12 answers; beyond that a product that is not whole may be rounded to
  one that is. `bytes_`, the command line and the printing
  are left out.
* `KvService` leaves out the request-id middleware.
* `App`: in `app_stop` outside threads stop only while `Run()` waits (`StopWindow`). Earlier
  stops are in section 6. With a window that includes the start of the servers,
  `ImplementsContract` fails too: a server that is started after `Stop()`'s loop passed it stays
  running. No text of the repository says what should happen then, so it is a hazard and not a finding.
* One App: `Stop()` clears `g_app` whoever is registered, which matters with two.
* `HttpServer`: `StopDuringStart` is FALSE in the run. With TRUE, `StoppedIsClosed`
  fails, since `Start()` opens an acceptor that `Stop()` has already closed. The acceptor is not
  thread-safe, so this overlap is a misuse.
* A client that stays silent keeps its session for ever: the session has no timeout,
  and the model says so by not requiring the client to close.

## 6. Findings

Each of these has a run that TLC ends with a counterexample.

1. `app_signal` - "POSIX: stop the app on Ctrl+C / SIGTERM." (`app.cpp:118`): the signal
   handler runs on a worker, `Stop()` joins all workers, the worker joins itself, and the
   process ends in `std::terminate`.
2. `client_answer` - "http client timeout" (`http_client.cpp:76`): the deadline timer is not
   cancelled when the response is complete; `run()` waits for it, and its handler sets
   `timed_out`, so a response that came in time is reported as a timeout.
3. `loadgen_warmup` - "Stop warmup sessions by letting them see stop_at."
   (`http_loadgen.cpp:380`): `ioc.stop()` follows the sleep at once, so that sessions which have
   not looked at the clock since stay in the context; `restart()` and the new `stop_at_ns` let them run on
   in the measured phase, where they are counted and double the concurrency.

These are refuted as well when their property is added to a configuration, and have no
run of their own:

* `StopIsHeard` of `App`, with `FairSpec` and `StopWindow <- WholeRun` ("Blocking until Stop() or
  ctrl-c", `app.h:39`): `Run()` registers the App and resets the flags after that; a `Stop()` in between
  is erased, and `Run()` waits for ever.
* `NoTerminate` of `App` with `StopWindow <- WholeRun` on Windows (the same sentence): a `Stop()` that comes while
  `IoContextPool::Start()` creates the workers joins those in the vector when its loop begins and
  clears the vector with the later ones, which is `std::terminate`. Ctrl-c alone suffices, since the console
  handler is registered before `io_.Start()`. (That two threads use the vector at all is a data
  race; the model shows what goes wrong even if every access is atomic.)
* `StopCompletes` of `App` ("Block until Stop() completes.", `app.cpp:132`): `Run()` returns on
  `stopped_`, which is set before `notify_all()`; the App may be destroyed under the stopper.
* `PercentileIsUpperBound` of `LoadGen` ("Approx upper bound of this bucket: 2^i us",
  `http_loadgen.cpp:115`), with `kBuckets = 4` and the latencies 1 and 6: a latency `v` is counted in bucket `i` if
  `2^i <= v + 1 < 2^(i+1)`, so 2^i is the lower end, and 6 us are printed as 4.
* `ServingWorkersRun` of `App` with `MaxRuns = 2`: `Run()` resets its flags to be called again, but
  the contexts stay stopped: in the second run every worker returns at once.
* `SlotsTakenOnlyHalfOpen` of `CircuitBreaker` (the comment "half-open", `circuit_breaker.cpp:48`,
  above the slot check): the code under it also runs on a breaker that has closed since the
  unlocked load; a caller takes a slot in the closed state and can be refused there.

## 7. Plan

Done, in this order: breaker (contract, model, proofs), pool and App, client,
server, session, metrics, the proofs about client, server and App; then the router and the trace
context inside the session, the load generator, the KV service, and retry with discovery
and load balancing; then the proofs about session, metrics, load generator, governance and the rest
of `App` and `KvService`; then `BucketsExact` and `PercentilesClose` with the lemmas on sums,
and the contract of the App with its refinement. Next:

1. An abstract specification of an exposition (a snapshot per metric, taken in one order) that
   `Metrics` implements.
2. `App` with several calls of `Run()` on a pool that can be restarted, should the code come to
   support them; the proofs assume one.
3. Models: `Logging` (the race of `Init` and `Get` on `g_logger`), a second App for `g_app`,
   query parsing as a function against a reference definition.

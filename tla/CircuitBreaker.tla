--------------------------- MODULE CircuitBreaker ---------------------------
(***************************************************************************)
(* chmicro::resilience::CircuitBreaker                                     *)
(* (src/src/resilience/circuit_breaker.cpp).                               *)
(*                                                                         *)
(* Callers are threads that ask AllowRequest() and, when they are let in,  *)
(* report once with OnSuccess() or OnFailure().  AllowRequest() is three   *)
(* steps: the load of the atomic state_ outside the lock, the read of the  *)
(* steady clock outside the lock, and the critical section.  OnSuccess(),  *)
(* OnFailure() and the critical section of AllowRequest() run under mu_    *)
(* and are one step each: all a thread sees of them without the lock is    *)
(* the single store of state_.                                             *)
(*                                                                         *)
(* probes and stale are history variables: the code does not keep them.    *)
(***************************************************************************)
EXTENDS Integers, FiniteSets

CONSTANTS
    Callers,                        \* the threads that use the breaker
    Unreliable,                     \* the callers that may die before they report
    consecutive_failures_to_open,   \* CircuitBreakerOptions, as the user gives it
    open_interval,
    half_open_max_inflight,
    consecutive_successes_to_close,
    MaxTime                         \* bound: the last time the clock shows

ASSUME OptionsAssumption ==
    /\ consecutive_failures_to_open \in Nat
    /\ half_open_max_inflight \in Nat
    /\ consecutive_successes_to_close \in Nat
    /\ open_interval \in Int
    /\ MaxTime \in Nat

ASSUME CallersAssumption == IsFiniteSet(Callers) /\ Unreliable \subseteq Callers

VARIABLES
    state_,                  \* atomic: read without the lock
    consecutive_failures_,
    consecutive_successes_,
    opened_at_,
    half_open_inflight_,
    clock,                   \* steady_clock::now()
    pc,                      \* where each caller is
    now,                     \* the time stamp each caller took before locking mu_
    probes,                  \* history: callers admitted in this half-open period
                             \* that have not reported in it
    stale                    \* history: reports made in this half-open period by
                             \* callers that were admitted before it

breaker == <<state_, consecutive_failures_, consecutive_successes_,
             opened_at_, half_open_inflight_>>
vars == <<breaker, clock, pc, now, probes, stale>>

\* The constructor turns a zero option into one.
AtLeastOne(n) == IF n = 0 THEN 1 ELSE n
FailuresToOpen   == AtLeastOne(consecutive_failures_to_open)
MaxInflight      == AtLeastOne(half_open_max_inflight)
SuccessesToClose == AtLeastOne(consecutive_successes_to_close)

Init ==
    /\ state_ = "closed"
    /\ consecutive_failures_ = 0
    /\ consecutive_successes_ = 0
    /\ opened_at_ = 0
    /\ half_open_inflight_ = 0
    /\ clock = 0
    /\ pc = [c \in Callers |-> "idle"]
    /\ now = [c \in Callers |-> 0]
    /\ probes = {}
    /\ stale = 0

Goto(c, label) == pc' = [pc EXCEPT ![c] = label]

-----------------------------------------------------------------------------
(* AllowRequest() *)

\* The load outside the lock.  A closed breaker admits at once.
AllowRequest(c) ==
    /\ pc[c] = "idle"
    /\ Goto(c, IF state_ = "closed" THEN "calling" ELSE "clock")
    /\ UNCHANGED <<breaker, clock, now, probes, stale>>

\* The time stamp is taken before the lock, so it may be old when it is used.
ReadClock(c) ==
    /\ pc[c] = "clock"
    /\ now' = [now EXCEPT ![c] = clock]
    /\ Goto(c, "lock")
    /\ UNCHANGED <<breaker, clock, probes, stale>>

IntervalElapsed_Early(c) == now[c] - opened_at_ >= open_interval - 1
IntervalElapsed_Late(c) == now[c] - opened_at_ > open_interval
IntervalElapsed(c) == now[c] - opened_at_ >= open_interval

TakeSlot_OffByOne(c, inflight) ==
    IF inflight > MaxInflight
    THEN half_open_inflight_' = inflight /\ Goto(c, "idle")
    ELSE half_open_inflight_' = inflight + 1 /\ Goto(c, "calling")
TakeSlot_Uncounted(c, inflight) ==
    IF inflight >= MaxInflight
    THEN half_open_inflight_' = inflight /\ Goto(c, "idle")
    ELSE half_open_inflight_' = inflight /\ Goto(c, "calling")
\* The end of the critical section: refuse, or count one more and admit.
TakeSlot(c, inflight) ==
    IF inflight >= MaxInflight
    THEN half_open_inflight_' = inflight /\ Goto(c, "idle")
    ELSE half_open_inflight_' = inflight + 1 /\ Goto(c, "calling")

RefusedOpen(c) ==
    /\ pc[c] = "lock"
    /\ state_ = "open" /\ ~IntervalElapsed(c)
    /\ Goto(c, "idle")
    /\ UNCHANGED <<breaker, clock, now, probes, stale>>

EnterHalfOpen_KeepsInflight(c) ==
    /\ pc[c] = "lock"
    /\ state_ = "open" /\ IntervalElapsed(c)
    /\ state_' = "half_open"
    /\ consecutive_failures_' = 0
    /\ consecutive_successes_' = 0
    /\ TakeSlot(c, half_open_inflight_)
    /\ probes' = IF half_open_inflight_ < MaxInflight THEN {c} ELSE {}
    /\ stale' = 0
    /\ UNCHANGED <<opened_at_, clock, now>>
\* TryTransitionToHalfOpenLocked() succeeds, then the caller asks for a slot.
EnterHalfOpen(c) ==
    /\ pc[c] = "lock"
    /\ state_ = "open" /\ IntervalElapsed(c)
    /\ state_' = "half_open"
    /\ consecutive_failures_' = 0
    /\ consecutive_successes_' = 0
    /\ TakeSlot(c, 0)
    /\ probes' = {c}
    /\ stale' = 0
    /\ UNCHANGED <<opened_at_, clock, now>>

\* state_ was not closed when it was loaded, but is half-open or closed now:
\* both take a half-open slot.
AskForSlot(c) ==
    /\ pc[c] = "lock"
    /\ state_ # "open"
    /\ TakeSlot(c, half_open_inflight_)
    /\ probes' = IF state_ = "half_open" /\ half_open_inflight_ < MaxInflight
                 THEN probes \cup {c} ELSE probes
    /\ UNCHANGED <<state_, consecutive_failures_, consecutive_successes_,
                   opened_at_, clock, now, stale>>

-----------------------------------------------------------------------------
(* OnSuccess() and OnFailure(), called once by every caller that was let in *)

\* A report made in a half-open period that goes on.
CreditReport(c) ==
    /\ probes' = probes \ {c}
    /\ stale' = IF c \in probes THEN stale ELSE stale + 1

\* The history of a half-open period ends with the period.
ForgetPeriod == probes' = {} /\ stale' = 0

ReleaseSlot_Kept == half_open_inflight_
ReleaseSlot == IF half_open_inflight_ > 0 THEN half_open_inflight_ - 1 ELSE 0

SuccessClosed(c) ==
    /\ state_ = "closed"
    /\ consecutive_failures_' = 0
    /\ UNCHANGED <<state_, consecutive_successes_, opened_at_,
                   half_open_inflight_, probes, stale>>

SuccessHalfOpen(c) ==
    /\ state_ = "half_open"
    /\ IF consecutive_successes_ + 1 >= SuccessesToClose
       THEN /\ state_' = "closed"
            /\ consecutive_failures_' = 0
            /\ consecutive_successes_' = 0
            /\ half_open_inflight_' = 0
            /\ ForgetPeriod
       ELSE /\ half_open_inflight_' = ReleaseSlot
            /\ consecutive_successes_' = consecutive_successes_ + 1
            /\ CreditReport(c)
            /\ UNCHANGED <<state_, consecutive_failures_>>
    /\ UNCHANGED opened_at_

\* Both callbacks ignore a report made while the breaker is open.
ReportOpen(c) ==
    /\ state_ = "open"
    /\ UNCHANGED <<breaker, probes, stale>>

OnSuccess(c) ==
    /\ pc[c] = "calling"
    /\ SuccessClosed(c) \/ SuccessHalfOpen(c) \/ ReportOpen(c)
    /\ Goto(c, "idle")
    /\ UNCHANGED <<clock, now>>

TripsOn_OneTooMany(failures) == failures > FailuresToOpen
TripsOn(failures) == failures >= FailuresToOpen

FailureClosed(c) ==
    /\ state_ = "closed"
    /\ consecutive_failures_' = consecutive_failures_ + 1
    /\ IF TripsOn(consecutive_failures_ + 1)
       THEN /\ state_' = "open"
            /\ opened_at_' = clock
            /\ consecutive_successes_' = 0
       ELSE UNCHANGED <<state_, opened_at_, consecutive_successes_>>
    /\ UNCHANGED <<half_open_inflight_, probes, stale>>

\* Any failure while half-open opens the breaker again and restarts the interval.
FailureHalfOpen(c) ==
    /\ state_ = "half_open"
    /\ state_' = "open"
    /\ opened_at_' = clock
    /\ consecutive_failures_' = 0
    /\ consecutive_successes_' = 0
    /\ half_open_inflight_' = 0
    /\ ForgetPeriod

OnFailure(c) ==
    /\ pc[c] = "calling"
    /\ FailureClosed(c) \/ FailureHalfOpen(c) \/ ReportOpen(c)
    /\ Goto(c, "idle")
    /\ UNCHANGED <<clock, now>>

-----------------------------------------------------------------------------
(* The environment *)

\* A caller dies between AllowRequest() and its report: the breaker never hears.
Die(c) ==
    /\ c \in Unreliable
    /\ pc[c] = "calling"
    /\ Goto(c, "dead")
    /\ UNCHANGED <<breaker, clock, now, probes, stale>>

Tick ==
    /\ clock < MaxTime
    /\ clock' = clock + 1
    /\ UNCHANGED <<breaker, pc, now, probes, stale>>

CallerStep(c) ==
    \/ AllowRequest(c)
    \/ ReadClock(c)
    \/ RefusedOpen(c)
    \/ EnterHalfOpen(c)
    \/ AskForSlot(c)
    \/ OnSuccess(c)
    \/ OnFailure(c)

Next == Tick \/ \E c \in Callers : CallerStep(c) \/ Die(c)

Spec == Init /\ [][Next]_vars

\* Threads are scheduled, a request is followed by another, and time passes.
FairSpec == Spec /\ WF_vars(Tick) /\ \A c \in Callers : WF_vars(CallerStep(c))

-----------------------------------------------------------------------------
(* Properties *)

\* Every field keeps its type; the 32-bit counters stay within the configured
\* thresholds, so none of them ever wraps around.
TypeOK ==
    /\ state_ \in {"closed", "open", "half_open"}
    /\ consecutive_failures_ \in 0 .. FailuresToOpen
    /\ consecutive_successes_ \in 0 .. SuccessesToClose
    /\ opened_at_ \in Nat
    /\ half_open_inflight_ \in 0 .. MaxInflight
    /\ clock \in Nat
    /\ pc \in [Callers -> {"idle", "clock", "lock", "calling", "dead"}]
    /\ now \in [Callers -> Nat]
    /\ probes \in SUBSET Callers
    /\ stale \in Nat

\* No slot leaks: while the breaker is half-open, half_open_inflight_ counts
\* no more than the callers admitted in this very half-open period that have
\* not reported.  Late reports, the closed/half-open race in AllowRequest() and
\* callers from an earlier period may make it too small, never too large; in
\* particular it is zero, and a probe is admitted, when no probe is under way.
NoSlotLeak ==
    state_ = "half_open" => half_open_inflight_ <= Cardinality(probes)

\* How far half_open_max_inflight can be exceeded: the probes under way are at
\* most the configured number plus the reports that arrived in this half-open
\* period from callers admitted before it (each frees a slot it never took).
OvershootIsStaleReports ==
    state_ = "half_open" => Cardinality(probes) <= MaxInflight + stale

\* A threshold that is reached is acted on in the same step, by whichever
\* caller reaches it, and nothing counted before survives into the next phase.
ThresholdsActedOn ==
    /\ state_ = "closed" => consecutive_failures_ < FailuresToOpen
    /\ state_ = "half_open" => /\ consecutive_failures_ = 0
                               /\ consecutive_successes_ < SuccessesToClose

\* The parts of the inductive invariant behind the theorems: history names only
\* callers still inside, and nobody outside a half-open period; the overshoot is
\* counted by stale; no time stamp is from the future.
ProbesAreInside ==
    /\ \A c \in probes : pc[c] \in {"calling", "dead"}
    /\ state_ # "half_open" => probes = {}
ProbesCounted ==
    state_ = "half_open" => Cardinality(probes) <= half_open_inflight_ + stale
StampsArePast == \A c \in Callers : now[c] <= clock
IInv == /\ TypeOK
        /\ ThresholdsActedOn
        /\ ProbesAreInside
        /\ NoSlotLeak
        /\ ProbesCounted
        /\ StampsArePast

Contract == INSTANCE BreakerContract WITH
    Interval <- open_interval, phase <- state_, tripped_at <- opened_at_,
    time <- clock, inside <- {c \in Callers : pc[c] \in {"calling", "dead"}}

\* The breaker implements its contract: nobody is admitted while it is open, it
\* stays open for the whole interval measured on the real clock although the
\* time stamp is taken before the lock, and the caller that ends the open phase
\* is admitted.
ImplementsContract == Contract!Spec

\* A half-open period ends although callers die with their slots, as long as one slot is
\* left: an in-flight count that keeps a slot of anybody else would refuse every request
\* for ever.
HalfOpenResolves ==
    state_ = "half_open" ~>
        \/ state_ # "half_open"
        \/ Cardinality({c \in probes : pc[c] = "dead"}) >= MaxInflight

\* Once the interval has passed, the next requests end the open phase.
OpenEnds == (state_ = "open" /\ opened_at_ + open_interval <= MaxTime)
            ~> state_ # "open"

\* What the comment "half-open" before the slot check (circuit_breaker.cpp:48)
\* says: the code below it, which takes a slot, runs only while half-open.
\* (Refuted, and in no run: README, section 6.)
SlotsTakenOnlyHalfOpen ==
    [][half_open_inflight_' > half_open_inflight_ => state_' = "half_open"]_vars
=============================================================================

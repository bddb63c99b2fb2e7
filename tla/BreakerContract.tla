--------------------------- MODULE BreakerContract ---------------------------
(***************************************************************************)
(* What a circuit breaker promises its callers, without counters, locks or *)
(* captured time stamps.  A breaker is closed, open or half-open.  It lets *)
(* nobody in while it is open; it leaves the open phase only once the open *)
(* interval has really elapsed since it tripped, and the caller that ends  *)
(* the open phase is itself let in; it trips and recovers only because of  *)
(* a report of a caller that was let in.  module CircuitBreaker implements *)
(* this specification.                                                     *)
(***************************************************************************)
EXTENDS Integers

CONSTANTS Callers,    \* the threads that use the breaker
          Interval    \* how long it stays open after tripping

VARIABLES phase,      \* "closed", "open" or "half_open"
          tripped_at, \* the time of the last trip
          time,       \* the steady clock
          inside      \* the callers let in that have not reported yet

vars == <<phase, tripped_at, time, inside>>

Init ==
    /\ phase = "closed"
    /\ tripped_at \in Int
    /\ time = 0
    /\ inside = {}

Tick ==
    /\ time' > time
    /\ UNCHANGED <<phase, tripped_at, inside>>

Admit(c) ==
    /\ phase # "open"
    /\ inside' = inside \cup {c}
    /\ UNCHANGED <<phase, tripped_at, time>>

Probe(c) ==
    /\ phase = "open"
    /\ time - tripped_at >= Interval
    /\ phase' = "half_open"
    /\ inside' = inside \cup {c}
    /\ UNCHANGED <<tripped_at, time>>

\* A report leaves the phase alone, trips the breaker, or closes it again.
Report(c) ==
    /\ c \in inside
    /\ inside' = inside \ {c}
    /\ \/ UNCHANGED <<phase, tripped_at>>
       \/ phase # "open" /\ phase' = "open" /\ tripped_at' = time
       \/ phase = "half_open" /\ phase' = "closed" /\ UNCHANGED tripped_at
    /\ UNCHANGED time

Next ==
    \/ Tick
    \/ \E c \in Callers : Admit(c) \/ Probe(c) \/ Report(c)

Spec == Init /\ [][Next]_vars
=============================================================================

----------------------------- MODULE RetryPolicy -----------------------------
(***************************************************************************)
(* RetryPolicy (src/src/resilience/retry.cpp) as operators on its options  *)
(* o.  Durations are milliseconds, the jitter is counted in tenths, and    *)
(* long long is Long; a double outside of it converts to either end (the   *)
(* conversion is undefined: x86 gives the lower end, ARM the nearer one).  *)
(***************************************************************************)
EXTENDS Integers, FiniteSetsExt

CONSTANT LongMax   \* the largest long long

ASSUME RetryAssumption == LongMax \in Nat

Long == -LongMax - 1 .. LongMax

\* Any numbers: the constructor limits the attempts and the jitter, and takes negative
\* durations as they are.
RetryOptions == [max_attempts : Int, base_backoff : Long, max_backoff : Long, jitter_ratio : Int]

MaxAttempts(o) == Max({o.max_attempts, 1})
Jitter(o) == Max({0, Min({o.jitter_ratio, 10})})

Converted(x) == IF x \in Long THEN {x} ELSE {-LongMax - 1, LongMax}

Exponential(o, attempt) == o.base_backoff * 2 ^ (attempt - 2)

\* x * (1.0 + jitter) without its fraction, for any jitter.  With a jitter the product is
\* rounded, and one that should be whole may come out just below: 10 * (1.0 - 0.9) < 1.
Shortest(o, x) == IF Jitter(o) = 0 THEN x ELSE (x * (10 - Jitter(o)) - 1) \div 10
Longest(o, x) == (x * (10 + Jitter(o))) \div 10
Scaled(o, x) ==
    IF x >= 0 THEN Shortest(o, x) .. Longest(o, x) ELSE -Longest(o, -x) .. -Shortest(o, -x)

Jittered(o, attempt) ==
    LET raw == {Min({x, o.max_backoff}) : x \in Converted(Exponential(o, attempt))}
    IN  UNION {Converted(y) : y \in UNION {Scaled(o, x) : x \in raw}}

BackoffBeforeAttempt_Unclamped(o, attempt) ==
    IF attempt <= 1 THEN {0} ELSE {Max({0, x}) : x \in Jittered(o, attempt)}
\* Everything that BackoffBeforeAttempt can return.
BackoffBeforeAttempt(o, attempt) ==
    IF attempt <= 1 THEN {0} ELSE {Min({Max({0, x}), o.max_backoff}) : x \in Jittered(o, attempt)}
=============================================================================

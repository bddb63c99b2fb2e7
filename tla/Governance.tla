----------------------------- MODULE Governance -----------------------------
(***************************************************************************)
(* InMemoryServiceDiscovery and RoundRobinLoadBalancer                     *)
(* (src/src/governance), used by callers that follow a RetryPolicy: before *)
(* each attempt they wait, resolve the service and pick one of the         *)
(* endpoints they were given.                                              *)
(*                                                                         *)
(* Resolve() returns a copy of the list, so that a pick may be made from a *)
(* list that Set() has replaced, and by several callers from lists of      *)
(* different lengths.  Pick() is one critical section.  Set() must be      *)
(* synchronised with Resolve() by its callers (service_discovery.h:31) and *)
(* is one step.  No code in src/ combines these parts: the callers are     *)
(* those that their headers describe.                                      *)
(***************************************************************************)
EXTENDS Sequences, RetryPolicy

CONSTANTS
    Callers, Services,
    Policies,        \* the options of the policies that callers use
    EndpointLists,   \* lists that Set() is given, one may be empty
    CursorRange,     \* std::size_t holds 0 .. CursorRange - 1
    MaxSets          \* bound: calls of Set()

ASSUME GovernanceAssumption ==
    /\ Policies \subseteq RetryOptions
    /\ \A l \in EndpointLists : l \in Seq({l[i] : i \in DOMAIN l})
    /\ CursorRange \in Nat \ {0} /\ MaxSets \in Nat

VARIABLES
    table_,   \* per service: its endpoints, or Unknown
    rr_,      \* per service: the cursor
    caller,   \* per caller: where it is (at), its policy, service, attempt, the wait
              \* before it (waited) and the endpoints that Resolve() returned
    sets,     \* calls of Set() so far
    picks     \* ghost: per service, the picks made: cursor, size of the list, index

vars == <<table_, rr_, caller, sets, picks>>

Unknown == <<"unknown">>

Init ==
    /\ table_ = [s \in Services |-> Unknown]
    /\ rr_ = [s \in Services |-> 0]
    /\ caller \in [Callers -> [at : {"wait"}, policy : Policies, service : Services,
                               attempt : {1}, waited : {0}, endpoints : {<<>>}]]
    /\ sets = 0
    /\ picks = [s \in Services |-> <<>>]

Set(s) ==
    /\ sets < MaxSets
    /\ \E l \in EndpointLists : table_' = [table_ EXCEPT ![s] = l]
    /\ sets' = sets + 1
    /\ UNCHANGED <<rr_, caller, picks>>

-----------------------------------------------------------------------------
(* A caller *)

Wait(c) ==
    /\ caller[c].at = "wait"
    /\ \E ms \in BackoffBeforeAttempt(caller[c].policy, caller[c].attempt) :
         caller' = [caller EXCEPT ![c].at = "resolve", ![c].waited = ms]
    /\ UNCHANGED <<table_, rr_, sets, picks>>

\* The attempt has failed: the next one, if there is one left.
Failed(q) ==
    IF q.attempt < MaxAttempts(q.policy) THEN [q EXCEPT !.at = "wait", !.attempt = @ + 1]
    ELSE [q EXCEPT !.at = "done"]

Resolve(c) ==
    /\ caller[c].at = "resolve"
    /\ LET found == table_[caller[c].service] IN
       caller' = [caller EXCEPT ![c] =
           IF found = Unknown THEN Failed(@) ELSE [@ EXCEPT !.at = "pick", !.endpoints = found]]
    /\ UNCHANGED <<table_, rr_, sets, picks>>

NoEndpoints(c) ==
    /\ caller[c].at = "pick" /\ caller[c].endpoints = <<>>
    /\ caller' = [caller EXCEPT ![c] = Failed(@)]
    /\ UNCHANGED <<table_, rr_, sets, picks>>

Advanced_Shared(s) == [t \in Services |-> (rr_[t] + 1) % CursorRange]
Advanced(s) == [rr_ EXCEPT ![s] = (@ + 1) % CursorRange]

Pick(c) ==
    /\ caller[c].at = "pick" /\ caller[c].endpoints # <<>>
    /\ LET s == caller[c].service
           n == Len(caller[c].endpoints)
       IN  /\ picks' = [picks EXCEPT ![s] =
                  Append(@, [cursor |-> rr_[s], size |-> n, index |-> rr_[s] % n])]
           /\ rr_' = Advanced(s)
    /\ caller' = [caller EXCEPT ![c].at = "call", ![c].endpoints = <<>>]
    /\ UNCHANGED <<table_, sets>>

\* The endpoint answers or the attempt fails.
Answer(c) ==
    /\ caller[c].at = "call"
    /\ caller' \in {[caller EXCEPT ![c].at = "done"], [caller EXCEPT ![c] = Failed(@)]}
    /\ UNCHANGED <<table_, rr_, sets, picks>>

Next ==
    \/ \E s \in Services : Set(s)
    \/ \E c \in Callers : Wait(c) \/ Resolve(c) \/ NoEndpoints(c) \/ Pick(c) \/ Answer(c)

Spec == Init /\ [][Next]_vars

-----------------------------------------------------------------------------
(* Properties *)

\* Any n picks of a service in a row that are made from lists of length n, by whatever
\* callers and whatever happens to other services, take n different places of the list,
\* unless the cursor wraps around between them.
RotationCovers ==
    \A s \in Services : \A j \in DOMAIN picks[s] : \A i \in 1 .. j - 1 :
        LET n == picks[s][j].size IN
        /\ j - i < n
        /\ \A k \in i .. j : picks[s][k].size = n
        /\ picks[s][i].cursor < picks[s][j].cursor
        => picks[s][i].index # picks[s][j].index

\* Whatever the options are, a wait is never longer than max_backoff and never negative
\* (a negative max_backoff, which the constructor accepts, is the wait itself), also when
\* a conversion overflows.  As long as none does, the wait is within the jitter of what is
\* due, the exponential up to max_backoff, or less than a millisecond below.
BackoffInRange ==
    \A c \in Callers :
        LET q == caller[c]
            o == q.policy
            due == Min({Exponential(o, q.attempt), o.max_backoff})
        IN  q.at = "resolve" /\ q.attempt > 1 =>
              /\ q.waited \in Min({0, o.max_backoff}) .. o.max_backoff
              /\ due >= 0 /\ Exponential(o, q.attempt) <= LongMax
                   /\ due * (10 + Jitter(o)) <= LongMax * 10 =>
                   /\ (q.waited + 1) * 10 >= due * (10 - Jitter(o))
                   /\ q.waited * 10 <= due * (10 + Jitter(o))
=============================================================================

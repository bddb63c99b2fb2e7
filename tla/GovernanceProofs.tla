-------------------------- MODULE GovernanceProofs --------------------------
(***************************************************************************)
(* What the load balancer and the retry policy promise for all lists of    *)
(* endpoints, callers and options: the rotation covers the list, and the   *)
(* wait before an attempt is within its bounds.                            *)
(***************************************************************************)
EXTENDS Governance, SequenceTheorems, FiniteSetTheorems, TLAPS

-----------------------------------------------------------------------------
(* Arithmetic *)

LEMMA MinOfTwo ==
    ASSUME NEW a \in Int, NEW b \in Int
    PROVE  Min({a, b}) = IF a <= b THEN a ELSE b
  <1>1. \E x \in {a, b} : \A y \in {a, b} : x <= y
    OBVIOUS
  <1>2. Min({a, b}) \in {a, b} /\ \A y \in {a, b} : Min({a, b}) <= y
    BY <1>1 DEF Min
  <1>3. QED
    BY <1>2

LEMMA MinBelow ==
    ASSUME NEW a \in Int, NEW b \in Int, Min({a, b}) >= 0
    PROVE  /\ Min({a, b}) \in Nat /\ Min({a, b}) <= a /\ Min({a, b}) <= b
           /\ a \in Nat /\ b \in Nat
  BY MinOfTwo

LEMMA MaxOfTwo ==
    ASSUME NEW a \in Int, NEW b \in Int
    PROVE  Max({a, b}) = IF a >= b THEN a ELSE b
  <1>1. \E x \in {a, b} : \A y \in {a, b} : x >= y
    OBVIOUS
  <1>2. Max({a, b}) \in {a, b} /\ \A y \in {a, b} : Max({a, b}) >= y
    BY <1>1 DEF Max
  <1>3. QED
    BY <1>2

\* A power of two is the size of a power set.
LEMMA PowerOfTwo == ASSUME NEW n \in Nat PROVE 2 ^ n \in Nat
  <1>1. IsFiniteSet(1 .. n) /\ Cardinality(1 .. n) = n
    BY FS_Interval
  <1>2. IsFiniteSet(SUBSET (1 .. n)) /\ Cardinality(SUBSET (1 .. n)) = 2 ^ n
    BY <1>1, FS_SUBSET
  <1>3. QED
    BY <1>2, FS_CardinalityType

LEMMA TimesGrows ==
    ASSUME NEW a \in Nat, NEW b \in Nat, NEW k \in Nat, NEW l \in Nat, a <= b, k <= l
    PROVE  a * k <= b * l /\ a * k \in Nat
  <1>1. PICK c, m : c = b - a /\ m = l - k /\ c \in Nat /\ m \in Nat
    OBVIOUS
  <1>2. c * k \in Nat /\ b * m \in Nat /\ a * k \in Nat
    BY <1>1
  <1>3. b * k = a * k + c * k
    <2>1. b = a + c
      BY <1>1
    <2>2. (a + c) * k = a * k + c * k
      BY <1>1
    <2>3. QED
      BY <2>1, <2>2
  <1>4. b * l = b * k + b * m
    <2>1. l = k + m
      BY <1>1
    <2>2. b * (k + m) = b * k + b * m
      BY <1>1
    <2>3. QED
      BY <2>1, <2>2
  <1>5. QED
    BY <1>2, <1>3, <1>4

\* Numbers that are less than n apart have different remainders.
LEMMA DifferentRemainders ==
    ASSUME NEW n \in Nat \ {0}, NEW x \in Nat, NEW y \in Nat, x < y, y - x < n
    PROVE  x % n # y % n
  <1> SUFFICES ASSUME x % n = y % n PROVE FALSE
    OBVIOUS
  <1>1. PICK a, b, r : a = x \div n /\ b = y \div n /\ r = x % n
    OBVIOUS
  <1>2. a \in Nat /\ b \in Nat /\ r \in Nat /\ x = n * a + r /\ y = n * b + r
    BY <1>1
  <1>3. CASE a >= b
    <2>1. n * b <= n * a
      BY <1>2, <1>3, TimesGrows
    <2>2. QED
      BY <1>2, <2>1
  <1>4. CASE a < b
    <2>1. n * (a + 1) <= n * b
      <3>1. a + 1 <= b /\ a + 1 \in Nat /\ n <= n
        BY <1>2, <1>4
      <3>2. QED
        BY <1>2, <3>1, TimesGrows
    <2>2. n * (a + 1) = n * a + n
      BY <1>2
    <2>3. n * a \in Nat /\ n * b \in Nat
      BY <1>2
    <2>4. QED
      BY <1>2, <2>1, <2>2, <2>3
  <1>5. QED
    BY <1>2, <1>3, <1>4

-----------------------------------------------------------------------------
(* RetryPolicy *)

LEMMA JitterType == ASSUME NEW o \in RetryOptions PROVE Jitter(o) \in 0 .. 10
  <1>1. PICK m : m = Min({o.jitter_ratio, 10})
    OBVIOUS
  <1>2. m \in Int /\ m <= 10
    BY <1>1, MinOfTwo DEF RetryOptions
  <1>3. Max({0, m}) \in 0 .. 10
    BY <1>2, MaxOfTwo
  <1>4. QED
    BY <1>1, <1>3 DEF Jitter

LEMMA ExponentialType ==
    ASSUME NEW o \in RetryOptions, NEW attempt \in Nat, attempt > 1
    PROVE  Exponential(o, attempt) \in Int
  <1>1. attempt - 2 \in Nat
    OBVIOUS
  <1>2. 2 ^ (attempt - 2) \in Int
    BY <1>1, PowerOfTwo
  <1>3. o.base_backoff \in Int
    BY RetryAssumption DEF RetryOptions, Long
  <1>4. QED
    BY <1>2, <1>3 DEF Exponential

LEMMA ScaledType == ASSUME NEW o, NEW x PROVE Scaled(o, x) \subseteq Int
  BY DEF Scaled

LEMMA ConvertedType == ASSUME NEW x PROVE Converted(x) \subseteq Int
  BY RetryAssumption DEF Converted, Long

\* What Jittered consists of.
LEMMA JitteredFrom ==
    ASSUME NEW o, NEW attempt, NEW ms \in Jittered(o, attempt)
    PROVE  \E x \in Converted(Exponential(o, attempt)) :
               \E y \in Scaled(o, Min({x, o.max_backoff})) : ms \in Converted(y)
  <1> DEFINE Raw == {Min({x, o.max_backoff}) : x \in Converted(Exponential(o, attempt))}
             Products == UNION {Scaled(o, r) : r \in Raw}
  <1>1. ms \in UNION {Converted(y) : y \in Products}
    BY DEF Jittered
  <1> HIDE DEF Products
  <1>2. PICK y \in Products : ms \in Converted(y)
    BY <1>1
  <1> HIDE DEF Raw
  <1>3. PICK r \in Raw : y \in Scaled(o, r)
    BY <1>2 DEF Products
  <1>4. PICK x \in Converted(Exponential(o, attempt)) : r = Min({x, o.max_backoff})
    BY <1>3 DEF Raw
  <1>5. QED
    BY <1>2, <1>3, <1>4

\* The two clamps at the end, whatever the conversions made of the value.
LEMMA Clamped ==
    ASSUME NEW o \in RetryOptions, NEW attempt \in Nat, attempt > 1,
           NEW ms \in BackoffBeforeAttempt(o, attempt)
    PROVE  /\ ms \in Min({0, o.max_backoff}) .. o.max_backoff
           /\ o.max_backoff \in Int /\ ms \in Int
           /\ \E x \in Jittered(o, attempt) :
                /\ x \in Int
                /\ o.max_backoff >= 0 => ms = IF x < 0 THEN 0
                                              ELSE IF x <= o.max_backoff THEN x
                                              ELSE o.max_backoff
  <1>1. o.max_backoff \in Int
    BY RetryAssumption DEF RetryOptions, Long
  <1>2. PICK x \in Jittered(o, attempt) : ms = Min({Max({0, x}), o.max_backoff})
    <2>1. ~(attempt <= 1)
      OBVIOUS
    <2>2. QED
      BY <2>1 DEF BackoffBeforeAttempt
  <1>3. x \in Int
    BY <1>2, JitteredFrom, ConvertedType
  <1>4. Max({0, x}) = (IF 0 >= x THEN 0 ELSE x) /\ Max({0, x}) \in Int
    BY <1>3, MaxOfTwo
  <1>5. ms = IF Max({0, x}) <= o.max_backoff THEN Max({0, x}) ELSE o.max_backoff
    BY <1>1, <1>2, <1>4, MinOfTwo
  <1>6. Min({0, o.max_backoff}) = IF 0 <= o.max_backoff THEN 0 ELSE o.max_backoff
    BY <1>1, MinOfTwo
  <1>7. ms \in Min({0, o.max_backoff}) .. o.max_backoff
    BY <1>1, <1>3, <1>4, <1>5, <1>6
  <1>8. QED
    BY <1>1, <1>2, <1>3, <1>4, <1>5, <1>7

\* As long as no conversion overflows, the wait is within the jitter of what is due.
LEMMA BackoffJittered ==
    ASSUME NEW o \in RetryOptions, NEW attempt \in Nat, attempt > 1,
           NEW due, due = Min({Exponential(o, attempt), o.max_backoff}),
           due >= 0, Exponential(o, attempt) <= LongMax,
           due * (10 + Jitter(o)) <= LongMax * 10,
           NEW ms \in BackoffBeforeAttempt(o, attempt)
    PROVE  /\ (ms + 1) * 10 >= due * (10 - Jitter(o))
           /\ ms * 10 <= due * (10 + Jitter(o))
  <1>1. PICK e, max, j :
          /\ e = Exponential(o, attempt) /\ e \in Int
          /\ max = o.max_backoff /\ max \in Int
          /\ j = Jitter(o) /\ j \in 0 .. 10
    BY ExponentialType, JitterType, Clamped
  <1>2. due >= 0 /\ e <= LongMax /\ LongMax \in Nat
    BY <1>1, RetryAssumption
  <1>3. due \in Nat /\ due <= max /\ e \in Nat /\ max \in Nat /\ due = Min({e, max})
    BY <1>1, <1>2, MinBelow
  <1>4. PICK x : /\ x \in Jittered(o, attempt) /\ x \in Int
                 /\ ms = IF x < 0 THEN 0 ELSE IF x <= max THEN x ELSE max
    <2>1. o.max_backoff >= 0
      BY <1>1, <1>3
    <2>2. PICK x : /\ x \in Jittered(o, attempt) /\ x \in Int
                   /\ o.max_backoff >= 0 => ms = IF x < 0 THEN 0
                                                ELSE IF x <= o.max_backoff THEN x
                                                ELSE o.max_backoff
      BY Clamped
    <2>3. QED
      BY <1>1, <2>1, <2>2
  <1>5. \A y \in -1 .. LongMax : Converted(y) = {y}
    BY <1>2 DEF Converted, Long
  <1>6. PICK y \in Scaled(o, due) : x \in Converted(y)
    <2>1. Converted(e) = {e}
      BY <1>2, <1>3, <1>5
    <2>2. QED
      BY <1>1, <1>4, <2>1, JitteredFrom
  <1> DEFINE low == due * (10 - j)
             high == due * (10 + j)
  <1>7. low \in Nat /\ high \in Nat /\ low <= due * 10 /\ due * 10 <= high
    <2>1. 10 - j \in Nat /\ 10 + j \in Nat /\ 10 - j <= 10 /\ 10 <= 10 + j /\ due <= due
      BY <1>1, <1>3
    <2>2. QED
      BY <1>3, <2>1, TimesGrows
  <1>8. y \in Shortest(o, due) .. Longest(o, due)
    BY <1>3, <1>6 DEF Scaled
  <1>9. (y + 1) * 10 >= low /\ y >= -1
    <2>1. CASE j = 0
      <3>1. Shortest(o, due) = due
        BY <1>1, <2>1 DEF Shortest
      <3>2. QED
        BY <1>3, <1>7, <1>8, <3>1
    <2>2. CASE j # 0
      <3>1. Shortest(o, due) = (low - 1) \div 10
        BY <1>1, <2>2 DEF Shortest
      <3> HIDE DEF low
      <3>2. QED
        BY <1>7, <1>8, <3>1
    <2>3. QED
      BY <2>1, <2>2
  <1>10. y * 10 <= high /\ y \in Int
    <2>1. Longest(o, due) = high \div 10
      BY <1>1 DEF Longest
    <2> HIDE DEF high
    <2>2. QED
      BY <1>7, <1>8, <2>1
  <1>11. high <= LongMax * 10
    BY <1>1
  <1> HIDE DEF low, high
  <1>12. y \in -1 .. LongMax /\ x = y
    <2>1. y \in -1 .. LongMax
      BY <1>2, <1>3, <1>7, <1>9, <1>10, <1>11
    <2>2. QED
      BY <1>5, <1>6, <2>1
  <1>13. (ms + 1) * 10 >= low /\ ms * 10 <= high
    <2>1. CASE x < 0
      BY <1>4, <1>7, <1>9, <1>12, <2>1
    <2>2. CASE x >= 0 /\ x <= max
      BY <1>4, <1>9, <1>10, <1>12, <2>2
    <2>3. CASE x > max
      BY <1>1, <1>3, <1>4, <1>7, <1>10, <1>12, <2>3
    <2>4. QED
      BY <1>1, <1>4, <2>1, <2>2, <2>3
  <1>14. QED
    BY <1>1, <1>13 DEF low, high

-----------------------------------------------------------------------------
(* The inductive invariant *)

CallerStates ==
    [at : {"wait", "resolve", "pick", "call", "done"}, policy : Policies, service : Services,
     attempt : Nat, waited : Int, endpoints : EndpointLists \cup {<<>>}]
PickRecords == [cursor : 0 .. CursorRange - 1, size : Nat \ {0}, index : Nat]

TypeInv ==
    /\ table_ \in [Services -> EndpointLists \cup {Unknown}]
    /\ rr_ \in [Services -> 0 .. CursorRange - 1]
    /\ caller \in [Callers -> CallerStates]
    /\ picks \in [Services -> Seq(PickRecords)]

\* Before it resolves, a caller has waited as long as its policy says.
HasWaited ==
    \A c \in Callers :
        caller[c].at = "resolve" =>
            caller[c].waited \in BackoffBeforeAttempt(caller[c].policy, caller[c].attempt)

\* From one pick to the next the cursor advances by one or wraps around, so that it is
\* never further ahead of a pick than the number of picks made since.
Paced(made, cursor) ==
    \A i \in DOMAIN made :
        /\ made[i].index = made[i].cursor % made[i].size
        /\ cursor <= made[i].cursor + (Len(made) + 1 - i)
        /\ \A j \in i .. Len(made) : made[j].cursor <= made[i].cursor + (j - i)

Rotating == \A s \in Services : Paced(picks[s], rr_[s])

IInv == TypeInv /\ HasWaited /\ Rotating

-----------------------------------------------------------------------------
(* A list of endpoints that is not empty has a length. *)
LEMMA SizeType ==
    ASSUME NEW l \in EndpointLists, l # <<>>
    PROVE  Len(l) \in Nat \ {0}
  <1>1. l \in Seq({l[i] : i \in DOMAIN l})
    BY GovernanceAssumption
  <1>2. QED
    BY <1>1, LenProperties, EmptySeq

LEMMA InitInv == Init => IInv
  <1> SUFFICES ASSUME Init PROVE IInv
    OBVIOUS
  <1>1. 0 \in 0 .. CursorRange - 1
    BY GovernanceAssumption
  <1>2. caller \in [Callers -> CallerStates] /\ \A c \in Callers : caller[c].at = "wait"
    BY DEF Init, CallerStates
  <1>3. TypeInv
    BY <1>1, <1>2 DEF Init, TypeInv
  <1>4. Rotating
    BY DEF Init, Rotating, Paced
  <1>5. QED
    BY <1>2, <1>3, <1>4 DEF IInv, HasWaited

\* A step of caller c to the state q that makes no pick.
LEMMA CallerStep ==
    ASSUME IInv, NEW c \in Callers, NEW q \in CallerStates,
           caller' = [caller EXCEPT ![c] = q], UNCHANGED <<table_, rr_, picks>>,
           q.at = "resolve" => q.waited \in BackoffBeforeAttempt(q.policy, q.attempt)
    PROVE  IInv'
  <1>1. /\ caller' \in [Callers -> CallerStates] /\ caller'[c] = q
        /\ \A d \in Callers \ {c} : caller'[d] = caller[d]
    BY DEF IInv, TypeInv
  <1>2. TypeInv' /\ Rotating'
    BY <1>1 DEF IInv, TypeInv, Rotating
  <1>3. HasWaited'
    BY <1>1 DEF IInv, HasWaited
  <1>4. QED
    BY <1>2, <1>3 DEF IInv

LEMMA FailedType ==
    ASSUME NEW q \in CallerStates
    PROVE  Failed(q) \in CallerStates /\ Failed(q).at # "resolve"
  <1>1. q.attempt + 1 \in Nat
    BY DEF CallerStates
  <1>2. QED
    BY <1>1 DEF Failed, CallerStates

LEMMA WaitInv == ASSUME IInv, NEW c \in Callers, Wait(c) PROVE IInv'
  <1>1. PICK q : q = caller[c] /\ q \in CallerStates
    BY DEF IInv, TypeInv
  <1>2. PICK ms \in BackoffBeforeAttempt(q.policy, q.attempt) :
          caller' = [caller EXCEPT ![c].at = "resolve", ![c].waited = ms]
    BY <1>1 DEF Wait
  <1>3. q.attempt \in Nat /\ q.policy \in RetryOptions
    BY <1>1, GovernanceAssumption DEF CallerStates
  <1>4. ms \in Int
    <2>1. CASE q.attempt <= 1
      BY <1>2, <2>1 DEF BackoffBeforeAttempt
    <2>2. CASE ~(q.attempt <= 1)
      <3>1. q.attempt > 1
        BY <1>3, <2>2
      <3>2. QED
        BY <1>2, <1>3, <3>1, Clamped
    <2>3. QED
      BY <2>1, <2>2
  <1> DEFINE r == [q EXCEPT !.at = "resolve", !.waited = ms]
  <1>5. r \in CallerStates /\ r.waited = ms /\ r.attempt = q.attempt /\ r.policy = q.policy
    BY <1>1, <1>4 DEF CallerStates
  <1>6. caller' = [caller EXCEPT ![c] = r]
    BY <1>1, <1>2 DEF IInv, TypeInv
  <1> HIDE DEF r
  <1>7. UNCHANGED <<table_, rr_, picks>>
    BY DEF Wait
  <1>8. QED
    BY <1>2, <1>5, <1>6, <1>7, CallerStep

LEMMA ResolveInv == ASSUME IInv, NEW c \in Callers, Resolve(c) PROVE IInv'
  <1>1. PICK q, found :
          /\ q = caller[c] /\ q \in CallerStates
          /\ found = table_[q.service] /\ found \in EndpointLists \cup {Unknown}
    BY DEF IInv, TypeInv, CallerStates
  <1>2. UNCHANGED <<table_, rr_, picks>>
    BY DEF Resolve
  <1>3. CASE found = Unknown
    <2>1. caller' = [caller EXCEPT ![c] = Failed(q)]
      BY <1>1, <1>3 DEF Resolve
    <2>2. QED
      BY <1>1, <1>2, <2>1, FailedType, CallerStep
  <1>4. CASE found # Unknown
    <2> DEFINE r == [q EXCEPT !.at = "pick", !.endpoints = found]
    <2>1. r \in CallerStates /\ r.at = "pick"
      BY <1>1, <1>4 DEF CallerStates
    <2>2. caller' = [caller EXCEPT ![c] = r]
      BY <1>1, <1>4 DEF Resolve
    <2> HIDE DEF r
    <2>3. QED
      BY <1>2, <2>1, <2>2, CallerStep
  <1>5. QED
    BY <1>3, <1>4

LEMMA NoEndpointsInv == ASSUME IInv, NEW c \in Callers, NoEndpoints(c) PROVE IInv'
  <1>1. PICK q : q = caller[c] /\ q \in CallerStates
    BY DEF IInv, TypeInv
  <1>2. caller' = [caller EXCEPT ![c] = Failed(q)] /\ UNCHANGED <<table_, rr_, picks>>
    BY <1>1 DEF NoEndpoints
  <1>3. QED
    BY <1>1, <1>2, FailedType, CallerStep

LEMMA AnswerInv == ASSUME IInv, NEW c \in Callers, Answer(c) PROVE IInv'
  <1>1. PICK q : q = caller[c] /\ q \in CallerStates
    BY DEF IInv, TypeInv
  <1>2. UNCHANGED <<table_, rr_, picks>>
    BY DEF Answer
  <1>3. CASE caller' = [caller EXCEPT ![c] = Failed(@)]
    <2>1. caller' = [caller EXCEPT ![c] = Failed(q)]
      BY <1>1, <1>3
    <2>2. QED
      BY <1>1, <1>2, <2>1, FailedType, CallerStep
  <1>4. CASE caller' = [caller EXCEPT ![c].at = "done"]
    <2> DEFINE r == [q EXCEPT !.at = "done"]
    <2>1. r \in CallerStates /\ r.at = "done"
      BY <1>1 DEF CallerStates
    <2>2. caller' = [caller EXCEPT ![c] = r]
      BY <1>1, <1>4
    <2> HIDE DEF r
    <2>3. QED
      BY <1>2, <2>1, <2>2, CallerStep
  <1>5. QED
    BY <1>3, <1>4 DEF Answer

\* One more pick at the cursor.
LEMMA PacedOn ==
    ASSUME NEW made \in Seq(PickRecords), NEW cursor \in 0 .. CursorRange - 1,
           Paced(made, cursor), NEW n \in Nat \ {0}, NEW next \in Nat, next <= cursor + 1
    PROVE  /\ Append(made, [cursor |-> cursor, size |-> n, index |-> cursor % n])
                \in Seq(PickRecords)
           /\ Paced(Append(made, [cursor |-> cursor, size |-> n, index |-> cursor % n]), next)
  <1> DEFINE p == [cursor |-> cursor, size |-> n, index |-> cursor % n]
             more == Append(made, p)
  <1>1. cursor \in Nat /\ cursor % n \in Nat
    BY GovernanceAssumption
  <1>2. p \in PickRecords /\ p.cursor = cursor /\ p.index = p.cursor % p.size
    BY <1>1 DEF PickRecords
  <1> HIDE DEF p
  <1>3. /\ more \in Seq(PickRecords) /\ Len(more) = Len(made) + 1 /\ Len(made) \in Nat
        /\ DOMAIN more = 1 .. Len(made) + 1 /\ DOMAIN made = 1 .. Len(made)
        /\ \A i \in 1 .. Len(made) : more[i] = made[i]
        /\ more[Len(made) + 1] = p
    BY <1>2, AppendProperties, LenProperties
  <1>4. \A i \in 1 .. Len(made) + 1 : more[i] \in PickRecords /\ more[i].cursor \in Nat
    <2>1. \A q \in PickRecords : q.cursor \in Nat
      BY GovernanceAssumption DEF PickRecords
    <2>2. QED
      BY <1>2, <1>3, <2>1, ElementOfSeq
  <1> HIDE DEF more
  <1>5. ASSUME NEW i \in 1 .. Len(made) + 1
        PROVE  /\ more[i].index = more[i].cursor % more[i].size
               /\ next <= more[i].cursor + (Len(more) + 1 - i)
               /\ \A j \in i .. Len(more) : more[j].cursor <= more[i].cursor + (j - i)
    <2>1. CASE i = Len(made) + 1
      BY <1>1, <1>2, <1>3, <2>1
    <2>2. CASE i # Len(made) + 1
      <3>1. i \in 1 .. Len(made) /\ i \in DOMAIN made /\ more[i] = made[i]
        BY <1>3, <2>2
      <3>2. /\ made[i].index = made[i].cursor % made[i].size
            /\ cursor <= made[i].cursor + (Len(made) + 1 - i)
            /\ \A j \in i .. Len(made) : made[j].cursor <= made[i].cursor + (j - i)
        BY <3>1 DEF Paced
      <3>3. next <= more[i].cursor + (Len(more) + 1 - i)
        BY <1>1, <1>3, <1>4, <3>1, <3>2
      <3>4. ASSUME NEW j \in i .. Len(more) PROVE more[j].cursor <= more[i].cursor + (j - i)
        <4>1. CASE j = Len(made) + 1
          BY <1>2, <1>3, <3>1, <3>2, <4>1
        <4>2. CASE j # Len(made) + 1
          BY <1>3, <3>1, <3>2, <4>2
        <4>3. QED
          BY <4>1, <4>2
      <3>5. QED
        BY <3>1, <3>2, <3>3, <3>4
    <2>3. QED
      BY <2>1, <2>2
  <1>6. Paced(more, next)
    BY <1>3, <1>5 DEF Paced
  <1>7. QED
    BY <1>3, <1>6 DEF more, p

LEMMA PickInv == ASSUME IInv, NEW c \in Callers, Pick(c) PROVE IInv'
  <1>1. PICK q, s, n :
          /\ q = caller[c] /\ q \in CallerStates /\ s = q.service /\ s \in Services
          /\ n = Len(q.endpoints) /\ q.endpoints # <<>> /\ q.endpoints \in EndpointLists
    BY DEF IInv, TypeInv, CallerStates, Pick
  <1>2. n \in Nat \ {0}
    BY <1>1, SizeType
  <1> DEFINE p == [cursor |-> rr_[s], size |-> n, index |-> rr_[s] % n]
             r == [q EXCEPT !.at = "call", !.endpoints = <<>>]
             next == (rr_[s] + 1) % CursorRange
  <1>3. /\ picks' = [picks EXCEPT ![s] = Append(@, p)]
        /\ rr_' = [rr_ EXCEPT ![s] = next]
        /\ UNCHANGED table_
    BY <1>1 DEF Pick, Advanced
  <1>4. caller' = [caller EXCEPT ![c] = r]
    BY <1>1 DEF Pick
  <1>5. r \in CallerStates /\ r.at = "call"
    BY <1>1 DEF CallerStates
  <1>6. rr_[s] \in 0 .. CursorRange - 1 /\ CursorRange \in Nat \ {0}
    BY <1>1, GovernanceAssumption DEF IInv, TypeInv
  <1>7. next \in 0 .. CursorRange - 1 /\ next \in Nat /\ next <= rr_[s] + 1
    <2>1. \A x \in Nat : x % CursorRange \in 0 .. CursorRange - 1 /\ x % CursorRange <= x
      BY <1>6
    <2>2. QED
      BY <1>6, <2>1
  <1> HIDE DEF next, r
  <1>8. picks[s] \in Seq(PickRecords) /\ Paced(picks[s], rr_[s])
    BY <1>1 DEF IInv, TypeInv, Rotating
  <1>9. Append(picks[s], p) \in Seq(PickRecords) /\ Paced(Append(picks[s], p), next)
    BY <1>2, <1>6, <1>7, <1>8, PacedOn
  <1> HIDE DEF p
  <1>10. /\ picks' \in [Services -> Seq(PickRecords)] /\ picks'[s] = Append(picks[s], p)
         /\ rr_' \in [Services -> 0 .. CursorRange - 1] /\ rr_'[s] = next
         /\ \A t \in Services \ {s} : picks'[t] = picks[t] /\ rr_'[t] = rr_[t]
    BY <1>1, <1>3, <1>7, <1>9 DEF IInv, TypeInv
  <1>11. Rotating'
    <2>1. ASSUME NEW t \in Services PROVE Paced(picks'[t], rr_'[t])
      BY <1>9, <1>10 DEF IInv, Rotating
    <2>2. QED
      BY <2>1 DEF Rotating
  <1>12. /\ caller' \in [Callers -> CallerStates] /\ caller'[c] = r
         /\ \A d \in Callers \ {c} : caller'[d] = caller[d]
    BY <1>4, <1>5 DEF IInv, TypeInv
  <1>13. TypeInv'
    BY <1>3, <1>10, <1>12 DEF IInv, TypeInv
  <1>14. HasWaited'
    BY <1>5, <1>12 DEF IInv, HasWaited
  <1>15. QED
    BY <1>11, <1>13, <1>14 DEF IInv

LEMMA StepInv == IInv /\ [Next]_vars => IInv'
  <1> SUFFICES ASSUME IInv, [Next]_vars PROVE IInv'
    OBVIOUS
  <1>1. ASSUME NEW s \in Services, Set(s) PROVE IInv'
    <2>1. /\ table_' \in [Services -> EndpointLists \cup {Unknown}]
          /\ UNCHANGED <<rr_, caller, picks>>
      BY <1>1 DEF Set, IInv, TypeInv
    <2>2. QED
      BY <2>1 DEF IInv, TypeInv, HasWaited, Rotating
  <1>2. ASSUME NEW c \in Callers, Wait(c) \/ Resolve(c) \/ NoEndpoints(c) \/ Pick(c) \/ Answer(c)
        PROVE  IInv'
    BY <1>2, WaitInv, ResolveInv, NoEndpointsInv, PickInv, AnswerInv
  <1>3. CASE UNCHANGED vars
    BY <1>3 DEF vars, IInv, TypeInv, HasWaited, Rotating
  <1>4. QED
    BY <1>1, <1>2, <1>3 DEF Next

LEMMA Invariant == Spec => []IInv
  BY InitInv, StepInv, PTL DEF Spec

-----------------------------------------------------------------------------
(* RoundRobinLoadBalancer *)

\* Picks of a service less than n apart that are all made from lists of length n take
\* different places of the list, whoever makes them, unless the cursor wraps around
\* between them.
THEOREM Rotation == Spec => []RotationCovers
  <1>1. ASSUME IInv PROVE RotationCovers
    <2> SUFFICES ASSUME NEW s \in Services, NEW j \in DOMAIN picks[s], NEW i \in 1 .. j - 1,
                        j - i < picks[s][j].size, picks[s][i].size = picks[s][j].size,
                        picks[s][i].cursor < picks[s][j].cursor
                 PROVE  picks[s][i].index # picks[s][j].index
      <3>1. ASSUME NEW s \in Services, NEW j \in DOMAIN picks[s] PROVE j \in Nat
        BY <1>1 DEF IInv, TypeInv
      <3>2. QED
        BY <3>1 DEF RotationCovers
    <2>1. PICK made : made = picks[s] /\ made \in Seq(PickRecords) /\ Paced(made, rr_[s])
      BY <1>1 DEF IInv, TypeInv, Rotating
    <2>2. /\ Len(made) \in Nat /\ DOMAIN made = 1 .. Len(made)
          /\ j \in 1 .. Len(made) /\ i \in 1 .. Len(made) /\ j \in i .. Len(made)
      BY <2>1, LenProperties
    <2>3. PICK x, y, n :
            /\ x = made[i].cursor /\ y = made[j].cursor
            /\ n = made[i].size /\ n = made[j].size
            /\ x \in Nat /\ y \in Nat /\ n \in Nat \ {0}
      <3>1. made[i] \in PickRecords /\ made[j] \in PickRecords
        BY <2>1, <2>2, ElementOfSeq
      <3>2. \A q \in PickRecords : q.cursor \in Nat /\ q.size \in Nat \ {0}
        BY GovernanceAssumption DEF PickRecords
      <3>3. QED
        BY <2>1, <3>1, <3>2
    <2>4. /\ y <= x + (j - i)
          /\ made[i].index = x % n /\ made[j].index = y % n
      BY <2>1, <2>2, <2>3 DEF Paced
    <2>5. x < y /\ y - x < n
      <3>1. x < y /\ j - i < n /\ i \in Nat /\ j \in Nat
        BY <2>1, <2>2, <2>3
      <3>2. QED
        BY <2>3, <2>4, <3>1
    <2>6. QED
      BY <2>1, <2>3, <2>4, <2>5, DifferentRemainders
  <1>2. QED
    BY <1>1, Invariant, PTL

-----------------------------------------------------------------------------
(* RetryPolicy *)

\* The waits of BackoffBeforeAttempt, for any options: between zero and max_backoff, or
\* max_backoff itself if that is negative, whatever the conversions make of a value that is
\* out of range, and within the jitter of the exponential as long as none is.
THEOREM BackoffHolds == Spec => []BackoffInRange
  <1>1. ASSUME IInv PROVE BackoffInRange
    <2> SUFFICES ASSUME NEW c \in Callers, NEW q, q = caller[c], NEW o, o = q.policy,
                        NEW due, due = Min({Exponential(o, q.attempt), o.max_backoff}),
                        q.at = "resolve", q.attempt > 1
                 PROVE  /\ q.waited \in Min({0, o.max_backoff}) .. o.max_backoff
                        /\ due >= 0 /\ Exponential(o, q.attempt) <= LongMax
                             /\ due * (10 + Jitter(o)) <= LongMax * 10 =>
                             /\ (q.waited + 1) * 10 >= due * (10 - Jitter(o))
                             /\ q.waited * 10 <= due * (10 + Jitter(o))
      BY Zenon DEF BackoffInRange
    <2>1. q \in CallerStates
      BY <1>1 DEF IInv, TypeInv
    <2>2. q.attempt \in Nat /\ o \in RetryOptions
      BY <2>1, GovernanceAssumption DEF CallerStates
    <2>3. q.waited \in BackoffBeforeAttempt(o, q.attempt)
      BY <1>1 DEF IInv, HasWaited
    <2>4. q.waited \in Min({0, o.max_backoff}) .. o.max_backoff
      BY <2>2, <2>3, Clamped
    <2>5. QED
      BY <2>2, <2>3, <2>4, BackoffJittered
  <1>2. QED
    BY <1>1, Invariant, PTL
=============================================================================

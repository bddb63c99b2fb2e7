------------------------ MODULE CircuitBreakerProofs ------------------------
(***************************************************************************)
(* Proofs about CircuitBreaker, for any finite set of callers, any options *)
(* and any bound on the clock.                                             *)
(***************************************************************************)
EXTENDS CircuitBreaker, FiniteSetTheorems, TLAPS

\* The constructor's normalisation: no threshold is ever zero, so a first probe
\* is always admitted and a first failure or success always counts.
LEMMA OptionsNormalised ==
    /\ FailuresToOpen \in Nat \ {0}
    /\ MaxInflight \in Nat \ {0}
    /\ SuccessesToClose \in Nat \ {0}
  BY OptionsAssumption
     DEF FailuresToOpen, MaxInflight, SuccessesToClose, AtLeastOne

\* How the number of probes changes when one is admitted or reports.
LEMMA ProbeCount ==
    ASSUME NEW P \in SUBSET Callers, NEW c \in Callers
    PROVE  /\ Cardinality(P) \in Nat
           /\ c \in P => Cardinality(P) > 0
           /\ Cardinality(P \cup {c})
                = IF c \in P THEN Cardinality(P) ELSE Cardinality(P) + 1
           /\ Cardinality(P \ {c})
                = IF c \in P THEN Cardinality(P) - 1 ELSE Cardinality(P)
  <1>1. IsFiniteSet(P)
    BY CallersAssumption, FS_Subset
  <1>2. Cardinality(P) \in Nat /\ Cardinality(P \ {c}) \in Nat
    BY <1>1, FS_CardinalityType, FS_RemoveElement
  <1>3. Cardinality(P \cup {c})
          = IF c \in P THEN Cardinality(P) ELSE Cardinality(P) + 1
    BY <1>1, FS_AddElement
  <1>4. Cardinality(P \ {c})
          = IF c \in P THEN Cardinality(P) - 1 ELSE Cardinality(P)
    BY <1>1, FS_RemoveElement
  <1>5. c \in P => Cardinality(P) > 0
    BY <1>2, <1>4
  <1>6. QED
    BY <1>2, <1>3, <1>4, <1>5

LEMMA OneProbe == /\ Cardinality({}) = 0
                  /\ \A c \in Callers : Cardinality({c}) = 1
  BY FS_EmptySet, FS_Singleton

-----------------------------------------------------------------------------

LEMMA InitInv == Init => IInv
  BY OptionsNormalised, OptionsAssumption, OneProbe
     DEF Init, IInv, TypeOK, ThresholdsActedOn, ProbesAreInside, NoSlotLeak,
         ProbesCounted, StampsArePast

\* The half-open slot taken by a caller in the critical section.
LEMMA SlotTaken ==
    ASSUME NEW c \in Callers, NEW inflight \in 0 .. MaxInflight, TakeSlot(c, inflight)
    PROVE  IF inflight < MaxInflight
           THEN half_open_inflight_' = inflight + 1 /\ Goto(c, "calling")
           ELSE half_open_inflight_' = inflight /\ Goto(c, "idle")
  BY OptionsNormalised DEF TakeSlot

\* The inductive invariant is preserved by every step of a caller.
LEMMA CallerStepInv ==
    ASSUME IInv, NEW c \in Callers, CallerStep(c)
    PROVE  IInv'
  <1> USE OptionsNormalised
  <1> USE DEF IInv, TypeOK, ThresholdsActedOn, ProbesAreInside, NoSlotLeak,
              ProbesCounted, StampsArePast, Goto
  <1>0. /\ Cardinality(probes) \in Nat
        /\ c \in probes => Cardinality(probes) > 0
        /\ Cardinality(probes \cup {c})
             = IF c \in probes THEN Cardinality(probes) ELSE Cardinality(probes) + 1
        /\ Cardinality(probes \ {c})
             = IF c \in probes THEN Cardinality(probes) - 1 ELSE Cardinality(probes)
    BY ProbeCount
  <1>1. CASE AllowRequest(c)
    BY <1>1 DEF AllowRequest, breaker
  <1>2. CASE ReadClock(c)
    BY <1>2 DEF ReadClock, breaker
  <1>3. CASE RefusedOpen(c)
    BY <1>3 DEF RefusedOpen, breaker
  <1>4. CASE EnterHalfOpen(c)
    <2>1. half_open_inflight_' = 1 /\ Goto(c, "calling")
      BY <1>4, SlotTaken DEF EnterHalfOpen
    <2>2. Cardinality(probes') = 1
      BY <1>4, OneProbe DEF EnterHalfOpen
    <2>3. QED
      BY <1>4, <2>1, <2>2 DEF EnterHalfOpen
  <1>5. CASE AskForSlot(c)
    <2>1. c \notin probes
      BY <1>5 DEF AskForSlot
    <2>2. CASE half_open_inflight_ < MaxInflight
      <3>1. half_open_inflight_' = half_open_inflight_ + 1 /\ Goto(c, "calling")
        BY <1>5, <2>2, SlotTaken DEF AskForSlot
      <3>2. QED
        BY <1>0, <1>5, <2>1, <2>2, <3>1 DEF AskForSlot
    <2>3. CASE ~(half_open_inflight_ < MaxInflight)
      <3>1. half_open_inflight_' = half_open_inflight_ /\ Goto(c, "idle")
        BY <1>5, <2>3, SlotTaken DEF AskForSlot
      <3>2. QED
        BY <1>0, <1>5, <2>1, <2>3, <3>1 DEF AskForSlot
    <2>4. QED
      BY <2>2, <2>3
  <1>6. CASE OnSuccess(c)
    <2>1. CASE SuccessClosed(c)
      BY <1>6, <2>1 DEF OnSuccess, SuccessClosed
    <2>2. CASE SuccessHalfOpen(c)
      <3>1. CASE consecutive_successes_ + 1 >= SuccessesToClose
        BY <1>6, <2>2, <3>1 DEF OnSuccess, SuccessHalfOpen, ForgetPeriod
      <3>2. CASE ~(consecutive_successes_ + 1 >= SuccessesToClose)
        <4>1. /\ half_open_inflight_' = IF half_open_inflight_ > 0
                                         THEN half_open_inflight_ - 1 ELSE 0
              /\ consecutive_successes_' = consecutive_successes_ + 1
              /\ probes' = probes \ {c}
              /\ stale' = IF c \in probes THEN stale ELSE stale + 1
              /\ UNCHANGED <<state_, consecutive_failures_, opened_at_, clock, now>>
              /\ Goto(c, "idle")
          BY <1>6, <2>2, <3>2
             DEF OnSuccess, SuccessHalfOpen, CreditReport, ReleaseSlot
        <4>2. TypeOK'
          BY <3>2, <4>1
        <4>3. NoSlotLeak' /\ ProbesCounted'
          BY <1>0, <4>1
        <4>4. ThresholdsActedOn' /\ ProbesAreInside' /\ StampsArePast'
          BY <2>2, <3>2, <4>1 DEF SuccessHalfOpen
        <4>5. QED
          BY <4>2, <4>3, <4>4
      <3>3. QED
        BY <3>1, <3>2
    <2>3. CASE ReportOpen(c)
      BY <1>6, <2>3 DEF OnSuccess, ReportOpen, breaker
    <2>4. QED
      BY <1>6, <2>1, <2>2, <2>3 DEF OnSuccess
  <1>7. CASE OnFailure(c)
    <2>1. CASE FailureClosed(c)
      BY <1>7, <2>1 DEF OnFailure, FailureClosed, TripsOn
    <2>2. CASE FailureHalfOpen(c)
      BY <1>7, <2>2 DEF OnFailure, FailureHalfOpen, ForgetPeriod
    <2>3. CASE ReportOpen(c)
      BY <1>7, <2>3 DEF OnFailure, ReportOpen, breaker
    <2>4. QED
      BY <1>7, <2>1, <2>2, <2>3 DEF OnFailure
  <1>8. QED
    BY <1>1, <1>2, <1>3, <1>4, <1>5, <1>6, <1>7 DEF CallerStep

LEMMA NextInv == IInv /\ [Next]_vars => IInv'
  <1> SUFFICES ASSUME IInv, [Next]_vars PROVE IInv'
    OBVIOUS
  <1> USE DEF IInv, TypeOK, ThresholdsActedOn, ProbesAreInside, NoSlotLeak,
              ProbesCounted, StampsArePast
  <1>1. CASE Tick
    BY <1>1 DEF Tick, breaker
  <1>2. ASSUME NEW c \in Callers, Die(c) PROVE IInv'
    BY <1>2 DEF Die, Goto, breaker
  <1>3. CASE UNCHANGED vars
    BY <1>3 DEF vars, breaker
  <1>4. QED
    BY <1>1, <1>2, <1>3, CallerStepInv DEF Next

LEMMA Inductive == Spec => []IInv
  BY InitInv, NextInv, PTL DEF Spec

-----------------------------------------------------------------------------

\* The fields keep their types and no counter passes its threshold, so the
\* uint32_t counters of the code cannot wrap, whatever the options.
THEOREM TypeCorrect == Spec => []TypeOK
  <1>1. IInv => TypeOK
    BY DEF IInv
  <1>2. QED
    BY <1>1, Inductive, PTL

\* No sequence of calls, late reports or dead callers makes the breaker hold a
\* half-open slot that no probe of the current period holds.
THEOREM SlotsDoNotLeak == Spec => []NoSlotLeak
  <1>1. IInv => NoSlotLeak
    BY DEF IInv
  <1>2. QED
    BY <1>1, Inductive, PTL

\* The bound on concurrent probes is exceeded by at most one probe per late
\* report.
THEOREM OvershootBounded == Spec => []OvershootIsStaleReports
  <1>1. IInv => OvershootIsStaleReports
    <2> SUFFICES ASSUME IInv, state_ = "half_open"
                 PROVE  Cardinality(probes) <= MaxInflight + stale
      BY DEF OvershootIsStaleReports
    <2>1. Cardinality(probes) \in Nat
      BY CallersAssumption, FS_Subset, FS_CardinalityType DEF IInv, TypeOK
    <2>2. QED
      BY <2>1, OptionsNormalised DEF IInv, TypeOK, ProbesCounted
  <1>2. QED
    BY <1>1, Inductive, PTL

\* Thresholds are acted on in the step that reaches them.
THEOREM ThresholdsRespected == Spec => []ThresholdsActedOn
  <1>1. IInv => ThresholdsActedOn
    BY DEF IInv
  <1>2. QED
    BY <1>1, Inductive, PTL

-----------------------------------------------------------------------------
(* The breaker implements its contract. *)

\* Every step of a caller is a step of the contract or leaves it unchanged.
LEMMA CallerStepContract ==
    ASSUME IInv, NEW c \in Callers, CallerStep(c)
    PROVE  [Contract!Next]_(Contract!vars)
  <1> DEFINE Inside == {d \in Callers : pc[d] \in {"calling", "dead"}}
  <1> USE OptionsNormalised, OptionsAssumption DEF Goto
  <1>0. pc \in [Callers -> {"idle", "clock", "lock", "calling", "dead"}]
    BY DEF IInv, TypeOK
  <1>a. ASSUME Goto(c, "calling") PROVE Inside' = Inside \cup {c}
    BY <1>0, <1>a
  <1>b. ASSUME pc[c] \in {"idle", "clock", "lock"},
               \E l \in {"idle", "clock", "lock"} : Goto(c, l)
        PROVE  Inside' = Inside
    BY <1>0, <1>b
  <1>c. ASSUME pc[c] = "calling", Goto(c, "idle")
        PROVE  c \in Inside /\ Inside' = Inside \ {c}
    BY <1>0, <1>c
  <1>1. CASE AllowRequest(c)
    <2>1. CASE state_ = "closed"
      <3>1. Contract!Admit(c)
        BY <1>1, <2>1, <1>a DEF AllowRequest, breaker, Contract!Admit
      <3>2. QED
        BY <3>1 DEF Contract!Next
    <2>2. CASE state_ # "closed"
      BY <1>1, <2>2, <1>b DEF AllowRequest, breaker, Contract!vars
    <2>3. QED
      BY <2>1, <2>2
  <1>2. CASE ReadClock(c)
    BY <1>2, <1>b DEF ReadClock, breaker, Contract!vars
  <1>3. CASE RefusedOpen(c)
    BY <1>3, <1>b DEF RefusedOpen, breaker, Contract!vars
  <1>4. CASE EnterHalfOpen(c)
    <2>1. Goto(c, "calling")
      BY <1>4, SlotTaken DEF EnterHalfOpen
    <2>2. clock - opened_at_ >= open_interval
      BY <1>4 DEF EnterHalfOpen, IntervalElapsed, IInv, TypeOK, StampsArePast
    <2>3. Contract!Probe(c)
      BY <1>4, <1>a, <2>1, <2>2 DEF EnterHalfOpen, Contract!Probe
    <2>4. QED
      BY <2>3 DEF Contract!Next
  <1>5. CASE AskForSlot(c)
    <2>1. half_open_inflight_ \in 0 .. MaxInflight
      BY DEF IInv, TypeOK
    <2>2. Goto(c, "calling") \/ Goto(c, "idle")
      BY <1>5, <2>1, SlotTaken DEF AskForSlot
    <2>3. CASE Goto(c, "calling")
      <3>1. Contract!Admit(c)
        BY <1>5, <1>a, <2>3 DEF AskForSlot, Contract!Admit
      <3>2. QED
        BY <3>1 DEF Contract!Next
    <2>4. CASE Goto(c, "idle")
      BY <1>5, <1>b, <2>4 DEF AskForSlot, Contract!vars
    <2>5. QED
      BY <2>2, <2>3, <2>4
  <1>6. CASE OnSuccess(c)
    <2>1. Contract!Report(c)
      BY <1>6, <1>c DEF OnSuccess, SuccessClosed, SuccessHalfOpen, ReportOpen,
                        breaker, Contract!Report
    <2>2. QED
      BY <2>1 DEF Contract!Next
  <1>7. CASE OnFailure(c)
    <2>1. Contract!Report(c)
      BY <1>7, <1>c DEF OnFailure, FailureClosed, FailureHalfOpen, ReportOpen,
                        breaker, Contract!Report
    <2>2. QED
      BY <2>1 DEF Contract!Next
  <1>8. QED
    BY <1>1, <1>2, <1>3, <1>4, <1>5, <1>6, <1>7 DEF CallerStep

\* The initial states map to initial states, and every step to a step of the
\* contract or a stutter.
THEOREM RefinesContract == Spec => ImplementsContract
  <1>1. Init => Contract!Init
    BY DEF Init, Contract!Init
  <1>2. IInv /\ [Next]_vars => [Contract!Next]_(Contract!vars)
    <2> SUFFICES ASSUME IInv, [Next]_vars PROVE [Contract!Next]_(Contract!vars)
      OBVIOUS
    <2>1. CASE Tick
      BY <2>1 DEF Tick, breaker, IInv, TypeOK, Contract!Next, Contract!Tick
    <2>2. ASSUME NEW c \in Callers, Die(c)
          PROVE  [Contract!Next]_(Contract!vars)
      BY <2>2 DEF Die, Goto, breaker, IInv, TypeOK, Contract!vars
    <2>3. CASE UNCHANGED vars
      BY <2>3 DEF vars, breaker, Contract!vars
    <2>4. QED
      BY <2>1, <2>2, <2>3, CallerStepContract DEF Next
  <1>3. QED
    BY <1>1, <1>2, Inductive, PTL DEF Spec, ImplementsContract, Contract!Spec
=============================================================================

--------------------------- MODULE LibraryProofs ---------------------------
(***************************************************************************)
(* Safety of the supporting libraries. Of pkg/resilience the circuit       *)
(* breaker, for every configuration and any finite set of callers; the     *)
(* rate limiter with the load shedder, for every rate, bucket and number   *)
(* of requesters; and the checkpoints a crash falls back on. Of            *)
(* pkg/performance the pipeline, for every number of workers and items,    *)
(* and the scaler and the balancer, for every policy. Then the hooks, for  *)
(* any hooks and calls, and the checkpoints of files, for any files and    *)
(* limits.                                                                 *)
(***************************************************************************)
EXTENDS CircuitBreaker, RateLimiter, Recovery, Pipeline, Scaling, Hooks, CheckpointManager, FiniteSetTheorems, SequenceTheorems, TLAPS

\* What is left of a sequence without one of its elements.
LEMMA OneRemoved ==
    ASSUME NEW S, NEW s \in Seq(S), NEW k \in 1 .. Len(s)
    PROVE  /\ RemoveAt(s, k) \in Seq(S)
           /\ Len(RemoveAt(s, k)) = Len(s) - 1
           /\ \A l \in 1 .. Len(s) - 1 : RemoveAt(s, k)[l] = IF l < k THEN s[l] ELSE s[l + 1]
<1>1. Len(s) \in Nat
  OBVIOUS
<1>2. /\ SubSeq(s, 1, k - 1) \in Seq(S)
      /\ Len(SubSeq(s, 1, k - 1)) = k - 1
      /\ \A l \in 1 .. k - 1 : SubSeq(s, 1, k - 1)[l] = s[l]
  BY <1>1
<1>3. /\ SubSeq(s, k + 1, Len(s)) \in Seq(S)
      /\ Len(SubSeq(s, k + 1, Len(s))) = Len(s) - k
      /\ \A l \in 1 .. Len(s) - k : SubSeq(s, k + 1, Len(s))[l] = s[k + l]
  BY <1>1
<1> DEFINE before == SubSeq(s, 1, k - 1)
           after == SubSeq(s, k + 1, Len(s))
<1>4. RemoveAt(s, k) = before \o after
  BY DEF RemoveAt
<1> HIDE DEF before, after
<1>5. /\ before \o after \in Seq(S)
      /\ Len(before \o after) = Len(before) + Len(after)
      /\ \A l \in 1 .. Len(before) + Len(after) :
            (before \o after)[l] = IF l <= Len(before) THEN before[l] ELSE after[l - Len(before)]
  BY <1>2, <1>3, ConcatProperties DEF before, after
<1>6. Len(before) = k - 1 /\ Len(after) = Len(s) - k
  BY <1>2, <1>3 DEF before, after
<1>7. ASSUME NEW l \in 1 .. Len(s) - 1
      PROVE  (before \o after)[l] = IF l < k THEN s[l] ELSE s[l + 1]
  <2>1. CASE l < k
    BY <1>1, <1>2, <1>5, <1>6, <2>1 DEF before
  <2>2. CASE ~ (l < k)
    <3>1. l - (k - 1) \in 1 .. Len(s) - k
      BY <1>1, <2>2
    <3>2. (before \o after)[l] = after[l - (k - 1)]
      BY <1>1, <1>5, <1>6, <2>2
    <3>3. after[l - (k - 1)] = s[k + (l - (k - 1))]
      BY <1>3, <3>1 DEF after
    <3>4. QED
      BY <1>1, <2>2, <3>2, <3>3
  <2>3. QED
    BY <2>1, <2>2
<1>8. QED
  BY <1>1, <1>4, <1>5, <1>6, <1>7

-----------------------------------------------------------------------------
(* The circuit breaker.                                                    *)

\* Types of the initial state and of every step.
LEMMA InitTypeOK == Init => TypeOK
  BY BreakerAssumption DEF BreakerAssumption, Init, TypeOK

LEMMA NextTypeOK == TypeOK /\ [Next]_vars => TypeOK'
<1> SUFFICES ASSUME TypeOK, [Next]_vars PROVE TypeOK'
  OBVIOUS
<1> USE BreakerAssumption DEF BreakerAssumption, TypeOK
<1>1. ASSUME NEW c \in Callers, AllowRequest(c) PROVE TypeOK'
  <2>1. CASE AdmitClosed(c)
    BY <1>1, <2>1 DEF AdmitClosed
  <2>2. CASE AdmitProbe(c)
    BY <1>1, <2>2 DEF AdmitProbe
  <2>3. CASE AdmitTrial(c)
    BY <1>1, <2>3 DEF AdmitTrial
  <2>4. QED
    BY <1>1, <2>1, <2>2, <2>3 DEF AllowRequest
<1>2. ASSUME NEW c \in Callers, RecordFailure(c) PROVE TypeOK'
  <2>1. OneMore(failureCount, FailureThreshold) \in 0 .. FailureThreshold
    BY DEF OneMore
  <2>2. QED
    BY <1>2, <2>1 DEF RecordFailure, TransitionTo
<1>3. ASSUME NEW c \in Callers, RecordSuccess(c) PROVE TypeOK'
  <2>1. calling' = calling \ {c} /\ UNCHANGED halfOpenCalls
    BY <1>3 DEF RecordSuccess, TransitionTo
  <2>2. state' \in {"closed", "open", "half-open"} /\ timer' \in {"running", "over"}
    BY <1>3 DEF RecordSuccess, TransitionTo
  <2>3. failureCount' \in {0, failureCount} /\ successCount' \in 0 .. SuccessThreshold
    BY <1>3 DEF RecordSuccess, TransitionTo
  <2>4. trials' \in SUBSET calling'
    BY <1>3, <2>1 DEF RecordSuccess
  <2>5. QED
    BY <2>1, <2>2, <2>3, <2>4
<1>4. CASE Reset
  BY <1>4 DEF Reset, TransitionTo
<1>5. CASE ForceOpen
  BY <1>5 DEF ForceOpen, TransitionTo
<1>6. CASE TimeoutElapses
  BY <1>6 DEF TimeoutElapses
<1>7. CASE UNCHANGED vars
  BY <1>7 DEF vars
<1>8. QED
  BY <1>1, <1>2, <1>3, <1>4, <1>5, <1>6, <1>7 DEF Next

\* The counters of the breaker stay within the bounds of its configuration, and
\* only calls in flight are counted as trials.
THEOREM TypeCorrect == Spec => []TypeOK
  BY InitTypeOK, NextTypeOK, PTL DEF Spec

-----------------------------------------------------------------------------
\* A report that comes late meets a failure count that was reset when the
\* breaker closed; so a closed breaker is always below its threshold.
THEOREM NeverClosedAtThreshold == Spec => []ClosedBelowThreshold
<1>1. Init => ClosedBelowThreshold
  BY BreakerAssumption DEF BreakerAssumption, Init, ClosedBelowThreshold
<1>2. TypeOK /\ ClosedBelowThreshold /\ [Next]_vars => ClosedBelowThreshold'
  <2> SUFFICES ASSUME TypeOK, ClosedBelowThreshold, [Next]_vars PROVE ClosedBelowThreshold'
    OBVIOUS
  <2> USE BreakerAssumption DEF BreakerAssumption, TypeOK, ClosedBelowThreshold
  <2>1. ASSUME NEW c \in Callers, AllowRequest(c) PROVE ClosedBelowThreshold'
    BY <2>1 DEF AllowRequest, AdmitClosed, AdmitProbe, AdmitTrial
  <2>2. ASSUME NEW c \in Callers, RecordFailure(c) PROVE ClosedBelowThreshold'
    BY <2>2 DEF RecordFailure, TransitionTo
  <2>3. ASSUME NEW c \in Callers, RecordSuccess(c) PROVE ClosedBelowThreshold'
    BY <2>3 DEF RecordSuccess, TransitionTo
  <2>4. QED
    BY <2>1, <2>2, <2>3 DEF Next, Reset, ForceOpen, TransitionTo, TimeoutElapses, vars
<1>3. QED
  BY <1>1, <1>2, TypeCorrect, PTL DEF Spec

-----------------------------------------------------------------------------
LEMMA TrialsFinite == TypeOK => IsFiniteSet(trials)
  BY BreakerAssumption, FS_Subset DEF BreakerAssumption, TypeOK

\* halfOpenCalls counts every call that is let through in the half-open state,
\* and the limit is checked against it: so no schedule of callers has more than
\* HalfOpenMaxCalls trial calls in flight, whatever calls of earlier states are
\* still on their way back.
THEOREM TrialsWithinBudget == Spec => []TrialBudget
<1>1. Init => TrialBudget
  BY BreakerAssumption, FS_EmptySet DEF BreakerAssumption, Init, TrialBudget
<1>2. TypeOK /\ TrialBudget /\ [Next]_vars => TrialBudget'
  <2> SUFFICES ASSUME TypeOK, TrialBudget, [Next]_vars PROVE TrialBudget'
    OBVIOUS
  <2> USE BreakerAssumption DEF BreakerAssumption, TypeOK, TrialBudget
  <2>0. /\ IsFiniteSet(trials)
        /\ Cardinality(trials) \in Nat
        /\ Cardinality({}) = 0
    BY TrialsFinite, FS_CardinalityType, FS_EmptySet
  <2>1. ASSUME NEW c \in Callers PROVE
          /\ Cardinality(trials \cup {c}) <= Cardinality(trials) + 1
          /\ Cardinality(trials \ {c}) <= Cardinality(trials)
          /\ Cardinality(trials \cup {c}) \in Nat
          /\ Cardinality(trials \ {c}) \in Nat
          /\ Cardinality({c}) = 1
    <3>1. Cardinality(trials \cup {c}) \in {Cardinality(trials), Cardinality(trials) + 1}
      BY <2>0, FS_AddElement
    <3>2. Cardinality(trials \ {c}) \in {Cardinality(trials), Cardinality(trials) - 1}
      BY <2>0, FS_RemoveElement
    <3>3. Cardinality(trials \ {c}) \in Nat
      BY <2>0, FS_RemoveElement, FS_CardinalityType
    <3>4. Cardinality({c}) = 1
      BY FS_Singleton
    <3>5. QED
      BY <2>0, <3>1, <3>2, <3>3, <3>4
  <2>2. ASSUME NEW c \in Callers, AllowRequest(c) PROVE TrialBudget'
    <3>1. CASE AdmitClosed(c)
      BY <2>0, <3>1 DEF AdmitClosed
    <3>2. CASE AdmitProbe(c)
      BY <2>0, <2>1, <3>2 DEF AdmitProbe
    <3>3. CASE AdmitTrial(c)
      <4>1. /\ state = "half-open" /\ state' = state
            /\ halfOpenCalls < HalfOpenMaxCalls /\ halfOpenCalls' = halfOpenCalls + 1
            /\ trials' = trials \cup {c}
        BY <3>3 DEF AdmitTrial
      <4>2. Cardinality(trials \cup {c}) <= Cardinality(trials) + 1
        BY <2>1
      <4>3. Cardinality(trials') <= Cardinality(trials) + 1 /\ Cardinality(trials') \in Nat
        BY <2>1, <4>1, <4>2
      <4>4. QED
        BY <2>0, <4>1, <4>3
    <3>4. QED
      BY <2>2, <3>1, <3>2, <3>3 DEF AllowRequest
  <2>3. ASSUME NEW c \in Callers, RecordFailure(c) PROVE TrialBudget'
    <3>1. CASE state' = "open" /\ trials' = {}
      BY <2>0, <3>1
    <3>2. CASE state' = state /\ trials' = trials \ {c} /\ state # "half-open" /\ halfOpenCalls' = halfOpenCalls
      BY <2>0, <2>1, <3>2
    <3>3. QED
      BY <2>3, <3>1, <3>2 DEF RecordFailure, TransitionTo
  <2>4. ASSUME NEW c \in Callers, RecordSuccess(c) PROVE TrialBudget'
    <3>1. CASE state' # "half-open" /\ trials' = {}
      BY <2>0, <3>1
    <3>2. CASE state' = state /\ trials' = trials \ {c} /\ halfOpenCalls' = halfOpenCalls
      <4>1. Cardinality(trials') <= Cardinality(trials) /\ Cardinality(trials') \in Nat
        BY <2>1, <3>2
      <4>2. QED
        BY <2>0, <3>2, <4>1
    <3>3. QED
      BY <2>4, <3>1, <3>2 DEF RecordSuccess, TransitionTo
  <2>5. CASE Reset \/ ForceOpen
    BY <2>0, <2>5 DEF Reset, ForceOpen, TransitionTo
  <2>6. CASE TimeoutElapses \/ UNCHANGED vars
    BY <2>0, <2>6 DEF TimeoutElapses, vars
  <2>7. QED
    BY <2>2, <2>3, <2>4, <2>5, <2>6 DEF Next
<1>3. QED
  BY <1>1, <1>2, TypeCorrect, PTL DEF Spec

\* The breaker's three invariants together.
THEOREM BreakerKeepsBounds == Spec => []BreakerBounded
<1>1. TypeOK /\ ClosedBelowThreshold /\ TrialBudget => BreakerBounded
  BY DEF BreakerBounded
<1>2. QED
  BY <1>1, TypeCorrect, NeverClosedAtThreshold, TrialsWithinBudget, PTL

-----------------------------------------------------------------------------
(* The rate limiter and the load shedder.                                  *)

Executing == {r \in Clients : caller[r] = "executing"}

\* What was given and what is left is never more than the bucket and the rate
\* explain, for a span that ends with the last update; nothing was given since;
\* and all spans of the past keep to it.
LimiterInv ==
    /\ LimiterTypeOK
    /\ \A m \in Moments : m >= lastUpdate => given[m] = given[lastUpdate]
    /\ \A from \in 0 .. lastUpdate : Given(from, lastUpdate) + tokens <= BucketSize + Rate * (lastUpdate - from)
    /\ \A from, to \in Moments : from <= to => Given(from, to) <= BucketSize + Rate * (to - from)
    /\ currentLoad = Cardinality(Executing)

\* What the rate brings in two spans is what it brings in both together.
LEMMA RateAdds ==
  ASSUME NEW a \in Nat, NEW b \in Nat
  PROVE  Rate \in Nat /\ Rate * (a + b) = Rate * a + Rate * b /\ Rate * a \in Nat /\ Rate * b \in Nat
<1>1. Rate \in Nat
  BY RateLimiterAssumption DEF RateLimiterAssumption
<1>2. QED
  BY <1>1

LEMMA RateBrings ==
  ASSUME NEW from \in Nat, NEW to \in Nat, from <= to
  PROVE  Rate * (to - from) \in Nat
<1>1. Rate \in Nat /\ to - from \in Nat
  BY RateLimiterAssumption DEF RateLimiterAssumption
<1>2. \A a \in Nat : Rate * a \in Nat
  BY <1>1
<1>3. QED
  BY <1>1, <1>2

\* A refill adds at most what the rate brings since the last update.
LEMMA RefilledBounds ==
  ASSUME LimiterTypeOK
  PROVE  /\ Refilled \in 0 .. BucketSize
         /\ Refilled <= tokens + Rate * (clock - lastUpdate)
<1> DEFINE d == clock - lastUpdate
<1>1. BucketSize \in Nat /\ Rate \in Nat /\ d \in Nat /\ tokens \in 0 .. BucketSize
  BY RateLimiterAssumption DEF RateLimiterAssumption, LimiterTypeOK, Moments
<1>2. d * Rate = Rate * d /\ Rate * d \in Nat
  BY <1>1
<1> HIDE DEF d
<1>3. Refilled = IF tokens + d * Rate > BucketSize THEN BucketSize ELSE tokens + d * Rate
  BY DEF Refilled, d
<1>4. Refilled \in 0 .. BucketSize /\ Refilled <= tokens + Rate * d
  BY <1>1, <1>2, <1>3
<1>5. QED
  BY <1>4 DEF d

\* A call that refills the bucket and gives n tokens, or none at all.
LEMMA GivesKeepsBound ==
  ASSUME LimiterInv, NEW n \in 0 .. Refilled,
         tokens' = Refilled - n, lastUpdate' = clock, clock' = clock,
         given' = [m \in Moments |-> IF m >= clock THEN given[m] + n ELSE given[m]]
  PROVE  /\ tokens' \in 0 .. BucketSize /\ given' \in [Moments -> Nat]
         /\ \A m \in Moments : m >= lastUpdate' => given'[m] = given'[lastUpdate']
         /\ \A from \in 0 .. lastUpdate' :
               Given(from, lastUpdate)' + tokens' <= BucketSize + Rate * (lastUpdate' - from)
         /\ \A from, to \in Moments : from <= to => Given(from, to)' <= BucketSize + Rate * (to - from)
<1>1. /\ clock \in Nat /\ clock <= MaxClock /\ lastUpdate \in 0 .. clock /\ MaxClock \in Nat
      /\ BucketSize \in Nat /\ tokens \in 0 .. BucketSize /\ given \in [Moments -> Nat]
  BY RateLimiterAssumption DEF RateLimiterAssumption, LimiterInv, LimiterTypeOK, Moments
<1>2. Refilled \in 0 .. BucketSize /\ Refilled <= tokens + Rate * (clock - lastUpdate)
  BY RefilledBounds DEF LimiterInv
<1>3. n \in Nat /\ tokens' \in 0 .. BucketSize /\ given' \in [Moments -> Nat]
  BY <1>1, <1>2 DEF Moments
<1>4. \A m \in Moments : m >= lastUpdate => given[m] = given[lastUpdate]
  BY DEF LimiterInv
<1>5. \A m \in Moments : given'[m] = IF m >= clock THEN given[lastUpdate] + n ELSE given[m]
  BY <1>1, <1>4 DEF Moments
<1>6. given'[clock] = given[lastUpdate] + n
  BY <1>1, <1>5 DEF Moments
<1>7. ASSUME NEW from \in 0 .. clock
      PROVE  Given(from, clock)' + tokens' <= BucketSize + Rate * (clock - from)
  <2>1. from \in Moments /\ from - 1 < clock /\ (from # 0 => from - 1 \in Moments)
    BY <1>1 DEF Moments
  <2>2. CASE from <= lastUpdate
    <3>1. Given(from, lastUpdate) + tokens <= BucketSize + Rate * (lastUpdate - from)
      BY <1>1, <2>2 DEF LimiterInv
    <3>2. from # 0 => given'[from - 1] = given[from - 1] /\ given[from - 1] \in Nat
      BY <1>1, <1>5, <2>1
    <3>3. Given(from, clock)' = Given(from, lastUpdate) + n
      <4> DEFINE b == IF from = 0 THEN 0 ELSE given[from - 1]
      <4>1. b \in Nat /\ given[lastUpdate] \in Nat
        BY <1>1, <3>2 DEF Moments
      <4>2. Given(from, lastUpdate) = given[lastUpdate] - b
        BY DEF Given
      <4>3. Given(from, clock)' = given'[clock] - b
        BY <3>2 DEF Given
      <4> HIDE DEF b
      <4>4. QED
        BY <1>3, <1>6, <4>1, <4>2, <4>3
    <3>4. Given(from, lastUpdate) \in Int
      BY <1>1, <3>2 DEF Given, Moments
    <3>5. Rate * (clock - from) = Rate * (lastUpdate - from) + Rate * (clock - lastUpdate)
      <4>1. lastUpdate - from \in Nat /\ clock - lastUpdate \in Nat
            /\ clock - from = (lastUpdate - from) + (clock - lastUpdate)
        BY <1>1, <2>1, <2>2
      <4>2. QED
        BY <4>1, RateAdds
    <3>6. Rate * (lastUpdate - from) \in Nat /\ Rate * (clock - lastUpdate) \in Nat
      BY <1>1, <2>1, <2>2, RateBrings
    <3>7. Given(from, clock)' + tokens' = Given(from, lastUpdate) + Refilled
      BY <1>2, <1>3, <3>3, <3>4
    <3>8. QED
      BY <1>1, <1>2, <3>1, <3>4, <3>5, <3>6, <3>7
  <2>3. CASE from > lastUpdate
    <3>1. from # 0 /\ from - 1 >= lastUpdate
      BY <1>1, <2>3
    <3>2. given'[from - 1] = given[lastUpdate] /\ given[lastUpdate] \in Nat
      BY <1>1, <1>4, <1>5, <2>1, <3>1 DEF Moments
    <3>3. Given(from, clock)' = n
      BY <1>3, <1>6, <3>1, <3>2 DEF Given
    <3>4. Rate * (clock - from) \in Nat
      <4>1. from \in Nat /\ from <= clock
        BY <1>1
      <4>2. QED
        BY <1>1, <4>1, RateBrings
    <3>5. QED
      BY <1>1, <1>2, <1>3, <3>3, <3>4
  <2>4. QED
    BY <1>1, <2>2, <2>3
<1>8. ASSUME NEW from \in Moments, NEW to \in Moments, from <= to
      PROVE  Given(from, to)' <= BucketSize + Rate * (to - from)
  <2>1. /\ from \in Nat /\ to \in Nat /\ (from # 0 => from - 1 \in Moments)
        /\ Given(from, to) <= BucketSize + Rate * (to - from)
    BY <1>1, <1>8 DEF Moments, LimiterInv
  <2>2. CASE to < clock
    <3>1. given'[to] = given[to] /\ (from # 0 => given'[from - 1] = given[from - 1])
      BY <1>1, <1>3, <1>8, <2>1, <2>2 DEF Moments
    <3>2. QED
      BY <2>1, <3>1 DEF Given
  <2>3. CASE to >= clock /\ from <= clock
    <3>1. Given(from, to)' = Given(from, clock)'
      BY <1>1, <1>5, <1>6, <2>3 DEF Given
    <3>2. Given(from, clock)' + tokens' <= BucketSize + Rate * (clock - from)
      BY <1>1, <1>7, <2>1, <2>3
    <3>3. Given(from, clock)' \in Int
      <4>1. from # 0 => given'[from - 1] \in Nat
        BY <1>3, <2>1
      <4>2. given'[clock] \in Nat
        BY <1>1, <1>3 DEF Moments
      <4>3. QED
        BY <4>1, <4>2 DEF Given
    <3>4. Rate * (to - from) = Rate * (clock - from) + Rate * (to - clock)
          /\ Rate * (clock - from) \in Nat /\ Rate * (to - clock) \in Nat
      <4>1. clock - from \in Nat /\ to - clock \in Nat /\ to - from = (clock - from) + (to - clock)
        BY <1>1, <2>1, <2>3
      <4>2. QED
        BY <4>1, RateAdds
    <3>5. QED
      BY <1>1, <1>3, <3>1, <3>2, <3>3, <3>4
  <2>4. CASE to >= clock /\ from > clock
    <3>1. from # 0 /\ from - 1 >= clock
      BY <1>1, <2>1, <2>4
    <3>2. given'[from - 1] = given'[to] /\ given'[to] \in Nat
      BY <1>1, <1>3, <1>5, <2>1, <2>4, <3>1
    <3>3. Given(from, to)' = 0
      BY <3>1, <3>2 DEF Given
    <3>4. Rate * (to - from) \in Nat
      BY <1>8, <2>1, RateBrings
    <3>5. QED
      BY <1>1, <3>3, <3>4
  <2>5. QED
    BY <1>1, <2>1, <2>2, <2>3, <2>4
<1>9. \A m \in Moments : m >= lastUpdate' => given'[m] = given'[lastUpdate']
  BY <1>1, <1>5, <1>6
<1>10. QED
  BY <1>3, <1>7, <1>8, <1>9

\* The load counts the functions that execute, also when one of them ends.
LEMMA ExecutingCounts ==
  ASSUME LimiterTypeOK
  PROVE  /\ IsFiniteSet(Executing) /\ Cardinality(Executing) \in Nat
         /\ \A r \in Clients : \A to \in {"idle", "asking", "waiting", "allowed", "executing"} :
               caller' = [caller EXCEPT ![r] = to] =>
                 Executing' = IF to = "executing" THEN Executing \cup {r} ELSE Executing \ {r}
<1>1. IsFiniteSet(Executing)
  BY FS_Subset, RateLimiterAssumption DEF RateLimiterAssumption, Executing
<1>2. QED
  BY <1>1, FS_CardinalityType DEF LimiterTypeOK, Executing

LEMMA LimiterStep == LimiterInv /\ [LimiterNext]_limiterVars => LimiterInv'
<1> SUFFICES ASSUME LimiterInv, [LimiterNext]_limiterVars PROVE LimiterInv'
  OBVIOUS
<1> DEFINE Steps == {"idle", "asking", "waiting", "allowed", "executing"}
<1>0. /\ LimiterTypeOK /\ {Rate, BucketSize, MaxConcurrent, ShedAt, MaxClock} \subseteq Nat
      /\ Demand \in [Clients -> Nat \ {0}]
      /\ IsFiniteSet(Executing) /\ Cardinality(Executing) \in Nat /\ currentLoad = Cardinality(Executing)
  BY RateLimiterAssumption, ExecutingCounts DEF RateLimiterAssumption, LimiterInv
<1>1. ASSUME UNCHANGED <<tokens, lastUpdate, given>>, LimiterTypeOK', currentLoad' = Cardinality(Executing')
      PROVE  LimiterInv'
  <2>1. \A from, to : Given(from, to)' = Given(from, to)
    BY <1>1 DEF Given
  <2>2. QED
    BY <1>1, <2>1 DEF LimiterInv
<1>2. ASSUME NEW r \in Clients, caller[r] # "executing", NEW to \in Steps \ {"executing"},
             caller' = [caller EXCEPT ![r] = to], UNCHANGED currentLoad
      PROVE  currentLoad' = Cardinality(Executing') /\ caller' \in [Clients -> Steps]
  <2>1. Executing' = Executing \ {r} /\ r \notin Executing
    BY <1>0, <1>2, ExecutingCounts DEF Executing
  <2>2. Executing' = Executing
    BY <2>1
  <2>3. QED
    BY <1>0, <1>2, <2>2 DEF LimiterTypeOK
<1>3. ASSUME NEW r \in Clients, Request(r) \/ TryAgain(r) \/ GiveUpWaiting(r) \/ Shed(r) PROVE LimiterInv'
  <2>1. /\ UNCHANGED <<clock, tokens, lastUpdate, currentLoad, given>> /\ caller[r] # "executing"
        /\ caller' = [caller EXCEPT ![r] = "idle"] \/ caller' = [caller EXCEPT ![r] = "asking"]
    BY <1>3 DEF Request, TryAgain, GiveUpWaiting, Shed, At
  <2>2. currentLoad' = Cardinality(Executing') /\ caller' \in [Clients -> Steps]
    BY <1>2, <2>1
  <2>3. QED
    BY <1>0, <1>1, <2>1, <2>2 DEF LimiterTypeOK
<1>4. ASSUME NEW r \in Clients, AllowN(r) PROVE LimiterInv'
  <2>1. Refilled \in 0 .. BucketSize /\ Demand[r] \in 0 .. Refilled
    BY <1>0, <1>4, RefilledBounds DEF AllowN
  <2>2. /\ tokens' = Refilled - Demand[r] /\ lastUpdate' = clock /\ clock' = clock /\ UNCHANGED currentLoad
        /\ given' = [m \in Moments |-> IF m >= clock THEN given[m] + Demand[r] ELSE given[m]]
        /\ caller[r] = "asking" /\ caller' = [caller EXCEPT ![r] = "allowed"]
    BY <1>4 DEF AllowN, At
  <2>3. currentLoad' = Cardinality(Executing') /\ caller' \in [Clients -> Steps]
    BY <1>2, <2>2
  <2>4. QED
    <3>1. LimiterTypeOK'
      <4>1. lastUpdate' \in 0 .. clock' /\ clock' \in Moments
        BY <1>0, <2>1, <2>2 DEF LimiterTypeOK, Moments
      <4>2. tokens' \in 0 .. BucketSize /\ given' \in [Moments -> Nat]
        BY <2>1, <2>2, GivesKeepsBound
      <4>3. QED
        BY <1>0, <2>1, <2>2, <2>3, <4>1, <4>2 DEF LimiterTypeOK
    <3>2. QED
      BY <2>1, <2>2, <2>3, <3>1, GivesKeepsBound DEF LimiterInv
<1>5. ASSUME NEW r \in Clients, Refuse(r) PROVE LimiterInv'
  <2>1. /\ Refilled \in 0 .. BucketSize /\ 0 \in 0 .. Refilled
        /\ tokens' = Refilled - 0 /\ lastUpdate' = clock /\ clock' = clock /\ UNCHANGED currentLoad
        /\ caller[r] = "asking" /\ caller' = [caller EXCEPT ![r] = "waiting"]
    BY <1>0, <1>5, RefilledBounds DEF Refuse, At
  <2>2. given' = [m \in Moments |-> IF m >= clock THEN given[m] + 0 ELSE given[m]]
    BY <1>0, <1>5 DEF Refuse, LimiterTypeOK
  <2>3. currentLoad' = Cardinality(Executing') /\ caller' \in [Clients -> Steps]
    BY <1>2, <2>1
  <2>4. QED
    <3>1. LimiterTypeOK'
      <4>1. lastUpdate' \in 0 .. clock' /\ clock' \in Moments
        BY <1>0, <2>1, <2>2 DEF LimiterTypeOK, Moments
      <4>2. tokens' \in 0 .. BucketSize /\ given' \in [Moments -> Nat]
        BY <2>1, <2>2, GivesKeepsBound
      <4>3. QED
        BY <1>0, <2>1, <2>2, <2>3, <4>1, <4>2 DEF LimiterTypeOK
    <3>2. QED
      BY <2>1, <2>2, <2>3, <3>1, GivesKeepsBound DEF LimiterInv
<1>6. ASSUME NEW r \in Clients, Acquire(r) PROVE LimiterInv'
  <2>1. Executing' = Executing \cup {r} /\ r \notin Executing
    BY <1>0, <1>6, ExecutingCounts DEF Acquire, At, Executing
  <2>2. Cardinality(Executing') = Cardinality(Executing) + 1
    BY <1>0, <2>1, FS_AddElement
  <2>3. QED
    BY <1>0, <1>1, <1>6, <2>2 DEF Acquire, At, LimiterTypeOK
<1>7. ASSUME NEW r \in Clients, Release(r) PROVE LimiterInv'
  <2>1. Executing' = Executing \ {r} /\ r \in Executing
    BY <1>0, <1>7, ExecutingCounts DEF Release, At, Executing
  <2>2. Cardinality(Executing') = Cardinality(Executing) - 1 /\ Cardinality(Executing') \in Nat
    BY <1>0, <2>1, FS_RemoveElement, FS_CardinalityType
  <2>3. QED
    BY <1>0, <1>1, <1>7, <2>2 DEF Release, At, LimiterTypeOK
<1>8. CASE TickClock
  BY <1>0, <1>1, <1>8 DEF TickClock, LimiterTypeOK, Moments, Executing
<1>9. CASE UNCHANGED limiterVars
  BY <1>0, <1>1, <1>9 DEF limiterVars, LimiterTypeOK, Executing
<1>10. QED
  BY <1>3, <1>4, <1>5, <1>6, <1>7, <1>8, <1>9 DEF LimiterNext

\* For every rate, bucket and demand, and whoever asks when: no span of time sees
\* more tokens given than the bucket holds and the rate brings in it, and the load
\* is the number of functions that execute.
THEOREM LimiterNeverBursts == LimiterSpec => []NoBurst
<1>1. LimiterInit => LimiterInv
  <2> SUFFICES ASSUME LimiterInit PROVE LimiterInv
    OBVIOUS
  <2>1. /\ {Rate, BucketSize, MaxConcurrent, ShedAt, MaxClock} \subseteq Nat
        /\ clock = 0 /\ lastUpdate = 0 /\ tokens = BucketSize /\ currentLoad = 0
        /\ caller = [r \in Clients |-> "idle"] /\ given = [m \in Moments |-> 0]
    BY RateLimiterAssumption DEF RateLimiterAssumption, LimiterInit
  <2>2. LimiterTypeOK
    BY <2>1 DEF LimiterTypeOK, Moments
  <2>3. \A from, to \in Moments : from <= to => Given(from, to) = 0 /\ Rate * (to - from) \in Nat
    <3>1. ASSUME NEW from \in Moments, NEW to \in Moments, from <= to
          PROVE  Given(from, to) = 0 /\ Rate * (to - from) \in Nat
      <4>1. from \in Nat /\ to \in Nat /\ to - from \in Nat /\ (from # 0 => from - 1 \in Moments)
        BY <2>1, <3>1 DEF Moments
      <4>2. QED
        BY <2>1, <3>1, <4>1, RateBrings DEF Given
    <3>2. QED
      BY <3>1
  <2>4. Given(0, 0) + tokens <= BucketSize + Rate * (0 - 0)
    <3>1. 0 \in Moments /\ Given(0, 0) = 0 /\ Rate * (0 - 0) \in Nat
      BY <2>1, <2>3 DEF Moments
    <3>2. QED
      BY <2>1, <3>1
  <2>5. Executing = {}
    BY <2>1 DEF Executing
  <2>6. \A m \in Moments : m >= lastUpdate => given[m] = given[lastUpdate]
    BY <2>1 DEF Moments
  <2>7. \A from \in 0 .. lastUpdate : Given(from, lastUpdate) + tokens <= BucketSize + Rate * (lastUpdate - from)
    <3>1. \A from \in 0 .. lastUpdate : from = 0
      BY <2>1
    <3>2. QED
      BY <2>1, <2>4, <3>1
  <2>8. \A from, to \in Moments : from <= to => Given(from, to) <= BucketSize + Rate * (to - from)
    <3>1. ASSUME NEW from \in Moments, NEW to \in Moments, from <= to
          PROVE  Given(from, to) <= BucketSize + Rate * (to - from)
      <4>1. PICK rate : rate = Rate * (to - from)
        OBVIOUS
      <4>2. Given(from, to) = 0 /\ rate \in Nat
        BY <2>3, <3>1, <4>1
      <4>3. Given(from, to) <= BucketSize + rate
        BY <2>1, <4>2
      <4>4. QED
        BY <4>1, <4>3
    <3>2. QED
      BY <3>1
  <2>9. currentLoad = Cardinality(Executing)
    BY <2>1, <2>5, FS_EmptySet
  <2>10. QED
    BY <2>2, <2>6, <2>7, <2>8, <2>9 DEF LimiterInv
<1>2. LimiterInv => NoBurst
  BY DEF LimiterInv, NoBurst, Executing
<1>3. QED
  BY <1>1, <1>2, LimiterStep, PTL DEF LimiterSpec

-----------------------------------------------------------------------------
(* Recovery.                                                               *)

\* A checkpoint being created is of the running agent, and no older than what was
\* promised.
RecoveryInv ==
    /\ CrashCostsLittle
    /\ \A c \in Checkpointers : creating[c].step # "idle" =>
         agent = "running" /\ promised <= creating[c].work /\ creating[c].work <= work

\* The steps of CreateCheckpoint, by the only goroutine that calls it: what it saves
\* was extracted when everything promised was part of the state, and nothing was
\* promised since.
LEMMA CheckpointsKeepInv ==
    ASSUME \A c, d \in Checkpointers : c = d, RecoveryInv,
           NEW c \in Checkpointers, ExtractState(c) \/ LoadVersion(c) \/ SaveCheckpoint(c)
    PROVE  RecoveryInv'
<1>0. RecoveryTypeOK /\ {MaxWork, MaxVersion} \subseteq Nat /\ Idle.step = "idle"
    BY RecoveryAssumption DEF RecoveryInv, CrashCostsLittle, Idle
<1>1. CASE ExtractState(c)
    BY <1>0, <1>1 DEF ExtractState, RecoveryInv, CrashCostsLittle, RecoveryTypeOK
<1>2. CASE LoadVersion(c)
    <2>1. checkpoint.version + 1 \in 0 .. MaxVersion
        BY <1>0, <1>2 DEF LoadVersion, RecoveryTypeOK
    <2>2. [creating[c] EXCEPT !.step = "loaded", !.version = checkpoint.version + 1]
          \in [step : {"idle", "extracted", "loaded"}, work : 0 .. MaxWork, version : 0 .. MaxVersion]
        BY <1>0, <2>1 DEF RecoveryTypeOK
    <2>3. RecoveryTypeOK'
        BY <1>0, <1>2, <2>2 DEF LoadVersion, RecoveryTypeOK
    <2>4. creating[c].step # "idle" /\ creating'[c].work = creating[c].work
        BY <1>0, <1>2 DEF LoadVersion, RecoveryTypeOK
    <2>5. UNCHANGED <<agent, work, checkpoint, promised>> /\ \A d \in Checkpointers : d = c
        BY <1>2 DEF LoadVersion
    <2>6. CrashCostsLittle'
        BY <2>3, <2>5 DEF RecoveryInv, CrashCostsLittle
    <2> QED BY <2>4, <2>5, <2>6 DEF RecoveryInv
<1>3. CASE SaveCheckpoint(c)
    <2>1. creating[c] \in [step : {"idle", "extracted", "loaded"}, work : 0 .. MaxWork, version : 0 .. MaxVersion]
        BY <1>0 DEF RecoveryTypeOK
    <2>2. agent = "running" /\ promised <= creating[c].work /\ creating[c].work <= work
        BY <1>3 DEF SaveCheckpoint, RecoveryInv
    <2>3. creating' \in [Checkpointers ->
              [step : {"idle", "extracted", "loaded"}, work : 0 .. MaxWork, version : 0 .. MaxVersion]]
        BY <1>0, <1>3 DEF SaveCheckpoint, RecoveryTypeOK, Idle
    <2>4. \A d \in Checkpointers : creating'[d].step = "idle"
        BY <1>0, <1>3 DEF SaveCheckpoint, RecoveryTypeOK
    <2>5. UNCHANGED <<checkpoint, promised>>
          \/ (/\ checkpoint' = [version |-> creating[c].version, work |-> creating[c].work]
              /\ promised' = creating[c].work)
        BY <1>0, <1>3, <2>1, <2>2 DEF SaveCheckpoint, RecoveryTypeOK
    <2>6. RecoveryTypeOK'
        BY <1>0, <1>3, <2>1, <2>3, <2>5 DEF SaveCheckpoint, RecoveryTypeOK
    <2>7. checkpoint'.work >= promised' /\ (agent' = "running" => work' >= promised')
        <3>1. promised \in Nat /\ work \in Nat /\ creating[c].work \in Nat
            BY <1>0, <2>1 DEF RecoveryTypeOK
        <3> QED BY <1>3, <2>2, <2>5, <3>1 DEF SaveCheckpoint, RecoveryInv, CrashCostsLittle
    <2> QED BY <2>4, <2>6, <2>7 DEF RecoveryInv, CrashCostsLittle
<1> QED BY <1>1, <1>2, <1>3

\* With one goroutine that creates checkpoints, whatever the bounds, a crash costs
\* no more than the work since a checkpoint that was saved.
THEOREM CrashesCostLittle ==
    ASSUME \A c, d \in Checkpointers : c = d
    PROVE  RecoverySpec => []CrashCostsLittle
<1>1. RecoveryInit => RecoveryInv
    BY RecoveryAssumption DEF RecoveryInit, RecoveryInv, CrashCostsLittle, RecoveryTypeOK, NoCheckpoint, Idle
<1>2. RecoveryInv /\ [RecoveryNext]_recoveryVars => RecoveryInv'
    <2> SUFFICES ASSUME RecoveryInv, [RecoveryNext]_recoveryVars PROVE RecoveryInv'
        OBVIOUS
    <2>0. RecoveryTypeOK /\ {MaxWork, MaxCrashes, MaxVersion} \subseteq Nat
        BY RecoveryAssumption DEF RecoveryInv, CrashCostsLittle
    <2>1. CASE Work \/ Restart \/ Recover
        BY <2>0, <2>1 DEF Work, Restart, Recover, RecoveryInv, CrashCostsLittle, RecoveryTypeOK
    <2>2. CASE Crash
        BY <2>0, <2>2 DEF Crash, RecoveryInv, CrashCostsLittle, RecoveryTypeOK, Idle
    <2>3. CASE UNCHANGED recoveryVars
        BY <2>3 DEF recoveryVars, RecoveryInv, CrashCostsLittle, RecoveryTypeOK
    <2> QED BY <2>1, <2>2, <2>3, CheckpointsKeepInv DEF RecoveryNext
<1>3. RecoveryInv => CrashCostsLittle
    BY DEF RecoveryInv
<1> QED BY <1>1, <1>2, <1>3, PTL DEF RecoverySpec
-----------------------------------------------------------------------------
(* The pipeline of pkg/performance. An item is waiting, with one worker,   *)
(* kept or rejected: the waiting ones are the last that were submitted, in *)
(* order, and the others are all accounted for. A worker returns with an   *)
(* item only when the context is over, and the first to return without one *)
(* has found the input closed and empty.                                   *)

Taken == submits - Len(input)
Kept == results \cup ToSet(output)
Busy(w) == stage[w] # "idle"

PipelineTypes ==
    /\ input \in Seq(Nat) /\ output \in Seq(Nat)
    /\ task \in [Workers -> Nat]
    /\ stage \in [Workers -> {"idle", "processing", "sending"}]
    /\ running \in SUBSET Workers
    /\ submits \in Nat /\ pipelineOver \in BOOLEAN
    /\ closing \in {"no", "waiting", "stopped"}

WaitingInOrder ==
    /\ Len(input) <= submits
    /\ \A i \in 1 .. Len(input) : input[i] = Taken + i

WithWorkers ==
    \A w \in Workers : Busy(w) =>
        /\ task[w] \in 1 .. Taken
        /\ task[w] \notin Kept \cup rejected
        /\ \A x \in Workers : Busy(x) /\ x # w => task[x] # task[w]

Accounted ==
    /\ Kept \cap rejected = {}
    /\ Kept \cup rejected \subseteq 1 .. Taken
    /\ \A n \in 1 .. Taken : n \in Kept \cup rejected \/ \E w \in Workers : Busy(w) /\ task[w] = n

WorkersReturn ==
    ~pipelineOver =>
        /\ \A w \in Workers \ running : ~Busy(w)
        /\ closing = "no" => running \in {{}, Workers}
        /\ closing # "no" => Workers # {} /\ (running = Workers \/ input = <<>>)
        /\ closing = "stopped" => running = {}

PipelineInv == PipelineTypes /\ WaitingInOrder /\ WithWorkers /\ Accounted /\ WorkersReturn

\* What the channels hold after a send and after a receive.
LEMMA ToSetOfAppend ==
  ASSUME NEW s \in Seq(Nat), NEW e \in Nat PROVE ToSet(Append(s, e)) = ToSet(s) \cup {e}
<1>1. DOMAIN Append(s, e) = 1 .. Len(s) + 1 /\ DOMAIN s = 1 .. Len(s) /\ Len(s) \in Nat
  OBVIOUS
<1>2. \A i \in 1 .. Len(s) : Append(s, e)[i] = s[i]
  OBVIOUS
<1>3. Append(s, e)[Len(s) + 1] = e
  OBVIOUS
<1>4. \A i : i \in 1 .. Len(s) + 1 <=> i \in 1 .. Len(s) \/ i = Len(s) + 1
  BY <1>1
<1>5. QED
  BY <1>1, <1>2, <1>3, <1>4, Zenon DEF ToSet

LEMMA ToSetOfTail ==
  ASSUME NEW s \in Seq(Nat), s # <<>> PROVE
    /\ Head(s) \in Nat /\ Tail(s) \in Seq(Nat)
    /\ ToSet(s) = ToSet(Tail(s)) \cup {Head(s)}
<1>1. Len(s) \in Nat \ {0} /\ DOMAIN s = 1 .. Len(s)
  OBVIOUS
<1>2. Tail(s) \in Seq(Nat) /\ DOMAIN Tail(s) = 1 .. Len(s) - 1 /\ Head(s) = s[1] /\ Head(s) \in Nat
  BY <1>1
<1>3. \A i \in 1 .. Len(s) - 1 : Tail(s)[i] = s[i + 1]
  BY <1>1
<1>4. \A i \in 1 .. Len(s) : i = 1 \/ (i - 1 \in 1 .. Len(s) - 1 /\ s[i] = Tail(s)[i - 1])
  BY <1>1, <1>3
<1>5. \A i \in 1 .. Len(s) - 1 : i + 1 \in 1 .. Len(s) /\ 1 \in 1 .. Len(s)
  BY <1>1
<1>6. ToSet(s) \subseteq ToSet(Tail(s)) \cup {Head(s)}
  <2>1. ASSUME NEW i \in 1 .. Len(s) PROVE s[i] \in ToSet(Tail(s)) \cup {Head(s)}
    <3>1. i = 1 => s[i] = Head(s)
      BY <1>2
    <3>2. i # 1 => s[i] \in ToSet(Tail(s))
      BY <1>2, <1>4, Zenon DEF ToSet
    <3>3. QED
      BY <3>1, <3>2
  <2>2. QED
    BY <1>1, <2>1 DEF ToSet
<1>7. ToSet(Tail(s)) \cup {Head(s)} \subseteq ToSet(s)
  BY <1>1, <1>2, <1>3, <1>5 DEF ToSet
<1>8. QED
  BY <1>2, <1>6, <1>7

LEMMA InitPipeline == PipelineInit => PipelineInv
<1> SUFFICES ASSUME PipelineInit PROVE PipelineInv
  OBVIOUS
<1>1. ToSet(output) = {}
  BY DEF PipelineInit, ToSet
<1>2. <<>> \in Seq(Nat) /\ Len(<<>>) = 0
  OBVIOUS
<1>3. input = <<>> /\ output = <<>> /\ submits = 0
  BY DEF PipelineInit
<1>4. Taken = 0
  <2>1. Len(input) = 0
    BY <1>2, <1>3, Zenon
  <2>2. submits = 0
    BY <1>3
  <2>3. QED
    BY <2>1, <2>2 DEF Taken
<1>5. \A w \in Workers : ~Busy(w)
  BY DEF PipelineInit, Busy
<1>6. PipelineTypes /\ WorkersReturn
  BY <1>2, <1>5 DEF PipelineInit, PipelineTypes, WorkersReturn
<1>7. QED
  BY <1>1, <1>2, <1>3, <1>4, <1>5, <1>6 DEF PipelineInit, PipelineInv, WaitingInOrder, WithWorkers, Accounted, Kept

LEMMA SubmitKeeps == PipelineInv /\ Submit => PipelineInv'
<1> SUFFICES ASSUME PipelineInv, Submit PROVE PipelineInv'
  OBVIOUS
<1> USE DEF PipelineInv
<1>1. submits' = submits + 1 /\ input' = Append(input, submits + 1) /\ input \in Seq(Nat) /\ submits \in Nat
  BY DEF Submit, PipelineTypes
<1>2. input' \in Seq(Nat) /\ Len(input') = Len(input) + 1 /\ Len(input) \in Nat
  BY <1>1
<1>3. Taken' = Taken
  BY <1>1, <1>2 DEF Taken
<1>4. WaitingInOrder'
  <2>1. \A i \in 1 .. Len(input) : input'[i] = input[i]
    BY <1>1
  <2>2. input'[Len(input) + 1] = submits + 1
    BY <1>1
  <2>3. ASSUME NEW i \in 1 .. Len(input) + 1 PROVE input'[i] = Taken + i
    BY <2>1, <2>2, <1>1, <1>2 DEF WaitingInOrder, Taken
  <2>4. QED
    BY <1>1, <1>2, <1>3, <2>3 DEF WaitingInOrder
<1>5. Kept' = Kept /\ rejected' = rejected /\ \A w : Busy(w)' = Busy(w)
  BY DEF Submit, Kept, Busy
<1>6. WithWorkers' /\ Accounted'
  BY <1>3, <1>5 DEF Submit, WithWorkers, Accounted
<1>7. QED
  BY <1>1, <1>2, <1>4, <1>5, <1>6 DEF Submit, PipelineTypes, WorkersReturn

LEMMA TakeKeeps ==
  ASSUME PipelineInv, NEW w \in Workers, Take(w) PROVE PipelineInv'
<1> USE DEF PipelineInv
<1>1. input \in Seq(Nat) /\ submits \in Nat /\ input # <<>> /\ Len(input) \in Nat \ {0} /\ Len(input) <= submits
  BY DEF Take, PipelineTypes, WaitingInOrder
<1>2. /\ input' = Tail(input) /\ input' \in Seq(Nat) /\ Len(input') = Len(input) - 1
      /\ \A i \in 1 .. Len(input) - 1 : input'[i] = input[i + 1]
  BY <1>1 DEF Take
<1>3. Taken' = Taken + 1 /\ Taken \in Nat
  BY <1>1, <1>2 DEF Taken, Take
<1>4. Head(input) = Taken + 1
  BY <1>1, <1>3 DEF WaitingInOrder
<1>5. WaitingInOrder'
  BY <1>1, <1>2, <1>3 DEF WaitingInOrder, Take
<1>6. Kept' = Kept /\ rejected' = rejected
  BY DEF Take, Kept
<1>7. /\ task' = [task EXCEPT ![w] = Taken + 1] /\ stage' = [stage EXCEPT ![w] = "processing"]
      /\ ~Busy(w) /\ task \in [Workers -> Nat] /\ stage \in [Workers -> {"idle", "processing", "sending"}]
  BY <1>4 DEF Take, Busy, PipelineTypes
<1>8. /\ Busy(w)' /\ task'[w] = Taken + 1
      /\ \A x \in Workers \ {w} : Busy(x)' = Busy(x) /\ task'[x] = task[x]
  BY <1>7 DEF Busy
<1>9. Taken + 1 \notin Kept \cup rejected /\ \A n : n \in 1 .. Taken + 1 <=> n \in 1 .. Taken \/ n = Taken + 1
  BY <1>3 DEF Accounted
<1>10. Taken + 1 \notin 1 .. Taken
  BY <1>3
<1>11. WithWorkers'
  BY <1>3, <1>6, <1>8, <1>9, <1>10, Zenon DEF WithWorkers
<1>12. Accounted'
  <2>1. ASSUME NEW n \in 1 .. Taken + 1, n \notin Kept \cup rejected
        PROVE  \E x \in Workers : Busy(x)' /\ task'[x] = n
    <3>1. CASE n = Taken + 1
      BY <3>1, <1>8
    <3>2. CASE n \in 1 .. Taken
      <4>1. PICK x \in Workers : Busy(x) /\ task[x] = n
        BY <3>2, <2>1 DEF Accounted
      <4>2. QED
        BY <4>1, <1>7, <1>8
    <3>3. QED
      BY <3>1, <3>2, <1>9
  <2>2. Kept \cup rejected \subseteq 1 .. Taken + 1
    BY <1>9 DEF Accounted
  <2>3. QED
    BY <2>1, <2>2, <1>3, <1>6 DEF Accounted
<1>13. PipelineTypes'
  BY <1>1, <1>2, <1>3, <1>7 DEF PipelineTypes, Take
<1>14. WorkersReturn'
  <2>1. w \in running /\ running' = running /\ closing' = closing /\ pipelineOver' = pipelineOver
    BY DEF Take
  <2>2. QED
    BY <2>1, <1>1, <1>8 DEF WorkersReturn
<1>15. QED
  BY <1>5, <1>11, <1>12, <1>13, <1>14

\* An item leaves its worker for the output or for the rejected.
LEMMA ItemLeaves ==
  ASSUME PipelineInv, NEW w \in Workers, Busy(w),
         task' = [task EXCEPT ![w] = 0], stage' = [stage EXCEPT ![w] = "idle"],
         UNCHANGED <<input, running, submits, pipelineOver, closing>>,
         \/ Kept' = Kept \cup {task[w]} /\ rejected' = rejected
         \/ Kept' = Kept /\ rejected' = rejected \cup {task[w]},
         output' \in Seq(Nat)
  PROVE  PipelineInv'
<1> USE DEF PipelineInv
<1>1. task \in [Workers -> Nat] /\ stage \in [Workers -> {"idle", "processing", "sending"}]
  BY DEF PipelineTypes
<1>2. /\ Taken' = Taken /\ ~Busy(w)'
      /\ \A x \in Workers \ {w} : Busy(x)' = Busy(x) /\ task'[x] = task[x]
  BY <1>1 DEF Taken, Busy
<1>3. \A x \in Workers \ {w} : Busy(x) => task[x] # task[w]
  BY DEF WithWorkers
<1>4. task[w] \in 1 .. Taken /\ task[w] \notin Kept /\ task[w] \notin rejected
  BY DEF WithWorkers
<1>5. WithWorkers'
  BY <1>2, <1>3 DEF WithWorkers
<1>6. Accounted'
  <2>1. Kept' \cap rejected' = {}
    BY <1>4 DEF Accounted
  <2>2. Kept' \cup rejected' = Kept \cup rejected \cup {task[w]}
    OBVIOUS
  <2>3. ASSUME NEW n \in 1 .. Taken, n \notin Kept' \cup rejected'
        PROVE  \E x \in Workers : Busy(x)' /\ task'[x] = n
    <3>1. n \notin Kept \cup rejected /\ n # task[w]
      BY <2>2, <2>3
    <3>2. PICK x \in Workers : Busy(x) /\ task[x] = n
      BY <3>1 DEF Accounted
    <3>3. QED
      BY <3>1, <3>2, <1>2
  <2>4. QED
    BY <2>1, <2>2, <2>3, <1>2, <1>4 DEF Accounted
<1>7. QED
  BY <1>1, <1>2, <1>5, <1>6 DEF PipelineTypes, WaitingInOrder, WorkersReturn, Taken

LEMMA NextPipeline == PipelineInv /\ [PipelineNext]_pipelineVars => PipelineInv'
<1> SUFFICES ASSUME PipelineInv, [PipelineNext]_pipelineVars PROVE PipelineInv'
  OBVIOUS
<1> USE DEF PipelineInv
<1> DEFINE Unmoved == UNCHANGED <<input, task, stage, rejected, submits>> /\ Kept' = Kept
<1>1. Unmoved => Taken' = Taken /\ \A w : Busy(w)' = Busy(w)
  BY DEF Taken, Busy
<1>2. Unmoved => WaitingInOrder' /\ WithWorkers' /\ Accounted'
  BY <1>1 DEF WaitingInOrder, WithWorkers, Accounted
<1>3. CASE StartWorkers
  <2>1. Unmoved
    BY <1>3 DEF StartWorkers, Kept
  <2>2. QED
    BY <1>3, <1>1, <1>2, <2>1 DEF StartWorkers, PipelineTypes, WorkersReturn
<1>4. CASE CancelPipeline
  <2>1. Unmoved
    BY <1>4 DEF CancelPipeline, Kept
  <2>2. QED
    BY <1>4, <1>1, <1>2, <2>1 DEF CancelPipeline, PipelineTypes, WorkersReturn
<1>5. CASE CloseInput
  <2>1. Unmoved
    BY <1>5 DEF CloseInput, Kept
  <2>2. QED
    BY <1>5, <1>1, <1>2, <2>1 DEF CloseInput, PipelineTypes, WorkersReturn
<1>6. CASE CloseOutput
  <2>1. Unmoved
    BY <1>6 DEF CloseOutput, Kept
  <2>2. QED
    BY <1>6, <1>1, <1>2, <2>1 DEF CloseOutput, PipelineTypes, WorkersReturn
<1>7. CASE ReadResult
  <2>1. output \in Seq(Nat) /\ output # <<>>
    BY <1>7 DEF ReadResult, PipelineTypes
  <2>2. Tail(output) \in Seq(Nat) /\ ToSet(output) = ToSet(Tail(output)) \cup {Head(output)}
    BY <2>1, ToSetOfTail
  <2>3. Unmoved
    BY <1>7, <2>2 DEF ReadResult, Kept
  <2>4. QED
    BY <1>7, <1>1, <1>2, <2>2, <2>3 DEF ReadResult, PipelineTypes, WorkersReturn
<1>8. ASSUME NEW w \in Workers, Process(w) PROVE PipelineInv'
  <2>1. Busy(w) /\ stage[w] = "processing"
    BY <1>8 DEF Process, Busy
  <2>2. CASE rejected' = rejected \cup {task[w]} /\ stage' = [stage EXCEPT ![w] = "idle"] /\ task' = [task EXCEPT ![w] = 0]
    <3>1. Kept' = Kept /\ output' \in Seq(Nat)
      BY <1>8 DEF Process, Kept, PipelineTypes
    <3>2. UNCHANGED <<input, running, submits, pipelineOver, closing>>
      BY <1>8 DEF Process
    <3>3. QED
      BY <2>1, <2>2, <3>1, <3>2, ItemLeaves
  <2>3. CASE stage' = [stage EXCEPT ![w] = "sending"] /\ UNCHANGED <<task, rejected>>
    <3>1. Kept' = Kept /\ Taken' = Taken
      BY <1>8 DEF Process, Kept, Taken
    <3>2. \A x \in Workers : Busy(x)' = Busy(x)
      BY <2>1, <2>3 DEF Busy, PipelineTypes
    <3>3. WithWorkers' /\ Accounted'
      BY <2>3, <3>1, <3>2 DEF WithWorkers, Accounted
    <3>4. QED
      BY <1>8, <2>3, <3>1, <3>2, <3>3 DEF Process, PipelineTypes, WaitingInOrder, WorkersReturn
  <2>4. QED
    BY <1>8, <2>2, <2>3 DEF Process
<1>9. ASSUME NEW w \in Workers, SendOn(w) PROVE PipelineInv'
  <2>1. Busy(w) /\ output \in Seq(Nat) /\ task[w] \in Nat
    BY <1>9 DEF SendOn, Busy, PipelineTypes
  <2>2. output' \in Seq(Nat) /\ ToSet(output') = ToSet(output) \cup {task[w]}
    BY <1>9, <2>1, ToSetOfAppend DEF SendOn
  <2>3. Kept' = Kept \cup {task[w]} /\ rejected' = rejected
    BY <1>9, <2>2 DEF SendOn, Kept
  <2>4. QED
    BY <1>9, <2>1, <2>2, <2>3, ItemLeaves DEF SendOn
<1>10. ASSUME NEW w \in Workers, WorkerReturns(w) PROVE PipelineInv'
  <2>1. Unmoved /\ output' = output /\ pipelineOver' = pipelineOver /\ closing' = closing
    BY <1>10 DEF WorkerReturns, Kept
  <2>2. /\ running' = running \ {w} /\ w \in running
        /\ ~pipelineOver => ~Busy(w) /\ closing # "no" /\ input = <<>>
    BY <1>10 DEF WorkerReturns, Busy
  <2>3. QED
    BY <1>1, <1>2, <2>1, <2>2 DEF PipelineTypes, WorkersReturn
<1>11. CASE UNCHANGED pipelineVars
  <2>1. Unmoved
    BY <1>11 DEF pipelineVars, Kept
  <2>2. QED
    BY <1>11, <1>1, <1>2, <2>1 DEF pipelineVars, PipelineTypes, WorkersReturn
<1>12. QED
  BY <1>3, <1>4, <1>5, <1>6, <1>7, <1>8, <1>9, <1>10, <1>11, SubmitKeeps, TakeKeeps DEF PipelineNext

\* The pipeline loses and doubles nothing: a kept item was not rejected, and when
\* Stop has returned, with the context alive, every item submitted is one or the
\* other, for any number of workers and items and any capacity (batch.go:243-290).
THEOREM PipelineLosesNothing == PipelineSpec => []PipelineKeepsItems
<1>1. PipelineInv => PipelineKeepsItems
  <2> SUFFICES ASSUME PipelineInv PROVE PipelineKeepsItems
    OBVIOUS
  <2>2. Kept \cap rejected = {}
    BY DEF PipelineInv, Accounted
  <2>3. ASSUME closing = "stopped", ~pipelineOver PROVE Kept \cup rejected = 1 .. submits
    <3>1. running = {} /\ Workers # {}
      BY <2>3 DEF PipelineInv, WorkersReturn
    <3>2. input = <<>> /\ \A w \in Workers : ~Busy(w)
      BY <2>3, <3>1 DEF PipelineInv, WorkersReturn
    <3>3. Taken = submits
      BY <3>2 DEF Taken, PipelineInv, PipelineTypes
    <3>4. QED
      BY <3>2, <3>3 DEF PipelineInv, Accounted
  <2>4. QED
    BY <2>2, <2>3 DEF PipelineKeepsItems, Kept
<1>2. QED
  BY <1>1, InitPipeline, NextPipeline, PTL DEF PipelineSpec

-----------------------------------------------------------------------------
(* The scaler, with a single evaluator, and the balancer.                  *)

\* The scaler counts what is deployed, and a decision was taken on the count
\* there still is.
ScalerOK ==
    /\ currentCount \in Nat /\ deployed = currentCount /\ coolingDown \in BOOLEAN
    /\ deployed \in MinInstances .. MaxInstances
    /\ decision \in [Evaluators -> [current : Nat, desired : Nat]]
    /\ \A e \in Evaluators : decision[e] # NoDecision =>
          decision[e].current = currentCount /\ decision[e].desired \in MinInstances .. MaxInstances

\* Is the place k, from zero, behind index and not before start, around the list?
Passed(start, k, index) == IF start <= index THEN start <= k /\ k < index ELSE start <= k \/ k < index

\* The balancer has gone round the list some times since a place it started at.
RoundsFrom(list, index, count, start, round) ==
    \A k \in 1 .. Len(list) : count[list[k]] = IF Passed(start, k - 1, index) THEN round + 1 ELSE round

InTurn(list, index, count) ==
    IF index < Len(list)
    THEN \E start \in 0 .. Len(list) - 1, round \in Nat : RoundsFrom(list, index, count, start, round)
    ELSE \A k \in 1 .. Len(list) : count[list[k]] = 0

NoTwins(list) == \A k, l \in 1 .. Len(list) : list[k] = list[l] => k = l

BalancerOK ==
    /\ lbInstances \in Seq(Instances) /\ currentIndex \in Nat
    /\ picks \in [Instances -> 0 .. MaxPicks] /\ crashed \in BOOLEAN
    /\ NoTwins(lbInstances)
    /\ InTurn(lbInstances, currentIndex, picks)

\* A scaling stays within the policy.
LEMMA ScalerSteps ==
  ASSUME \A d, e \in Evaluators : d = e, ScalerOK, NEW e \in Evaluators, Evaluate(e) \/ ApplyDecision(e)
  PROVE  ScalerOK'
<1>0. {MinInstances, MaxInstances, ScaleUpStep, ScaleDownStep} \subseteq Nat /\ MinInstances <= MaxInstances
  BY ScalingAssumption DEF ScalingAssumption
<1>1. CASE Evaluate(e)
  <2>1. PICK action \in ScalingActions :
            decision' = [decision EXCEPT ![e] = [current |-> currentCount, desired |-> Clamped(currentCount + action)]]
    BY <1>1 DEF Evaluate
  <2>2. action \in Int
    BY <1>0 DEF ScalingActions
  <2>3. Clamped(currentCount + action) \in MinInstances .. MaxInstances
    BY <1>0, <2>2 DEF Clamped, ScalerOK
  <2>4. UNCHANGED <<currentCount, coolingDown, deployed>>
    BY <1>1 DEF Evaluate
  <2> HIDE DEF Clamped
  <2>5. decision' \in [Evaluators -> [current : Nat, desired : Nat]]
    BY <1>0, <2>1, <2>3 DEF ScalerOK
  <2>6. \A d \in Evaluators : decision'[d] = [current |-> currentCount, desired |-> Clamped(currentCount + action)]
    BY <2>1 DEF ScalerOK
  <2>7. QED
    BY <2>3, <2>4, <2>5, <2>6 DEF ScalerOK
<1>2. CASE ApplyDecision(e)
  <2>1. decision' = [d \in Evaluators |-> NoDecision]
    BY <1>2 DEF ApplyDecision, ScalerOK
  <2>2. decision' \in [Evaluators -> [current : Nat, desired : Nat]]
    BY <2>1 DEF NoDecision
  <2>3. /\ decision[e].current = currentCount
        /\ decision[e].desired \in MinInstances .. MaxInstances
    BY <1>2 DEF ApplyDecision, ScalerOK
  <2>4. \/ /\ deployed' = deployed + (decision[e].desired - decision[e].current)
           /\ currentCount' = decision[e].desired
           /\ coolingDown' = TRUE
        \/ UNCHANGED <<currentCount, coolingDown, deployed>>
    BY <1>2 DEF ApplyDecision
  <2>5. deployed = currentCount /\ currentCount \in Nat /\ decision[e].desired \in Nat
    BY <1>0, <2>3 DEF ScalerOK
  <2>6. deployed' = currentCount'
    BY <2>3, <2>4, <2>5
  <2>7. currentCount' \in MinInstances .. MaxInstances /\ coolingDown' \in BOOLEAN
    BY <2>3, <2>4 DEF ScalerOK
  <2>8. QED
    BY <1>0, <2>1, <2>2, <2>6, <2>7 DEF ScalerOK
<1>3. QED
  BY <1>1, <1>2

\* A list that has changed is gone through from where the balancer stands.
LEMMA ChangedListInTurn ==
  ASSUME NEW list \in Seq(Instances), NEW index \in Nat
  PROVE  InTurn(list, index, [i \in Instances |-> 0])
<1>1. CASE index < Len(list)
  <2>1. RoundsFrom(list, index, [i \in Instances |-> 0], index, 0)
    BY DEF RoundsFrom, Passed
  <2>2. QED
    BY <1>1, <2>1 DEF InTurn
<1>2. CASE ~ (index < Len(list))
  BY <1>2 DEF InTurn
<1>3. QED
  BY <1>1, <1>2

LEMMA AddingKeeps == ASSUME BalancerOK, NEW i \in Instances, AddInstance(i) PROVE BalancerOK'
<1>1. lbInstances' = Append(lbInstances, i) /\ i \notin ToSet(lbInstances) /\ lbInstances \in Seq(Instances)
  BY DEF AddInstance, BalancerOK
<1>2. lbInstances' \in Seq(Instances)
  BY <1>1
<1>3. NoTwins(lbInstances')
  <2>1. \A k \in 1 .. Len(lbInstances) : lbInstances[k] # i
    BY <1>1 DEF ToSet
  <2>2. QED
    BY <1>1, <2>1 DEF BalancerOK, NoTwins
<1>4. picks' = [j \in Instances |-> 0] /\ currentIndex' = currentIndex /\ crashed' = crashed
  BY DEF AddInstance, ListChanges
<1>5. InTurn(lbInstances', currentIndex', picks')
  BY <1>2, <1>4, ChangedListInTurn DEF BalancerOK
<1>6. QED
  BY <1>2, <1>3, <1>4, <1>5, ScalingAssumption DEF BalancerOK, ScalingAssumption

LEMMA RemovingKeeps == ASSUME BalancerOK, NEW i \in Instances, RemoveInstance(i) PROVE BalancerOK'
<1>1. PICK k \in 1 .. Len(lbInstances) : lbInstances' = RemoveAt(lbInstances, k)
  BY DEF RemoveInstance, BalancerOK
<1>2. lbInstances \in Seq(Instances) /\ Len(lbInstances) \in Nat
  BY DEF BalancerOK
<1>3. /\ lbInstances' \in Seq(Instances)
      /\ Len(lbInstances') = Len(lbInstances) - 1
      /\ \A l \in 1 .. Len(lbInstances) - 1 :
            lbInstances'[l] = IF l < k THEN lbInstances[l] ELSE lbInstances[l + 1]
  BY <1>1, <1>2, OneRemoved
<1>4. NoTwins(lbInstances')
  <2> SUFFICES ASSUME NEW l \in 1 .. Len(lbInstances) - 1, NEW m \in 1 .. Len(lbInstances) - 1,
                      lbInstances'[l] = lbInstances'[m]
               PROVE  l = m
    BY <1>3 DEF NoTwins
  <2>1. \A p, q \in 1 .. Len(lbInstances) : lbInstances[p] = lbInstances[q] => p = q
    BY DEF BalancerOK, NoTwins
  <2>2. QED
    BY <1>2, <1>3, <2>1
<1>5. picks' = [j \in Instances |-> 0] /\ currentIndex' = currentIndex /\ crashed' = crashed
  BY DEF RemoveInstance, ListChanges
<1>6. InTurn(lbInstances', currentIndex', picks')
  BY <1>3, <1>5, ChangedListInTurn DEF BalancerOK
<1>7. QED
  BY <1>3, <1>4, <1>5, <1>6, ScalingAssumption DEF BalancerOK, ScalingAssumption

\* A pick is one step further round the list.
LEMMA PickKeeps == ASSUME BalancerOK, Pick PROVE BalancerOK'
<1> DEFINE n == Len(lbInstances)
           here == lbInstances[currentIndex + 1]
<1>1. /\ lbInstances \in Seq(Instances) /\ n \in Nat /\ currentIndex \in Nat /\ currentIndex < n
      /\ lbInstances' = lbInstances /\ crashed' = crashed /\ here \in Instances
      /\ picks' = [picks EXCEPT ![here] = @ + 1] /\ picks[here] < MaxPicks
      /\ currentIndex' = (currentIndex + 1) % n
  BY DEF Pick, BalancerOK
<1>2. picks' \in [Instances -> 0 .. MaxPicks]
  BY <1>1, ScalingAssumption DEF BalancerOK, ScalingAssumption
<1>3. currentIndex' = IF currentIndex + 1 = n THEN 0 ELSE currentIndex + 1
  BY <1>1
<1>4. PICK start \in 0 .. n - 1, round \in Nat : RoundsFrom(lbInstances, currentIndex, picks, start, round)
  BY <1>1 DEF BalancerOK, InTurn
<1>5. \A k \in 1 .. n : picks'[lbInstances[k]] = IF k = currentIndex + 1 THEN picks[lbInstances[k]] + 1
                                                                        ELSE picks[lbInstances[k]]
  <2> SUFFICES ASSUME NEW k \in 1 .. n
               PROVE  picks'[lbInstances[k]] = IF k = currentIndex + 1 THEN picks[lbInstances[k]] + 1
                                                                       ELSE picks[lbInstances[k]]
    OBVIOUS
  <2>1. lbInstances[k] \in Instances /\ currentIndex + 1 \in 1 .. n
    BY <1>1
  <2>2. lbInstances[k] = here <=> k = currentIndex + 1
    BY <2>1 DEF BalancerOK, NoTwins
  <2>3. picks \in [Instances -> 0 .. MaxPicks]
    BY DEF BalancerOK
  <2>4. QED
    BY <1>1, <2>1, <2>2, <2>3
<1>6. \A k \in 1 .. n : picks'[lbInstances[k]] =
          IF Passed(start, k - 1, currentIndex) \/ k = currentIndex + 1 THEN round + 1 ELSE round
  BY <1>1, <1>4, <1>5 DEF RoundsFrom, Passed
<1>7. CASE currentIndex' = start
  <2>1. RoundsFrom(lbInstances, currentIndex', picks', start, round + 1)
    BY <1>1, <1>3, <1>6, <1>7 DEF RoundsFrom, Passed
  <2>2. round + 1 \in Nat
    OBVIOUS
  <2>3. InTurn(lbInstances', currentIndex', picks')
    BY <1>1, <1>3, <2>1, <2>2 DEF InTurn
  <2>4. QED
    BY <1>1, <1>2, <1>3, <2>3 DEF BalancerOK
<1>8. CASE currentIndex' # start
  <2>1. RoundsFrom(lbInstances, currentIndex', picks', start, round)
    BY <1>1, <1>3, <1>6, <1>8 DEF RoundsFrom, Passed
  <2>2. InTurn(lbInstances', currentIndex', picks')
    BY <1>1, <1>3, <2>1 DEF InTurn
  <2>3. QED
    BY <1>1, <1>2, <1>3, <2>2 DEF BalancerOK
<1>9. QED
  BY <1>7, <1>8

\* With one evaluator, for any policy, any numbers of instances and of picks: as many
\* instances run as the scaler counts, within the policy, and the balancer's picks of
\* an unchanged list's instances differ by one at most.
THEOREM ScalingIsToPolicy ==
  ASSUME \A d, e \in Evaluators : d = e
  PROVE  ScalingSpec => []ScalingKeepsToPolicy
<1> DEFINE ScalingInv == ScalerOK /\ BalancerOK
<1>1. ScalingInit => ScalingInv
  <2> SUFFICES ASSUME ScalingInit PROVE ScalingInv
    OBVIOUS
  <2>0. {MinInstances, MaxInstances} \subseteq Nat /\ MaxPicks \in Nat
    BY ScalingAssumption DEF ScalingAssumption
  <2>1. ScalerOK
    <3>1. currentCount \in MinInstances .. MaxInstances /\ deployed = currentCount /\ currentCount \in Nat
      BY <2>0 DEF ScalingInit
    <3>2. decision \in [Evaluators -> [current : Nat, desired : Nat]] /\ \A e \in Evaluators : decision[e] = NoDecision
      BY DEF ScalingInit, NoDecision
    <3>3. QED
      BY <3>1, <3>2 DEF ScalerOK, ScalingInit
  <2>2. InTurn(lbInstances, currentIndex, picks) /\ NoTwins(lbInstances)
    BY DEF ScalingInit, InTurn, NoTwins
  <2>3. QED
    <3>1. lbInstances \in Seq(Instances) /\ picks \in [Instances -> 0 .. MaxPicks]
      BY <2>0 DEF ScalingInit
    <3>2. QED
      BY <2>1, <2>2, <3>1 DEF BalancerOK, ScalingInit
<1>2. ScalingInv /\ [ScalingNext]_scalingVars => ScalingInv'
  <2> SUFFICES ASSUME ScalingInv, [ScalingNext]_scalingVars PROVE ScalingInv'
    OBVIOUS
  <2>1. CASE \E e \in Evaluators : Evaluate(e) \/ ApplyDecision(e)
    <3>1. ScalerOK'
      BY <2>1, ScalerSteps
    <3>2. UNCHANGED balancerVars
      BY <2>1 DEF Evaluate, ApplyDecision
    <3>3. QED
      BY <3>1, <3>2 DEF balancerVars, BalancerOK
  <2>2. CASE CooldownPasses
    BY <2>2 DEF CooldownPasses, ScalerOK, BalancerOK, balancerVars
  <2>3. CASE \E i \in Instances : AddInstance(i) \/ RemoveInstance(i)
    <3>1. BalancerOK'
      BY <2>3, AddingKeeps, RemovingKeeps
    <3>2. UNCHANGED scalerVars
      BY <2>3 DEF AddInstance, RemoveInstance, ListChanges
    <3>3. QED
      BY <3>1, <3>2 DEF scalerVars, ScalerOK
  <2>4. CASE Pick
    <3>1. BalancerOK' /\ UNCHANGED scalerVars
      BY <2>4, PickKeeps DEF Pick
    <3>2. QED
      BY <3>1 DEF scalerVars, ScalerOK
  <2>5. CASE PickPanics
    BY <2>5 DEF PickPanics, scalerVars, ScalerOK, BalancerOK
  <2>6. CASE UNCHANGED scalingVars
    BY <2>6 DEF scalingVars, scalerVars, balancerVars, ScalerOK, BalancerOK
  <2>7. QED
    BY <2>1, <2>2, <2>3, <2>4, <2>5, <2>6 DEF ScalingNext
<1>3. ScalingInv => ScalingKeepsToPolicy
  <2> SUFFICES ASSUME ScalingInv PROVE ScalingKeepsToPolicy
    OBVIOUS
  <2>1. ScalingTypeOK
    BY DEF ScalerOK, BalancerOK, ScalingTypeOK
  <2>2. ASSUME NEW k \in 1 .. Len(lbInstances), NEW l \in 1 .. Len(lbInstances)
        PROVE  picks[lbInstances[k]] <= picks[lbInstances[l]] + 1
    <3>1. CASE currentIndex < Len(lbInstances)
      <4>1. PICK start \in 0 .. Len(lbInstances) - 1, round \in Nat :
                RoundsFrom(lbInstances, currentIndex, picks, start, round)
        BY <3>1 DEF BalancerOK, InTurn
      <4>2. /\ picks[lbInstances[k]] \in {round, round + 1}
            /\ picks[lbInstances[l]] \in {round, round + 1}
        BY <4>1 DEF RoundsFrom
      <4>3. QED
        BY <4>2
    <3>2. CASE ~ (currentIndex < Len(lbInstances))
      BY <3>2 DEF BalancerOK, InTurn
    <3>3. QED
      BY <3>1, <3>2
  <2>3. \A i, j \in ToSet(lbInstances) : picks[i] <= picks[j] + 1
    <3>1. \A i \in ToSet(lbInstances) : \E k \in 1 .. Len(lbInstances) : i = lbInstances[k]
      BY DEF ToSet, BalancerOK
    <3>2. QED
      BY <2>2, <3>1
  <2>4. QED
    BY <2>1, <2>3 DEF ScalerOK, ScalingKeepsToPolicy
<1>4. QED
  BY <1>1, <1>2, <1>3, PTL DEF ScalingSpec

-----------------------------------------------------------------------------
(* The hooks. While no registration overlaps a call, the hooks its walk    *)
(* has taken are in order, none of them comes after one still to be walked *)
(* and no hook that objects and stayed enabled was passed over.            *)
Calls == [step : {"idle", "running", "done"}, answer : [HookIDs -> Answers], slice : Seq(HookIDs), walked : Nat,
          seen : Nat, steady : SUBSET HookIDs, left : Seq(HookIDs), action : Answers \ {"error"}]

Against(call, h) == call.answer[h] = "block" \/ (call.answer[h] = "error" /\ ~FailOpen)

Picked(call, h) == \E i \in 1 .. Len(call.left) : call.left[i] = h

WalkOK(call) ==
    /\ InOrder(call.left)
    /\ \A i \in 1 .. Len(call.left) : \A k \in call.walked + 1 .. Len(call.slice) :
           Order[call.left[i]] <= Order[call.slice[k]]
    /\ \A k \in 1 .. call.walked :
           call.slice[k] \in call.steady /\ Against(call, call.slice[k]) => Picked(call, call.slice[k])

Overruled(call) ==
    \A h \in call.steady : Against(call, h) =>
        \E g \in HookIDs : call.answer[g] \in {"approve", "modify"} /\ Order[g] <= Order[h]

CallOK(call, now, on) ==
    /\ call \in Calls
    /\ InOrder(call.slice)
    /\ call.walked <= Len(call.slice)
    /\ call.seen <= now
    /\ call.steady \subseteq on
    /\ \A h \in call.steady : \E k \in 1 .. Len(call.slice) : call.slice[k] = h
    /\ call.step = "running" /\ call.seen = now => WalkOK(call)
    /\ call.step = "done" /\ call.seen = now /\ call.action # "block" => Overruled(call)

HooksInv ==
    /\ registered \in Seq(HookIDs) /\ InOrder(registered)
    /\ enabled \subseteq HookIDs
    /\ changes \in 0 .. MaxHookCalls /\ hookCalls \in 0 .. MaxHookCalls
    /\ hookCall \in [HookCallers -> Calls]
    /\ \A c \in HookCallers : CallOK(hookCall[c], changes, enabled)

\* The words the calls start from and end with are answers.
LEMMA CommonAnswers == "continue" \in Answers \ {"error"} /\ "block" \in Answers \ {"error"}
<1>1. "continue" \in BuiltinAnswer["security"] /\ "block" \in BuiltinAnswer["security"]
  BY DEF BuiltinAnswer
<1>2. "security" \in DOMAIN BuiltinAnswer
  BY DEF BuiltinAnswer
<1>3. BuiltinAnswer["security"] \subseteq BuiltinAnswers
  BY <1>2 DEF BuiltinAnswers
<1>4. QED
  BY <1>1, <1>3 DEF Answers

\* A call is as good when nothing is registered or unregistered, hooks are
\* disabled and others enabled, and as good when it is disturbed.
LEMMA StaysOK ==
    ASSUME NEW call, NEW now \in Nat, NEW later \in Nat, NEW on, NEW on2, NEW gone,
           CallOK(call, now, on), now <= later, on \ gone \subseteq on2
    PROVE  CallOK([call EXCEPT !.steady = @ \ gone], later, on2)
<1> DEFINE new == [call EXCEPT !.steady = @ \ gone]
<1>1. call \in Calls
  BY DEF CallOK
<1>2. /\ new \in Calls
      /\ new.step = call.step /\ new.answer = call.answer /\ new.slice = call.slice
      /\ new.walked = call.walked /\ new.seen = call.seen /\ new.left = call.left
      /\ new.action = call.action /\ new.steady = call.steady \ gone
  BY <1>1 DEF Calls
<1> HIDE DEF new
<1>3. call.seen \in Nat
  BY <1>1 DEF Calls
<1>4. new.seen = later => call.seen = now
  BY <1>2, <1>3 DEF CallOK
<1>5. new.seen <= later
  BY <1>2, <1>3 DEF CallOK
<1>6. \A h : Against(new, h) <=> Against(call, h)
  BY <1>2 DEF Against
<1>7. \A h : Picked(new, h) <=> Picked(call, h)
  BY <1>2 DEF Picked
<1>8. WalkOK(call) => WalkOK(new)
  BY <1>2, <1>6, <1>7 DEF WalkOK
<1>9. Overruled(call) => Overruled(new)
  BY <1>2, <1>6 DEF Overruled
<1>10. /\ InOrder(new.slice) /\ new.walked <= Len(new.slice)
       /\ new.steady \subseteq on2
       /\ \A h \in new.steady : \E k \in 1 .. Len(new.slice) : new.slice[k] = h
  BY <1>2 DEF CallOK
<1>11. /\ new.step = "running" /\ new.seen = later => WalkOK(new)
       /\ new.step = "done" /\ new.seen = later /\ new.action # "block" => Overruled(new)
  BY <1>2, <1>4, <1>8, <1>9 DEF CallOK
<1>12. CallOK(new, later, on2)
  BY <1>2, <1>5, <1>10, <1>11 DEF CallOK
<1>13. QED
  BY <1>12 DEF new

\* The same when the call itself is left alone.
LEMMA UntouchedOK ==
    ASSUME NEW call, NEW now \in Nat, NEW later \in Nat, NEW on, NEW on2,
           CallOK(call, now, on), now <= later, on \subseteq on2
    PROVE  CallOK(call, later, on2)
<1>1. call \in Calls
  BY DEF CallOK
<1>2. [call EXCEPT !.steady = @ \ {}] = call
  BY <1>1 DEF Calls
<1>3. CallOK([call EXCEPT !.steady = @ \ {}], later, on2)
  BY StaysOK
<1>4. QED
  BY <1>2, <1>3

\* A call begins with nothing walked.
LEMMA BeginsOK ==
    ASSUME NEW slice \in Seq(HookIDs), InOrder(slice), NEW answer \in [HookIDs -> Answers],
           NEW now \in Nat, NEW on \in SUBSET HookIDs, NEW steady, steady = ToSet(slice) \cap on,
           NEW call,
           call = [step |-> "running", answer |-> answer, slice |-> slice, walked |-> 0, seen |-> now,
                   steady |-> steady, left |-> <<>>, action |-> "continue"]
    PROVE  CallOK(call, now, on)
<1>1. call \in Calls
  BY CommonAnswers DEF Calls
<1>2. call.walked = 0 /\ call.left = <<>> /\ Len(call.left) = 0
  OBVIOUS
<1>3. WalkOK(call)
  BY <1>2 DEF WalkOK, InOrder
<1>4. \A h \in steady : \E k \in 1 .. Len(slice) : slice[k] = h
  <2>1. \A h \in ToSet(slice) : \E k \in 1 .. Len(slice) : slice[k] = h
    BY DEF ToSet
  <2>2. QED
    BY <2>1
<1>5. Len(slice) \in Nat
  OBVIOUS
<1>6. /\ call.slice = slice /\ call.seen = now /\ call.steady = steady /\ call.step = "running"
  OBVIOUS
<1>7. QED
  BY <1>1, <1>2, <1>3, <1>4, <1>5, <1>6 DEF CallOK

\* A step of the walk keeps the call as it should be.
LEMMA WalksOK ==
    ASSUME NEW call, NEW now \in Nat, NEW on, CallOK(call, now, on),
           call.step = "running", call.walked < Len(call.slice), NEW h \in HookIDs,
           call.seen = now => h = call.slice[call.walked + 1],
           NEW new,
           new = [call EXCEPT !.walked = @ + 1, !.left = IF h \in on THEN Append(@, h) ELSE @]
    PROVE  CallOK(new, now, on)
<1>1. call \in Calls
  BY DEF CallOK
<1>2. /\ call.left \in Seq(HookIDs) /\ Len(call.left) \in Nat
      /\ call.slice \in Seq(HookIDs) /\ Len(call.slice) \in Nat
      /\ call.walked \in Nat /\ call.seen \in Nat
  BY <1>1 DEF Calls
<1> DEFINE longer == Append(call.left, h)
<1>3. /\ longer \in Seq(HookIDs) /\ Len(longer) = Len(call.left) + 1
      /\ \A i \in 1 .. Len(call.left) : longer[i] = call.left[i]
      /\ longer[Len(call.left) + 1] = h
  BY <1>2, AppendProperties
<1> HIDE DEF longer
<1> DEFINE left2 == IF h \in on THEN longer ELSE call.left
<1>10. left2 \in Seq(HookIDs) /\ new = [call EXCEPT !.walked = @ + 1, !.left = left2]
  BY <1>2, <1>3 DEF longer
<1> HIDE DEF left2
<1>11. /\ new \in Calls
       /\ new.step = call.step /\ new.answer = call.answer /\ new.slice = call.slice
       /\ new.walked = call.walked + 1 /\ new.seen = call.seen /\ new.action = call.action
       /\ new.steady = call.steady /\ new.left = left2
  <2> DEFINE next == call.walked + 1
  <2>1. next \in Nat /\ new = [call EXCEPT !.walked = next, !.left = left2]
    BY <1>2, <1>10
  <2>2. next = call.walked + 1
    OBVIOUS
  <2> HIDE DEF next
  <2>3. new \in Calls
    BY <1>1, <1>10, <2>1 DEF Calls
  <2>4. new.step = call.step /\ new.answer = call.answer /\ new.slice = call.slice
    BY <1>1, <2>1 DEF Calls
  <2>5. new.seen = call.seen /\ new.action = call.action /\ new.steady = call.steady
    BY <1>1, <2>1 DEF Calls
  <2>6. new.walked = next /\ new.left = left2
    BY <1>1, <2>1 DEF Calls
  <2>7. QED
    BY <2>2, <2>3, <2>4, <2>5, <2>6
<1>4. /\ new \in Calls
      /\ new.step = call.step /\ new.answer = call.answer /\ new.slice = call.slice
      /\ new.walked = call.walked + 1 /\ new.seen = call.seen /\ new.action = call.action
      /\ new.steady = call.steady
      /\ new.left = IF h \in on THEN longer ELSE call.left
  BY <1>11 DEF left2
<1>5. /\ InOrder(new.slice) /\ new.walked <= Len(new.slice)
      /\ new.steady \subseteq on /\ new.seen <= now
      /\ \A g \in new.steady : \E k \in 1 .. Len(new.slice) : new.slice[k] = g
  BY <1>2, <1>4 DEF CallOK
<1>6. ASSUME call.seen = now PROVE WalkOK(new)
  <2>1. WalkOK(call) /\ h = call.slice[call.walked + 1]
    BY <1>6 DEF CallOK
  <2>2. \A k \in call.walked + 2 .. Len(call.slice) : Order[h] <= Order[call.slice[k]]
    <3> SUFFICES ASSUME NEW k \in call.walked + 2 .. Len(call.slice) PROVE Order[h] <= Order[call.slice[k]]
      OBVIOUS
    <3>1. k \in 1 .. Len(call.slice) /\ call.walked + 1 \in 1 .. Len(call.slice) /\ call.walked + 1 < k
      BY <1>2
    <3>2. InOrder(call.slice)
      BY DEF CallOK
    <3>3. QED
      BY <2>1, <3>1, <3>2 DEF InOrder
  <2>3. \A g : Against(new, g) <=> Against(call, g)
    BY <1>4 DEF Against
  <2>4. call.steady \subseteq on
    BY DEF CallOK
  <2>5. \A k \in call.walked + 1 .. Len(call.slice) : \A i \in 1 .. Len(call.left) :
            Order[call.left[i]] <= Order[call.slice[k]]
    BY <2>1 DEF WalkOK
  <2>6. \A i \in 1 .. Len(call.left) : Order[call.left[i]] <= Order[h]
    <3>1. call.walked + 1 \in call.walked + 1 .. Len(call.slice)
      BY <1>2
    <3>2. QED
      BY <2>1, <2>5, <3>1
  <2>7. InOrder(call.left)
    BY <2>1 DEF WalkOK
  <2>8. \A k \in 1 .. call.walked :
            call.slice[k] \in call.steady /\ Against(call, call.slice[k]) => Picked(call, call.slice[k])
    BY <2>1 DEF WalkOK
  <2>9. CASE h \in on
    <3>1. new.left = longer
      BY <1>4, <2>9
    <3>2. InOrder(new.left)
      <4>1. ASSUME NEW i \in 1 .. Len(call.left) + 1, NEW j \in 1 .. Len(call.left) + 1, i < j
            PROVE  Order[longer[i]] <= Order[longer[j]]
        <5>1. i \in 1 .. Len(call.left) /\ longer[i] = call.left[i]
          BY <1>2, <1>3, <4>1
        <5>2. CASE j = Len(call.left) + 1
          BY <1>3, <2>6, <5>1, <5>2
        <5>3. CASE j # Len(call.left) + 1
          <6>1. j \in 1 .. Len(call.left) /\ longer[j] = call.left[j]
            BY <1>2, <1>3, <5>3
          <6>2. QED
            BY <2>7, <4>1, <5>1, <6>1 DEF InOrder
        <5>4. QED
          BY <5>2, <5>3
      <4>2. QED
        BY <1>3, <3>1, <4>1 DEF InOrder
    <3>3. ASSUME NEW i \in 1 .. Len(new.left), NEW k \in new.walked + 1 .. Len(new.slice)
          PROVE  Order[new.left[i]] <= Order[new.slice[k]]
      <4>1. k \in call.walked + 2 .. Len(call.slice) /\ k \in call.walked + 1 .. Len(call.slice)
        BY <1>2, <1>4
      <4>2. CASE i = Len(call.left) + 1
        BY <1>3, <1>4, <2>2, <3>1, <4>1, <4>2
      <4>3. CASE i # Len(call.left) + 1
        <5>1. i \in 1 .. Len(call.left)
          BY <1>2, <1>3, <3>1, <4>3
        <5>2. QED
          BY <1>3, <1>4, <2>5, <3>1, <4>1, <5>1
      <4>4. QED
        BY <4>2, <4>3
    <3>4. \A g : Picked(call, g) \/ g = h => Picked(new, g)
      <4>1. ASSUME NEW g, Picked(call, g) PROVE Picked(new, g)
        <5>1. PICK i \in 1 .. Len(call.left) : call.left[i] = g
          BY <4>1 DEF Picked
        <5>2. i \in 1 .. Len(longer) /\ longer[i] = g
          BY <1>2, <1>3, <5>1
        <5>3. QED
          BY <3>1, <5>2 DEF Picked
      <4>2. Picked(new, h)
        <5>1. Len(call.left) + 1 \in 1 .. Len(longer)
          BY <1>2, <1>3
        <5>2. QED
          BY <1>3, <3>1, <5>1 DEF Picked
      <4>3. QED
        BY <4>1, <4>2
    <3>5. ASSUME NEW k \in 1 .. new.walked, new.slice[k] \in new.steady, Against(new, new.slice[k])
          PROVE  Picked(new, new.slice[k])
      <4>1. CASE k = call.walked + 1
        BY <1>4, <2>1, <3>4, <4>1
      <4>2. CASE k # call.walked + 1
        <5>1. k \in 1 .. call.walked
          BY <1>2, <1>4, <4>2
        <5>2. QED
          BY <1>4, <2>3, <2>8, <3>4, <3>5, <5>1
      <4>3. QED
        BY <4>1, <4>2
    <3>6. QED
      BY <3>2, <3>3, <3>5 DEF WalkOK
  <2>10. CASE h \notin on
    <3>1. new.left = call.left
      BY <1>4, <2>10
    <3>2. InOrder(new.left)
      BY <2>7, <3>1
    <3>3. \A i \in 1 .. Len(new.left) : \A k \in new.walked + 1 .. Len(new.slice) :
              Order[new.left[i]] <= Order[new.slice[k]]
      <4> SUFFICES ASSUME NEW i \in 1 .. Len(call.left), NEW k \in call.walked + 2 .. Len(call.slice)
                   PROVE  Order[call.left[i]] <= Order[call.slice[k]]
        <5>1. new.walked + 1 = call.walked + 2
          BY <1>2, <1>4
        <5>2. QED
          BY <1>4, <3>1, <5>1
      <4>1. k \in call.walked + 1 .. Len(call.slice)
        BY <1>2
      <4>2. QED
        BY <2>5, <4>1
    <3>4. ASSUME NEW k \in 1 .. new.walked, new.slice[k] \in new.steady, Against(new, new.slice[k])
          PROVE  Picked(new, new.slice[k])
      <4>1. k # call.walked + 1
        BY <1>4, <2>1, <2>4, <2>10, <3>4
      <4>2. k \in 1 .. call.walked
        BY <1>2, <1>4, <4>1
      <4>3. Picked(call, call.slice[k])
        BY <1>4, <2>3, <2>8, <3>4, <4>2
      <4>4. QED
        BY <1>4, <3>1, <4>3 DEF Picked
    <3>5. QED
      BY <3>2, <3>3, <3>4 DEF WalkOK
  <2>11. QED
    BY <2>9, <2>10
<1>7. new.step = "running"
  BY <1>4
<1>8. new.seen = now => WalkOK(new)
  BY <1>4, <1>6
<1>9. QED
  BY <1>4, <1>5, <1>7, <1>8 DEF CallOK

\* The answer of a hook that does not decide is passed over.
LEMMA PassesOK ==
    ASSUME NEW call, NEW now \in Nat, NEW on, CallOK(call, now, on),
           call.step = "running", call.left # <<>>, ~ Against(call, Head(call.left)),
           NEW new, new = [call EXCEPT !.left = Tail(@)]
    PROVE  CallOK(new, now, on)
<1>1. call \in Calls
  BY DEF CallOK
<1>2. call.left \in Seq(HookIDs) /\ Len(call.left) \in Nat \ {0}
  BY <1>1 DEF Calls
<1> DEFINE rest == Tail(call.left)
<1>3. /\ rest \in Seq(HookIDs) /\ Len(rest) = Len(call.left) - 1
      /\ \A i \in 1 .. Len(rest) : rest[i] = call.left[i + 1]
  BY <1>2, HeadTailProperties
<1>4. Head(call.left) = call.left[1]
  BY <1>2
<1> HIDE DEF rest
<1>5. /\ new \in Calls
      /\ new.step = call.step /\ new.answer = call.answer /\ new.slice = call.slice
      /\ new.walked = call.walked /\ new.seen = call.seen /\ new.action = call.action
      /\ new.steady = call.steady /\ new.left = rest
  BY <1>1, <1>3 DEF Calls, rest
<1>6. \A g : Against(new, g) <=> Against(call, g)
  BY <1>5 DEF Against
<1>7. ASSUME WalkOK(call) PROVE WalkOK(new)
  <2>1. InOrder(new.left)
    <3>1. ASSUME NEW i \in 1 .. Len(rest), NEW j \in 1 .. Len(rest), i < j
          PROVE  Order[rest[i]] <= Order[rest[j]]
      <4>1. i + 1 \in 1 .. Len(call.left) /\ j + 1 \in 1 .. Len(call.left) /\ i + 1 < j + 1
        BY <1>2, <1>3, <3>1
      <4>2. rest[i] = call.left[i + 1] /\ rest[j] = call.left[j + 1]
        BY <1>3
      <4>3. QED
        BY <1>7, <4>1, <4>2 DEF WalkOK, InOrder
    <3>2. QED
      BY <1>5, <3>1 DEF InOrder
  <2>2. \A i \in 1 .. Len(new.left) : \A k \in new.walked + 1 .. Len(new.slice) :
            Order[new.left[i]] <= Order[new.slice[k]]
    <3>1. ASSUME NEW i \in 1 .. Len(rest), NEW k \in call.walked + 1 .. Len(call.slice)
          PROVE  Order[rest[i]] <= Order[call.slice[k]]
      <4>1. i + 1 \in 1 .. Len(call.left)
        BY <1>2, <1>3
      <4>2. rest[i] = call.left[i + 1]
        BY <1>3
      <4>3. QED
        BY <1>7, <4>1, <4>2 DEF WalkOK
    <3>2. QED
      BY <1>5, <3>1
  <2>3. ASSUME NEW g, Picked(call, g), Against(call, g) PROVE Picked(new, g)
    <3>1. PICK i \in 1 .. Len(call.left) : call.left[i] = g
      BY <2>3 DEF Picked
    <3>2. i # 1
      BY <1>4, <2>3, <3>1
    <3>3. i - 1 \in 1 .. Len(rest) /\ rest[i - 1] = g
      BY <1>2, <1>3, <3>1, <3>2
    <3>4. QED
      BY <1>5, <3>3 DEF Picked
  <2>4. \A k \in 1 .. new.walked :
            new.slice[k] \in new.steady /\ Against(new, new.slice[k]) => Picked(new, new.slice[k])
    BY <1>5, <1>6, <1>7, <2>3 DEF WalkOK
  <2>5. QED
    BY <2>1, <2>2, <2>4 DEF WalkOK
<1>8. QED
  BY <1>5, <1>7 DEF CallOK

\* A call may end when every objection is overruled, or with a block.
LEMMA EndsOK ==
    ASSUME NEW call, NEW now \in Nat, NEW on, CallOK(call, now, on),
           NEW action \in Answers \ {"error"},
           call.seen = now /\ action # "block" => Overruled(call),
           NEW new, new = [call EXCEPT !.step = "done", !.action = action, !.left = <<>>]
    PROVE  CallOK(new, now, on)
<1>1. call \in Calls
  BY DEF CallOK
<1>2. new \in Calls
  <2>1. <<>> \in Seq(HookIDs)
    OBVIOUS
  <2> DEFINE nothing == <<>>
  <2>2. nothing \in Seq(HookIDs) /\ new = [call EXCEPT !.step = "done", !.action = action, !.left = nothing]
    BY <2>1
  <2> HIDE DEF nothing
  <2>3. QED
    BY <1>1, <2>2 DEF Calls
<1>3. new.answer = call.answer /\ new.slice = call.slice /\ new.walked = call.walked
  BY <1>1 DEF Calls
<1>4. new.seen = call.seen /\ new.steady = call.steady
  BY <1>1 DEF Calls
<1>5. new.step = "done" /\ new.action = action
  BY <1>1 DEF Calls
<1>6. Overruled(call) => Overruled(new)
  BY <1>3, <1>4 DEF Overruled, Against
<1>7. QED
  BY <1>2, <1>3, <1>4, <1>5, <1>6 DEF CallOK

\* When the whole slice is walked, an approval that comes first overrules every
\* objection there is, and without a hook left there is none.
LEMMA FirstOverrules ==
    ASSUME NEW call, NEW now \in Nat, NEW on, CallOK(call, now, on),
           call.step = "running", call.walked = Len(call.slice), call.seen = now,
           call.left = <<>> \/ call.answer[Head(call.left)] \in {"approve", "modify"}
    PROVE  Overruled(call)
<1> SUFFICES ASSUME NEW h \in call.steady, Against(call, h)
             PROVE  \E g \in HookIDs : call.answer[g] \in {"approve", "modify"} /\ Order[g] <= Order[h]
  BY DEF Overruled
<1>1. call \in Calls /\ WalkOK(call)
  BY DEF CallOK
<1>2. call.left \in Seq(HookIDs) /\ Len(call.left) \in Nat /\ h \in HookIDs
  BY <1>1 DEF Calls
<1>3. PICK k \in 1 .. call.walked : call.slice[k] = h
  BY DEF CallOK
<1>4. PICK i \in 1 .. Len(call.left) : call.left[i] = h
  BY <1>1, <1>3 DEF WalkOK, Picked
<1>5. call.left # <<>> /\ Head(call.left) = call.left[1] /\ 1 \in 1 .. Len(call.left)
  BY <1>2, <1>4
<1>6. Order[call.left[1]] <= Order[h]
  <2>1. CASE i = 1
    <3>1. Order[h] \in Nat
      BY <1>2, HooksAssumption DEF HooksAssumption
    <3>2. QED
      BY <1>4, <2>1, <3>1
  <2>2. CASE i # 1
    <3>1. 1 < i
      BY <2>2
    <3>2. QED
      BY <1>1, <1>4, <1>5, <3>1 DEF WalkOK, InOrder
  <2>3. QED
    BY <2>1, <2>2
<1>7. call.left[1] \in HookIDs
  BY <1>2, <1>5
<1>8. QED
  BY <1>5, <1>6, <1>7

\* The sort of Register gives the hooks it is given, in order.
LEMMA SortingSorts ==
    ASSUME NEW hooks \in Seq(HookIDs), NEW s \in Sorted(hooks)
    PROVE  s \in Seq(HookIDs) /\ InOrder(s)
<1>1. s \in [1 .. Len(hooks) -> ToSet(hooks)] /\ InOrder(s)
  BY DEF Sorted
<1>2. ToSet(hooks) \subseteq HookIDs
  BY DEF ToSet
<1>3. Len(hooks) \in Nat
  OBVIOUS
<1>4. s \in [1 .. Len(hooks) -> HookIDs]
  BY <1>1, <1>2
<1>5. QED
  BY <1>1, <1>3, <1>4, IsASeq

\* A slice in order is in order without one of its hooks.
LEMMA RemovingSorts ==
    ASSUME NEW hooks \in Seq(HookIDs), InOrder(hooks), NEW k \in 1 .. Len(hooks)
    PROVE  RemoveAt(hooks, k) \in Seq(HookIDs) /\ InOrder(RemoveAt(hooks, k))
<1> DEFINE s == RemoveAt(hooks, k)
<1>1. /\ s \in Seq(HookIDs) /\ Len(s) = Len(hooks) - 1 /\ Len(hooks) \in Nat
      /\ \A l \in 1 .. Len(hooks) - 1 : s[l] = IF l < k THEN hooks[l] ELSE hooks[l + 1]
  BY OneRemoved
<1> HIDE DEF s
<1>2. ASSUME NEW i \in 1 .. Len(s), NEW j \in 1 .. Len(s), i < j PROVE Order[s[i]] <= Order[s[j]]
  <2>1. PICK p \in 1 .. Len(hooks) : p = IF i < k THEN i ELSE i + 1
    BY <1>1
  <2>2. PICK q \in 1 .. Len(hooks) : q = IF j < k THEN j ELSE j + 1
    BY <1>1
  <2>3. p < q /\ s[i] = hooks[p] /\ s[j] = hooks[q]
    BY <1>1, <1>2, <2>1, <2>2
  <2>4. QED
    BY <2>3 DEF InOrder
<1>3. InOrder(s)
  BY <1>2 DEF InOrder
<1>4. QED
  BY <1>1, <1>3 DEF s

\* The record a call begins with, field by field.
LEMMA BegunCall ==
    ASSUME NEW asked, NEW steady, NEW slice, NEW seen, NEW call,
           call = [NoHookCall EXCEPT !.step = "running", !.slice = slice, !.seen = seen,
                                     !.answer = asked, !.steady = steady]
    PROVE  call = [step |-> "running", answer |-> asked, slice |-> slice, walked |-> 0, seen |-> seen,
                   steady |-> steady, left |-> <<>>, action |-> "continue"]
<1>1. DOMAIN call = {"step", "answer", "slice", "walked", "seen", "steady", "left", "action"}
  BY DEF NoHookCall
<1>2. call.step = "running" /\ call.answer = asked
  BY DEF NoHookCall
<1>3. call.slice = slice /\ call.walked = 0
  BY DEF NoHookCall
<1>4. call.seen = seen /\ call.steady = steady
  BY DEF NoHookCall
<1>5. call.left = <<>> /\ call.action = "continue"
  BY DEF NoHookCall
<1>6. call = [f \in {"step", "answer", "slice", "walked", "seen", "steady", "left", "action"} |-> call[f]]
  BY <1>1
<1>7. QED
  BY <1>1, <1>2, <1>3, <1>4, <1>5, <1>6

\* What a step of one call must do for all of them to be as they should be.
LEMMA OneCallMoves ==
    ASSUME HooksInv, NEW c \in HookCallers, NEW new, CallOK(new, changes, enabled),
           hookCall' = [hookCall EXCEPT ![c] = new],
           UNCHANGED <<registered, enabled, changes>>, hookCalls' \in 0 .. MaxHookCalls
    PROVE  HooksInv'
<1>1. new \in Calls
  BY DEF CallOK
<1>2. hookCall' \in [HookCallers -> Calls]
  BY <1>1 DEF HooksInv
<1>3. ASSUME NEW d \in HookCallers PROVE CallOK(hookCall'[d], changes, enabled)
  BY DEF HooksInv
<1>4. QED
  BY <1>2, <1>3 DEF HooksInv

\* A call that no registration overlaps goes ahead over the objection of a hook
\* that was enabled throughout only if a hook of no higher order has approved or
\* modified it (Execute of pkg/hooks), for any number of callers and hooks.
THEOREM ObjectionsAreHeard == HooksSpec => []ObjectionsCount
<1>1. HooksInit => HooksInv
  <2> SUFFICES ASSUME HooksInit PROVE HooksInv
    OBVIOUS
  <2>1. NoHookCall \in Calls
    BY CommonAnswers DEF NoHookCall, Calls
  <2>2. CallOK(NoHookCall, 0, HookIDs)
    BY <2>1 DEF CallOK, NoHookCall, InOrder
  <2>3. InOrder(<<>>) /\ <<>> \in Seq(HookIDs)
    BY DEF InOrder
  <2>4. \A c \in HookCallers : hookCall[c] = NoHookCall
    BY DEF HooksInit
  <2>5. QED
    BY <2>1, <2>2, <2>3, <2>4, HooksAssumption DEF HooksInit, HooksInv, HooksAssumption
<1>2. HooksInv /\ [HooksNext]_hooksVars => HooksInv'
  <2> SUFFICES ASSUME HooksInv, [HooksNext]_hooksVars PROVE HooksInv'
    OBVIOUS
  <2> USE HooksAssumption DEF HooksAssumption
  <2>1. changes \in Nat /\ changes + 1 \in Nat /\ changes <= changes /\ changes <= changes + 1
    BY DEF HooksInv
  <2>2. \A c \in HookCallers : CallOK(hookCall[c], changes, enabled) /\ hookCall[c] \in Calls
    BY DEF HooksInv
  <2>3. ASSUME NEW h \in HookIDs, Register(h) PROVE HooksInv'
    <3>1. Append(registered, h) \in Seq(HookIDs)
      BY DEF HooksInv
    <3>2. registered' \in Seq(HookIDs) /\ InOrder(registered')
      BY <2>3, <3>1, SortingSorts DEF Register
    <3>3. changes' = changes + 1 /\ changes' \in 0 .. MaxHookCalls
      BY <2>3 DEF Register, HooksInv
    <3>4. UNCHANGED <<enabled, hookCall, hookCalls>>
      BY <2>3 DEF Register
    <3>5. \A c \in HookCallers : CallOK(hookCall[c], changes + 1, enabled)
      BY <2>1, <2>2, UntouchedOK
    <3>6. QED
      BY <3>2, <3>3, <3>4, <3>5 DEF HooksInv
  <2>4. ASSUME NEW h \in HookIDs, Unregister(h) PROVE HooksInv'
    <3>1. PICK i \in 1 .. Len(registered) : registered' = RemoveAt(registered, i)
      BY <2>4 DEF Unregister, HooksInv
    <3>2. registered' \in Seq(HookIDs) /\ InOrder(registered')
      BY <3>1, RemovingSorts DEF HooksInv
    <3>3. changes' = changes + 1 /\ changes' \in 0 .. MaxHookCalls
      BY <2>4 DEF Unregister, HooksInv
    <3>4. UNCHANGED <<enabled, hookCalls>>
      BY <2>4 DEF Unregister
    <3>5. hookCall' = [c \in HookCallers |-> [hookCall[c] EXCEPT !.steady = @ \ {h}]]
      BY <2>4 DEF Unregister
    <3>6. \A c \in HookCallers : CallOK([hookCall[c] EXCEPT !.steady = @ \ {h}], changes + 1, enabled)
      BY <2>1, <2>2, StaysOK
    <3>7. \A c \in HookCallers : CallOK(hookCall'[c], changes + 1, enabled)
      BY <3>5, <3>6
    <3>8. \A c \in HookCallers : [hookCall[c] EXCEPT !.steady = @ \ {h}] \in Calls
      BY <3>6 DEF CallOK
    <3>9. hookCall' \in [HookCallers -> Calls]
      BY <3>5, <3>8
    <3>10. QED
      BY <3>2, <3>3, <3>4, <3>7, <3>9 DEF HooksInv
  <2>5. ASSUME NEW h \in HookIDs, Enable(h) PROVE HooksInv'
    <3>1. enabled' = enabled \cup {h} /\ UNCHANGED <<registered, hookCall, changes, hookCalls>>
      BY <2>5 DEF Enable
    <3>2. \A c \in HookCallers : CallOK(hookCall[c], changes, enabled \cup {h})
      BY <2>1, <2>2, UntouchedOK
    <3>3. QED
      BY <3>1, <3>2 DEF HooksInv
  <2>6. ASSUME NEW h \in HookIDs, Disable(h) PROVE HooksInv'
    <3>1. enabled' = enabled \ {h} /\ UNCHANGED <<registered, changes, hookCalls>>
      BY <2>6 DEF Disable
    <3>2. hookCall' = [c \in HookCallers |-> [hookCall[c] EXCEPT !.steady = @ \ {h}]]
      BY <2>6 DEF Disable
    <3>3. \A c \in HookCallers : CallOK([hookCall[c] EXCEPT !.steady = @ \ {h}], changes, enabled \ {h})
      BY <2>1, <2>2, StaysOK
    <3>4. \A c \in HookCallers : CallOK(hookCall'[c], changes, enabled \ {h})
      BY <3>2, <3>3
    <3>5. \A c \in HookCallers : [hookCall[c] EXCEPT !.steady = @ \ {h}] \in Calls
      BY <3>3 DEF CallOK
    <3>6. hookCall' \in [HookCallers -> Calls]
      BY <3>2, <3>5
    <3>7. QED
      BY <3>1, <3>4, <3>6 DEF HooksInv
  <2>7. ASSUME NEW c \in HookCallers, BeginExecute(c) PROVE HooksInv'
    <3>1. PICK answer \in [ToSet(registered) -> Answers] :
              hookCall' = [hookCall EXCEPT ![c] =
                  [NoHookCall EXCEPT !.step = "running", !.slice = registered, !.seen = changes,
                                     !.answer = [h \in HookIDs |-> IF h \in DOMAIN answer THEN answer[h] ELSE @[h]],
                                     !.steady = ToSet(registered) \cap enabled]]
      BY <2>7 DEF BeginExecute
    <3> DEFINE full == [h \in HookIDs |-> IF h \in DOMAIN answer THEN answer[h] ELSE "continue"]
    <3>2. full \in [HookIDs -> Answers]
      BY CommonAnswers
    <3>3. PICK new : new = [step |-> "running", answer |-> full, slice |-> registered, walked |-> 0, seen |-> changes,
                            steady |-> ToSet(registered) \cap enabled, left |-> <<>>, action |-> "continue"]
      OBVIOUS
    <3>4. hookCall' = [hookCall EXCEPT ![c] = new]
      <4> DEFINE asked == [h \in HookIDs |-> IF h \in DOMAIN answer THEN answer[h] ELSE NoHookCall.answer[h]]
                 steady == ToSet(registered) \cap enabled
      <4>1. asked = full
        BY DEF NoHookCall
      <4>2. hookCall' = [hookCall EXCEPT ![c] =
                [NoHookCall EXCEPT !.step = "running", !.slice = registered, !.seen = changes,
                                   !.answer = asked, !.steady = steady]]
        BY <3>1
      <4>3. new = [step |-> "running", answer |-> full, slice |-> registered, walked |-> 0, seen |-> changes,
                   steady |-> steady, left |-> <<>>, action |-> "continue"]
        BY <3>3
      <4> HIDE DEF asked, steady, full
      <4>4. [NoHookCall EXCEPT !.step = "running", !.slice = registered, !.seen = changes,
                               !.answer = asked, !.steady = steady]
            = [step |-> "running", answer |-> asked, slice |-> registered, walked |-> 0, seen |-> changes,
               steady |-> steady, left |-> <<>>, action |-> "continue"]
        BY BegunCall
      <4>5. QED
        BY <4>1, <4>2, <4>3, <4>4
    <3> HIDE DEF full
    <3>5. CallOK(new, changes, enabled)
      BY <2>1, <3>2, <3>3, BeginsOK DEF HooksInv
    <3>6. UNCHANGED <<registered, enabled, changes>> /\ hookCalls' \in 0 .. MaxHookCalls
      BY <2>7 DEF BeginExecute, HooksInv
    <3>7. QED
      BY <3>4, <3>5, <3>6, OneCallMoves
  <2>8. ASSUME NEW c \in HookCallers, Walk(c) PROVE HooksInv'
    <3>1. PICK h \in IF Undisturbed(c) THEN {hookCall[c].slice[hookCall[c].walked + 1]} ELSE HookIDs :
              hookCall' = [hookCall EXCEPT ![c].walked = @ + 1,
                                           ![c].left = IF h \in enabled THEN Append(@, h) ELSE @]
      BY <2>8 DEF Walk
    <3>2. PICK new : new = [hookCall[c] EXCEPT !.walked = @ + 1,
                                               !.left = IF h \in enabled THEN Append(@, h) ELSE @]
      OBVIOUS
    <3>3. hookCall' = [hookCall EXCEPT ![c] = new]
      BY <2>2, <3>1, <3>2 DEF HooksInv, Calls
    <3>4. hookCall[c].step = "running" /\ hookCall[c].walked < Len(hookCall[c].slice)
      BY <2>8 DEF Walk, Walking
    <3>5. hookCall[c].walked + 1 \in 1 .. Len(hookCall[c].slice) /\ hookCall[c].slice \in Seq(HookIDs)
      BY <2>2, <3>4 DEF Calls
    <3>6. h \in HookIDs /\ (hookCall[c].seen = changes => h = hookCall[c].slice[hookCall[c].walked + 1])
      BY <3>1, <3>5 DEF Undisturbed
    <3>7. CallOK(new, changes, enabled)
      BY <2>1, <2>2, <3>2, <3>4, <3>6, WalksOK
    <3>8. UNCHANGED <<registered, enabled, changes>> /\ hookCalls' \in 0 .. MaxHookCalls
      BY <2>8 DEF Walk, HooksInv
    <3>9. QED
      BY <3>3, <3>7, <3>8, OneCallMoves
  <2>9. ASSUME NEW c \in HookCallers, NEW action \in Answers \ {"error"}, Finish(c, action),
               hookCall[c].seen = changes /\ action # "block" => Overruled(hookCall[c]),
               UNCHANGED <<registered, enabled, changes, hookCalls>>
        PROVE  HooksInv'
    <3>1. PICK new : new = [hookCall[c] EXCEPT !.step = "done", !.action = action, !.left = <<>>]
      OBVIOUS
    <3>2. hookCall' = [hookCall EXCEPT ![c] = new]
      BY <2>2, <2>9, <3>1 DEF Finish, HooksInv, Calls
    <3>3. CallOK(new, changes, enabled)
      BY <2>1, <2>2, <2>9, <3>1, EndsOK
    <3>4. hookCalls' \in 0 .. MaxHookCalls
      BY <2>9 DEF HooksInv
    <3>5. QED
      BY <2>9, <3>2, <3>3, <3>4, OneCallMoves
  <2>10. ASSUME NEW c \in HookCallers, ExecuteHook(c) PROVE HooksInv'
    <3>1. PICK answer : answer = hookCall[c].answer[Head(hookCall[c].left)]
      OBVIOUS
    <3>2. /\ hookCall[c].step = "running" /\ hookCall[c].walked = Len(hookCall[c].slice)
          /\ hookCall[c].left # <<>>
          /\ UNCHANGED <<registered, enabled, changes, hookCalls>>
      BY <2>10 DEF ExecuteHook, Consulting
    <3>3. answer \in Answers
      <4>1. hookCall[c].left \in Seq(HookIDs) /\ hookCall[c].answer \in [HookIDs -> Answers]
        BY <2>2 DEF Calls
      <4>2. Head(hookCall[c].left) \in HookIDs
        BY <3>2, <4>1
      <4>3. QED
        BY <3>1, <4>1, <4>2
    <3>4. CASE answer \in Decisive /\ Finish(c, answer)
      <4>1. answer \in Answers \ {"error"}
        BY <3>3, <3>4 DEF Decisive
      <4>2. answer # "block" => answer \in {"approve", "modify"}
        BY <3>4 DEF Decisive
      <4>3. hookCall[c].seen = changes /\ answer # "block" => Overruled(hookCall[c])
        BY <2>1, <2>2, <3>1, <3>2, <4>2, FirstOverrules
      <4>4. QED
        BY <2>9, <3>2, <3>4, <4>1, <4>3
    <3>5. CASE answer = "error" /\ ~FailOpen /\ Finish(c, "block")
      BY <2>9, <3>2, <3>5, CommonAnswers
    <3>6. CASE /\ answer \in {"continue", "confirm"} \cup (IF FailOpen THEN {"error"} ELSE {})
               /\ hookCall' = [hookCall EXCEPT ![c].left = Tail(@)]
      <4>1. PICK new : new = [hookCall[c] EXCEPT !.left = Tail(@)]
        OBVIOUS
      <4>2. hookCall' = [hookCall EXCEPT ![c] = new]
        BY <2>2, <3>6, <4>1 DEF HooksInv, Calls
      <4>3. ~ Against(hookCall[c], Head(hookCall[c].left))
        BY <3>1, <3>6 DEF Against
      <4>4. CallOK(new, changes, enabled)
        BY <2>1, <2>2, <3>2, <4>1, <4>3, PassesOK
      <4>5. hookCalls' \in 0 .. MaxHookCalls
        BY <3>2 DEF HooksInv
      <4>6. QED
        BY <3>2, <4>2, <4>4, <4>5, OneCallMoves
    <3>7. QED
      BY <2>10, <3>1, <3>4, <3>5, <3>6 DEF ExecuteHook
  <2>11. ASSUME NEW c \in HookCallers, NoHookDecides(c) PROVE HooksInv'
    <3>1. /\ hookCall[c].step = "running" /\ hookCall[c].walked = Len(hookCall[c].slice)
          /\ hookCall[c].left = <<>> /\ Finish(c, "continue")
          /\ UNCHANGED <<registered, enabled, changes, hookCalls>>
      BY <2>11 DEF NoHookDecides, Consulting
    <3>2. hookCall[c].seen = changes => Overruled(hookCall[c])
      BY <2>1, <2>2, <3>1, FirstOverrules
    <3>3. QED
      BY <2>9, <3>1, <3>2, CommonAnswers
  <2>12. CASE UNCHANGED hooksVars
    BY <2>12 DEF hooksVars, HooksInv
  <2>13. QED
    BY <2>3, <2>4, <2>5, <2>6, <2>7, <2>8, <2>10, <2>11, <2>12 DEF HooksNext
<1>3. HooksInv => ObjectionsCount
  <2> SUFFICES ASSUME HooksInv PROVE ObjectionsCount
    OBVIOUS
  <2>1. \A c \in HookCallers : hookCall[c] \in Calls /\ CallOK(hookCall[c], changes, enabled)
    BY DEF HooksInv
  <2>2. HooksTypeOK
    BY <2>1 DEF HooksTypeOK, HooksInv, Calls
  <2>3. ASSUME NEW c \in HookCallers, hookCall[c].step = "done", Undisturbed(c), hookCall[c].action # "block"
        PROVE  Overruled(hookCall[c])
    BY <2>1, <2>3 DEF CallOK, Undisturbed
  <2>4. QED
    BY <2>2, <2>3 DEF ObjectionsCount, Overruled, Against, Objects
<1>4. QED
  BY <1>1, <1>2, <1>3, PTL DEF HooksSpec

-----------------------------------------------------------------------------
(* The checkpoints of files. What an enforceLimits has listed is kept in   *)
(* mind with what was stored after: together they hold all it counts.      *)
NewerThan(list, cps) == {c \in cps : \A d \in list : c.at > d.at}

UserOK(r, cps, now) ==
    /\ r.step \in {"idle", "snapshot", "saved", "restore"} /\ "step" \in DOMAIN r
    /\ r.step \in {"snapshot", "saved"} =>
           /\ {"at", "then"} \subseteq DOMAIN r
           /\ r.at \in Nat /\ r.at <= now
           /\ r.then.step \in {"idle", "restore"} /\ "step" \in DOMAIN r.then
    /\ r.step = "snapshot" => \A c \in cps : c.at < r.at

EnforcerOK(e, stored, cps) ==
    /\ e \in [for : Nat, step : {"start", "count", "size"}, list : SUBSET cps, total : Int]
    /\ e.step = "count" => stored \subseteq e.list \cup NewerThan(e.list, cps)
    /\ e.step = "size" => e.total <= SizeOf(e.list \cup NewerThan(e.list, cps))

Superseded(d, cps) ==
    \/ Cardinality({c \in cps : c.at > d.at}) >= MaxCheckpoints
    \/ SizeOf({c \in cps : c.at >= d.at}) > MaxTotalSize

WithinLimits ==
    \/ cutShort
    \/ Cardinality(kept) <= MaxCheckpoints
    \/ \E u \in Users : user[u].step = "saved"
    \/ \E e \in enforcers : e.step = "start" \/ (e.step = "count" /\ kept \subseteq e.list)

Dated(cps, now) ==
    /\ IsFiniteSet(cps)
    /\ \A c \in cps : c.at \in Nat /\ c.at <= now
    /\ \A c, d \in cps : c.at = d.at => c = d

CheckpointInv ==
    /\ events \in Nat
    /\ Dated(saved, events) /\ kept \subseteq saved /\ dropped \subseteq saved
    /\ DOMAIN user = Users
    /\ \A u \in Users : UserOK(user[u], saved, events)
    /\ \A e \in enforcers : EnforcerOK(e, kept, saved)
    /\ \A d \in dropped : Superseded(d, saved)
    /\ WithinLimits

\* Sizes are numbers that grow with the set and shrink by what is taken out.
LEMMA SizeIsNat ==
    ASSUME NEW cps, IsFiniteSet(cps)
    PROVE  /\ IsFiniteSet({s \in cps \X Paths : s[2] \in DOMAIN s[1].snapshots})
           /\ SizeOf(cps) \in Nat
<1>1. IsFiniteSet(cps \X Paths)
  BY FS_Product, CheckpointAssumption DEF CheckpointAssumption
<1>2. IsFiniteSet({s \in cps \X Paths : s[2] \in DOMAIN s[1].snapshots})
  BY <1>1, FS_Subset
<1>3. QED
  BY <1>2, FS_CardinalityType DEF SizeOf

LEMMA SizeGrows ==
    ASSUME NEW more, IsFiniteSet(more), NEW cps, cps \subseteq more
    PROVE  SizeOf(cps) <= SizeOf(more)
<1>1. {s \in cps \X Paths : s[2] \in DOMAIN s[1].snapshots} \subseteq
      {s \in more \X Paths : s[2] \in DOMAIN s[1].snapshots}
  OBVIOUS
<1>2. QED
  BY <1>1, SizeIsNat, FS_Subset DEF SizeOf

LEMMA SizeWithout ==
    ASSUME NEW cps, IsFiniteSet(cps), NEW c \in cps
    PROVE  SizeOf(cps \ {c}) = SizeOf(cps) - SizeOf({c})
<1> DEFINE all == {s \in cps \X Paths : s[2] \in DOMAIN s[1].snapshots}
           its == {s \in {c} \X Paths : s[2] \in DOMAIN s[1].snapshots}
           others == {s \in (cps \ {c}) \X Paths : s[2] \in DOMAIN s[1].snapshots}
<1>1. IsFiniteSet(all) /\ IsFiniteSet(its)
  BY SizeIsNat, FS_Singleton
<1>2. others = all \ its /\ all \cap its = its
  OBVIOUS
<1>3. SizeOf(cps) = Cardinality(all) /\ SizeOf({c}) = Cardinality(its) /\ SizeOf(cps \ {c}) = Cardinality(others)
  BY DEF SizeOf
<1> HIDE DEF all, its, others
<1>4. Cardinality(all \ its) = Cardinality(all) - Cardinality(all \cap its)
  BY <1>1, FS_Difference
<1>5. QED
  BY <1>2, <1>3, <1>4

\* Of checkpoints saved at different times one is the oldest.
LEMMA OldestIsThere ==
    ASSUME NEW cps, IsFiniteSet(cps), cps # {}, \A c \in cps : c.at \in Nat
    PROVE  OldestOf(cps) \in cps /\ \A d \in cps : OldestOf(cps).at <= d.at
<1> DEFINE before(c) == {d \in cps : d.at < c.at}
           all == {before(c) : c \in cps}
<1>1. all # {} /\ all \subseteq SUBSET cps
  OBVIOUS
<1>2. all \subseteq FiniteSubsetsOf(cps)
  BY <1>1, FS_FiniteSubsetsOfFinite
<1>3. PICK least \in all : \A b \in all : ~ (<<b, least>> \in StrictSubsetOrdering(cps))
  BY <1>1, <1>2, FS_StrictSubsetOrderingWellFounded, WFMin, Zenon
<1>4. PICK c \in cps : least = before(c)
  BY <1>3
<1>5. ASSUME NEW d \in cps, d.at < c.at PROVE FALSE
  <2>1. before(d) \subseteq before(c) /\ d \in before(c) /\ d \notin before(d)
    BY <1>5
  <2>2. before(d) \in all /\ before(d) \in SUBSET cps /\ before(c) \in SUBSET cps
    OBVIOUS
  <2>3. <<before(d), before(c)>> \in StrictSubsetOrdering(cps)
    BY <2>1, <2>2 DEF StrictSubsetOrdering
  <2>4. QED
    BY <1>3, <1>4, <2>2, <2>3
<1>6. \A d \in cps : c.at <= d.at
  BY <1>5
<1>7. QED
  BY <1>6 DEF OldestOf

\* The newest n are at most n: the number of newer ones tells them apart.
LEMMA NewestAreFew ==
    ASSUME NEW cps, NEW now, Dated(cps, now), NEW n \in Nat
    PROVE  IsFiniteSet(NewestOf(n, cps)) /\ Cardinality(NewestOf(n, cps)) <= n
<1> DEFINE newer(c) == {d \in cps : d.at > c.at}
           rank == [c \in NewestOf(n, cps) |-> Cardinality(newer(c))]
<1>1. \A c \in cps : IsFiniteSet(newer(c)) /\ Cardinality(newer(c)) \in Nat
  BY FS_Subset, FS_CardinalityType DEF Dated
<1>2. \A c \in NewestOf(n, cps) : c \in cps /\ Cardinality(newer(c)) < n
  BY DEF NewestOf
<1>3. rank \in [NewestOf(n, cps) -> 0 .. n - 1]
  BY <1>1, <1>2
<1>4. ASSUME NEW c \in cps, NEW d \in cps, c.at < d.at PROVE Cardinality(newer(d)) < Cardinality(newer(c))
  <2>1. newer(d) \subseteq newer(c) /\ d \in newer(c) /\ d \notin newer(d)
    BY <1>4 DEF Dated
  <2>2. Cardinality(newer(d)) <= Cardinality(newer(c)) /\ Cardinality(newer(d)) # Cardinality(newer(c))
    BY <1>1, <2>1, FS_Subset
  <2>3. QED
    BY <1>1, <2>2
<1>5. ASSUME NEW c \in NewestOf(n, cps), NEW d \in NewestOf(n, cps), rank[c] = rank[d] PROVE c = d
  <2>1. c.at \in Nat /\ d.at \in Nat /\ c \in cps /\ d \in cps
    BY <1>2 DEF Dated
  <2>2. Cardinality(newer(c)) = Cardinality(newer(d))
    BY <1>5
  <2>3. ~ (c.at < d.at) /\ ~ (d.at < c.at)
    <3>1. ASSUME c.at < d.at PROVE FALSE
      <4>1. Cardinality(newer(d)) < Cardinality(newer(c))
        BY <1>4, <2>1, <3>1
      <4>2. Cardinality(newer(d)) \in Nat
        BY <1>1, <2>1
      <4>3. QED
        BY <2>2, <4>1, <4>2
    <3>2. ASSUME d.at < c.at PROVE FALSE
      <4>1. Cardinality(newer(c)) < Cardinality(newer(d))
        BY <1>4, <2>1, <3>2
      <4>2. Cardinality(newer(d)) \in Nat
        BY <1>1, <2>1
      <4>3. QED
        BY <2>2, <4>1, <4>2
    <3>3. QED
      BY <3>1, <3>2
  <2>4. QED
    BY <2>1, <2>3 DEF Dated
<1>6. rank \in Injection(NewestOf(n, cps), 0 .. n - 1)
  BY <1>3, <1>5 DEF Injection, IsInjective
<1> HIDE DEF rank
<1>7. IsFiniteSet(0 .. n - 1) /\ Cardinality(0 .. n - 1) = n
  BY FS_Interval
<1>8. QED
  BY <1>6, <1>7, FS_Injection

\* What holds of an enforceLimits goes on holding while checkpoints are deleted
\* and newer ones are stored.
LEMMA EnforcerStays ==
    ASSUME NEW e, NEW stored, NEW cps, EnforcerOK(e, stored, cps),
           NEW stored2, NEW cps2, cps \subseteq cps2, IsFiniteSet(cps2),
           \A x \in cps2 \ cps : \A y \in cps : x.at > y.at,
           stored2 \subseteq stored \cup (cps2 \ cps)
    PROVE  EnforcerOK(e, stored2, cps2)
<1> DEFINE Enforcers(s) == [for : Nat, step : {"start", "count", "size"}, list : SUBSET s, total : Int]
<1>1. e \in Enforcers(cps)
  BY DEF EnforcerOK
<1>2. e.list \subseteq cps /\ e.total \in Int
  BY <1>1
<1>3. e \in Enforcers(cps2)
  BY <1>1
<1>4. NewerThan(e.list, cps) \subseteq NewerThan(e.list, cps2) /\ cps2 \ cps \subseteq NewerThan(e.list, cps2)
  BY <1>2 DEF NewerThan
<1>5. e.list \cup NewerThan(e.list, cps) \subseteq e.list \cup NewerThan(e.list, cps2)
  BY <1>4
<1>6. e.list \cup NewerThan(e.list, cps2) \subseteq cps2
  BY <1>2 DEF NewerThan
<1>7. IsFiniteSet(e.list \cup NewerThan(e.list, cps2)) /\ IsFiniteSet(e.list \cup NewerThan(e.list, cps))
  <2>1. e.list \cup NewerThan(e.list, cps) \subseteq cps2
    BY <1>5, <1>6
  <2>2. QED
    BY <1>6, <2>1, FS_Subset
<1>8. SizeOf(e.list \cup NewerThan(e.list, cps)) <= SizeOf(e.list \cup NewerThan(e.list, cps2))
  BY <1>5, <1>7, SizeGrows
<1>9. e.step = "size" => e.total <= SizeOf(e.list \cup NewerThan(e.list, cps2))
  <2> DEFINE old == SizeOf(e.list \cup NewerThan(e.list, cps))
             new == SizeOf(e.list \cup NewerThan(e.list, cps2))
  <2>1. old \in Nat /\ new \in Nat /\ old <= new
    BY <1>7, <1>8, SizeIsNat
  <2>2. e.step = "size" => e.total <= old
    BY DEF EnforcerOK
  <2> HIDE DEF old, new
  <2>3. e.step = "size" => e.total <= new
    BY <1>2, <2>1, <2>2
  <2>4. QED
    BY <2>3 DEF new
<1>10. e.step = "count" => stored2 \subseteq e.list \cup NewerThan(e.list, cps2)
  BY <1>4 DEF EnforcerOK
<1>11. QED
  BY <1>3, <1>9, <1>10 DEF EnforcerOK

\* A checkpoint that has been superseded stays so.
LEMMA SupersededStays ==
    ASSUME NEW cps2, IsFiniteSet(cps2), NEW cps, cps \subseteq cps2, NEW d, Superseded(d, cps)
    PROVE  Superseded(d, cps2)
<1> DEFINE newer(s) == {c \in s : c.at > d.at}
           since(s) == {c \in s : c.at >= d.at}
<1>1. newer(cps) \subseteq newer(cps2) /\ since(cps) \subseteq since(cps2)
  OBVIOUS
<1>2. IsFiniteSet(newer(cps2)) /\ IsFiniteSet(since(cps2)) /\ IsFiniteSet(newer(cps)) /\ IsFiniteSet(since(cps))
  <2>1. newer(cps2) \subseteq cps2 /\ since(cps2) \subseteq cps2
    OBVIOUS
  <2>2. QED
    BY <1>1, <2>1, FS_Subset
<1>3. Cardinality(newer(cps)) <= Cardinality(newer(cps2))
  BY <1>1, <1>2, FS_Subset
<1>4. SizeOf(since(cps)) <= SizeOf(since(cps2))
  BY <1>1, <1>2, SizeGrows
<1>5. /\ Cardinality(newer(cps)) \in Nat /\ Cardinality(newer(cps2)) \in Nat
      /\ SizeOf(since(cps)) \in Nat /\ SizeOf(since(cps2)) \in Nat
  BY <1>2, FS_CardinalityType, SizeIsNat
<1>6. Superseded(d, cps) <=> Cardinality(newer(cps)) >= MaxCheckpoints \/ SizeOf(since(cps)) > MaxTotalSize
  BY DEF Superseded
<1>7. Superseded(d, cps2) <=> Cardinality(newer(cps2)) >= MaxCheckpoints \/ SizeOf(since(cps2)) > MaxTotalSize
  BY DEF Superseded
<1> HIDE DEF newer, since
<1>8. QED
  BY <1>3, <1>4, <1>5, <1>6, <1>7, CheckpointAssumption DEF CheckpointAssumption

\* A step of a call that stores and deletes nothing.
LEMMA UserMoves ==
    ASSUME CheckpointInv, NEW u \in Users, NEW r, user' = [user EXCEPT ![u] = r], user[u].step # "saved",
           UNCHANGED <<kept, saved, dropped, enforcers, cutShort>>,
           events' \in {events, events + 1}, UserOK(r, saved, events')
    PROVE  CheckpointInv'
<1>1. events \in Nat /\ events' \in Nat /\ events <= events'
  BY DEF CheckpointInv
<1>2. Dated(saved, events')
  BY <1>1 DEF CheckpointInv, Dated
<1>3. DOMAIN user' = Users /\ user'[u] = r
  BY DEF CheckpointInv
<1>4. ASSUME NEW v \in Users PROVE UserOK(user'[v], saved, events')
  <2>1. CASE v = u
    BY <1>3, <2>1
  <2>2. CASE v # u
    <3>1. user'[v] = user[v] /\ UserOK(user[v], saved, events)
      BY <2>2 DEF CheckpointInv
    <3>2. QED
      BY <1>1, <3>1 DEF UserOK
  <2>3. QED
    BY <2>1, <2>2
<1>5. WithinLimits'
  <2>1. \A v \in Users : user[v].step = "saved" => user'[v].step = "saved"
    BY DEF CheckpointInv
  <2>2. WithinLimits
    BY DEF CheckpointInv
  <2>3. QED
    BY <2>1, <2>2 DEF WithinLimits
<1>6. QED
  BY <1>1, <1>2, <1>3, <1>4, <1>5 DEF CheckpointInv

\* What is stored gets fewer, by a deletion or by an enforceLimits e, which goes
\* on as one of next, and drops what is superseded only.
LEMMA KeptShrinks ==
    ASSUME CheckpointInv, kept' \subseteq kept, UNCHANGED <<saved, user, cutShort>>,
           events' \in {events, events + 1},
           NEW lost, dropped' = dropped \cup lost, lost \subseteq saved, \A d \in lost : Superseded(d, saved),
           NEW e, NEW next,
           enforcers' = enforcers \/ (enforcers' = (enforcers \ {e}) \cup next /\ e.step = "size"),
           \A f \in next : EnforcerOK(f, kept, saved)
    PROVE  CheckpointInv'
<1>1. events \in Nat /\ events' \in Nat /\ events <= events'
  BY DEF CheckpointInv
<1>2. Dated(saved, events') /\ IsFiniteSet(saved)
  BY <1>1 DEF CheckpointInv, Dated
<1>3. ASSUME NEW v \in Users PROVE UserOK(user[v], saved, events')
  <2>1. UserOK(user[v], saved, events)
    BY DEF CheckpointInv
  <2>2. QED
    BY <1>1, <2>1 DEF UserOK
<1>4. ASSUME NEW f \in enforcers' PROVE EnforcerOK(f, kept', saved)
  <2>1. EnforcerOK(f, kept, saved)
    BY DEF CheckpointInv
  <2>2. kept' \subseteq kept
    OBVIOUS
  <2>3. \A stored2 : stored2 \subseteq kept => EnforcerOK(f, stored2, saved)
    BY <1>2, <2>1, EnforcerStays
  <2>4. QED
    BY <2>2, <2>3
<1>5. WithinLimits'
  <2>1. WithinLimits
    BY DEF CheckpointInv
  <2>2. IsFiniteSet(kept)
    BY <1>2, FS_Subset DEF CheckpointInv
  <2>3. Cardinality(kept') \in Nat /\ Cardinality(kept) \in Nat /\ Cardinality(kept') <= Cardinality(kept)
    <3>1. \A few : few \subseteq kept => IsFiniteSet(few) /\ Cardinality(few) <= Cardinality(kept) /\ Cardinality(few) \in Nat
      BY <2>2, FS_Subset, FS_CardinalityType
    <3>2. QED
      BY <2>2, <3>1, FS_CardinalityType
  <2>4. \A f \in enforcers : f.step # "size" => f \in enforcers'
    OBVIOUS
  <2>5. CASE \E f \in enforcers : f.step = "start" \/ (f.step = "count" /\ kept \subseteq f.list)
    <3>1. PICK f \in enforcers : f.step = "start" \/ (f.step = "count" /\ kept \subseteq f.list)
      BY <2>5
    <3>2. f \in enforcers' /\ kept' \subseteq kept
      BY <2>4, <3>1
    <3>3. QED
      BY <3>1, <3>2 DEF WithinLimits
  <2>6. CASE Cardinality(kept) <= MaxCheckpoints
    <3>1. Cardinality(kept') <= MaxCheckpoints
      BY <2>3, <2>6, CheckpointAssumption DEF CheckpointAssumption
    <3>2. QED
      BY <3>1 DEF WithinLimits
  <2>7. QED
    BY <2>1, <2>5, <2>6 DEF WithinLimits
<1>6. QED
  BY <1>1, <1>2, <1>3, <1>4, <1>5 DEF CheckpointInv

\* The same for a deletion outside the limits.
LEMMA OnlyDeleted ==
    ASSUME CheckpointInv, kept' \subseteq kept, UNCHANGED <<saved, user, enforcers, dropped, cutShort>>,
           events' \in {events, events + 1}
    PROVE  CheckpointInv'
<1>1. PICK none : none = {}
  OBVIOUS
<1>2. /\ dropped' = dropped \cup none /\ none \subseteq saved
      /\ (\A d \in none : Superseded(d, saved)) /\ \A f \in none : EnforcerOK(f, kept, saved)
  BY <1>1
<1>3. enforcers' = enforcers
  OBVIOUS
<1>4. QED
  BY <1>2, <1>3, KeptShrinks

\* A call to Create begins, or is refused by the interval check.
LEMMA CreateBegins ==
    ASSUME CheckpointInv, NEW u \in Users, user[u] = Free, NEW paths, NEW then, CreateFrom(u, paths, then),
           then.step \in {"idle", "restore"}, "step" \in DOMAIN then,
           UNCHANGED <<kept, saved, dropped, enforcers, cutShort>>, events' = events + 1
    PROVE  CheckpointInv'
<1>1. user[u].step # "saved"
  BY DEF Free
<1>2. CASE recent
  <2>1. user' = [user EXCEPT ![u] = then]
    BY <1>2 DEF CreateFrom
  <2>2. UserOK(then, saved, events')
    BY DEF UserOK
  <2>3. QED
    BY <1>1, <2>1, <2>2, UserMoves
<1>3. CASE ~ recent
  <2>1. PICK r : r = [step |-> "snapshot", at |-> events + 1, todo |-> paths, taken |-> {}, then |-> then]
    OBVIOUS
  <2>2. user' = [user EXCEPT ![u] = r]
    BY <1>3, <2>1 DEF CreateFrom
  <2>3. \A c \in saved : c.at < events + 1
    BY DEF CheckpointInv, Dated
  <2>4. events + 1 \in Nat
    BY DEF CheckpointInv
  <2>5. UserOK(r, saved, events')
    BY <2>1, <2>3, <2>4 DEF UserOK
  <2>6. QED
    BY <1>1, <2>2, <2>5, UserMoves
<1>4. QED
  BY <1>2, <1>3

\* Every step of a call.
LEMMA CheckpointCalls ==
    ASSUME \A u, v \in Users : u = v, CheckpointInv, NEW u \in Users, CheckpointCall(u)
    PROVE  CheckpointInv'
<1>1. UserOK(user[u], saved, events) /\ DOMAIN user = Users
  BY DEF CheckpointInv
<1>2. Dated(saved, events) /\ kept \subseteq saved /\ events \in Nat
  BY DEF CheckpointInv
<1>3. CASE BeginCreate(u, Paths)
  <2>1. Free.step \in {"idle", "restore"} /\ "step" \in DOMAIN Free
    BY DEF Free
  <2>2. QED
    BY <1>3, <2>1, CreateBegins DEF BeginCreate, Event
<1>4. ASSUME NEW p \in Paths, SnapshotFile(u, p) PROVE CheckpointInv'
  <2>1. PICK r : r = [user[u] EXCEPT !.todo = @ \ {p},
                                    !.taken = IF disk[p] = Missing THEN @
                                              ELSE @ \cup {<<p, IF p \in LargeFiles THEN Lost ELSE disk[p]>>}]
    OBVIOUS
  <2>2. user' = [user EXCEPT ![u] = r] /\ user[u].step = "snapshot"
    BY <1>1, <1>4, <2>1 DEF SnapshotFile
  <2>3. DOMAIN r = DOMAIN user[u] /\ {"step", "at", "then"} \subseteq DOMAIN user[u]
    BY <1>1, <2>1, <2>2 DEF UserOK
  <2>4. r.step = user[u].step /\ r.at = user[u].at /\ r.then = user[u].then
    BY <2>1, <2>3
  <2>5. UserOK(r, saved, events)
    BY <1>1, <2>3, <2>4 DEF UserOK
  <2>6. UNCHANGED <<kept, saved, dropped, enforcers, cutShort, events>>
    BY <1>4 DEF SnapshotFile
  <2>7. QED
    BY <2>2, <2>5, <2>6, UserMoves
<1>5. ASSUME NEW p \in Paths, RestoreFile(u, p) PROVE CheckpointInv'
  <2>1. PICK r : r = [user[u] EXCEPT !.todo = @ \ {p}]
    OBVIOUS
  <2>2. user' = [user EXCEPT ![u] = r] /\ user[u].step = "restore"
    BY <1>1, <1>5, <2>1 DEF RestoreFile
  <2>3. "step" \in DOMAIN r /\ r.step = "restore"
    BY <1>1, <2>1, <2>2 DEF UserOK
  <2>4. UserOK(r, saved, events)
    BY <2>3 DEF UserOK
  <2>5. UNCHANGED <<kept, saved, dropped, enforcers, cutShort, events>>
    BY <1>5 DEF RestoreFile
  <2>6. QED
    BY <2>2, <2>4, <2>5, UserMoves
<1>6. CASE SaveCheckpointFile(u)
  <2>1. user[u].step = "snapshot" /\ UNCHANGED <<enforcers, events, dropped, cutShort>>
    BY <1>6 DEF SaveCheckpointFile
  <2>2. CASE user' = [user EXCEPT ![u] = user[u].then] /\ UNCHANGED <<kept, saved>>
    <3>1. PICK r : r = user[u].then
      OBVIOUS
    <3>2. UserOK(r, saved, events)
      BY <1>1, <2>1, <3>1 DEF UserOK
    <3>3. QED
      BY <2>1, <2>2, <3>1, <3>2, UserMoves
  <2>3. CASE /\ kept' = kept \cup {Checkpoint(u)} /\ saved' = saved \cup {Checkpoint(u)}
             /\ user' = [user EXCEPT ![u].step = "saved"]
    <3>1. PICK c : c = Checkpoint(u)
      OBVIOUS
    <3>2. c.at = user[u].at /\ c.at \in Nat /\ c.at <= events /\ \A d \in saved : c.at > d.at
      BY <1>1, <1>2, <2>1, <3>1 DEF Checkpoint, UserOK, Dated
    <3>3. saved' = saved \cup {c} /\ kept' = kept \cup {c} /\ c \notin saved
      BY <2>3, <3>1, <3>2
    <3>4. IsFiniteSet(saved \cup {c})
      BY <1>2, FS_AddElement DEF Dated
    <3>5. Dated(saved', events')
      BY <1>2, <2>1, <3>2, <3>3, <3>4 DEF Dated
    <3>6. user'[u] = [user[u] EXCEPT !.step = "saved"] /\ DOMAIN user' = Users
      BY <1>1, <2>3
    <3>7. UserOK(user'[u], saved', events')
      <4>1. {"step", "at", "then"} \subseteq DOMAIN user[u]
        BY <1>1, <2>1 DEF UserOK
      <4>2. /\ DOMAIN user'[u] = DOMAIN user[u] /\ user'[u].step = "saved"
            /\ user'[u].at = user[u].at /\ user'[u].then = user[u].then
        BY <3>6, <4>1
      <4>3. QED
        BY <1>1, <2>1, <4>1, <4>2 DEF UserOK
    <3>8. \A e \in enforcers : EnforcerOK(e, kept \cup {c}, saved \cup {c})
      <4>1. \A e \in enforcers : EnforcerOK(e, kept, saved)
        BY DEF CheckpointInv
      <4>2. \A x \in (saved \cup {c}) \ saved : \A y \in saved : x.at > y.at
        BY <3>2
      <4>3. kept \cup {c} \subseteq kept \cup ((saved \cup {c}) \ saved)
        BY <3>3
      <4>4. QED
        BY <3>4, <4>1, <4>2, <4>3, EnforcerStays
    <3>9. \A d \in dropped : Superseded(d, saved \cup {c})
      BY <3>4, SupersededStays DEF CheckpointInv
    <3>10. WithinLimits'
      <4>1. user'[u].step = "saved"
        BY <1>1, <2>1, <3>6 DEF UserOK
      <4>2. QED
        BY <4>1 DEF WithinLimits
    <3>11. QED
      BY <1>2, <2>1, <3>3, <3>5, <3>6, <3>7, <3>8, <3>9, <3>10 DEF CheckpointInv
  <2>4. QED
    BY <1>6, <2>2, <2>3 DEF SaveCheckpointFile
<1>7. CASE UpdateSessionState(u)
  <2>1. PICK n : n = [for |-> user[u].at, step |-> "start", list |-> {}, total |-> 0]
    OBVIOUS
  <2>2. /\ user[u].step = "saved" /\ enforcers' = enforcers \cup {n}
        /\ user' = [user EXCEPT ![u] = user[u].then]
        /\ UNCHANGED <<kept, saved, dropped, events, cutShort>>
    BY <1>7, <2>1 DEF UpdateSessionState
  <2>3. EnforcerOK(n, kept, saved) /\ n.step = "start"
    BY <1>1, <2>1, <2>2 DEF EnforcerOK, UserOK
  <2>4. UserOK(user[u].then, saved, events)
    BY <1>1, <2>2 DEF UserOK
  <2>5. DOMAIN user' = Users /\ user'[u] = user[u].then
    BY <1>1, <2>2
  <2>6. WithinLimits'
    BY <2>2, <2>3 DEF WithinLimits
  <2>7. QED
    BY <2>2, <2>3, <2>4, <2>5, <2>6 DEF CheckpointInv
<1>8. CASE EndRestore(u)
  <2>1. PICK r : r = Free
    OBVIOUS
  <2>2. UserOK(r, saved, events)
    BY <2>1 DEF UserOK, Free
  <2>3. QED
    BY <1>8, <2>1, <2>2, UserMoves DEF EndRestore
<1>9. ASSUME NEW c \in kept, DeleteCheckpoint(u, c) PROVE CheckpointInv'
  <2>1. /\ kept' \subseteq kept /\ events' = events + 1
        /\ UNCHANGED <<saved, user, enforcers, dropped, cutShort>>
    BY <1>9 DEF DeleteCheckpoint, Event
  <2>2. QED
    BY <2>1, OnlyDeleted
<1>10. ASSUME NEW c \in kept, NEW backup, NEW overwrite, BeginRestore(u, c, backup, overwrite) PROVE CheckpointInv'
  <2>1. PICK restore : restore = [step |-> "restore", of |-> c, todo |-> DOMAIN c.snapshots, overwrite |-> overwrite]
    OBVIOUS
  <2>2. /\ user[u] = Free /\ events' = events + 1
        /\ UNCHANGED <<kept, saved, dropped, enforcers, cutShort>>
    BY <1>10 DEF BeginRestore, Event
  <2>3. restore.step = "restore" /\ "step" \in DOMAIN restore
    BY <2>1
  <2>4. CASE backup
    <3>1. CreateFrom(u, DOMAIN c.snapshots, restore)
      BY <1>10, <2>1, <2>4 DEF BeginRestore
    <3>2. PICK paths : paths = DOMAIN c.snapshots
      OBVIOUS
    <3>3. QED
      BY <2>2, <2>3, <3>1, <3>2, CreateBegins
  <2>5. CASE ~ backup
    <3>1. user' = [user EXCEPT ![u] = restore]
      BY <1>10, <2>1, <2>5 DEF BeginRestore
    <3>2. UserOK(restore, saved, events')
      BY <2>3 DEF UserOK
    <3>3. user[u].step # "saved"
      BY <2>2 DEF Free
    <3>4. QED
      BY <2>2, <3>1, <3>2, <3>3, UserMoves
  <2>6. QED
    BY <2>4, <2>5
<1>11. QED
  BY <1>3, <1>4, <1>5, <1>6, <1>7, <1>8, <1>9, <1>10 DEF CheckpointCall

\* The list is read: it holds all that is stored.
LEMMA ListingOK ==
    ASSUME CheckpointInv, NEW e \in enforcers, EnforceList(e)
    PROVE  CheckpointInv'
<1>1. PICK n : n = [e EXCEPT !.step = "count", !.list = kept]
  OBVIOUS
<1>2. /\ enforcers' = (enforcers \ {e}) \cup {n} /\ UNCHANGED <<kept, user, events, saved, dropped>>
  BY <1>1 DEF EnforceList, Replace
<1>3. e \in [for : Nat, step : {"start", "count", "size"}, list : SUBSET saved, total : Int] /\ kept \subseteq saved
  BY DEF CheckpointInv, EnforcerOK
<1>4. /\ n \in [for : Nat, step : {"start", "count", "size"}, list : SUBSET saved, total : Int]
      /\ n.step = "count" /\ n.list = kept
  BY <1>1, <1>3
<1>5. EnforcerOK(n, kept, saved)
  BY <1>4 DEF EnforcerOK
<1>6. WithinLimits'
  BY <1>2, <1>4 DEF WithinLimits
<1>7. QED
  BY <1>2, <1>5, <1>6 DEF CheckpointInv

\* The first loop: it deletes what MaxCheckpoints others are newer than, and ends
\* when of what was listed no more than these are left.
LEMMA CountingOK ==
    ASSUME CheckpointInv, NEW e \in enforcers, EnforceCount(e)
    PROVE  CheckpointInv'
<1>1. /\ e.step = "count" /\ EnforcerOK(e, kept, saved)
      /\ e \in [for : Nat, step : {"start", "count", "size"}, list : SUBSET saved, total : Int]
  BY DEF EnforceCount, CheckpointInv, EnforcerOK
<1>2. Dated(saved, events) /\ kept \subseteq saved /\ IsFiniteSet(saved)
  BY DEF CheckpointInv, Dated
<1> DEFINE doomed == (e.list \ NewestOf(MaxCheckpoints, e.list)) \cap kept
<1>3. UNCHANGED <<user, events, saved, cutShort>>
  BY DEF EnforceCount
<1>4. CASE doomed # {}
  <2>1. PICK c : c = OldestOf(doomed)
    OBVIOUS
  <2>2. /\ kept' = kept \ {c} /\ dropped' = dropped \cup ({c} \cap kept) /\ UNCHANGED enforcers
    BY <1>4, <2>1 DEF EnforceCount, Drop
  <2>3. IsFiniteSet(doomed) /\ \A d \in doomed : d.at \in Nat
    BY <1>2, FS_Subset DEF Dated
  <2>4. c \in doomed
    BY <1>4, <2>1, <2>3, OldestIsThere
  <2>5. Superseded(c, saved)
    <3>1. ~ (Cardinality({d \in e.list : d.at > c.at}) < MaxCheckpoints)
      BY <2>4 DEF NewestOf
    <3>2. {d \in e.list : d.at > c.at} \subseteq {d \in saved : d.at > c.at}
      BY <1>1
    <3>3. IsFiniteSet({d \in saved : d.at > c.at})
      BY <1>2, FS_Subset
    <3>4. /\ Cardinality({d \in e.list : d.at > c.at}) <= Cardinality({d \in saved : d.at > c.at})
          /\ Cardinality({d \in e.list : d.at > c.at}) \in Nat /\ Cardinality({d \in saved : d.at > c.at}) \in Nat
      BY <3>2, <3>3, FS_Subset, FS_CardinalityType
    <3>5. Cardinality({d \in saved : d.at > c.at}) >= MaxCheckpoints
      BY <3>1, <3>4, CheckpointAssumption DEF CheckpointAssumption
    <3>6. QED
      BY <3>5 DEF Superseded
  <2>6. PICK lost : lost = {c}
    OBVIOUS
  <2>7. dropped' = dropped \cup lost /\ lost \subseteq saved /\ \A d \in lost : Superseded(d, saved)
    BY <1>2, <2>2, <2>4, <2>5, <2>6
  <2>8. PICK none : none = {}
    OBVIOUS
  <2>9. (\A f \in none : EnforcerOK(f, kept, saved)) /\ kept' \subseteq kept /\ enforcers' = enforcers
    BY <2>2, <2>8
  <2>10. QED
    BY <1>3, <2>7, <2>9, KeptShrinks
<1>5. CASE doomed = {}
  <2>1. PICK n : n = [e EXCEPT !.step = "size", !.total = SizeOf(kept)]
    OBVIOUS
  <2>2. /\ enforcers' = (enforcers \ {e}) \cup {n} /\ UNCHANGED <<kept, dropped>>
    BY <1>5, <2>1 DEF EnforceCount, Replace
  <2>3. IsFiniteSet(kept) /\ SizeOf(kept) \in Nat
    BY <1>2, FS_Subset, SizeIsNat
  <2>4. /\ n \in [for : Nat, step : {"start", "count", "size"}, list : SUBSET saved, total : Int]
        /\ n.step = "size" /\ n.list = e.list /\ n.total = SizeOf(kept)
    <3>1. PICK size \in Int : size = SizeOf(kept)
      BY <2>3
    <3>2. n = [e EXCEPT !.step = "size", !.total = size]
      BY <2>1, <3>1
    <3>3. n \in [for : Nat, step : {"start", "count", "size"}, list : SUBSET saved, total : Int]
      BY <1>1, <3>2
    <3>4. n.step = "size" /\ n.list = e.list /\ n.total = size
      BY <1>1, <3>2
    <3>5. QED
      BY <3>1, <3>3, <3>4
  <2>5. n.total <= SizeOf(n.list \cup NewerThan(n.list, saved))
    <3>1. kept \subseteq e.list \cup NewerThan(e.list, saved)
      BY <1>1 DEF EnforcerOK
    <3>2. e.list \cup NewerThan(e.list, saved) \subseteq saved
      BY <1>1 DEF NewerThan
    <3>3. IsFiniteSet(e.list \cup NewerThan(e.list, saved))
      BY <1>2, <3>2, FS_Subset
    <3>4. QED
      BY <2>4, <3>1, <3>3, SizeGrows
  <2>6. EnforcerOK(n, kept, saved)
    BY <2>4, <2>5 DEF EnforcerOK
  <2>7. ASSUME kept \subseteq e.list PROVE Cardinality(kept) <= MaxCheckpoints
    <3>1. kept \subseteq NewestOf(MaxCheckpoints, e.list)
      BY <1>5, <2>7
    <3>2. Dated(e.list, events)
      BY <1>1, <1>2, FS_Subset DEF Dated
    <3>3. /\ IsFiniteSet(NewestOf(MaxCheckpoints, e.list))
          /\ Cardinality(NewestOf(MaxCheckpoints, e.list)) <= MaxCheckpoints
      BY <3>2, NewestAreFew, CheckpointAssumption DEF CheckpointAssumption
    <3>4. Cardinality(kept) <= Cardinality(NewestOf(MaxCheckpoints, e.list))
      BY <3>1, <3>3, FS_Subset
    <3>5. Cardinality(kept) \in Nat /\ Cardinality(NewestOf(MaxCheckpoints, e.list)) \in Nat
      BY <2>3, <3>3, FS_CardinalityType
    <3>6. QED
      BY <3>3, <3>4, <3>5, CheckpointAssumption DEF CheckpointAssumption
  <2>8. WithinLimits'
    <3>1. WithinLimits /\ \A f \in enforcers : f # e => f \in enforcers'
      BY <2>2 DEF CheckpointInv
    <3>2. QED
      BY <1>1, <1>3, <2>2, <2>7, <3>1 DEF WithinLimits
  <2>9. QED
    BY <1>3, <2>2, <2>6, <2>8 DEF CheckpointInv
<1>6. QED
  BY <1>4, <1>5

\* The second loop: what it deletes did not fit with what is newer.
LEMMA SizingOK ==
    ASSUME CheckpointInv, NEW e \in enforcers, EnforceSize(e)
    PROVE  CheckpointInv'
<1>1. /\ e.step = "size" /\ EnforcerOK(e, kept, saved)
      /\ e \in [for : Nat, step : {"start", "count", "size"}, list : SUBSET saved, total : Int]
  BY DEF EnforceSize, CheckpointInv, EnforcerOK
<1>2. Dated(saved, events) /\ kept \subseteq saved /\ IsFiniteSet(saved)
  BY DEF CheckpointInv, Dated
<1>3. UNCHANGED <<user, events, saved, cutShort>>
  BY DEF EnforceSize
<1>4. CASE e.total > MaxTotalSize /\ e.list # {}
  <2> DEFINE all == e.list \cup NewerThan(e.list, saved)
  <2>1. PICK c : c = OldestOf(e.list)
    OBVIOUS
  <2>2. PICK n : n = [e EXCEPT !.list = @ \ {c}, !.total = @ - SizeOf({c})]
    OBVIOUS
  <2>3. /\ kept' = kept \ {c} /\ dropped' = dropped \cup ({c} \cap kept)
        /\ enforcers' = (enforcers \ {e}) \cup {n}
    BY <1>4, <2>1, <2>2 DEF EnforceSize, Drop, Replace
  <2>4. IsFiniteSet(e.list) /\ \A d \in e.list : d.at \in Nat
    BY <1>1, <1>2, FS_Subset DEF Dated
  <2>5. c \in e.list /\ \A d \in e.list : c.at <= d.at
    BY <1>4, <2>1, <2>4, OldestIsThere
  <2>6. all \subseteq {d \in saved : d.at >= c.at} /\ c \in all
    <3>1. \A d \in NewerThan(e.list, saved) : d \in saved /\ d.at > c.at
      BY <2>5 DEF NewerThan
    <3>2. \A d \in saved : d.at \in Nat
      BY <1>2 DEF Dated
    <3>3. c \in saved
      BY <1>1, <2>5
    <3>4. QED
      BY <1>1, <2>5, <3>1, <3>2, <3>3
  <2>7. IsFiniteSet({d \in saved : d.at >= c.at}) /\ IsFiniteSet(all)
    <3>1. IsFiniteSet({d \in saved : d.at >= c.at})
      BY <1>2, FS_Subset
    <3>2. QED
      BY <2>6, <3>1, FS_Subset
  <2>8. /\ SizeOf(all) <= SizeOf({d \in saved : d.at >= c.at})
        /\ SizeOf(all) \in Nat /\ SizeOf({d \in saved : d.at >= c.at}) \in Nat
    BY <2>6, <2>7, SizeGrows, SizeIsNat
  <2>9. e.total <= SizeOf(all) /\ e.total \in Int
    BY <1>1 DEF EnforcerOK
  <2> HIDE DEF all
  <2>10. Superseded(c, saved)
    <3>1. SizeOf({d \in saved : d.at >= c.at}) > MaxTotalSize
      BY <1>4, <2>8, <2>9, CheckpointAssumption DEF CheckpointAssumption
    <3>2. QED
      BY <3>1 DEF Superseded
  <2>11. EnforcerOK(n, kept, saved)
    <3>1. SizeOf({c}) \in Nat
      BY FS_Singleton, SizeIsNat
    <3>2. /\ n \in [for : Nat, step : {"start", "count", "size"}, list : SUBSET saved, total : Int]
          /\ n.step = "size" /\ n.list = e.list \ {c} /\ n.total = e.total - SizeOf({c})
      <4>1. PICK size \in Int : size = e.total - SizeOf({c})
        BY <1>1, <3>1
      <4>2. PICK list \in SUBSET saved : list = e.list \ {c}
        BY <1>1
      <4>3. n = [e EXCEPT !.list = list, !.total = size]
        BY <2>2, <4>1, <4>2
      <4>4. n \in [for : Nat, step : {"start", "count", "size"}, list : SUBSET saved, total : Int]
        BY <1>1, <4>1, <4>2, <4>3
      <4>5. n.step = "size" /\ n.list = list /\ n.total = size
        BY <1>1, <4>3
      <4>6. QED
        BY <4>1, <4>2, <4>4, <4>5
    <3>3. SizeOf(all \ {c}) = SizeOf(all) - SizeOf({c})
      BY <2>6, <2>7, SizeWithout
    <3>4. all \ {c} \subseteq n.list \cup NewerThan(n.list, saved)
      BY <3>2 DEF all, NewerThan
    <3>5. n.list \cup NewerThan(n.list, saved) \subseteq saved
      BY <3>2 DEF NewerThan
    <3>6. IsFiniteSet(n.list \cup NewerThan(n.list, saved))
      BY <1>2, <3>5, FS_Subset
    <3>7. SizeOf(all \ {c}) <= SizeOf(n.list \cup NewerThan(n.list, saved))
      BY <3>4, <3>6, SizeGrows
    <3>8. SizeOf(n.list \cup NewerThan(n.list, saved)) \in Nat
      BY <3>6, SizeIsNat
    <3>9. n.total <= SizeOf(n.list \cup NewerThan(n.list, saved))
      BY <2>8, <2>9, <3>1, <3>2, <3>3, <3>7, <3>8
    <3>10. QED
      BY <3>2, <3>9 DEF EnforcerOK
  <2>12. PICK lost : lost = {c} \cap kept
    OBVIOUS
  <2>13. dropped' = dropped \cup lost /\ lost \subseteq saved /\ \A d \in lost : Superseded(d, saved)
    BY <1>2, <2>3, <2>10, <2>12
  <2>14. PICK next : next = {n}
    OBVIOUS
  <2>15. /\ enforcers' = (enforcers \ {e}) \cup next /\ kept' \subseteq kept
         /\ \A f \in next : EnforcerOK(f, kept, saved)
    BY <2>3, <2>11, <2>14
  <2>16. PICK gone : gone = e
    OBVIOUS
  <2>17. enforcers' = (enforcers \ {gone}) \cup next /\ gone.step = "size"
    BY <1>1, <2>15, <2>16
  <2>18. QED
    BY <1>3, <2>13, <2>15, <2>17, KeptShrinks
<1>5. CASE ~ (e.total > MaxTotalSize /\ e.list # {})
  <2>1. PICK none : none = {}
    OBVIOUS
  <2>2. enforcers' = (enforcers \ {e}) \cup none /\ UNCHANGED <<kept, dropped>>
    BY <1>5, <2>1 DEF EnforceSize, Replace
  <2>3. /\ kept' \subseteq kept /\ dropped' = dropped \cup none /\ none \subseteq saved
        /\ (\A d \in none : Superseded(d, saved)) /\ \A f \in none : EnforcerOK(f, kept, saved)
    BY <2>1, <2>2
  <2>4. QED
    BY <1>1, <1>3, <2>2, <2>3, KeptShrinks
<1>6. QED
  BY <1>4, <1>5

\* What enforceLimits of pkg/checkpoint deletes is older than MaxCheckpoints
\* others or does not fit with what is newer into MaxTotalSize, and once every
\* enforceLimits has ended by itself no more than MaxCheckpoints remain, when one
\* goroutine at a time creates checkpoints: a command makes one and ends.
THEOREM OnlyTheOldestAreDropped ==
    ASSUME \A u, v \in Users : u = v
    PROVE  CheckpointSpec => []LimitsCostTheOldest
<1>1. CheckpointInit => CheckpointInv
  <2> SUFFICES ASSUME CheckpointInit PROVE CheckpointInv
    OBVIOUS
  <2>1. UserOK(Free, {}, 0)
    BY DEF UserOK, Free
  <2>2. IsFiniteSet({}) /\ Cardinality({}) = 0
    BY FS_EmptySet
  <2>3. Dated(saved, events) /\ WithinLimits
    BY <2>2, CheckpointAssumption DEF CheckpointInit, Dated, WithinLimits, CheckpointAssumption
  <2>4. QED
    BY <2>1, <2>3 DEF CheckpointInit, CheckpointInv
<1>2. CheckpointInv /\ [CheckpointNext]_checkpointVars => CheckpointInv'
  <2> SUFFICES ASSUME CheckpointInv, [CheckpointNext]_checkpointVars PROVE CheckpointInv'
    OBVIOUS
  <2>1. ASSUME NEW u \in Users, CheckpointCall(u) PROVE CheckpointInv'
    BY <2>1, CheckpointCalls
  <2>2. ASSUME NEW e \in enforcers, EnforceList(e) \/ EnforceCount(e) \/ EnforceSize(e) PROVE CheckpointInv'
    BY <2>2, ListingOK, CountingOK, SizingOK
  <2>3. ASSUME NEW c \in expiring, DeleteExpired(c) PROVE CheckpointInv'
    BY <2>3, OnlyDeleted DEF DeleteExpired
  <2>4. ASSUME UNCHANGED <<kept, user, enforcers, saved, dropped, cutShort>>, events' \in {events, events + 1}
        PROVE  CheckpointInv'
    BY <2>4, OnlyDeleted
  <2>5. ASSUME NEW c \in kept, FindExpired(c) PROVE CheckpointInv'
    BY <2>4, <2>5 DEF FindExpired, Event
  <2>6. ASSUME NEW p \in Paths, Edit(p) PROVE CheckpointInv'
    BY <2>4, <2>6 DEF Edit, Event
  <2>7. CASE IntervalPasses
    BY <2>4, <2>7 DEF IntervalPasses
  <2>8. CASE ProgramEnds
    <3>1. /\ events' = events + 1 /\ user' = [u \in Users |-> Free] /\ enforcers' = {}
          /\ UNCHANGED <<kept, saved, dropped>>
          /\ cutShort' = (cutShort \/ enforcers # {} \/ \E u \in Users : user[u].step = "saved")
      BY <2>8 DEF ProgramEnds, Event
    <3>2. events + 1 \in Nat /\ Dated(saved, events + 1)
      BY DEF CheckpointInv, Dated
    <3>3. UserOK(Free, saved, events + 1)
      BY DEF UserOK, Free
    <3>4. WithinLimits'
      BY <3>1 DEF CheckpointInv, WithinLimits
    <3>5. QED
      BY <3>1, <3>2, <3>3, <3>4 DEF CheckpointInv
  <2>9. CASE UNCHANGED checkpointVars
    BY <2>4, <2>9 DEF checkpointVars
  <2>10. QED
    BY <2>1, <2>2, <2>3, <2>5, <2>6, <2>7, <2>8, <2>9 DEF CheckpointNext
<1>3. CheckpointInv => LimitsCostTheOldest
  BY DEF CheckpointInv, LimitsCostTheOldest, WithinLimits, Superseded
<1>4. QED
  BY <1>1, <1>2, <1>3, PTL DEF CheckpointSpec
=============================================================================

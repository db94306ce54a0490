--------------------------- MODULE CircuitBreaker ---------------------------
(***************************************************************************)
(* The circuit breaker (pkg/resilience/circuit_breaker.go): Execute asks   *)
(* allowRequest, runs the function outside the lock, and reports with      *)
(* recordResult, which may find the breaker in another state than the one  *)
(* that admitted the call.                                                 *)
(*                                                                         *)
(* A refused call (ErrCircuitOpen, ErrTooManyRequests) changes nothing: it *)
(* is a step not taken. failureCount is compared in the closed state only, *)
(* and saturates at the threshold.                                         *)
(***************************************************************************)
EXTENDS Naturals, FiniteSets

CONSTANTS Callers,           \* concurrent callers of Execute
          FailureThreshold, SuccessThreshold, HalfOpenMaxCalls   \* the configuration

ASSUME BreakerAssumption ==
    /\ IsFiniteSet(Callers)
    /\ FailureThreshold \in Nat \ {0}
    /\ SuccessThreshold \in Nat \ {0}
    /\ HalfOpenMaxCalls \in Nat \ {0}

VARIABLES state, failureCount, successCount, halfOpenCalls,
          timer,   \* in the open state: has timeout passed since lastStateChange?
          calling,   \* callers between allowRequest and recordResult
          trials     \* those of them admitted since the breaker went half-open

vars == <<state, failureCount, successCount, halfOpenCalls, timer, calling, trials>>

TypeOK ==
    /\ state \in {"closed", "open", "half-open"}
    /\ failureCount \in 0 .. FailureThreshold
    /\ successCount \in 0 .. SuccessThreshold
    /\ halfOpenCalls \in 0 .. HalfOpenMaxCalls
    /\ timer \in {"running", "over"}
    /\ calling \in SUBSET Callers
    /\ trials \in SUBSET calling

Init ==
    /\ state = "closed"
    /\ failureCount = 0 /\ successCount = 0 /\ halfOpenCalls = 0
    /\ timer = "running"
    /\ calling = {} /\ trials = {}

-----------------------------------------------------------------------------
\* A mutant: closing forgets to reset the failure count.
TransitionKeepsFailures(new, failures) ==
    /\ state' = new
    /\ timer' = "running"
    /\ failureCount' = failures
    /\ successCount' = 0
    /\ UNCHANGED halfOpenCalls

\* transitionTo for the states that leave halfOpenCalls alone; failures is the
\* failure count the state change finds.
TransitionTo(new, failures) ==
    /\ state' = new
    /\ timer' = "running"
    /\ failureCount' = IF new = "closed" THEN 0 ELSE failures
    /\ successCount' = 0
    /\ UNCHANGED halfOpenCalls

\* allowRequest.
AdmitClosed(c) ==
    /\ state = "closed"
    /\ calling' = calling \cup {c}
    /\ UNCHANGED <<state, failureCount, successCount, halfOpenCalls, timer, trials>>

\* The first call after the timeout makes the breaker half-open.
AdmitProbe(c) ==
    /\ state = "open" /\ timer = "over"
    /\ state' = "half-open" /\ timer' = "running"
    /\ successCount' = 0 /\ halfOpenCalls' = 1
    /\ calling' = calling \cup {c} /\ trials' = {c}
    /\ UNCHANGED failureCount

AdmitTrial(c) ==
    /\ state = "half-open"
    /\ halfOpenCalls < HalfOpenMaxCalls
    /\ halfOpenCalls' = halfOpenCalls + 1
    /\ calling' = calling \cup {c} /\ trials' = trials \cup {c}
    /\ UNCHANGED <<state, failureCount, successCount, timer>>

AllowRequest(c) ==
    /\ c \notin calling
    /\ AdmitClosed(c) \/ AdmitProbe(c) \/ AdmitTrial(c)

OneMore(n, max) == IF n < max THEN n + 1 ELSE n

\* recordFailure: whichever state admitted the call.
RecordFailure(c) ==
    LET failures == OneMore(failureCount, FailureThreshold) IN
    /\ c \in calling
    /\ calling' = calling \ {c}
    /\ \/ /\ state = "half-open" \/ (state = "closed" /\ failures >= FailureThreshold)
          /\ TransitionTo("open", failures)
          /\ trials' = {}
       \/ /\ state = "open" \/ (state = "closed" /\ failures < FailureThreshold)
          /\ failureCount' = failures
          /\ trials' = trials \ {c}
          /\ UNCHANGED <<state, successCount, halfOpenCalls, timer>>

\* A mutant: successes count in the closed state only.
RecordSuccessUncounted(c) ==
    /\ c \in calling
    /\ calling' = calling \ {c}
    /\ trials' = trials \ {c}
    /\ failureCount' = IF state = "closed" THEN 0 ELSE failureCount
    /\ UNCHANGED <<state, successCount, halfOpenCalls, timer>>

\* recordSuccess.
RecordSuccess(c) ==
    /\ c \in calling
    /\ calling' = calling \ {c}
    /\ \/ /\ state = "closed"
          /\ failureCount' = 0
          /\ trials' = trials \ {c}
          /\ UNCHANGED <<state, successCount, halfOpenCalls, timer>>
       \/ /\ state = "open"
          /\ trials' = trials \ {c}
          /\ UNCHANGED <<state, failureCount, successCount, halfOpenCalls, timer>>
       \/ /\ state = "half-open"
          /\ successCount + 1 < SuccessThreshold
          /\ successCount' = successCount + 1
          /\ trials' = trials \ {c}
          /\ UNCHANGED <<state, failureCount, halfOpenCalls, timer>>
       \/ /\ state = "half-open"
          /\ successCount + 1 >= SuccessThreshold
          /\ TransitionTo("closed", failureCount)
          /\ trials' = {}

Reset == TransitionTo("closed", failureCount) /\ trials' = {} /\ UNCHANGED calling

ForceOpen == TransitionTo("open", failureCount) /\ trials' = {} /\ UNCHANGED calling

\* Time: timeout passes since the breaker opened.
TimeoutElapses ==
    /\ state = "open" /\ timer = "running"
    /\ timer' = "over"
    /\ UNCHANGED <<state, failureCount, successCount, halfOpenCalls, calling, trials>>

Next ==
    \/ \E c \in Callers : AllowRequest(c) \/ RecordFailure(c) \/ RecordSuccess(c)
    \/ Reset \/ ForceOpen \/ TimeoutElapses

Spec == Init /\ [][Next]_vars

\* The protected function returns (Execute passes it a context), and there is
\* always somebody who calls.
FairSpec ==
    /\ Spec
    /\ \A c \in Callers : WF_vars(AllowRequest(c)) /\ WF_vars(RecordFailure(c) \/ RecordSuccess(c))
    /\ WF_vars(TimeoutElapses)

-----------------------------------------------------------------------------
\* A closed breaker has seen fewer failures in a row than the threshold, late
\* reports of calls admitted before the last trip included.
ClosedBelowThreshold == state = "closed" => failureCount < FailureThreshold

\* While half-open, the calls let through and not yet back are no more than
\* halfOpenCalls counts, and that is within HalfOpenMaxCalls.
TrialBudget ==
    /\ Cardinality(trials) <= HalfOpenMaxCalls
    /\ state = "half-open" => Cardinality(trials) <= halfOpenCalls
    /\ state # "half-open" => trials = {}

\* The breaker trips and recovers as configured, whatever calls admitted in an
\* earlier state report in a later one.
BreakerBounded == TypeOK /\ ClosedBelowThreshold /\ TrialBudget

\* circuit_breaker.go:47: HalfOpenMaxCalls is "Max concurrent calls in half-open
\* state". So a half-open breaker with no call in flight admits the next one.
HalfOpenAdmits ==
    state = "half-open" /\ calling = {} ~> state # "half-open" \/ calling # {}
=============================================================================

----------------------------- MODULE RateLimiter -----------------------------
(***************************************************************************)
(* RateLimiter and Backpressure of pkg/resilience/rate_limiter.go. Callers *)
(* wait for tokens of a bucket (WaitN) and then execute under a bound on   *)
(* the number of executions. Time is discrete: the bucket gains Rate       *)
(* tokens a tick, where the code adds fractions. A caller that waited too  *)
(* short or too long asks again, so the computed wait time is left out.    *)
(***************************************************************************)
EXTENDS Naturals, FiniteSets

CONSTANTS Clients,
          Demand,           \* how many tokens each asks for
          Rate, BucketSize,
          MaxConcurrent,
          ShedAt,           \* the load from which shedding is possible
          MaxClock          \* bound on the time

ASSUME RateLimiterAssumption ==
    /\ {Rate, BucketSize, MaxConcurrent, ShedAt, MaxClock} \subseteq Nat
    /\ IsFiniteSet(Clients) /\ Demand \in [Clients -> Nat \ {0}]

VARIABLES clock,
          tokens, lastUpdate,
          currentLoad,
          caller,           \* where each requester is
          given             \* history: tokens given up to each moment

limiterVars == <<clock, tokens, lastUpdate, currentLoad, caller, given>>

Moments == 0 .. MaxClock

LimiterTypeOK ==
    /\ clock \in Moments /\ lastUpdate \in 0 .. clock
    /\ tokens \in 0 .. BucketSize
    /\ currentLoad \in 0 .. MaxConcurrent
    /\ caller \in [Clients -> {"idle", "asking", "waiting", "allowed", "executing"}]
    /\ given \in [Moments -> Nat]

LimiterInit ==
    /\ clock = 0 /\ lastUpdate = 0
    /\ tokens = BucketSize
    /\ currentLoad = 0
    /\ caller = [r \in Clients |-> "idle"]
    /\ given = [m \in Moments |-> 0]

At(r, from, to) == caller[r] = from /\ caller' = [caller EXCEPT ![r] = to]

-----------------------------------------------------------------------------
\* refill: what the bucket holds now.
Refilled ==
    LET full == tokens + (clock - lastUpdate) * Rate
    IN  IF full > BucketSize THEN BucketSize ELSE full

Request(r) ==
    /\ At(r, "idle", "asking")
    /\ UNCHANGED <<clock, tokens, lastUpdate, currentLoad, given>>

\* A round of WaitN: AllowN, and if it refuses a refill for the wait time.
AllowN(r) ==
    /\ Refilled >= Demand[r]
    /\ At(r, "asking", "allowed")
    /\ tokens' = Refilled - Demand[r]
    /\ lastUpdate' = clock
    /\ given' = [m \in Moments |-> IF m >= clock THEN given[m] + Demand[r] ELSE given[m]]
    /\ UNCHANGED <<clock, currentLoad>>

\* A mutant: the time is noted only when tokens are given.
RefuseUntimed(r) ==
    /\ Refilled < Demand[r]
    /\ At(r, "asking", "waiting")
    /\ tokens' = Refilled
    /\ UNCHANGED <<clock, lastUpdate, currentLoad, given>>

Refuse(r) ==
    /\ Refilled < Demand[r]
    /\ At(r, "asking", "waiting")
    /\ tokens' = Refilled
    /\ lastUpdate' = clock
    /\ UNCHANGED <<clock, currentLoad, given>>

TryAgain(r) ==
    /\ At(r, "waiting", "asking")
    /\ UNCHANGED <<clock, tokens, lastUpdate, currentLoad, given>>

\* The context ends before the tokens come.
GiveUpWaiting(r) ==
    /\ caller[r] \in {"asking", "waiting"}
    /\ caller' = [caller EXCEPT ![r] = "idle"]
    /\ UNCHANGED <<clock, tokens, lastUpdate, currentLoad, given>>

\* Backpressure.Execute: Acquire refuses at the bound, and may from ShedAt on.
Acquire(r) ==
    /\ currentLoad < MaxConcurrent
    /\ At(r, "allowed", "executing")
    /\ currentLoad' = currentLoad + 1
    /\ UNCHANGED <<clock, tokens, lastUpdate, given>>

Shed(r) ==
    /\ currentLoad >= MaxConcurrent \/ currentLoad >= ShedAt
    /\ At(r, "allowed", "idle")
    /\ UNCHANGED <<clock, tokens, lastUpdate, currentLoad, given>>

\* The deferred Release runs whether the function returns or panics.
Release(r) ==
    /\ At(r, "executing", "idle")
    /\ currentLoad' = IF currentLoad > 0 THEN currentLoad - 1 ELSE 0
    /\ UNCHANGED <<clock, tokens, lastUpdate, given>>

TickClock ==
    /\ clock < MaxClock
    /\ clock' = clock + 1
    /\ UNCHANGED <<tokens, lastUpdate, currentLoad, caller, given>>

LimiterNext ==
    \/ \E r \in Clients : \/ Request(r) \/ AllowN(r) \/ Refuse(r) \/ TryAgain(r) \/ GiveUpWaiting(r)
                             \/ Acquire(r) \/ Shed(r) \/ Release(r)
    \/ TickClock

LimiterSpec == LimiterInit /\ [][LimiterNext]_limiterVars

-----------------------------------------------------------------------------
Given(from, to) == given[to] - (IF from = 0 THEN 0 ELSE given[from - 1])

\* In no span of time are more tokens given than the bucket holds and the rate
\* brings in that time, however callers and their refills interleave; and the
\* load is the number of functions that execute (rate_limiter.go:45-57, 93-102,
\* 153-184).
NoBurst ==
    /\ LimiterTypeOK
    /\ \A from, to \in Moments :
           from <= to => Given(from, to) <= BucketSize + Rate * (to - from)
    /\ currentLoad = Cardinality({r \in Clients : caller[r] = "executing"})
=============================================================================

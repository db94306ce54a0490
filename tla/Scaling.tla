------------------------------ MODULE Scaling ------------------------------
(***************************************************************************)
(* pkg/performance/scaling.go: AutoScaler decides how many instances of an *)
(* agent type there should be; LoadBalancer hands requests to a list of    *)
(* instances in turn. Evaluate and ApplyDecision each take the lock, and   *)
(* nothing holds it in between. What the averaged metrics call for is any  *)
(* of scale up, scale down or nothing; the cooldown passes at any moment.  *)
(* The weighted algorithm, whose choice is random, and the trackers of     *)
(* latency and throughput are left out.                                    *)
(***************************************************************************)
EXTENDS Integers, Sequences, SequencesExt

CONSTANTS Evaluators,                     \* goroutines that evaluate and apply
          MinInstances, MaxInstances,
          ScaleUpStep, ScaleDownStep,
          Instances,                      \* ids the balancer is given
          MaxPicks                        \* bound on the counted picks of an instance

ASSUME ScalingAssumption ==
    /\ {MinInstances, MaxInstances, ScaleUpStep, ScaleDownStep, MaxPicks} \subseteq Nat
    /\ MinInstances <= MaxInstances

VARIABLES currentCount,
          coolingDown,     \* the last scaling is younger than CooldownPeriod
          decision,        \* what an evaluator is about to apply
          deployed,        \* instances onScale has been told to run
          lbInstances,     \* the balancer's list
          currentIndex,    \* from zero, as in the code
          picks,           \* picks of an instance since the list changed last
          crashed          \* Next indexed the list past its end, which panics

scalerVars == <<currentCount, coolingDown, decision, deployed>>
balancerVars == <<lbInstances, currentIndex, picks, crashed>>
scalingVars == <<scalerVars, balancerVars>>

NoDecision == [current |-> 0, desired |-> 0]

ScalingTypeOK ==
    /\ currentCount \in Nat /\ deployed \in Int /\ coolingDown \in BOOLEAN
    /\ decision \in [Evaluators -> [current : Nat, desired : Nat]]
    /\ lbInstances \in Seq(Instances) /\ currentIndex \in Nat
    /\ picks \in [Instances -> 0 .. MaxPicks]
    /\ crashed \in BOOLEAN

ScalingInit ==
    /\ currentCount \in MinInstances .. MaxInstances
    /\ deployed = currentCount
    /\ coolingDown = FALSE
    /\ decision = [e \in Evaluators |-> NoDecision]
    /\ lbInstances = <<>> /\ currentIndex = 0
    /\ picks = [i \in Instances |-> 0]
    /\ crashed = FALSE

-----------------------------------------------------------------------------
Clamped(n) == IF n < MinInstances THEN MinInstances ELSE IF n > MaxInstances THEN MaxInstances ELSE n

\* determineScalingAction refuses to scale down at the minimum only.
ScalingActions == {ScaleUpStep} \cup (IF currentCount > MinInstances THEN {-ScaleDownStep} ELSE {})

Evaluate(e) ==
    /\ decision[e] = NoDecision /\ ~coolingDown
    /\ \E action \in ScalingActions :
           LET desired == Clamped(currentCount + action)
           IN  /\ desired # currentCount
               /\ decision' = [decision EXCEPT ![e] = [current |-> currentCount, desired |-> desired]]
    /\ UNCHANGED <<currentCount, coolingDown, deployed, balancerVars>>

\* A mutant: the scaler counts instances that onScale
\* failed to start.
ApplyRegardless(e) ==
    /\ decision[e] # NoDecision
    /\ decision' = [decision EXCEPT ![e] = NoDecision]
    /\ currentCount' = decision[e].desired
    /\ coolingDown' = TRUE
    /\ deployed' \in {deployed, deployed + (decision[e].desired - decision[e].current)}
    /\ UNCHANGED balancerVars

\* The change told to onScale is the one decided, whatever the count is by now.
ApplyDecision(e) ==
    /\ decision[e] # NoDecision
    /\ decision' = [decision EXCEPT ![e] = NoDecision]
    /\ \/ /\ deployed' = deployed + (decision[e].desired - decision[e].current)
          /\ currentCount' = decision[e].desired
          /\ coolingDown' = TRUE
       \/ UNCHANGED <<currentCount, coolingDown, deployed>>     \* onScale fails
    /\ UNCHANGED balancerVars

CooldownPasses ==
    /\ coolingDown /\ coolingDown' = FALSE
    /\ UNCHANGED <<currentCount, decision, deployed, balancerVars>>

-----------------------------------------------------------------------------
ListChanges == picks' = [i \in Instances |-> 0] /\ UNCHANGED <<crashed, scalerVars>>

AddInstance(i) ==
    /\ ~crashed /\ i \notin ToSet(lbInstances)
    /\ lbInstances' = Append(lbInstances, i)
    /\ UNCHANGED currentIndex
    /\ ListChanges

\* currentIndex stays what it was, though the list is shorter.
RemoveInstance(i) ==
    /\ ~crashed
    /\ \E k \in DOMAIN lbInstances : lbInstances[k] = i /\ lbInstances' = RemoveAt(lbInstances, k)
    /\ UNCHANGED currentIndex
    /\ ListChanges

Pick ==
    /\ ~crashed /\ lbInstances # <<>> /\ currentIndex < Len(lbInstances)
    /\ LET i == lbInstances[currentIndex + 1]
       IN  picks[i] < MaxPicks /\ picks' = [picks EXCEPT ![i] = @ + 1]
    /\ currentIndex' = (currentIndex + 1) % Len(lbInstances)
    /\ UNCHANGED <<lbInstances, crashed, scalerVars>>

PickPanics ==
    /\ ~crashed /\ lbInstances # <<>> /\ currentIndex >= Len(lbInstances)
    /\ crashed' = TRUE
    /\ UNCHANGED <<lbInstances, currentIndex, picks, scalerVars>>

ScalingNext ==
    \/ \E e \in Evaluators : Evaluate(e) \/ ApplyDecision(e)
    \/ CooldownPasses
    \/ \E i \in Instances : AddInstance(i) \/ RemoveInstance(i)
    \/ Pick \/ PickPanics

ScalingSpec == ScalingInit /\ [][ScalingNext]_scalingVars

-----------------------------------------------------------------------------
\* With one evaluator, StartMonitoring, the instances are as many as the scaler
\* counts and within the policy, through failed scalings and steps larger than
\* the room left (scaling.go:161-205, 259-275). Between its picks the balancer
\* treats the instances of an unchanged list alike (scaling.go:432-448).
ScalingKeepsToPolicy ==
    /\ ScalingTypeOK
    /\ deployed = currentCount /\ deployed \in MinInstances .. MaxInstances
    /\ \A i, j \in ToSet(lbInstances) : picks[i] <= picks[j] + 1
=============================================================================

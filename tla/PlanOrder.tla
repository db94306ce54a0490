----------------------------- MODULE PlanOrder -----------------------------
(***************************************************************************)
(* What the execution of a plan promises (pkg/coordination): a step is     *)
(* started at most once, and only when a step of each number it depends on *)
(* has succeeded; the plan gets one verdict, and it is "completed" only    *)
(* when every step has succeeded. Steps of a failed plan may go on.        *)
(***************************************************************************)
CONSTANTS Steps, Plans

VARIABLES plan,       \* the number of each step, and the numbers it depends on
          started, succeeded,
          verdict

vars == <<plan, started, succeeded, verdict>>

Init ==
    /\ plan \in Plans
    /\ started = {} /\ succeeded = {}
    /\ verdict = "executing"

Start(s) ==
    /\ s \notin started
    /\ \A d \in plan.dependsOn[s] : \E t \in succeeded : plan.number[t] = d
    /\ started' = started \cup {s}
    /\ UNCHANGED <<plan, succeeded, verdict>>

Succeed(s) ==
    /\ s \in started
    /\ succeeded' = succeeded \cup {s}
    /\ UNCHANGED <<plan, started, verdict>>

End ==
    /\ verdict = "executing"
    /\ \/ verdict' = "completed" /\ succeeded = Steps
       \/ verdict' = "failed"
    /\ UNCHANGED <<plan, started, succeeded>>

Next == End \/ \E s \in Steps : Start(s) \/ Succeed(s)

Spec == Init /\ [][Next]_vars
=============================================================================

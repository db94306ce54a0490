---------------------------- MODULE HandoffState ----------------------------
(***************************************************************************)
(* What the two executors of handoffs (pkg/coordination) have in common: a *)
(* plan and its execution, and the handoffs of its steps, each identified  *)
(* with the step it is made for.                                           *)
(***************************************************************************)
EXTENDS Naturals, FiniteSets

CONSTANTS N,         \* steps of a plan, in the order of ExecutionPlan.Steps
          Numbers,   \* step numbers
          Plans      \* plans as they come from the parser, which validates nothing

Steps == 1 .. N

\* Numbers may repeat, and a step may depend on itself or on a missing number.
PlanSet == [number : [Steps -> Numbers], dependsOn : [Steps -> SUBSET Numbers]]

ASSUME HandoffAssumption ==
    /\ N \in Nat
    /\ Plans \subseteq PlanSet

VARIABLES plan,
          phase,        \* of the loop over the plan: "choose" what is next, "wait", "ended"
          verdict,      \* PlanExecution.Status
          stepResults,  \* PlanExecution.StepResults; "none" for a number without an entry
          at,           \* how far the call for a handoff has come
          result,       \* what it returns
          crashed       \* a goroutine has panicked and the process is gone

planVars == <<plan, phase, verdict, stepResults>>
callVars == <<at, result>>

Results == {"success", "failure", "timeout", "err", "nil"}

StateTypeOK ==
    /\ plan \in Plans
    /\ phase \in {"choose", "wait", "ended"}
    /\ verdict \in {"executing", "completed", "failed"}
    /\ stepResults \in [Numbers -> {"none", "success", "failure"}]
    /\ at \in [Steps -> {"idle", "launched", "intent", "executing", "closing", "closed",
                            "registered", "waiting", "leaving", "returned", "collected"}]
    /\ result \in [Steps -> Results \cup {"none"}]
    /\ crashed \in BOOLEAN

StateInit ==
    /\ plan \in Plans
    /\ phase = "choose" /\ verdict = "executing"
    /\ stepResults = [n \in Numbers |-> "none"]
    /\ at = [h \in Steps |-> "idle"]
    /\ result = [h \in Steps |-> "none"]
    /\ crashed = FALSE

-----------------------------------------------------------------------------
\* The call for a handoff goes from one place to another.
Goes(h, from, to) == at[h] = from /\ at' = [at EXCEPT ![h] = to]

\* The plan's function returns.
PlanEndsWith(status) == phase' = "ended" /\ verdict' = status

StoreStepResult(s, status) ==
    stepResults' = [stepResults EXCEPT ![plan.number[s]] = status]
=============================================================================

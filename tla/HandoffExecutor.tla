-------------------------- MODULE HandoffExecutor --------------------------
(***************************************************************************)
(* The in-process executor (pkg/coordination/executor.go). ExecutePlan     *)
(* runs the steps of a plan in waves, a goroutine for each step, and       *)
(* collects their results; Execute makes a handoff and calls the model of  *)
(* the target agent. CancelHandoff and CleanupOldHandoffs look at the      *)
(* handoffs' records under the executor's lock, Execute changes them       *)
(* without it.                                                             *)
(*                                                                         *)
(* The status of a handoff is a string, two machine words: "torn" is what  *)
(* two writers at once may leave. The timeline is left out.                *)
(***************************************************************************)
EXTENDS HandoffState

CONSTANT MaxCancels   \* bound on what users cancel

ASSUME CancelAssumption == MaxCancels \in Nat

VARIABLES wave,        \* the steps whose results are being collected
          completed,   \* the numbers of the steps collected
          told,        \* the step numbers whose results a step is given as context
          status,      \* HandoffStatus.Status
          endTime,     \* the handoffs whose EndTime is set
          active,      \* activeHandoffs
          cancelling,  \* the handoff that CancelHandoff, holding the lock, is about to write to
          cancelled    \* history: the handoffs CancelHandoff has accepted

waveVars == <<wave, completed, told>>
recordVars == <<status, endTime, active>>
cancelVars == <<cancelling, cancelled>>
executorVars == <<waveVars, recordVars, cancelVars>>

ExecutorTypeOK ==
    /\ wave \subseteq Steps
    /\ completed \subseteq Numbers
    /\ told \in [Steps -> SUBSET Numbers]
    /\ status \in [Steps -> {"none", "executing", "completed", "failed", "torn"}]
    /\ endTime \subseteq Steps
    /\ active \subseteq Steps
    /\ cancelling \subseteq cancelled
    /\ cancelled \subseteq Steps

ExecutorInit ==
    /\ wave = {} /\ completed = {}
    /\ told = [s \in Steps |-> {}]
    /\ status = [h \in Steps |-> "none"]
    /\ endTime = {} /\ active = {}
    /\ cancelling = {} /\ cancelled = {}

-----------------------------------------------------------------------------
(* ExecutePlan *)

\* A mutant: what is completed already is not left out.
ReadyAgain == {s \in Steps : plan.dependsOn[s] \subseteq completed}

ReadySteps == {s \in Steps : plan.number[s] \notin completed /\ plan.dependsOn[s] \subseteq completed}

AllCompleted == Cardinality(completed) >= N

PlanCompletes ==
    /\ phase = "choose" /\ AllCompleted
    /\ PlanEndsWith("completed")
    /\ UNCHANGED <<plan, stepResults, callVars, executorVars>>

PlanStuck ==
    /\ phase = "choose" /\ ~AllCompleted /\ ReadySteps = {}
    /\ PlanEndsWith("failed")
    /\ UNCHANGED <<plan, stepResults, callVars, executorVars>>

LaunchWave ==
    /\ phase = "choose" /\ ~AllCompleted /\ ReadySteps # {}
    /\ wave' = ReadySteps
    /\ at' = [h \in Steps |-> IF h \in ReadySteps THEN "launched" ELSE at[h]]
    /\ phase' = "wait"
    /\ UNCHANGED <<plan, verdict, stepResults, result, completed, told, recordVars, cancelVars>>

\* A mutant: only the result of the step before.
ToldPrevious(s) == {n \in Numbers : stepResults[n] = "success" /\ n + 1 = plan.number[s]}

\* summarizePreviousResults leaves out what has failed.
PreviousResults(s) == {n \in Numbers : stepResults[n] = "success"}

\* Whenever the goroutine gets to it: other steps of the wave may be collected.
BuildIntent(s) ==
    /\ Goes(s, "launched", "intent")
    /\ told' = [told EXCEPT ![s] = PreviousResults(s)]
    /\ UNCHANGED <<planVars, result, wave, completed, recordVars, cancelVars>>

\* A failed step ends the plan at once; the others of the wave go on.
Collect(s) ==
    /\ phase = "wait" /\ s \in wave
    /\ Goes(s, "returned", "collected")
    /\ StoreStepResult(s, result[s])
    /\ \/ /\ result[s] = "failure"
          /\ PlanEndsWith("failed")
          /\ UNCHANGED completed
       \/ /\ result[s] = "success"
          /\ completed' = completed \cup {plan.number[s]}
          /\ phase' = IF \A t \in wave \ {s} : at[t] = "collected" THEN "choose" ELSE "wait"
          /\ UNCHANGED verdict
    /\ UNCHANGED <<plan, result, wave, told, recordVars, cancelVars>>

-----------------------------------------------------------------------------
(* Execute *)

LockFree == cancelling = {}

BeginHandoff(h) ==
    /\ LockFree
    /\ Goes(h, "intent", "executing")
    /\ status' = [status EXCEPT ![h] = "executing"]
    /\ active' = active \cup {h}
    /\ UNCHANGED <<planVars, result, waveVars, endTime, cancelVars>>

\* Every error path of Execute is a failure.
Chat(h) ==
    /\ Goes(h, "executing", "closing")
    /\ \E r \in {"success", "failure"} : result' = [result EXCEPT ![h] = r]
    /\ UNCHANGED <<planVars, executorVars>>

\* CancelHandoff and Execute write to the status at the same time, each its own value.
Racing(h) == h \in cancelling /\ at[h] = "closing" /\ result[h] = "success"

Written(h, value) == {value} \cup (IF Racing(h) \/ status[h] = "torn" THEN {"torn"} ELSE {})

FinalStatus(h) == IF result[h] = "success" THEN "completed" ELSE "failed"

\* A mutant: failHandoff sets no end time.
CloseWithoutEndTime(h) ==
    /\ Goes(h, "closing", "closed")
    /\ \E value \in Written(h, FinalStatus(h)) : status' = [status EXCEPT ![h] = value]
    /\ endTime' = IF result[h] = "success" THEN endTime \cup {h} ELSE endTime
    /\ UNCHANGED <<planVars, result, waveVars, active, cancelVars>>

\* The end of Execute and failHandoff: status and end time, without the lock.
CloseHandoff(h) ==
    /\ Goes(h, "closing", "closed")
    /\ \E value \in Written(h, FinalStatus(h)) : status' = [status EXCEPT ![h] = value]
    /\ endTime' = endTime \cup {h}
    /\ UNCHANGED <<planVars, result, waveVars, active, cancelVars>>

\* The timeline is written under the lock before Execute returns.
ReturnHandoff(h) ==
    /\ LockFree
    /\ Goes(h, "closed", "returned")
    /\ UNCHANGED <<planVars, result, executorVars>>

-----------------------------------------------------------------------------
(* CancelHandoff, CleanupOldHandoffs *)

CancelAccepts(h) ==
    /\ LockFree
    /\ h \in active /\ status[h] = "executing"   \* nothing sets "pending"
    /\ Cardinality(cancelled) < MaxCancels
    /\ cancelling' = {h}
    /\ cancelled' = cancelled \cup {h}
    /\ UNCHANGED <<planVars, callVars, waveVars, recordVars>>

\* Nothing tells Execute, whose call of the model goes on.
CancelApplies(h) ==
    /\ h \in cancelling
    /\ \E value \in Written(h, "failed") : status' = [status EXCEPT ![h] = value]
    /\ endTime' = endTime \cup {h}
    /\ cancelling' = {}
    /\ UNCHANGED <<planVars, callVars, waveVars, active, cancelled>>

\* Any end time may be old enough.
CleanupOldHandoffs(h) ==
    /\ LockFree
    /\ h \in active \cap endTime
    /\ active' = active \ {h}
    /\ UNCHANGED <<planVars, callVars, waveVars, status, endTime, cancelVars>>

ExecutePlan == PlanCompletes \/ PlanStuck \/ LaunchWave \/ \E s \in Steps : Collect(s)

Execute(h) == BeginHandoff(h) \/ Chat(h) \/ CloseHandoff(h) \/ ReturnHandoff(h)

ExecutorStep ==
    /\ \/ ExecutePlan
       \/ \E s \in Steps : BuildIntent(s)
       \/ \E h \in Steps : Execute(h) \/ CancelAccepts(h) \/ CancelApplies(h) \/ CleanupOldHandoffs(h)
    /\ UNCHANGED crashed
=============================================================================

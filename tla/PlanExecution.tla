--------------------------- MODULE PlanExecution ---------------------------
(***************************************************************************)
(* The execution of a plan, by ExecutePlan or by ExecutePlanAsync, with    *)
(* users and agents around it; both implement PlanOrder.                   *)
(***************************************************************************)
EXTENDS HandoffExecutor, AsyncExecutor

VARIABLE via   \* "local": ExecutePlan and Execute; "bus": the asynchronous ones

vars == <<via, planVars, callVars, crashed, executorVars, asyncVars>>

TypeOK ==
    /\ via \in {"local", "bus"}
    /\ StateTypeOK
    /\ ExecutorTypeOK
    /\ AsyncTypeOK

Init ==
    /\ via \in {"local", "bus"}
    /\ StateInit
    /\ ExecutorInit
    /\ AsyncInit

LocalStep == via = "local" /\ ExecutorStep /\ UNCHANGED <<via, asyncVars>>
BusStep == via = "bus" /\ AsyncStep /\ UNCHANGED <<via, executorVars>>

Next == ~crashed /\ (LocalStep \/ BusStep)

Spec == Init /\ [][Next]_vars

Local(A) == ~crashed /\ via = "local" /\ A /\ UNCHANGED <<via, crashed, asyncVars>>
Bus(A) == ~crashed /\ via = "bus" /\ A /\ UNCHANGED <<via, executorVars>>

\* Goroutines go on, the model's provider returns (its context has a deadline),
\* a timer fires. Nothing is assumed of users, agents and the bus.
PlanFairness ==
    /\ WF_vars(Local(ExecutePlan)) /\ WF_vars(Bus(ExecutePlanAsync))
    /\ \A s \in Steps : WF_vars(Local(BuildIntent(s)))
    /\ \A h \in Steps :
         /\ WF_vars(Local(Execute(h)))
         /\ WF_vars(Local(CancelApplies(h)))
         /\ WF_vars(Bus(ExecuteWithResponse(h)))
    /\ \A c \in Consumers : WF_vars(Bus(SendAnswer(c)))

FairSpec == Spec /\ PlanFairness

-----------------------------------------------------------------------------
NotBegun == {"idle", "launched", "intent"}

Order == INSTANCE PlanOrder WITH
    started <- {s \in Steps : at[s] \notin NotBegun},
    succeeded <- {s \in Steps : result[s] = "success"}

\* Both ways to execute a plan start a step at most once and only after the
\* steps it depends on have succeeded, whatever the plan's numbers are, and
\* report the plan completed only when all of its steps have succeeded.
RespectsDependencies == Order!Spec

\* A step of ExecutePlan is told the results of all it depends on, although its
\* goroutine reads the results while those of the wave come in.
ContextComplete ==
    via = "local" => \A s \in Steps : at[s] \notin {"idle", "launched"} => plan.dependsOn[s] \subseteq told[s]

Busy(h) == at[h] \in {"executing", "closing"}
Ended(h) == at[h] \in {"closed", "returned", "collected"}

\* The records of handoffs neither vanish early nor leak: one whose Execute goes
\* on is listed unless it was cancelled, and one whose Execute has ended can be
\* cleaned up.
HandoffsTracked ==
    via = "local" =>
        \A h \in Steps :
            /\ Busy(h) /\ h \notin cancelled => h \in active
            /\ Ended(h) => h \in endTime
            /\ h \in active => Busy(h) \/ Ended(h)

\* The status of a handoff tells how its Execute ended, unless CancelHandoff
\* came in between, after which it may say either, or be torn.
StatusTells ==
    via = "local" =>
        \A h \in Steps \ cancelled :
            /\ Busy(h) => status[h] = "executing"
            /\ Ended(h) => status[h] = IF result[h] = "success" THEN "completed" ELSE "failed"

\* What is recorded of the handoffs is there as long as it is needed, and true.
RecordsTell == TypeOK /\ HandoffsTracked /\ StatusTells

Awaited(h) == at[h] \in {"registered", "waiting", "leaving"}

\* A channel is registered exactly while its request is made, until Stop closes
\* it: answers that come later are dropped and entries do not pile up.
PendingIsAwaited ==
    /\ \A h \in pendingResults : Awaited(h) /\ h \notin closed
    /\ \A h \in Steps \ closed : Awaited(h) => via = "bus" /\ h \in pendingResults

\* Every plan gets its verdict, a circular one or one with repeated numbers
\* too, with agents that never answer and answers that are lost, unless Stop
\* brings the process down; and a duplicate or late answer never holds up the
\* consumer of the topic.
PlanEnds ==
    /\ <>(phase = "ended" \/ crashed)
    /\ \A c \in Consumers : handler[c] # NoMessage ~> (handler[c] = NoMessage \/ crashed)

\* async.go:216-217, in the default of the handler's send: "Channel full or
\* closed, ignore". So a handler that meets a closed channel does not panic.
ClosedIsIgnored == [][(\E c \in Consumers : handler[c] # NoMessage /\ handler'[c] = NoMessage) => ~crashed']_vars
=============================================================================

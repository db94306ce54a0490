------------------------- MODULE ParallelExecution -------------------------
(***************************************************************************)
(* The parallel executor (pkg/subagent/parallel.go) on top of the sub-agent *)
(* manager: ExecuteAll gives the requests to a pool of workers, while      *)
(* ExecuteWithDependencies runs them in waves, each as soon as the nodes   *)
(* it depends on are reported completed. Both spawn a sub-agent for a      *)
(* request and poll until it has ended.                                    *)
(*                                                                         *)
(* ExecuteAll is one wave of all requests, with MaxWorkers at a time. The  *)
(* order of the requests is any order.                                     *)
(***************************************************************************)
EXTENDS SubAgentManager

CONSTANTS Graphs,      \* dependency graphs: for each node the nodes it depends on
          NoGraph,     \* ... of which ExecuteAll has none
          MaxWorkers   \* Config.MaxConcurrent

ASSUME ExecutorAssumption ==
    /\ Graphs \subseteq [Agents -> SUBSET Agents]
    /\ NoGraph \notin Graphs
    /\ MaxWorkers \in Nat \ {0}

VARIABLES graph,       \* what ExecuteWithDependencies is given; NoGraph for ExecuteAll
          phase,       \* "choose" the next wave, run the "wave", or "ended"
          wave,        \* the requests of this wave
          caller,      \* what the goroutine for a request is doing
          completed,   \* ParallelResult.Completed
          failed,      \* ParallelResult.Failed
          ctxDone,     \* the context of the call is cancelled or timed out
          spawns       \* history: sub-agents spawned for a request

executorVars == <<graph, phase, wave, caller, completed, failed, ctxDone, spawns>>
vars == <<managerVars, executorVars>>

TypeOK ==
    /\ ManagerTypeOK
    /\ graph \in Graphs \cup {NoGraph}
    /\ phase \in {"choose", "wave", "ended"}
    /\ wave \subseteq Agents
    /\ caller \in [Agents -> {"idle", "waiting", "returned", "reported"}]
    /\ completed \subseteq Agents
    /\ failed \subseteq Agents
    /\ ctxDone \in BOOLEAN
    /\ spawns \in [Agents -> Nat]

Init ==
    /\ ManagerInit
    /\ graph \in Graphs \cup {NoGraph}
    /\ phase = "choose"
    /\ wave = {}
    /\ caller = [a \in Agents |-> "idle"]
    /\ completed = {} /\ failed = {}
    /\ ctxDone = FALSE
    /\ spawns = [a \in Agents |-> 0]

-----------------------------------------------------------------------------
GetReady == {a \in Agents \ completed : graph[a] \subseteq completed}

NextWave == IF graph = NoGraph THEN Agents ELSE GetReady

\* With nothing ready the loop ends, even when the graph has nodes left.
StartWave ==
    /\ phase = "choose"
    /\ wave' = NextWave
    /\ caller' = [a \in Agents |-> IF a \in NextWave THEN "idle" ELSE caller[a]]
    /\ phase' = IF NextWave = {} THEN "ended" ELSE "wave"
    /\ UNCHANGED <<managerVars, graph, completed, failed, ctxDone, spawns>>

Busy == {a \in wave : caller[a] \in {"waiting", "returned"}}

\* A worker of ExecuteAll is free, or the node has a goroutine of its own.
Reached(a) ==
    /\ phase = "wave" /\ a \in wave /\ caller[a] = "idle"
    /\ graph = NoGraph => Cardinality(Busy) < MaxWorkers

\* A worker looks at the context first.
SpawnAndWait(a) ==
    /\ Reached(a)
    /\ ~(graph = NoGraph /\ ctxDone)
    /\ Spawn(a)
    /\ spawns' = [spawns EXCEPT ![a] = @ + 1]
    /\ caller' = [caller EXCEPT ![a] = "waiting"]
    /\ UNCHANGED <<graph, phase, wave, completed, failed, ctxDone>>

ReportFailed(a) ==
    /\ caller' = [caller EXCEPT ![a] = "reported"]
    /\ failed' = failed \cup {a}
    /\ UNCHANGED <<managerVars, graph, phase, wave, completed, ctxDone, spawns>>

SkipRequest(a) == Reached(a) /\ graph = NoGraph /\ ctxDone /\ ReportFailed(a)

\* SpawnAndWait returns an error: the context is done, or the sub-agent is gone.
SpawnAndWaitFails(a) ==
    /\ caller[a] = "waiting"
    /\ ctxDone \/ WaitFails(a)
    /\ ReportFailed(a)

SpawnAndWaitReturns(a) ==
    /\ caller[a] = "waiting"
    /\ WaitReturns(a)
    /\ caller' = [caller EXCEPT ![a] = "returned"]
    /\ UNCHANGED <<managerVars, graph, phase, wave, completed, failed, ctxDone, spawns>>

\* A mutant: the result is not looked at.
CollectBlindly(a) ==
    /\ caller[a] = "returned"
    /\ completed' = completed \cup {a}
    /\ caller' = [caller EXCEPT ![a] = "reported"]
    /\ UNCHANGED <<managerVars, graph, phase, wave, failed, ctxDone, spawns>>

\* Only a result without success counts as failed: a nil result does not.
Collect(a) ==
    /\ caller[a] = "returned"
    /\ \/ Result(a) = "failure" /\ ReportFailed(a)
       \/ /\ Result(a) # "failure"
          /\ completed' = completed \cup {a}
          /\ caller' = [caller EXCEPT ![a] = "reported"]
          /\ UNCHANGED <<managerVars, graph, phase, wave, failed, ctxDone, spawns>>

WaveOver == phase = "wave" /\ \A a \in wave : caller[a] = "reported"

\* A mutant: a failure does not stop the loop.
EndWaveOnward ==
    /\ WaveOver
    /\ phase' = IF graph = NoGraph THEN "ended" ELSE "choose"
    /\ UNCHANGED <<managerVars, graph, wave, caller, completed, failed, ctxDone, spawns>>

EndWave ==
    /\ WaveOver
    /\ phase' = IF graph = NoGraph \/ failed # {} THEN "ended" ELSE "choose"
    /\ UNCHANGED <<managerVars, graph, wave, caller, completed, failed, ctxDone, spawns>>

CtxDone ==
    /\ ~ctxDone
    /\ ctxDone' = TRUE
    /\ UNCHANGED <<managerVars, graph, phase, wave, caller, completed, failed, spawns>>

Serve(a) ==
    SpawnAndWait(a) \/ SkipRequest(a) \/ SpawnAndWaitFails(a) \/ SpawnAndWaitReturns(a) \/ Collect(a)

ExecutorStep == StartWave \/ EndWave \/ CtxDone \/ \E a \in Agents : Serve(a)

Next == ExecutorStep \/ (ManagerStep /\ UNCHANGED executorVars)

Spec == Init /\ [][Next]_vars

\* The goroutines go on and the executor returns from every call, which has a
\* context with a deadline. Nothing is assumed of users, Cleanup and the context.
FairSpec ==
    /\ Spec
    /\ WF_vars(StartWave) /\ WF_vars(EndWave)
    /\ \A a \in Agents :
         /\ WF_vars(Serve(a))
         /\ WF_vars(Execute(a) /\ UNCHANGED executorVars)
         /\ WF_vars(CancelApplies(a) /\ UNCHANGED executorVars)

-----------------------------------------------------------------------------
Executing(a) == at[a] \in {"ready", "attempt", "backoff", "store", "settle"}
Ended(a) == at[a] \in {"record", "promote", "done"}

\* No request is executed twice: GetReady leaves out what is completed, and the
\* loop stops before a failed node can be ready again.
SpawnedOnce == \A a \in Agents : spawns[a] <= 1

\* Unless a user or the context interferes, no more than MaxWorkers sub-agents
\* of an ExecuteAll execute: a worker polls until its sub-agent has ended.
WorkersBound ==
    graph = NoGraph /\ ~ctxDone =>
        Cardinality({a \in Agents : Executing(a)} \ cancelled) <= MaxWorkers

\* A node is spawned only when the executions of the nodes it depends on are
\* over, and none of them returned a result without success; a dependency that
\* was cancelled is the exception.
DependentsWait ==
    graph # NoGraph =>
        \A a \in Agents : spawns[a] > 0 =>
            \A d \in graph[a] \ cancelled : Ended(d) /\ outcome[d] # "failure"

\* Both strategies start each request once, in the order of the graph, and within
\* the pool, whatever late retries, cancellations and Cleanup do meanwhile.
SchedulesInOrder == TypeOK /\ SpawnedOnce /\ WorkersBound /\ DependentsWait

\* What is reported is final and true: a request reported completed has not
\* failed with a result, and one reported failed has not succeeded, unless the
\* context, a cancellation or Cleanup came before the poll.
ReportsAreTrue ==
    /\ \A a \in completed \ cancelled : Ended(a) /\ outcome[a] # "failure"
    /\ ~ctxDone => \A a \in (failed \cap listed) \ cancelled : Ended(a) /\ outcome[a] = "failure"
    /\ completed \cap failed = {}

\* Every call of the executor returns, whatever users and Cleanup do to the
\* sub-agents it waits for, when none of the requests runs in the background.
ParallelEnds == <>(phase = "ended")

\* parallel.go:123: "ExecuteWithDependencies runs agents respecting dependencies",
\* and :131: ready nodes have "all dependencies satisfied". So no sub-agent
\* executes after one it depends on has failed.
DependenciesSatisfied ==
    graph # NoGraph =>
        \A a \in Agents : Executing(a) => \A d \in graph[a] : status[d] # "failed"
=============================================================================

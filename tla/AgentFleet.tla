----------------------------- MODULE AgentFleet -----------------------------
(***************************************************************************)
(* The agents that execute tasks: worker, git and documentation agents     *)
(* (internal/worker/agent.go). Each runs in a process of its own and reads *)
(* the task.assignment topic as a member of a consumer group; all worker   *)
(* processes are members of the group syntor-workers.                      *)
(*                                                                         *)
(* An execution is the goroutine of executeAndReport.                      *)
(***************************************************************************)
EXTENDS Platform, FiniteSets

F == INSTANCE Functions

CONSTANTS Slots,       \* Config.MaxConcurrentTasks
          MaxStarts,   \* bound: times an agent's process starts
          MaxEnds      \* bound: times any process ends

ASSUME FleetAssumption == Slots \in 1 .. MaxCopies /\ MaxStarts \in Nat /\ MaxEnds \in Nat

VARIABLES up,          \* the agents whose process is running
          starts,      \* how often each has started
          running,     \* executions in the task handler: bag of <<task, agent>>
          activeTasks  \* the ids in each agent's activeTasks map

fleetVars == <<up, starts, running, activeTasks>>

FleetTypeOK ==
    /\ up \in SUBSET Agents
    /\ starts \in [Agents -> 0 .. MaxStarts]
    /\ running \in Bag(Tasks \X Agents)
    /\ activeTasks \in [Agents -> SUBSET Tasks]

FleetInit ==
    /\ up = {}
    /\ starts = [a \in Agents |-> 0]
    /\ running = [x \in Tasks \X Agents |-> 0]
    /\ activeTasks = [a \in Agents |-> {}]

\* Start: subscribe, then RegisterAgent.
AgentStart(a) ==
    /\ a \notin up
    /\ starts[a] < MaxStarts
    /\ up' = up \cup {a}
    /\ starts' = [starts EXCEPT ![a] = @ + 1]
    /\ RegisterAgent(a)
    /\ UNCHANGED <<topicVars, running, activeTasks>>

\* The process ends, and with it its executions, without a report.
ProcessEnds(a) ==
    /\ a \in up
    /\ F!SumFunction(starts) - Cardinality(up) < MaxEnds
    /\ up' = up \ {a}
    /\ running' = [x \in Tasks \X Agents |-> IF x[2] = a THEN 0 ELSE running[x]]
    /\ activeTasks' = [activeTasks EXCEPT ![a] = {}]
    /\ UNCHANGED <<topicVars, starts>>

\* A crash, or a Stop whose DeregisterAgent fails.
AgentCrash(a) == ProcessEnds(a) /\ UNCHANGED registry

\* Stop: a.ctx is cancelled first, so the executions it cuts short cannot
\* publish their completion; then DeregisterAgent.
AgentStop(a) == ProcessEnds(a) /\ DeregisterAgent(a)

\* The length of the semaphore channel: a slot is held from before an execution
\* enters its handler until after it has left.
SlotsTaken(a) == F!SumFunctionOnSet(running, Tasks \X {a})

Undelivered(t, a) == toAgent[<<t, a>>] > 0

\* handleTaskAssignment at another member b of the group than the agent a that
\* the task is for: "not for us" is success, so the message is committed.
DiscardAssignment(t, a, b) ==
    /\ b \in up \ {a}
    /\ GroupOf[b] = GroupOf[a]
    /\ Undelivered(t, a)
    /\ toAgent' = Take(toAgent, <<t, a>>)
    /\ UNCHANGED <<toCoord, reported, completeQ, registry, fleetVars>>

\* handleTaskAssignment at the agent itself, and executeAndReport up to the
\* handler: ExecuteTask takes a slot and enters the task in activeTasks, where a
\* second execution of a task replaces the entry of the first.
BeginExecution(t, a) ==
    /\ a \in up
    /\ Undelivered(t, a)
    /\ SlotsTaken(a) < Slots
    /\ toAgent' = Take(toAgent, <<t, a>>)
    /\ PublishRunning(t)
    /\ running' = Put(running, <<t, a>>)
    /\ activeTasks' = [activeTasks EXCEPT ![a] = @ \cup {t}]
    /\ UNCHANGED <<toCoord, completeQ, registry, up, starts>>

\* The same at capacity: reported at once, as a failed execution.
RejectExecution(t, a) ==
    /\ a \in up
    /\ Undelivered(t, a)
    /\ SlotsTaken(a) >= Slots
    /\ toAgent' = Take(toAgent, <<t, a>>)
    /\ PublishRunning(t)
    /\ PublishComplete(t)
    /\ UNCHANGED <<toCoord, registry, fleetVars>>

\* The handler returns (done, failed, or cut off by its timeout): the deferred
\* functions run and the outcome is published.
FinishExecution(t, a) ==
    /\ running[<<t, a>>] > 0
    /\ running' = Take(running, <<t, a>>)
    /\ activeTasks' = [activeTasks EXCEPT ![a] = @ \ {t}]
    /\ PublishComplete(t)
    /\ UNCHANGED <<toCoord, toAgent, reported, registry, up, starts>>

\* runHeartbeat's tick at the registry (UpdateAgentLoad and Heartbeat).
SendHeartbeat(a) ==
    /\ a \in up
    /\ RegistryHeartbeat(a)
    /\ UNCHANGED <<topicVars, fleetVars>>

FleetStep ==
    \/ \E a \in Agents : AgentStart(a) \/ AgentCrash(a) \/ AgentStop(a) \/ SendHeartbeat(a)
    \/ \E t \in Tasks, a \in Agents :
          \/ BeginExecution(t, a) \/ RejectExecution(t, a) \/ FinishExecution(t, a)
          \/ \E b \in Agents : DiscardAssignment(t, a, b)
=============================================================================

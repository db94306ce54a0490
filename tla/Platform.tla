------------------------------ MODULE Platform ------------------------------
(***************************************************************************)
(* What the agents share: the Redis registry (AgentRegistry) and the Kafka *)
(* topics of the task protocol.                                            *)
(*                                                                         *)
(* A topic delivers every message to each consumer group, to any one       *)
(* member of the group. The topics have three partitions and the writer    *)
(* spreads messages over them with the least-bytes balancer, so a group    *)
(* sees the messages of a topic in any order: the undelivered messages of  *)
(* a group are a bag, a function from message to count. Of a message, a    *)
(* bag keeps what its readers look at.                                     *)
(***************************************************************************)
EXTENDS Naturals

CONSTANTS Tasks,        \* task identifiers
          Agents,       \* agents that execute tasks
          NoAgent,      \* the empty agent id
          GroupOf,      \* the consumer group of each agent
          MaxRetries,   \* Task.MaxRetries, the same for every task
          MaxCopies,    \* bound: equal undelivered messages that are told apart
          ReportsRunning  \* bound: do "running" reports get through at all?

ASSUME PlatformAssumption ==
    /\ NoAgent \notin Agents
    /\ DOMAIN GroupOf = Agents
    /\ MaxRetries \in Nat
    /\ MaxCopies \in Nat \ {0}
    /\ ReportsRunning \in BOOLEAN

VARIABLES toCoord,     \* task.assignment, group syntor-coordination: bag of Orders
          toAgent,     \* task.assignment, the groups of the agents: bag of
                       \* <<task, AssignedAgent>>, in the group of that agent
          reported,    \* task.status: tasks with a "running" message
          completeQ,   \* task.complete: bag of tasks
          registry     \* the registry's membership

topicVars == <<toCoord, toAgent, reported, completeQ>>

INSTANCE AgentRegistry

\* RetryCount saturates one above MaxRetries: it is compared with MaxRetries
\* and nothing else.
RetryCounts == 0 .. MaxRetries + 1

\* A task.assignment message as the coordination agent reads it.
Order == [task : Tasks, retries : RetryCounts, source : {"client", "coordinator"}]

Bag(S) == [S -> 0 .. MaxCopies]

TopicsTypeOK ==
    /\ toCoord \in Bag(Order)
    /\ toAgent \in Bag(Tasks \X Agents)
    /\ reported \in SUBSET Tasks
    /\ completeQ \in Bag(Tasks)

TopicsInit ==
    /\ toCoord = [o \in Order |-> 0]
    /\ toAgent = [x \in Tasks \X Agents |-> 0]
    /\ reported = {}
    /\ completeQ = [t \in Tasks |-> 0]

OneMore(n) == IF n < MaxCopies THEN n + 1 ELSE n
Put(bag, x) == [bag EXCEPT ![x] = OneMore(@)]
Take(bag, x) == [bag EXCEPT ![x] = @ - 1]

\* Publish on task.assignment: the coordinator's own group gets the message
\* too. The agents' groups discard one that names none of their members.
PublishAssignment(order, agent) ==
    /\ toCoord' = Put(toCoord, order)
    /\ toAgent' = IF agent = NoAgent THEN toAgent ELSE Put(toAgent, <<order.task, agent>>)

\* Publish or PublishAsync of a report, whose error the caller ignores: it is
\* delivered or lost.
PublishComplete(t) == completeQ' \in {Put(completeQ, t), completeQ}
PublishRunning(t) ==
    \/ ReportsRunning /\ reported' = reported \cup {t}
    \/ UNCHANGED reported
=============================================================================

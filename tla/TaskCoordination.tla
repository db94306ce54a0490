-------------------------- MODULE TaskCoordination --------------------------
(***************************************************************************)
(* The distributed core of SYNTOR: the coordination agent, the agents that *)
(* execute tasks, the registry and the topics between them, with the       *)
(* crashes, restarts, lost messages and delays each of them can meet.      *)
(***************************************************************************)
EXTENDS Coordinator, AgentFleet

CONSTANTS MaxSubmissions,    \* bound: direct submissions of each task
          MaxRestarts,       \* bound: restarts of the coordinator
          LateHeartbeats     \* can a running agent fall silent past the threshold?

ASSUME TaskCoordinationAssumption ==
    /\ MaxSubmissions \in Nat
    /\ MaxRestarts \in Nat
    /\ LateHeartbeats \in BOOLEAN

VARIABLES submissions,   \* how often each task was submitted
          restarts       \* restarts so far

boundVars == <<submissions, restarts>>
vars == <<topicVars, registry, coordVars, fleetVars, boundVars>>

TypeOK ==
    /\ TopicsTypeOK
    /\ RegistryTypeOK
    /\ CoordTypeOK
    /\ FleetTypeOK
    /\ submissions \in [Tasks -> 0 .. MaxSubmissions]
    /\ restarts \in 0 .. MaxRestarts

Init ==
    /\ TopicsInit
    /\ RegistryInit
    /\ CoordInit
    /\ FleetInit
    /\ submissions = [t \in Tasks |-> 0]
    /\ restarts = 0

\* A client submits t by publishing an assignment that names no agent.
Submit(t) ==
    /\ submissions[t] < MaxSubmissions
    /\ submissions' = [submissions EXCEPT ![t] = @ + 1]
    /\ PublishAssignment([task |-> t, retries |-> 0, source |-> "client"], NoAgent)
    /\ UNCHANGED <<reported, completeQ, registry, coordVars, fleetVars, restarts>>

\* One agent's registry client removes a stale record.
Cleanup(a) ==
    /\ CleanupStaleAgent(a)
    /\ UNCHANGED <<topicVars, coordVars, fleetVars, boundVars>>

\* A heartbeat message of a, which arrives while a is running or not at all.
HeartbeatArrives(a) ==
    /\ a \in up
    /\ HandleAgentHeartbeat(a)
    /\ UNCHANGED <<fleetVars, boundVars>>

MaySilence(a) == a \notin up \/ LateHeartbeats

RecordBecomesStale(a) ==
    /\ MaySilence(a)
    /\ RecordAges(a)
    /\ UNCHANGED <<topicVars, coordVars, fleetVars, boundVars>>

HeartbeatBecomesStale(a) ==
    /\ MaySilence(a)
    /\ HeartbeatAges(a)
    /\ UNCHANGED <<fleetVars, boundVars>>

Restart ==
    /\ restarts < MaxRestarts
    /\ restarts' = restarts + 1
    /\ CoordinatorRestart
    /\ UNCHANGED <<fleetVars, submissions>>

Next ==
    \/ CoordStep /\ UNCHANGED <<fleetVars, boundVars>>
    \/ FleetStep /\ UNCHANGED <<coordVars, boundVars>>
    \/ Restart
    \/ \E t \in Tasks : Submit(t)
    \/ \E a \in Agents : HeartbeatArrives(a) \/ Cleanup(a) \/ RecordBecomesStale(a) \/ HeartbeatBecomesStale(a)

Spec == Init /\ [][Next]_vars

-----------------------------------------------------------------------------
(* Fairness.                                                               *)

CoordOnly(A) == A /\ UNCHANGED <<fleetVars, boundVars>>

\* The coordinator's goroutines go on. Every tick of the health monitor looks
\* at every member; an operation on Redis or Kafka that is tried again and
\* again succeeds at last.
CoordinatorFairness ==
    /\ \A th \in {"assign", "health"} : WF_vars(CoordOnly(RouteTask(th)))
    /\ \A t \in Tasks : WF_vars(CoordOnly(Reassign(t) \/ GiveUp(t)))
    /\ WF_vars(CoordOnly(EndFailover))
    /\ \A a \in Agents :
          /\ SF_vars(CoordOnly(ListAgents /\ a \in suspects'))
          /\ WF_vars(CoordOnly(SpareAgent(a) \/ DetectStale(a)))
          /\ SF_vars(CoordOnly(victim = a /\ FailoverDeregister /\ DeregisterAgent(a)))
    /\ \A t \in Tasks :
          /\ SF_vars(CoordOnly(t \in Overdue /\ CheckTaskTimeouts /\ completeQ'[t] > 0))
          /\ WF_vars(CoordOnly(HandleTaskComplete(t)))

\* Time passes.
TimeFairness ==
    /\ \A t \in Tasks : WF_vars(CoordOnly(TaskBecomesOverdue(t)))
    /\ \A a \in Agents : /\ WF_vars(a \notin up /\ RecordBecomesStale(a))
                         /\ WF_vars(a \notin up /\ HeartbeatBecomesStale(a))

\* An agent takes up what it is sent, and sends its heartbeats.
FleetFairness ==
    \A a \in Agents :
        /\ \A t \in Tasks :
              WF_vars((BeginExecution(t, a) \/ RejectExecution(t, a)) /\ UNCHANGED <<coordVars, boundVars>>)
        /\ WF_vars(SendHeartbeat(a) /\ UNCHANGED <<coordVars, boundVars>>)
        /\ WF_vars(HeartbeatArrives(a))

FairSpec == Spec /\ CoordinatorFairness /\ TimeFairness /\ FleetFairness

-----------------------------------------------------------------------------
(* What holds.                                                             *)

\* The coordinator's tables are right together, whatever the consumers, the
\* failover and the timeout checker do in between: both maps agree, what has lost
\* its assignment will be reported again, and the failover's old pointers write
\* only to tasks nobody else has been given.
TablesAgree == TypeOK /\ AssignmentAgrees /\ UnassignedIsOverdue /\ FailoverOwnsHeld

\* The messages that will make the coordinator route t.
Messages(bag, t) == {m \in {o \in Order : o.task = t} \X (1 .. MaxCopies) : m[2] <= bag[m[1]]}
InTopic(bag, t) == Cardinality(Messages(bag, t))
Copies(t) ==
    InTopic(toCoord, t)
        + IF job["assign"] # NoJob /\ job["assign"].order.task = t THEN 1 ELSE 0

\* The coordinator reads back every assignment it publishes and routes it
\* again. Each turn of that loop gives at most one message for the one it took:
\* only a submission, or a failover, adds another loop.
NoAmplification ==
    [][\A t \in Tasks : Copies(t)' > Copies(t) => Submit(t) \/ RouteTask("health")]_vars

\* An agent whose heartbeats arrive in time is not taken out of the registry,
\* by the failover or by anybody's cleanup, as long as it has not restarted.
PunctualAgentStays ==
    ~LateHeartbeats => \A a \in up : starts[a] = 1 => a \in ListAllAgents

\* A task that nobody is about to route leaves the table in the end, whatever
\* became of its agent, its reports and the failover that gave it up.
StrandedTaskExpires ==
    \A t \in Tasks :
        t \in Tracked ~> \/ t \notin Tracked
                         \/ Copies(t) > 0
                         \/ job["health"] # NoJob

\* A dead agent leaves the registry, unless it comes back first.
CrashDetected ==
    \A a \in Agents : a \notin up ~> a \in up \/ a \notin ListAllAgents

-----------------------------------------------------------------------------
(* What documents or comments say, and the code does not do.               *)

\* coordination/agent.go:397, of an incoming assignment: "This is for tasks
\* submitted directly to coordination agent".
OnlyDirectSubmissions ==
    job["assign"] # NoJob => job["assign"].order.source = "client"

\* registry_test.go:29: "For any change in agent status or load, the service
\* registry should be updated to reflect the current state". A running agent
\* should not stay out of the registry for good.
RunningAgentIsListed ==
    \A a \in Agents : a \in up ~> a \notin up \/ a \in ListAllAgents

\* resilience_test.go:24: "For any agent failure, the system should detect the
\* failure and automatically restart the agent or redistribute its tasks".
FailureIsHandled ==
    \A a \in Agents :
        (a \notin up /\ a \in ListAllAgents /\ \E t \in Tasks : assigned[t] = a)
            ~> (victim = a \/ a \in up)

\* container_test.go:27: "For any agent type, additional instances should be
\* able to join the system and begin processing tasks".
AssignedWorkBegins ==
    \A t \in Tasks, a \in Agents :
        toAgent[<<t, a>>] > 0 ~> (running[<<t, a>>] > 0 \/ a \notin up)
=============================================================================

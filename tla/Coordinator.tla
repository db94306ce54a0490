----------------------------- MODULE Coordinator -----------------------------
(***************************************************************************)
(* The coordination agent: the table of tracked tasks, routing, failover   *)
(* and the timeout checker (internal/coordination/agent.go).               *)
(*                                                                         *)
(* Two goroutines run RouteTask: the consumer of the task.assignment topic *)
(* ("assign") and the health monitor in a failover ("health"). RouteTask   *)
(* is two steps: the choice of an agent, read from the registry, and the   *)
(* insertion under taskMu with the publication that follows it. (That gap  *)
(* hides nothing: a publication only adds messages, and the topics delay   *)
(* those anyway.) Every other handler works under one lock and is one step.*)
(*                                                                         *)
(* HandleFailover keeps pointers to the task objects it found in           *)
(* pendingTasks, while other goroutines may replace or delete the map's    *)
(* entry: held is the set of tasks whose object is still the map's.        *)
(***************************************************************************)
EXTENDS Platform, FiniteSets

CONSTANTS NoJob,        \* a thread that is not in RouteTask
          Capable,      \* Tasks -> SUBSET Agents: who has the capabilities
          MaxPending    \* Config.MaxPendingTasks

\* A task on its way through RouteTask.
Job == [order : Order, agent : Agents]

ASSUME CoordinatorAssumption ==
    /\ NoJob \notin Job
    /\ Capable \in [Tasks -> SUBSET Agents]
    /\ MaxPending \in Nat

VARIABLES pending,   \* pendingTasks: Tasks -> Entry, NoEntry when not in the map
          assigned,  \* taskAssignments: Tasks -> agent, NoAgent when not in the map
          seen,      \* agentHealth: age of the last heartbeat message, "none" if never
          job,       \* per thread, the task RouteTask works on and the agent it chose
          monitor,   \* where the health monitor is
          suspects,  \* agents found stale in this tick and not yet dealt with
          victim,    \* failedAgentID of the failover in progress
          todo,      \* tasks HandleFailover has still to reassign -> their RetryCount
          held       \* those of todo whose object is the one in pendingTasks

coordVars == <<pending, assigned, seen, job, monitor, suspects, victim, todo, held>>

Entry == [status : {"none", "pending", "assigned", "running", "failed"},
          agent : Agents \cup {NoAgent}, retries : RetryCounts, age : {"within", "over"}]
NoEntry == [status |-> "none", agent |-> NoAgent, retries |-> 0, age |-> "within"]

\* The failover's snapshot: for each task its RetryCount, NotTodo if it is not in it.
NotTodo == MaxRetries + 2

CoordTypeOK ==
    /\ pending \in [Tasks -> Entry]
    /\ assigned \in [Tasks -> Agents \cup {NoAgent}]
    /\ seen \in [Agents -> {"none", "fresh", "stale"}]
    /\ job \in [{"assign", "health"} -> Job \cup {NoJob}]
    /\ monitor \in {"idle", "deregister", "reassign"}
    /\ suspects \in SUBSET Agents
    /\ victim \in Agents \cup {NoAgent}
    /\ todo \in [Tasks -> 0 .. NotTodo]
    /\ held \in SUBSET Tasks

CoordInit ==
    /\ pending = [t \in Tasks |-> NoEntry]
    /\ assigned = [t \in Tasks |-> NoAgent]
    /\ seen = [a \in Agents |-> "none"]
    /\ job = [th \in {"assign", "health"} |-> NoJob]
    /\ monitor = "idle"
    /\ suspects = {}
    /\ victim = NoAgent
    /\ todo = [t \in Tasks |-> NotTodo]
    /\ held = {}

Tracked == {t \in Tasks : pending[t].status # "none"}

-----------------------------------------------------------------------------
(* Routing and submission.                                                 *)

\* TaskRouter.Route: the least loaded of the members with the capabilities.
\* Loads are reported with each heartbeat, so any of them may be it.
Routable(t) == ListAllAgents \cap Capable[t]

\* A handler's error leaves its message uncommitted and the consumer goes on:
\* a later commit on the partition passes it over, or Kafka delivers it again.
Uncommitted(bag, o) == {bag, Put(bag, o)}

\* handleTaskAssignment, SubmitTask and Route: any message of the topic is
\* submitted, whoever sent it, unless the table is full.
HandleTaskAssignment(o) ==
    /\ job["assign"] = NoJob
    /\ toCoord[o] > 0
    /\ Cardinality(Tracked) < MaxPending
    /\ \E a \in Routable(o.task) : job' = [job EXCEPT !["assign"] = [order |-> o, agent |-> a]]
    /\ toCoord' = Take(toCoord, o)
    /\ UNCHANGED <<toAgent, reported, completeQ, registry>>
    /\ UNCHANGED <<pending, assigned, seen, monitor, suspects, victim, todo, held>>

\* The same with an error: the table is full, no agent is eligible, or the
\* registry does not answer.
RefuseTaskAssignment(o) ==
    /\ job["assign"] = NoJob
    /\ toCoord[o] > 0
    /\ toCoord' \in Uncommitted(Take(toCoord, o), o)
    /\ UNCHANGED <<toAgent, reported, completeQ, registry, coordVars>>

\* HandleFailover's loop body up to Route: RetryCount++ on the object, then
\* pending again and an agent chosen; or failed, with the entry left in the
\* table: MAX_RETRIES, or FAILOVER_FAILED when Route returns an error.
NextRetry(r) == IF r > MaxRetries THEN r ELSE r + 1

Write(t, status, agent, retries) ==
    pending' = IF t \notin held THEN pending
               ELSE [pending EXCEPT ![t].status = status, ![t].agent = agent,
                                    ![t].retries = retries]

\* A mutant: the retry limit is off by one.
ReassignOnceMore(t) ==
    LET r == NextRetry(todo[t]) IN
    /\ monitor = "reassign" /\ job["health"] = NoJob
    /\ todo[t] # NotTodo
    /\ r <= MaxRetries + 1
    /\ \E a \in Routable(t) :
          job' = [job EXCEPT !["health"] =
              [order |-> [task |-> t, retries |-> r, source |-> "coordinator"], agent |-> a]]
    /\ Write(t, "pending", NoAgent, r)
    /\ UNCHANGED <<topicVars, registry, assigned, seen, monitor, suspects, victim, todo, held>>

Reassign(t) ==
    LET r == NextRetry(todo[t]) IN
    /\ monitor = "reassign" /\ job["health"] = NoJob
    /\ todo[t] # NotTodo
    /\ r <= MaxRetries
    /\ \E a \in Routable(t) :
          job' = [job EXCEPT !["health"] =
              [order |-> [task |-> t, retries |-> r, source |-> "coordinator"], agent |-> a]]
    /\ Write(t, "pending", NoAgent, r)
    /\ UNCHANGED <<topicVars, registry, assigned, seen, monitor, suspects, victim, todo, held>>

GiveUp(t) ==
    LET r == NextRetry(todo[t]) IN
    /\ monitor = "reassign" /\ job["health"] = NoJob
    /\ todo[t] # NotTodo
    /\ \/ r > MaxRetries /\ Write(t, "failed", pending[t].agent, r)
       \/ r <= MaxRetries /\ Write(t, "failed", NoAgent, r)
    /\ todo' = [todo EXCEPT ![t] = NotTodo]
    /\ held' = held \ {t}
    /\ UNCHANGED <<topicVars, registry, assigned, seen, job, monitor, suspects, victim>>

\* A mutant: the consumer publishes and yet leaves its message uncommitted.
RouteUncommitted(th) ==
    LET o == job[th].order  a == job[th].agent  t == o.task IN
    /\ job[th] # NoJob
    /\ pending' = [pending EXCEPT ![t] =
          [status |-> "assigned", agent |-> a, retries |-> o.retries, age |-> "within"]]
    /\ assigned' = [assigned EXCEPT ![t] = a]
    /\ held' = held \ {t}
    /\ job' = [job EXCEPT ![th] = NoJob]
    /\ todo' = IF th = "health" THEN [todo EXCEPT ![t] = NotTodo] ELSE todo
    /\ toCoord' = Put(Put(toCoord, o), [o EXCEPT !.source = "coordinator"])
    /\ toAgent' = Put(toAgent, <<t, a>>)
    /\ UNCHANGED <<reported, completeQ, registry, seen, monitor, suspects, victim>>

\* The rest of RouteTask: a new task object, with StartedAt = now, enters the
\* table, and the assignment is published. When Publish fails, the entry stays
\* as if it had been sent, and the status HandleFailover then writes goes to an
\* object that is no longer in the table.
RouteTask(th) ==
    LET o == job[th].order  a == job[th].agent  t == o.task IN
    /\ job[th] # NoJob
    /\ pending' = [pending EXCEPT ![t] =
          [status |-> "assigned", agent |-> a, retries |-> o.retries, age |-> "within"]]
    /\ assigned' = [assigned EXCEPT ![t] = a]
    /\ held' = held \ {t}
    /\ job' = [job EXCEPT ![th] = NoJob]
    /\ todo' = IF th = "health" THEN [todo EXCEPT ![t] = NotTodo] ELSE todo
    /\ \/ PublishAssignment([o EXCEPT !.source = "coordinator"], a)
       \/ /\ toCoord' \in IF th = "assign" THEN Uncommitted(toCoord, o) ELSE {toCoord}
          /\ UNCHANGED toAgent
    /\ UNCHANGED <<reported, completeQ, registry, seen, monitor, suspects, victim>>

-----------------------------------------------------------------------------
(* Failover.                                                               *)

\* A mutant: an agent that was never heard of counts as long silent.
LastSeenZero(a) == IF seen[a] # "none" THEN seen[a] ELSE "stale"

\* A mutant: an agent that was never heard of is not looked at.
LastSeenHeard(a) == IF seen[a] # "none" THEN seen[a] ELSE "fresh"

\* MonitorAgents trusts a heartbeat message it has seen over the registry.
LastSeen(a) == IF seen[a] # "none" THEN seen[a] ELSE registry[a]

\* MonitorAgents, up to the list of the members: those that are fresh now will
\* be fresh when it comes to them, for it compares with the time of the list.
ListAgents ==
    /\ monitor = "idle" /\ suspects = {}
    /\ suspects' = {a \in ListAllAgents : LastSeen(a) = "stale"}
    /\ suspects' # {}
    /\ UNCHANGED <<topicVars, registry, pending, assigned, seen, job, monitor, victim, todo, held>>

\* It comes to a and has heard of it in the meantime.
SpareAgent(a) ==
    /\ monitor = "idle" /\ a \in suspects
    /\ seen[a] = "fresh"
    /\ suspects' = suspects \ {a}
    /\ UNCHANGED <<topicVars, registry, pending, assigned, seen, job, monitor, victim, todo, held>>

\* It has not, and a is as stale as the list says, whatever the registry says by
\* now. HandleFailover collects the pointers of its tasks under taskMu.
DetectStale(a) ==
    LET mine == {t \in Tracked : assigned[t] = a} IN
    /\ monitor = "idle" /\ a \in suspects
    /\ seen[a] # "fresh"
    /\ monitor' = "deregister"
    /\ suspects' = suspects \ {a}
    /\ victim' = a
    /\ todo' = [t \in Tasks |-> IF t \in mine THEN pending[t].retries ELSE NotTodo]
    /\ held' = mine
    /\ UNCHANGED <<topicVars, registry, pending, assigned, seen, job>>

\* DeregisterAgent, whose error HandleFailover ignores.
FailoverDeregister ==
    /\ monitor = "deregister"
    /\ monitor' = "reassign"
    /\ DeregisterAgent(victim) \/ UNCHANGED registry
    /\ UNCHANGED <<topicVars, pending, assigned, seen, job, suspects, victim, todo, held>>

EndFailover ==
    /\ monitor = "reassign"
    /\ \A t \in Tasks : todo[t] = NotTodo
    /\ monitor' = "idle"
    /\ victim' = NoAgent
    /\ UNCHANGED <<topicVars, registry, pending, assigned, seen, job, suspects, todo, held>>

-----------------------------------------------------------------------------
(* The other handlers and the timeout checker.                             *)

\* handleTaskStatus: whatever the entry's state, it is now running. The message
\* may come late, and again.
HandleTaskStatus(t) ==
    /\ t \in reported \cap Tracked
    /\ pending' = [pending EXCEPT ![t].status = "running"]
    /\ UNCHANGED <<topicVars, registry>>
    /\ UNCHANGED <<assigned, seen, job, monitor, suspects, victim, todo, held>>

\* A mutant: only pendingTasks is cleaned up.
CompleteKeepsAssignment(t) ==
    /\ completeQ[t] > 0
    /\ completeQ' = Take(completeQ, t)
    /\ pending' = [pending EXCEPT ![t] = NoEntry]
    /\ held' = held \ {t}
    /\ UNCHANGED <<toCoord, toAgent, reported, registry>>
    /\ UNCHANGED <<assigned, seen, job, monitor, suspects, victim, todo>>

\* handleTaskComplete: the task leaves both maps, whichever attempt reports.
HandleTaskComplete(t) ==
    /\ completeQ[t] > 0
    /\ completeQ' = Take(completeQ, t)
    /\ pending' = [pending EXCEPT ![t] = NoEntry]
    /\ assigned' = [assigned EXCEPT ![t] = NoAgent]
    /\ held' = held \ {t}
    /\ UNCHANGED <<toCoord, toAgent, reported, registry>>
    /\ UNCHANGED <<seen, job, monitor, suspects, victim, todo>>

\* handleAgentHeartbeat: the registry update may fail, its error is ignored.
HandleAgentHeartbeat(a) ==
    /\ seen' = [seen EXCEPT ![a] = "fresh"]
    /\ RegistryHeartbeat(a) \/ UNCHANGED registry
    /\ UNCHANGED <<topicVars, pending, assigned, job, monitor, suspects, victim, todo, held>>

\* A mutant: a task that has already failed is not reported again.
OverdueOnce == {t \in Tracked : pending[t].age = "over" /\ assigned[t] # NoAgent}

Overdue == {t \in Tracked : pending[t].age = "over"}

\* checkTaskTimeouts: an overdue task fails and loses its assignment; its
\* entry leaves the table only when the coordinator reads its own message.
CheckTaskTimeouts ==
    /\ Overdue # {}
    /\ pending' = [t \in Tasks |-> IF t \in Overdue THEN [pending[t] EXCEPT !.status = "failed"]
                                                    ELSE pending[t]]
    /\ assigned' = [t \in Tasks |-> IF t \in Overdue THEN NoAgent ELSE assigned[t]]
    /\ \E sent \in SUBSET Overdue :
          completeQ' = [t \in Tasks |-> IF t \in sent THEN OneMore(completeQ[t]) ELSE completeQ[t]]
    /\ UNCHANGED <<toCoord, toAgent, reported, registry>>
    /\ UNCHANGED <<seen, job, monitor, suspects, victim, todo, held>>

-----------------------------------------------------------------------------
(* Time, and restarts.                                                     *)

\* Time: Task.Timeout passes since StartedAt.
TaskBecomesOverdue(t) ==
    /\ t \in Tracked
    /\ pending[t].age = "within"
    /\ pending' = [pending EXCEPT ![t].age = "over"]
    /\ UNCHANGED <<topicVars, registry, assigned, seen, job, monitor, suspects, victim, todo, held>>

\* Time: FailoverThreshold passes since the last heartbeat message of a.
HeartbeatAges(a) ==
    /\ seen[a] = "fresh"
    /\ seen' = [seen EXCEPT ![a] = "stale"]
    /\ UNCHANGED <<topicVars, registry, pending, assigned, job, monitor, suspects, victim, todo, held>>

\* The process dies and a new one starts: the tables were only in memory, and
\* Kafka delivers the uncommitted message in hand again.
CoordinatorRestart ==
    /\ toCoord' = IF job["assign"] = NoJob THEN toCoord ELSE Put(toCoord, job["assign"].order)
    /\ pending' = [t \in Tasks |-> NoEntry]
    /\ assigned' = [t \in Tasks |-> NoAgent]
    /\ seen' = [a \in Agents |-> "none"]
    /\ job' = [th \in {"assign", "health"} |-> NoJob]
    /\ monitor' = "idle"
    /\ suspects' = {}
    /\ victim' = NoAgent
    /\ todo' = [t \in Tasks |-> NotTodo]
    /\ held' = {}
    /\ UNCHANGED <<toAgent, reported, completeQ, registry>>

\* One step of the coordination agent, or of time for a task it tracks.
CoordStep ==
    \/ \E o \in Order : HandleTaskAssignment(o) \/ RefuseTaskAssignment(o)
    \/ RouteTask("assign") \/ RouteTask("health")
    \/ ListAgents
    \/ \E a \in Agents : SpareAgent(a) \/ DetectStale(a)
    \/ FailoverDeregister
    \/ \E t \in Tasks : Reassign(t) \/ GiveUp(t)
    \/ EndFailover
    \/ \E t \in Tasks : HandleTaskStatus(t) \/ HandleTaskComplete(t)
    \/ CheckTaskTimeouts
    \/ \E t \in Tasks : TaskBecomesOverdue(t)
-----------------------------------------------------------------------------
(* What the coordinator keeps true of its own tables.                      *)

\* The two maps agree: an assignment in taskAssignments is that of a tracked
\* task, whose object names the same agent, or none while a failover rewrites it.
AssignmentAgrees ==
    \A t \in Tasks : assigned[t] # NoAgent =>
        t \in Tracked /\ pending[t].agent \in {assigned[t], NoAgent}

\* A task that lost its assignment has passed its timeout, so the next tick of
\* the timeout checker reports it again: a lost report is made good.
UnassignedIsOverdue ==
    \A t \in Tracked : assigned[t] = NoAgent => pending[t].age = "over"

\* HandleFailover writes through pointers it took earlier, with no lock. The
\* objects it can reach in the table are those of tasks it has still to handle
\* and that have not gone to another agent in the meantime.
FailoverOwnsHeld ==
    \A t \in held : t \in Tracked /\ todo[t] # NotTodo /\ assigned[t] \in {victim, NoAgent}

\* No assignment is published, or in hand, for a task past its retries.
RetryBudget ==
    /\ \A o \in Order : toCoord[o] > 0 => o.retries <= MaxRetries
    /\ \A th \in DOMAIN job : job[th] # NoJob => job[th].order.retries <= MaxRetries
=============================================================================

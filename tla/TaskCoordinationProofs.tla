----------------------- MODULE TaskCoordinationProofs -----------------------
(***************************************************************************)
(* Theorems about the distributed core, for any number of tasks, agents,   *)
(* groups, retries and slots, and with every crash, restart and loss.      *)
(*                                                                         *)
(* The inductive invariant is types together with TablesOK (which the      *)
(* three invariants on the tables need as one: failover may take a task's  *)
(* assignment for its victim's only because the maps agree), RetryBudget   *)
(* and AllPunctual. That the routing loop does not grow is about steps: it *)
(* counts the messages for a task, which are finitely many.                *)
(***************************************************************************)
EXTENDS TaskCoordination, FiniteSetTheorems, TLAPS

USE PlatformAssumption, FleetAssumption, TaskCoordinationAssumption
    DEF PlatformAssumption, FleetAssumption, TaskCoordinationAssumption

-----------------------------------------------------------------------------
(* What each step of the coordination agent preserves: the types, and the  *)
(* invariant behind AssignmentAgrees, UnassignedIsOverdue, FailoverOwnsHeld*)
(* and RetryBudget.                                                        *)

LEMMA PutType ==
  ASSUME NEW S, NEW bag \in Bag(S), NEW x \in S PROVE Put(bag, x) \in Bag(S)
<1>1. bag[x] \in 0 .. MaxCopies
  BY DEF Bag
<1>2. OneMore(bag[x]) \in 0 .. MaxCopies
  BY <1>1 DEF OneMore
<1>3. QED
  BY <1>2 DEF Bag, Put

LEMMA TakeType ==
  ASSUME NEW S, NEW bag \in Bag(S), NEW x \in S, bag[x] > 0 PROVE Take(bag, x) \in Bag(S)
<1>1. bag[x] - 1 \in 0 .. MaxCopies
  BY DEF Bag
<1>2. QED
  BY <1>1 DEF Bag, Take

LEMMA PublishAssignmentType ==
  ASSUME TopicsTypeOK, NEW o \in Order, NEW a \in Agents \cup {NoAgent}, PublishAssignment(o, a), UNCHANGED <<reported, completeQ>>
  PROVE  TopicsTypeOK'
<1>1. toCoord' \in Bag(Order)
  BY PutType DEF PublishAssignment, TopicsTypeOK
<1>2. toAgent' \in Bag(Tasks \X Agents)
  <2>1. o.task \in Tasks
    BY DEF Order
  <2>2. CASE a = NoAgent
    BY <2>2 DEF PublishAssignment, TopicsTypeOK
  <2>3. CASE a # NoAgent
    <3>1. <<o.task, a>> \in Tasks \X Agents
      BY <2>1, <2>3
    <3>2. QED
      BY <2>3, <3>1, PutType DEF PublishAssignment, TopicsTypeOK
  <2>4. QED
    BY <2>2, <2>3
<1>3. QED
  BY <1>1, <1>2 DEF TopicsTypeOK, Bag

LEMMA UncommittedType ==
  ASSUME NEW bag \in Bag(Order), NEW o \in Order, NEW b \in Uncommitted(bag, o) PROVE b \in Bag(Order)
  BY PutType DEF Uncommitted

LEMMA RegistryTypes ==
  ASSUME RegistryTypeOK, NEW a \in Agents PROVE
    /\ RegisterAgent(a) => RegistryTypeOK'
    /\ DeregisterAgent(a) => RegistryTypeOK'
    /\ RegistryHeartbeat(a) => RegistryTypeOK'
    /\ RecordAges(a) => RegistryTypeOK'
  BY DEF RegistryTypeOK, Membership, RegisterAgent, DeregisterAgent, RegistryHeartbeat, RecordAges

-----------------------------------------------------------------------------
(* Types.                                                                  *)

Types == TopicsTypeOK /\ RegistryTypeOK /\ CoordTypeOK

LEMMA EntryType ==
  ASSUME NEW e \in Entry, NEW s \in {"none", "pending", "assigned", "running", "failed"},
         NEW a \in Agents \cup {NoAgent}, NEW r \in RetryCounts
  PROVE  /\ [e EXCEPT !.status = s] \in Entry
         /\ [e EXCEPT !.age = "over"] \in Entry
         /\ [e EXCEPT !.status = s, !.agent = a, !.retries = r] \in Entry
         /\ [status |-> s, agent |-> a, retries |-> r, age |-> "within"] \in Entry
         /\ NoEntry \in Entry
         /\ e.retries \in RetryCounts
         /\ e.agent \in Agents \cup {NoAgent}
<1> USE DEF Entry
<1>1. [e EXCEPT !.status = s] \in Entry
  OBVIOUS
<1>2. [e EXCEPT !.age = "over"] \in Entry
  OBVIOUS
<1>3. [e EXCEPT !.status = s, !.agent = a, !.retries = r] \in Entry
  OBVIOUS
<1>4. [status |-> s, agent |-> a, retries |-> r, age |-> "within"] \in Entry
  OBVIOUS
<1>5. NoEntry \in Entry
  BY DEF NoEntry, RetryCounts
<1>6. e.retries \in RetryCounts /\ e.agent \in Agents \cup {NoAgent}
  OBVIOUS
<1>7. QED
  BY <1>1, <1>2, <1>3, <1>4, <1>5, <1>6

LEMMA HandleTaskAssignmentType ==
  ASSUME Types, NEW o \in Order, HandleTaskAssignment(o) PROVE Types'
<1>1. toCoord' \in Bag(Order)
  BY TakeType DEF HandleTaskAssignment, Types, TopicsTypeOK
<1>2. job' \in [{"assign", "health"} -> Job \cup {NoJob}]
  BY DEF HandleTaskAssignment, Types, CoordTypeOK, Job, Routable, ListAllAgents
<1>3. QED
  BY <1>1, <1>2 DEF HandleTaskAssignment, Types, TopicsTypeOK, RegistryTypeOK, CoordTypeOK, Bag

LEMMA RefuseTaskAssignmentType ==
  ASSUME Types, NEW o \in Order, RefuseTaskAssignment(o) PROVE Types'
<1>1. toCoord' \in Bag(Order)
  BY TakeType, UncommittedType DEF RefuseTaskAssignment, Types, TopicsTypeOK
<1>2. QED
  BY <1>1 DEF RefuseTaskAssignment, Types, TopicsTypeOK, RegistryTypeOK, CoordTypeOK, Bag, coordVars

LEMMA WriteType ==
  ASSUME Types, NEW t \in Tasks, NEW s \in {"pending", "failed"},
         NEW a \in Agents \cup {NoAgent}, NEW r \in RetryCounts, Write(t, s, a, r)
  PROVE  pending' \in [Tasks -> Entry]
<1>1. pending[t] \in Entry
  BY DEF Types, CoordTypeOK
<1>2. [pending[t] EXCEPT !.status = s, !.agent = a, !.retries = r] \in Entry
  BY <1>1, EntryType
<1>3. pending' = pending \/ pending' = [pending EXCEPT ![t] = [pending[t] EXCEPT !.status = s, !.agent = a, !.retries = r]]
  BY DEF Write, Types, CoordTypeOK
<1>4. QED
  BY <1>2, <1>3 DEF Types, CoordTypeOK

LEMMA ReassignType ==
  ASSUME Types, NEW t \in Tasks, Reassign(t) PROVE Types'
<1> DEFINE r == NextRetry(todo[t])
<1>1. r \in RetryCounts
  BY DEF Types, CoordTypeOK, NotTodo, NextRetry, RetryCounts, Reassign
<1>2. pending' \in [Tasks -> Entry]
  BY <1>1, WriteType DEF Reassign
<1>3. [task |-> t, retries |-> r, source |-> "coordinator"] \in Order
  BY <1>1 DEF Order
<1>4. job' \in [{"assign", "health"} -> Job \cup {NoJob}]
  BY <1>3 DEF Reassign, Types, CoordTypeOK, Job, Routable, ListAllAgents
<1>5. QED
  BY <1>2, <1>4 DEF Reassign, Types, TopicsTypeOK, RegistryTypeOK, CoordTypeOK, topicVars

LEMMA GiveUpType ==
  ASSUME Types, NEW t \in Tasks, GiveUp(t) PROVE Types'
<1> DEFINE r == NextRetry(todo[t])
<1>1. r \in RetryCounts
  BY DEF Types, CoordTypeOK, NotTodo, NextRetry, RetryCounts, GiveUp
<1>2. pending[t].agent \in Agents \cup {NoAgent}
  BY DEF Types, CoordTypeOK, Entry
<1>3. pending' \in [Tasks -> Entry]
  BY <1>1, <1>2, WriteType DEF GiveUp
<1>4. todo' \in [Tasks -> 0 .. NotTodo] /\ held' \in SUBSET Tasks
  BY DEF GiveUp, Types, CoordTypeOK, NotTodo
<1>5. QED
  BY <1>3, <1>4 DEF GiveUp, Types, TopicsTypeOK, RegistryTypeOK, CoordTypeOK, topicVars

\* What a thread in RouteTask has in hand.
LEMMA JobType ==
  ASSUME Types, NEW th \in {"assign", "health"}, job[th] # NoJob
  PROVE  /\ job[th] \in Job
         /\ job[th].order \in Order
         /\ job[th].order.task \in Tasks
         /\ job[th].order.retries \in RetryCounts
         /\ job[th].agent \in Agents
         /\ [job[th].order EXCEPT !.source = "coordinator"] \in Order
  BY DEF Types, CoordTypeOK, Job, Order

LEMMA RouteTaskType ==
  ASSUME Types, NEW th \in {"assign", "health"}, RouteTask(th) PROVE Types'
<1> DEFINE o == job[th].order  a == job[th].agent  t == o.task
           e == [status |-> "assigned", agent |-> a, retries |-> o.retries, age |-> "within"]
<1>1. job[th] # NoJob
  BY DEF RouteTask
<1>2. /\ o \in Order /\ t \in Tasks /\ o.retries \in RetryCounts /\ a \in Agents
      /\ [o EXCEPT !.source = "coordinator"] \in Order
  BY <1>1, JobType
<1>3. pending' = [pending EXCEPT ![t] = e] /\ assigned' = [assigned EXCEPT ![t] = a]
  BY DEF RouteTask
<1>4. held' = held \ {t} /\ job' = [job EXCEPT ![th] = NoJob]
  BY DEF RouteTask
<1>5. todo' = todo \/ todo' = [todo EXCEPT ![t] = NotTodo]
  BY DEF RouteTask
<1>6. UNCHANGED <<reported, completeQ>> /\ UNCHANGED <<registry, seen, monitor, suspects, victim>>
  BY DEF RouteTask
<1>7. \/ PublishAssignment([o EXCEPT !.source = "coordinator"], a)
      \/ UNCHANGED toAgent /\ (toCoord' \in Uncommitted(toCoord, o) \/ toCoord' = toCoord)
  BY DEF RouteTask
<1>8. e \in Entry
  BY <1>2 DEF Entry
<1> HIDE DEF o, a, t, e
<1>9. pending' \in [Tasks -> Entry]
  BY <1>3, <1>8 DEF Types, CoordTypeOK
<1>10. assigned' \in [Tasks -> Agents \cup {NoAgent}] /\ held' \in SUBSET Tasks
  BY <1>2, <1>3, <1>4 DEF Types, CoordTypeOK
<1>11. job' \in [{"assign", "health"} -> Job \cup {NoJob}]
  BY <1>4 DEF Types, CoordTypeOK
<1>12. todo' \in [Tasks -> 0 .. NotTodo]
  BY <1>5 DEF Types, CoordTypeOK, NotTodo
<1>13. TopicsTypeOK'
  <2>1. CASE PublishAssignment([o EXCEPT !.source = "coordinator"], a)
    <3>1. a \in Agents \cup {NoAgent} /\ TopicsTypeOK
      BY <1>2 DEF Types
    <3>2. QED
      BY <1>2, <1>6, <2>1, <3>1, PublishAssignmentType
  <2>2. CASE UNCHANGED toAgent /\ (toCoord' \in Uncommitted(toCoord, o) \/ toCoord' = toCoord)
    <3>1. toCoord' \in Bag(Order)
      BY <1>2, <2>2, UncommittedType DEF Types, TopicsTypeOK
    <3>2. QED
      BY <1>6, <2>2, <3>1 DEF Types, TopicsTypeOK
  <2>3. QED
    BY <1>7, <2>1, <2>2
<1>14. QED
  BY <1>6, <1>9, <1>10, <1>11, <1>12, <1>13 DEF Types, RegistryTypeOK, CoordTypeOK

LEMMA DetectStaleType ==
  ASSUME Types, NEW a \in Agents, DetectStale(a) PROVE Types'
<1>1. \A t \in Tasks : pending[t].retries \in 0 .. NotTodo
  BY DEF Types, CoordTypeOK, Entry, RetryCounts, NotTodo
<1>2. todo' \in [Tasks -> 0 .. NotTodo] /\ held' \in SUBSET Tasks
  BY <1>1 DEF DetectStale, NotTodo, Tracked
<1>3. QED
  BY <1>2 DEF DetectStale, Types, TopicsTypeOK, RegistryTypeOK, CoordTypeOK, topicVars

LEMMA SuspectsType ==
  ASSUME Types, ListAgents \/ (\E a \in Agents : SpareAgent(a)) PROVE Types'
<1>1. suspects' \in SUBSET Agents
  BY DEF ListAgents, SpareAgent, ListAllAgents, Types, CoordTypeOK
<1>2. QED
  BY <1>1 DEF ListAgents, SpareAgent, Types, TopicsTypeOK, RegistryTypeOK, CoordTypeOK, topicVars

LEMMA FailoverTypes ==
  ASSUME Types, FailoverDeregister \/ EndFailover PROVE Types'
<1>1. CASE FailoverDeregister
  <2>1. registry' \in [Agents -> Membership]
    BY <1>1 DEF FailoverDeregister, DeregisterAgent, Types, RegistryTypeOK, Membership
  <2>2. QED
    BY <1>1, <2>1 DEF FailoverDeregister, Types, TopicsTypeOK, RegistryTypeOK, CoordTypeOK, topicVars
<1>2. CASE EndFailover
  BY <1>2 DEF EndFailover, Types, TopicsTypeOK, RegistryTypeOK, CoordTypeOK, topicVars
<1>3. QED
  BY <1>1, <1>2

LEMMA HandleTaskStatusType ==
  ASSUME Types, NEW t \in Tasks, HandleTaskStatus(t) PROVE Types'
<1>1. [pending[t] EXCEPT !.status = "running"] \in Entry
  BY DEF Types, CoordTypeOK, Entry
<1>2. pending' = [pending EXCEPT ![t] = [pending[t] EXCEPT !.status = "running"]]
  BY DEF HandleTaskStatus, Types, CoordTypeOK
<1>3. pending' \in [Tasks -> Entry]
  BY <1>1, <1>2 DEF Types, CoordTypeOK
<1>4. QED
  BY <1>3 DEF HandleTaskStatus, Types, TopicsTypeOK, RegistryTypeOK, CoordTypeOK, topicVars

LEMMA HandleTaskCompleteType ==
  ASSUME Types, NEW t \in Tasks, HandleTaskComplete(t) PROVE Types'
<1>1. completeQ' \in Bag(Tasks)
  BY TakeType DEF HandleTaskComplete, Types, TopicsTypeOK
<1>2. NoEntry \in Entry
  BY DEF NoEntry, Entry, RetryCounts
<1>3. pending' \in [Tasks -> Entry]
  BY <1>2 DEF HandleTaskComplete, Types, CoordTypeOK
<1>4. assigned' \in [Tasks -> Agents \cup {NoAgent}] /\ held' \in SUBSET Tasks
  BY DEF HandleTaskComplete, Types, CoordTypeOK
<1>5. QED
  BY <1>1, <1>3, <1>4 DEF HandleTaskComplete, Types, TopicsTypeOK, RegistryTypeOK, CoordTypeOK

LEMMA HandleAgentHeartbeatType ==
  ASSUME Types, NEW a \in Agents, HandleAgentHeartbeat(a) PROVE Types'
<1>1. RegistryTypeOK'
  BY RegistryTypes DEF HandleAgentHeartbeat, Types, RegistryTypeOK
<1>2. seen' \in [Agents -> {"none", "fresh", "stale"}]
  BY DEF HandleAgentHeartbeat, Types, CoordTypeOK
<1>3. QED
  BY <1>1, <1>2 DEF HandleAgentHeartbeat, Types, TopicsTypeOK, CoordTypeOK, topicVars

LEMMA CheckTaskTimeoutsType ==
  ASSUME Types, CheckTaskTimeouts PROVE Types'
<1>1. \A t \in Tasks : [pending[t] EXCEPT !.status = "failed"] \in Entry
  BY DEF Types, CoordTypeOK, Entry
<1>2. pending' \in [Tasks -> Entry]
  BY <1>1 DEF CheckTaskTimeouts, Types, CoordTypeOK
<1>3. assigned' \in [Tasks -> Agents \cup {NoAgent}]
  BY DEF CheckTaskTimeouts, Types, CoordTypeOK
<1>4. \A t \in Tasks : OneMore(completeQ[t]) \in 0 .. MaxCopies /\ completeQ[t] \in 0 .. MaxCopies
  BY DEF Types, TopicsTypeOK, Bag, OneMore
<1>5. completeQ' \in Bag(Tasks)
  BY <1>4 DEF CheckTaskTimeouts, Bag
<1>6. QED
  BY <1>2, <1>3, <1>5 DEF CheckTaskTimeouts, Types, TopicsTypeOK, RegistryTypeOK, CoordTypeOK

LEMMA TaskBecomesOverdueType ==
  ASSUME Types, NEW t \in Tasks, TaskBecomesOverdue(t) PROVE Types'
<1>1. [pending[t] EXCEPT !.age = "over"] \in Entry
  BY DEF Types, CoordTypeOK, Entry
<1>2. pending' = [pending EXCEPT ![t] = [pending[t] EXCEPT !.age = "over"]]
  BY DEF TaskBecomesOverdue, Types, CoordTypeOK
<1>3. pending' \in [Tasks -> Entry]
  BY <1>1, <1>2 DEF Types, CoordTypeOK
<1>4. QED
  BY <1>3 DEF TaskBecomesOverdue, Types, TopicsTypeOK, RegistryTypeOK, CoordTypeOK, topicVars

LEMMA HeartbeatAgesType ==
  ASSUME Types, NEW a \in Agents, HeartbeatAges(a) PROVE Types'
<1>1. seen' \in [Agents -> {"none", "fresh", "stale"}]
  BY DEF HeartbeatAges, Types, CoordTypeOK
<1>2. QED
  BY <1>1 DEF HeartbeatAges, Types, TopicsTypeOK, RegistryTypeOK, CoordTypeOK, topicVars

LEMMA CoordinatorRestartType ==
  ASSUME Types, CoordinatorRestart PROVE Types'
<1>1. toCoord' \in Bag(Order)
  BY PutType, JobType DEF CoordinatorRestart, Types, TopicsTypeOK
<1>2. NoEntry \in Entry
  BY DEF NoEntry, Entry, RetryCounts
<1>3. CoordTypeOK'
  BY <1>2 DEF CoordinatorRestart, CoordTypeOK, NotTodo
<1>4. QED
  BY <1>1, <1>3 DEF CoordinatorRestart, Types, TopicsTypeOK, RegistryTypeOK, Bag

LEMMA CoordStepType ==
  ASSUME Types, CoordStep PROVE Types'
<1>1. CASE \E o \in Order : HandleTaskAssignment(o) \/ RefuseTaskAssignment(o)
  BY <1>1, HandleTaskAssignmentType, RefuseTaskAssignmentType
<1>2. CASE RouteTask("assign") \/ RouteTask("health")
  BY <1>2, RouteTaskType
<1>3. CASE (\E a \in Agents : DetectStale(a)) \/ FailoverDeregister \/ EndFailover
  BY <1>3, DetectStaleType, FailoverTypes
<1>4. CASE \E t \in Tasks : Reassign(t) \/ GiveUp(t)
  BY <1>4, ReassignType, GiveUpType
<1>5. CASE \E t \in Tasks : HandleTaskStatus(t) \/ HandleTaskComplete(t)
  BY <1>5, HandleTaskStatusType, HandleTaskCompleteType
<1>6. CASE CheckTaskTimeouts
  BY <1>6, CheckTaskTimeoutsType
<1>7. CASE \E t \in Tasks : TaskBecomesOverdue(t)
  BY <1>7, TaskBecomesOverdueType
<1>8. CASE ListAgents \/ \E a \in Agents : SpareAgent(a)
  BY <1>8, SuspectsType
<1>9. QED
  BY <1>1, <1>2, <1>3, <1>4, <1>5, <1>6, <1>7, <1>8 DEF CoordStep

-----------------------------------------------------------------------------
(* The tables. The invariants that range over tasks hold task by task.     *)

TaskOK(t) ==
    /\ assigned[t] # NoAgent => /\ pending[t].status # "none"
                                /\ pending[t].agent \in {assigned[t], NoAgent}
    /\ pending[t].status # "none" /\ assigned[t] = NoAgent => pending[t].age = "over"
    /\ t \in held => /\ pending[t].status # "none"
                     /\ todo[t] # NotTodo
                     /\ assigned[t] \in {victim, NoAgent}

TablesOK == \A t \in Tasks : TaskOK(t)

LEMMA TablesOKMeans ==
  ASSUME held \in SUBSET Tasks
  PROVE  TablesOK <=> AssignmentAgrees /\ UnassignedIsOverdue /\ FailoverOwnsHeld
  BY DEF TablesOK, TaskOK, AssignmentAgrees, UnassignedIsOverdue, FailoverOwnsHeld, Tracked

\* A step that leaves a task's part of the tables alone.
LEMMA TaskUntouched ==
  ASSUME NEW u \in Tasks, TaskOK(u),
         pending'[u] = pending[u], assigned'[u] = assigned[u], todo'[u] = todo[u],
         u \in held' => u \in held, victim' = victim
  PROVE  TaskOK(u)'
  BY DEF TaskOK

LEMMA ReassignTables ==
  ASSUME Types, TablesOK, NEW t \in Tasks, Reassign(t) PROVE TablesOK'
<1> SUFFICES ASSUME NEW u \in Tasks PROVE TaskOK(u)'
  BY DEF TablesOK
<1>1. TaskOK(u)
  BY DEF TablesOK
<1>2. UNCHANGED <<assigned, todo, held, victim>>
  BY DEF Reassign
<1>3. CASE pending'[u] = pending[u]
  BY <1>1, <1>2, <1>3, TaskUntouched
<1>4. CASE pending'[u] # pending[u]
  <2>1. pending' = [pending EXCEPT ![t].status = "pending", ![t].agent = NoAgent,
                                   ![t].retries = NextRetry(todo[t])]
    BY <1>4 DEF Reassign, Write
  <2>2. u = t /\ pending[u] \in Entry
    BY <1>4, <2>1 DEF Types, CoordTypeOK
  <2>3. pending'[u].status = "pending" /\ pending'[u].agent = NoAgent /\ pending'[u].age = pending[u].age
    BY <2>1, <2>2 DEF Types, CoordTypeOK, Entry
  <2>4. u \in held
    BY <1>4, <2>2 DEF Reassign, Write
  <2>5. QED
    BY <1>1, <1>2, <2>3, <2>4 DEF TaskOK
<1>5. QED
  BY <1>3, <1>4

LEMMA GiveUpTables ==
  ASSUME Types, TablesOK, NEW t \in Tasks, GiveUp(t) PROVE TablesOK'
<1> SUFFICES ASSUME NEW u \in Tasks PROVE TaskOK(u)'
  BY DEF TablesOK
<1>1. TaskOK(u)
  BY DEF TablesOK
<1>2. UNCHANGED <<assigned, victim>> /\ held' = held \ {t} /\ (u # t => todo'[u] = todo[u])
  BY DEF GiveUp, Types, CoordTypeOK
<1>3. CASE u # t
  <2>1. pending'[u] = pending[u]
    BY <1>3 DEF GiveUp, Write, Types, CoordTypeOK
  <2>2. QED
    BY <1>1, <1>2, <1>3, <2>1, TaskUntouched
<1>4. CASE u = t
  <2>1. u \notin held'
    BY <1>2, <1>4
  <2>2. PICK a \in {pending[t].agent, NoAgent} : Write(t, "failed", a, NextRetry(todo[t]))
    BY DEF GiveUp
  <2>3. \/ pending' = pending
        \/ /\ t \in held
           /\ pending' = [pending EXCEPT ![t].status = "failed", ![t].agent = a,
                                         ![t].retries = NextRetry(todo[t])]
    BY <2>2 DEF Write
  <2>4. \/ pending'[u] = pending[u]
        \/ /\ pending'[u].status = "failed" /\ pending'[u].agent = a
           /\ pending'[u].age = pending[u].age /\ u \in held
    BY <1>4, <2>3 DEF Types, CoordTypeOK, Entry
  <2>5. QED
    BY <1>1, <1>2, <1>4, <2>1, <2>2, <2>4 DEF TaskOK
<1>5. QED
  BY <1>3, <1>4

LEMMA RouteTaskTables ==
  ASSUME Types, TablesOK, NEW th \in {"assign", "health"}, RouteTask(th) PROVE TablesOK'
<1> DEFINE o == job[th].order  a == job[th].agent  t == o.task
           e == [status |-> "assigned", agent |-> a, retries |-> o.retries, age |-> "within"]
<1> SUFFICES ASSUME NEW u \in Tasks PROVE TaskOK(u)'
  BY DEF TablesOK
<1>1. TaskOK(u)
  BY DEF TablesOK
<1>2. t \in Tasks /\ a \in Agents
  BY JobType DEF RouteTask
<1>3. pending' = [pending EXCEPT ![t] = e] /\ assigned' = [assigned EXCEPT ![t] = a]
  BY DEF RouteTask
<1>4. held' = held \ {t} /\ UNCHANGED victim
  BY DEF RouteTask
<1>5. todo' = todo \/ todo' = [todo EXCEPT ![t] = NotTodo]
  BY DEF RouteTask
<1>6. e.status = "assigned" /\ e.agent = a /\ e.age = "within"
  OBVIOUS
<1> HIDE DEF o, a, t, e
<1>7. CASE u = t
  <2>1. pending'[u] = e /\ assigned'[u] = a /\ u \notin held'
    BY <1>3, <1>4, <1>7 DEF Types, CoordTypeOK
  <2>2. a # NoAgent
    BY <1>2
  <2>3. QED
    BY <1>6, <2>1, <2>2 DEF TaskOK
<1>8. CASE u # t
  <2>1. pending'[u] = pending[u] /\ assigned'[u] = assigned[u] /\ todo'[u] = todo[u]
    BY <1>3, <1>5, <1>8 DEF Types, CoordTypeOK
  <2>2. QED
    BY <1>1, <1>4, <2>1, TaskUntouched
<1>9. QED
  BY <1>7, <1>8

LEMMA DetectStaleTables ==
  ASSUME Types, TablesOK, NEW a \in Agents, DetectStale(a) PROVE TablesOK'
<1> SUFFICES ASSUME NEW u \in Tasks PROVE TaskOK(u)'
  BY DEF TablesOK
<1>1. TaskOK(u)
  BY DEF TablesOK
<1>2. UNCHANGED <<pending, assigned>> /\ victim' = a
  BY DEF DetectStale
<1>3. held' = {t \in Tracked : assigned[t] = a}
  BY DEF DetectStale
<1>4. u \in held' => todo'[u] = pending[u].retries
  BY <1>3 DEF DetectStale
<1>5. pending[u].retries # NotTodo
  BY DEF Types, CoordTypeOK, Entry, RetryCounts, NotTodo
<1>6. QED
  BY <1>1, <1>2, <1>3, <1>4, <1>5 DEF TaskOK, Tracked

LEMMA EndFailoverTables ==
  ASSUME Types, TablesOK, EndFailover PROVE TablesOK'
<1> SUFFICES ASSUME NEW u \in Tasks PROVE TaskOK(u)'
  BY DEF TablesOK
<1>1. TaskOK(u)
  BY DEF TablesOK
<1>2. u \notin held
  BY <1>1 DEF TaskOK, EndFailover
<1>3. QED
  BY <1>1, <1>2 DEF TaskOK, EndFailover

LEMMA HandleTaskStatusTables ==
  ASSUME Types, TablesOK, NEW t \in Tasks, HandleTaskStatus(t) PROVE TablesOK'
<1> SUFFICES ASSUME NEW u \in Tasks PROVE TaskOK(u)'
  BY DEF TablesOK
<1>1. TaskOK(u)
  BY DEF TablesOK
<1>2. UNCHANGED <<assigned, todo, held, victim>> /\ pending' = [pending EXCEPT ![t].status = "running"]
  BY DEF HandleTaskStatus
<1>3. CASE u # t
  <2>1. pending'[u] = pending[u]
    BY <1>2, <1>3 DEF Types, CoordTypeOK
  <2>2. QED
    BY <1>1, <1>2, <2>1, TaskUntouched
<1>4. CASE u = t
  <2>1. pending'[u].status = "running" /\ pending'[u].agent = pending[u].agent /\ pending'[u].age = pending[u].age
    BY <1>2, <1>4 DEF Types, CoordTypeOK, Entry
  <2>2. pending[u].status # "none"
    BY <1>4 DEF HandleTaskStatus, Tracked
  <2>3. QED
    BY <1>1, <1>2, <2>1, <2>2 DEF TaskOK
<1>5. QED
  BY <1>3, <1>4

LEMMA HandleTaskCompleteTables ==
  ASSUME Types, TablesOK, NEW t \in Tasks, HandleTaskComplete(t) PROVE TablesOK'
<1> SUFFICES ASSUME NEW u \in Tasks PROVE TaskOK(u)'
  BY DEF TablesOK
<1>1. TaskOK(u)
  BY DEF TablesOK
<1>2. /\ pending' = [pending EXCEPT ![t] = NoEntry] /\ assigned' = [assigned EXCEPT ![t] = NoAgent]
      /\ held' = held \ {t} /\ UNCHANGED <<todo, victim>>
  BY DEF HandleTaskComplete
<1>3. CASE u # t
  <2>1. pending'[u] = pending[u] /\ assigned'[u] = assigned[u]
    BY <1>2, <1>3 DEF Types, CoordTypeOK
  <2>2. QED
    BY <1>1, <1>2, <2>1, TaskUntouched
<1>4. CASE u = t
  <2>1. pending'[u] = NoEntry /\ assigned'[u] = NoAgent /\ u \notin held'
    BY <1>2, <1>4 DEF Types, CoordTypeOK
  <2>2. QED
    BY <2>1 DEF TaskOK, NoEntry
<1>5. QED
  BY <1>3, <1>4

LEMMA CheckTaskTimeoutsTables ==
  ASSUME Types, TablesOK, CheckTaskTimeouts PROVE TablesOK'
<1> SUFFICES ASSUME NEW u \in Tasks PROVE TaskOK(u)'
  BY DEF TablesOK
<1>1. TaskOK(u)
  BY DEF TablesOK
<1>2. UNCHANGED <<todo, held, victim>>
  BY DEF CheckTaskTimeouts
<1>3. CASE u \notin Overdue
  <2>1. pending'[u] = pending[u] /\ assigned'[u] = assigned[u]
    BY <1>3 DEF CheckTaskTimeouts
  <2>2. QED
    BY <1>1, <1>2, <2>1, TaskUntouched
<1>4. CASE u \in Overdue
  <2>1. pending'[u] = [pending[u] EXCEPT !.status = "failed"] /\ assigned'[u] = NoAgent
    BY <1>4 DEF CheckTaskTimeouts
  <2>2. pending'[u].status = "failed" /\ pending'[u].age = "over"
    BY <1>4, <2>1 DEF Types, CoordTypeOK, Entry, Overdue
  <2>3. QED
    BY <1>1, <1>2, <2>1, <2>2 DEF TaskOK
<1>5. QED
  BY <1>3, <1>4

LEMMA TaskBecomesOverdueTables ==
  ASSUME Types, TablesOK, NEW t \in Tasks, TaskBecomesOverdue(t) PROVE TablesOK'
<1> SUFFICES ASSUME NEW u \in Tasks PROVE TaskOK(u)'
  BY DEF TablesOK
<1>1. TaskOK(u)
  BY DEF TablesOK
<1>2. UNCHANGED <<assigned, todo, held, victim>> /\ pending' = [pending EXCEPT ![t].age = "over"]
  BY DEF TaskBecomesOverdue
<1>3. /\ pending'[u].status = pending[u].status /\ pending'[u].agent = pending[u].agent
      /\ pending'[u].age \in {pending[u].age, "over"}
  BY <1>2 DEF Types, CoordTypeOK, Entry
<1>4. QED
  BY <1>1, <1>2, <1>3 DEF TaskOK

LEMMA CoordinatorRestartTables ==
  ASSUME CoordinatorRestart PROVE TablesOK'
  BY DEF CoordinatorRestart, TablesOK, TaskOK, NoEntry

LEMMA TablesUntouched ==
  ASSUME TablesOK, UNCHANGED <<pending, assigned, todo, held, victim>> PROVE TablesOK'
  BY DEF TablesOK, TaskOK

LEMMA CoordStepTables ==
  ASSUME Types, TablesOK, CoordStep PROVE TablesOK'
<1>1. CASE \E o \in Order : HandleTaskAssignment(o) \/ RefuseTaskAssignment(o)
  BY <1>1, TablesUntouched DEF HandleTaskAssignment, RefuseTaskAssignment, coordVars
<1>2. CASE RouteTask("assign") \/ RouteTask("health")
  BY <1>2, RouteTaskTables
<1>3. CASE \E a \in Agents : DetectStale(a)
  BY <1>3, DetectStaleTables
<1>4. CASE FailoverDeregister
  BY <1>4, TablesUntouched DEF FailoverDeregister
<1>5. CASE EndFailover
  BY <1>5, EndFailoverTables
<1>6. CASE \E t \in Tasks : Reassign(t) \/ GiveUp(t)
  BY <1>6, ReassignTables, GiveUpTables
<1>7. CASE \E t \in Tasks : HandleTaskStatus(t) \/ HandleTaskComplete(t)
  BY <1>7, HandleTaskStatusTables, HandleTaskCompleteTables
<1>8. CASE CheckTaskTimeouts
  BY <1>8, CheckTaskTimeoutsTables
<1>9. CASE \E t \in Tasks : TaskBecomesOverdue(t)
  BY <1>9, TaskBecomesOverdueTables
<1>10. CASE ListAgents \/ \E a \in Agents : SpareAgent(a)
  BY <1>10, TablesUntouched DEF ListAgents, SpareAgent
<1>11. QED
  BY <1>1, <1>2, <1>3, <1>4, <1>5, <1>6, <1>7, <1>8, <1>9, <1>10 DEF CoordStep

-----------------------------------------------------------------------------
(* The retry budget.                                                       *)

LEMMA PutMembers ==
  ASSUME NEW S, NEW bag \in Bag(S), NEW x \in S, NEW y \in S, Put(bag, x)[y] > 0
  PROVE  bag[y] > 0 \/ y = x
  BY DEF Put, Bag

LEMMA TakeMembers ==
  ASSUME NEW S, NEW bag \in Bag(S), NEW x \in S, NEW y \in S, bag[x] > 0, Take(bag, x)[y] > 0
  PROVE  bag[y] > 0
  BY DEF Take, Bag

LEMMA UncommittedMembers ==
  ASSUME NEW bag \in Bag(Order), NEW x \in Order, NEW b \in Uncommitted(bag, x),
         NEW y \in Order, b[y] > 0
  PROVE  bag[y] > 0 \/ y = x
  BY PutMembers DEF Uncommitted

\* The budget is kept by a step whose new messages and jobs keep it.
LEMMA BudgetStep ==
  ASSUME RetryBudget,
         \A o \in Order : toCoord'[o] > 0 => toCoord[o] > 0 \/ o.retries <= MaxRetries,
         DOMAIN job' = DOMAIN job,
         \A th \in DOMAIN job : \/ job'[th] = job[th]
                                \/ job'[th] = NoJob
                                \/ job'[th].order.retries <= MaxRetries
  PROVE  RetryBudget'
  BY DEF RetryBudget

LEMMA HandleTaskAssignmentBudget ==
  ASSUME Types, RetryBudget, NEW o \in Order, HandleTaskAssignment(o) PROVE RetryBudget'
<1>1. toCoord \in Bag(Order) /\ toCoord[o] > 0 /\ toCoord' = Take(toCoord, o)
  BY DEF Types, TopicsTypeOK, HandleTaskAssignment
<1>2. \A x \in Order : toCoord'[x] > 0 => toCoord[x] > 0
  BY <1>1, TakeMembers
<1>3. o.retries <= MaxRetries
  BY <1>1 DEF RetryBudget
<1>4. PICK a : job' = [job EXCEPT !["assign"] = [order |-> o, agent |-> a]]
  BY DEF HandleTaskAssignment
<1>5. QED
  BY <1>2, <1>3, <1>4, BudgetStep DEF Types, CoordTypeOK

LEMMA RefuseTaskAssignmentBudget ==
  ASSUME Types, RetryBudget, NEW o \in Order, RefuseTaskAssignment(o) PROVE RetryBudget'
<1>1. toCoord \in Bag(Order) /\ toCoord[o] > 0 /\ toCoord' \in Uncommitted(Take(toCoord, o), o)
  BY DEF Types, TopicsTypeOK, RefuseTaskAssignment
<1>2. Take(toCoord, o) \in Bag(Order)
  BY <1>1, TakeType
<1>3. \A x \in Order : toCoord'[x] > 0 => toCoord[x] > 0
  BY <1>1, <1>2, TakeMembers, UncommittedMembers
<1>4. UNCHANGED job
  BY DEF RefuseTaskAssignment, coordVars
<1>5. QED
  BY <1>3, <1>4, BudgetStep

LEMMA ReassignBudget ==
  ASSUME Types, RetryBudget, NEW t \in Tasks, Reassign(t) PROVE RetryBudget'
<1>1. PICK a : job' = [job EXCEPT !["health"] =
                  [order |-> [task |-> t, retries |-> NextRetry(todo[t]), source |-> "coordinator"],
                   agent |-> a]]
  BY DEF Reassign
<1>2. NextRetry(todo[t]) <= MaxRetries /\ UNCHANGED toCoord
  BY DEF Reassign, topicVars
<1>3. QED
  BY <1>1, <1>2, BudgetStep DEF Types, CoordTypeOK

LEMMA RouteTaskBudget ==
  ASSUME Types, RetryBudget, NEW th \in {"assign", "health"}, RouteTask(th) PROVE RetryBudget'
<1> DEFINE o == job[th].order
           c == [o EXCEPT !.source = "coordinator"]
<1>1. job[th] # NoJob
  BY DEF RouteTask
<1>2. o \in Order /\ c \in Order /\ toCoord \in Bag(Order)
  BY <1>1, JobType DEF Types, TopicsTypeOK
<1>3. o.retries <= MaxRetries
  BY <1>1 DEF RetryBudget, Types, CoordTypeOK
<1>4. c.retries <= MaxRetries
  BY <1>2, <1>3 DEF Order
<1>5. job' = [job EXCEPT ![th] = NoJob]
  BY DEF RouteTask
<1>6. toCoord' = Put(toCoord, c) \/ toCoord' \in Uncommitted(toCoord, o) \/ toCoord' = toCoord
  BY DEF RouteTask, PublishAssignment
<1> HIDE DEF o, c
<1>7. \A x \in Order : toCoord'[x] > 0 => toCoord[x] > 0 \/ x = c \/ x = o
  BY <1>2, <1>6, PutMembers, UncommittedMembers
<1>8. QED
  BY <1>3, <1>4, <1>5, <1>7, BudgetStep DEF Types, CoordTypeOK

LEMMA CoordinatorRestartBudget ==
  ASSUME Types, RetryBudget, CoordinatorRestart PROVE RetryBudget'
<1> DEFINE o == job["assign"].order
<1>1. toCoord \in Bag(Order) /\ (job["assign"] # NoJob => o \in Order /\ o.retries <= MaxRetries)
  BY JobType DEF Types, TopicsTypeOK, CoordTypeOK, RetryBudget
<1>2. toCoord' = toCoord \/ (job["assign"] # NoJob /\ toCoord' = Put(toCoord, o))
  BY DEF CoordinatorRestart
<1>3. \A x \in Order : toCoord'[x] > 0 => toCoord[x] > 0 \/ x.retries <= MaxRetries
  BY <1>1, <1>2, PutMembers
<1>4. job' = [th \in {"assign", "health"} |-> NoJob]
  BY DEF CoordinatorRestart
<1>5. QED
  BY <1>3, <1>4, BudgetStep DEF Types, CoordTypeOK

LEMMA BudgetUntouched ==
  ASSUME RetryBudget, UNCHANGED <<toCoord, job>> PROVE RetryBudget'
  BY DEF RetryBudget

LEMMA CoordStepBudget ==
  ASSUME Types, RetryBudget, CoordStep PROVE RetryBudget'
<1>1. CASE \E o \in Order : HandleTaskAssignment(o) \/ RefuseTaskAssignment(o)
  BY <1>1, HandleTaskAssignmentBudget, RefuseTaskAssignmentBudget
<1>2. CASE RouteTask("assign") \/ RouteTask("health")
  BY <1>2, RouteTaskBudget
<1>3. CASE (\E a \in Agents : DetectStale(a)) \/ FailoverDeregister \/ EndFailover
  BY <1>3, BudgetUntouched DEF DetectStale, FailoverDeregister, EndFailover, topicVars
<1>4. CASE \E t \in Tasks : Reassign(t)
  BY <1>4, ReassignBudget
<1>5. CASE \E t \in Tasks : GiveUp(t) \/ HandleTaskStatus(t) \/ HandleTaskComplete(t) \/ TaskBecomesOverdue(t)
  BY <1>5, BudgetUntouched DEF GiveUp, HandleTaskStatus, HandleTaskComplete, TaskBecomesOverdue, topicVars
<1>6. CASE CheckTaskTimeouts
  BY <1>6, BudgetUntouched DEF CheckTaskTimeouts
<1>7. CASE ListAgents \/ \E a \in Agents : SpareAgent(a)
  BY <1>7, BudgetUntouched DEF ListAgents, SpareAgent, topicVars
<1>8. QED
  BY <1>1, <1>2, <1>3, <1>4, <1>5, <1>6, <1>7 DEF CoordStep

-----------------------------------------------------------------------------
(* Types of the agents' steps.                                             *)

AgentTypes == TopicsTypeOK /\ RegistryTypeOK /\ FleetTypeOK

LEMMA PublishTypes ==
  ASSUME TopicsTypeOK, NEW t \in Tasks PROVE
    /\ PublishComplete(t) => completeQ' \in Bag(Tasks)
    /\ PublishRunning(t) => reported' \in SUBSET Tasks
<1>1. completeQ \in Bag(Tasks) /\ reported \in SUBSET Tasks
  BY DEF TopicsTypeOK
<1>2. Put(completeQ, t) \in Bag(Tasks)
  BY <1>1, PutType
<1>3. QED
  BY <1>1, <1>2 DEF PublishComplete, PublishRunning

LEMMA ProcessEndsType ==
  ASSUME AgentTypes, NEW a \in Agents, ProcessEnds(a) PROVE TopicsTypeOK' /\ FleetTypeOK'
<1>1. up' \in SUBSET Agents /\ starts' \in [Agents -> 0 .. MaxStarts]
  BY DEF ProcessEnds, AgentTypes, FleetTypeOK
<1>2. running' \in Bag(Tasks \X Agents)
  <2>1. \A x \in Tasks \X Agents : running[x] \in 0 .. MaxCopies /\ 0 \in 0 .. MaxCopies
    BY DEF AgentTypes, FleetTypeOK, Bag
  <2>2. running' = [x \in Tasks \X Agents |-> IF x[2] = a THEN 0 ELSE running[x]]
    BY DEF ProcessEnds
  <2>3. QED
    BY <2>1, <2>2 DEF Bag
<1>3. activeTasks' \in [Agents -> SUBSET Tasks]
  BY DEF ProcessEnds, AgentTypes, FleetTypeOK
<1>4. QED
  BY <1>1, <1>2, <1>3 DEF ProcessEnds, AgentTypes, FleetTypeOK, TopicsTypeOK, topicVars

LEMMA AgentStartType ==
  ASSUME AgentTypes, NEW a \in Agents, AgentStart(a) PROVE AgentTypes'
<1>1. up' \in SUBSET Agents /\ starts' \in [Agents -> 0 .. MaxStarts]
  BY DEF AgentStart, AgentTypes, FleetTypeOK
<1>2. RegistryTypeOK'
  BY RegistryTypes DEF AgentStart, AgentTypes
<1>3. QED
  BY <1>1, <1>2 DEF AgentStart, AgentTypes, FleetTypeOK, TopicsTypeOK, topicVars

LEMMA AgentEndType ==
  ASSUME AgentTypes, NEW a \in Agents, AgentCrash(a) \/ AgentStop(a) PROVE AgentTypes'
<1>1. ProcessEnds(a) /\ RegistryTypeOK'
  BY RegistryTypes DEF AgentCrash, AgentStop, AgentTypes, RegistryTypeOK
<1>2. QED
  BY <1>1, ProcessEndsType DEF AgentTypes

LEMMA SendHeartbeatType ==
  ASSUME AgentTypes, NEW a \in Agents, SendHeartbeat(a) PROVE AgentTypes'
<1>1. RegistryTypeOK'
  BY RegistryTypes DEF SendHeartbeat, AgentTypes
<1>2. QED
  BY <1>1 DEF SendHeartbeat, AgentTypes, TopicsTypeOK, FleetTypeOK, topicVars, fleetVars

LEMMA DiscardAssignmentType ==
  ASSUME AgentTypes, NEW t \in Tasks, NEW a \in Agents, NEW b \in Agents, DiscardAssignment(t, a, b)
  PROVE  AgentTypes'
<1>1. toAgent' \in Bag(Tasks \X Agents)
  BY TakeType DEF DiscardAssignment, Undelivered, AgentTypes, TopicsTypeOK
<1>2. QED
  BY <1>1 DEF DiscardAssignment, AgentTypes, TopicsTypeOK, RegistryTypeOK, FleetTypeOK, fleetVars

LEMMA BeginExecutionType ==
  ASSUME AgentTypes, NEW t \in Tasks, NEW a \in Agents, BeginExecution(t, a) PROVE AgentTypes'
<1>1. toAgent' \in Bag(Tasks \X Agents)
  BY TakeType DEF BeginExecution, Undelivered, AgentTypes, TopicsTypeOK
<1>2. running' \in Bag(Tasks \X Agents)
  BY PutType DEF BeginExecution, AgentTypes, FleetTypeOK
<1>3. reported' \in SUBSET Tasks
  BY PublishTypes DEF BeginExecution, AgentTypes
<1>4. activeTasks' \in [Agents -> SUBSET Tasks]
  BY DEF BeginExecution, AgentTypes, FleetTypeOK
<1>5. QED
  BY <1>1, <1>2, <1>3, <1>4 DEF BeginExecution, AgentTypes, TopicsTypeOK, RegistryTypeOK, FleetTypeOK

LEMMA RejectExecutionType ==
  ASSUME AgentTypes, NEW t \in Tasks, NEW a \in Agents, RejectExecution(t, a) PROVE AgentTypes'
<1>1. toAgent' \in Bag(Tasks \X Agents)
  BY TakeType DEF RejectExecution, Undelivered, AgentTypes, TopicsTypeOK
<1>2. reported' \in SUBSET Tasks /\ completeQ' \in Bag(Tasks)
  BY PublishTypes DEF RejectExecution, AgentTypes
<1>3. QED
  BY <1>1, <1>2 DEF RejectExecution, AgentTypes, TopicsTypeOK, RegistryTypeOK, FleetTypeOK, fleetVars

LEMMA FinishExecutionType ==
  ASSUME AgentTypes, NEW t \in Tasks, NEW a \in Agents, FinishExecution(t, a) PROVE AgentTypes'
<1>1. running' \in Bag(Tasks \X Agents)
  BY TakeType DEF FinishExecution, AgentTypes, FleetTypeOK
<1>2. completeQ' \in Bag(Tasks)
  BY PublishTypes DEF FinishExecution, AgentTypes
<1>3. activeTasks' \in [Agents -> SUBSET Tasks]
  BY DEF FinishExecution, AgentTypes, FleetTypeOK
<1>4. QED
  BY <1>1, <1>2, <1>3 DEF FinishExecution, AgentTypes, TopicsTypeOK, RegistryTypeOK, FleetTypeOK

LEMMA FleetStepType ==
  ASSUME AgentTypes, FleetStep PROVE AgentTypes'
<1>1. CASE \E a \in Agents : AgentStart(a) \/ AgentCrash(a) \/ AgentStop(a) \/ SendHeartbeat(a)
  BY <1>1, AgentStartType, AgentEndType, SendHeartbeatType
<1>2. CASE \E t \in Tasks, a \in Agents : BeginExecution(t, a) \/ RejectExecution(t, a) \/ FinishExecution(t, a)
  BY <1>2, BeginExecutionType, RejectExecutionType, FinishExecutionType
<1>3. CASE \E t \in Tasks, a \in Agents, b \in Agents : DiscardAssignment(t, a, b)
  BY <1>3, DiscardAssignmentType
<1>4. QED
  BY <1>1, <1>2, <1>3 DEF FleetStep

-----------------------------------------------------------------------------
(* The system.                                                             *)

IInv == TypeOK /\ TablesOK /\ RetryBudget

BoundsOK ==
    /\ submissions \in [Tasks -> 0 .. MaxSubmissions]
    /\ restarts \in 0 .. MaxRestarts

LEMMA TypeOKMeans == TypeOK <=> Types /\ FleetTypeOK /\ BoundsOK
  BY DEF TypeOK, Types, BoundsOK

LEMMA InitIInv == Init => IInv
<1> SUFFICES ASSUME Init PROVE IInv
  OBVIOUS
<1>1. TopicsTypeOK /\ RegistryTypeOK
  BY DEF Init, TopicsInit, TopicsTypeOK, Bag, RegistryInit, RegistryTypeOK, Membership
<1>2. NoEntry \in Entry
  BY DEF NoEntry, Entry, RetryCounts
<1>3. CoordTypeOK
  BY <1>2 DEF Init, CoordInit, CoordTypeOK, NotTodo
<1>4. FleetTypeOK
  BY DEF Init, FleetInit, FleetTypeOK, Bag
<1>5. BoundsOK
  BY DEF Init, BoundsOK
<1>6. TablesOK
  BY DEF Init, CoordInit, TablesOK, TaskOK, NoEntry
<1>7. RetryBudget
  BY DEF Init, CoordInit, TopicsInit, RetryBudget
<1>8. QED
  BY <1>1, <1>3, <1>4, <1>5, <1>6, <1>7 DEF IInv, TypeOK, BoundsOK

LEMMA SubmitIInv ==
  ASSUME IInv, NEW t \in Tasks, Submit(t) PROVE IInv'
<1> DEFINE o == [task |-> t, retries |-> 0, source |-> "client"]
<1>1. o \in Order /\ o.retries = 0
  BY DEF Order, RetryCounts
<1>2. PublishAssignment(o, NoAgent) /\ UNCHANGED <<reported, completeQ>>
  BY DEF Submit
<1>3. TopicsTypeOK /\ Types /\ RetryBudget /\ TablesOK /\ FleetTypeOK /\ BoundsOK
  BY DEF IInv, TypeOK, Types, BoundsOK
<1>4. TopicsTypeOK'
  BY <1>1, <1>2, <1>3, PublishAssignmentType
<1>5. BoundsOK'
  BY <1>3 DEF Submit, BoundsOK
<1>6. RetryBudget'
  <2>1. toCoord \in Bag(Order) /\ toCoord' = Put(toCoord, o)
    BY <1>2, <1>3 DEF PublishAssignment, TopicsTypeOK
  <2>2. \A x \in Order : toCoord'[x] > 0 => toCoord[x] > 0 \/ x = o
    BY <1>1, <2>1, PutMembers
  <2>3. UNCHANGED job
    BY DEF Submit, coordVars
  <2>4. QED
    BY <1>1, <1>3, <2>2, <2>3, BudgetStep
<1>7. TablesOK'
  BY <1>3, TablesUntouched DEF Submit, coordVars
<1>8. RegistryTypeOK' /\ CoordTypeOK' /\ FleetTypeOK'
  BY <1>3 DEF Submit, Types, RegistryTypeOK, CoordTypeOK, coordVars, FleetTypeOK, fleetVars
<1>9. QED
  BY <1>4, <1>5, <1>6, <1>7, <1>8 DEF IInv, TypeOK, BoundsOK

LEMMA BoundsUntouched ==
  ASSUME BoundsOK, UNCHANGED boundVars PROVE BoundsOK'
  BY DEF BoundsOK, boundVars

LEMMA FleetUntouched ==
  ASSUME FleetTypeOK, UNCHANGED fleetVars PROVE FleetTypeOK'
  BY DEF FleetTypeOK, fleetVars

LEMMA CoordUntouched ==
  ASSUME CoordTypeOK, TablesOK, UNCHANGED coordVars PROVE CoordTypeOK' /\ TablesOK'
<1>1. CoordTypeOK'
  BY DEF CoordTypeOK, coordVars
<1>2. TablesOK'
  BY TablesUntouched DEF coordVars
<1>3. QED
  BY <1>1, <1>2

\* No agent publishes an assignment.
LEMMA FleetStepOrders ==
  ASSUME FleetStep PROVE UNCHANGED toCoord
  BY DEF FleetStep, AgentStart, AgentCrash, AgentStop, ProcessEnds, SendHeartbeat, BeginExecution,
         RejectExecution, FinishExecution, DiscardAssignment, topicVars

\* The environment's steps on the registry and the clocks.
LEMMA EnvironmentIInv ==
  ASSUME IInv, NEW a \in Agents,
         HeartbeatArrives(a) \/ Cleanup(a) \/ RecordBecomesStale(a) \/ HeartbeatBecomesStale(a)
  PROVE  IInv'
<1>1. Types /\ FleetTypeOK /\ BoundsOK /\ TablesOK /\ RetryBudget
  BY TypeOKMeans DEF IInv
<1>2. UNCHANGED boundVars /\ UNCHANGED fleetVars
  BY DEF HeartbeatArrives, Cleanup, RecordBecomesStale, HeartbeatBecomesStale
<1>3. UNCHANGED <<pending, assigned, todo, held, victim>> /\ UNCHANGED <<toCoord, job>>
  BY DEF HeartbeatArrives, Cleanup, RecordBecomesStale, HeartbeatBecomesStale,
         HandleAgentHeartbeat, HeartbeatAges, topicVars, coordVars
<1>4. Types'
  <2>1. CASE HeartbeatArrives(a)
    BY <1>1, <2>1, HandleAgentHeartbeatType DEF HeartbeatArrives
  <2>2. CASE HeartbeatBecomesStale(a)
    BY <1>1, <2>2, HeartbeatAgesType DEF HeartbeatBecomesStale
  <2>3. CASE Cleanup(a) \/ RecordBecomesStale(a)
    <3>1. RegistryTypeOK'
      BY <1>1, <2>3, RegistryTypes DEF Cleanup, RecordBecomesStale, CleanupStaleAgent, Types
    <3>2. UNCHANGED topicVars /\ UNCHANGED coordVars
      BY <2>3 DEF Cleanup, RecordBecomesStale
    <3>3. QED
      BY <1>1, <3>1, <3>2, CoordUntouched DEF Types, TopicsTypeOK, topicVars
  <2>4. QED
    BY <2>1, <2>2, <2>3
<1>5. TablesOK' /\ RetryBudget'
  BY <1>1, <1>3, TablesUntouched, BudgetUntouched
<1>6. FleetTypeOK' /\ BoundsOK'
  BY <1>1, <1>2, BoundsUntouched, FleetUntouched
<1>7. QED
  BY <1>4, <1>5, <1>6, TypeOKMeans DEF IInv, TypeOK, Types, BoundsOK

LEMMA NextIInv == IInv /\ [Next]_vars => IInv'
<1> SUFFICES ASSUME IInv, [Next]_vars PROVE IInv'
  OBVIOUS
<1>0. Types /\ FleetTypeOK /\ BoundsOK /\ TablesOK /\ RetryBudget
  BY TypeOKMeans DEF IInv
<1>1. CASE CoordStep /\ UNCHANGED <<fleetVars, boundVars>>
  <2>1. Types' /\ TablesOK' /\ RetryBudget'
    BY <1>0, <1>1, CoordStepType, CoordStepTables, CoordStepBudget
  <2>2. FleetTypeOK' /\ BoundsOK'
    BY <1>0, <1>1, FleetUntouched, BoundsUntouched
  <2>3. QED
    BY <2>1, <2>2 DEF IInv, TypeOK, Types, BoundsOK
<1>2. CASE FleetStep /\ UNCHANGED <<coordVars, boundVars>>
  <2>1. AgentTypes'
    BY <1>0, <1>2, FleetStepType DEF AgentTypes, Types
  <2>2. CoordTypeOK' /\ TablesOK' /\ BoundsOK'
    BY <1>0, <1>2, CoordUntouched, BoundsUntouched DEF Types
  <2>3. RetryBudget'
    BY <1>0, <1>2, FleetStepOrders, BudgetUntouched DEF coordVars
  <2>4. QED
    BY <2>1, <2>2, <2>3 DEF IInv, TypeOK, AgentTypes, BoundsOK
<1>3. CASE Restart
  <2>1. CoordinatorRestart /\ UNCHANGED fleetVars
    BY <1>3 DEF Restart
  <2>2. Types' /\ TablesOK' /\ RetryBudget'
    BY <1>0, <2>1, CoordinatorRestartType, CoordinatorRestartTables, CoordinatorRestartBudget
  <2>3. BoundsOK' /\ FleetTypeOK'
    BY <1>0, <1>3, <2>1, FleetUntouched DEF Restart, BoundsOK
  <2>4. QED
    BY <2>2, <2>3 DEF IInv, TypeOK, Types, BoundsOK
<1>4. ASSUME NEW t \in Tasks, Submit(t) PROVE IInv'
  BY <1>4, SubmitIInv
<1>5. ASSUME NEW a \in Agents,
             HeartbeatArrives(a) \/ Cleanup(a) \/ RecordBecomesStale(a) \/ HeartbeatBecomesStale(a)
      PROVE  IInv'
  BY <1>5, EnvironmentIInv
<1>6. CASE UNCHANGED vars
  <2>1. /\ UNCHANGED topicVars /\ UNCHANGED coordVars /\ UNCHANGED fleetVars
        /\ UNCHANGED boundVars /\ UNCHANGED registry
    BY <1>6 DEF vars
  <2>2. TopicsTypeOK' /\ RegistryTypeOK'
    BY <1>0, <2>1 DEF Types, TopicsTypeOK, RegistryTypeOK, topicVars
  <2>3. CoordTypeOK' /\ TablesOK' /\ FleetTypeOK' /\ BoundsOK'
    BY <1>0, <2>1, CoordUntouched, FleetUntouched, BoundsUntouched DEF Types
  <2>4. RetryBudget'
    BY <1>0, <2>1, BudgetUntouched DEF topicVars, coordVars
  <2>5. QED
    BY <2>2, <2>3, <2>4 DEF IInv, TypeOK, BoundsOK
<1>7. QED
  BY <1>1, <1>2, <1>3, <1>4, <1>5, <1>6 DEF Next

\* The inductive invariant: the types, the tables task by task, and the retry
\* budget hold together in every reachable state of the whole system.
THEOREM Invariance == Spec => []IInv
  BY InitIInv, NextIInv, PTL DEF Spec

-----------------------------------------------------------------------------
\* Every variable keeps its type: no bag of messages loses more than it holds,
\* and the failover's bookkeeping stays within its ranges.
THEOREM TypeCorrect == Spec => []TypeOK
<1>1. IInv => TypeOK
  BY DEF IInv
<1>2. QED
  BY <1>1, Invariance, PTL

\* The tables of the coordinator: pendingTasks and taskAssignments agree, a
\* task without an assignment is overdue, and a failover that is under way
\* writes through its old pointers only to tasks nobody else has been given,
\* whatever the consumers, the failover and the timeout checker do in between.
THEOREM TablesConsistent == Spec => []TablesAgree
<1>1. IInv => TablesAgree
  BY TablesOKMeans DEF IInv, TypeOK, CoordTypeOK, TablesAgree
<1>2. QED
  BY <1>1, Invariance, PTL

\* No assignment on its way carries more retries than the task allows, although
\* messages that went round the coordinator's own loop carry old counts.
THEOREM RetriesWithinBudget == Spec => []RetryBudget
<1>1. IInv => RetryBudget
  BY DEF IInv
<1>2. QED
  BY <1>1, Invariance, PTL

-----------------------------------------------------------------------------
(* Punctual agents.                                                        *)

\* The failover neither suspects a nor works on it.
Unsuspected(a) == a \notin suspects /\ victim # a

\* Before its first start an agent is unknown to everybody. While its first
\* process runs it is fresh in the registry, and no old heartbeat message of it
\* speaks against it: MonitorAgents looks at seen before the registry.
Punctual(a) ==
    /\ starts[a] = 0 => a \notin up /\ registry[a] = "absent" /\ seen[a] = "none" /\ Unsuspected(a)
    /\ starts[a] = 1 /\ a \in up => registry[a] = "fresh" /\ seen[a] # "stale" /\ Unsuspected(a)

LEMMA PunctualUntouched ==
  ASSUME NEW a \in Agents, Punctual(a), UNCHANGED <<registry, seen, suspects, victim, up, starts>>
  PROVE  Punctual(a)'
  BY DEF Punctual, Unsuspected

\* The coordinator: whom it lists as stale, gives up or spares is another agent.
LEMMA CoordStepPunctual ==
  ASSUME TypeOK, NEW a \in Agents, Punctual(a), CoordStep, UNCHANGED fleetVars PROVE Punctual(a)'
<1>0. UNCHANGED <<up, starts>> /\ registry \in [Agents -> Membership] /\ victim \in Agents \cup {NoAgent}
  BY DEF fleetVars, TypeOK, RegistryTypeOK, CoordTypeOK
<1>1. CASE ListAgents
  <2>1. suspects' = {b \in ListAllAgents : LastSeen(b) = "stale"} /\ UNCHANGED <<registry, seen, victim>>
    BY <1>1 DEF ListAgents
  <2>2. registry[a] # "stale" /\ seen[a] # "stale" => a \notin suspects'
    BY <2>1 DEF LastSeen
  <2>3. QED
    BY <1>0, <2>1, <2>2 DEF Punctual, Unsuspected
<1>2. CASE \E b \in Agents : SpareAgent(b)
  BY <1>0, <1>2 DEF SpareAgent, Punctual, Unsuspected
<1>3. CASE \E b \in Agents : DetectStale(b)
  BY <1>0, <1>3 DEF DetectStale, Punctual, Unsuspected
<1>4. CASE FailoverDeregister
  <2>1. UNCHANGED <<seen, suspects, victim>> /\ (victim # a => registry'[a] = registry[a])
    BY <1>0, <1>4 DEF FailoverDeregister, DeregisterAgent
  <2>2. starts[a] = 0 => registry'[a] = registry[a]
    BY <2>1 DEF Punctual, Unsuspected
  <2>3. QED
    BY <1>0, <2>1, <2>2 DEF Punctual, Unsuspected
<1>5. CASE EndFailover
  BY <1>0, <1>5 DEF EndFailover, Punctual, Unsuspected
<1>6. CASE \E o \in Order : HandleTaskAssignment(o) \/ RefuseTaskAssignment(o)
  BY <1>0, <1>6, PunctualUntouched DEF HandleTaskAssignment, RefuseTaskAssignment, coordVars
<1>7. CASE RouteTask("assign") \/ RouteTask("health")
  BY <1>0, <1>7, PunctualUntouched DEF RouteTask
<1>8. CASE \E t \in Tasks : Reassign(t) \/ GiveUp(t)
  BY <1>0, <1>8, PunctualUntouched DEF Reassign, GiveUp
<1>9. CASE \E t \in Tasks : HandleTaskStatus(t) \/ HandleTaskComplete(t) \/ TaskBecomesOverdue(t)
  BY <1>0, <1>9, PunctualUntouched DEF HandleTaskStatus, HandleTaskComplete, TaskBecomesOverdue
<1>10. CASE CheckTaskTimeouts
  BY <1>0, <1>10, PunctualUntouched DEF CheckTaskTimeouts
<1>11. QED
  BY <1>1, <1>2, <1>3, <1>4, <1>5, <1>6, <1>7, <1>8, <1>9, <1>10 DEF CoordStep

\* An agent that starts registers itself; one that ends is not up any more; and
\* a heartbeat refreshes only a record that is there.
LEMMA FleetStepPunctual ==
  ASSUME TypeOK, NEW a \in Agents, Punctual(a), FleetStep, UNCHANGED coordVars PROVE Punctual(a)'
<1>0. /\ UNCHANGED <<seen, suspects, victim>>
      /\ registry \in [Agents -> Membership] /\ starts \in [Agents -> 0 .. MaxStarts]
  BY DEF coordVars, TypeOK, RegistryTypeOK, FleetTypeOK
<1>1. ASSUME NEW b \in Agents, AgentStart(b) PROVE Punctual(a)'
  <2>1. up' = up \cup {b} /\ starts' = [starts EXCEPT ![b] = @ + 1] /\ registry' = [registry EXCEPT ![b] = "fresh"]
    BY <1>1 DEF AgentStart, RegisterAgent
  <2>2. CASE b = a
    <3>1. starts'[a] = starts[a] + 1 /\ starts[a] \in Nat /\ registry'[a] = "fresh"
      BY <1>0, <2>1, <2>2
    <3>2. QED
      BY <1>0, <3>1 DEF Punctual, Unsuspected
  <2>3. CASE b # a
    <3>1. starts'[a] = starts[a] /\ registry'[a] = registry[a] /\ (a \in up' <=> a \in up)
      BY <1>0, <2>1, <2>3
    <3>2. QED
      BY <1>0, <3>1 DEF Punctual, Unsuspected
  <2>4. QED
    BY <2>2, <2>3
<1>2. ASSUME NEW b \in Agents, AgentCrash(b) \/ AgentStop(b) PROVE Punctual(a)'
  <2>1. up' = up \ {b} /\ UNCHANGED starts /\ (registry' = registry \/ registry' = [registry EXCEPT ![b] = "absent"])
    BY <1>2 DEF AgentCrash, AgentStop, ProcessEnds, DeregisterAgent
  <2>2. /\ a \in up' => registry'[a] = registry[a]
        /\ registry[a] = "absent" => registry'[a] = "absent"
    BY <1>0, <2>1
  <2>3. QED
    BY <1>0, <2>1, <2>2 DEF Punctual, Unsuspected
<1>3. ASSUME NEW b \in Agents, SendHeartbeat(b) PROVE Punctual(a)'
  BY <1>0, <1>3 DEF SendHeartbeat, RegistryHeartbeat, fleetVars, Punctual, Unsuspected
<1>4. ASSUME NEW t \in Tasks, NEW b \in Agents, NEW c \in Agents,
             BeginExecution(t, b) \/ RejectExecution(t, b) \/ FinishExecution(t, b) \/ DiscardAssignment(t, b, c)
      PROVE  Punctual(a)'
  BY <1>0, <1>4, PunctualUntouched
     DEF BeginExecution, RejectExecution, FinishExecution, DiscardAssignment, fleetVars
<1>5. QED
  BY <1>1, <1>2, <1>3, <1>4 DEF FleetStep

\* A heartbeat message arrives from a running agent only, and time makes only
\* the silent stale.
LEMMA EnvironmentPunctual ==
  ASSUME TypeOK, ~LateHeartbeats, NEW a \in Agents, Punctual(a), NEW b \in Agents,
         HeartbeatArrives(b) \/ Cleanup(b) \/ RecordBecomesStale(b) \/ HeartbeatBecomesStale(b)
  PROVE  Punctual(a)'
<1>0. registry \in [Agents -> Membership] /\ seen \in [Agents -> {"none", "fresh", "stale"}]
  BY DEF TypeOK, RegistryTypeOK, CoordTypeOK
<1>1. CASE HeartbeatArrives(b)
  <2>1. /\ b \in up /\ UNCHANGED <<up, starts, suspects, victim>> /\ seen' = [seen EXCEPT ![b] = "fresh"]
        /\ registry' = registry \/ registry' = [registry EXCEPT ![b] = IF @ = "absent" THEN @ ELSE "fresh"]
    BY <1>1 DEF HeartbeatArrives, HandleAgentHeartbeat, RegistryHeartbeat, fleetVars
  <2>2. QED
    BY <1>0, <2>1 DEF Punctual, Unsuspected
<1>2. CASE Cleanup(b)
  BY <1>0, <1>2 DEF Cleanup, CleanupStaleAgent, DeregisterAgent, coordVars, fleetVars, Punctual, Unsuspected
<1>3. CASE RecordBecomesStale(b)
  BY <1>0, <1>3 DEF RecordBecomesStale, MaySilence, RecordAges, coordVars, fleetVars, Punctual, Unsuspected
<1>4. CASE HeartbeatBecomesStale(b)
  BY <1>0, <1>4 DEF HeartbeatBecomesStale, MaySilence, HeartbeatAges, fleetVars, Punctual, Unsuspected
<1>5. QED
  BY <1>1, <1>2, <1>3, <1>4

AllPunctual == ~LateHeartbeats => \A a \in Agents : Punctual(a)

LEMMA NextPunctual == TypeOK /\ AllPunctual /\ [Next]_vars => AllPunctual'
<1> SUFFICES ASSUME TypeOK, [Next]_vars, ~LateHeartbeats, NEW a \in Agents, Punctual(a) PROVE Punctual(a)'
  BY DEF AllPunctual
<1>1. CASE CoordStep /\ UNCHANGED <<fleetVars, boundVars>>
  BY <1>1, CoordStepPunctual
<1>2. CASE FleetStep /\ UNCHANGED <<coordVars, boundVars>>
  BY <1>2, FleetStepPunctual
<1>3. CASE Restart
  BY <1>3 DEF Restart, CoordinatorRestart, fleetVars, Punctual, Unsuspected
<1>4. ASSUME NEW t \in Tasks, Submit(t) PROVE Punctual(a)'
  BY <1>4, PunctualUntouched DEF Submit, coordVars, fleetVars
<1>5. ASSUME NEW b \in Agents,
             HeartbeatArrives(b) \/ Cleanup(b) \/ RecordBecomesStale(b) \/ HeartbeatBecomesStale(b)
      PROVE  Punctual(a)'
  BY <1>5, EnvironmentPunctual
<1>6. CASE UNCHANGED vars
  BY <1>6, PunctualUntouched DEF vars, coordVars, fleetVars
<1>7. QED
  BY <1>1, <1>2, <1>3, <1>4, <1>5, <1>6 DEF Next

\* An agent whose heartbeats arrive in time is a member of the registry from its
\* first start to its end: no failover, no coordinator's restart and no clean-up
\* of another process takes it out.
THEOREM PunctualStays == Spec => []PunctualAgentStays
<1>1. Init => AllPunctual
  BY DEF Init, FleetInit, RegistryInit, CoordInit, AllPunctual, Punctual, Unsuspected
<1>2. TypeOK /\ AllPunctual => PunctualAgentStays
  BY DEF TypeOK, FleetTypeOK, AllPunctual, Punctual, PunctualAgentStays, ListAllAgents
<1>3. QED
  BY <1>1, <1>2, NextPunctual, TypeCorrect, PTL DEF Spec

-----------------------------------------------------------------------------
(* The routing loop: what a message taken and a message put make of the    *)
(* number of messages for a task.                                          *)

\* There are finitely many messages for a task, and their number is a number.
LEMMA MessagesFinite ==
  ASSUME NEW t \in Tasks, NEW bag PROVE IsFiniteSet(Messages(bag, t)) /\ InTopic(bag, t) \in Nat
<1> DEFINE ofTask == {o \in Order : o.task = t}
           pairs == RetryCounts \X {"client", "coordinator"}
           order == [p \in pairs |-> [task |-> t, retries |-> p[1], source |-> p[2]]]
<1>1. IsFiniteSet(pairs)
  <2>1. IsFiniteSet(RetryCounts)
    BY FS_Interval DEF RetryCounts
  <2>2. IsFiniteSet({"client", "coordinator"})
    <3>1. IsFiniteSet({"client"} \cup {"coordinator"})
      BY FS_Singleton, FS_AddElement
    <3>2. {"client", "coordinator"} = {"client"} \cup {"coordinator"}
      OBVIOUS
    <3>3. QED
      BY <3>1, <3>2
  <2>3. QED
    BY <2>1, <2>2, FS_Product
<1>2. order \in [pairs -> ofTask]
  BY DEF Order
<1>3. \A o \in ofTask : \E p \in pairs : order[p] = o
  <2> SUFFICES ASSUME NEW o \in ofTask PROVE \E p \in pairs : order[p] = o
    OBVIOUS
  <2>1. <<o.retries, o.source>> \in pairs /\ o = [task |-> t, retries |-> o.retries, source |-> o.source]
    BY DEF Order
  <2>2. order[<<o.retries, o.source>>] = o
    BY <2>1
  <2>3. QED
    BY <2>1, <2>2
<1>4. order \in Surjection(pairs, ofTask)
  BY <1>2, <1>3 DEF Surjection
<1>5. IsFiniteSet(ofTask)
  BY <1>1, <1>4, FS_Surjection
<1> HIDE DEF ofTask
<1>6. IsFiniteSet(ofTask \X (1 .. MaxCopies))
  <2>1. IsFiniteSet(1 .. MaxCopies)
    <3>1. 1 \in Int /\ MaxCopies \in Int
      BY PlatformAssumption DEF PlatformAssumption
    <3>2. QED
      BY <3>1, FS_Interval
  <2>2. QED
    BY <1>5, <2>1, FS_Product
<1>7. Messages(bag, t) \subseteq ofTask \X (1 .. MaxCopies)
  BY DEF Messages, ofTask
<1>8. QED
  BY <1>6, <1>7, FS_Subset, FS_CardinalityType DEF InTopic

\* A message put adds at most itself, and to its own task only.
LEMMA PutCounts ==
  ASSUME NEW t \in Tasks, NEW bag \in Bag(Order), NEW o \in Order
  PROVE  InTopic(Put(bag, o), t) <= InTopic(bag, t) + IF o.task = t THEN 1 ELSE 0
<1> DEFINE next == <<o, bag[o] + 1>>
<1>1. \A x \in Order : Put(bag, o)[x] = IF x = o THEN OneMore(bag[o]) ELSE bag[x]
  BY DEF Put, Bag
<1>2. bag[o] \in Nat /\ OneMore(bag[o]) \in {bag[o], bag[o] + 1}
  BY DEF Bag, OneMore
<1>3. ASSUME NEW m \in Messages(Put(bag, o), t) PROVE m \in Messages(bag, t) \/ (m = next /\ o.task = t)
  <2>1. PICK x \in Order, n \in 1 .. MaxCopies : m = <<x, n>> /\ x.task = t /\ n <= Put(bag, o)[x]
    BY DEF Messages
  <2>2. CASE n <= bag[x]
    BY <2>1, <2>2 DEF Messages
  <2>3. CASE ~ (n <= bag[x])
    <3>1. x = o
      BY <1>1, <2>1, <2>3
    <3>2. n = bag[o] + 1
      BY <1>1, <1>2, <2>1, <2>3, <3>1
    <3>3. QED
      BY <2>1, <3>1, <3>2
  <2>4. QED
    BY <2>2, <2>3
<1> HIDE DEF next
<1>4. CASE o.task = t
  <2>1. Messages(Put(bag, o), t) \subseteq Messages(bag, t) \cup {next}
    BY <1>3
  <2>2. IsFiniteSet(Messages(bag, t) \cup {next}) /\ Cardinality(Messages(bag, t) \cup {next}) <= InTopic(bag, t) + 1
    BY MessagesFinite, FS_AddElement DEF InTopic
  <2>3. Cardinality(Messages(Put(bag, o), t)) <= Cardinality(Messages(bag, t) \cup {next})
    BY <2>1, <2>2, FS_Subset
  <2>4. Cardinality(Messages(bag, t) \cup {next}) \in Nat /\ InTopic(bag, t) \in Nat /\ InTopic(Put(bag, o), t) \in Nat
    BY <2>2, MessagesFinite, FS_CardinalityType
  <2>5. QED
    BY <1>4, <2>2, <2>3, <2>4 DEF InTopic
<1>5. CASE o.task # t
  <2>1. Messages(Put(bag, o), t) \subseteq Messages(bag, t)
    BY <1>3, <1>5
  <2>2. Cardinality(Messages(Put(bag, o), t)) <= Cardinality(Messages(bag, t))
    BY <2>1, MessagesFinite, FS_Subset
  <2>3. QED
    BY <1>5, <2>2, MessagesFinite DEF InTopic
<1>6. QED
  BY <1>4, <1>5

\* A message taken leaves all the others.
LEMMA TakeCounts ==
  ASSUME NEW t \in Tasks, NEW bag \in Bag(Order), NEW o \in Order, bag[o] > 0
  PROVE  InTopic(Take(bag, o), t) = InTopic(bag, t) - IF o.task = t THEN 1 ELSE 0
<1> DEFINE last == <<o, bag[o]>>
<1>1. \A x \in Order : Take(bag, o)[x] = IF x = o THEN bag[o] - 1 ELSE bag[x]
  BY DEF Take, Bag
<1>2. bag[o] \in 1 .. MaxCopies
  BY DEF Bag
<1>3. \A x \in Order, n \in 1 .. MaxCopies :
          n <= Take(bag, o)[x] <=> n <= bag[x] /\ <<x, n>> # last
  <2> SUFFICES ASSUME NEW x \in Order, NEW n \in 1 .. MaxCopies
               PROVE  n <= Take(bag, o)[x] <=> n <= bag[x] /\ <<x, n>> # last
    OBVIOUS
  <2>1. CASE x = o
    BY <1>1, <1>2, <2>1
  <2>2. CASE x # o
    BY <1>1, <2>2
  <2>3. QED
    BY <2>1, <2>2
<1> HIDE DEF last
<1>4. Messages(Take(bag, o), t) = Messages(bag, t) \ {last}
  BY <1>3 DEF Messages
<1>5. last \in Messages(bag, t) <=> o.task = t
  BY <1>2 DEF Messages, last
<1>6. Cardinality(Messages(bag, t) \ {last}) = IF last \in Messages(bag, t) THEN InTopic(bag, t) - 1 ELSE InTopic(bag, t)
  BY MessagesFinite, FS_RemoveElement DEF InTopic
<1>7. QED
  BY <1>4, <1>5, <1>6, MessagesFinite DEF InTopic

\* What the consumer has in hand of a task.
InHand(t) == IF job["assign"] # NoJob /\ job["assign"].order.task = t THEN 1 ELSE 0

\* Each step of the coordination agent, but for the failover's, leaves no more
\* messages for a task than it found.
LEMMA CoordStepCounts ==
  ASSUME Types, CoordStep, ~ RouteTask("health"), NEW t \in Tasks
  PROVE  Copies(t)' <= Copies(t)
<1>1. Copies(t) = InTopic(toCoord, t) + InHand(t) /\ InTopic(toCoord, t) \in Nat /\ InHand(t) \in Nat
  BY MessagesFinite DEF Copies, InHand
<1>2. toCoord \in Bag(Order) /\ job \in [{"assign", "health"} -> Job \cup {NoJob}]
  BY DEF Types, TopicsTypeOK, CoordTypeOK
<1>3. ASSUME UNCHANGED toCoord, job'["assign"] = job["assign"] PROVE Copies(t)' <= Copies(t)
  <2>1. Copies(t)' = Copies(t)
    BY <1>3 DEF Copies
  <2>2. QED
    BY <1>1, <2>1
<1>4. ASSUME NEW o \in Order, HandleTaskAssignment(o) PROVE Copies(t)' <= Copies(t)
  <2>1. PICK a : job' = [job EXCEPT !["assign"] = [order |-> o, agent |-> a]] /\ a \in Agents
    BY <1>4 DEF HandleTaskAssignment, Routable, ListAllAgents
  <2>2. job["assign"] = NoJob /\ toCoord[o] > 0 /\ toCoord' = Take(toCoord, o)
    BY <1>4 DEF HandleTaskAssignment
  <2>3. job'["assign"] = [order |-> o, agent |-> a] /\ job'["assign"] # NoJob
    BY <1>2, <2>1, CoordinatorAssumption DEF CoordinatorAssumption, Job
  <2>4. InTopic(Take(toCoord, o), t) = InTopic(toCoord, t) - IF o.task = t THEN 1 ELSE 0
    BY <1>2, <2>2, TakeCounts
  <2>5. Copies(t)' = InTopic(Take(toCoord, o), t) + IF o.task = t THEN 1 ELSE 0
    BY <2>2, <2>3 DEF Copies
  <2>6. QED
    BY <1>1, <2>4, <2>5 DEF InHand
<1>5. ASSUME NEW o \in Order, RefuseTaskAssignment(o) PROVE Copies(t)' <= Copies(t)
  <2>1. /\ toCoord[o] > 0 /\ toCoord' \in Uncommitted(Take(toCoord, o), o) /\ UNCHANGED job
    BY <1>5 DEF RefuseTaskAssignment, coordVars
  <2>2. PICK taken : taken = Take(toCoord, o)
    OBVIOUS
  <2>3. taken \in Bag(Order)
    BY <1>2, <2>1, <2>2, TakeType
  <2>4. InTopic(taken, t) = InTopic(toCoord, t) - IF o.task = t THEN 1 ELSE 0
    BY <1>2, <2>1, <2>2, TakeCounts
  <2>5. InTopic(Put(taken, o), t) <= InTopic(taken, t) + IF o.task = t THEN 1 ELSE 0
    BY <2>3, PutCounts
  <2>6. InTopic(taken, t) \in Nat /\ InTopic(Put(taken, o), t) \in Nat
    BY MessagesFinite
  <2>7. PICK bag : bag = toCoord' /\ bag \in {taken, Put(taken, o)}
    BY <2>1, <2>2 DEF Uncommitted
  <2>8. InTopic(bag, t) <= InTopic(toCoord, t) /\ InTopic(bag, t) \in Nat
    BY <1>1, <2>4, <2>5, <2>6, <2>7
  <2>9. Copies(t)' = InTopic(bag, t) + InHand(t)
    BY <2>1, <2>7 DEF Copies, InHand
  <2>10. QED
    BY <1>1, <2>8, <2>9
<1>6. CASE RouteTask("assign")
  <2>1. PICK o : o = job["assign"].order
    OBVIOUS
  <2>2. PICK c : c = [o EXCEPT !.source = "coordinator"]
    OBVIOUS
  <2>3. job["assign"] # NoJob /\ job' = [job EXCEPT !["assign"] = NoJob]
    BY <1>6 DEF RouteTask
  <2>4. o \in Order /\ c \in Order /\ c.task = o.task
    BY <1>2, <2>1, <2>2, <2>3 DEF Job, Order
  <2>5. PICK bag : bag = toCoord' /\ bag \in {toCoord, Put(toCoord, c), Put(toCoord, o)}
    BY <1>6, <2>1, <2>2 DEF RouteTask, PublishAssignment, Uncommitted
  <2>6. /\ InTopic(Put(toCoord, o), t) <= InTopic(toCoord, t) + IF o.task = t THEN 1 ELSE 0
        /\ InTopic(Put(toCoord, c), t) <= InTopic(toCoord, t) + IF o.task = t THEN 1 ELSE 0
    BY <1>2, <2>4, PutCounts
  <2>7. InTopic(bag, t) <= InTopic(toCoord, t) + IF o.task = t THEN 1 ELSE 0
    BY <1>1, <2>5, <2>6
  <2>8. job'["assign"] = NoJob
    BY <1>2, <2>3
  <2>9. Copies(t)' = InTopic(bag, t) /\ InTopic(bag, t) \in Nat
    BY <2>5, <2>8, MessagesFinite DEF Copies
  <2>10. InHand(t) = IF o.task = t THEN 1 ELSE 0
    BY <2>1, <2>3 DEF InHand
  <2>11. QED
    BY <1>1, <2>7, <2>9, <2>10
<1>7. ASSUME NEW u \in Tasks, Reassign(u) PROVE Copies(t)' <= Copies(t)
  <2>1. UNCHANGED toCoord /\ job'["assign"] = job["assign"]
    BY <1>2, <1>7 DEF Reassign, topicVars
  <2>2. QED
    BY <1>3, <2>1
<1>8. ASSUME UNCHANGED <<toCoord, job>> PROVE Copies(t)' <= Copies(t)
  BY <1>3, <1>8
<1>9. CASE (\E a \in Agents : SpareAgent(a) \/ DetectStale(a)) \/ ListAgents \/ FailoverDeregister \/ EndFailover
  BY <1>8, <1>9 DEF SpareAgent, DetectStale, ListAgents, FailoverDeregister, EndFailover, topicVars
<1>10. CASE \E u \in Tasks : GiveUp(u) \/ HandleTaskStatus(u) \/ HandleTaskComplete(u) \/ TaskBecomesOverdue(u)
  BY <1>8, <1>10 DEF GiveUp, HandleTaskStatus, HandleTaskComplete, TaskBecomesOverdue, topicVars
<1>11. CASE CheckTaskTimeouts
  BY <1>8, <1>11 DEF CheckTaskTimeouts
<1>12. QED
  BY <1>4, <1>5, <1>6, <1>7, <1>9, <1>10, <1>11 DEF CoordStep

\* A restart gives back no more than was in hand.
LEMMA RestartCounts ==
  ASSUME Types, CoordinatorRestart, NEW t \in Tasks PROVE Copies(t)' <= Copies(t)
<1>1. Copies(t) = InTopic(toCoord, t) + InHand(t) /\ InTopic(toCoord, t) \in Nat /\ InHand(t) \in Nat
  BY MessagesFinite DEF Copies, InHand
<1>2. toCoord \in Bag(Order) /\ job \in [{"assign", "health"} -> Job \cup {NoJob}]
  BY DEF Types, TopicsTypeOK, CoordTypeOK
<1>3. PICK bag : bag = toCoord'
  OBVIOUS
<1>4. job'["assign"] = NoJob
  BY DEF CoordinatorRestart
<1>5. Copies(t)' = InTopic(bag, t) /\ InTopic(bag, t) \in Nat
  BY <1>3, <1>4, MessagesFinite DEF Copies
<1>6. CASE job["assign"] = NoJob
  BY <1>1, <1>3, <1>5, <1>6 DEF CoordinatorRestart
<1>7. CASE job["assign"] # NoJob
  <2>1. PICK o : o = job["assign"].order
    OBVIOUS
  <2>2. o \in Order /\ bag = Put(toCoord, o)
    BY <1>2, <1>3, <1>7, <2>1 DEF CoordinatorRestart, Job
  <2>3. InTopic(Put(toCoord, o), t) <= InTopic(toCoord, t) + IF o.task = t THEN 1 ELSE 0
    BY <1>2, <2>2, PutCounts
  <2>4. InHand(t) = IF o.task = t THEN 1 ELSE 0
    BY <1>7, <2>1 DEF InHand
  <2>5. QED
    BY <1>1, <1>5, <2>2, <2>3, <2>4
<1>8. QED
  BY <1>6, <1>7

\* A task is given more messages by nobody but its submission and the failover.
LEMMA NextCounts ==
  ASSUME TypeOK, [Next]_vars, NEW t \in Tasks, ~ Submit(t), ~ RouteTask("health")
  PROVE  Copies(t)' <= Copies(t)
<1>1. Types /\ Copies(t) \in Nat
  BY MessagesFinite DEF TypeOK, Types, Copies
<1>2. ASSUME UNCHANGED <<toCoord, job>> PROVE Copies(t)' <= Copies(t)
  <2>1. Copies(t)' = Copies(t)
    BY <1>2 DEF Copies
  <2>2. QED
    BY <1>1, <2>1
<1>3. CASE CoordStep
  BY <1>1, <1>3, CoordStepCounts
<1>4. CASE FleetStep /\ UNCHANGED <<coordVars, boundVars>>
  BY <1>2, <1>4, FleetStepOrders DEF coordVars
<1>5. CASE Restart
  BY <1>1, <1>5, RestartCounts DEF Restart
<1>6. ASSUME NEW u \in Tasks, Submit(u) PROVE Copies(t)' <= Copies(t)
  <2>1. u # t
    BY <1>6
  <2>2. PICK o : o = [task |-> u, retries |-> 0, source |-> "client"]
    OBVIOUS
  <2>3. o \in Order /\ o.task # t
    BY <2>1, <2>2 DEF Order, RetryCounts
  <2>4. toCoord' = Put(toCoord, o) /\ UNCHANGED job
    BY <1>6, <2>2 DEF Submit, PublishAssignment, coordVars
  <2>5. toCoord \in Bag(Order)
    BY <1>1 DEF Types, TopicsTypeOK
  <2>6. InTopic(Put(toCoord, o), t) <= InTopic(toCoord, t) + IF o.task = t THEN 1 ELSE 0
    BY <2>3, <2>5, PutCounts
  <2>7. InTopic(Put(toCoord, o), t) \in Nat /\ InTopic(toCoord, t) \in Nat /\ InHand(t) \in Nat
    BY MessagesFinite DEF InHand
  <2>8. InTopic(Put(toCoord, o), t) <= InTopic(toCoord, t)
    BY <2>3, <2>6, <2>7
  <2>9. Copies(t)' = InTopic(Put(toCoord, o), t) + InHand(t) /\ Copies(t) = InTopic(toCoord, t) + InHand(t)
    BY <2>4 DEF Copies, InHand
  <2>10. QED
    BY <2>7, <2>8, <2>9
<1>7. ASSUME NEW a \in Agents,
             HeartbeatArrives(a) \/ Cleanup(a) \/ RecordBecomesStale(a) \/ HeartbeatBecomesStale(a)
      PROVE  Copies(t)' <= Copies(t)
  <2>1. UNCHANGED <<toCoord, job>>
    BY <1>7 DEF HeartbeatArrives, Cleanup, RecordBecomesStale, HeartbeatBecomesStale,
                HandleAgentHeartbeat, HeartbeatAges, topicVars, coordVars
  <2>2. QED
    BY <1>2, <2>1
<1>8. CASE UNCHANGED vars
  BY <1>2, <1>8 DEF vars, topicVars, coordVars
<1>9. QED
  BY <1>3, <1>4, <1>5, <1>6, <1>7, <1>8 DEF Next

\* The coordinator reads back every assignment it publishes and routes it again;
\* however often, only a submission or a failover adds messages for a task, with
\* any number of tasks and agents, lost and repeated messages and restarts.
THEOREM LoopDoesNotGrow == Spec => NoAmplification
<1>1. TypeOK /\ [Next]_vars =>
          [\A t \in Tasks : Copies(t)' > Copies(t) => Submit(t) \/ RouteTask("health")]_vars
  <2> SUFFICES ASSUME TypeOK, [Next]_vars, NEW t \in Tasks, Copies(t)' > Copies(t), ~ Submit(t), ~ RouteTask("health")
               PROVE  FALSE
    OBVIOUS
  <2>1. Copies(t)' <= Copies(t)
    BY NextCounts
  <2>2. Copies(t) \in Nat /\ Copies(t)' \in Nat
    <3>1. Copies(t) \in Nat
      BY MessagesFinite DEF Copies
    <3>2. PICK bag : bag = toCoord'
      OBVIOUS
    <3>3. Copies(t)' \in Nat
      BY <3>2, MessagesFinite DEF Copies
    <3>4. QED
      BY <3>1, <3>3
  <2>3. QED
    BY <2>1, <2>2
<1>2. QED
  BY <1>1, TypeCorrect, PTL DEF Spec, NoAmplification
=============================================================================

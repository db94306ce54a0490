---------------------------- MODULE RegistryKeys ----------------------------
(***************************************************************************)
(* The registry in Redis (pkg/registry/redis.go): a record for each agent, *)
(* and the sets that list it (all agents, its type, its capabilities),     *)
(* which one pipeline changes together. Operations read a record, change   *)
(* it and write it back without a transaction.                             *)
(*                                                                         *)
(* A caller is a goroutine with one operation at a time: the agent's own   *)
(* process, the coordinator, and the cleanup that runs in every process.   *)
(* Redis runs the commands of a pipeline together, since they arrive       *)
(* together. Any command may fail; the operation then returns. The keys    *)
(* with a TTL are left out: nothing reads them.                            *)
(***************************************************************************)
EXTENDS Naturals

CONSTANTS Agents,
          Coordinator, Cleaner,  \* callers that are not an agent's own process
          MaxLoad,               \* bound on the changes of an agent's load in one life
          MaxStarts              \* bound on the starts of an agent's process

Callers == Agents \cup {Coordinator, Cleaner}

ASSUME KeysAssumption ==
    /\ Coordinator \notin Agents /\ Cleaner \notin Agents /\ Coordinator # Cleaner
    /\ MaxLoad \in Nat /\ MaxStarts \in Nat

VARIABLES record,    \* agent:<id>: LastSeen and Load, or NoRecord
          members,   \* agents:all, agents:type:<type>, capability:<name>
          call,      \* the operation of each caller
          alive,     \* the agents whose process runs
          load,      \* the load of each process; a number for each new figure
          lives      \* how often each process was started

keysVars == <<record, members, call, alive, load, lives>>

NoRecord == [seen |-> "never", load |-> 0]
Records == [seen : {"fresh", "stale"}, load : 0 .. MaxLoad]

NoCall == [op |-> "none"]
Operations == {"register", "deregister", "heartbeat", "update load", "cleanup"}
Calls == {NoCall} \cup [op : Operations, agent : Agents, at : {"list", "get", "exec"}, load : 0 .. MaxLoad]

KeysTypeOK ==
    /\ record \in [Agents -> Records \cup {NoRecord}]
    /\ members \subseteq Agents
    /\ call \in [Callers -> Calls]
    /\ alive \subseteq Agents
    /\ load \in [Agents -> 0 .. MaxLoad]
    /\ lives \in [Agents -> 0 .. MaxStarts]

KeysInit ==
    /\ record = [a \in Agents |-> NoRecord]
    /\ members = {}
    /\ call = [c \in Callers |-> NoCall]
    /\ alive = {}
    /\ load = [a \in Agents |-> 0]
    /\ lives = [a \in Agents |-> 0]

-----------------------------------------------------------------------------
Begin(c, op, a, at) ==
    /\ call[c] = NoCall
    /\ call' = [call EXCEPT ![c] = [op |-> op, agent |-> a, at |-> at, load |-> load[a]]]

Doing(c, op, a, at) == call[c] # NoCall /\ call[c].op = op /\ call[c].agent = a /\ call[c].at = at
Return(c) == call' = [call EXCEPT ![c] = NoCall]

\* Stores the record with LastSeen = now.
Store(a, figure) == record' = [record EXCEPT ![a] = [seen |-> "fresh", load |-> figure]]

Listed(a) == a \in members /\ record[a] # NoRecord

\* An agent that starts has no load.
RegisterAgent(c, a) ==
    /\ Doing(c, "register", a, "exec")
    /\ Store(a, 0)
    /\ members' = members \cup {a}
    /\ Return(c)
    /\ UNCHANGED <<alive, load, lives>>

GetBeforeDeregister(c, a) ==
    /\ Doing(c, "deregister", a, "get") \/ Doing(c, "cleanup", a, "get")
    /\ call' = [call EXCEPT ![c] = IF record[a] = NoRecord THEN NoCall ELSE [@ EXCEPT !.at = "exec"]]
    /\ UNCHANGED <<record, members, alive, load, lives>>

DeregisterAgent(c, a) ==
    /\ Doing(c, "deregister", a, "exec") \/ Doing(c, "cleanup", a, "exec")
    /\ record' = [record EXCEPT ![a] = NoRecord]
    /\ members' = members \ {a}
    /\ Return(c)
    /\ UNCHANGED <<alive, load, lives>>

\* A mutant: the load read goes back whatever the operation.
GetWholeRecord(c, a) ==
    /\ Doing(c, "heartbeat", a, "get") \/ Doing(c, "update load", a, "get")
    /\ call' = [call EXCEPT ![c] = IF record[a] = NoRecord THEN NoCall
                                   ELSE [@ EXCEPT !.at = "exec", !.load = record[a].load]]
    /\ UNCHANGED <<record, members, alive, load, lives>>

\* GetAgent in Heartbeat and UpdateAgentLoad; the copy's load is used by the former.
GetBeforeStore(c, a) ==
    /\ Doing(c, "heartbeat", a, "get") \/ Doing(c, "update load", a, "get")
    /\ call' = [call EXCEPT ![c] =
                  IF record[a] = NoRecord THEN NoCall
                  ELSE [@ EXCEPT !.at = "exec",
                                 !.load = IF call[c].op = "heartbeat" THEN record[a].load ELSE call[c].load]]
    /\ UNCHANGED <<record, members, alive, load, lives>>

\* A mutant: the agent is added to the sets again.
StoreAndList(c, a) ==
    /\ Doing(c, "heartbeat", a, "exec") \/ Doing(c, "update load", a, "exec")
    /\ Store(a, call[c].load)
    /\ members' = members \cup {a}
    /\ Return(c)
    /\ UNCHANGED <<alive, load, lives>>

\* Whatever has become of the record since.
StoreCopy(c, a) ==
    /\ Doing(c, "heartbeat", a, "exec") \/ Doing(c, "update load", a, "exec")
    /\ Store(a, call[c].load)
    /\ Return(c)
    /\ UNCHANGED <<members, alive, load, lives>>

\* GetStaleAgents, for one of the members.
ListStale(c, a) ==
    /\ Doing(c, "cleanup", a, "list")
    /\ call' = [call EXCEPT ![c] =
                  IF Listed(a) /\ record[a].seen = "stale" THEN [@ EXCEPT !.at = "get"] ELSE NoCall]
    /\ UNCHANGED <<record, members, alive, load, lives>>

\* A process whose registration fails exits.
CallFails(c) ==
    /\ call[c] # NoCall
    /\ Return(c)
    /\ alive' = IF call[c].op = "register" THEN alive \ {call[c].agent} ELSE alive
    /\ UNCHANGED <<record, members, load, lives>>

Command(c, a) ==
    \/ RegisterAgent(c, a) \/ GetBeforeDeregister(c, a) \/ DeregisterAgent(c, a)
    \/ GetBeforeStore(c, a) \/ StoreCopy(c, a) \/ ListStale(c, a)

-----------------------------------------------------------------------------
StartProcess(a) ==
    /\ a \notin alive /\ lives[a] < MaxStarts
    /\ Begin(a, "register", a, "exec")
    /\ alive' = alive \cup {a}
    /\ lives' = [lives EXCEPT ![a] = @ + 1]
    /\ load' = [load EXCEPT ![a] = 0]
    /\ UNCHANGED <<record, members>>

Crash(a) ==
    /\ a \in alive
    /\ alive' = alive \ {a}
    /\ Return(a)
    /\ UNCHANGED <<record, members, load, lives>>

StopProcess(a) ==
    /\ a \in alive
    /\ Begin(a, "deregister", a, "get")
    /\ alive' = alive \ {a}
    /\ UNCHANGED <<record, members, load, lives>>

LoadChanges(a) ==
    /\ a \in alive /\ load[a] < MaxLoad
    /\ load' = [load EXCEPT ![a] = @ + 1]
    /\ UNCHANGED <<record, members, call, alive, lives>>

UpdateAgentLoad(a) == a \in alive /\ Begin(a, "update load", a, "get")

\* By the agent, and by the coordinator when a heartbeat message of the agent arrives.
Heartbeat(c, a) == a \in alive /\ c \in {a, Coordinator} /\ Begin(c, "heartbeat", a, "get")

\* HandleFailover: the coordinator has not heard of the agent.
FailOver(a) == Begin(Coordinator, "deregister", a, "get")

CleanupStaleAgents(a) == Begin(Cleaner, "cleanup", a, "list")

BeginOperation ==
    /\ \E a \in Agents :
         \/ UpdateAgentLoad(a) \/ FailOver(a) \/ CleanupStaleAgents(a)
         \/ \E c \in Callers : Heartbeat(c, a)
    /\ UNCHANGED <<record, members, alive, load, lives>>

\* StaleThreshold passes.
RecordAges(a) ==
    /\ record[a] # NoRecord
    /\ record' = [record EXCEPT ![a].seen = "stale"]
    /\ UNCHANGED <<members, call, alive, load, lives>>

KeysNext ==
    \/ BeginOperation
    \/ \E c \in Callers : CallFails(c) \/ \E a \in Agents : Command(c, a)
    \/ \E a \in Agents :
         StartProcess(a) \/ Crash(a) \/ StopProcess(a) \/ LoadChanges(a) \/ RecordAges(a)

KeysSpec == KeysInit /\ [][KeysNext]_keysVars

\* A command that was sent is answered; the heartbeat goroutine ticks, and sooner
\* or later its commands succeed.
KeysFairness ==
    \A a \in Agents :
        /\ WF_keysVars(RegisterAgent(a, a) \/ GetBeforeStore(a, a) \/ StoreCopy(a, a))
        /\ SF_keysVars(UpdateAgentLoad(a) /\ UNCHANGED <<record, members, alive, load, lives>>)
        /\ SF_keysVars(call[a].op = "update load" /\ GetBeforeStore(a, a))
        /\ SF_keysVars(call[a].op = "update load" /\ StoreCopy(a, a))

-----------------------------------------------------------------------------
\* The sets list no agent without a record, so that whoever finds an agent in
\* one of them can read it; only the reverse may happen.
KeysAgree == KeysTypeOK /\ \A a \in members : record[a] # NoRecord

\* The keys implement the registry the other models use, whose operations are
\* atomic, and once an agent is removed only its own process lists it again when
\* it starts: no late write of a heartbeat or of a load does. All this time the keys
\* agree.
Atomic == INSTANCE AgentRegistry WITH
    registry <- [a \in Agents |-> IF Listed(a) THEN record[a].seen ELSE "absent"]
ListedByItself == \A a \in Agents : ~Listed(a) /\ Listed(a)' => Doing(a, "register", a, "exec")
RefinesRegistry == []KeysAgree /\ Atomic!RegistrySpec /\ [][ListedByItself]_keysVars

\* An update that overwrites the load with an older one is made good by the next
\* tick: the load in the record of a running agent catches up again and again.
LoadCatchesUp ==
    \A a \in Agents : []<>(a \notin alive \/ ~Listed(a) \/ record[a].load = load[a])

\* redis.go:470: CleanupStaleAgents "removes agents that haven't sent a
\* heartbeat", so never one whose record is fresh.
CleanupSparesFresh ==
    [][\A a \in Agents : DeregisterAgent(Cleaner, a) /\ Listed(a) => record[a].seen = "stale"]_keysVars
=============================================================================

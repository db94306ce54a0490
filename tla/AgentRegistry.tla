--------------------------- MODULE AgentRegistry ---------------------------
(***************************************************************************)
(* The service registry as its clients see it: which agents are members    *)
(* of the agent set, and whether the LastSeen time stored with a member is *)
(* within the 90 s threshold ("fresh") or past it ("stale").               *)
(*                                                                         *)
(* Abstracted: capabilities (a task names the agents capable of it), the   *)
(* load figures (least-loaded is a choice among the eligible agents, see   *)
(* Coordinator!Routable), and the Redis keys behind one operation, so   *)
(* that each operation is one step.                                        *)
(***************************************************************************)

CONSTANT Agents        \* the agents' identifiers

VARIABLE registry      \* Agents -> {"absent", "fresh", "stale"}

Membership == {"absent", "fresh", "stale"}

RegistryTypeOK == registry \in [Agents -> Membership]

RegistryInit == registry = [a \in Agents |-> "absent"]

\* ListAllAgents: the members of the agent set.
ListAllAgents == {a \in Agents : registry[a] # "absent"}

\* RegisterAgent: stores the record with LastSeen = now and adds the id.
RegisterAgent(a) == registry' = [registry EXCEPT ![a] = "fresh"]

\* DeregisterAgent: removes the record and the id; a no-op for an unknown id.
DeregisterAgent(a) == registry' = [registry EXCEPT ![a] = "absent"]

\* Heartbeat (and UpdateAgentLoad): LastSeen = now, but only in a record that
\* is there. It never brings a removed agent back.
RegistryHeartbeat(a) ==
    registry' = [registry EXCEPT ![a] = IF @ = "absent" THEN @ ELSE "fresh"]

\* CleanupStaleAgents, run every CleanupInterval by every process that is
\* connected to the registry: removes a member whose LastSeen is too old.
CleanupStaleAgent(a) ==
    /\ registry[a] = "stale"
    /\ DeregisterAgent(a)

\* Time: StaleThreshold passes since the last update of the record of a.
RecordAges(a) ==
    /\ registry[a] = "fresh"
    /\ registry' = [registry EXCEPT ![a] = "stale"]

RegistryNext ==
    \E a \in Agents :
        \/ RegisterAgent(a) \/ DeregisterAgent(a) \/ RegistryHeartbeat(a)
        \/ CleanupStaleAgent(a) \/ RecordAges(a)

RegistrySpec == RegistryInit /\ [][RegistryNext]_registry
=============================================================================

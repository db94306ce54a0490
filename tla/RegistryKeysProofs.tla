------------------------- MODULE RegistryKeysProofs -------------------------
(***************************************************************************)
(* Proofs about the registry's keys, for any set of agents and any bounds. *)
(*                                                                         *)
(* The operations are not transactions: a heartbeat stores the copy it     *)
(* read before. What makes them appear atomic is that a record alone is    *)
(* not an agent: the sets decide, and they list no agent without a record. *)
(***************************************************************************)
EXTENDS RegistryKeys, TLAPS

\* The registry of AgentRegistry, as a function of the keys.
Entry(a) == IF Listed(a) THEN record[a].seen ELSE "absent"
Entries == [a \in Agents |-> Entry(a)]

\* A call under way is one of the operations, on an agent.
LEMMA CallTypes ==
    ASSUME KeysTypeOK, NEW c \in Callers, call[c] # NoCall
    PROVE  call[c] \in [op : Operations, agent : Agents, at : {"list", "get", "exec"}, load : 0 .. MaxLoad]
BY DEF KeysTypeOK, Calls

\* A new record is one, and it does not say that there is none.
LEMMA RecordTypes ==
    ASSUME KeysTypeOK, NEW a \in Agents
    PROVE  /\ record[a] # NoRecord => record[a] \in Records
           /\ \A figure \in 0 .. MaxLoad : [seen |-> "fresh", load |-> figure] \in Records
           /\ \A r \in Records : r # NoRecord /\ r.seen \in {"fresh", "stale"} /\ r.load \in 0 .. MaxLoad
BY DEF KeysTypeOK, Records, NoRecord

-----------------------------------------------------------------------------
(* The keys agree *)

\* Each command leaves keys that agree: those that list an agent store its record
\* with it, those that store a record list nobody.
LEMMA CommandsKeepAgreement ==
    ASSUME KeysAgree, NEW c \in Callers, NEW a \in Agents, Command(c, a)
    PROVE  KeysAgree'
<1>0. KeysTypeOK /\ 0 \in 0 .. MaxLoad
    BY KeysAssumption DEF KeysAgree
<1>1. NoCall \in Calls
    BY DEF Calls
<1>2. CASE RegisterAgent(c, a)
    <2>1. record' \in [Agents -> Records \cup {NoRecord}] /\ record'[a] # NoRecord
        BY <1>0, <1>2, RecordTypes DEF RegisterAgent, Store, KeysTypeOK
    <2>2. call' \in [Callers -> Calls]
        BY <1>0, <1>1, <1>2 DEF RegisterAgent, Return, KeysTypeOK
    <2> QED BY <1>0, <1>2, <2>1, <2>2 DEF RegisterAgent, Store, KeysAgree, KeysTypeOK
<1>3. CASE DeregisterAgent(c, a)
    <2>1. call' \in [Callers -> Calls]
        BY <1>0, <1>1, <1>3 DEF DeregisterAgent, Return, KeysTypeOK
    <2> QED BY <1>0, <1>3, <2>1 DEF DeregisterAgent, KeysAgree, KeysTypeOK
<1>4. CASE StoreCopy(c, a)
    <2>1. call[c].load \in 0 .. MaxLoad
        BY <1>0, <1>4, CallTypes DEF StoreCopy, Doing
    <2>2. record' \in [Agents -> Records \cup {NoRecord}] /\ record'[a] # NoRecord
        BY <1>0, <1>4, <2>1, RecordTypes DEF StoreCopy, Store, KeysTypeOK
    <2>3. call' \in [Callers -> Calls]
        BY <1>0, <1>1, <1>4 DEF StoreCopy, Return, KeysTypeOK
    <2> QED BY <1>0, <1>4, <2>2, <2>3 DEF StoreCopy, Store, KeysAgree, KeysTypeOK
<1>5. CASE GetBeforeDeregister(c, a)
    <2>1. call[c] # NoCall
        BY <1>5 DEF GetBeforeDeregister, Doing
    <2>2. [call[c] EXCEPT !.at = "exec"] \in Calls
        BY <1>0, <2>1, CallTypes DEF Calls
    <2> QED BY <1>0, <1>1, <1>5, <2>2 DEF GetBeforeDeregister, KeysAgree, KeysTypeOK
<1>6. CASE GetBeforeStore(c, a)
    <2>1. call[c] # NoCall
        BY <1>6 DEF GetBeforeStore, Doing
    <2>2. \A figure \in 0 .. MaxLoad : [call[c] EXCEPT !.at = "exec", !.load = figure] \in Calls
        BY <1>0, <2>1, CallTypes DEF Calls
    <2>3. record[a] # NoRecord => record[a].load \in 0 .. MaxLoad
        BY <1>0, RecordTypes
    <2>4. call[c].load \in 0 .. MaxLoad
        BY <1>0, <2>1, CallTypes
    <2>5. call'[c] \in Calls
        <3>1. CASE record[a] = NoRecord
            BY <1>0, <1>1, <1>6, <3>1 DEF GetBeforeStore, KeysTypeOK
        <3>2. CASE record[a] # NoRecord
            <4> DEFINE figure == IF call[c].op = "heartbeat" THEN record[a].load ELSE call[c].load
            <4>1. figure \in 0 .. MaxLoad
                BY <2>3, <2>4, <3>2
            <4>2. call'[c] = [call[c] EXCEPT !.at = "exec", !.load = figure]
                BY <1>0, <1>6, <2>1, <3>2, CallTypes DEF GetBeforeStore, KeysTypeOK
            <4> QED BY <2>2, <4>1, <4>2
        <3> QED BY <3>1, <3>2
    <2>6. call' \in [Callers -> Calls]
        BY <1>0, <1>6, <2>5 DEF GetBeforeStore, KeysTypeOK
    <2> QED BY <1>0, <1>6, <2>6 DEF GetBeforeStore, KeysAgree, KeysTypeOK
<1>7. CASE ListStale(c, a)
    <2>1. call[c] # NoCall
        BY <1>7 DEF ListStale, Doing
    <2>2. [call[c] EXCEPT !.at = "get"] \in Calls
        BY <1>0, <2>1, CallTypes DEF Calls
    <2> QED BY <1>0, <1>1, <1>7, <2>2 DEF ListStale, KeysAgree, KeysTypeOK
<1> QED BY <1>2, <1>3, <1>4, <1>5, <1>6, <1>7 DEF Command

\* An operation that begins is a call of its caller.
LEMMA BeginsKeepAgreement ==
    ASSUME KeysAgree, NEW c \in Callers, NEW a \in Agents, NEW op \in Operations,
           NEW at \in {"list", "get", "exec"}, Begin(c, op, a, at)
    PROVE  call' \in [Callers -> Calls]
<1>1. [op |-> op, agent |-> a, at |-> at, load |-> load[a]] \in Calls
    BY DEF KeysAgree, KeysTypeOK, Calls
<1> QED BY <1>1 DEF Begin, KeysAgree, KeysTypeOK

\* What a process does outside Redis changes no key, and a record that ages stays one.
LEMMA KeysStep == KeysAgree /\ [KeysNext]_keysVars => KeysAgree'
<1> SUFFICES ASSUME KeysAgree, [KeysNext]_keysVars PROVE KeysAgree'
    OBVIOUS
<1>0. KeysTypeOK /\ 0 \in 0 .. MaxLoad /\ NoCall \in Calls /\ Agents \subseteq Callers
      /\ Coordinator \in Callers /\ Cleaner \in Callers
    BY KeysAssumption DEF KeysAgree, Calls, Callers
<1>1. CASE BeginOperation
    <2>1. call' \in [Callers -> Calls]
        BY <1>0, <1>1, BeginsKeepAgreement
        DEF BeginOperation, UpdateAgentLoad, FailOver, CleanupStaleAgents, Heartbeat, Operations
    <2> QED BY <1>0, <1>1, <2>1 DEF BeginOperation, KeysAgree, KeysTypeOK
<1>2. ASSUME NEW c \in Callers, CallFails(c) PROVE KeysAgree'
    BY <1>0, <1>2 DEF CallFails, Return, KeysAgree, KeysTypeOK
<1>3. ASSUME NEW a \in Agents, StartProcess(a) PROVE KeysAgree'
    <2>1. call' \in [Callers -> Calls]
        BY <1>0, <1>3, BeginsKeepAgreement DEF StartProcess, Operations
    <2>2. lives' \in [Agents -> 0 .. MaxStarts] /\ load' \in [Agents -> 0 .. MaxLoad]
        BY <1>0, <1>3, KeysAssumption DEF StartProcess, KeysTypeOK
    <2> QED BY <1>0, <1>3, <2>1, <2>2 DEF StartProcess, KeysAgree, KeysTypeOK
<1>4. ASSUME NEW a \in Agents, Crash(a) PROVE KeysAgree'
    BY <1>0, <1>4 DEF Crash, Return, KeysAgree, KeysTypeOK
<1>5. ASSUME NEW a \in Agents, StopProcess(a) PROVE KeysAgree'
    <2>1. call' \in [Callers -> Calls]
        BY <1>0, <1>5, BeginsKeepAgreement DEF StopProcess, Operations
    <2> QED BY <1>0, <1>5, <2>1 DEF StopProcess, KeysAgree, KeysTypeOK
<1>6. ASSUME NEW a \in Agents, LoadChanges(a) PROVE KeysAgree'
    <2>1. load' \in [Agents -> 0 .. MaxLoad]
        BY <1>0, <1>6, KeysAssumption DEF LoadChanges, KeysTypeOK
    <2> QED BY <1>0, <1>6, <2>1 DEF LoadChanges, KeysAgree, KeysTypeOK
<1>7. ASSUME NEW a \in Agents, RecordAges(a) PROVE KeysAgree'
    <2>1. [record[a] EXCEPT !.seen = "stale"] \in Records
        BY <1>0, <1>7, RecordTypes DEF RecordAges, Records
    <2>2. record' \in [Agents -> Records \cup {NoRecord}] /\ record'[a] # NoRecord
        BY <1>0, <1>7, <2>1, RecordTypes DEF RecordAges, KeysTypeOK
    <2> QED BY <1>0, <1>7, <2>2 DEF RecordAges, KeysAgree, KeysTypeOK
<1>8. CASE UNCHANGED keysVars
    BY <1>8 DEF keysVars, KeysAgree, KeysTypeOK
<1> QED
    BY <1>1, <1>2, <1>3, <1>4, <1>5, <1>6, <1>7, <1>8, CommandsKeepAgreement DEF KeysNext

\* The keys agree in every state: the sets list no agent without a record.
THEOREM KeysAlwaysAgree == KeysSpec => []KeysAgree
<1>1. KeysInit => KeysAgree
    BY KeysAssumption DEF KeysInit, KeysAgree, KeysTypeOK, Calls
<1> QED BY <1>1, KeysStep, PTL DEF KeysSpec

-----------------------------------------------------------------------------
(* The keys implement the registry *)

\* A step that changes no more than the record of an agent, and whether it is
\* listed, changes the registry in at most one place.
LEMMA OneEntry ==
    ASSUME NEW a \in Agents,
           \A b \in Agents \ {a} : record'[b] = record[b] /\ (b \in members' <=> b \in members)
    PROVE  Entries' = [Entries EXCEPT ![a] = Entry(a)']
<1>1. \A b \in Agents \ {a} : Entry(b)' = Entry(b)
    BY DEF Entry, Listed
<1> QED BY <1>1 DEF Entries

\* A step that changes no key changes nothing in the registry.
LEMMA EntriesStutter == UNCHANGED <<record, members>> => UNCHANGED Entries
BY DEF Entries, Entry, Listed

\* A command is an operation of the registry, at the moment it is executed. The
\* store of a copy is a heartbeat: an agent in the sets has a record to replace,
\* and an agent outside them stays absent.
LEMMA CommandsRefine ==
    ASSUME KeysAgree, NEW c \in Callers, NEW a \in Agents, Command(c, a)
    PROVE  Atomic!RegistryNext \/ UNCHANGED Entries
<1>0. KeysTypeOK
    BY DEF KeysAgree
<1>1. CASE RegisterAgent(c, a)
    <2>1. Entry(a)' = "fresh"
        BY <1>0, <1>1, KeysAssumption, RecordTypes DEF RegisterAgent, Store, Entry, Listed, KeysTypeOK, NoRecord
    <2>2. Entries' = [Entries EXCEPT ![a] = "fresh"]
        BY <1>0, <1>1, <2>1, OneEntry DEF RegisterAgent, Store, KeysTypeOK
    <2>3. Atomic!RegisterAgent(a)
        BY <2>2 DEF Atomic!RegisterAgent, Entries, Entry
    <2> QED BY <2>3 DEF Atomic!RegistryNext
<1>2. CASE DeregisterAgent(c, a)
    <2>1. Entry(a)' = "absent"
        BY <1>0, <1>2 DEF DeregisterAgent, Entry, Listed
    <2>2. Entries' = [Entries EXCEPT ![a] = "absent"]
        BY <1>0, <1>2, <2>1, OneEntry DEF DeregisterAgent, KeysTypeOK
    <2>3. Atomic!DeregisterAgent(a)
        BY <2>2 DEF Atomic!DeregisterAgent, Entries, Entry
    <2> QED BY <2>3 DEF Atomic!RegistryNext
<1>3. CASE StoreCopy(c, a)
    <2>1. Listed(a) <=> a \in members
        BY <1>3 DEF KeysAgree, Listed
    <2>2. record'[a] # NoRecord /\ record'[a].seen = "fresh"
        BY <1>0, <1>3 DEF StoreCopy, Store, KeysTypeOK, NoRecord
    <2>3. Entry(a)' = IF Entry(a) = "absent" THEN "absent" ELSE "fresh"
        <3>1. Listed(a)' <=> Listed(a)
            BY <1>3, <2>1, <2>2 DEF StoreCopy, Listed
        <3>2. Listed(a) => Entry(a) # "absent"
            BY <1>0, RecordTypes DEF Entry, Listed
        <3> QED BY <2>2, <3>1, <3>2 DEF Entry
    <2>4. Entries' = [Entries EXCEPT ![a] = IF Entry(a) = "absent" THEN "absent" ELSE "fresh"]
        BY <1>0, <1>3, <2>3, OneEntry DEF StoreCopy, Store, KeysTypeOK
    <2>5. Atomic!RegistryHeartbeat(a)
        BY <2>4 DEF Atomic!RegistryHeartbeat, Entries, Entry
    <2> QED BY <2>5 DEF Atomic!RegistryNext
<1>4. CASE GetBeforeDeregister(c, a) \/ GetBeforeStore(c, a) \/ ListStale(c, a)
    BY <1>4, EntriesStutter DEF GetBeforeDeregister, GetBeforeStore, ListStale
<1> QED BY <1>1, <1>2, <1>3, <1>4 DEF Command

\* The passing of time is that of the registry if the agent is listed; a record
\* that nobody lists ages unseen.
LEMMA AgesRefine ==
    ASSUME KeysAgree, NEW a \in Agents, RecordAges(a)
    PROVE  Atomic!RegistryNext \/ UNCHANGED Entries
<1>0. KeysTypeOK /\ record[a] # NoRecord /\ record[a] \in Records
    BY RecordTypes DEF KeysAgree, RecordAges
<1>1. record'[a] # NoRecord /\ record'[a].seen = "stale"
    BY <1>0 DEF RecordAges, KeysTypeOK, Records, NoRecord
<1>2. Entry(a)' = IF a \in members THEN "stale" ELSE "absent"
    BY <1>1 DEF RecordAges, Entry, Listed
<1>3. Entries' = [Entries EXCEPT ![a] = IF a \in members THEN "stale" ELSE "absent"]
    BY <1>0, <1>2, OneEntry DEF RecordAges, KeysTypeOK
<1>4. CASE Entry(a) = "fresh"
    <2>1. a \in members
        BY <1>4 DEF Entry, Listed
    <2>2. Atomic!RecordAges(a)
        BY <1>3, <1>4, <2>1 DEF Atomic!RecordAges, Entries, Entry
    <2> QED BY <2>2 DEF Atomic!RegistryNext
<1>5. CASE Entry(a) # "fresh"
    <2>1. Entry(a) = IF a \in members THEN "stale" ELSE "absent"
        BY <1>0, <1>5 DEF Entry, Listed, Records
    <2> QED BY <1>3, <2>1 DEF Entries
<1> QED BY <1>4, <1>5

\* Every step is one of the registry or a stutter.
LEMMA StepsRefine == KeysAgree /\ [KeysNext]_keysVars => [Atomic!RegistryNext]_Entries
<1> SUFFICES ASSUME KeysAgree, [KeysNext]_keysVars PROVE Atomic!RegistryNext \/ UNCHANGED Entries
    OBVIOUS
<1>1. CASE \/ BeginOperation \/ UNCHANGED keysVars
           \/ \E c \in Callers : CallFails(c)
           \/ \E a \in Agents : StartProcess(a) \/ Crash(a) \/ StopProcess(a) \/ LoadChanges(a)
    BY <1>1, EntriesStutter
    DEF BeginOperation, keysVars, CallFails, StartProcess, Crash, StopProcess, LoadChanges
<1> QED BY <1>1, CommandsRefine, AgesRefine DEF KeysNext

-----------------------------------------------------------------------------
(* An agent is listed by itself *)

\* Nobody registers an agent but its own process.
RegistersItself == \A c \in Callers : \A a \in Agents : Doing(c, "register", a, "exec") => c = a

\* Only the start of a process begins a registration, its own; a step that moves
\* another operation on does not make it one.
LEMMA RegistersItselfStep == KeysAgree /\ RegistersItself /\ [KeysNext]_keysVars => RegistersItself'
<1> SUFFICES ASSUME KeysAgree, RegistersItself, [KeysNext]_keysVars, NEW c \in Callers, NEW a \in Agents,
                    Doing(c, "register", a, "exec")'
             PROVE  c = a
    BY DEF RegistersItself
<1>0. KeysTypeOK /\ call'[c] # NoCall /\ call'[c].op = "register" /\ call'[c].agent = a /\ call'[c].at = "exec"
    BY DEF KeysAgree, Doing
<1>1. CASE call'[c] = call[c]
    BY <1>0, <1>1 DEF RegistersItself, Doing
<1>2. ASSUME NEW b \in Agents, StartProcess(b) PROVE c = a \/ call'[c] = call[c]
    BY <1>0, <1>2 DEF StartProcess, Begin, KeysTypeOK
<1>3. ASSUME BeginOperation PROVE call'[c] = call[c]
    <2>1. PICK d \in Callers, b \in Agents, op \in Operations \ {"register"}, place \in {"list", "get", "exec"} :
            Begin(d, op, b, place)
        BY <1>3 DEF BeginOperation, UpdateAgentLoad, FailOver, CleanupStaleAgents, Heartbeat, Operations, Callers
    <2> QED BY <1>0, <2>1 DEF Begin, KeysTypeOK
<1>4. ASSUME NEW b \in Agents, StopProcess(b) PROVE call'[c] = call[c]
    BY <1>0, <1>4 DEF StopProcess, Begin, KeysTypeOK
<1>5. ASSUME NEW d \in Callers, CallFails(d) PROVE call'[c] = call[c]
    BY <1>0, <1>5 DEF CallFails, Return, KeysTypeOK
<1>6. ASSUME NEW b \in Agents, Crash(b) PROVE call'[c] = call[c]
    BY <1>0, <1>6 DEF Crash, Return, KeysTypeOK
<1>7. ASSUME NEW b \in Agents, LoadChanges(b) \/ RecordAges(b) PROVE call'[c] = call[c]
    BY <1>7 DEF LoadChanges, RecordAges
<1>8. ASSUME NEW d \in Callers, NEW b \in Agents, Command(d, b) PROVE call'[c] = call[c]
    <2>1. CASE RegisterAgent(d, b) \/ DeregisterAgent(d, b) \/ StoreCopy(d, b)
        BY <1>0, <2>1 DEF RegisterAgent, DeregisterAgent, StoreCopy, Return, KeysTypeOK
    <2>2. CASE GetBeforeDeregister(d, b) \/ GetBeforeStore(d, b) \/ ListStale(d, b)
        <3>1. call[d] # NoCall /\ call[d].op # "register"
            BY <2>2 DEF GetBeforeDeregister, GetBeforeStore, ListStale, Doing
        <3>2. call'[d] = NoCall \/ call'[d].op # "register"
            <4>1. call[d] \in [op : Operations, agent : Agents, at : {"list", "get", "exec"}, load : 0 .. MaxLoad]
                BY <1>0, <3>1, CallTypes
            <4>2. CASE GetBeforeDeregister(d, b)
                <5>1. call'[d] = NoCall \/ call'[d] = [call[d] EXCEPT !.at = "exec"]
                    BY <1>0, <4>2 DEF GetBeforeDeregister, KeysTypeOK
                <5> QED BY <3>1, <4>1, <5>1
            <4>3. CASE GetBeforeStore(d, b)
                <5> DEFINE figure == IF call[d].op = "heartbeat" THEN record[b].load ELSE call[d].load
                <5>1. call'[d] = NoCall \/ call'[d] = [call[d] EXCEPT !.at = "exec", !.load = figure]
                    BY <1>0, <4>3 DEF GetBeforeStore, KeysTypeOK
                <5> HIDE DEF figure
                <5> QED BY <3>1, <4>1, <5>1
            <4>4. CASE ListStale(d, b)
                <5>1. call'[d] = NoCall \/ call'[d] = [call[d] EXCEPT !.at = "get"]
                    BY <1>0, <4>4 DEF ListStale, KeysTypeOK
                <5> QED BY <3>1, <4>1, <5>1
            <4> QED BY <2>2, <4>2, <4>3, <4>4
        <3>3. d # c
            BY <1>0, <3>2
        <3> QED
            BY <1>0, <2>2, <3>3 DEF GetBeforeDeregister, GetBeforeStore, ListStale, KeysTypeOK
    <2> QED BY <1>8, <2>1, <2>2 DEF Command
<1>9. CASE UNCHANGED keysVars
    BY <1>1, <1>9 DEF keysVars
<1> QED BY <1>1, <1>2, <1>3, <1>4, <1>5, <1>6, <1>7, <1>8, <1>9 DEF KeysNext

\* A step that lists an agent registers it: the others leave the sets alone, and
\* an agent in the sets had a record.
LEMMA ListedByRegistration ==
    ASSUME KeysAgree, RegistersItself, [KeysNext]_keysVars
    PROVE  ListedByItself
<1> SUFFICES ASSUME NEW a \in Agents, ~Listed(a), Listed(a)'
             PROVE  Doing(a, "register", a, "exec")
    BY DEF ListedByItself
<1>0. a \notin members /\ a \in members'
    BY DEF KeysAgree, Listed
<1>1. PICK c \in Callers, b \in Agents : RegisterAgent(c, b)
    BY <1>0
    DEF KeysNext, keysVars, BeginOperation, CallFails, StartProcess, Crash, StopProcess, LoadChanges, RecordAges,
        Command, GetBeforeDeregister, DeregisterAgent, GetBeforeStore, StoreCopy, ListStale
<1>2. b = a /\ Doing(c, "register", a, "exec")
    BY <1>0, <1>1 DEF RegisterAgent
<1> QED BY <1>2 DEF RegistersItself

\* For any agents, the keys implement the registry whose operations are atomic,
\* and no late write lists an agent that was removed (redis.go).
THEOREM KeysRefineRegistry == KeysSpec => RefinesRegistry
<1>1. KeysInit => Atomic!RegistryInit
    BY DEF KeysInit, Atomic!RegistryInit, Listed
<1>2. KeysInit => RegistersItself
    BY DEF KeysInit, RegistersItself, Doing
<1>3. KeysAgree /\ [KeysNext]_keysVars
      => [Atomic!RegistryNext]_[a \in Agents |-> IF Listed(a) THEN record[a].seen ELSE "absent"]
    BY StepsRefine DEF Entries, Entry
<1>4. KeysAgree /\ RegistersItself /\ [KeysNext]_keysVars => [ListedByItself]_keysVars
    BY ListedByRegistration
<1> QED
    BY <1>1, <1>2, <1>3, <1>4, RegistersItselfStep, KeysAlwaysAgree, PTL
    DEF KeysSpec, RefinesRegistry, Atomic!RegistrySpec
=============================================================================

---------------------------- MODULE AgentProcess ----------------------------
(***************************************************************************)
(* The life of one agent's process: cmd/worker/main.go (the other mains    *)
(* have the same steps), Start and Stop of the agent and of BaseAgent, and *)
(* the goroutines they start: heartbeat, health check, the consumers of    *)
(* the Kafka client and the cleanup of the Redis registry. Close of the    *)
(* registry waits for the cleanup while it holds r.mu, which each of the   *)
(* cleanup's operations takes first.                                       *)
(*                                                                         *)
(* BaseAgent.Initialize is taken to have been called, as the tests do.     *)
(***************************************************************************)
EXTENDS KafkaClient

VARIABLES main,         \* where main is
          signalled,    \* SIGINT or SIGTERM has arrived
          stopResult,   \* of the agent's Stop
          base,         \* BaseAgent's state
          started,      \* BaseAgent's started flag
          heartbeat, health, cleanup,   \* the goroutines
          agentCtx,     \* a.ctx of the agent and of its BaseAgent are live
          registryLock  \* r.mu: held by Close, or free

processVars == <<main, signalled, stopResult, base, started, heartbeat, health, cleanup,
                 agentCtx, registryLock, clientVars>>

MainSteps == {"connect client", "connect registry", "start", "subscribe", "register", "running", "stop",
              "deregister", "stop base", "wait base", "close client", "wait client", "close registry",
              "wait registry", "ended"}
\* "locking" wants r.mu, "commanding" has released it and awaits Redis.
Goroutine == {"none", "idle", "locking", "commanding", "publishing", "beating", "ended"}

ProcessTypeOK ==
    /\ ClientTypeOK
    /\ main \in MainSteps
    /\ signalled \in BOOLEAN /\ started \in BOOLEAN
    /\ stopResult \in {"none", "clean", "timeout"}
    /\ base \in {"initialized", "running", "stopping", "stopped"}
    /\ heartbeat \in Goroutine /\ health \in Goroutine /\ cleanup \in Goroutine
    /\ agentCtx \in [{"agent", "base"} -> BOOLEAN]
    /\ registryLock \in {"free", "closing"}

ProcessInit ==
    /\ ClientInit
    /\ main = "connect client"
    /\ signalled = FALSE /\ stopResult = "none"
    /\ base = "initialized" /\ started = FALSE
    /\ heartbeat = "none" /\ health = "none" /\ cleanup = "none"
    /\ agentCtx = [c \in {"agent", "base"} |-> FALSE]
    /\ registryLock = "free"

Main(from, to) == main = from /\ main' = to

-----------------------------------------------------------------------------
ConnectClient ==
    /\ Main("connect client", "connect registry")
    /\ Connect
    /\ UNCHANGED <<signalled, stopResult, base, started, heartbeat, health, cleanup, agentCtx, registryLock>>

\* A registry that cannot be reached is a warning; its cleanup does not start.
ConnectRegistry ==
    /\ Main("connect registry", "start")
    /\ cleanup' \in {"none", "idle"}
    /\ UNCHANGED <<signalled, stopResult, base, started, heartbeat, health, agentCtx, registryLock, clientVars>>

StartBase ==
    /\ Main("start", "subscribe")
    /\ base' = "running" /\ started' = TRUE
    /\ health' = "idle"
    /\ agentCtx' = [c \in {"agent", "base"} |-> TRUE]
    /\ UNCHANGED <<signalled, stopResult, heartbeat, cleanup, registryLock, clientVars>>

SubscribeTopic(t) ==
    /\ main = "subscribe" /\ t \in Topics \ readers
    /\ Subscribe(t)
    /\ main' = IF Topics \subseteq readers' THEN "register" ELSE main
    /\ UNCHANGED <<connected, clientLock, cancelled, requester, replies, replyChan>>
    /\ UNCHANGED <<signalled, stopResult, base, started, heartbeat, health, cleanup, agentCtx, registryLock>>

Register ==
    /\ cleanup # "none"
    /\ Main("register", "running")
    /\ heartbeat' = "idle"
    /\ UNCHANGED <<signalled, stopResult, base, started, health, cleanup, agentCtx, registryLock, clientVars>>

\* os.Exit(1): the goroutines end with the process.
RegisterFails ==
    /\ Main("register", "ended")
    /\ heartbeat' = "ended" /\ health' = "ended" /\ cleanup' = "ended"
    /\ agentCtx' = [c \in {"agent", "base"} |-> FALSE]
    /\ consumer' = [t \in Subscribable |-> "ended"]
    /\ requester' = "done"
    /\ UNCHANGED <<signalled, stopResult, base, started, registryLock,
                   connected, clientLock, cancelled, readers, replies, replyChan>>

Signal ==
    /\ main = "running" /\ ~signalled
    /\ signalled' = TRUE
    /\ UNCHANGED <<main, stopResult, base, started, heartbeat, health, cleanup, agentCtx, registryLock, clientVars>>

-----------------------------------------------------------------------------
\* Agent.Stop: cancels, then waits for its goroutines.
StopAgent ==
    /\ signalled
    /\ Main("running", "stop")
    /\ agentCtx' = [agentCtx EXCEPT !["agent"] = FALSE]
    /\ UNCHANGED <<signalled, stopResult, base, started, heartbeat, health, cleanup, registryLock, clientVars>>

AgentStopped ==
    /\ heartbeat = "ended"
    /\ Main("stop", "deregister")
    /\ UNCHANGED <<signalled, stopResult, base, started, heartbeat, health, cleanup, agentCtx, registryLock, clientVars>>

\* After 30 s Stop returns, with the agent registered and BaseAgent running.
StopTimesOut ==
    /\ Main("stop", "close client") \/ Main("wait base", "close client")
    /\ stopResult' = "timeout"
    /\ UNCHANGED <<signalled, base, started, heartbeat, health, cleanup, agentCtx, registryLock, clientVars>>

Deregister ==
    /\ Main("deregister", "stop base")
    /\ UNCHANGED <<signalled, stopResult, base, started, heartbeat, health, cleanup, agentCtx, registryLock, clientVars>>

StopBase ==
    /\ Main("stop base", "wait base")
    /\ base' = "stopping"
    /\ agentCtx' = [agentCtx EXCEPT !["base"] = FALSE]
    /\ UNCHANGED <<signalled, stopResult, started, heartbeat, health, cleanup, registryLock, clientVars>>

BaseStopped ==
    /\ health = "ended"
    /\ Main("wait base", "close client")
    /\ base' = "stopped" /\ started' = FALSE
    /\ stopResult' = "clean"
    /\ UNCHANGED <<signalled, heartbeat, health, cleanup, agentCtx, registryLock, clientVars>>

CloseClient ==
    /\ Main("close client", "wait client")
    /\ CloseBegins
    /\ UNCHANGED <<signalled, stopResult, base, started, heartbeat, health, cleanup, agentCtx, registryLock>>

ClientClosed ==
    /\ Main("wait client", "close registry")
    /\ CloseEnds
    /\ UNCHANGED <<signalled, stopResult, base, started, heartbeat, health, cleanup, agentCtx, registryLock>>

CloseRegistry ==
    /\ Main("close registry", "wait registry")
    /\ registryLock' = "closing"
    /\ UNCHANGED <<signalled, stopResult, base, started, heartbeat, health, cleanup, agentCtx, clientVars>>

RegistryClosed ==
    /\ cleanup \in {"none", "ended"}
    /\ Main("wait registry", "ended")
    /\ registryLock' = "free"
    /\ UNCHANGED <<signalled, stopResult, base, started, heartbeat, health, cleanup, agentCtx, clientVars>>

MainStep ==
    \/ ConnectClient \/ ConnectRegistry \/ StartBase \/ Register \/ RegisterFails
    \/ \E t \in Topics : SubscribeTopic(t)
    \/ StopAgent \/ AgentStopped \/ StopTimesOut \/ Deregister \/ StopBase \/ BaseStopped
    \/ CloseClient \/ ClientClosed \/ CloseRegistry \/ RegistryClosed

-----------------------------------------------------------------------------
OnlyHeartbeat == UNCHANGED <<main, signalled, stopResult, base, started, health, cleanup, agentCtx, registryLock, clientVars>>

\* A tick: UpdateAgentLoad, PublishAsync, Heartbeat; then the next turn of the loop.
HeartbeatStep ==
    /\ \/ heartbeat = "idle" /\ agentCtx["agent"] /\ heartbeat' = "locking"
       \/ heartbeat = "locking" /\ registryLock = "free" /\ heartbeat' = "publishing"
       \/ heartbeat = "publishing" /\ clientLock = "free" /\ heartbeat' = "beating"
       \/ heartbeat = "beating" /\ registryLock = "free" /\ heartbeat' = "idle"
    /\ OnlyHeartbeat

HeartbeatEnds ==
    /\ heartbeat = "idle" /\ ~agentCtx["agent"]
    /\ heartbeat' = "ended"
    /\ OnlyHeartbeat

\* performHealthCheck does nothing others see.
HealthCheckEnds ==
    /\ health = "idle" /\ ~agentCtx["base"]
    /\ health' = "ended"
    /\ UNCHANGED <<main, signalled, stopResult, base, started, heartbeat, cleanup, agentCtx, registryLock, clientVars>>

OnlyCleanup == UNCHANGED <<main, signalled, stopResult, base, started, heartbeat, health, agentCtx, registryLock, clientVars>>

\* r.ctx is cancelled once Close has begun.
CleanupTick == cleanup = "idle" /\ main # "ended" /\ cleanup' = "locking" /\ OnlyCleanup

CleanupStep ==
    /\ \/ cleanup = "locking" /\ registryLock = "free" /\ cleanup' = "commanding"
       \/ cleanup = "commanding" /\ cleanup' \in {"locking", "idle"}
    /\ OnlyCleanup

CleanupEnds ==
    /\ cleanup = "idle" /\ registryLock = "closing"
    /\ cleanup' = "ended"
    /\ OnlyCleanup

\* HandleMessage: refused unless BaseAgent runs; some handlers publish.
HandleMessage(t) ==
    /\ \/ Consumer(t, "handling", "looping")
       \/ base = "running" /\ t \in Publishing /\ Consumer(t, "handling", "publishing")
    /\ UNCHANGED <<connected, clientLock, cancelled, readers, requester, replies, replyChan>>

ClientStep ==
    /\ \/ \E t \in Topics : HandleMessage(t)
       \/ \E t \in Subscribable : ConsumerStep(t)
       \/ ReplyStep \/ RequesterStep
       \/ main \notin {"connect client", "ended"} /\ RequestReply
    /\ UNCHANGED <<main, signalled, stopResult, base, started, heartbeat, health, cleanup, agentCtx, registryLock>>

ProcessNext ==
    \/ Signal \/ MainStep \/ ClientStep
    \/ HeartbeatStep \/ HeartbeatEnds \/ HealthCheckEnds
    \/ CleanupTick \/ CleanupStep \/ CleanupEnds

ProcessSpec == ProcessInit /\ [][ProcessNext]_processVars

OfClient(A) == A /\ UNCHANGED <<main, signalled, stopResult, base, started, heartbeat, health, cleanup,
                                agentCtx, registryLock>>

\* Goroutines go on unless they are blocked; messages and the cleanup's ticks
\* need not come. The clean-up's list of stale agents is finite. Whether main ever
\* runs is left open.
ProcessFairness ==
    /\ WF_processVars(main # "connect client" /\ MainStep)
    /\ WF_processVars(HeartbeatStep) /\ WF_processVars(HeartbeatEnds) /\ WF_processVars(HealthCheckEnds)
    /\ WF_processVars(CleanupStep)
    /\ SF_processVars(cleanup = "commanding" /\ CleanupStep /\ cleanup' = "idle")
    /\ SF_processVars(CleanupEnds)
    /\ WF_processVars(OfClient(RequesterStep))
    /\ WF_processVars(OfClient(ReplyStep))
    /\ \A t \in Subscribable : WF_processVars(OfClient(ConsumerStep(t)))
    /\ \A t \in Topics : WF_processVars(OfClient(HandleMessage(t)))

FairProcessSpec == ProcessSpec /\ ProcessFairness

-----------------------------------------------------------------------------
RegistryCloseIsStuck == registryLock = "closing" /\ cleanup = "locking"

\* A Stop that returns without an error leaves nothing behind: when the record is
\* removed no heartbeat of this process can be under way, and afterwards the
\* health check has ended too and the agent can be started again.
StoppedIsQuiet ==
    /\ ProcessTypeOK
    /\ main \in {"deregister", "stop base", "wait base"} => heartbeat = "ended"
    /\ stopResult = "clean" => heartbeat = "ended" /\ health = "ended" /\ base = "stopped" /\ ~started

\* After a signal the process ends, but for the two deadlocks of a Close that
\* waits, under its mutex, for a goroutine that wants that mutex, and for the
\* reply handler blocked on a full channel; and whatever Stop leaves is quiet.
ShutdownEndsOrIsStuck ==
    /\ []StoppedIsQuiet
    /\ signalled ~> (main = "ended" \/ CloseIsStuck \/ RegistryCloseIsStuck)

\* cmd/coordination/main.go:89 "Graceful shutdown with timeout":
\* after a signal the process ends.
ShutdownEnds == signalled ~> main = "ended"
=============================================================================

---------------------- MODULE ParallelExecutionProofs ----------------------
(***************************************************************************)
(* Proofs about the parallel executor and the sub-agent manager, for any   *)
(* requests, graphs and bounds.                                            *)
(*                                                                         *)
(* The invariant ties three things together for each request: how far the  *)
(* goroutine that executes its sub-agent has come, what the status and the *)
(* list of sub-agents show of it, and what the goroutine that waits for it *)
(* has concluded. A step of the manager only moves an execution forward,   *)
(* so that a conclusion once drawn stays true (ManagerForward).            *)
(***************************************************************************)
EXTENDS ParallelExecution, FiniteSetTheorems, TLAPS

\* What the manager's tables show of a sub-agent agrees with its execution.
ExecutionOK(a) ==
    /\ status[a] \in {"completed", "failed"} => Ended(a)
    /\ status[a] = "cancelled" => a \in cancelled
    /\ a \notin listed => spawns[a] = 0 \/ a \in cancelled \/ Ended(a)
    /\ spawns[a] = 0 => at[a] = "idle"
    /\ at[a] \in {"ready", "attempt", "backoff"} => attempts[a] <= MaxRetries

\* Who waits for a request has concluded nothing wrong.
CallerOK(a) ==
    /\ spawns[a] <= 1
    /\ caller[a] = "idle" => spawns[a] = 0
    /\ caller[a] \in {"waiting", "returned"} => phase = "wave" /\ a \in wave /\ spawns[a] = 1
    /\ caller[a] = "returned" => a \in cancelled \/ Ended(a)
    /\ caller[a] = "reported" => a \in completed \cup failed
    /\ a \in completed =>
         caller[a] = "reported" /\ (a \in cancelled \/ (Ended(a) /\ outcome[a] # "failure"))
    /\ a \in failed =>
         /\ caller[a] = "reported"
         /\ ctxDone \/ a \notin listed \/ a \in cancelled \/ (Ended(a) /\ outcome[a] = "failure")
    /\ Executing(a) => a \in cancelled \/ ctxDone \/ caller[a] = "waiting"

\* The waves follow the graph.
WavesOK ==
    /\ completed \cap failed = {}
    /\ graph # NoGraph => \A a \in Agents : a \in wave \/ spawns[a] > 0 => graph[a] \subseteq completed
    /\ phase = "choose" => failed = {}
    /\ phase = "choose" /\ graph = NoGraph => \A a \in Agents : caller[a] = "idle"

PoolOK == graph = NoGraph => Cardinality(Busy) <= MaxWorkers

ExecutionInv ==
    /\ TypeOK
    /\ \A a \in Agents : ExecutionOK(a) /\ CallerOK(a)
    /\ WavesOK

-----------------------------------------------------------------------------
(* The manager's steps *)

\* The updates of a trust record keep its type.
LEMMA RecordTypes ==
    ASSUME NEW r \in TrustRecord
    PROVE  /\ Succeeded(r) \in TrustRecord
           /\ Failed(r) \in TrustRecord
           /\ r.level > 0 => Demoted(r) \in TrustRecord
           /\ r.level < 2 => Promoted(r) \in TrustRecord
           /\ r.level < 2 => [Promoted(r) EXCEPT !.known = TRUE] \in TrustRecord
           /\ [r EXCEPT !.overridden = TRUE, !.consecutive = 0] \in TrustRecord
           /\ Judged(r) \in TrustRecord
<1>1. Succeeded(r) \in TrustRecord
    <2> DEFINE p == [r EXCEPT !.known = TRUE]
               q == [p EXCEPT !.consecutive = @ + 1]
    <2>1. p \in TrustRecord
        BY DEF TrustRecord
    <2> HIDE DEF p
    <2>2. q \in TrustRecord
        BY <2>1 DEF TrustRecord
    <2> HIDE DEF q
    <2>3. [q EXCEPT !.successes = @ + 1] \in TrustRecord
        BY <2>2 DEF TrustRecord
    <2>4. Succeeded(r) = [q EXCEPT !.successes = @ + 1]
        BY DEF TrustRecord, Succeeded, p, q
    <2> QED BY <2>3, <2>4
<1>2. Failed(r) \in TrustRecord
    <2> DEFINE p == [r EXCEPT !.known = TRUE]
               q == [p EXCEPT !.consecutive = 0]
    <2>1. p \in TrustRecord
        BY DEF TrustRecord
    <2> HIDE DEF p
    <2>2. q \in TrustRecord
        BY <2>1 DEF TrustRecord
    <2> HIDE DEF q
    <2>3. [q EXCEPT !.failures = @ + 1] \in TrustRecord
        BY <2>2 DEF TrustRecord
    <2>4. Failed(r) = [q EXCEPT !.failures = @ + 1]
        BY DEF TrustRecord, Failed, p, q
    <2> QED BY <2>3, <2>4
<1>3. r.level > 0 => Demoted(r) \in TrustRecord
    BY DEF TrustRecord, Demoted
<1>4. r.level < 2 => Promoted(r) \in TrustRecord
    BY DEF TrustRecord, Promoted
<1>5. r.level < 2 => [Promoted(r) EXCEPT !.known = TRUE] \in TrustRecord
    <2> SUFFICES ASSUME r.level < 2 PROVE [Promoted(r) EXCEPT !.known = TRUE] \in TrustRecord
        OBVIOUS
    <2> DEFINE p == Promoted(r)
    <2>1. p \in TrustRecord
        BY <1>4
    <2> HIDE DEF p
    <2>2. [p EXCEPT !.known = TRUE] \in TrustRecord
        BY <2>1 DEF TrustRecord
    <2> QED BY <2>2 DEF p
<1>6. [r EXCEPT !.overridden = TRUE, !.consecutive = 0] \in TrustRecord
    BY DEF TrustRecord
<1>7. Judged(r) \in TrustRecord
    <2>1. r.level \in 0 .. 2
        BY DEF TrustRecord
    <2> QED BY <1>3, <1>4, <2>1 DEF Judged
<1> QED BY <1>1, <1>2, <1>3, <1>4, <1>5, <1>6, <1>7

\* Every step of the manager keeps the types.
LEMMA TypesOfManager ==
    ASSUME ManagerAssumption, ManagerTypeOK, ManagerStep,
           \A a \in Agents : at[a] \in {"ready", "attempt", "backoff"} => attempts[a] <= MaxRetries
    PROVE  ManagerTypeOK'
<1> USE DEF ManagerTypeOK, executionVars, cancelVars, trustVars, managerVars, Terminal, Cancellable
<1> MaxRetries \in Nat /\ MaxInterventions \in Nat /\ AgentType \in [Agents -> Types]
    BY DEF ManagerAssumption
<1>1. ASSUME NEW a \in Agents, BeginExecution(a) PROVE ManagerTypeOK'
    BY <1>1 DEF BeginExecution, Goes
<1>2. ASSUME NEW a \in Agents, NEW r \in Outcomes, Try(a, r, attempts[a] = MaxRetries) PROVE ManagerTypeOK'
    <2>1. at[a] = "attempt" /\ attempts[a] + 1 \in 0 .. MaxRetries + 1
        BY <1>2 DEF Try, Goes
    <2>2. attempts' \in [Agents -> 0 .. MaxRetries + 1]
        BY <1>2, <2>1 DEF Try
    <2>3. at' \in [Agents -> {"idle", "ready", "attempt", "backoff", "store", "settle",
                              "record", "promote", "done"}]
        BY <1>2 DEF Try, Goes
    <2>4. outcome' \in [Agents -> Outcomes \cup {"none"}]
        BY <1>2 DEF Try
    <2> QED BY <1>2, <2>2, <2>3, <2>4 DEF Try
<1>3. ASSUME NEW a \in Agents, BackoffEnds(a) PROVE ManagerTypeOK'
    BY <1>3 DEF BackoffEnds, Goes
<1>4. ASSUME NEW a \in Agents, StoreResult(a) PROVE ManagerTypeOK'
    BY <1>4 DEF StoreResult, Goes
<1>5. ASSUME NEW a \in Agents, SetFinalStatus(a) PROVE ManagerTypeOK'
    BY <1>5 DEF SetFinalStatus, Goes
<1>6. ASSUME NEW a \in Agents, RecordExecution(a) PROVE ManagerTypeOK'
    <2> DEFINE t == AgentType[a]
    <2>1. t \in Types /\ trustTracker[t] \in TrustRecord
        OBVIOUS
    <2>2. Succeeded(trustTracker[t]) \in TrustRecord /\ Failed(trustTracker[t]) \in TrustRecord
        BY <2>1, RecordTypes
    <2>3. trustTracker' \in [Types -> TrustRecord]
        BY <1>6, <2>1, <2>2 DEF RecordExecution
    <2> QED BY <1>6, <2>3 DEF RecordExecution, Goes
<1>7. ASSUME NEW a \in Agents, CheckPromotion(a) PROVE ManagerTypeOK'
    <2> DEFINE t == AgentType[a]
    <2>1. t \in Types /\ trustTracker[t] \in TrustRecord
        OBVIOUS
    <2>2. Judged(trustTracker[t]) \in TrustRecord
        BY <2>1, RecordTypes
    <2>3. trustTracker' \in [Types -> TrustRecord]
        BY <1>7, <2>1, <2>2 DEF CheckPromotion
    <2> QED BY <1>7, <2>3 DEF CheckPromotion, Goes
<1>8. ASSUME NEW a \in Agents, CancelAccepts(a) \/ CancelApplies(a) \/ Cleanup(a) PROVE ManagerTypeOK'
    BY <1>8 DEF CancelAccepts, CancelApplies, Cleanup
<1>9. ASSUME NEW t \in Types, NEW record \in TrustRecord, NEW n \in Nat, Intervene(t, record, n)
      PROVE  ManagerTypeOK'
    BY <1>9 DEF Intervene
<1>10. ASSUME NEW t \in Types, RecordUserOverride(t) \/ Demote(t) \/ Promote(t) PROVE ManagerTypeOK'
    <2>1. trustTracker[t] \in TrustRecord
        OBVIOUS
    <2> QED BY <1>9, <1>10, <2>1, RecordTypes DEF RecordUserOverride, Demote, Promote
<1> QED
    BY <1>1, <1>2, <1>3, <1>4, <1>5, <1>6, <1>7, <1>8, <1>10 DEF ManagerStep, Execute, Attempt

\* Which fields of a sub-agent a step of the manager may change, and how: its
\* execution goes forward, and a cancellation or a removal is never taken back.
LEMMA ManagerForward ==
    ASSUME ManagerAssumption, ManagerTypeOK, ManagerStep, NEW a \in Agents
    PROVE  /\ Ended(a) => Ended(a)' /\ outcome'[a] = outcome[a]
           /\ Executing(a)' => Executing(a)
           /\ at[a] = "idle" => at'[a] = "idle"
           /\ cancelled \subseteq cancelled'
           /\ listed' \subseteq listed
<1> USE DEF ManagerTypeOK, Ended, Executing, executionVars, cancelVars, trustVars
<1>1. ASSUME NEW x \in Agents, Execute(x)
      PROVE  /\ listed' = listed /\ cancelled' = cancelled
             /\ Ended(a) => Ended(a)' /\ outcome'[a] = outcome[a]
             /\ Executing(a)' => Executing(a)
             /\ at[a] = "idle" => at'[a] = "idle"
    <2>1. CASE BeginExecution(x)
        BY <2>1 DEF BeginExecution, Goes
    <2>2. CASE Attempt(x)
        BY <2>2 DEF Attempt, Try, Goes
    <2>3. CASE BackoffEnds(x)
        BY <2>3 DEF BackoffEnds, Goes
    <2>4. CASE StoreResult(x)
        BY <2>4 DEF StoreResult, Goes
    <2>5. CASE SetFinalStatus(x)
        BY <2>5 DEF SetFinalStatus, Goes
    <2>6. CASE RecordExecution(x)
        BY <2>6 DEF RecordExecution, Goes
    <2>7. CASE CheckPromotion(x)
        BY <2>7 DEF CheckPromotion, Goes
    <2> QED BY <1>1, <2>1, <2>2, <2>3, <2>4, <2>5, <2>6, <2>7 DEF Execute
<1>2. ASSUME NEW x \in Agents, CancelAccepts(x) \/ CancelApplies(x) \/ Cleanup(x)
      PROVE  /\ at' = at /\ outcome' = outcome
             /\ cancelled \subseteq cancelled' /\ listed' \subseteq listed
    BY <1>2 DEF CancelAccepts, CancelApplies, Cleanup
<1>3. ASSUME NEW t \in Types, RecordUserOverride(t) \/ Demote(t) \/ Promote(t)
      PROVE  at' = at /\ outcome' = outcome /\ cancelled' = cancelled /\ listed' = listed
    BY <1>3 DEF RecordUserOverride, Demote, Promote, Intervene
<1> QED BY <1>1, <1>2, <1>3 DEF ManagerStep

\* The status and the list go on to agree with the executions.
LEMMA ManagerKeepsExecutionOK ==
    ASSUME ManagerAssumption, ManagerTypeOK, ManagerStep, spawns' = spawns,
           NEW a \in Agents, ExecutionOK(a), spawns[a] \in Nat
    PROVE  ExecutionOK(a)'
<1> USE DEF ManagerTypeOK, ExecutionOK, Ended, executionVars, cancelVars, trustVars
<1> MaxRetries \in Nat
    BY DEF ManagerAssumption
<1>1. ASSUME NEW x \in Agents, BeginExecution(x) PROVE ExecutionOK(a)'
    BY <1>1 DEF BeginExecution, Goes
<1>2. ASSUME NEW x \in Agents, NEW r \in Outcomes, Try(x, r, attempts[x] = MaxRetries)
      PROVE  ExecutionOK(a)'
    <2>1. CASE x = a
        BY <1>2, <2>1 DEF Try, Goes
    <2>2. CASE x # a
        BY <1>2, <2>2 DEF Try, Goes
    <2> QED BY <2>1, <2>2
<1>3. ASSUME NEW x \in Agents, BackoffEnds(x) PROVE ExecutionOK(a)'
    BY <1>3 DEF BackoffEnds, Goes
<1>4. ASSUME NEW x \in Agents, StoreResult(x) PROVE ExecutionOK(a)'
    BY <1>4 DEF StoreResult, Goes
<1>5. ASSUME NEW x \in Agents, SetFinalStatus(x) PROVE ExecutionOK(a)'
    BY <1>5 DEF SetFinalStatus, Goes
<1>6. ASSUME NEW x \in Agents, RecordExecution(x) PROVE ExecutionOK(a)'
    BY <1>6 DEF RecordExecution, Goes
<1>7. ASSUME NEW x \in Agents, CheckPromotion(x) PROVE ExecutionOK(a)'
    BY <1>7 DEF CheckPromotion, Goes
<1>8. ASSUME NEW x \in Agents, CancelAccepts(x) \/ CancelApplies(x) \/ Cleanup(x)
      PROVE  ExecutionOK(a)'
    BY <1>8 DEF CancelAccepts, CancelApplies, Cleanup, Terminal
<1>9. ASSUME NEW t \in Types, RecordUserOverride(t) \/ Demote(t) \/ Promote(t)
      PROVE  ExecutionOK(a)'
    BY <1>9 DEF RecordUserOverride, Demote, Promote, Intervene
<1> QED
    BY <1>1, <1>2, <1>3, <1>4, <1>5, <1>6, <1>7, <1>8, <1>9 DEF ManagerStep, Execute, Attempt

\* What the waiting goroutines have concluded stays true.
LEMMA ManagerKeepsCallers ==
    ASSUME ManagerAssumption, ExecutionInv, ManagerStep, UNCHANGED executorVars
    PROVE  ExecutionInv'
<1> USE DEF ExecutionInv
<1>1. ManagerTypeOK'
    BY TypesOfManager DEF TypeOK, ExecutionOK
<1>2. TypeOK'
    BY <1>1 DEF TypeOK, executorVars
<1>3. ASSUME NEW a \in Agents PROVE ExecutionOK(a)'
    BY ManagerKeepsExecutionOK DEF TypeOK, executorVars
<1>4. ASSUME NEW a \in Agents PROVE CallerOK(a)'
    <2>1. /\ Ended(a) => Ended(a)' /\ outcome'[a] = outcome[a]
          /\ Executing(a)' => Executing(a)
          /\ cancelled \subseteq cancelled'
          /\ listed' \subseteq listed
        BY ManagerForward DEF TypeOK
    <2>2. CallerOK(a)
        OBVIOUS
    <2> HIDE DEF ExecutionInv
    <2> QED BY <2>1, <2>2 DEF CallerOK, executorVars
<1>5. WavesOK'
    BY DEF WavesOK, executorVars
<1> QED BY <1>2, <1>3, <1>4, <1>5

-----------------------------------------------------------------------------
(* The executor's steps *)

\* A request is spawned at most once, and only with its dependencies done.
LEMMA SpawnKeepsInv ==
    ASSUME ManagerAssumption, ExecutorAssumption, ExecutionInv,
           NEW x \in Agents, SpawnAndWait(x)
    PROVE  ExecutionInv'
<1> USE DEF ExecutionInv
<1> MaxRetries \in Nat
    BY DEF ManagerAssumption
<1>1. /\ phase = "wave" /\ x \in wave /\ caller[x] = "idle" /\ spawns[x] = 0
      /\ x \notin completed /\ x \notin failed
    BY DEF SpawnAndWait, Reached, CallerOK
<1>2. TypeOK'
    <2>1. ManagerTypeOK'
        BY DEF SpawnAndWait, Spawn, TypeOK, ManagerTypeOK, cancelVars, trustVars, Cancellable
    <2> QED BY <2>1 DEF SpawnAndWait, TypeOK
<1>3. ASSUME NEW a \in Agents PROVE ExecutionOK(a)' /\ CallerOK(a)'
    <2>1. ExecutionOK(a) /\ CallerOK(a)
        OBVIOUS
    <2>2. CASE a = x
        BY <1>1, <2>1, <2>2
        DEF SpawnAndWait, Spawn, TypeOK, ManagerTypeOK, ExecutionOK, CallerOK, Ended, Executing,
            cancelVars, trustVars
    <2>3. CASE a # x
        BY <2>1, <2>3
        DEF SpawnAndWait, Spawn, TypeOK, ManagerTypeOK, ExecutionOK, CallerOK, Ended, Executing,
            cancelVars, trustVars
    <2> QED BY <2>2, <2>3
<1>4. WavesOK'
    BY <1>1 DEF SpawnAndWait, WavesOK, TypeOK
<1> QED BY <1>2, <1>3, <1>4

\* A failure is reported for a reason that lasts.
LEMMA ReportFailedKeepsInv ==
    ASSUME ExecutionInv, NEW x \in Agents, ReportFailed(x), phase = "wave", x \notin completed,
           Executing(x) => x \in cancelled \/ ctxDone,
           ctxDone \/ x \notin listed \/ x \in cancelled \/ (Ended(x) /\ outcome[x] = "failure")
    PROVE  ExecutionInv'
<1> USE DEF ExecutionInv
<1>1. TypeOK'
    BY DEF ReportFailed, TypeOK, ManagerTypeOK, managerVars, executionVars, cancelVars, trustVars
<1>2. ASSUME NEW a \in Agents PROVE ExecutionOK(a)' /\ CallerOK(a)'
    BY DEF ReportFailed, TypeOK, ExecutionOK, CallerOK, Ended, Executing,
           managerVars, executionVars, cancelVars, trustVars
<1>3. WavesOK'
    BY DEF ReportFailed, WavesOK
<1> QED BY <1>1, <1>2, <1>3

\* Once Wait has seen an end, the execution is over or was cancelled.
LEMMA ServeKeepsInv ==
    ASSUME ManagerAssumption, ExecutorAssumption, ExecutionInv, NEW x \in Agents, Serve(x)
    PROVE  ExecutionInv'
<1> USE DEF ExecutionInv
<1> ExecutionOK(x) /\ CallerOK(x) /\ caller[x] \in {"idle", "waiting", "returned", "reported"}
    BY DEF TypeOK
<1>1. CASE SpawnAndWait(x)
    BY <1>1, SpawnKeepsInv
<1>2. CASE SkipRequest(x)
    <2>1. x \notin completed
        BY <1>2 DEF SkipRequest, Reached, CallerOK
    <2> QED BY <1>2, <2>1, ReportFailedKeepsInv DEF SkipRequest, Reached
<1>3. CASE SpawnAndWaitFails(x)
    <2>1. caller[x] = "waiting" /\ x \notin completed /\ phase = "wave" /\ spawns[x] = 1
        BY <1>3 DEF SpawnAndWaitFails, CallerOK
    <2>2. ctxDone \/ x \notin listed
        BY <1>3 DEF SpawnAndWaitFails, WaitFails
    <2>3. Executing(x) => x \in cancelled \/ ctxDone
        BY <2>1, <2>2 DEF ExecutionOK, Ended, Executing
    <2> QED BY <1>3, <2>1, <2>2, <2>3, ReportFailedKeepsInv DEF SpawnAndWaitFails
<1>4. CASE SpawnAndWaitReturns(x)
    <2>1. x \in cancelled \/ Ended(x)
        BY <1>4 DEF SpawnAndWaitReturns, WaitReturns, ExecutionOK, Terminal
    <2>2. TypeOK'
        BY <1>4 DEF SpawnAndWaitReturns, TypeOK, ManagerTypeOK, managerVars, executionVars,
                    cancelVars, trustVars
    <2>3. ASSUME NEW a \in Agents PROVE ExecutionOK(a)' /\ CallerOK(a)'
        BY <1>4, <2>1 DEF SpawnAndWaitReturns, TypeOK, ExecutionOK, CallerOK, Ended, Executing,
                          managerVars, executionVars, cancelVars, trustVars
    <2>4. WavesOK'
        BY <1>4 DEF SpawnAndWaitReturns, WavesOK, TypeOK
    <2> QED BY <2>2, <2>3, <2>4
<1>5. CASE Collect(x)
    <2>1. /\ caller[x] = "returned" /\ x \notin completed /\ x \notin failed /\ phase = "wave"
          /\ x \in cancelled \/ Ended(x)
        BY <1>5 DEF Collect, CallerOK
    <2>2. ~Executing(x) \/ x \in cancelled
        BY <2>1 DEF Ended, Executing
    <2>3. CASE Result(x) = "failure" /\ ReportFailed(x)
        <3>1. x \in cancelled \/ (Ended(x) /\ outcome[x] = "failure")
            BY <2>1, <2>3 DEF Result
        <3> QED BY <2>1, <2>2, <2>3, <3>1, ReportFailedKeepsInv
    <2>4. CASE Result(x) # "failure" /\ ~(Result(x) = "failure" /\ ReportFailed(x))
        <3>1. x \in cancelled \/ (Ended(x) /\ outcome[x] # "failure")
            BY <2>1, <2>4 DEF Result, Ended
        <3>2. TypeOK'
            BY <1>5, <2>4 DEF Collect, TypeOK, ManagerTypeOK, managerVars, executionVars,
                              cancelVars, trustVars
        <3>3. ASSUME NEW a \in Agents PROVE ExecutionOK(a)' /\ CallerOK(a)'
            BY <1>5, <2>1, <2>2, <2>4, <3>1
            DEF Collect, TypeOK, ExecutionOK, CallerOK, Ended, Executing, managerVars,
                executionVars, cancelVars, trustVars
        <3>4. WavesOK'
            BY <1>5, <2>1, <2>4 DEF Collect, WavesOK, TypeOK
        <3> QED BY <3>2, <3>3, <3>4
    <2> QED BY <1>5, <2>3, <2>4 DEF Collect
<1> QED BY <1>1, <1>2, <1>3, <1>4, <1>5 DEF Serve

\* A wave takes nodes nobody has been asked for yet.
LEMMA StartWaveKeepsInv ==
    ASSUME ManagerAssumption, ExecutorAssumption, ExecutionInv, StartWave
    PROVE  ExecutionInv' /\ \A a \in wave' : caller'[a] = "idle"
<1> USE DEF ExecutionInv
<1>1. /\ phase = "choose" /\ wave' = NextWave /\ NextWave \subseteq Agents
      /\ phase' \in {"wave", "ended"} /\ failed = {}
    BY DEF StartWave, NextWave, GetReady, WavesOK
<1>2. ASSUME NEW a \in NextWave PROVE caller[a] = "idle"
    <2>1. a \in Agents /\ CallerOK(a)
        BY <1>1
    <2>2. CASE graph = NoGraph
        BY <1>1, <2>1, <2>2 DEF WavesOK
    <2>3. CASE graph # NoGraph
        <3>1. a \notin completed
            BY <2>3 DEF NextWave, GetReady
        <3>2. caller[a] \in {"idle", "waiting", "returned", "reported"}
            BY <2>1 DEF TypeOK
        <3> QED BY <1>1, <2>1, <3>1, <3>2 DEF CallerOK
    <2> QED BY <2>2, <2>3
<1>3. caller' = caller
    BY <1>2 DEF StartWave, TypeOK
<1>4. UNCHANGED <<managerVars, graph, completed, failed, ctxDone, spawns>>
    BY DEF StartWave
<1>5. \A a \in NextWave : graph # NoGraph => graph[a] \subseteq completed
    BY DEF NextWave, GetReady
<1>6. TypeOK'
    BY <1>1, <1>3, <1>4 DEF TypeOK, ManagerTypeOK, managerVars, executionVars, cancelVars, trustVars
<1>7. ASSUME NEW a \in Agents PROVE ExecutionOK(a)' /\ CallerOK(a)'
    BY <1>1, <1>3, <1>4 DEF TypeOK, ExecutionOK, CallerOK, Ended, Executing, managerVars,
                            executionVars, cancelVars, trustVars
<1>8. WavesOK'
    BY <1>1, <1>4, <1>5 DEF WavesOK, TypeOK
<1> QED BY <1>1, <1>2, <1>3, <1>6, <1>7, <1>8

\* The end of a wave leaves no goroutine waiting, and another wave follows only
\* when nothing has failed.
LEMMA EndWaveKeepsInv ==
    ASSUME ExecutionInv, EndWave
    PROVE  ExecutionInv'
<1> USE DEF ExecutionInv
<1>1. /\ UNCHANGED <<managerVars, graph, wave, caller, completed, failed, ctxDone, spawns>>
      /\ phase' \in {"choose", "ended"}
      /\ phase' = "choose" => graph # NoGraph /\ failed = {}
    BY DEF EndWave
<1>2. ASSUME NEW a \in Agents PROVE caller[a] \notin {"waiting", "returned"}
    BY DEF EndWave, WaveOver, CallerOK
<1>3. TypeOK'
    BY <1>1 DEF TypeOK, ManagerTypeOK, managerVars, executionVars, cancelVars, trustVars
<1>4. ASSUME NEW a \in Agents PROVE ExecutionOK(a)' /\ CallerOK(a)'
    BY <1>1, <1>2 DEF ExecutionOK, CallerOK, Ended, Executing, managerVars, executionVars,
                      cancelVars, trustVars
<1>5. WavesOK'
    BY <1>1 DEF WavesOK
<1> QED BY <1>3, <1>4, <1>5

\* The end of the context changes no conclusion: those drawn under it say so.
LEMMA CtxDoneKeepsInv ==
    ASSUME ExecutionInv, CtxDone
    PROVE  ExecutionInv'
<1> USE DEF ExecutionInv
<1>1. TypeOK'
    BY DEF CtxDone, TypeOK, ManagerTypeOK, managerVars, executionVars, cancelVars, trustVars
<1>2. ASSUME NEW a \in Agents PROVE ExecutionOK(a)' /\ CallerOK(a)'
    BY DEF CtxDone, ExecutionOK, CallerOK, Ended, Executing, managerVars, executionVars,
           cancelVars, trustVars
<1>3. WavesOK'
    BY DEF CtxDone, WavesOK
<1> QED BY <1>1, <1>2, <1>3

\* A step that changes nothing keeps the invariant.
LEMMA StutterKeepsInv ==
    ASSUME ExecutionInv, UNCHANGED vars
    PROVE  ExecutionInv'
<1>1. TypeOK'
    BY DEF ExecutionInv, vars, executorVars, TypeOK, ManagerTypeOK, managerVars, executionVars,
           cancelVars, trustVars
<1>2. ASSUME NEW a \in Agents PROVE ExecutionOK(a)' /\ CallerOK(a)'
    BY DEF ExecutionInv, vars, executorVars, ExecutionOK, CallerOK, Ended, Executing, managerVars,
           executionVars, cancelVars, trustVars
<1>3. WavesOK'
    BY DEF ExecutionInv, vars, executorVars, managerVars, WavesOK
<1> QED BY <1>1, <1>2, <1>3 DEF ExecutionInv

\* The invariant holds when a call of the executor begins.
LEMMA InitEstablishesInv ==
    ASSUME ManagerAssumption, ExecutorAssumption, Init
    PROVE  ExecutionInv
<1> MaxRetries \in Nat /\ MaxInterventions \in Nat
    BY DEF ManagerAssumption
<1>1. TypeOK
    <2>1. ManagerTypeOK
        BY DEF Init, ManagerInit, ManagerTypeOK, TrustRecord
    <2> QED BY <2>1 DEF Init, TypeOK
<1>2. ASSUME NEW a \in Agents PROVE ExecutionOK(a) /\ CallerOK(a)
    BY DEF Init, ManagerInit, ExecutionOK, CallerOK, Ended, Executing
<1>3. WavesOK
    BY DEF Init, WavesOK
<1> QED BY <1>1, <1>2, <1>3 DEF ExecutionInv

\* The invariant holds in every reachable state.
LEMMA ExecutionInvariant == Spec => []ExecutionInv
<1> USE ManagerAssumption, ExecutorAssumption
<1>1. Init => ExecutionInv
    BY InitEstablishesInv
<1>2. ExecutionInv /\ [Next]_vars => ExecutionInv'
    <2> SUFFICES ASSUME ExecutionInv, [Next]_vars PROVE ExecutionInv'
        OBVIOUS
    <2>1. CASE StartWave
        BY <2>1, StartWaveKeepsInv
    <2>2. CASE EndWave
        BY <2>2, EndWaveKeepsInv
    <2>3. CASE CtxDone
        BY <2>3, CtxDoneKeepsInv
    <2>4. ASSUME NEW a \in Agents, Serve(a) PROVE ExecutionInv'
        BY <2>4, ServeKeepsInv
    <2>5. CASE ManagerStep /\ UNCHANGED executorVars
        BY <2>5, ManagerKeepsCallers
    <2>6. CASE UNCHANGED vars
        BY <2>6, StutterKeepsInv
    <2> QED BY <2>1, <2>2, <2>3, <2>4, <2>5, <2>6 DEF Next, ExecutorStep
<1> QED BY <1>1, <1>2, PTL DEF Spec

\* The variables of the parallel executor and the manager keep their types.
THEOREM TypeCorrect == Spec => []TypeOK
<1>1. ExecutionInv => TypeOK
    BY DEF ExecutionInv
<1> QED BY <1>1, ExecutionInvariant, PTL

\* ExecuteWithDependencies and ExecuteAll spawn no request a second time.
THEOREM NoRequestTwice == Spec => []SpawnedOnce
<1>1. ExecutionInv => SpawnedOnce
    BY DEF ExecutionInv, CallerOK, SpawnedOnce
<1> QED BY <1>1, ExecutionInvariant, PTL

\* GetReady and the reports of Wait keep the order of the graph.
THEOREM DependentsComeAfter == Spec => []DependentsWait
<1>1. ExecutionInv => DependentsWait
    <2> SUFFICES ASSUME ExecutionInv, graph # NoGraph, NEW a \in Agents, spawns[a] > 0,
                        NEW d \in graph[a] \ cancelled
                 PROVE  Ended(d) /\ outcome[d] # "failure"
        BY DEF DependentsWait
    <2>1. d \in completed
        BY DEF ExecutionInv, WavesOK
    <2> QED BY <2>1 DEF ExecutionInv, CallerOK, TypeOK
<1> QED BY <1>1, ExecutionInvariant, PTL

\* What the executor reports of a request is final and true.
THEOREM ReportsTrue == Spec => []ReportsAreTrue
<1>1. ExecutionInv => ReportsAreTrue
    BY DEF ExecutionInv, CallerOK, WavesOK, TypeOK, ManagerTypeOK, ReportsAreTrue
<1> QED BY <1>1, ExecutionInvariant, PTL

-----------------------------------------------------------------------------
(* The worker pool *)

\* Only a free worker spawns, so that the pool of ExecuteAll keeps its limit.
LEMMA PoolStep ==
    ASSUME ManagerAssumption, ExecutorAssumption, ExecutionInv, PoolOK, [Next]_vars
    PROVE  PoolOK'
<1> SUFFICES ASSUME graph = NoGraph, graph' = graph PROVE Cardinality(Busy') <= MaxWorkers
    <2>1. graph' = graph
        BY DEF Next, ExecutorStep, Serve, StartWave, EndWave, CtxDone, SpawnAndWait, SkipRequest,
               SpawnAndWaitFails, SpawnAndWaitReturns, Collect, ReportFailed, vars, executorVars
    <2> QED BY <2>1 DEF PoolOK
<1>1. /\ IsFiniteSet(Busy) /\ Cardinality(Busy) \in Nat /\ Cardinality(Busy) <= MaxWorkers
      /\ MaxWorkers \in Nat
    <2>1. Busy \subseteq Agents /\ IsFiniteSet(Agents)
        BY DEF Busy, ExecutionInv, TypeOK, ManagerAssumption
    <2>2. IsFiniteSet(Busy)
        BY <2>1, FS_Subset
    <2> QED BY <2>2, FS_CardinalityType DEF PoolOK, ExecutorAssumption
<1>2. ASSUME Busy' \subseteq Busy PROVE Cardinality(Busy') <= MaxWorkers
    <2>1. IsFiniteSet(Busy') /\ Cardinality(Busy') <= Cardinality(Busy)
        BY <1>1, <1>2, FS_Subset
    <2>2. Cardinality(Busy') \in Nat
        BY <2>1, FS_CardinalityType
    <2> QED BY <1>1, <2>1, <2>2
<1>3. CASE StartWave
    <2>1. Busy' = {}
        BY <1>3, StartWaveKeepsInv DEF Busy
    <2> QED BY <1>2, <2>1
<1>4. ASSUME NEW x \in Agents, SpawnAndWait(x) PROVE Cardinality(Busy') <= MaxWorkers
    <2>1. Busy' = Busy \cup {x} /\ x \notin Busy
        BY <1>4 DEF SpawnAndWait, Reached, Busy, ExecutionInv, TypeOK
    <2>2. Cardinality(Busy) < MaxWorkers
        BY <1>4 DEF SpawnAndWait, Reached
    <2>3. Cardinality(Busy') = Cardinality(Busy) + 1
        BY <1>1, <2>1, FS_AddElement
    <2> QED BY <1>1, <2>2, <2>3
<1>5. ASSUME NEW x \in Agents, ReportFailed(x) PROVE Busy' \subseteq Busy
    BY <1>5 DEF ReportFailed, Busy, ExecutionInv, TypeOK
<1>6. ASSUME NEW x \in Agents, SkipRequest(x) \/ SpawnAndWaitFails(x) PROVE Busy' \subseteq Busy
    BY <1>5, <1>6 DEF SkipRequest, SpawnAndWaitFails
<1>7. ASSUME NEW x \in Agents, SpawnAndWaitReturns(x) PROVE Busy' \subseteq Busy
    BY <1>7 DEF SpawnAndWaitReturns, Busy, ExecutionInv, TypeOK
<1>8. ASSUME NEW x \in Agents, Collect(x) PROVE Busy' \subseteq Busy
    BY <1>5, <1>8 DEF Collect, Busy, ExecutionInv, TypeOK
<1>9. CASE EndWave \/ CtxDone \/ UNCHANGED executorVars
    BY <1>2, <1>9 DEF EndWave, CtxDone, executorVars, Busy
<1> QED
    BY <1>2, <1>3, <1>4, <1>6, <1>7, <1>8, <1>9 DEF Next, ExecutorStep, Serve, vars

\* The pool keeps its limit: no more than MaxWorkers sub-agents of an ExecuteAll
\* execute while neither a user nor the context interferes.
THEOREM PoolBounded == Spec => []WorkersBound
<1> USE ManagerAssumption, ExecutorAssumption
<1>1. Init => PoolOK
    <2>1. Init => Busy = {}
        BY DEF Init, Busy
    <2>2. Cardinality({}) <= MaxWorkers
        BY FS_EmptySet DEF ExecutorAssumption
    <2> QED BY <2>1, <2>2 DEF PoolOK
<1>2. ExecutionInv /\ PoolOK /\ [Next]_vars => PoolOK'
    BY PoolStep
<1>3. ExecutionInv /\ PoolOK => WorkersBound
    <2> SUFFICES ASSUME ExecutionInv, PoolOK, graph = NoGraph, ~ctxDone
                 PROVE  Cardinality({a \in Agents : Executing(a)} \ cancelled) <= MaxWorkers
        BY DEF WorkersBound
    <2> DEFINE E == {a \in Agents : Executing(a)} \ cancelled
    <2>1. E \subseteq Busy
        BY DEF ExecutionInv, CallerOK, Busy
    <2>2. IsFiniteSet(Busy)
        <3>1. Busy \subseteq Agents /\ IsFiniteSet(Agents)
            BY DEF Busy, ExecutionInv, TypeOK, ManagerAssumption
        <3> QED BY <3>1, FS_Subset
    <2> HIDE DEF E
    <2>3. IsFiniteSet(E) /\ Cardinality(E) <= Cardinality(Busy)
        BY <2>1, <2>2, FS_Subset
    <2>4. Cardinality(E) \in Nat /\ Cardinality(Busy) \in Nat /\ Cardinality(Busy) <= MaxWorkers
        BY <2>2, <2>3, FS_CardinalityType DEF PoolOK
    <2>5. Cardinality(E) <= MaxWorkers
        BY <2>3, <2>4 DEF ExecutorAssumption
    <2> QED BY <2>5 DEF E
<1> QED BY <1>1, <1>2, <1>3, ExecutionInvariant, PTL DEF Spec

\* Both strategies spawn each request once, in the order of the graph, and within
\* the pool.
THEOREM SchedulesAreInOrder == Spec => []SchedulesInOrder
<1>1. TypeOK /\ SpawnedOnce /\ WorkersBound /\ DependentsWait => SchedulesInOrder
    BY DEF SchedulesInOrder
<1> QED BY <1>1, TypeCorrect, NoRequestTwice, PoolBounded, DependentsComeAfter, PTL

-----------------------------------------------------------------------------
(* Trust *)

\* The executions of a type that have been recorded and may still promote it.
Candidates(t) == {a \in Agents : AgentType[a] = t /\ at[a] = "promote"}

\* Each success of a type is worth one level, given already or still to be given.
TrustOK(t) ==
    LET record == trustTracker[t] IN
    /\ record.consecutive <= record.successes
    /\ record.level > granted[t] => record.successes >= MinSuccessCount
    /\ record.level + Cardinality(Candidates(t)) <= granted[t] + record.successes

\* The candidates of a type can be counted.
LEMMA CandidatesFinite ==
    ASSUME ManagerAssumption, NEW t \in Types
    PROVE  IsFiniteSet(Candidates(t)) /\ Cardinality(Candidates(t)) \in Nat
<1>1. Candidates(t) \subseteq Agents /\ IsFiniteSet(Agents)
    BY DEF Candidates, ManagerAssumption
<1>2. IsFiniteSet(Candidates(t))
    BY <1>1, FS_Subset
<1> QED BY <1>2, FS_CardinalityType

\* A judgement raises the level by one at most, and only for enough successes.
LEMMA JudgedBounds ==
    ASSUME ManagerAssumption, NEW r \in TrustRecord, r.consecutive <= r.successes
    PROVE  LET j == Judged(r) IN
           /\ j.consecutive = r.consecutive /\ j.successes = r.successes
           /\ j.level <= r.level + 1
           /\ j.level > r.level => r.successes >= MinSuccessCount
<1> /\ MinSuccessCount \in Nat /\ r.consecutive \in Nat /\ r.successes \in Nat
    /\ r.level \in 0 .. 2 /\ r.failures \in Nat
    BY DEF ManagerAssumption, TrustRecord
<1>1. /\ Promoted(r).level = r.level + 1 /\ Demoted(r).level = r.level - 1
      /\ Promoted(r).consecutive = r.consecutive /\ Demoted(r).consecutive = r.consecutive
      /\ Promoted(r).successes = r.successes /\ Demoted(r).successes = r.successes
    BY DEF TrustRecord, Promoted, Demoted
<1>2. Judged(r) \in {r, Promoted(r), Demoted(r)}
    BY DEF Judged
<1>3. Judged(r) = Promoted(r) => r.consecutive >= MinSuccessCount \/ Judged(r).level <= r.level
    BY <1>1 DEF Judged
<1> QED BY <1>1, <1>2, <1>3

\* A step that changes neither the records nor who may promote.
LEMMA TrustUnchanged ==
    ASSUME NEW t \in Types, TrustOK(t), UNCHANGED trustVars,
           \A a \in Agents : at[a] = "promote" <=> at'[a] = "promote"
    PROVE  TrustOK(t)'
<1>1. Candidates(t)' = Candidates(t)
    BY DEF Candidates
<1> QED BY <1>1 DEF TrustOK, trustVars

\* recordExecution: a success adds a candidate and is counted.
LEMMA RecordKeepsTrust ==
    ASSUME ManagerAssumption, ManagerTypeOK, NEW a \in Agents, RecordExecution(a),
           NEW t \in Types, TrustOK(t)
    PROVE  TrustOK(t)'
<1> USE DEF ManagerTypeOK
<1> DEFINE r == trustTracker[t]
<1>1. /\ r \in TrustRecord /\ r.consecutive \in Nat /\ r.successes \in Nat /\ r.level \in 0 .. 2
      /\ granted[t] \in Nat /\ MinSuccessCount \in Nat /\ granted' = granted
    BY DEF TrustRecord, ManagerAssumption, RecordExecution
<1>2. /\ Succeeded(r).consecutive = r.consecutive + 1 /\ Succeeded(r).successes = r.successes + 1
      /\ Succeeded(r).level = r.level
      /\ Failed(r).consecutive = 0 /\ Failed(r).successes = r.successes
      /\ Failed(r).level = r.level
    BY <1>1 DEF TrustRecord, Succeeded, Failed
<1>3. IsFiniteSet(Candidates(t)) /\ Cardinality(Candidates(t)) \in Nat
    BY CandidatesFinite
<1>4. CASE AgentType[a] # t
    <2>1. trustTracker'[t] = r
        BY <1>4 DEF RecordExecution
    <2>2. Candidates(t)' = Candidates(t)
        BY <1>4 DEF RecordExecution, Goes, Candidates
    <2> QED BY <1>1, <2>1, <2>2 DEF TrustOK
<1>5. CASE AgentType[a] = t /\ outcome[a] = "success"
    <2>1. trustTracker'[t] = Succeeded(r)
        BY <1>5 DEF RecordExecution
    <2>2. Candidates(t)' = Candidates(t) \/ (Candidates(t)' = Candidates(t) \cup {a} /\ a \notin Candidates(t))
        BY <1>5 DEF RecordExecution, Goes, Candidates
    <2>3. Cardinality(Candidates(t)') <= Cardinality(Candidates(t)) + 1
          /\ Cardinality(Candidates(t)') \in Nat
        BY <1>3, <2>2, FS_AddElement
    <2> QED BY <1>1, <1>2, <1>3, <2>1, <2>3 DEF TrustOK
<1>6. CASE AgentType[a] = t /\ outcome[a] # "success"
    <2>1. trustTracker'[t] = Failed(r)
        BY <1>6 DEF RecordExecution
    <2>2. Candidates(t)' = Candidates(t)
        BY <1>6 DEF RecordExecution, Goes, Candidates
    <2> QED BY <1>1, <1>2, <1>3, <2>1, <2>2 DEF TrustOK
<1> QED BY <1>4, <1>5, <1>6

\* checkPromotion: a candidate is used up for at most one level.
LEMMA CheckKeepsTrust ==
    ASSUME ManagerAssumption, ManagerTypeOK, NEW a \in Agents, CheckPromotion(a),
           NEW t \in Types, TrustOK(t)
    PROVE  TrustOK(t)'
<1> USE DEF ManagerTypeOK
<1> DEFINE r == trustTracker[t]
           j == Judged(r)
<1>1. /\ r \in TrustRecord /\ r.consecutive \in Nat /\ r.successes \in Nat /\ r.level \in 0 .. 2
      /\ granted[t] \in Nat /\ MinSuccessCount \in Nat /\ granted' = granted
    BY DEF TrustRecord, ManagerAssumption, CheckPromotion
<1>2. /\ j.consecutive = r.consecutive /\ j.successes = r.successes /\ j.level \in 0 .. 2
      /\ j.level <= r.level + 1
      /\ j.level > r.level => r.successes >= MinSuccessCount
    <2>1. r.consecutive <= r.successes
        BY DEF TrustOK
    <2>2. j \in TrustRecord
        BY <1>1, RecordTypes
    <2> QED BY <1>1, <2>1, <2>2, JudgedBounds DEF TrustRecord
<1> HIDE DEF j
<1>3. IsFiniteSet(Candidates(t)) /\ Cardinality(Candidates(t)) \in Nat
    BY CandidatesFinite
<1>4. CASE AgentType[a] # t
    <2>1. trustTracker'[t] = r
        BY <1>4 DEF CheckPromotion
    <2>2. Candidates(t)' = Candidates(t)
        BY <1>4 DEF CheckPromotion, Goes, Candidates
    <2> QED BY <1>1, <2>1, <2>2 DEF TrustOK
<1>5. CASE AgentType[a] = t
    <2>1. trustTracker'[t] = j
        BY <1>5 DEF CheckPromotion, j
    <2>2. Candidates(t)' = Candidates(t) \ {a} /\ a \in Candidates(t)
        BY <1>5 DEF CheckPromotion, Goes, Candidates
    <2>3. Cardinality(Candidates(t)') = Cardinality(Candidates(t)) - 1
        BY <1>3, <2>2, FS_RemoveElement
    <2> QED BY <1>1, <1>2, <1>3, <2>1, <2>3 DEF TrustOK
<1> QED BY <1>4, <1>5

\* RecordUserOverride, Demote and Promote: a level the user gives is in granted.
LEMMA InterventionKeepsTrust ==
    ASSUME ManagerAssumption, ManagerTypeOK, NEW u \in Types,
           RecordUserOverride(u) \/ Demote(u) \/ Promote(u), NEW t \in Types, TrustOK(t)
    PROVE  TrustOK(t)'
<1> USE DEF ManagerTypeOK
<1> DEFINE r == trustTracker[u]
<1>1. /\ r \in TrustRecord /\ r.consecutive \in Nat /\ r.successes \in Nat /\ r.level \in 0 .. 2
      /\ granted[t] \in Nat /\ granted[u] \in Nat /\ MinSuccessCount \in Nat
    BY DEF TrustRecord, ManagerAssumption
<1>2. Candidates(t)' = Candidates(t) /\ Cardinality(Candidates(t)) \in Nat
    <2>1. at' = at
        BY DEF RecordUserOverride, Demote, Promote, Intervene, executionVars
    <2>2. Candidates(t)' = Candidates(t)
        BY <2>1 DEF Candidates
    <2> QED BY <2>2, CandidatesFinite
<1>3. CASE u # t
    BY <1>2, <1>3 DEF RecordUserOverride, Demote, Promote, Intervene, TrustOK
<1>4. CASE u = t /\ RecordUserOverride(u)
    <2> DEFINE o == [r EXCEPT !.overridden = TRUE, !.consecutive = 0]
    <2>1. o.consecutive = 0 /\ o.successes = r.successes /\ o.level = r.level
        BY <1>1 DEF TrustRecord
    <2>2. trustTracker'[t] = o /\ granted'[t] = granted[t]
        BY <1>1, <1>4 DEF RecordUserOverride, Intervene
    <2> QED BY <1>1, <1>2, <1>4, <2>1, <2>2 DEF TrustOK
<1>5. CASE u = t /\ Demote(u)
    <2> DEFINE d == Demoted(r)
    <2>1. d.consecutive = r.consecutive /\ d.successes = r.successes /\ d.level = r.level - 1
        BY <1>1 DEF TrustRecord, Demoted
    <2> HIDE DEF d
    <2>2. trustTracker'[t] = d /\ granted'[t] = granted[t]
        BY <1>1, <1>5 DEF Demote, Intervene, d
    <2> QED BY <1>1, <1>2, <1>5, <2>1, <2>2 DEF TrustOK
<1>6. CASE u = t /\ Promote(u)
    <2> DEFINE p == [Promoted(r) EXCEPT !.known = TRUE]
    <2>1. p.consecutive = r.consecutive /\ p.successes = r.successes /\ p.level = r.level + 1
        BY <1>1 DEF TrustRecord, Promoted
    <2> HIDE DEF p
    <2>2. trustTracker'[t] = p /\ granted'[t] = granted[t] + 1
        BY <1>1, <1>6 DEF Promote, Intervene, p
    <2> QED BY <1>1, <1>2, <1>6, <2>1, <2>2 DEF TrustOK
<1> QED BY <1>3, <1>4, <1>5, <1>6

\* Every step keeps the accounts of a type.
LEMMA TrustStep ==
    ASSUME ManagerAssumption, ExecutionInv, [Next]_vars, NEW t \in Types, TrustOK(t)
    PROVE  TrustOK(t)'
<1> ManagerTypeOK
    BY DEF ExecutionInv, TypeOK
<1>1. CASE UNCHANGED <<at, trustVars>>
    BY <1>1, TrustUnchanged
<1>2. ASSUME NEW x \in Agents, SpawnAndWait(x) PROVE TrustOK(t)'
    <2>1. at[x] = "idle"
        BY <1>2 DEF SpawnAndWait, Reached, ExecutionInv, CallerOK, ExecutionOK
    <2>2. UNCHANGED trustVars
        BY <1>2 DEF SpawnAndWait, Spawn
    <2>3. \A a \in Agents : at[a] = "promote" <=> at'[a] = "promote"
        BY <1>2, <2>1 DEF SpawnAndWait, Spawn, ManagerTypeOK
    <2> QED BY <2>2, <2>3, TrustUnchanged
<1>3. ASSUME NEW x \in Agents, Execute(x), ~RecordExecution(x), ~CheckPromotion(x) PROVE TrustOK(t)'
    <2>1. UNCHANGED trustVars
        BY <1>3 DEF Execute, BeginExecution, Attempt, Try, BackoffEnds, StoreResult, SetFinalStatus
    <2>2. \A a \in Agents : at[a] = "promote" <=> at'[a] = "promote"
        BY <1>3 DEF Execute, BeginExecution, Attempt, Try, BackoffEnds, StoreResult,
                    SetFinalStatus, Goes, ManagerTypeOK
    <2> QED BY <2>1, <2>2, TrustUnchanged
<1>4. CASE ManagerStep
    <2>1. ASSUME NEW x \in Agents, Execute(x) PROVE TrustOK(t)'
        BY <1>3, <2>1, RecordKeepsTrust, CheckKeepsTrust
    <2>2. ASSUME NEW x \in Agents, CancelAccepts(x) \/ CancelApplies(x) \/ Cleanup(x) PROVE TrustOK(t)'
        BY <1>1, <2>2 DEF CancelAccepts, CancelApplies, Cleanup, executionVars
    <2>3. ASSUME NEW u \in Types, RecordUserOverride(u) \/ Demote(u) \/ Promote(u) PROVE TrustOK(t)'
        BY <2>3, InterventionKeepsTrust
    <2> QED BY <1>4, <2>1, <2>2, <2>3 DEF ManagerStep
<1>5. CASE ExecutorStep
    <2>1. CASE \E x \in Agents : SpawnAndWait(x)
        BY <1>2, <2>1
    <2>2. CASE ~ \E x \in Agents : SpawnAndWait(x)
        BY <1>1, <1>5, <2>2
        DEF ExecutorStep, Serve, StartWave, EndWave, CtxDone, SkipRequest, SpawnAndWaitFails,
            SpawnAndWaitReturns, Collect, ReportFailed, managerVars, executionVars
    <2> QED BY <2>1, <2>2
<1>6. CASE UNCHANGED vars
    BY <1>1, <1>6 DEF vars, managerVars, executionVars
<1> QED BY <1>4, <1>5, <1>6 DEF Next

\* No type gets more trust than its own successes and the user have given it,
\* however the records and the judgements of its executions interleave.
THEOREM TrustEarned == Spec => []TrustIsEarned
<1> USE ManagerAssumption, ExecutorAssumption
<1> DEFINE TrustInv == \A t \in Types : TrustOK(t)
<1>1. Init => TrustInv
    <2> SUFFICES ASSUME Init, NEW t \in Types PROVE TrustOK(t)
        OBVIOUS
    <2>1. Candidates(t) = {}
        BY DEF Init, ManagerInit, Candidates
    <2>2. Cardinality(Candidates(t)) = 0
        BY <2>1, FS_EmptySet
    <2> QED BY <2>2 DEF Init, ManagerInit, TrustOK, ManagerAssumption
<1>2. ExecutionInv /\ TrustInv /\ [Next]_vars => TrustInv'
    BY TrustStep
<1>3. ExecutionInv /\ TrustInv => TrustIsEarned
    <2> SUFFICES ASSUME ExecutionInv, TrustInv, NEW t \in Types
                 PROVE  /\ trustTracker[t].level > granted[t] => trustTracker[t].successes >= MinSuccessCount
                        /\ trustTracker[t].level <= granted[t] + trustTracker[t].successes
        BY DEF TrustIsEarned
    <2>1. /\ trustTracker[t].level \in 0 .. 2 /\ trustTracker[t].successes \in Nat
          /\ granted[t] \in Nat
        BY DEF ExecutionInv, TypeOK, ManagerTypeOK, TrustRecord
    <2>2. Cardinality(Candidates(t)) \in Nat
        BY CandidatesFinite
    <2> QED BY <2>1, <2>2 DEF TrustOK
<1> HIDE DEF TrustInv
<1> QED BY <1>1, <1>2, <1>3, ExecutionInvariant, PTL DEF Spec
=============================================================================

------------------------ MODULE PlanExecutionProofs ------------------------
(***************************************************************************)
(* Proofs about the execution of plans, for plans of any length and with   *)
(* any numbers and dependencies, by either executor.                       *)
(*                                                                         *)
(* PlanOrder's guard is about steps that have succeeded, the code looks at *)
(* its own tables (completed, stepResults, position). The invariant says   *)
(* what these tables are worth: what they call done some step has done.    *)
(***************************************************************************)
EXTENDS PlanExecution, FiniteSetTheorems, TLAPS

LocalPlaces == {"idle", "launched", "intent", "executing", "closing", "closed", "returned", "collected"}
BusPlaces == {"idle", "registered", "waiting", "leaving", "returned", "collected"}

\* The call of a step, and whether it has a result yet.
CallOK(s) ==
    /\ at[s] \in IF via = "local" THEN LocalPlaces ELSE BusPlaces
    /\ result[s] = "none" <=> at[s] \in NotBegun \cup {"executing", "registered", "waiting"}
    /\ via = "local" => result[s] \in {"none", "success", "failure"}

CallsOK == \A s \in Steps : CallOK(s)

Done(n) == \E t \in Steps : result[t] = "success" /\ plan.number[t] = n

\* What the tables of the plan call done is done.
TablesOK ==
    /\ phase # "ended" => verdict = "executing"
    /\ \A n \in Numbers : stepResults[n] = "success" => Done(n)
    /\ \A n \in completed : Done(n)
    /\ via = "bus" => \A s \in Steps : s < position => result[s] = "success"

\* The waves of ExecutePlan follow the dependencies.
WavesOK ==
    via = "local" =>
        /\ \A s \in Steps : at[s] # "idle" => plan.dependsOn[s] \subseteq completed
        /\ \A s \in Steps : at[s] \notin {"idle", "collected"} => phase # "choose" /\ s \in wave
        /\ \A s \in Steps : at[s] = "collected" => phase = "ended" \/ plan.number[s] \in completed
        /\ phase # "ended" => \A n \in completed : stepResults[n] = "success"

\* The results a wave depends on are there, and no step of the wave replaces them.
ContextsOK ==
    via = "local" =>
        \A t \in wave :
            /\ \A s \in wave : plan.number[s] \notin plan.dependsOn[t]
            /\ \A d \in plan.dependsOn[t] : stepResults[d] = "success"

\* The record of a handoff follows its Execute.
RecordOK(h) ==
    /\ at[h] \in NotBegun => h \notin active /\ h \notin cancelled /\ h \notin endTime
    /\ Busy(h) /\ h \notin cancelled => h \in active /\ h \notin endTime /\ status[h] = "executing"
    /\ Ended(h) => h \in endTime
    /\ Ended(h) /\ h \notin cancelled =>
         status[h] = IF result[h] = "success" THEN "completed" ELSE "failed"

RecordsOK == via = "local" => \A h \in Steps : RecordOK(h)

PlanInv == TypeOK /\ CallsOK /\ TablesOK /\ WavesOK

-----------------------------------------------------------------------------
(* Types *)

\* The numbers of a plan's steps, and what they depend on.
LEMMA PlanTypes ==
    ASSUME StateTypeOK, NEW s \in Steps
    PROVE  plan.number[s] \in Numbers /\ plan.dependsOn[s] \subseteq Numbers
BY HandoffAssumption DEF StateTypeOK, HandoffAssumption, PlanSet

\* A write to a status is torn only when CancelHandoff writes it too.
LEMMA WrittenTypes ==
    ASSUME NEW h, NEW v, NEW value \in Written(h, v)
    PROVE  value = v \/ (value = "torn" /\ (h \in cancelling \/ status[h] = "torn"))
BY DEF Written, Racing

\* The steps of the in-process executor keep the types.
LEMMA ExecutorTypes == TypeOK /\ LocalStep => TypeOK'
<1> SUFFICES ASSUME TypeOK, LocalStep PROVE TypeOK'
    OBVIOUS
<1> USE DEF TypeOK, StateTypeOK, ExecutorTypeOK, AsyncTypeOK, planVars, callVars, executorVars,
        waveVars, recordVars, cancelVars, asyncVars, requestVars, busVars, LocalStep
<1>1. CASE PlanCompletes \/ PlanStuck
    BY <1>1 DEF PlanCompletes, PlanStuck, PlanEndsWith, ExecutorStep
<1>2. CASE LaunchWave
    BY <1>2 DEF LaunchWave, ReadySteps, ExecutorStep
<1>3. ASSUME NEW s \in Steps, Collect(s) PROVE TypeOK'
    BY <1>3, PlanTypes DEF Collect, Goes, StoreStepResult, PlanEndsWith, ExecutorStep
<1>4. ASSUME NEW s \in Steps, BuildIntent(s) PROVE TypeOK'
    BY <1>4 DEF BuildIntent, Goes, PreviousResults, ExecutorStep
<1>5. ASSUME NEW h \in Steps, Execute(h) PROVE TypeOK'
    <2>1. CASE BeginHandoff(h)
        BY <2>1 DEF BeginHandoff, Goes, ExecutorStep
    <2>2. CASE Chat(h)
        BY <2>2 DEF Chat, Goes, Results, ExecutorStep
    <2>3. CASE CloseHandoff(h)
        BY <2>3, WrittenTypes DEF CloseHandoff, Goes, FinalStatus, ExecutorStep
    <2>4. CASE ReturnHandoff(h)
        BY <2>4 DEF ReturnHandoff, Goes, ExecutorStep
    <2> QED BY <1>5, <2>1, <2>2, <2>3, <2>4 DEF Execute
<1>6. ASSUME NEW h \in Steps, CancelAccepts(h) \/ CancelApplies(h) \/ CleanupOldHandoffs(h) PROVE TypeOK'
    BY <1>6, WrittenTypes DEF CancelAccepts, CancelApplies, CleanupOldHandoffs, ExecutorStep
<1> QED BY <1>1, <1>2, <1>3, <1>4, <1>5, <1>6 DEF ExecutorStep, ExecutePlan

\* The steps of the executor over the bus, and of its surroundings, keep the types.
LEMMA AsyncTypes == TypeOK /\ BusStep => TypeOK'
<1> SUFFICES ASSUME TypeOK, BusStep PROVE TypeOK'
    OBVIOUS
<1> USE DEF TypeOK, StateTypeOK, ExecutorTypeOK, AsyncTypeOK, planVars, callVars, executorVars,
        waveVars, recordVars, cancelVars, asyncVars, requestVars, busVars, BusStep
<1>1. CASE AllStepsDone \/ \E s \in Steps : DependencyNotMet(s)
    BY <1>1 DEF AllStepsDone, DependencyNotMet, PlanEndsWith
<1>2. ASSUME NEW s \in Steps, RequestStep(s) PROVE TypeOK'
    BY <1>2 DEF RequestStep, Register, Goes
<1>3. ASSUME NEW s \in Steps, CollectAnswer(s) PROVE TypeOK'
    <2>1. position \in 1 .. N
        BY <1>3 DEF CollectAnswer, Steps
    <2>2. position' \in 1 .. N + 1
        BY <1>3, <2>1, HandoffAssumption
        DEF CollectAnswer, StepSucceeded, StepFailed, StepErred, StepPanics, HandoffAssumption
    <2> QED
        BY <1>3, <2>2, PlanTypes
        DEF CollectAnswer, StepSucceeded, StepFailed, StepErred, StepPanics, Goes, PlanEndsWith, StoreStepResult
<1>4. ASSUME NEW h \in Steps, ExecuteWithResponse(h) PROVE TypeOK'
    BY <1>4 DEF ExecuteWithResponse, Publish, PublishFails, Wait, ReceiveAnswer, ReceiveNil, GiveUp,
                StopWaiting, Leave, Goes, Results
<1>5. CASE Start \/ Stop
    <2>1. starts' \in 0 .. MaxStarts
        BY <1>5, AsyncAssumption DEF Start, Stop, AsyncAssumption
    <2> QED BY <1>5, <2>1 DEF Start, Stop
<1>6. ASSUME NEW m \in Messages, AgentAnswers(m) \/ TakeAnswer(m) PROVE TypeOK'
    BY <1>6 DEF AgentAnswers, TakeAnswer
<1>7. ASSUME NEW c \in Consumers, SendAnswer(c) PROVE TypeOK'
    <2>1. handler[c].to \in Steps /\ handler[c].status \in {"success", "failure"}
        BY <1>7 DEF SendAnswer, Messages
    <2>2. channel' \in [Steps -> {"empty", "success", "failure"}] /\ crashed' \in BOOLEAN
        <3>1. CASE SendSucceeds(c)
            <4>1. PICK value \in {"empty", "success", "failure"}, h \in Steps :
                        channel' = [channel EXCEPT ![h] = value]
                BY <2>1, <3>1 DEF SendSucceeds
            <4>2. channel \in [Steps -> {"empty", "success", "failure"}]
                OBVIOUS
            <4>3. channel' \in [Steps -> {"empty", "success", "failure"}]
                BY ONLY <4>1, <4>2
            <4> QED BY <3>1, <4>3 DEF SendSucceeds
        <3>2. CASE SendPanics(c) \/ SendIgnored(c)
            BY <3>2 DEF SendPanics, SendIgnored
        <3> QED BY <1>7, <3>1, <3>2 DEF SendAnswer
    <2>3. handler' \in [Consumers -> Messages \cup {NoMessage}]
        BY <1>7 DEF SendAnswer, HandlerDone
    <2> QED BY <1>7, <2>2, <2>3 DEF SendAnswer
<1> QED BY <1>1, <1>2, <1>3, <1>4, <1>5, <1>6, <1>7 DEF AsyncStep, ExecutePlanAsync

\* The types hold at the start ...
LEMMA InitTypes == Init => TypeOK
<1>1. 1 \in 1 .. N + 1 /\ 0 \in 0 .. MaxStarts
    BY HandoffAssumption, AsyncAssumption DEF HandoffAssumption, AsyncAssumption
<1>2. Init => StateTypeOK /\ ExecutorTypeOK
    <2>1. Init => StateTypeOK
        BY DEF Init, StateInit, StateTypeOK
    <2>2. Init => ExecutorTypeOK
        BY DEF Init, StateInit, ExecutorInit, ExecutorTypeOK
    <2> QED BY <2>1, <2>2
<1>3. Init => AsyncTypeOK
    BY <1>1 DEF Init, AsyncInit, AsyncTypeOK
<1> QED BY <1>2, <1>3 DEF Init, TypeOK

\* ... and when nothing happens.
LEMMA StutterTypes == TypeOK /\ UNCHANGED vars => TypeOK'
BY DEF vars, TypeOK, StateTypeOK, ExecutorTypeOK, AsyncTypeOK, planVars, callVars, executorVars,
       waveVars, recordVars, cancelVars, asyncVars, requestVars, busVars

\* The types of both executors' variables hold throughout.
THEOREM TypeCorrect == Spec => []TypeOK
<1>1. TypeOK /\ [Next]_vars => TypeOK'
    BY StutterTypes, ExecutorTypes, AsyncTypes DEF Next
<1> QED BY <1>1, InitTypes, PTL DEF Spec

-----------------------------------------------------------------------------
(* Calls: where they are and what they return *)

\* Where no call moves, nothing is to show.
LEMMA CallsFrame ==
    ASSUME CallsOK, UNCHANGED <<via, at, result>> PROVE CallsOK'
BY DEF CallsOK, CallOK

\* A step of one call leaves the others as they are.
LEMMA CallMoves ==
    ASSUME TypeOK, CallsOK, via' = via,
           NEW s \in Steps, NEW from, NEW to, Goes(s, from, to),
           CallOK(s)', \A t \in Steps \ {s} : result'[t] = result[t]
    PROVE  CallsOK'
<1>1. \A t \in Steps \ {s} : at'[t] = at[t]
    BY DEF Goes, TypeOK, StateTypeOK
<1> QED BY <1>1 DEF CallsOK, CallOK

\* A wave has only steps that were not launched before.
LEMMA ReadyIdle ==
    ASSUME PlanInv, via = "local", phase = "choose", NEW s \in ReadySteps PROVE at[s] = "idle"
BY DEF PlanInv, WavesOK, ReadySteps

\* A call of Execute has a result once the model's provider has returned.
LEMMA LocalCalls == PlanInv /\ LocalStep => CallsOK'
<1> SUFFICES ASSUME PlanInv, LocalStep PROVE CallsOK'
    OBVIOUS
<1>0. TypeOK /\ CallsOK /\ via = "local" /\ via' = via
    BY DEF LocalStep, PlanInv
<1>1. CASE PlanCompletes \/ PlanStuck
    BY <1>0, <1>1, CallsFrame DEF PlanCompletes, PlanStuck, callVars
<1>2. CASE LaunchWave
    <2>1. \A s \in ReadySteps : at[s] = "idle"
        BY <1>0, <1>2, ReadyIdle DEF LaunchWave
    <2> QED BY <1>0, <1>2, <2>1 DEF LaunchWave, CallsOK, CallOK, LocalPlaces, NotBegun
<1>3. ASSUME NEW s \in Steps, Collect(s) \/ BuildIntent(s) \/ Execute(s) PROVE CallsOK'
    <2>1. PICK from, to : Goes(s, from, to)
        BY <1>3 DEF Collect, BuildIntent, Execute, BeginHandoff, Chat, CloseHandoff, ReturnHandoff
    <2>2. CallOK(s)' /\ \A t \in Steps \ {s} : result'[t] = result[t]
        BY <1>0, <1>3
        DEF Collect, BuildIntent, Execute, BeginHandoff, Chat, CloseHandoff, ReturnHandoff, Goes,
            CallsOK, CallOK, LocalPlaces, NotBegun, TypeOK, StateTypeOK
    <2> QED BY <1>0, <2>1, <2>2, CallMoves
<1>4. ASSUME NEW h \in Steps, CancelAccepts(h) \/ CancelApplies(h) \/ CleanupOldHandoffs(h) PROVE CallsOK'
    BY <1>0, <1>4, CallsFrame DEF CancelAccepts, CancelApplies, CleanupOldHandoffs, callVars
<1> QED BY <1>1, <1>2, <1>3, <1>4 DEF LocalStep, ExecutorStep, ExecutePlan

\* A call of ExecuteWithResponse has a result once it stops waiting.
LEMMA BusCalls == PlanInv /\ BusStep => CallsOK'
<1> SUFFICES ASSUME PlanInv, BusStep PROVE CallsOK'
    OBVIOUS
<1>0. TypeOK /\ CallsOK /\ via = "bus" /\ via' = via
    BY DEF BusStep, PlanInv
<1>1. ASSUME NEW s \in Steps, RequestStep(s) \/ CollectAnswer(s) \/ ExecuteWithResponse(s) PROVE CallsOK'
    <2>1. PICK from, to : Goes(s, from, to)
        BY <1>1 DEF RequestStep, Register, CollectAnswer, ExecuteWithResponse, Publish, PublishFails,
                    Wait, ReceiveAnswer, ReceiveNil, GiveUp, StopWaiting, Leave
    <2>2. CASE RequestStep(s) \/ CollectAnswer(s) \/ Publish(s) \/ Leave(s)
        <3>1. CallOK(s)' /\ result' = result
            BY <1>0, <2>2
            DEF RequestStep, Register, CollectAnswer, Publish, Leave, Goes,
                CallsOK, CallOK, BusPlaces, NotBegun, TypeOK, StateTypeOK
        <3> QED BY <1>0, <2>1, <3>1, CallMoves
    <2>3. CASE PublishFails(s) \/ Wait(s)
        <3>1. PICK r \in Results : result' = [result EXCEPT ![s] = r]
            BY <1>0, <2>3 DEF PublishFails, Wait, ReceiveAnswer, ReceiveNil, GiveUp, StopWaiting,
                              Results, TypeOK, AsyncTypeOK
        <3>2. CallOK(s)' /\ \A t \in Steps \ {s} : result'[t] = result[t]
            BY <1>0, <2>3, <3>1
            DEF PublishFails, Wait, ReceiveAnswer, ReceiveNil, GiveUp, StopWaiting, Goes, Results,
                CallsOK, CallOK, BusPlaces, NotBegun, TypeOK, StateTypeOK
        <3> QED BY <1>0, <2>1, <3>2, CallMoves
    <2> QED BY <1>1, <2>2, <2>3 DEF ExecuteWithResponse
<1>2. CASE UNCHANGED callVars
    BY <1>0, <1>2, CallsFrame DEF callVars
<1>3. CASE Start \/ Stop \/ AllStepsDone \/ \E s \in Steps : DependencyNotMet(s)
    BY <1>2, <1>3 DEF Start, Stop, AllStepsDone, DependencyNotMet
<1>4. ASSUME NEW m \in Messages, AgentAnswers(m) \/ TakeAnswer(m) PROVE CallsOK'
    BY <1>2, <1>4 DEF AgentAnswers, TakeAnswer
<1>5. ASSUME NEW c \in Consumers, SendAnswer(c) PROVE CallsOK'
    BY <1>2, <1>5 DEF SendAnswer
<1> QED BY <1>1, <1>3, <1>4, <1>5 DEF BusStep, AsyncStep, ExecutePlanAsync

\* A call that has succeeded has succeeded for good.
LEMMA ResultsFinal ==
    ASSUME PlanInv, Next
    PROVE  /\ plan' = plan /\ via' = via
           /\ \A t \in Steps : result[t] = "success" => result'[t] = "success"
<1>0. TypeOK /\ CallsOK
    BY DEF PlanInv
<1>1. CASE LocalStep
    BY <1>0, <1>1
    DEF LocalStep, ExecutorStep, ExecutePlan, PlanCompletes, PlanStuck, LaunchWave, Collect, BuildIntent,
        Execute, BeginHandoff, Chat, CloseHandoff, ReturnHandoff, CancelAccepts, CancelApplies,
        CleanupOldHandoffs, planVars, callVars, Goes, CallsOK, CallOK, NotBegun, TypeOK, StateTypeOK
<1>2. CASE BusStep
    BY <1>0, <1>2
    DEF BusStep, AsyncStep, ExecutePlanAsync, AllStepsDone, RequestStep, Register, DependencyNotMet,
        CollectAnswer, ExecuteWithResponse, Publish, PublishFails, Wait, ReceiveAnswer, ReceiveNil, GiveUp,
        StopWaiting, Leave, Start, Stop, AgentAnswers, TakeAnswer, SendAnswer,
        planVars, callVars, Goes, CallsOK, CallOK, NotBegun, TypeOK, StateTypeOK
<1> QED BY <1>1, <1>2 DEF Next

-----------------------------------------------------------------------------
(* The tables of the plan *)

\* What is done stays done.
LEMMA DoneStays ==
    ASSUME PlanInv, Next, NEW n, Done(n) PROVE Done(n)'
BY ResultsFinal DEF Done

\* Steps that leave the plan's tables alone.
LEMMA TablesUnchanged ==
    ASSUME PlanInv, Next, UNCHANGED <<phase, verdict, stepResults, completed, position>>
    PROVE  TablesOK'
BY ResultsFinal, DoneStays DEF PlanInv, TablesOK

\* What is added to the tables is done: Collect and CollectAnswer look at the result.
LEMMA TablesStep == PlanInv /\ Next => TablesOK'
<1> SUFFICES ASSUME PlanInv, Next PROVE TablesOK'
    OBVIOUS
<1>0. TypeOK /\ CallsOK /\ TablesOK /\ plan' = plan /\ via' = via
    BY ResultsFinal DEF PlanInv
<1>1. \A n : Done(n) => Done(n)'
    BY DoneStays
<1>2. \A t \in Steps : result[t] = "success" => result'[t] = "success"
    BY ResultsFinal
<1>3. ASSUME NEW s \in Steps, result[s] = "success" PROVE Done(plan.number[s])'
    BY <1>0, <1>2, <1>3 DEF Done
<1>4. ASSUME \/ LocalStep /\ (PlanCompletes \/ PlanStuck)
             \/ BusStep /\ (AllStepsDone \/ \E s \in Steps : DependencyNotMet(s))
      PROVE  TablesOK'
    <2>1. UNCHANGED <<stepResults, completed, position>> /\ phase' = "ended"
        BY <1>4
        DEF PlanCompletes, PlanStuck, AllStepsDone, DependencyNotMet, PlanEndsWith,
            executorVars, waveVars, asyncVars, LocalStep, BusStep
    <2> QED BY <1>0, <1>1, <1>2, <2>1 DEF TablesOK
<1>5. ASSUME LocalStep, LaunchWave PROVE TablesOK'
    BY <1>0, <1>1, <1>2, <1>5 DEF LaunchWave, TablesOK, LocalStep, asyncVars
<1>6. ASSUME LocalStep, NEW s \in Steps, Collect(s) PROVE TablesOK'
    <2>1. \A n \in Numbers : stepResults'[n] = "success" => Done(n)'
        BY <1>0, <1>1, <1>3, <1>6 DEF Collect, StoreStepResult, TablesOK, TypeOK, StateTypeOK
    <2>2. \A n \in completed' : Done(n)'
        BY <1>0, <1>1, <1>3, <1>6 DEF Collect, TablesOK
    <2>3. phase' # "ended" => verdict' = "executing"
        BY <1>0, <1>6 DEF Collect, PlanEndsWith, TablesOK
    <2> QED BY <1>0, <1>6, <2>1, <2>2, <2>3 DEF TablesOK, LocalStep
<1>7. ASSUME BusStep, NEW s \in Steps, RequestStep(s) PROVE TablesOK'
    BY <1>0, <1>1, <1>2, <1>7
    DEF RequestStep, Register, TablesOK, BusStep, executorVars, waveVars
<1>8. ASSUME BusStep, NEW s \in Steps, CollectAnswer(s) PROVE TablesOK'
    <2>1. \A n \in Numbers : stepResults'[n] = "success" => Done(n)'
        BY <1>0, <1>1, <1>3, <1>8
        DEF CollectAnswer, StepSucceeded, StepFailed, StepErred, StepPanics, StoreStepResult, TablesOK,
            TypeOK, StateTypeOK
    <2>2. \A t \in Steps : t < position' => result'[t] = "success"
        <3>1. position' = position \/ (position' = position + 1 /\ s = position /\ result[s] = "success")
            BY <1>8 DEF CollectAnswer, StepSucceeded, StepFailed, StepErred, StepPanics
        <3> QED BY <1>0, <1>2, <1>8, <3>1 DEF TablesOK, BusStep, TypeOK, AsyncTypeOK, Steps
    <2>3. phase' # "ended" => verdict' = "executing"
        BY <1>0, <1>8
        DEF CollectAnswer, StepSucceeded, StepFailed, StepErred, StepPanics, PlanEndsWith, TablesOK
    <2>4. completed' = completed
        BY <1>8 DEF BusStep, executorVars, waveVars
    <2> QED BY <1>0, <1>1, <2>1, <2>2, <2>3, <2>4 DEF TablesOK
<1>9. ASSUME LocalStep,
             \E s \in Steps : BuildIntent(s) \/ Execute(s) \/ CancelAccepts(s) \/ CancelApplies(s)
                              \/ CleanupOldHandoffs(s)
      PROVE  TablesOK'
    BY <1>9, TablesUnchanged
    DEF BuildIntent, Execute, BeginHandoff, Chat, CloseHandoff, ReturnHandoff, CancelAccepts, CancelApplies,
        CleanupOldHandoffs, planVars, executorVars, waveVars, asyncVars, LocalStep
<1>10. ASSUME BusStep, NEW h \in Steps, ExecuteWithResponse(h) PROVE TablesOK'
    BY <1>10, TablesUnchanged
    DEF ExecuteWithResponse, Publish, PublishFails, Wait, ReceiveAnswer, ReceiveNil, GiveUp,
        StopWaiting, Leave, planVars, executorVars, waveVars, BusStep
<1>11. ASSUME BusStep,
              \/ Start \/ Stop
              \/ \E m \in Messages : AgentAnswers(m) \/ TakeAnswer(m)
              \/ \E c \in Consumers : SendAnswer(c)
       PROVE  TablesOK'
    BY <1>11, TablesUnchanged
    DEF Start, Stop, AgentAnswers, TakeAnswer, SendAnswer, planVars, executorVars, waveVars, BusStep
<1> HIDE DEF TablesOK
<1>12. CASE LocalStep
    <2>1. ExecutorStep
        BY <1>12 DEF LocalStep
    <2> QED BY <2>1, <1>4, <1>5, <1>6, <1>9, <1>12 DEF ExecutorStep, ExecutePlan
<1>13. CASE BusStep
    <2>1. AsyncStep
        BY <1>13 DEF BusStep
    <2> QED BY <2>1, <1>4, <1>7, <1>8, <1>10, <1>11, <1>13 DEF AsyncStep, ExecutePlanAsync
<1> QED BY <1>12, <1>13 DEF Next

\* A wave is launched when the one before is collected as a whole.
LEMMA WavesStep == PlanInv /\ Next => WavesOK'
<1> SUFFICES ASSUME PlanInv, Next, via' = "local" PROVE WavesOK'
    BY DEF WavesOK
<1>0. TypeOK /\ CallsOK /\ WavesOK /\ plan' = plan /\ via = "local" /\ LocalStep
    BY ResultsFinal DEF PlanInv, Next, BusStep
<1>1. CASE PlanCompletes \/ PlanStuck
    BY <1>0, <1>1
    DEF PlanCompletes, PlanStuck, PlanEndsWith, WavesOK, callVars, executorVars, waveVars
<1>2. CASE LaunchWave
    <2>1. \A s \in ReadySteps : at[s] = "idle"
        BY <1>0, <1>2, ReadyIdle DEF LaunchWave
    <2>2. \A s \in Steps : at'[s] = IF s \in ReadySteps THEN "launched" ELSE at[s]
        BY <1>2 DEF LaunchWave
    <2> QED BY <1>0, <1>2, <2>1, <2>2 DEF LaunchWave, WavesOK, ReadySteps
<1>3. ASSUME NEW s \in Steps, Collect(s) PROVE WavesOK'
    <2>1. at' = [at EXCEPT ![s] = "collected"] /\ at[s] = "returned" /\ phase = "wait"
        BY <1>3 DEF Collect, Goes
    <2>2. plan.number[s] \in Numbers
        BY <1>0, PlanTypes DEF TypeOK
    <2>3. CASE result[s] = "failure"
        BY <1>0, <1>3, <2>1, <2>3 DEF Collect, PlanEndsWith, WavesOK, TypeOK, StateTypeOK
    <2>4. CASE result[s] = "success"
        <3>1. completed' = completed \cup {plan.number[s]} /\ wave' = wave /\ phase' \in {"wait", "choose"}
            BY <1>3, <2>4 DEF Collect
        <3>2. phase' = "choose" => \A t \in wave \ {s} : at[t] = "collected"
            BY <1>3, <2>4 DEF Collect
        <3>3. \A n \in completed' : stepResults'[n] = "success"
            BY <1>0, <1>3, <2>1, <2>2, <2>4, <3>1
            DEF Collect, StoreStepResult, WavesOK, TypeOK, StateTypeOK, ExecutorTypeOK
        <3>4. \A t \in Steps : at'[t] \notin {"idle", "collected"} => phase' # "choose" /\ t \in wave'
            BY <1>0, <2>1, <3>1, <3>2 DEF WavesOK, TypeOK, StateTypeOK
        <3>5. \A t \in Steps : at'[t] = "collected" => plan.number[t] \in completed'
            BY <1>0, <2>1, <3>1 DEF WavesOK, TypeOK, StateTypeOK
        <3>6. \A t \in Steps : at'[t] # "idle" => plan.dependsOn[t] \subseteq completed'
            BY <1>0, <2>1, <3>1 DEF WavesOK, TypeOK, StateTypeOK
        <3> QED BY <1>0, <3>3, <3>4, <3>5, <3>6 DEF WavesOK
    <2> QED BY <1>3, <2>3, <2>4 DEF Collect
<1>4. ASSUME NEW s \in Steps, BuildIntent(s) \/ Execute(s) PROVE WavesOK'
    <2>1. PICK from \in LocalPlaces \ {"idle", "collected"}, to \in LocalPlaces \ {"idle", "collected"} :
              Goes(s, from, to)
        BY <1>4 DEF BuildIntent, Execute, BeginHandoff, Chat, CloseHandoff, ReturnHandoff, LocalPlaces
    <2>2. UNCHANGED <<phase, stepResults, wave, completed>>
        BY <1>4 DEF BuildIntent, Execute, BeginHandoff, Chat, CloseHandoff, ReturnHandoff,
                    planVars, executorVars, waveVars
    <2> QED BY <1>0, <2>1, <2>2 DEF WavesOK, Goes, TypeOK, StateTypeOK
<1>5. ASSUME NEW h \in Steps, CancelAccepts(h) \/ CancelApplies(h) \/ CleanupOldHandoffs(h) PROVE WavesOK'
    BY <1>0, <1>5
    DEF CancelAccepts, CancelApplies, CleanupOldHandoffs, planVars, callVars, waveVars, WavesOK
<1> QED BY <1>0, <1>1, <1>2, <1>3, <1>4, <1>5 DEF LocalStep, ExecutorStep, ExecutePlan

\* The invariant the refinement and the other theorems rest on.
LEMMA PlanInvariant == Spec => []PlanInv
<1>1. Init => PlanInv
    <2>1. Init => TypeOK
        BY InitTypes
    <2>2. Init => CallsOK /\ WavesOK
        BY DEF Init, StateInit, ExecutorInit, CallsOK, CallOK, WavesOK, LocalPlaces, BusPlaces, NotBegun
    <2>3. Init => TablesOK
        BY DEF Init, StateInit, ExecutorInit, AsyncInit, TablesOK, Steps
    <2> QED BY <2>1, <2>2, <2>3 DEF PlanInv
<1>2. PlanInv /\ Next => PlanInv'
    BY ExecutorTypes, AsyncTypes, LocalCalls, BusCalls, TablesStep, WavesStep DEF PlanInv, Next
<1>3. PlanInv /\ UNCHANGED vars => PlanInv'
    BY StutterTypes
    DEF vars, planVars, callVars, executorVars, waveVars, asyncVars, PlanInv, CallsOK, CallOK, TablesOK,
        Done, WavesOK
<1> QED BY <1>1, <1>2, <1>3, PTL DEF Spec

-----------------------------------------------------------------------------
(* PlanOrder is implemented *)

Started == {s \in Steps : at[s] \notin NotBegun}
Succeeded == {s \in Steps : result[s] = "success"}

\* As many numbers completed as there are steps: then every step has succeeded.
LEMMA CompletedMeansAll ==
    ASSUME PlanInv, via = "local", AllCompleted PROVE Succeeded = Steps
<1>1. IsFiniteSet(Steps) /\ Cardinality(Steps) = N
    BY HandoffAssumption, FS_Interval DEF HandoffAssumption, Steps
<1>2. IsFiniteSet(Succeeded) /\ Cardinality(Succeeded) <= N
      /\ (Cardinality(Succeeded) = N => Succeeded = Steps)
    BY <1>1, FS_Subset, FS_CardinalityType, HandoffAssumption DEF Succeeded, HandoffAssumption
<1>3. completed \subseteq {plan.number[s] : s \in Succeeded}
    BY DEF PlanInv, TablesOK, Done, Succeeded, TypeOK, ExecutorTypeOK
<1> DEFINE Image == {plan.number[s] : s \in Succeeded}
           number == [s \in Succeeded |-> plan.number[s]]
<1>4. IsFiniteSet(Image) /\ Cardinality(Image) <= Cardinality(Succeeded)
    <2>1. number \in Surjection(Succeeded, Image)
        BY DEF Surjection
    <2> QED BY <1>2, <2>1, FS_Surjection
<1> HIDE DEF Image
<1>5. IsFiniteSet(completed) /\ Cardinality(completed) <= Cardinality(Image)
    BY <1>3, <1>4, FS_Subset DEF Image
<1>6. Cardinality(completed) \in Nat /\ Cardinality(Image) \in Nat /\ Cardinality(Succeeded) \in Nat
    BY <1>2, <1>4, <1>5, FS_CardinalityType
<1> QED BY <1>2, <1>4, <1>5, <1>6, HandoffAssumption DEF AllCompleted, HandoffAssumption

\* A step that neither begins nor ends a handoff, nor the plan, is a stutter.
LEMMA OrderStutters ==
    ASSUME plan' = plan, verdict' = verdict, Started' = Started, Succeeded' = Succeeded
    PROVE  UNCHANGED Order!vars
BY DEF Order!vars, Started, Succeeded

\* A handoff begins.
LEMMA OrderStarts ==
    ASSUME NEW s \in Steps, s \notin Started, \A d \in plan.dependsOn[s] : Done(d),
           Started' = Started \cup {s}, Succeeded' = Succeeded, plan' = plan, verdict' = verdict
    PROVE  Order!Next
<1>1. \A d \in plan.dependsOn[s] : \E t \in Succeeded : plan.number[t] = d
    BY DEF Done, Succeeded
<1>2. Order!Start(s)
    BY <1>1 DEF Order!Start, Started, Succeeded
<1> QED BY <1>2 DEF Order!Next

\* A handoff gets its result.
LEMMA OrderSucceeds ==
    ASSUME NEW s \in Started,
           Started' = Started, Succeeded' \in {Succeeded, Succeeded \cup {s}}, plan' = plan, verdict' = verdict
    PROVE  [Order!Next]_Order!vars
<1>1. CASE Succeeded' = Succeeded
    BY <1>1, OrderStutters
<1>2. CASE Succeeded' = Succeeded \cup {s}
    <2>1. Order!Succeed(s)
        BY <1>2 DEF Order!Succeed, Started, Succeeded
    <2> QED BY <2>1 DEF Order!Next, Started
<1> QED BY <1>1, <1>2

\* The plan gets its verdict.
LEMMA OrderEnds ==
    ASSUME verdict = "executing",
           verdict' = "failed" \/ (verdict' = "completed" /\ Succeeded = Steps),
           plan' = plan, Started' = Started, Succeeded' = Succeeded
    PROVE  Order!Next
<1>1. Order!End
    BY DEF Order!End, Started, Succeeded
<1> QED BY <1>1 DEF Order!Next

\* How a step of one call changes the two sets.
LEMMA SetsOfMove ==
    ASSUME TypeOK, NEW s \in Steps, NEW from, NEW to, Goes(s, from, to),
           \A t \in Steps \ {s} : result'[t] = result[t]
    PROVE  /\ from \notin NotBegun /\ to \notin NotBegun => Started' = Started /\ s \in Started
           /\ from \in NotBegun /\ to \notin NotBegun => Started' = Started \cup {s} /\ s \notin Started
           /\ from \in NotBegun /\ to \in NotBegun => Started' = Started
           /\ result'[s] = result[s] => Succeeded' = Succeeded
           /\ result[s] # "success" => Succeeded' \in {Succeeded, Succeeded \cup {s}}
<1>1. \A t \in Steps : at'[t] = IF t = s THEN to ELSE at[t]
    BY DEF Goes, TypeOK, StateTypeOK
<1>2. at[s] = from
    BY DEF Goes
<1> QED BY <1>1, <1>2 DEF Started, Succeeded

\* Every step of ExecutePlan is one of PlanOrder, or a stutter.
LEMMA LocalOrder == PlanInv /\ LocalStep => [Order!Next]_Order!vars
<1> SUFFICES ASSUME PlanInv, LocalStep PROVE [Order!Next]_Order!vars
    OBVIOUS
<1>0. TypeOK /\ CallsOK /\ TablesOK /\ WavesOK /\ via = "local"
    BY DEF PlanInv, LocalStep
<1>1. CASE PlanCompletes \/ PlanStuck
    <2>1. UNCHANGED <<plan, at, result>> /\ verdict = "executing"
        BY <1>0, <1>1 DEF PlanCompletes, PlanStuck, callVars, TablesOK
    <2>2. verdict' = "failed" \/ (verdict' = "completed" /\ Succeeded = Steps)
        BY <1>0, <1>1, CompletedMeansAll DEF PlanCompletes, PlanStuck, PlanEndsWith
    <2>3. Started' = Started /\ Succeeded' = Succeeded
        BY <2>1 DEF Started, Succeeded
    <2> QED BY <2>1, <2>2, <2>3, OrderEnds
<1>2. CASE LaunchWave
    <2>1. \A s \in ReadySteps : at[s] = "idle"
        BY <1>0, <1>2, ReadyIdle DEF LaunchWave
    <2>2. Started' = Started /\ Succeeded' = Succeeded
        BY <1>2, <2>1 DEF LaunchWave, Started, Succeeded, NotBegun
    <2> QED BY <1>2, <2>2, OrderStutters DEF LaunchWave
<1>3. ASSUME NEW s \in Steps, Collect(s) PROVE [Order!Next]_Order!vars
    <2>1. Goes(s, "returned", "collected") /\ UNCHANGED <<plan, result>> /\ verdict = "executing"
        BY <1>0, <1>3 DEF Collect, TablesOK
    <2>2. Started' = Started /\ Succeeded' = Succeeded
        BY <1>0, <2>1, SetsOfMove DEF NotBegun
    <2>3. verdict' = verdict \/ verdict' = "failed"
        BY <1>3 DEF Collect, PlanEndsWith
    <2> QED BY <2>1, <2>2, <2>3, OrderEnds, OrderStutters
<1>4. ASSUME NEW s \in Steps, BuildIntent(s) PROVE [Order!Next]_Order!vars
    <2>1. Goes(s, "launched", "intent") /\ UNCHANGED <<plan, verdict, result>>
        BY <1>4 DEF BuildIntent, planVars
    <2> QED BY <1>0, <2>1, SetsOfMove, OrderStutters DEF NotBegun
<1>5. ASSUME NEW s \in Steps, BeginHandoff(s) PROVE [Order!Next]_Order!vars
    <2>1. Goes(s, "intent", "executing") /\ UNCHANGED <<plan, verdict, result>>
        BY <1>5 DEF BeginHandoff, planVars
    <2>2. s \notin Started /\ Started' = Started \cup {s} /\ Succeeded' = Succeeded
        BY <1>0, <2>1, SetsOfMove DEF NotBegun
    <2>3. \A d \in plan.dependsOn[s] : Done(d)
        BY <1>0, <2>1 DEF Goes, WavesOK, TablesOK
    <2> QED BY <2>1, <2>2, <2>3, OrderStarts
<1>6. ASSUME NEW s \in Steps, Chat(s) PROVE [Order!Next]_Order!vars
    <2>1. Goes(s, "executing", "closing") /\ UNCHANGED <<plan, verdict>>
        BY <1>6 DEF Chat, planVars
    <2>2. result[s] # "success" /\ \A t \in Steps \ {s} : result'[t] = result[t]
        BY <1>0, <1>6, <2>1 DEF Chat, Goes, CallsOK, CallOK, TypeOK, StateTypeOK
    <2>3. s \in Started /\ Started' = Started /\ Succeeded' \in {Succeeded, Succeeded \cup {s}}
        BY <1>0, <2>1, <2>2, SetsOfMove DEF NotBegun
    <2> QED BY <2>1, <2>3, OrderSucceeds
<1>7. ASSUME NEW s \in Steps, CloseHandoff(s) \/ ReturnHandoff(s) PROVE [Order!Next]_Order!vars
    <2>1. PICK from \in {"closing", "closed"}, to \in {"closed", "returned"} : Goes(s, from, to)
        BY <1>7 DEF CloseHandoff, ReturnHandoff
    <2>2. UNCHANGED <<plan, verdict, result>>
        BY <1>7 DEF CloseHandoff, ReturnHandoff, planVars
    <2> QED BY <1>0, <2>1, <2>2, SetsOfMove, OrderStutters DEF NotBegun
<1>8. ASSUME NEW h \in Steps, CancelAccepts(h) \/ CancelApplies(h) \/ CleanupOldHandoffs(h)
      PROVE  [Order!Next]_Order!vars
    BY <1>8, OrderStutters
    DEF CancelAccepts, CancelApplies, CleanupOldHandoffs, planVars, callVars, Started, Succeeded
<1>9. ExecutorStep
    BY DEF LocalStep
<1> QED BY <1>1, <1>2, <1>3, <1>4, <1>5, <1>6, <1>7, <1>8, <1>9 DEF ExecutorStep, ExecutePlan, Execute

\* Every step of ExecutePlanAsync is one of PlanOrder, or a stutter.
LEMMA BusOrder == PlanInv /\ BusStep => [Order!Next]_Order!vars
<1> SUFFICES ASSUME PlanInv, BusStep PROVE [Order!Next]_Order!vars
    OBVIOUS
<1>0. TypeOK /\ CallsOK /\ TablesOK /\ via = "bus"
    BY DEF PlanInv, BusStep
<1>1. CASE AllStepsDone \/ \E s \in Steps : DependencyNotMet(s)
    <2>1. UNCHANGED <<plan, at, result>> /\ verdict = "executing"
        BY <1>0, <1>1 DEF AllStepsDone, DependencyNotMet, callVars, TablesOK
    <2>2. AllStepsDone => Succeeded = Steps
        <3>1. AllStepsDone => \A s \in Steps : s < position
            BY <1>0, HandoffAssumption DEF AllStepsDone, Steps, HandoffAssumption, TypeOK, AsyncTypeOK
        <3> QED BY <1>0, <3>1 DEF TablesOK, Succeeded
    <2>3. verdict' = "failed" \/ (verdict' = "completed" /\ Succeeded = Steps)
        BY <1>1, <2>2 DEF AllStepsDone, DependencyNotMet, PlanEndsWith
    <2>4. Started' = Started /\ Succeeded' = Succeeded
        BY <2>1 DEF Started, Succeeded
    <2> QED BY <2>1, <2>3, <2>4, OrderEnds
<1>2. ASSUME NEW s \in Steps, RequestStep(s) PROVE [Order!Next]_Order!vars
    <2>1. Goes(s, "idle", "registered") /\ UNCHANGED <<plan, verdict, result>>
        BY <1>2 DEF RequestStep, Register
    <2>2. s \notin Started /\ Started' = Started \cup {s} /\ Succeeded' = Succeeded
        BY <1>0, <2>1, SetsOfMove DEF NotBegun
    <2>3. \A d \in plan.dependsOn[s] : Done(d)
        BY <1>0, <1>2, PlanTypes DEF RequestStep, DependenciesMet, TablesOK, TypeOK
    <2> QED BY <2>1, <2>2, <2>3, OrderStarts
<1>3. ASSUME NEW s \in Steps, CollectAnswer(s) PROVE [Order!Next]_Order!vars
    <2>1. Goes(s, "returned", "collected") /\ UNCHANGED <<plan, result>> /\ verdict = "executing"
        BY <1>0, <1>3 DEF CollectAnswer, TablesOK
    <2>2. Started' = Started /\ Succeeded' = Succeeded
        BY <1>0, <2>1, SetsOfMove DEF NotBegun
    <2>3. verdict' = verdict \/ verdict' = "failed"
        BY <1>3 DEF CollectAnswer, StepSucceeded, StepFailed, StepErred, StepPanics, PlanEndsWith
    <2> QED BY <2>1, <2>2, <2>3, OrderEnds, OrderStutters
<1>4. ASSUME NEW s \in Steps, Publish(s) \/ Leave(s) PROVE [Order!Next]_Order!vars
    <2>1. PICK from \in {"registered", "leaving"}, to \in {"waiting", "returned"} : Goes(s, from, to)
        BY <1>4 DEF Publish, Leave
    <2>2. UNCHANGED <<plan, verdict, result>>
        BY <1>4 DEF Publish, Leave, planVars
    <2> QED BY <1>0, <2>1, <2>2, SetsOfMove, OrderStutters DEF NotBegun
<1>5. ASSUME NEW s \in Steps, PublishFails(s) \/ Wait(s) PROVE [Order!Next]_Order!vars
    <2>1. PICK from \in {"registered", "waiting"} : Goes(s, from, "leaving")
        BY <1>5 DEF PublishFails, Wait, ReceiveAnswer, ReceiveNil, GiveUp, StopWaiting
    <2>2. PICK r : result' = [result EXCEPT ![s] = r]
        BY <1>5 DEF PublishFails, Wait, ReceiveAnswer, ReceiveNil, GiveUp, StopWaiting
    <2>3. UNCHANGED <<plan, verdict>>
        BY <1>5 DEF PublishFails, Wait, ReceiveAnswer, ReceiveNil, GiveUp, StopWaiting, planVars
    <2>4. result[s] # "success" /\ \A t \in Steps \ {s} : result'[t] = result[t]
        BY <1>0, <2>1, <2>2 DEF Goes, CallsOK, CallOK, TypeOK, StateTypeOK
    <2>5. s \in Started /\ Started' = Started /\ Succeeded' \in {Succeeded, Succeeded \cup {s}}
        BY <1>0, <2>1, <2>4, SetsOfMove DEF NotBegun
    <2> QED BY <2>3, <2>5, OrderSucceeds
<1>6. ASSUME UNCHANGED <<plan, verdict, at, result>> PROVE [Order!Next]_Order!vars
    BY <1>6, OrderStutters DEF Started, Succeeded
<1>7. ASSUME \/ Start \/ Stop
             \/ \E m \in Messages : AgentAnswers(m) \/ TakeAnswer(m)
             \/ \E c \in Consumers : SendAnswer(c)
      PROVE  [Order!Next]_Order!vars
    BY <1>6, <1>7 DEF Start, Stop, AgentAnswers, TakeAnswer, SendAnswer, planVars, callVars
<1>8. AsyncStep
    BY DEF BusStep
<1> QED
    BY <1>1, <1>2, <1>3, <1>4, <1>5, <1>7, <1>8 DEF AsyncStep, ExecutePlanAsync, ExecuteWithResponse

\* Both executors implement PlanOrder for every plan: a step starts once, after
\* what it depends on has succeeded, and "completed" means that all steps have.
THEOREM PlansRespectDependencies == Spec => RespectsDependencies
<1>1. Init => Order!Init
    BY DEF Init, StateInit, Order!Init, NotBegun
<1>2. PlanInv /\ [Next]_vars => [Order!Next]_Order!vars
    <2>1. UNCHANGED vars => UNCHANGED Order!vars
        BY OrderStutters DEF vars, planVars, callVars, Started, Succeeded
    <2> QED BY <2>1, LocalOrder, BusOrder DEF Next
<1> QED BY <1>1, <1>2, PlanInvariant, PTL DEF Spec, RespectsDependencies, Order!Spec

-----------------------------------------------------------------------------
(* What a step is told *)

ToldOK == via = "local" => \A s \in Steps : at[s] \notin {"idle", "launched"} => plan.dependsOn[s] \subseteq told[s]

\* The results a wave depends on stay in place while it is collected.
LEMMA ContextsStep == PlanInv /\ ContextsOK /\ ToldOK /\ Next => ContextsOK' /\ ToldOK'
<1> SUFFICES ASSUME PlanInv, ContextsOK, ToldOK, Next, via' = "local" PROVE ContextsOK' /\ ToldOK'
    BY DEF ContextsOK, ToldOK
<1>0. TypeOK /\ WavesOK /\ plan' = plan /\ via = "local" /\ LocalStep
    BY ResultsFinal DEF PlanInv, Next, BusStep
<1>1. CASE PlanCompletes \/ PlanStuck
    BY <1>0, <1>1
    DEF PlanCompletes, PlanStuck, callVars, executorVars, waveVars, ContextsOK, ToldOK
<1>2. CASE LaunchWave
    <2>1. \A s \in ReadySteps : plan.number[s] \notin completed /\ plan.dependsOn[s] \subseteq completed
        BY DEF ReadySteps
    <2>2. \A n \in completed : stepResults[n] = "success"
        BY <1>0, <1>2 DEF LaunchWave, WavesOK
    <2>3. ContextsOK'
        BY <1>0, <1>2, <2>1, <2>2 DEF LaunchWave, ContextsOK
    <2>4. ToldOK'
        BY <1>0, <1>2 DEF LaunchWave, ToldOK
    <2> QED BY <2>3, <2>4
<1>3. ASSUME NEW s \in Steps, Collect(s) PROVE ContextsOK' /\ ToldOK'
    <2>1. wave' = wave /\ s \in wave /\ told' = told /\ Goes(s, "returned", "collected")
        BY <1>3 DEF Collect
    <2>2. \A t \in wave : \A d \in plan.dependsOn[t] : stepResults'[d] = stepResults[d]
        <3>1. \A t \in wave : plan.dependsOn[t] \subseteq Numbers /\ plan.number[s] \notin plan.dependsOn[t]
            BY <1>0, <2>1, PlanTypes DEF ContextsOK, TypeOK, ExecutorTypeOK
        <3> QED BY <1>0, <1>3, <3>1 DEF Collect, StoreStepResult, TypeOK, StateTypeOK
    <2>3. ToldOK'
        BY <1>0, <2>1 DEF Goes, ToldOK, TypeOK, StateTypeOK
    <2> QED BY <1>0, <2>1, <2>2, <2>3 DEF ContextsOK
<1>4. ASSUME NEW s \in Steps, BuildIntent(s) PROVE ContextsOK' /\ ToldOK'
    <2>1. Goes(s, "launched", "intent") /\ UNCHANGED <<wave, stepResults>>
          /\ told' = [told EXCEPT ![s] = PreviousResults(s)]
        BY <1>4 DEF BuildIntent, planVars
    <2>2. plan.dependsOn[s] \subseteq PreviousResults(s)
        BY <1>0, <2>1, PlanTypes DEF Goes, WavesOK, ContextsOK, PreviousResults, TypeOK
    <2>3. ContextsOK'
        BY <1>0, <2>1 DEF ContextsOK
    <2>4. ToldOK'
        BY <1>0, <2>1, <2>2 DEF Goes, ToldOK, TypeOK, StateTypeOK, ExecutorTypeOK
    <2> QED BY <2>3, <2>4
<1>5. ASSUME NEW s \in Steps, Execute(s) PROVE ContextsOK' /\ ToldOK'
    <2>1. PICK from \in LocalPlaces \ {"idle", "launched"}, to \in LocalPlaces : Goes(s, from, to)
        BY <1>5 DEF Execute, BeginHandoff, Chat, CloseHandoff, ReturnHandoff, LocalPlaces
    <2>2. UNCHANGED <<wave, stepResults, told>>
        BY <1>5 DEF Execute, BeginHandoff, Chat, CloseHandoff, ReturnHandoff, planVars, executorVars, waveVars
    <2> QED BY <1>0, <2>1, <2>2 DEF Goes, ContextsOK, ToldOK, TypeOK, StateTypeOK
<1>6. ASSUME NEW h \in Steps, CancelAccepts(h) \/ CancelApplies(h) \/ CleanupOldHandoffs(h)
      PROVE  ContextsOK' /\ ToldOK'
    BY <1>0, <1>6
    DEF CancelAccepts, CancelApplies, CleanupOldHandoffs, planVars, callVars, waveVars, ContextsOK, ToldOK
<1>7. ExecutorStep
    BY <1>0 DEF LocalStep
<1> QED BY <1>1, <1>2, <1>3, <1>4, <1>5, <1>6, <1>7 DEF ExecutorStep, ExecutePlan

\* A step of ExecutePlan gets the results of all it depends on, in every plan
\* and whatever comes in while its goroutine begins.
THEOREM ContextsComplete == Spec => []ContextComplete
<1>1. Init => ContextsOK /\ ToldOK
    BY DEF Init, StateInit, ExecutorInit, ContextsOK, ToldOK
<1>2. ContextsOK /\ ToldOK /\ UNCHANGED vars => ContextsOK' /\ ToldOK'
    BY DEF vars, planVars, callVars, executorVars, waveVars, ContextsOK, ToldOK
<1>3. ToldOK => ContextComplete
    BY DEF ToldOK, ContextComplete
<1> QED BY <1>1, <1>2, <1>3, ContextsStep, PlanInvariant, PTL DEF Spec

-----------------------------------------------------------------------------
(* The records of handoffs *)

\* Only its own steps, CancelHandoff and CleanupOldHandoffs change a record.
LEMMA RecordFrame ==
    ASSUME NEW h \in Steps, RecordOK(h), UNCHANGED <<at, active, endTime, cancelled, status, result>>
    PROVE  RecordOK(h)'
BY DEF RecordOK, Busy, Ended

\* A record changes with its handoff, or by CancelHandoff and CleanupOldHandoffs.
LEMMA RecordsStep == PlanInv /\ RecordsOK /\ Next => RecordsOK'
<1> SUFFICES ASSUME PlanInv, RecordsOK, Next, via' = "local", NEW h \in Steps PROVE RecordOK(h)'
    BY DEF RecordsOK
<1>0. TypeOK /\ CallsOK /\ via = "local" /\ LocalStep /\ RecordOK(h)
    BY ResultsFinal DEF PlanInv, Next, BusStep, RecordsOK
<1>1. CASE PlanCompletes \/ PlanStuck
    BY <1>0, <1>1, RecordFrame
    DEF PlanCompletes, PlanStuck, callVars, executorVars, recordVars, cancelVars
<1>2. CASE LaunchWave
    <2>1. at'[h] = at[h] \/ (at[h] = "idle" /\ at'[h] = "launched")
        BY <1>0, <1>2, ReadyIdle DEF LaunchWave
    <2> QED
        BY <1>0, <1>2, <2>1
        DEF LaunchWave, recordVars, cancelVars, RecordOK, Busy, Ended, NotBegun
<1>3. ASSUME NEW s \in Steps, Collect(s) \/ BuildIntent(s) \/ Chat(s) \/ ReturnHandoff(s) PROVE RecordOK(h)'
    <2>1. UNCHANGED <<active, endTime, cancelled, status>>
        BY <1>3 DEF Collect, BuildIntent, Chat, ReturnHandoff, executorVars, recordVars, cancelVars
    <2>2. /\ at'[h] \in NotBegun <=> at[h] \in NotBegun
          /\ Busy(h)' <=> Busy(h)
          /\ Ended(h)' <=> Ended(h)
        BY <1>0, <1>3
        DEF Collect, BuildIntent, Chat, ReturnHandoff, Goes, Busy, Ended, NotBegun, TypeOK, StateTypeOK
    <2>3. Ended(h) => result'[h] = result[h]
        BY <1>0, <1>3
        DEF Collect, BuildIntent, Chat, ReturnHandoff, Goes, Ended, TypeOK, StateTypeOK
    <2> QED BY <1>0, <2>1, <2>2, <2>3 DEF RecordOK
<1>4. ASSUME NEW s \in Steps, BeginHandoff(s) PROVE RecordOK(h)'
    <2>1. at' = [at EXCEPT ![s] = "executing"] /\ at[s] = "intent"
          /\ status' = [status EXCEPT ![s] = "executing"] /\ active' = active \cup {s}
          /\ UNCHANGED <<result, endTime, cancelled>>
        BY <1>4 DEF BeginHandoff, Goes, cancelVars
    <2>2. s \notin endTime
        BY <1>0, <2>1 DEF RecordsOK, RecordOK, NotBegun
    <2> QED
        BY <1>0, <2>1, <2>2 DEF RecordOK, Busy, Ended, NotBegun, TypeOK, StateTypeOK, ExecutorTypeOK
<1>5. ASSUME NEW s \in Steps, CloseHandoff(s) PROVE RecordOK(h)'
    <2>1. PICK value \in Written(s, FinalStatus(s)) : status' = [status EXCEPT ![s] = value]
        BY <1>5 DEF CloseHandoff
    <2>2. at' = [at EXCEPT ![s] = "closed"] /\ at[s] = "closing" /\ endTime' = endTime \cup {s}
          /\ UNCHANGED <<result, active, cancelled>>
        BY <1>5 DEF CloseHandoff, Goes, cancelVars
    <2>3. h = s /\ h \notin cancelled => value = FinalStatus(h)
        BY <1>0, <2>1, <2>2, WrittenTypes DEF RecordOK, Busy, TypeOK, ExecutorTypeOK
    <2> QED
        BY <1>0, <2>1, <2>2, <2>3
        DEF RecordOK, Busy, Ended, NotBegun, FinalStatus, TypeOK, StateTypeOK, ExecutorTypeOK
<1>6. ASSUME NEW s \in Steps, CancelAccepts(s) PROVE RecordOK(h)'
    <2>1. s \in active /\ cancelled' = cancelled \cup {s}
          /\ UNCHANGED <<at, result, active, endTime, status>>
        BY <1>6 DEF CancelAccepts, callVars, recordVars
    <2> QED BY <1>0, <2>1 DEF RecordOK, Busy, Ended
<1>7. ASSUME NEW s \in Steps, CancelApplies(s) PROVE RecordOK(h)'
    <2>1. PICK value : status' = [status EXCEPT ![s] = value]
        BY <1>7 DEF CancelApplies
    <2>2. s \in cancelled /\ endTime' = endTime \cup {s} /\ UNCHANGED <<at, result, active, cancelled>>
        BY <1>0, <1>7 DEF CancelApplies, callVars, TypeOK, ExecutorTypeOK
    <2> QED BY <1>0, <2>1, <2>2 DEF RecordOK, Busy, Ended, TypeOK, ExecutorTypeOK
<1>8. ASSUME NEW s \in Steps, CleanupOldHandoffs(s) PROVE RecordOK(h)'
    <2>1. s \in endTime /\ active' = active \ {s} /\ UNCHANGED <<at, result, endTime, status, cancelled>>
        BY <1>8 DEF CleanupOldHandoffs, callVars, cancelVars
    <2> QED BY <1>0, <2>1 DEF RecordOK, Busy, Ended
<1>9. ExecutorStep
    BY <1>0 DEF LocalStep
<1> QED
    BY <1>1, <1>2, <1>3, <1>4, <1>5, <1>6, <1>7, <1>8, <1>9 DEF ExecutorStep, ExecutePlan, Execute

\* The records' invariant rests on the calls'.
LEMMA RecordsInvariant == Spec => [](PlanInv /\ RecordsOK)
<1>1. Init => RecordsOK
    BY DEF Init, StateInit, ExecutorInit, RecordsOK, RecordOK, Busy, Ended, NotBegun
<1>2. RecordsOK /\ UNCHANGED vars => RecordsOK'
    BY RecordFrame DEF vars, callVars, executorVars, recordVars, cancelVars, RecordsOK
<1> QED BY <1>1, <1>2, RecordsStep, PlanInvariant, PTL DEF Spec

\* Handoffs are listed as long as they execute and have an end time when they
\* have ended, whatever is cancelled and cleaned up.
THEOREM RecordsTrackHandoffs == Spec => []HandoffsTracked
<1>1. PlanInv /\ RecordsOK => HandoffsTracked
    <2> SUFFICES ASSUME PlanInv, RecordsOK, via = "local", NEW h \in Steps
                 PROVE  /\ Busy(h) /\ h \notin cancelled => h \in active
                        /\ Ended(h) => h \in endTime
                        /\ h \in active => Busy(h) \/ Ended(h)
        BY DEF HandoffsTracked
    <2>1. RecordOK(h) /\ at[h] \in LocalPlaces
        BY DEF RecordsOK, PlanInv, CallsOK, CallOK
    <2> QED BY <2>1 DEF RecordOK, Busy, Ended, NotBegun, LocalPlaces
<1> QED BY <1>1, RecordsInvariant, PTL

\* The status of a handoff nobody cancelled tells how it ended.
THEOREM StatusesTell == Spec => []StatusTells
<1>1. RecordsOK => StatusTells
    BY DEF RecordsOK, RecordOK, StatusTells
<1> QED BY <1>1, RecordsInvariant, PTL

\* Both, with the types of the variables.
THEOREM RecordsTellTheTruth == Spec => []RecordsTell
<1>1. TypeOK /\ HandoffsTracked /\ StatusTells => RecordsTell
  BY DEF RecordsTell
<1> QED BY <1>1, TypeCorrect, RecordsTrackHandoffs, StatusesTell, PTL

-----------------------------------------------------------------------------
(* The registered channels *)

ChannelsOK ==
    /\ \A h \in pendingResults : Awaited(h) /\ h \notin closed
    /\ \A h \in Steps \ closed : Awaited(h) => via = "bus" /\ h \in pendingResults
    /\ \A h \in closed : at[h] # "idle"

\* A channel is registered and removed with its request, or by Stop.
LEMMA ChannelsStep == PlanInv /\ ChannelsOK /\ Next => ChannelsOK'
<1> SUFFICES ASSUME PlanInv, ChannelsOK, Next PROVE ChannelsOK'
    OBVIOUS
<1>0. TypeOK /\ CallsOK /\ CallsOK' /\ via' = via
    BY ResultsFinal, LocalCalls, BusCalls DEF PlanInv, Next
<1>1. CASE LocalStep
    <2>1. UNCHANGED <<pendingResults, closed>> /\ via = "local"
        BY <1>1 DEF LocalStep, asyncVars, requestVars
    <2>2. \A h \in Steps : ~Awaited(h) /\ ~Awaited(h)'
        BY <1>0, <2>1 DEF CallsOK, CallOK, Awaited, LocalPlaces
    <2>3. \A h \in Steps : at[h] # "idle" => at'[h] # "idle"
        BY <1>0, <1>1
        DEF LocalStep, ExecutorStep, ExecutePlan, PlanCompletes, PlanStuck, LaunchWave, Collect, BuildIntent,
            Execute, BeginHandoff, Chat, CloseHandoff, ReturnHandoff, CancelAccepts, CancelApplies,
            CleanupOldHandoffs, callVars, Goes, TypeOK, StateTypeOK
    <2> QED BY <1>0, <2>1, <2>2, <2>3 DEF ChannelsOK, TypeOK, AsyncTypeOK
<1>2. ASSUME BusStep, NEW s \in Steps, RequestStep(s) \/ Publish(s) \/ PublishFails(s) \/ Wait(s)
      PROVE  ChannelsOK'
    <2>1. PICK from \in {"idle", "registered", "waiting"}, to \in {"registered", "waiting", "leaving"} :
               Goes(s, from, to)
        BY <1>2 DEF RequestStep, Register, Publish, PublishFails, Wait, ReceiveAnswer, ReceiveNil, GiveUp,
                    StopWaiting
    <2>2. closed' = closed
        BY <1>2 DEF RequestStep, Register, Publish, PublishFails, Wait, ReceiveAnswer, ReceiveNil, GiveUp,
                    StopWaiting
    <2>3. \/ from = "idle" /\ pendingResults' = pendingResults \cup {s}
          \/ from \in {"registered", "waiting"} /\ pendingResults' = pendingResults
        BY <1>2, <2>1 DEF RequestStep, Register, Publish, PublishFails, Wait, ReceiveAnswer, ReceiveNil, GiveUp,
                          StopWaiting, Goes
    <2>4. via = "bus"
        BY <1>2 DEF BusStep
    <2> QED
        BY <1>0, <2>1, <2>2, <2>3, <2>4 DEF ChannelsOK, Awaited, Goes, TypeOK, StateTypeOK, AsyncTypeOK
<1>3. ASSUME BusStep, NEW s \in Steps, Leave(s) PROVE ChannelsOK'
    <2>1. Goes(s, "leaving", "returned") /\ closed' = closed /\ pendingResults' = pendingResults \ {s}
        BY <1>3 DEF Leave
    <2> QED
        BY <1>0, <2>1 DEF ChannelsOK, Awaited, Goes, TypeOK, StateTypeOK, AsyncTypeOK
<1>4. ASSUME BusStep, NEW s \in Steps, CollectAnswer(s) PROVE ChannelsOK'
    <2>1. Goes(s, "returned", "collected") /\ UNCHANGED <<closed, pendingResults>>
        BY <1>4 DEF CollectAnswer, requestVars
    <2> QED
        BY <1>0, <2>1 DEF ChannelsOK, Awaited, Goes, TypeOK, StateTypeOK, AsyncTypeOK
<1>5. ASSUME Stop PROVE ChannelsOK'
    <2>1. at' = at /\ closed' = closed \cup pendingResults /\ pendingResults' = {}
        BY <1>5 DEF Stop, callVars
    <2> QED BY <1>0, <2>1 DEF ChannelsOK, Awaited
<1>6. ASSUME BusStep,
             \/ AllStepsDone \/ \E s \in Steps : DependencyNotMet(s)
             \/ Start
             \/ \E m \in Messages : AgentAnswers(m) \/ TakeAnswer(m)
             \/ \E c \in Consumers : SendAnswer(c)
      PROVE  ChannelsOK'
    <2>1. UNCHANGED <<at, closed, pendingResults>>
        BY <1>6 DEF AllStepsDone, DependencyNotMet, Start, AgentAnswers, TakeAnswer, SendAnswer,
                    callVars, asyncVars, requestVars
    <2> QED BY <1>0, <2>1 DEF ChannelsOK, Awaited
<1>7. CASE BusStep
    <2>1. AsyncStep
        BY <1>7 DEF BusStep
    <2> QED
        BY <1>2, <1>3, <1>4, <1>5, <1>6, <1>7, <2>1 DEF AsyncStep, ExecutePlanAsync, ExecuteWithResponse
<1> QED BY <1>1, <1>7 DEF Next

\* Channels are registered exactly while their request is made, or until Stop
\* closes them.
THEOREM PendingAreAwaited == Spec => []PendingIsAwaited
<1>1. Init => ChannelsOK
    BY DEF Init, StateInit, AsyncInit, ChannelsOK, Awaited
<1>2. ChannelsOK /\ UNCHANGED vars => ChannelsOK'
    BY DEF vars, callVars, asyncVars, requestVars, ChannelsOK, Awaited
<1>3. ChannelsOK => PendingIsAwaited
    BY DEF ChannelsOK, PendingIsAwaited
<1> QED BY <1>1, <1>2, <1>3, ChannelsStep, PlanInvariant, PTL DEF Spec
=============================================================================

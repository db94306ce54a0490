--------------------------- MODULE AsyncExecutor ---------------------------
(***************************************************************************)
(* The executor over the message bus (pkg/coordination/async.go).          *)
(* ExecutePlanAsync takes the steps one after the other; a request         *)
(* registers a channel, publishes, and waits for the answer, its timeout   *)
(* or its context. The handler of the completion topic looks the channel   *)
(* up under the lock and sends after it; Stop closes the channels.         *)
(*                                                                         *)
(* The agents that answer are external: they answer a published request    *)
(* as often as they like. An answer may be delivered several times, in any *)
(* order, and never. One without result and error has an empty status and  *)
(* counts as a failure. ExecuteAsync and BroadcastIntent only publish.     *)
(***************************************************************************)
EXTENDS HandoffState

CONSTANTS MaxStarts,   \* bound on calls of Start; each makes a consumer
          MaxAnswers,  \* bound on the answers on their way at a time
          NoMessage    \* what an idle consumer handles

Consumers == 1 .. MaxStarts
Messages == [to : Steps, status : {"success", "failure"}]

ASSUME AsyncAssumption ==
    /\ MaxStarts \in Nat /\ MaxAnswers \in Nat
    /\ NoMessage \notin Messages

VARIABLES position,        \* the loop's index into the steps of the plan
          subscribed, starts,
          pendingResults,  \* the requests whose channel is registered
          channel,         \* what is in a channel; its capacity is one
          closed,          \* the requests whose channel Stop has closed
          published,       \* the requests on the assignment topic
          answers,         \* the answers on the completion topic
          handler          \* what each consumer is about to send

requestVars == <<pendingResults, channel, closed, published>>
busVars == <<subscribed, starts, answers, handler>>
asyncVars == <<position, requestVars, busVars>>

AsyncTypeOK ==
    /\ position \in 1 .. N + 1
    /\ subscribed \in BOOLEAN
    /\ starts \in 0 .. MaxStarts
    /\ pendingResults \subseteq Steps
    /\ channel \in [Steps -> {"empty", "success", "failure"}]
    /\ closed \subseteq Steps
    /\ published \subseteq Steps
    /\ answers \subseteq Messages
    /\ handler \in [Consumers -> Messages \cup {NoMessage}]

AsyncInit ==
    /\ position = 1
    /\ subscribed = FALSE /\ starts = 0
    /\ pendingResults = {} /\ closed = {} /\ published = {} /\ answers = {}
    /\ channel = [h \in Steps |-> "empty"]
    /\ handler = [c \in Consumers |-> NoMessage]

-----------------------------------------------------------------------------
(* ExecuteWithResponse *)

Register(h) ==
    /\ Goes(h, "idle", "registered")
    /\ pendingResults' = pendingResults \cup {h}
    /\ UNCHANGED <<plan, verdict, stepResults, result, position, channel, closed, published, busVars, crashed>>

Publish(h) ==
    /\ Goes(h, "registered", "waiting")
    /\ published' = published \cup {h}
    /\ UNCHANGED <<planVars, result, position, pendingResults, channel, closed, busVars, crashed>>

\* The broker may have taken the message all the same.
PublishFails(h) ==
    /\ Goes(h, "registered", "leaving")
    /\ result' = [result EXCEPT ![h] = "err"]
    /\ published' \in {published, published \cup {h}}
    /\ UNCHANGED <<planVars, position, pendingResults, channel, closed, busVars, crashed>>

\* The select of ExecuteWithResponse returns.
StopWaiting(h, r) ==
    /\ Goes(h, "waiting", "leaving")
    /\ result' = [result EXCEPT ![h] = r]
    /\ UNCHANGED <<planVars, position, pendingResults, closed, published, busVars, crashed>>

ReceiveAnswer(h) ==
    /\ channel[h] # "empty"
    /\ StopWaiting(h, channel[h])
    /\ channel' = [channel EXCEPT ![h] = "empty"]

\* A closed channel yields nil, and no error.
ReceiveNil(h) ==
    /\ channel[h] = "empty" /\ h \in closed
    /\ StopWaiting(h, "nil")
    /\ UNCHANGED channel

\* A mutant: the wait ends with the executor only.
GiveUpWhenStopped(h) ==
    /\ ~subscribed
    /\ StopWaiting(h, "timeout")
    /\ UNCHANGED channel

\* The timeout, or the end of the caller's context.
GiveUp(h) ==
    /\ \E r \in {"timeout", "err"} : StopWaiting(h, r)
    /\ UNCHANGED channel

\* A mutant: the entry stays.
LeaveEntry(h) ==
    /\ Goes(h, "leaving", "returned")
    /\ UNCHANGED <<planVars, result, asyncVars, crashed>>

\* The deferred deletion.
Leave(h) ==
    /\ Goes(h, "leaving", "returned")
    /\ pendingResults' = pendingResults \ {h}
    /\ UNCHANGED <<planVars, result, position, channel, closed, published, busVars, crashed>>

-----------------------------------------------------------------------------
(* ExecutePlanAsync *)

DependenciesMet(s) == \A d \in plan.dependsOn[s] : stepResults[d] = "success"

RequestStep(s) ==
    /\ phase = "choose" /\ s = position /\ DependenciesMet(s)
    /\ phase' = "wait"
    /\ Register(s)

DependencyNotMet(s) ==
    /\ phase = "choose" /\ s = position /\ ~DependenciesMet(s)
    /\ PlanEndsWith("failed")
    /\ UNCHANGED <<plan, stepResults, callVars, asyncVars, crashed>>

AllStepsDone ==
    /\ phase = "choose" /\ position > N
    /\ PlanEndsWith("completed")
    /\ UNCHANGED <<plan, stepResults, callVars, asyncVars, crashed>>

StepSucceeded(s) ==
    /\ result[s] = "success"
    /\ StoreStepResult(s, "success")
    /\ position' = position + 1
    /\ phase' = "choose"
    /\ UNCHANGED <<verdict, crashed>>

StepFailed(s) ==
    /\ result[s] \in {"failure", "timeout"}
    /\ StoreStepResult(s, "failure")
    /\ PlanEndsWith("failed")
    /\ UNCHANGED <<position, crashed>>

StepErred(s) ==
    /\ result[s] = "err"
    /\ PlanEndsWith("failed")
    /\ UNCHANGED <<position, stepResults, crashed>>

\* The status of a nil result is read.
StepPanics(s) ==
    /\ result[s] = "nil"
    /\ crashed' = TRUE
    /\ UNCHANGED <<position, phase, verdict, stepResults>>

CollectAnswer(s) ==
    /\ phase = "wait" /\ s = position
    /\ Goes(s, "returned", "collected")
    /\ StepSucceeded(s) \/ StepFailed(s) \/ StepErred(s) \/ StepPanics(s)
    /\ UNCHANGED <<plan, result, requestVars, busVars>>

-----------------------------------------------------------------------------
(* Start, Stop, the answering agents and the handler *)

Start ==
    /\ ~subscribed /\ starts < MaxStarts
    /\ subscribed' = TRUE
    /\ starts' = starts + 1
    /\ UNCHANGED <<planVars, callVars, position, requestVars, answers, handler, crashed>>

\* The consumer takes no further message, but a handler in progress goes on.
Stop ==
    /\ subscribed
    /\ subscribed' = FALSE
    /\ closed' = closed \cup pendingResults
    /\ pendingResults' = {}
    /\ UNCHANGED <<planVars, callVars, position, channel, published, starts, answers, handler, crashed>>

AgentAnswers(m) ==
    /\ m.to \in published /\ Cardinality(answers) < MaxAnswers
    /\ answers' = answers \cup {m}
    /\ UNCHANGED <<planVars, callVars, position, requestVars, subscribed, starts, handler, crashed>>

\* handleTaskComplete up to the lookup; an answer nobody waits for is dropped.
TakeAnswer(m) ==
    /\ subscribed /\ m \in answers /\ handler[starts] = NoMessage
    /\ answers' \in {answers, answers \ {m}}
    /\ handler' = IF m.to \in pendingResults THEN [handler EXCEPT ![starts] = m] ELSE handler
    /\ UNCHANGED <<planVars, callVars, position, requestVars, subscribed, starts, crashed>>

HandlerDone(c) == handler' = [handler EXCEPT ![c] = NoMessage]

\* A send to a closed channel panics, even in a select with a default.
SendPanics(c) ==
    /\ handler[c].to \in closed
    /\ crashed' = TRUE
    /\ UNCHANGED channel

SendSucceeds(c) ==
    /\ handler[c].to \notin closed /\ channel[handler[c].to] = "empty"
    /\ channel' = [channel EXCEPT ![handler[c].to] = handler[c].status]
    /\ UNCHANGED crashed

SendIgnored(c) ==
    /\ handler[c].to \notin closed /\ channel[handler[c].to] # "empty"
    /\ UNCHANGED <<channel, crashed>>

SendAnswer(c) ==
    /\ handler[c] # NoMessage
    /\ SendPanics(c) \/ SendSucceeds(c) \/ SendIgnored(c)
    /\ HandlerDone(c)
    /\ UNCHANGED <<planVars, callVars, position, pendingResults, closed, published,
                   subscribed, starts, answers>>

ExecutePlanAsync ==
    AllStepsDone \/ \E s \in Steps : RequestStep(s) \/ DependencyNotMet(s) \/ CollectAnswer(s)

Wait(h) == ReceiveAnswer(h) \/ ReceiveNil(h) \/ GiveUp(h)

ExecuteWithResponse(h) == Publish(h) \/ PublishFails(h) \/ Wait(h) \/ Leave(h)

AsyncStep ==
    \/ ExecutePlanAsync
    \/ \E h \in Steps : ExecuteWithResponse(h)
    \/ Start \/ Stop
    \/ \E m \in Messages : AgentAnswers(m) \/ TakeAnswer(m)
    \/ \E c \in Consumers : SendAnswer(c)
=============================================================================

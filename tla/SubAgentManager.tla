-------------------------- MODULE SubAgentManager --------------------------
(***************************************************************************)
(* The sub-agent manager (pkg/subagent/manager.go): a sub-agent is spawned *)
(* for a request and executed by a goroutine of its own, with retries;     *)
(* Cancel, Cleanup and the trust operations come in between.               *)
(*                                                                         *)
(* The status is written under the manager's lock but read and decided on  *)
(* outside it, and nothing but the status tells the goroutine of a         *)
(* cancellation, so it goes on and writes its own status later.            *)
(* The deadline of an execution changes no step of it: the break at the    *)
(* end of the back-off leaves the select, and the next attempt runs        *)
(* (with a context that is done, which is the executor's business).        *)
(* Events, tools, contexts and the inbox are left out.                     *)
(***************************************************************************)
EXTENDS Naturals, FiniteSets

CONSTANTS Agents,            \* the spawn requests, and the sub-agents they become
          Types,             \* agent types
          AgentType,         \* the type a request asks for
          RunInBackground,   \* the requests whose execution Spawn does not start
          MaxRetries,
          MinSuccessCount,   \* of the promotion criteria
          AutoPromote,
          MaxCancels, MaxInterventions   \* bounds on what the user does

ASSUME ManagerAssumption ==
    /\ IsFiniteSet(Agents)
    /\ AgentType \in [Agents -> Types]
    /\ RunInBackground \subseteq Agents
    /\ {MaxRetries, MinSuccessCount, MaxCancels, MaxInterventions} \subseteq Nat
    /\ AutoPromote \in BOOLEAN

VARIABLES status,       \* of each sub-agent; "none" before it is spawned
          listed,       \* Manager.agents
          at,           \* how far the goroutine of a sub-agent has come
          attempts,     \* in the retry loop: calls of the executor so far
          outcome,      \* what the last call of the executor returned
          trustTracker, \* the record of a type
          cancelling,   \* Cancel has looked at the status and not yet set it
          cancelled,    \* history: the sub-agents Cancel has accepted
          granted,      \* history: levels given to a type by Promote
          interventions \* history: trust operations of the user so far

executionVars == <<status, at, attempts, outcome>>
cancelVars == <<cancelling, cancelled>>
trustVars == <<trustTracker, granted, interventions>>
managerVars == <<executionVars, listed, cancelVars, trustVars>>

Terminal == {"completed", "failed", "cancelled"}
Cancellable == {"pending", "running"}   \* nothing sets "waiting"

\* "error" is an error without a result, "failure" a result without success.
Outcomes == {"success", "failure", "error"}

TrustRecord == [known : BOOLEAN, consecutive : Nat, successes : Nat,
                failures : Nat, overridden : BOOLEAN, level : 0 .. 2]

ManagerTypeOK ==
    /\ status \in [Agents -> Terminal \cup Cancellable \cup {"none"}]
    /\ listed \subseteq Agents
    /\ at \in [Agents -> {"idle", "ready", "attempt", "backoff", "store", "settle",
                          "record", "promote", "done"}]
    /\ attempts \in [Agents -> 0 .. MaxRetries + 1]
    /\ outcome \in [Agents -> Outcomes \cup {"none"}]
    /\ trustTracker \in [Types -> TrustRecord]
    /\ cancelling \subseteq cancelled
    /\ cancelled \subseteq Agents
    /\ granted \in [Types -> Nat]
    /\ interventions \in 0 .. MaxInterventions

ManagerInit ==
    /\ status = [a \in Agents |-> "none"]
    /\ listed = {}
    /\ at = [a \in Agents |-> "idle"]
    /\ attempts = [a \in Agents |-> 0]
    /\ outcome = [a \in Agents |-> "none"]
    /\ trustTracker = [t \in Types |-> [known |-> FALSE, consecutive |-> 0, successes |-> 0,
                                        failures |-> 0, overridden |-> FALSE, level |-> 0]]
    /\ cancelling = {} /\ cancelled = {}
    /\ granted = [t \in Types |-> 0]
    /\ interventions = 0

-----------------------------------------------------------------------------
(* Spawn and the goroutine that executes *)

\* A goroutine of execute goes from one place to another.
Goes(a, from, to) == at[a] = from /\ at' = [at EXCEPT ![a] = to]

Spawn(a) ==
    /\ status' = [status EXCEPT ![a] = "pending"]
    /\ listed' = listed \cup {a}
    /\ at' = [at EXCEPT ![a] = IF a \in RunInBackground THEN "idle" ELSE "ready"]
    /\ attempts' = [attempts EXCEPT ![a] = 0]
    /\ outcome' = [outcome EXCEPT ![a] = "none"]
    /\ UNCHANGED <<cancelVars, trustVars>>

\* execute: whatever has become of the status since Spawn.
BeginExecution(a) ==
    /\ Goes(a, "ready", "attempt")
    /\ status' = [status EXCEPT ![a] = "running"]
    /\ UNCHANGED <<listed, attempts, outcome, cancelVars, trustVars>>

\* The executor returns, and the loop ends or goes on to the next attempt.
Try(a, result, last) ==
    /\ attempts' = [attempts EXCEPT ![a] = @ + 1]
    /\ \/ /\ result = "success" \/ last
          /\ Goes(a, "attempt", "store")
          /\ outcome' = [outcome EXCEPT ![a] = result]
       \/ /\ result # "success" /\ ~last
          /\ Goes(a, "attempt", "backoff")
          /\ UNCHANGED outcome
    /\ UNCHANGED <<status, listed, cancelVars, trustVars>>

Attempt(a) == \E result \in Outcomes : Try(a, result, attempts[a] = MaxRetries)

\* The pause is over, or the execution's context is done.
BackoffEnds(a) ==
    /\ Goes(a, "backoff", "attempt")
    /\ UNCHANGED <<status, listed, attempts, outcome, cancelVars, trustVars>>

\* agent.Result and agent.CompletedAt are set before the status.
StoreResult(a) ==
    /\ Goes(a, "store", "settle")
    /\ attempts' = [attempts EXCEPT ![a] = 0]
    /\ UNCHANGED <<status, listed, outcome, cancelVars, trustVars>>

SetFinalStatus(a) ==
    /\ Goes(a, "settle", "record")
    /\ status' = [status EXCEPT ![a] = IF outcome[a] = "success" THEN "completed" ELSE "failed"]
    /\ UNCHANGED <<listed, attempts, outcome, cancelVars, trustVars>>

\* The Result field of a sub-agent; "none" for nil.
Result(a) ==
    IF at[a] \in {"settle", "record", "promote", "done"} /\ outcome[a] # "error"
    THEN outcome[a] ELSE "none"

-----------------------------------------------------------------------------
(* Trust *)

Succeeded(record) ==
    [record EXCEPT !.known = TRUE, !.consecutive = @ + 1, !.successes = @ + 1]

Failed(record) ==
    [record EXCEPT !.known = TRUE, !.consecutive = 0, !.failures = @ + 1]

RecordExecution(a) ==
    LET t == AgentType[a]
        success == outcome[a] = "success" IN
    /\ Goes(a, "record", IF success /\ AutoPromote THEN "promote" ELSE "done")
    /\ trustTracker' = [trustTracker EXCEPT ![t] = IF success THEN Succeeded(@) ELSE Failed(@)]
    /\ UNCHANGED <<status, listed, attempts, outcome, cancelVars, granted, interventions>>

Demoted(record) == [record EXCEPT !.level = @ - 1]
Promoted(record) == [record EXCEPT !.level = @ + 1]

\* A mutant: any success promotes.
JudgedHastily(record) ==
    IF record.level = 2 THEN record
    ELSE IF record.failures >= 2 THEN IF record.level > 0 THEN Demoted(record) ELSE record
    ELSE IF ~record.overridden THEN Promoted(record)
    ELSE record

\* checkPromotion for a record: a level 2 type is left alone.
Judged(record) ==
    IF record.level = 2 THEN record
    ELSE IF record.failures >= 2 THEN IF record.level > 0 THEN Demoted(record) ELSE record
    ELSE IF record.consecutive >= MinSuccessCount /\ ~record.overridden THEN Promoted(record)
    ELSE record

\* By then the record may hold other executions of the type as well.
CheckPromotion(a) ==
    /\ Goes(a, "promote", "done")
    /\ trustTracker' = [trustTracker EXCEPT ![AgentType[a]] = Judged(@)]
    /\ UNCHANGED <<status, listed, attempts, outcome, cancelVars, granted, interventions>>

\* RecordUserOverride, Demote and Promote.
Intervene(t, record, levels) ==
    /\ interventions < MaxInterventions
    /\ interventions' = interventions + 1
    /\ trustTracker' = [trustTracker EXCEPT ![t] = record]
    /\ granted' = [granted EXCEPT ![t] = @ + levels]
    /\ UNCHANGED <<executionVars, listed, cancelVars>>

RecordUserOverride(t) ==
    /\ trustTracker[t].known
    /\ Intervene(t, [trustTracker[t] EXCEPT !.overridden = TRUE, !.consecutive = 0], 0)

Demote(t) ==
    /\ trustTracker[t].level > 0
    /\ Intervene(t, Demoted(trustTracker[t]), 0)

Promote(t) ==
    /\ trustTracker[t].level < 2
    /\ Intervene(t, [Promoted(trustTracker[t]) EXCEPT !.known = TRUE], 1)

-----------------------------------------------------------------------------
(* Cancel, Cleanup, Wait *)

CancelAccepts(a) ==
    /\ a \in listed /\ status[a] \in Cancellable
    /\ Cardinality(cancelled) < MaxCancels
    /\ cancelling' = cancelling \cup {a}
    /\ cancelled' = cancelled \cup {a}
    /\ UNCHANGED <<executionVars, listed, trustVars>>

\* The status may have changed since.
CancelApplies(a) ==
    /\ a \in cancelling
    /\ status' = [status EXCEPT ![a] = "cancelled"]
    /\ cancelling' = cancelling \ {a}
    /\ UNCHANGED <<at, attempts, outcome, listed, cancelled, trustVars>>

\* Any sub-agent that has ended may be old enough.
Cleanup(a) ==
    /\ a \in listed /\ status[a] \in Terminal
    /\ listed' = listed \ {a}
    /\ UNCHANGED <<executionVars, cancelVars, trustVars>>

\* A mutant: Wait does not know the status cancelled.
WaitReturnsUncancelled(a) == a \in listed /\ status[a] \in {"completed", "failed"}

\* Wait's poll returns the sub-agent, or "agent not found".
WaitReturns(a) == a \in listed /\ status[a] \in Terminal
WaitFails(a) == a \notin listed

Execute(a) ==
    \/ BeginExecution(a) \/ Attempt(a) \/ BackoffEnds(a) \/ StoreResult(a)
    \/ SetFinalStatus(a) \/ RecordExecution(a) \/ CheckPromotion(a)

ManagerStep ==
    \/ \E a \in Agents : Execute(a) \/ CancelAccepts(a) \/ CancelApplies(a) \/ Cleanup(a)
    \/ \E t \in Types : RecordUserOverride(t) \/ Demote(t) \/ Promote(t)

-----------------------------------------------------------------------------
\* A type rises by itself only after MinSuccessCount of its executions have
\* succeeded, and by no more levels than that many: checkPromotion runs after
\* the record of its execution, when others may have changed it.
TrustIsEarned ==
    \A t \in Types :
        LET record == trustTracker[t] IN
        /\ record.level > granted[t] => record.successes >= MinSuccessCount
        /\ record.level <= granted[t] + record.successes
=============================================================================

---------------------------- MODULE Conversation ----------------------------
(***************************************************************************)
(* The conversation of the terminal interface (internal/cli/tui/model.go). *)
(* Update handles one message at a time: a key, or what a command returns. *)
(* Commands run in goroutines of their own, so their messages come in any  *)
(* order, and nothing but a running stream keeps the user from sending     *)
(* more while a request is under way. A command and the message it returns *)
(* are one element of inFlight, removed when Update handles the message.   *)
(*                                                                         *)
(* Left out: rendering, autocompletion, the slash commands that only show  *)
(* something, and which agent is asked. Texts are known by the message of  *)
(* the user (1 .. MaxSends) that led to them.                              *)
(***************************************************************************)
EXTENDS Naturals

CONSTANTS MaxSends,            \* bound on the user's messages
          MaxKeys,             \* bound on the presses of Ctrl+Y and Ctrl+N
          MaxToolIterations    \* maxToolIterations, 25 in the code

ASSUME ConversationAssumption == MaxSends \in Nat /\ MaxKeys \in Nat /\ MaxToolIterations \in Nat

Turns == 1 .. MaxSends
Keys == 1 .. MaxKeys
Calls == {"harmless", "risky"}     \* write_file, edit_file and bash are risky

VARIABLES streamResponse,   \* the configuration: are replies streamed?
          mode,             \* autonomyMode
          streaming,
          activity,         \* activity.Active
          chunkCount,       \* 0, or 1 for any other number
          streamBuffer,     \* the turns whose text it holds
          recorded,         \* what was added to the history for the stream of a turn
          toolIterations,
          pendingPlan,
          pendingApprovals, \* the turn and the calls, or NoApproval
          handoffs,         \* entries of activeHandoffs still shown as executing
          inFlight,
          sends, keys,      \* how many so far
          quitting

conversationVars == <<streamResponse, mode, streaming, activity, chunkCount, streamBuffer, recorded, toolIterations,
          pendingPlan, pendingApprovals, handoffs, inFlight, sends, keys, quitting>>

NoApproval == [turn |-> 0, calls |-> {}]
Approvals == [turn : Turns, calls : SUBSET Calls \ {{}}]

Messages ==
    [kind : {"request", "stream", "send error", "limit", "proposed", "handoff", "handoff started",
             "handoff completed", "dispatch"}, turn : Turns]
      \cup [kind : {"detected", "execute"}, turn : Turns, calls : SUBSET Calls \ {{}}]
      \cup [kind : {"approve", "deny", "stream end"}, key : Keys]

ConversationTypeOK ==
    /\ streamResponse \in BOOLEAN /\ mode \in {"plan", "auto"}
    /\ streaming \in BOOLEAN /\ activity \in BOOLEAN /\ chunkCount \in 0 .. 1
    /\ streamBuffer \subseteq Turns
    /\ recorded \in [Turns -> SUBSET Turns]
    /\ toolIterations \in 0 .. MaxToolIterations + MaxSends
    /\ pendingPlan \in BOOLEAN
    /\ pendingApprovals \in Approvals \cup {NoApproval}
    /\ handoffs \in Nat
    /\ inFlight \subseteq Messages
    /\ sends \in 0 .. MaxSends /\ keys \in 0 .. MaxKeys
    /\ quitting \in BOOLEAN

ConversationInit ==
    /\ streamResponse \in BOOLEAN /\ mode = "plan"
    /\ streaming = FALSE /\ activity = FALSE /\ chunkCount = 0
    /\ streamBuffer = {} /\ recorded = [t \in Turns |-> {}]
    /\ toolIterations = 0
    /\ pendingPlan = FALSE /\ pendingApprovals = NoApproval
    /\ handoffs = 0 /\ inFlight = {}
    /\ sends = 0 /\ keys = 0 /\ quitting = FALSE

Command(kind, t) == [kind |-> kind, turn |-> t]
Batch(kind, t, calls) == [kind |-> kind, turn |-> t, calls |-> calls]

\* Update handles m and returns the commands next.
Handle(m, next) == m \in inFlight /\ inFlight' = (inFlight \ {m}) \cup next

StreamState == <<streamResponse, streaming, chunkCount, streamBuffer, recorded>>
ToolState == <<toolIterations, pendingApprovals>>
UserState == <<mode, sends, keys, quitting>>
Agents == <<pendingPlan, handoffs>>

-----------------------------------------------------------------------------
\* Keys. While a reply is streamed all but the interrupt are ignored.
KeyAccepted == ~quitting /\ ~streaming

\* sendMessage: nothing checks whether another request is under way.
SendMessage ==
    /\ KeyAccepted /\ sends < MaxSends
    /\ sends' = sends + 1
    /\ toolIterations' = 0
    /\ \/ /\ activity' = TRUE
          /\ inFlight' = inFlight \cup {Command(IF streamResponse THEN "stream" ELSE "request", sends')}
       \/ /\ activity' = FALSE     \* no provider for the agent
          /\ inFlight' = inFlight \cup {Command("send error", sends')}
    /\ UNCHANGED <<StreamState, pendingApprovals, Agents, mode, keys, quitting>>

HandleDispatch ==
    /\ KeyAccepted /\ sends < MaxSends
    /\ sends' = sends + 1
    /\ inFlight' = inFlight \cup {Command("dispatch", sends')}
    /\ UNCHANGED <<StreamState, ToolState, Agents, activity, mode, keys, quitting>>

\* Ctrl+A, and /plan from auto mode.
ToggleMode ==
    /\ KeyAccepted
    /\ mode' = IF mode = "auto" THEN "plan" ELSE "auto"
    /\ UNCHANGED <<StreamState, ToolState, Agents, activity, inFlight, sends, keys, quitting>>

\* Ctrl+Y and Ctrl+N decide on the plan first, then on the tools. The tools stay
\* pending until the message is handled.
Decide(kind) ==
    /\ KeyAccepted /\ keys < MaxKeys
    /\ keys' = keys + 1
    /\ \/ /\ pendingPlan /\ pendingPlan' = FALSE
          /\ UNCHANGED inFlight
       \/ /\ ~pendingPlan /\ pendingApprovals # NoApproval
          /\ inFlight' = inFlight \cup {[kind |-> kind, key |-> keys']}
          /\ UNCHANGED pendingPlan
    /\ UNCHANGED <<StreamState, ToolState, handoffs, activity, mode, sends, quitting>>

\* Ctrl+C or Esc while streaming. The stream's command stays under way.
Interrupt ==
    /\ streaming /\ ~quitting /\ keys < MaxKeys
    /\ keys' = keys + 1
    /\ streaming' = FALSE
    /\ inFlight' = inFlight \cup {[kind |-> "stream end", key |-> keys']}
    /\ UNCHANGED <<streamResponse, chunkCount, streamBuffer, recorded, ToolState, Agents, activity, mode, sends, quitting>>

Quit ==
    /\ KeyAccepted
    /\ quitting' = TRUE
    /\ UNCHANGED <<StreamState, ToolState, Agents, activity, inFlight, mode, sends, keys>>

-----------------------------------------------------------------------------
\* Streamed replies: a chunk, the last chunk, the end without one, an error.
StreamChunk(t) ==
    /\ Command("stream", t) \in inFlight
    /\ streaming' = TRUE
    /\ chunkCount' = 1
    /\ activity' = IF chunkCount = 0 THEN TRUE ELSE activity
    /\ streamBuffer' = streamBuffer \cup {t}
    /\ UNCHANGED <<streamResponse, recorded, ToolState, Agents, UserState, inFlight>>

\* A stream is neither searched for tool calls nor for handoffs.
StreamDone(t) ==
    /\ Handle(Command("stream", t), {})
    /\ streaming' = FALSE /\ activity' = FALSE /\ chunkCount' = 0
    /\ streamBuffer' = streamBuffer \cup {t}
    /\ recorded' = [recorded EXCEPT ![t] = streamBuffer']
    /\ UNCHANGED <<streamResponse, ToolState, Agents, UserState>>

EndStreaming ==
    /\ streaming' = FALSE /\ activity' = FALSE
    /\ UNCHANGED <<streamResponse, chunkCount, streamBuffer, recorded, ToolState, Agents, UserState>>

\* StreamEndMsg and StreamErrorMsg.
StreamEnds ==
    /\ \/ \E t \in Turns : Handle(Command("stream", t), {}) \/ Handle(Command("send error", t), {})
       \/ \E k \in Keys : Handle([kind |-> "stream end", key |-> k], {})
    /\ EndStreaming

-----------------------------------------------------------------------------
\* ChatResponseMsg, of a request or of a dispatch to a machine. Without tool
\* calls or handoffs in it, or with an error.
PlainResponse(t) ==
    /\ Handle(Command("request", t), {}) \/ Handle(Command("dispatch", t), {})
    /\ activity' = FALSE
    /\ UNCHANGED <<StreamState, ToolState, Agents, UserState>>

\* A dispatch that fails returns an ErrorMsg.
DispatchFails(t) ==
    /\ Handle(Command("dispatch", t), {})
    /\ UNCHANGED <<StreamState, ToolState, Agents, UserState, activity>>

\* A mutant: the iterations are not counted.
ResponseWithToolsUncounted(t) ==
    /\ activity' = FALSE
    /\ \E calls \in SUBSET Calls \ {{}} : Handle(Command("request", t), {Batch("detected", t, calls)})
    /\ UNCHANGED <<StreamState, ToolState, Agents, UserState>>

ResponseWithTools(t) ==
    /\ activity' = FALSE
    /\ toolIterations' = toolIterations + 1
    /\ IF toolIterations' > MaxToolIterations
       THEN Handle(Command("request", t), {Command("limit", t)})
       ELSE \E calls \in SUBSET Calls \ {{}} :
              Handle(Command("request", t), {Batch("detected", t, calls)})
    /\ UNCHANGED <<StreamState, pendingApprovals, Agents, UserState>>

ResponseWithPlan(t) ==
    /\ mode = "plan"
    /\ Handle(Command("request", t), {Command("proposed", t)})
    /\ activity' = FALSE /\ pendingPlan' = TRUE
    /\ UNCHANGED <<StreamState, ToolState, handoffs, UserState>>

\* In either mode: the second search for intents does not ask for it.
ResponseWithIntent(t) ==
    /\ Handle(Command("request", t), {Command("handoff", t)})
    /\ activity' = TRUE
    /\ UNCHANGED <<StreamState, ToolState, Agents, UserState>>

\* PlanProposedMsg sets the plan again, whatever the user decided meanwhile.
PlanProposed(t) ==
    /\ Handle(Command("proposed", t), {})
    /\ pendingPlan' = TRUE
    /\ UNCHANGED <<StreamState, ToolState, handoffs, UserState, activity>>

-----------------------------------------------------------------------------
\* ToolCallDetectedMsg. In plan mode the risky calls are asked for, and only they.
ToolCallDetected(t, calls) ==
    /\ LET ask == mode = "plan" /\ "risky" \in calls IN
         /\ Handle(Batch("detected", t, calls), IF ask THEN {} ELSE {Batch("execute", t, calls)})
         /\ pendingApprovals' = IF ask THEN [turn |-> t, calls |-> {"risky"}] ELSE pendingApprovals
         /\ activity' = IF ask THEN activity ELSE TRUE
    /\ UNCHANGED <<StreamState, toolIterations, Agents, UserState>>

\* Without an executor the calls are dropped.
ToolsUnavailable(t, calls) ==
    /\ Handle(Batch("detected", t, calls), {})
    /\ UNCHANGED <<StreamState, ToolState, Agents, UserState, activity>>

ToolApproveAll(k) ==
    /\ Handle([kind |-> "approve", key |-> k],
              IF pendingApprovals = NoApproval THEN {}
              ELSE {Batch("execute", pendingApprovals.turn, pendingApprovals.calls)})
    /\ activity' = IF pendingApprovals = NoApproval THEN activity ELSE TRUE
    /\ pendingApprovals' = NoApproval
    /\ UNCHANGED <<StreamState, toolIterations, Agents, UserState>>

ToolDenyAll(k) ==
    /\ Handle([kind |-> "deny", key |-> k], {})
    /\ toolIterations' = IF pendingApprovals = NoApproval THEN toolIterations ELSE 0
    /\ pendingApprovals' = NoApproval
    /\ UNCHANGED <<StreamState, Agents, UserState, activity>>

\* ToolExecutionCompleteMsg, and continueWithToolResults: never streamed.
ToolExecutionComplete(t, calls) ==
    /\ Handle(Batch("execute", t, calls), {Command("request", t)})
    /\ activity' = FALSE
    /\ UNCHANGED <<StreamState, ToolState, Agents, UserState>>

ToolIterationLimit(t) ==
    /\ Handle(Command("limit", t), {})
    /\ activity' = FALSE /\ toolIterations' = 0
    /\ UNCHANGED <<StreamState, pendingApprovals, Agents, UserState>>

-----------------------------------------------------------------------------
\* executeHandoff: an error, or the start and the end as two messages.
ExecuteHandoff(t) ==
    /\ \/ Handle(Command("handoff", t), {Command("handoff completed", t)})
       \/ Handle(Command("handoff", t), {Command("handoff started", t), Command("handoff completed", t)})
    /\ UNCHANGED <<StreamState, ToolState, Agents, UserState, activity>>

HandoffStarted(t) ==
    /\ Handle(Command("handoff started", t), {})
    /\ handoffs' = handoffs + 1
    /\ UNCHANGED <<StreamState, ToolState, pendingPlan, UserState, activity>>

\* Whichever entry is the first one shown as executing becomes completed.
HandoffCompleted(t) ==
    /\ Handle(Command("handoff completed", t), {})
    /\ activity' = FALSE
    /\ handoffs' = IF handoffs = 0 THEN 0 ELSE handoffs - 1
    /\ UNCHANGED <<StreamState, ToolState, pendingPlan, UserState>>

-----------------------------------------------------------------------------
UserStep == SendMessage \/ HandleDispatch \/ ToggleMode \/ Decide("approve") \/ Decide("deny") \/ Interrupt \/ Quit

ToolStep ==
    \/ \E t \in Turns, calls \in SUBSET Calls \ {{}} :
         ToolCallDetected(t, calls) \/ ToolsUnavailable(t, calls) \/ ToolExecutionComplete(t, calls)
    \/ \E t \in Turns : ToolIterationLimit(t)
    \/ \E k \in Keys : ToolApproveAll(k) \/ ToolDenyAll(k)

\* What a command returns is handled, and the stream's end comes.
MessageStep ==
    /\ ~quitting
    /\ \/ ToolStep
       \/ StreamEnds
       \/ \E t \in Turns :
            \/ StreamDone(t) \/ PlainResponse(t) \/ DispatchFails(t)
            \/ ResponseWithTools(t) \/ ResponseWithPlan(t) \/ ResponseWithIntent(t)
            \/ PlanProposed(t) \/ ExecuteHandoff(t) \/ HandoffStarted(t) \/ HandoffCompleted(t)

ConversationNext ==
    \/ UserStep
    \/ MessageStep
    \/ ~quitting /\ \E t \in Turns : StreamChunk(t)

ConversationSpec == ConversationInit /\ [][ConversationNext]_conversationVars

\* Commands return, by their timeouts of at most five minutes; a stream ends with
\* its context, however many chunks it has. The user need not do anything.
ConversationFairness == WF_conversationVars(MessageStep)

-----------------------------------------------------------------------------
\* When no command is under way the interface is ready for input: it neither
\* ignores keys as if a reply were streamed nor shows an activity. Late chunks of
\* an interrupted stream and the ends of requests in any order must not leave one.
QuietIsReady ==
    /\ ConversationTypeOK
    /\ inFlight = {} => ~streaming /\ ~activity

\* Whatever the agents answer, the conversation comes to rest until the user acts
\* again, ready for input: tool calls and handoffs do not keep one another going,
\* although every message of the user and every denial resets the count of the
\* iterations.
ConversationSettles == []QuietIsReady /\ []<>(inFlight = {} \/ quitting)

\* model.go:480 "Add completed stream to conversation history": what is recorded
\* for a stream is its own text.
ReplyIsItsOwn == \A t \in Turns : recorded[t] \subseteq {t}
=============================================================================

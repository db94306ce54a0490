----------------------------- MODULE Transcript -----------------------------
(***************************************************************************)
(* What the terminal interface (internal/cli/tui/model.go) shows, what it  *)
(* remembers and tells the models, and what it saves of it: the messages   *)
(* on the screen, conversationHistory and the session's file, with the     *)
(* slash commands and the answers of providers that change them. Answers   *)
(* are handled in any order.                                               *)
(*                                                                         *)
(* A text is known by the prompt (1 .. MaxPrompts) it answers, 0 for an    *)
(* earlier session. Of the screen only the message that comes last counts. *)
(* Left out: layout and copying, and plans, the mode, the      *)
(* approval of tools and their limit (see Conversation). Every model has a *)
(* provider: the three there are are registered.                           *)
(***************************************************************************)
EXTENDS Naturals, Sequences, SequencesExt

CONSTANTS ChatAgents, FirstAgent,    \* in the databases; currentAgent at the start
          ChatModels, FirstModel,    \* DefaultModel of every agent at the start
          Skills,                    \* those that are not always active
          ContextFiles,              \* SYNTOR.md and CENTAUR.md
          MaxPrompts, MaxSlashes, MaxNotices, MaxToolRounds   \* bounds; tool rounds of one prompt

ASSUME TranscriptAssumption ==
    /\ FirstAgent \in ChatAgents /\ FirstModel \in ChatModels
    /\ MaxPrompts \in Nat /\ MaxSlashes \in Nat /\ MaxNotices \in Nat /\ MaxToolRounds \in Nat

VARIABLES screen,         \* the last of m.messages
          conversation,   \* m.conversationHistory
          sessionLog,     \* the session's file, and lastSavedIndex of its manager
          savedIndex,
          sessionOpen,    \* is there a session?
          saveWorked,     \* history: the last time
          streamed,       \* config.CLI.StreamResponse
          streamOn,       \* m.streaming
          buffered,       \* m.streamBuffer
          currentAgent, modelOf,
          activeSkills, contexts,       \* skills and files in the prompts
          notices,        \* the program's own messages
          underWay,       \* commands and what they will return
          promptCount, slashes, toolRounds

transcriptVars == <<screen, conversation, sessionLog, savedIndex, sessionOpen, saveWorked, streamed, streamOn, buffered,
          currentAgent, modelOf, activeSkills, contexts, notices, underWay, promptCount, slashes, toolRounds>>

Prompts == 1 .. MaxPrompts
Entry(by, prompts) == [by |-> by, prompts |-> prompts]
Shown(prompts, a) == [by |-> "assistant", prompts |-> prompts, agent |-> a]
EmptyScreen == [by |-> "nobody"]
Typed == [by |-> "user"]
Noted == [by |-> "system"]
Replies == [by : {"assistant"}, prompts : SUBSET Prompts, agent : ChatAgents]
Earlier == <<Entry("user", {0}), Entry("assistant", {0})>>

Entries == [by : {"user", "assistant", "results", "delegate"}, prompts : SUBSET (0 .. MaxPrompts)]
TranscriptTypeOK ==
    /\ screen \in Replies \cup {EmptyScreen, Typed, Noted}
    /\ conversation \in Seq(Entries) /\ sessionLog \in Seq(Entries)
    /\ savedIndex \in 0 .. Len(conversation)
    /\ {sessionOpen, saveWorked, streamed, streamOn} \subseteq BOOLEAN
    /\ buffered \subseteq Prompts
    /\ currentAgent \in ChatAgents /\ modelOf \in [ChatAgents -> ChatModels]
    /\ activeSkills \subseteq Skills /\ contexts \subseteq ContextFiles
    /\ \A r \in underWay : r.kind \in {"reply", "stream", "dispatch", "tools", "handoff", "interrupted"} /\ r.prompt \in Prompts
    /\ promptCount \in 0 .. MaxPrompts /\ slashes \in 0 .. MaxSlashes /\ notices \in 0 .. MaxNotices /\ toolRounds \in 0 .. MaxToolRounds


\* Run: a session of its own, if there can be one, or an earlier one, which is not shown.
TranscriptInit ==
    /\ \/ sessionOpen \in BOOLEAN /\ conversation = <<>> /\ screen = EmptyScreen
       \/ sessionOpen = TRUE /\ conversation = Earlier /\ screen = Noted
    /\ sessionLog = conversation /\ savedIndex = Len(conversation) /\ saveWorked = TRUE
    /\ streamed \in BOOLEAN /\ streamOn = FALSE /\ buffered = {}
    /\ currentAgent = FirstAgent /\ modelOf = [a \in ChatAgents |-> FirstModel]
    /\ activeSkills = {} /\ contexts = {}
    /\ notices = 0 /\ underWay = {}
    /\ promptCount = 0 /\ slashes = 0 /\ toolRounds = 0

SaveState == <<sessionLog, savedIndex, saveWorked>>
StreamVars == <<streamOn, buffered>>
Setting == <<currentAgent, modelOf, activeSkills, contexts>>
Fixed == <<sessionOpen, streamed>>
Counts == <<promptCount, slashes, toolRounds>>

-----------------------------------------------------------------------------
\* What a provider is asked: fetchResponse and streamChat, and the prompt they build.
ChatRequest(kind, p, a, history) ==
    [kind |-> kind, prompt |-> p, agent |-> a, model |-> modelOf[a],
     told |-> history, knows |-> activeSkills \cup contexts]

Step(kind, p) == [kind |-> kind, prompt |-> p]

\* sendMessage, to agent a.
SendTo(a) ==
    /\ promptCount < MaxPrompts /\ promptCount' = promptCount + 1
    /\ toolRounds' = 0
    /\ conversation' = Append(conversation, Entry("user", {promptCount'}))
    /\ screen' = IF streamed THEN Shown({}, a) ELSE Typed
    /\ underWay' = underWay \cup {ChatRequest(IF streamed THEN "stream" ELSE "reply", promptCount', a, conversation')}

\* handleSubmit; a stream keeps the keyboard.
KeysTaken == ~streamOn
Slash == KeysTaken /\ slashes < MaxSlashes /\ slashes' = slashes + 1

SendMessage ==
    /\ KeysTaken
    /\ SendTo(currentAgent)
    /\ UNCHANGED <<SaveState, StreamVars, Setting, Fixed, notices, slashes>>

Only(message) ==
    /\ Slash
    /\ screen' = message
    /\ UNCHANGED <<conversation, SaveState, StreamVars, Setting, Fixed, notices, underWay, promptCount, toolRounds>>

\* A mutant: the conversation starts anew, too.
ClearConversation ==
    /\ Slash
    /\ screen' = EmptyScreen /\ conversation' = <<>>
    /\ UNCHANGED <<SaveState, StreamVars, Setting, Fixed, notices, underWay, promptCount, toolRounds>>

\* /clear: what the models are told stays.
Clear == Only(EmptyScreen)

\* /usage, /route, /status, /agents, /skills and the like, and commands that fail.
ShowSomething == Only(Noted)

\* /end, and /checkpoint: a checkpoint that holds no files. Nothing is saved of the
\* conversation, nothing ends.
EndSession == Only(Noted)

ChooseModel(m) ==
    /\ Slash
    /\ modelOf' = [modelOf EXCEPT ![currentAgent] = m]
    /\ screen' = Noted
    /\ UNCHANGED <<conversation, SaveState, StreamVars, currentAgent, activeSkills, contexts, Fixed, notices,
                   underWay, promptCount, toolRounds>>

\* tryDynamicAgentSwitch finds the agent in one of the databases.
Switched(a) == Slash /\ currentAgent' = a /\ UNCHANGED <<modelOf, activeSkills, contexts>>

\* /agent <name> and /<name>, with a message or without.
SwitchAgent(a) ==
    /\ Switched(a)
    /\ \/ SendTo(a)
       \/ screen' = Noted /\ UNCHANGED <<conversation, underWay, promptCount, toolRounds>>
    /\ UNCHANGED <<SaveState, StreamVars, Fixed, notices>>

\* trySkillInvoke; an argument waits in the input for Enter.
InvokeSkill(s) ==
    /\ Slash
    /\ activeSkills' = activeSkills \cup {s}
    /\ screen' = Noted
    /\ UNCHANGED <<conversation, SaveState, StreamVars, currentAgent, modelOf, contexts, Fixed, notices,
                   underWay, promptCount, toolRounds>>

\* /init-project and /init-global create a file that does not exist, and read it.
CreateContext(c) ==
    /\ Slash
    /\ contexts' = contexts \cup {c}
    /\ screen' = Noted
    /\ UNCHANGED <<conversation, SaveState, StreamVars, currentAgent, modelOf, activeSkills, Fixed, notices,
                   underWay, promptCount, toolRounds>>

\* handleDispatch; the answer is handled like an agent's.
Dispatch ==
    /\ Slash
    /\ promptCount < MaxPrompts /\ promptCount' = promptCount + 1
    /\ screen' = Noted
    /\ underWay' = underWay \cup {Step("dispatch", promptCount')}
    /\ UNCHANGED <<conversation, SaveState, StreamVars, Setting, Fixed, notices, toolRounds>>

\* ProviderReadyMsg, ModelWarmupMsg and ModeChangedMsg say something when they come.
Notice ==
    /\ notices < MaxNotices /\ notices' = notices + 1
    /\ screen' = Noted
    /\ UNCHANGED <<conversation, SaveState, StreamVars, Setting, Fixed, underWay, Counts>>

-----------------------------------------------------------------------------
\* autoSaveSession and AppendMessages: what has not been saved, one line after the
\* other, or nothing if the file cannot be opened. Nobody is told of an error.
AutoSave ==
    \/ /\ sessionOpen
       /\ sessionLog' = sessionLog \o SubSeq(conversation', savedIndex + 1, Len(conversation'))
       /\ savedIndex' = Len(conversation')
       /\ saveWorked' = TRUE
    \/ saveWorked' = ~sessionOpen /\ UNCHANGED <<sessionLog, savedIndex>>

\* Update handles what r has returned, and runs next.
Returns(r, next) == r \in underWay /\ underWay' = (underWay \ {r}) \cup next

\* ChatResponseMsg, of a request or a dispatch: the reply is the current agent's.
ReplyComes(r) ==
    /\ r.kind \in {"reply", "dispatch"}
    /\ screen' = Shown({r.prompt}, currentAgent)
    /\ conversation' = Append(conversation, Entry("assistant", {r.prompt}))
    /\ AutoSave
    /\ \/ Returns(r, {}) /\ UNCHANGED toolRounds
       \/ /\ r.kind = "reply" /\ toolRounds < MaxToolRounds
          /\ toolRounds' = toolRounds + 1
          /\ Returns(r, {Step("tools", r.prompt)})
       \/ r.kind = "reply" /\ Returns(r, {Step("handoff", r.prompt)}) /\ UNCHANGED toolRounds
    /\ UNCHANGED <<StreamVars, Setting, Fixed, notices, promptCount, slashes>>

\* A request, tools or a handoff that comes to nothing: a message says so.
Fails(r) ==
    /\ r.kind \in {"reply", "dispatch", "tools", "handoff"}
    /\ Returns(r, {})
    /\ screen' = Noted
    /\ UNCHANGED <<conversation, SaveState, StreamVars, Setting, Fixed, notices, Counts>>

\* continueWithToolResults: the agent that is the current one by then gets them.
ToolResults(r) ==
    /\ r.kind = "tools"
    /\ screen' = Noted
    /\ conversation' = Append(conversation, Entry("results", {r.prompt}))
    /\ UNCHANGED <<SaveState, StreamVars, Setting, Fixed, notices, Counts>>
    /\ Returns(r, {ChatRequest("reply", r.prompt, currentAgent, conversation')})

\* HandoffCompletedMsg: not saved before the next reply.
HandoffReply(r) ==
    /\ r.kind = "handoff"
    /\ Returns(r, {})
    /\ screen' = Noted
    /\ conversation' = Append(conversation, Entry("delegate", {r.prompt}))
    /\ UNCHANGED <<SaveState, StreamVars, Setting, Fixed, notices, Counts>>

-----------------------------------------------------------------------------
\* A chunk goes into the last message, if that is an assistant's.
Filled(text) ==
    IF screen.by = "assistant" THEN [screen EXCEPT !.prompts = text] ELSE screen

Chunk(r) ==
    /\ r.kind = "stream" /\ r \in underWay
    /\ streamOn' = TRUE
    /\ buffered' = buffered \cup {r.prompt}
    /\ screen' = Filled(buffered')
    /\ UNCHANGED <<conversation, SaveState, Setting, Fixed, notices, underWay, Counts>>

LastChunk(r) ==
    /\ r.kind = "stream" /\ Returns(r, {})
    /\ streamOn' = FALSE
    /\ buffered' = buffered \cup {r.prompt}
    /\ screen' = Filled(buffered')
    /\ conversation' = Append(conversation, Entry("assistant", buffered'))
    /\ AutoSave
    /\ UNCHANGED <<Setting, Fixed, notices, Counts>>

\* StreamEndMsg and StreamErrorMsg: what has come is not remembered.
StreamEnds(r) ==
    /\ r.kind \in {"stream", "interrupted"} /\ Returns(r, {})
    /\ streamOn' = FALSE
    /\ screen' \in IF r.kind = "stream" THEN {screen, Noted} ELSE {screen}
    /\ UNCHANGED <<conversation, SaveState, buffered, Setting, Fixed, notices, Counts>>

\* Ctrl+C or Esc; the stream's last chunks may still come.
Interrupt ==
    /\ streamOn
    /\ streamOn' = FALSE
    /\ underWay' = underWay \cup {Step("interrupted", promptCount)}
    /\ UNCHANGED <<screen, conversation, SaveState, buffered, Setting, Fixed, notices, Counts>>

-----------------------------------------------------------------------------
TranscriptNext ==
    \/ SendMessage \/ Clear \/ ShowSomething \/ EndSession \/ Dispatch \/ Notice \/ Interrupt
    \/ \E m \in ChatModels \ {modelOf[currentAgent]} : ChooseModel(m)
    \/ \E a \in ChatAgents \ {currentAgent} : SwitchAgent(a)
    \/ \E s \in Skills : InvokeSkill(s)
    \/ \E c \in ContextFiles \ contexts : CreateContext(c)
    \/ \E r \in underWay : ReplyComes(r) \/ Fails(r) \/ ToolResults(r) \/ HandoffReply(r) \/ Chunk(r) \/ LastChunk(r) \/ StreamEnds(r)

TranscriptSpec == TranscriptInit /\ [][TranscriptNext]_transcriptVars

-----------------------------------------------------------------------------
Requests == {r \in underWay : r.kind \in {"reply", "stream"}}

\* Whatever is cleared, switched, interrupted or fails to be saved, and in whichever
\* order answers come: the session's file is a beginning of the conversation, with all
\* the agents have replied to the user, unless a save has failed; what a request tells
\* its model is a beginning of the conversation, and no later one leaves out a skill
\* or a context that an earlier one had.
ConversationIsKept ==
    /\ TranscriptTypeOK
    /\ Len(sessionLog) = savedIndex /\ IsPrefix(sessionLog, conversation)
    /\ (saveWorked /\ sessionOpen) =>
          \A i \in savedIndex + 1 .. Len(conversation) : conversation[i].by # "assistant"
    /\ \A r \in Requests : IsPrefix(r.told, conversation)
    /\ \A q, r \in Requests : Len(q.told) < Len(r.told) => q.knows \subseteq r.knows

\* model.go:443 "Update the last message content": when a stream has ended and its reply
\* is remembered, and the user has given no command, it is the last message on the screen.
RepliesAreShown ==
    [][\A r \in Requests : slashes = 0 /\ LastChunk(r) =>
          screen'.by = "assistant" /\ screen'.prompts = Last(conversation').prompts]_transcriptVars

\* model.go:2173 "/clear to start fresh": after it a model is told nothing of before.
ClearStartsFresh == [][Clear => conversation' = <<>>]_transcriptVars

\* model.go:37, the agent of a chat message: the one that was asked.
RepliesNameTheirAgent ==
    [][\A r \in Requests : ReplyComes(r) => screen'.agent = r.agent]_transcriptVars
=============================================================================

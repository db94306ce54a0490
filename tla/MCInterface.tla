---------------------------- MODULE MCInterface ----------------------------
(* The parts of the programs that wait for one another and must get         *)
(* somewhere, side by side: the terminal program's conversation, the client *)
(* of the tool servers, the circuit breaker, the batch processor, the       *)
(* client of Herald, the documents' index and a terminal's commands. They   *)
(* share nothing: part says which of them a behaviour is about, and the     *)
(* others stay as they began.                                               *)
EXTENDS Conversation, McpClient, CircuitBreaker, BatchProcessor, Herald, DocService, CommandLine,
        TLC

CONSTANTS tu, hs, c1, c2, c3, u, dc, src, md, txt, t1, m1, m2

MCBase == src :> "doc"
MCOverrides == {<<>>, "default_model" :> m2}

VARIABLE part

uiVars == <<conversationVars, mcpVars>>
clientVars == <<vars, batchVars, heraldVars, docVars, commandVars>>

NextUI ==
    \/ /\ part = "conversation" /\ ConversationNext
       /\ UNCHANGED mcpVars
    \/ /\ part = "mcp" /\ McpNext
       /\ UNCHANGED conversationVars

NextClient ==
    \/ /\ part = "breaker" /\ Next
       /\ UNCHANGED <<batchVars, heraldVars, docVars, commandVars>>
    \/ /\ part = "batch" /\ BatchNext
       /\ UNCHANGED <<vars, heraldVars, docVars, commandVars>>
    \/ /\ part = "herald" /\ HeraldNext
       /\ UNCHANGED <<vars, batchVars, docVars, commandVars>>
    \/ /\ part = "docs" /\ DocNext
       /\ UNCHANGED <<vars, batchVars, heraldVars, commandVars>>
    \/ /\ part = "commands" /\ CommandNext
       /\ UNCHANGED <<vars, batchVars, heraldVars, docVars>>

NextPart ==
    /\ UNCHANGED part
    /\ \/ NextUI /\ UNCHANGED clientVars
       \/ NextClient /\ UNCHANGED uiVars

\* A part that stands still has one of its initial states only.
InterfaceInit ==
    /\ part \in {"conversation", "mcp", "breaker", "batch", "herald", "docs", "commands"}
    /\ ConversationInit /\ McpInit /\ Init /\ BatchInit /\ HeraldInit /\ DocInit /\ CommandInit
    /\ part # "conversation" => streamResponse
    /\ part # "commands" => override = <<>>

\* The fairness of each part, most of which have no action enabled where the
\* part stands still; those that have name their part.
InterfaceSpec ==
    /\ InterfaceInit
    /\ [][NextPart]_<<part, uiVars, clientVars>>
    /\ ConversationFairness /\ McpFairness /\ BatchFairness
    /\ \A c \in Callers : /\ WF_vars(part = "breaker" /\ AllowRequest(c))
                          /\ WF_vars(RecordFailure(c) \/ RecordSuccess(c))
    /\ WF_vars(TimeoutElapses)
    /\ \A c \in HeraldUsers : WF_heraldVars(Proceed(c))
    /\ WF_heraldVars(part = "herald" /\ ApprovalExpires)
    /\ \A c \in Consumers : WF_docVars(GenerationStep(c))
    /\ WF_docVars(IndexerStep) /\ WF_docVars(part = "docs" /\ DocStarts) /\ WF_docVars(Subscribed)
    /\ CommandFairness
=============================================================================

----------------------------- MODULE MCSupport -----------------------------
(* The supporting libraries, the hooks, the stores of the terminal          *)
(* programs, the clients of the tool servers and of Herald, the tool calls  *)
(* and the commands side by side, for what they must never do. They share   *)
(* nothing: part says which of them a behaviour is about, and the others    *)
(* stay as they began.                                                      *)
EXTENDS RateLimiter, Recovery, Pipeline, Scaling, Hooks, Sessions, CheckpointManager, McpClient,
        GitAgent, Herald, CommandLine, ToolExecutor, ManifestStore, TLC

CONSTANTS r1, r2, r3, periodic, w1, w2, i1, i2, i3, monitor, h1, h2, hc, p1, p2, u1, f1, tu, hs, g1, g2, main, f, u, v,
          t1, t2, m1, m2, d1, d2, a1, a2

MCDemand == r1 :> 1 @@ r2 :> 2 @@ r3 :> 1
MCOrder == h1 :> 1 @@ h2 :> 2
MCRestoreModes == {<<TRUE, TRUE>>}
MCOverrides == {<<>>, "default_model" :> m2}

VARIABLE part

libraryVars == <<limiterVars, recoveryVars, pipelineVars, scalingVars, heraldVars, manifestVars>>
programVars == <<hooksVars, sessionsVars, checkpointVars, mcpVars, gitVars, commandVars, toolVars>>

NextLibrary ==
    \/ /\ part = "limiter" /\ LimiterNext
       /\ UNCHANGED <<recoveryVars, pipelineVars, scalingVars, heraldVars, manifestVars>>
    \/ /\ part = "recovery" /\ RecoveryNext
       /\ UNCHANGED <<limiterVars, pipelineVars, scalingVars, heraldVars, manifestVars>>
    \/ /\ part = "pipeline" /\ PipelineNext
       /\ UNCHANGED <<limiterVars, recoveryVars, scalingVars, heraldVars, manifestVars>>
    \/ /\ part = "scaling" /\ ScalingNext
       /\ UNCHANGED <<limiterVars, recoveryVars, pipelineVars, heraldVars, manifestVars>>
    \/ /\ part = "herald" /\ HeraldNext
       /\ UNCHANGED <<limiterVars, recoveryVars, pipelineVars, scalingVars, manifestVars>>
    \/ /\ part = "manifests" /\ ManifestNext
       /\ UNCHANGED <<limiterVars, recoveryVars, pipelineVars, scalingVars, heraldVars>>

NextProgram ==
    \/ /\ part = "hooks" /\ HooksNext
       /\ UNCHANGED <<sessionsVars, checkpointVars, mcpVars, gitVars, commandVars, toolVars>>
    \/ /\ part = "sessions" /\ SessionsNext
       /\ UNCHANGED <<hooksVars, checkpointVars, mcpVars, gitVars, commandVars, toolVars>>
    \/ /\ part = "checkpoints" /\ CheckpointNext
       /\ UNCHANGED <<hooksVars, sessionsVars, mcpVars, gitVars, commandVars, toolVars>>
    \/ /\ part = "mcp" /\ McpNext
       /\ UNCHANGED <<hooksVars, sessionsVars, checkpointVars, gitVars, commandVars, toolVars>>
    \/ /\ part = "git" /\ GitNext
       /\ UNCHANGED <<hooksVars, sessionsVars, checkpointVars, mcpVars, commandVars, toolVars>>
    \/ /\ part = "commands" /\ CommandNext
       /\ UNCHANGED <<hooksVars, sessionsVars, checkpointVars, mcpVars, gitVars, toolVars>>
    \/ /\ part = "tools" /\ ToolNext
       /\ UNCHANGED <<hooksVars, sessionsVars, checkpointVars, mcpVars, gitVars, commandVars>>

Next ==
    /\ UNCHANGED part
    /\ \/ NextLibrary /\ UNCHANGED programVars
       \/ NextProgram /\ UNCHANGED libraryVars

SupportInit ==
    /\ part \in {"limiter", "recovery", "pipeline", "scaling", "hooks", "sessions", "checkpoints",
                "mcp", "git", "herald", "commands", "tools", "manifests"}
    /\ LimiterInit /\ RecoveryInit /\ PipelineInit /\ ScalingInit
    /\ HooksInit /\ SessionsInit /\ CheckpointInit /\ McpInit /\ GitInit /\ HeraldInit /\ CommandInit
    /\ ToolInit /\ ManifestInit
    \* One initial state for the parts at rest.
    /\ part # "scaling" => currentCount = MinInstances
    /\ part # "git" => head = NoBranch
    /\ part # "commands" => override = <<>>
    /\ part # "tools" => ~planMode /\ ~dryRun /\ toolReply = [i \in Index |-> ""]
    /\ part # "manifests" => folder = [d \in ManifestFiles |-> Absent]

SupportSpec == SupportInit /\ [][Next]_<<part, libraryVars, programVars>>
=============================================================================

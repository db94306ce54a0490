------------------------- MODULE MCTaskCoordination -------------------------
(* TaskCoordination on small instances: what the .cfg files cannot write. *)
EXTENDS TaskCoordination, TLC

CONSTANTS w1, w2, wg, g1, g2, t1, t2

\* Two worker processes in the one group the worker binary uses.
SharedGroup == [a \in Agents |-> wg]

\* Two agents in groups of their own: a git agent and a documentation agent.
OwnGroups == [a \in Agents |-> IF a = w1 THEN g1 ELSE g2]

Everyone == [t \in Tasks |-> Agents]

AgentSymmetry == Permutations(Agents)
=============================================================================

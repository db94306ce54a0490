-------------------------- MODULE MCInfrastructure --------------------------
(* The registry's keys and an agent's process side by side. They share      *)
(* nothing: part says which of them a behaviour is about.                   *)
EXTENDS RegistryKeys, AgentProcess

CONSTANTS a1, assignment, status, reply

VARIABLE part

Next ==
    /\ UNCHANGED part
    /\ \/ part = "keys" /\ KeysNext /\ UNCHANGED processVars
       \/ part = "process" /\ ProcessNext /\ UNCHANGED keysVars

InfrastructureInit == part \in {"keys", "process"} /\ KeysInit /\ ProcessInit

\* No fair action is enabled in the initial state of the part that stands still.
FairSpec ==
    /\ InfrastructureInit /\ [][Next]_<<part, keysVars, processVars>>
    /\ KeysFairness /\ ProcessFairness
=============================================================================

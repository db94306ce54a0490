------------------------ MODULE MCParallelExecution ------------------------
(* ParallelExecution with two requests of one type, and two graphs. *)
EXTENDS ParallelExecution

CONSTANTS a, b

MCAgentType == [x \in {a, b} |-> "reviewer"]

Unrelated == [x \in {a, b} |-> {}]
Chain == [x \in {a, b} |-> IF x = b THEN {a} ELSE {}]
MCGraphs == {Unrelated, Chain}
=============================================================================

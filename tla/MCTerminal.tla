----------------------------- MODULE MCTerminal -----------------------------
(* The plans of the terminal interface and its transcript, side by side:    *)
(* part says which of them a behaviour is about. The plans are of three     *)
(* steps: one that joins two, one in the wrong order, a circular one, and   *)
(* one with a number repeated and another missing.                          *)
EXTENDS PlanExecution, Transcript

CONSTANTS d1, d2, m1, m2, s1, c1

Plan(number, dependsOn) == [number |-> number, dependsOn |-> dependsOn]

MCPlans == {Plan(<<1, 2, 3>>, <<{}, {}, {1, 2}>>),
            Plan(<<2, 1, 3>>, <<{1}, {}, {2}>>),
            Plan(<<1, 2, 3>>, <<{2}, {1}, {}>>),
            Plan(<<1, 1, 2>>, <<{}, {}, {3}>>)}

VARIABLE part

TerminalInit ==
    /\ part \in {"plans", "transcript"}
    /\ Init /\ TranscriptInit
    \* One initial state for the part at rest.
    /\ part # "plans" => via = "local" /\ plan = CHOOSE p \in MCPlans : TRUE
    /\ part # "transcript" => sessionOpen = FALSE /\ streamed = FALSE

TerminalNext ==
    /\ UNCHANGED part
    /\ \/ part = "plans" /\ Next /\ UNCHANGED transcriptVars
       \/ part = "transcript" /\ TranscriptNext /\ UNCHANGED vars

\* Fairness is the plan's: a behaviour of the transcript, in which the plan stands
\* still, is not fair, so what must happen is asked of plans only.
TerminalSpec ==
    /\ TerminalInit
    /\ [][TerminalNext]_<<part, vars, transcriptVars>>
    /\ PlanFairness
=============================================================================

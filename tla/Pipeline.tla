------------------------------ MODULE Pipeline ------------------------------
(***************************************************************************)
(* Pipeline of pkg/performance/batch.go: workers take items from a bounded *)
(* input channel, run them through the stages and put the results on a     *)
(* bounded output channel. Stop closes the input and waits for the         *)
(* workers. Submit is not called after Stop: it would panic.               *)
(***************************************************************************)
EXTENDS Naturals, Sequences, SequencesExt

CONSTANTS Workers, MaxSubmits, Capacity

ASSUME PipelineAssumption == MaxSubmits \in Nat /\ Capacity \in Nat \ {0}

Submitted == 1 .. MaxSubmits

VARIABLES input, output,   \* the channels
          task,            \* the item a worker is at, 0 if none
          stage,           \* how it fared in the stages
          running,         \* the workers that have not returned
          results,         \* items read from Results()
          rejected,        \* items for which a stage returned an error
          submits,
          pipelineOver,    \* the context is cancelled
          closing          \* how far Stop is

pipelineVars == <<input, output, task, stage, running, results, rejected, submits, pipelineOver, closing>>

PipelineInit ==
    /\ input = <<>> /\ output = <<>>
    /\ task = [w \in Workers |-> 0] /\ stage = [w \in Workers |-> "idle"]
    /\ running = {}
    /\ results = {} /\ rejected = {}
    /\ submits = 0 /\ pipelineOver = FALSE /\ closing = "no"

StartWorkers ==
    /\ running = {} /\ closing = "no" /\ ~pipelineOver
    /\ running' = Workers
    /\ UNCHANGED <<input, output, task, stage, results, rejected, submits, pipelineOver, closing>>

CancelPipeline ==
    /\ ~pipelineOver /\ pipelineOver' = TRUE
    /\ UNCHANGED <<input, output, task, stage, running, results, rejected, submits, closing>>

\* A Submit that finds the input full blocks until a worker takes an item.
Submit ==
    /\ closing = "no" /\ submits < MaxSubmits /\ Len(input) < Capacity
    /\ submits' = submits + 1
    /\ input' = Append(input, submits')
    /\ UNCHANGED <<output, task, stage, running, results, rejected, pipelineOver, closing>>

Take(w) ==
    /\ w \in running /\ stage[w] = "idle" /\ input # <<>>
    /\ input' = Tail(input)
    /\ task' = [task EXCEPT ![w] = Head(input)]
    /\ stage' = [stage EXCEPT ![w] = "processing"]
    /\ UNCHANGED <<output, running, results, rejected, submits, pipelineOver, closing>>

Process(w) ==
    /\ stage[w] = "processing"
    /\ \/ /\ stage' = [stage EXCEPT ![w] = "sending"]
          /\ UNCHANGED <<task, rejected>>
       \/ /\ rejected' = rejected \cup {task[w]}
          /\ stage' = [stage EXCEPT ![w] = "idle"]
          /\ task' = [task EXCEPT ![w] = 0]
    /\ UNCHANGED <<input, output, running, results, submits, pipelineOver, closing>>

SendOn(w) ==
    /\ stage[w] = "sending" /\ Len(output) < Capacity
    /\ output' = Append(output, task[w])
    /\ stage' = [stage EXCEPT ![w] = "idle"]
    /\ task' = [task EXCEPT ![w] = 0]
    /\ UNCHANGED <<input, running, results, rejected, submits, pipelineOver, closing>>

\* A mutant: a worker that takes the closing for the end.
WorkerReturnsAtOnce(w) ==
    /\ w \in running /\ stage[w] \in {"idle", "sending"}
    /\ pipelineOver \/ closing # "no"
    /\ running' = running \ {w}
    /\ UNCHANGED <<input, output, task, stage, results, rejected, submits, pipelineOver, closing>>

\* A worker returns when the context is over, with the item it could not send,
\* or when the input is closed and empty.
WorkerReturns(w) ==
    /\ w \in running /\ stage[w] \in {"idle", "sending"}
    /\ pipelineOver \/ (stage[w] = "idle" /\ closing # "no" /\ input = <<>>)
    /\ running' = running \ {w}
    /\ UNCHANGED <<input, output, task, stage, results, rejected, submits, pipelineOver, closing>>

CloseInput ==
    /\ closing = "no" /\ running # {}
    /\ closing' = "waiting"
    /\ UNCHANGED <<input, output, task, stage, running, results, rejected, submits, pipelineOver>>

CloseOutput ==
    /\ closing = "waiting" /\ running = {}
    /\ closing' = "stopped"
    /\ UNCHANGED <<input, output, task, stage, running, results, rejected, submits, pipelineOver>>

ReadResult ==
    /\ output # <<>>
    /\ results' = results \cup {Head(output)}
    /\ output' = Tail(output)
    /\ UNCHANGED <<input, task, stage, running, rejected, submits, pipelineOver, closing>>

PipelineNext ==
    \/ StartWorkers \/ CancelPipeline \/ Submit \/ CloseInput \/ CloseOutput \/ ReadResult
    \/ \E w \in Workers : Take(w) \/ Process(w) \/ SendOn(w) \/ WorkerReturns(w)

PipelineSpec == PipelineInit /\ [][PipelineNext]_pipelineVars

-----------------------------------------------------------------------------
\* Unless the context was cancelled, an item that was submitted is a result or
\* was refused by a stage when Stop has returned, and never both; an error of
\* one item does not end the worker (batch.go:243-247, 260-290).
PipelineKeepsItems ==
    LET kept == results \cup ToSet(output)
    IN  /\ kept \cap rejected = {}
        /\ closing = "stopped" /\ ~pipelineOver => kept \cup rejected = 1 .. submits
=============================================================================

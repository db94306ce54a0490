--------------------------- MODULE BatchProcessor ---------------------------
(***************************************************************************)
(* BatchProcessor of pkg/performance/batch.go: a buffer that Add fills     *)
(* from any goroutine and that the flush loop, a caller's Flush and Stop   *)
(* empty. The buffer is swapped for a new one under the lock and handed to *)
(* the processor after it is released, so items come in while batches are  *)
(* in flight. The order of the items in a batch and the processor's error, *)
(* which nobody acts on, are left out.                                     *)
(***************************************************************************)
EXTENDS Naturals, FiniteSets

CONSTANTS MaxItems,     \* bound on the items added
          BatchSize

ASSUME BatchAssumption == MaxItems \in Nat /\ BatchSize \in Nat \ {0}

Items == 1 .. MaxItems
Flushers == {"loop", "caller", "stop"}

VARIABLES buffer,
          adding,        \* what each Add that has not returned appended, and if it found the batch full
          flushChan,     \* holds a signal
          loop,          \* the flush loop's goroutine
          contextOver,   \* the context of Start is cancelled
          stop,          \* how far Stop is
          inHand,        \* the batch a flusher is passing to the processor
          handed,        \* items the processor has returned from
          added,         \* how many items so far
          due            \* items whose Add had returned when Stop was called

batchVars == <<buffer, adding, flushChan, loop, contextOver, stop, inHand, handed, added, due>>

BatchTypeOK ==
    /\ buffer \subseteq Items /\ handed \subseteq Items /\ due \subseteq Items
    /\ adding \subseteq [items : SUBSET Items, full : BOOLEAN]
    /\ flushChan \in BOOLEAN /\ contextOver \in BOOLEAN
    /\ loop \in {"none", "running", "ended"}
    /\ stop \in {"no", "waiting", "flushing", "stopped"}
    /\ inHand \in [Flushers -> SUBSET Items]
    /\ added \in 0 .. MaxItems

BatchInit ==
    /\ buffer = {} /\ adding = {} /\ handed = {} /\ due = {}
    /\ flushChan = FALSE /\ contextOver = FALSE
    /\ loop = "none" /\ stop = "no"
    /\ inHand = [f \in Flushers |-> {}]
    /\ added = 0

-----------------------------------------------------------------------------
StartLoop ==
    /\ loop = "none" /\ stop = "no"
    /\ loop' = "running"
    /\ UNCHANGED <<buffer, adding, flushChan, contextOver, stop, inHand, handed, added, due>>

CancelContext ==
    /\ ~contextOver /\ contextOver' = TRUE
    /\ UNCHANGED <<buffer, adding, flushChan, loop, stop, inHand, handed, added, due>>

\* Add and AddBatch append n items under the lock; nothing refuses them once
\* Stop has been called.
AddItem(n) ==
    LET items == added + 1 .. added + n
    IN  /\ added + n <= MaxItems
        /\ added' = added + n
        /\ buffer' = buffer \cup items
        /\ adding' = adding \cup {[items |-> items, full |-> Cardinality(buffer') >= BatchSize]}
        /\ UNCHANGED <<flushChan, loop, contextOver, stop, inHand, handed, due>>

\* triggerFlush, with the lock released, and Add returns.
AddReturns(a) ==
    /\ adding' = adding \ {a}
    /\ flushChan' = (flushChan \/ a.full)
    /\ UNCHANGED <<buffer, loop, contextOver, stop, inHand, handed, added, due>>

\* Flush takes the buffer; an empty one is not passed on.
TakeBuffer(f) ==
    /\ inHand[f] = {}
    /\ inHand' = [inHand EXCEPT ![f] = buffer]
    /\ buffer' = {}

PassOn(f) ==
    /\ inHand[f] # {}
    /\ handed' = handed \cup inHand[f]
    /\ inHand' = [inHand EXCEPT ![f] = {}]
    /\ UNCHANGED <<buffer, adding, flushChan, loop, contextOver, stop, added, due>>

CallerFlushes ==
    /\ buffer # {}
    /\ TakeBuffer("caller")
    /\ UNCHANGED <<adding, flushChan, loop, contextOver, stop, handed, added, due>>

\* A mutant: the ticker too flushes full batches only.
LoopFlushesFull(ticked) ==
    /\ loop = "running"
    /\ flushChan /\ flushChan' = FALSE
    /\ TakeBuffer("loop")
    /\ UNCHANGED <<adding, loop, contextOver, stop, handed, added, due>>

\* A turn of flushLoop, by the ticker or by the signal.
LoopFlushes(ticked) ==
    /\ loop = "running"
    /\ ticked \/ flushChan
    /\ flushChan' = (ticked /\ flushChan)
    /\ TakeBuffer("loop")
    /\ UNCHANGED <<adding, loop, contextOver, stop, handed, added, due>>

LoopEnds ==
    /\ loop = "running" /\ inHand["loop"] = {}
    /\ contextOver \/ stop # "no"
    /\ loop' = "ended"
    /\ UNCHANGED <<buffer, adding, flushChan, contextOver, stop, inHand, handed, added, due>>

StopBegins ==
    /\ stop = "no"
    /\ stop' = "waiting"
    /\ due' = (1 .. added) \ UNION {a.items : a \in adding}
    /\ UNCHANGED <<buffer, adding, flushChan, loop, contextOver, inHand, handed, added>>

StopFlushes ==
    /\ stop = "waiting" /\ loop # "running"
    /\ stop' = "flushing"
    /\ TakeBuffer("stop")
    /\ UNCHANGED <<adding, flushChan, loop, contextOver, handed, added, due>>

StopReturns ==
    /\ stop = "flushing" /\ inHand["stop"] = {}
    /\ stop' = "stopped"
    /\ UNCHANGED <<buffer, adding, flushChan, loop, contextOver, inHand, handed, added, due>>

StopStep == StopFlushes \/ StopReturns

BatchNext ==
    \/ StartLoop \/ CancelContext \/ CallerFlushes \/ LoopEnds \/ StopBegins \/ StopStep
    \/ \E n \in 1 .. 2 : AddItem(n)
    \/ \E a \in adding : AddReturns(a)
    \/ \E ticked \in BOOLEAN : LoopFlushes(ticked)
    \/ \E f \in Flushers : PassOn(f)

BatchSpec == BatchInit /\ [][BatchNext]_batchVars

\* The loop's ticker ticks, the processor returns and a called Stop goes on.
BatchFairness ==
    /\ WF_batchVars(buffer # {} /\ \E ticked \in BOOLEAN : LoopFlushes(ticked))
    /\ WF_batchVars(LoopEnds)
    /\ \A f \in Flushers : WF_batchVars(PassOn(f))
    /\ WF_batchVars(StopStep)

-----------------------------------------------------------------------------
\* Stop "flushes remaining items": once it has returned, every item whose Add
\* had returned before is with the processor, if only in a batch another
\* caller's Flush has taken. No item is in two places (batch.go:57-61, 92-107).
StopDrains ==
    /\ BatchTypeOK
    /\ stop = "stopped" => due \subseteq handed \cup inHand["caller"]
    /\ \A f \in Flushers : /\ inHand[f] \cap (buffer \cup handed) = {}
                           /\ \A g \in Flushers \ {f} : inHand[f] \cap inHand[g] = {}

\* An item never stays behind in the buffer of a started processor, however few
\* there are, unless the context ends the loop or it was added after Stop's flush.
\* And Stop drains it.
NothingStaysBehind ==
    /\ []StopDrains
    /\ \A i \in Items : (i \in buffer /\ loop # "none") ~> (i \in handed \/ contextOver \/ stop = "stopped")
=============================================================================

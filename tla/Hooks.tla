------------------------------- MODULE Hooks -------------------------------
(***************************************************************************)
(* pkg/hooks: the hooks of one type and the calls of Execute that consult  *)
(* them while hooks are registered, unregistered, enabled and disabled.    *)
(* Execute reads the slice under the lock and walks it after releasing it; *)
(* Register sorts and Unregister shifts that slice in place, so a walk one *)
(* of them overlaps may miss hooks or see one twice. All hooks match the   *)
(* call. What a handler answers to a call is chosen when the call begins;  *)
(* "error" covers timeouts, unknown handlers and a missing prompt executor.*)
(***************************************************************************)
EXTENDS Naturals, Sequences, SequencesExt

CONSTANTS HookIDs, Order,     \* lower runs first
          HookCallers,
          FailOpen,
          MaxHookCalls        \* bound on the calls, and on the changes

ASSUME HooksAssumption ==
    /\ Order \in [HookIDs -> Nat] /\ FailOpen \in BOOLEAN /\ MaxHookCalls \in Nat

\* What the three kinds of handler can answer. A word in the JSON of a shell hook
\* or a model is known or not ("other"); without JSON the exit code counts, or the
\* words in the model's text, where approval is looked for first.
Words == {"approve", "block", "modify", "other"}
Understood(word) == IF word = "other" THEN "continue" ELSE word

ShellAnswer(word, exit) ==
    CASE word # "no JSON" -> Understood(word)
      [] word = "no JSON" /\ exit = 0 -> "approve"
      [] word = "no JSON" /\ exit = 1 -> "block"
      [] word = "no JSON" /\ exit = 2 -> "continue"
      [] OTHER -> "error"

PromptAnswer(word, said) ==
    CASE word # "no JSON" -> Understood(word)
      [] word = "no JSON" /\ "approve" \in said -> "approve"
      [] word = "no JSON" /\ said = {"block"} -> "block"
      [] OTHER -> "continue"

BuiltinAnswer ==
    [security |-> {"block", "continue"}, audit |-> {"continue"}, confirm |-> {"approve", "block", "continue"},
     dlp |-> {"block", "continue"}, rate_limit |-> {"block", "continue"},
     git_safety |-> {"block", "confirm", "continue"}]

ShellAnswers == {ShellAnswer(w, e) : w \in Words \cup {"no JSON"}, e \in 0 .. 3}
PromptAnswers == {PromptAnswer(w, s) : w \in Words \cup {"no JSON"}, s \in SUBSET {"approve", "block"}}
BuiltinAnswers == UNION {BuiltinAnswer[b] : b \in DOMAIN BuiltinAnswer}

Answers == ShellAnswers \cup PromptAnswers \cup BuiltinAnswers

Decisive == {"approve", "block", "modify"}

VARIABLES registered,   \* the slice of the type
          enabled,
          hookCall,     \* per caller: where its Execute is
          changes,      \* Register and Unregister so far
          hookCalls

hooksVars == <<registered, enabled, hookCall, changes, hookCalls>>

NoHookCall == [step |-> "idle", answer |-> [h \in HookIDs |-> "continue"], slice |-> <<>>, walked |-> 0, seen |-> 0,
               steady |-> {}, left |-> <<>>, action |-> "continue"]

HooksTypeOK ==
    /\ registered \in Seq(HookIDs) /\ enabled \subseteq HookIDs
    /\ changes \in 0 .. MaxHookCalls /\ hookCalls \in 0 .. MaxHookCalls
    /\ \A c \in HookCallers :
           /\ hookCall[c].step \in {"idle", "running", "done"}
           /\ hookCall[c].answer \in [HookIDs -> Answers]
           /\ hookCall[c].action \in Answers \ {"error"}
           /\ hookCall[c].steady \subseteq HookIDs

HooksInit ==
    /\ registered = <<>> /\ enabled = HookIDs
    /\ hookCall = [c \in HookCallers |-> NoHookCall]
    /\ changes = 0 /\ hookCalls = 0

-----------------------------------------------------------------------------
\* The hooks by their order. sort.Slice may put hooks of one order either way round.
InOrder(hooks) == \A i, j \in 1 .. Len(hooks) : i < j => Order[hooks[i]] <= Order[hooks[j]]
Sorted(hooks) == {s \in [1 .. Len(hooks) -> ToSet(hooks)] : ToSet(s) = ToSet(hooks) /\ InOrder(s)}

\* A mutant: hooks in the order they were registered.
RegisterLast(h) ==
    /\ changes < MaxHookCalls /\ h \notin ToSet(registered)
    /\ changes' = changes + 1
    /\ registered' = Append(registered, h)
    /\ UNCHANGED <<enabled, hookCall, hookCalls>>

Register(h) ==
    /\ changes < MaxHookCalls /\ h \notin ToSet(registered)
    /\ changes' = changes + 1
    /\ registered' \in Sorted(Append(registered, h))
    /\ UNCHANGED <<enabled, hookCall, hookCalls>>

Unregister(h) ==
    /\ changes < MaxHookCalls /\ changes' = changes + 1
    /\ \E i \in DOMAIN registered : registered[i] = h /\ registered' = RemoveAt(registered, i)
    /\ hookCall' = [c \in HookCallers |-> [hookCall[c] EXCEPT !.steady = @ \ {h}]]
    /\ UNCHANGED <<enabled, hookCalls>>

Enable(h) ==
    /\ h \in ToSet(registered) \ enabled
    /\ enabled' = enabled \cup {h}
    /\ UNCHANGED <<registered, hookCall, changes, hookCalls>>

Disable(h) ==
    /\ h \in ToSet(registered) \cap enabled
    /\ enabled' = enabled \ {h}
    /\ hookCall' = [c \in HookCallers |-> [hookCall[c] EXCEPT !.steady = @ \ {h}]]
    /\ UNCHANGED <<registered, changes, hookCalls>>

-----------------------------------------------------------------------------
\* Execute reads the slice. steady are the hooks registered and enabled from here on.
BeginExecute(c) ==
    /\ hookCall[c].step \in {"idle", "done"} /\ hookCalls < MaxHookCalls
    /\ hookCalls' = hookCalls + 1
    /\ \E answer \in [ToSet(registered) -> Answers] :
           hookCall' = [hookCall EXCEPT ![c] =
               [NoHookCall EXCEPT !.step = "running", !.slice = registered, !.seen = changes,
                                  !.answer = [h \in HookIDs |-> IF h \in DOMAIN answer THEN answer[h] ELSE @[h]],
                                  !.steady = ToSet(registered) \cap enabled]]
    /\ UNCHANGED <<registered, enabled, changes>>

Undisturbed(c) == hookCall[c].seen = changes
Walking(c) == hookCall[c].step = "running" /\ hookCall[c].walked < Len(hookCall[c].slice)
Consulting(c) == hookCall[c].step = "running" /\ hookCall[c].walked = Len(hookCall[c].slice)

\* The walk comes to a hook, and takes it if it is enabled by then; a slice that has
\* changed under the walk can show any of the hooks it ever held.
Walk(c) ==
    /\ Walking(c)
    /\ \E h \in IF Undisturbed(c) THEN {hookCall[c].slice[hookCall[c].walked + 1]} ELSE HookIDs :
           hookCall' = [hookCall EXCEPT ![c].walked = @ + 1,
                                        ![c].left = IF h \in enabled THEN Append(@, h) ELSE @]
    /\ UNCHANGED <<registered, enabled, changes, hookCalls>>

Finish(c, action) == hookCall' = [hookCall EXCEPT ![c].step = "done", ![c].action = action, ![c].left = <<>>]

\* One hook answers; "confirm" is not among the cases of the switch and counts as
\* "continue", and so does an error when hooks fail open.
ExecuteHook(c) ==
    /\ Consulting(c) /\ hookCall[c].left # <<>>
    /\ LET answer == hookCall[c].answer[Head(hookCall[c].left)]
       IN  \/ answer \in Decisive /\ Finish(c, answer)
           \/ answer = "error" /\ ~FailOpen /\ Finish(c, "block")
           \/ /\ answer \in {"continue", "confirm"} \cup (IF FailOpen THEN {"error"} ELSE {})
              /\ hookCall' = [hookCall EXCEPT ![c].left = Tail(@)]
    /\ UNCHANGED <<registered, enabled, changes, hookCalls>>

NoHookDecides(c) ==
    /\ Consulting(c) /\ hookCall[c].left = <<>>
    /\ Finish(c, "continue")
    /\ UNCHANGED <<registered, enabled, changes, hookCalls>>

HooksNext ==
    \/ \E h \in HookIDs : Register(h) \/ Unregister(h) \/ Enable(h) \/ Disable(h)
    \/ \E c \in HookCallers : BeginExecute(c) \/ Walk(c) \/ ExecuteHook(c) \/ NoHookDecides(c)

HooksSpec == HooksInit /\ [][HooksNext]_hooksVars

-----------------------------------------------------------------------------
Objects(c, h) == hookCall[c].answer[h] = "block" \/ (hookCall[c].answer[h] = "error" /\ ~FailOpen)

\* A call that no registration overlaps goes ahead over the objection of a hook
\* that was enabled throughout only if a hook of no higher order has approved or
\* modified it, whatever is enabled and disabled meanwhile (hooks.go:103-147).
ObjectionsCount ==
    /\ HooksTypeOK
    /\ \A c \in HookCallers :
           hookCall[c].step = "done" /\ Undisturbed(c) /\ hookCall[c].action # "block" =>
               \A h \in hookCall[c].steady : Objects(c, h) =>
                   \E g \in HookIDs : hookCall[c].answer[g] \in {"approve", "modify"} /\ Order[g] <= Order[h]
=============================================================================

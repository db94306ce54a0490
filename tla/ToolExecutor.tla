---------------------------- MODULE ToolExecutor ----------------------------
(***************************************************************************)
(* The tool calls of one reply (pkg/tools): the parser keeps those with a  *)
(* name, the security manager tells which need the user's approval, and    *)
(* ExecuteBatch runs them: the reading ones concurrently, at most          *)
(* MaxReaders at a time, then the modifying ones one by one. edit_file     *)
(* reads a file, replaces a string in it and writes it back; all modifying *)
(* calls are taken to be about one file, known by the calls whose text it  *)
(* holds. bash is like edit_file for approval and order and is left out.   *)
(* Whether a tool is known, its parameters valid and its path allowed is a *)
(* choice made for each call; so is a failure of the file system.          *)
(***************************************************************************)
EXTENDS Naturals, FiniteSets

CONSTANTS MaxCalls,      \* bound on the calls of a reply
          MaxReaders     \* maxConcurrent, 5 in the code

ASSUME ToolAssumption == MaxCalls \in Nat /\ MaxReaders \in Nat \ {0}

VARIABLES toolReply,   \* the tool each call of the reply names, "" for none
          calls,       \* the calls to be executed, by index
          planMode, dryRun,
          asking,      \* goroutines of concurrent calls that want the semaphore
          readers,     \* the calls being executed
          copy,        \* what an edit has read of the file
          file,        \* the calls whose text the file holds
          toolResults,
          toolPhase

toolVars == <<toolReply, calls, planMode, dryRun, asking, readers, copy, file, toolResults, toolPhase>>

Index == 1 .. MaxCalls

ToolTypeOK ==
    /\ toolReply \in [Index -> {"", "read_file", "write_file", "edit_file"}]
    /\ calls \subseteq Index
    /\ planMode \in BOOLEAN /\ dryRun \in BOOLEAN
    /\ asking \subseteq calls /\ readers \subseteq calls
    /\ copy \in [Index -> SUBSET Index] /\ file \subseteq Index
    /\ toolResults \in [Index -> {"none", "success", "refused", "failed"}]
    /\ toolPhase \in {"parse", "check", "concurrent", "in order", "returned"}

ToolInit ==
    /\ toolReply \in [Index -> {"", "read_file", "write_file", "edit_file"}]
    /\ planMode \in BOOLEAN /\ dryRun \in BOOLEAN
    /\ calls = {} /\ asking = {} /\ readers = {}
    /\ copy = [i \in Index |-> {}] /\ file = {}
    /\ toolResults = [i \in Index |-> "none"]
    /\ toolPhase = "parse"

Phase(from, to) == toolPhase = from /\ toolPhase' = to
Inputs == <<toolReply, planMode, dryRun>>

-----------------------------------------------------------------------------
Parse ==
    /\ Phase("parse", "check")
    /\ calls' = {i \in Index : toolReply[i] # ""}
    /\ UNCHANGED <<Inputs, asking, readers, copy, file, toolResults>>

\* By the definitions of the tools in either mode, and by the manager's own list
\* in plan mode.
RequiresApproval(i) == toolReply[i] \in {"write_file", "edit_file"}

Modifying(i) == toolReply[i] \in {"write_file", "edit_file"}

\* A mutant: edits are taken for reading calls.
CheckApprovalsEditsRead ==
    /\ Phase("check", "concurrent")
    /\ calls' = calls
    /\ asking' = {i \in calls' : toolReply[i] # "write_file"}
    /\ UNCHANGED <<Inputs, readers, copy, file, toolResults>>

\* In auto mode the answer is ignored; in plan mode, once the user agrees, only
\* the calls asked for are executed. Then the calls are split in two.
CheckApprovals ==
    /\ Phase("check", "concurrent")
    /\ LET asked == {i \in calls : RequiresApproval(i)}
       IN  calls' = IF planMode /\ asked # {} THEN asked ELSE calls
    /\ asking' = {i \in calls' : ~Modifying(i)}
    /\ UNCHANGED <<Inputs, readers, copy, file, toolResults>>

AcquireSemaphore(i) ==
    /\ toolPhase = "concurrent" /\ i \in asking
    /\ Cardinality(readers) < MaxReaders
    /\ asking' = asking \ {i}
    /\ readers' = readers \cup {i}
    /\ UNCHANGED <<Inputs, calls, copy, file, toolResults, toolPhase>>

\* The results of all concurrent calls have been received.
AllReceived ==
    /\ asking = {} /\ readers = {}
    /\ Phase("concurrent", "in order")
    /\ UNCHANGED <<Inputs, calls, asking, readers, copy, file, toolResults>>

Open == {i \in calls : toolResults[i] = "none"}

ExecuteNext ==
    /\ toolPhase = "in order" /\ readers = {}
    /\ \E i \in Open : (\A j \in Open : i <= j) /\ readers' = {i}
    /\ UNCHANGED <<Inputs, calls, asking, copy, file, toolResults, toolPhase>>

\* ExecuteSingle
End(i, result) ==
    /\ i \in readers
    /\ readers' = readers \ {i}
    /\ toolResults' = [toolResults EXCEPT ![i] = result]
    /\ UNCHANGED <<Inputs, calls, asking, toolPhase>>

\* Unknown, invalid, forbidden; or it fails or runs out of time before it changes anything.
CallRefused(i) == End(i, "refused") /\ UNCHANGED <<copy, file>>
CallFails(i) == ~dryRun /\ End(i, "failed") /\ UNCHANGED <<copy, file>>

DryRun(i) == dryRun /\ End(i, "success") /\ UNCHANGED <<copy, file>>

ReadFile(i) == ~dryRun /\ toolReply[i] = "read_file" /\ End(i, "success") /\ UNCHANGED <<copy, file>>

WriteFile(i) ==
    /\ ~dryRun /\ toolReply[i] = "write_file"
    /\ End(i, "success")
    /\ file' = {i}
    /\ UNCHANGED copy

EditReads(i) ==
    /\ ~dryRun /\ toolReply[i] = "edit_file" /\ i \in readers /\ copy[i] = {}
    /\ copy' = [copy EXCEPT ![i] = file \cup {i}]
    /\ UNCHANGED <<Inputs, calls, asking, readers, file, toolResults, toolPhase>>

EditWrites(i) ==
    /\ ~dryRun /\ copy[i] # {}
    /\ End(i, "success")
    /\ file' = copy[i]
    /\ UNCHANGED copy

Return ==
    /\ readers = {} /\ Open = {}
    /\ Phase("in order", "returned")
    /\ UNCHANGED <<Inputs, calls, asking, readers, copy, file, toolResults>>

ToolNext ==
    \/ Parse \/ CheckApprovals \/ AllReceived \/ ExecuteNext \/ Return
    \/ \E i \in Index :
         \/ AcquireSemaphore(i)
         \/ CallRefused(i) \/ CallFails(i) \/ DryRun(i)
         \/ ReadFile(i) \/ WriteFile(i) \/ EditReads(i) \/ EditWrites(i)

ToolSpec == ToolInit /\ [][ToolNext]_toolVars

-----------------------------------------------------------------------------
\* The results tell what has become of the file: when the batch returns it holds
\* the text of the last call that succeeded in writing it and of the successful
\* edits after that, none lost to another; and every call executed has a result.
ResultsTellFile ==
    /\ ToolTypeOK
    /\ Cardinality(readers) <= MaxReaders
    /\ toolPhase = "returned" =>
         LET done(i) == ~dryRun /\ Modifying(i) /\ toolResults[i] = "success"
         IN  /\ \A i \in calls : toolResults[i] # "none"
             /\ file = {i \in Index : done(i) /\ \A j \in Index : j > i /\ done(j) => toolReply[j] = "edit_file"}
=============================================================================

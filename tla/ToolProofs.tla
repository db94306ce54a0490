----------------------------- MODULE ToolProofs -----------------------------
(***************************************************************************)
(* Proofs about what the program calls: a batch of tool calls, for any     *)
(* number of calls and of concurrent ones; the requests to tool servers;   *)
(* and the calls of the Herald service.                                    *)
(***************************************************************************)
EXTENDS ToolExecutor, McpClient, Herald, FiniteSetTheorems, TLAPS

-----------------------------------------------------------------------------
(* A batch of tool calls. ResultsTellFile is about the end of a batch. On  *)
(* the way the file holds what the results so far tell, because the calls  *)
(* that modify it end in the order of the reply, and while one of them     *)
(* holds a copy of the file no other writes.                               *)

Done(i) == ~dryRun /\ Modifying(i) /\ toolResults[i] = "success"

\* What the results so far tell of the file.
Told == {i \in Index : Done(i) /\ \A j \in Index : j > i /\ Done(j) => toolReply[j] = "edit_file"}

\* Only calls have results, once, after they have been executed.
ResultsOK ==
    /\ \A i \in Index : toolResults[i] # "none" => i \in calls \ (asking \cup readers)
    /\ asking \cap readers = {}
    /\ toolPhase \in {"parse", "check"} => asking = {} /\ readers = {} /\ \A i \in Index : toolResults[i] = "none"

\* The reading calls come first, at the same time; then the others in order.
OrderOK ==
    /\ toolPhase = "concurrent" =>
         /\ \A i \in asking \cup readers : ~Modifying(i)
         /\ \A i \in calls : Modifying(i) => toolResults[i] = "none"
         /\ \A i \in calls : ~Modifying(i) => i \in asking \cup readers \/ toolResults[i] # "none"
    /\ toolPhase = "in order" =>
         /\ asking = {}
         /\ \A i \in Open : Modifying(i)
         /\ \A i \in readers : \A j \in Open : i <= j
         /\ \A i \in Open, j \in calls : Modifying(j) /\ toolResults[j] # "none" => j < i
    /\ toolPhase = "returned" => Open = {} /\ readers = {}

\* An edit in hand has read the file as it is.
CopiesOK ==
    \A i \in Index : copy[i] # {} =>
        /\ toolReply[i] = "edit_file" /\ ~dryRun
        /\ i \in readers => copy[i] = file \cup {i}
        /\ i \notin readers => toolResults[i] # "none"

ToolInv ==
    /\ ToolTypeOK /\ Cardinality(readers) <= MaxReaders
    /\ ResultsOK /\ OrderOK /\ CopiesOK
    /\ file = Told

-----------------------------------------------------------------------------
\* The calls being executed are a finite set.
LEMMA ReadersFinite == ToolTypeOK => IsFiniteSet(readers) /\ Cardinality(readers) \in Nat
<1> SUFFICES ASSUME ToolTypeOK PROVE IsFiniteSet(readers) /\ Cardinality(readers) \in Nat
    OBVIOUS
<1>1. IsFiniteSet(Index)
    BY FS_Interval, ToolAssumption DEF Index
<1>2. readers \subseteq Index
    BY DEF ToolTypeOK
<1> QED BY <1>1, <1>2, FS_Subset, FS_CardinalityType

\* The order of the reply is that of numbers.
LEMMA IndexNumbers == \A i, j \in Index : i \in Int /\ (i <= j /\ j <= i => i = j) /\ (i <= j /\ i # j => i < j)
BY ToolAssumption DEF Index

\* A batch starts with nothing done.
LEMMA ToolInitial == ToolInit => ToolInv
<1> SUFFICES ASSUME ToolInit PROVE ToolInv
    OBVIOUS
<1>1. Cardinality(readers) = 0
    BY FS_EmptySet DEF ToolInit
<1>2. ToolTypeOK
    BY DEF ToolInit, ToolTypeOK
<1>3. ResultsOK /\ OrderOK /\ CopiesOK
    BY DEF ToolInit, ResultsOK, OrderOK, CopiesOK
<1>4. file = Told
    BY DEF ToolInit, Told, Done
<1> QED BY <1>1, <1>2, <1>3, <1>4, ToolAssumption DEF ToolInv

\* A step that ends no call leaves what the results tell.
LEMMA ToldStays == UNCHANGED <<toolReply, dryRun, toolResults>> => Told' = Told
BY DEF Told, Done, Modifying

\* Before and between the executions: the calls are sorted out, and nothing they
\* have done changes.
LEMMA PhasesKeepInv ==
    ASSUME ToolInv, Parse \/ CheckApprovals \/ AllReceived \/ Return
    PROVE  ToolInv'
<1>0. ToolTypeOK
    BY DEF ToolInv
<1>1. CASE Parse
    <2>1. ToolTypeOK'
        BY <1>0, <1>1 DEF Parse, Phase, Inputs, ToolTypeOK, ToolInv, ResultsOK
    <2>2. ResultsOK' /\ OrderOK'
        BY <1>1 DEF Parse, Phase, Inputs, ToolInv, ResultsOK, OrderOK
    <2>3. CopiesOK' /\ file' = Told'
        BY <1>1, ToldStays DEF Parse, Inputs, ToolInv, CopiesOK
    <2> QED BY <1>1, <2>1, <2>2, <2>3 DEF Parse, ToolInv
<1>2. CASE CheckApprovals
    <2>1. calls' \subseteq calls /\ asking' = {i \in calls' : ~Modifying(i)} /\ readers = {} /\ readers' = {}
        BY <1>2 DEF CheckApprovals, Phase, ToolInv, ResultsOK
    <2>2. ToolTypeOK'
        BY <1>0, <1>2, <2>1 DEF CheckApprovals, Phase, Inputs, ToolTypeOK
    <2>3. ResultsOK' /\ OrderOK'
        BY <1>0, <1>2, <2>1
        DEF CheckApprovals, Phase, Inputs, ToolInv, ResultsOK, OrderOK, Modifying, ToolTypeOK
    <2>4. CopiesOK' /\ file' = Told'
        BY <1>2, <2>1, ToldStays DEF CheckApprovals, Inputs, ToolInv, CopiesOK
    <2> QED BY <1>2, <2>2, <2>3, <2>4 DEF CheckApprovals, ToolInv
<1>3. CASE AllReceived
    <2>1. ToolTypeOK'
        BY <1>0, <1>3 DEF AllReceived, Phase, Inputs, ToolTypeOK
    <2>2. ResultsOK' /\ OrderOK'
        BY <1>0, <1>3 DEF AllReceived, Phase, Inputs, ToolInv, ResultsOK, OrderOK, Modifying, Open, ToolTypeOK
    <2>3. CopiesOK' /\ file' = Told'
        BY <1>3, ToldStays DEF AllReceived, Inputs, ToolInv, CopiesOK
    <2> QED BY <1>3, <2>1, <2>2, <2>3 DEF AllReceived, ToolInv
<1>4. CASE Return
    <2>1. ToolTypeOK'
        BY <1>0, <1>4 DEF Return, Phase, Inputs, ToolTypeOK
    <2>2. ResultsOK' /\ OrderOK'
        BY <1>4 DEF Return, Phase, Inputs, ToolInv, ResultsOK, OrderOK, Open
    <2>3. CopiesOK' /\ file' = Told'
        BY <1>4, ToldStays DEF Return, Inputs, ToolInv, CopiesOK
    <2> QED BY <1>4, <2>1, <2>2, <2>3 DEF Return, ToolInv
<1> QED BY <1>1, <1>2, <1>3, <1>4

\* A call begins, at most MaxReaders of them at a time.
LEMMA BeginsKeepInv ==
    ASSUME ToolInv, NEW i \in Index, AcquireSemaphore(i) \/ (ExecuteNext /\ i \in readers')
    PROVE  ToolInv'
<1>0. ToolTypeOK /\ IsFiniteSet(readers) /\ Cardinality(readers) \in Nat /\ MaxReaders \in Nat \ {0}
    BY ReadersFinite, ToolAssumption DEF ToolInv
<1>1. CASE AcquireSemaphore(i)
    <2>1. Cardinality(readers') <= MaxReaders
        <3>1. Cardinality(readers \cup {i}) \in {Cardinality(readers), Cardinality(readers) + 1}
            BY <1>0, FS_AddElement
        <3> QED BY <1>0, <1>1, <3>1 DEF AcquireSemaphore
    <2>2. ToolTypeOK'
        BY <1>0, <1>1 DEF AcquireSemaphore, Inputs, ToolTypeOK
    <2>3. ResultsOK'
        BY <1>0, <1>1 DEF AcquireSemaphore, Inputs, ToolInv, ResultsOK, ToolTypeOK
    <2>5. OrderOK'
        <3>1. toolPhase' = "concurrent" /\ asking' \cup readers' = asking \cup readers
              /\ UNCHANGED <<toolReply, calls, toolResults>>
            BY <1>1 DEF AcquireSemaphore, Inputs
        <3>2. \A j : Modifying(j)' = Modifying(j)
            BY <3>1 DEF Modifying
        <3> QED BY <1>1, <3>1, <3>2 DEF AcquireSemaphore, ToolInv, OrderOK
    <2>4. CopiesOK' /\ file' = Told'
        <3>1. copy[i] = {}
            BY <1>0, <1>1 DEF AcquireSemaphore, ToolInv, ResultsOK, OrderOK, CopiesOK, Modifying, ToolTypeOK
        <3> QED BY <1>1, <3>1, ToldStays DEF AcquireSemaphore, Inputs, ToolInv, CopiesOK
    <2> QED BY <2>1, <2>2, <2>3, <2>4, <2>5 DEF ToolInv
<1>2. CASE ExecuteNext /\ i \in readers'
    <2>1. i \in Open /\ (\A j \in Open : i <= j) /\ readers' = {i} /\ readers = {} /\ toolPhase = "in order"
          /\ UNCHANGED <<Inputs, calls, asking, copy, file, toolResults, toolPhase>>
        BY <1>2 DEF ExecuteNext
    <2>2. Cardinality(readers') <= MaxReaders
        <3>1. Cardinality({i}) = 1
            BY FS_Singleton
        <3>2. 1 <= MaxReaders
            BY <1>0
        <3> QED BY <2>1, <3>1, <3>2
    <2>3. ToolTypeOK'
        BY <1>0, <2>1 DEF Inputs, ToolTypeOK, Open
    <2>4. ResultsOK' /\ OrderOK'
        <3>1. ResultsOK'
            BY <1>0, <2>1 DEF Inputs, ToolInv, ResultsOK, OrderOK, Open, ToolTypeOK
        <3>2. Open' = Open /\ \A j : Modifying(j)' = Modifying(j)
            BY <2>1 DEF Inputs, Open, Modifying
        <3> QED BY <2>1, <3>1, <3>2 DEF ToolInv, OrderOK
    <2>5. CopiesOK' /\ file' = Told'
        <3>1. copy[i] = {}
            BY <1>0, <2>1 DEF ToolInv, CopiesOK, Open, ToolTypeOK
        <3> QED BY <2>1, <3>1, ToldStays DEF Inputs, ToolInv, CopiesOK
    <2> QED BY <2>2, <2>3, <2>4, <2>5 DEF ToolInv
<1> QED BY <1>1, <1>2

\* A call that ends leaves the others where they are.
LEMMA EndKeepsOrder ==
    ASSUME ToolInv, NEW i \in Index, NEW result \in {"success", "refused", "failed"}, End(i, result),
           copy' = copy, file' \subseteq Index
    PROVE  ToolTypeOK' /\ Cardinality(readers') <= MaxReaders /\ ResultsOK' /\ OrderOK'
<1>0. ToolTypeOK /\ IsFiniteSet(readers) /\ Cardinality(readers) \in Nat /\ MaxReaders \in Nat \ {0}
    BY ReadersFinite, ToolAssumption DEF ToolInv
<1>1. Cardinality(readers') <= MaxReaders
    <2>1. Cardinality(readers \ {i}) \in {Cardinality(readers), Cardinality(readers) - 1}
        BY <1>0, FS_RemoveElement
    <2> QED BY <1>0, <2>1 DEF End, ToolInv
<1>2. ToolTypeOK'
    BY <1>0 DEF End, Inputs, ToolTypeOK
<1>3. ResultsOK'
    BY <1>0 DEF End, Inputs, ToolInv, ResultsOK, ToolTypeOK
<1>4. OrderOK'
    <2>1. CASE toolPhase = "concurrent"
        BY <1>0, <2>1 DEF End, Inputs, ToolInv, ResultsOK, OrderOK, Modifying, ToolTypeOK
    <2>2. CASE toolPhase = "in order"
        <3>1. i \in Open /\ \A j \in Open : i <= j
            BY <1>0, <2>2 DEF End, ToolInv, ResultsOK, OrderOK, Open, ToolTypeOK
        <3>2. Open' = Open \ {i}
            BY <1>0 DEF End, Open, ToolTypeOK
        <3>3. \A j \in Open' : i < j
            <4>1. Open \subseteq Index
                BY <1>0 DEF Open, ToolTypeOK
            <4> QED BY <3>1, <3>2, <4>1, IndexNumbers
        <3>4. \A j : Modifying(j)' = Modifying(j)
            BY DEF End, Inputs, Modifying
        <3>5. readers' = readers \ {i} /\ asking' = asking /\ calls' = calls /\ toolPhase' = toolPhase
              /\ \A j \in calls \ {i} : toolResults'[j] = toolResults[j]
            BY <1>0 DEF End, ToolTypeOK
        <3>6. \A k \in Open', j \in calls : Modifying(j) /\ toolResults'[j] # "none" => j < k
            BY <2>2, <3>2, <3>3, <3>5 DEF ToolInv, OrderOK
        <3> QED BY <2>2, <3>2, <3>4, <3>5, <3>6 DEF ToolInv, OrderOK
    <2>3. toolPhase \notin {"parse", "check", "returned"}
        BY DEF End, ToolInv, ResultsOK, OrderOK
    <2> QED BY <1>0, <2>1, <2>2, <2>3 DEF ToolTypeOK
<1> QED BY <1>1, <1>2, <1>3, <1>4

\* A call that leaves the file alone is not told of as a change of it.
LEMMA QuietEndsKeepInv ==
    ASSUME ToolInv, NEW i \in Index, NEW result \in {"success", "refused", "failed"}, End(i, result),
           UNCHANGED <<copy, file>>, dryRun \/ ~Modifying(i) \/ result # "success"
    PROVE  ToolInv'
<1>0. ToolTypeOK
    BY DEF ToolInv
<1>1. ToolTypeOK' /\ Cardinality(readers') <= MaxReaders /\ ResultsOK' /\ OrderOK'
    BY <1>0, EndKeepsOrder DEF ToolTypeOK
<1>2. CopiesOK'
    BY <1>0 DEF End, Inputs, ToolInv, CopiesOK, ToolTypeOK
<1>3. Told' = Told
    <2>1. \A j \in Index : Done(j)' <=> Done(j)
        <3>1. ~Done(i) /\ ~Done(i)'
            BY <1>0 DEF End, Inputs, ToolInv, ResultsOK, Done, Modifying, ToolTypeOK
        <3>2. \A j \in Index \ {i} : Done(j)' <=> Done(j)
            BY <1>0 DEF End, Inputs, Done, Modifying, ToolTypeOK
        <3> QED BY <3>1, <3>2
    <2>2. toolReply' = toolReply
        BY DEF End, Inputs
    <2> QED BY <2>1, <2>2 DEF Told
<1> QED BY <1>1, <1>2, <1>3 DEF ToolInv

\* A call that modifies the file is the only one in hand, and those that did so
\* before it come before it in the reply.
LEMMA WritersAlone ==
    ASSUME ToolInv, NEW i \in readers, Modifying(i)
    PROVE  /\ readers = {i}
           /\ \A j \in Index : Done(j) => j < i
<1>0. ToolTypeOK /\ ResultsOK /\ OrderOK
    BY DEF ToolInv
<1>1. toolPhase = "in order" /\ i \in Open
    BY <1>0 DEF ResultsOK, OrderOK, ToolTypeOK, Open
<1>2. readers \subseteq Open
    BY <1>0 DEF ResultsOK, ToolTypeOK, Open
<1>3. readers = {i}
    <2>1. \A j \in readers : i <= j /\ j <= i
        BY <1>0, <1>1, <1>2 DEF OrderOK
    <2>2. readers \subseteq Index
        BY <1>0 DEF ToolTypeOK
    <2>3. \A j \in readers : j = i
        BY <2>1, <2>2, IndexNumbers
    <2> QED BY <2>3
<1>4. \A j \in Index : Done(j) => j < i
    BY <1>0, <1>1 DEF Done, ResultsOK, OrderOK
<1> QED BY <1>3, <1>4

\* A write replaces the file; the calls before it are no longer told of.
LEMMA WriteKeepsInv ==
    ASSUME ToolInv, NEW i \in Index, WriteFile(i)
    PROVE  ToolInv'
<1>0. ToolTypeOK /\ End(i, "success") /\ toolReply[i] = "write_file" /\ ~dryRun /\ file' = {i} /\ copy' = copy
    BY DEF ToolInv, WriteFile
<1>1. ToolTypeOK' /\ Cardinality(readers') <= MaxReaders /\ ResultsOK' /\ OrderOK'
    BY <1>0, EndKeepsOrder
<1>2. readers = {i} /\ \A j \in Index : Done(j) => j < i
    BY <1>0, WritersAlone DEF End, Modifying
<1>3. CopiesOK'
    BY <1>0, <1>2 DEF End, Inputs, ToolInv, CopiesOK, ToolTypeOK
<1>4. \A j \in Index : Done(j)' <=> j = i \/ Done(j)
    BY <1>0 DEF End, Inputs, Done, Modifying, ToolTypeOK
<1>5. file' = Told'
    <2>1. Told' = {k \in Index : (k = i \/ Done(k)) /\ \A j \in Index : j > k /\ (j = i \/ Done(j)) => toolReply[j] = "edit_file"}
        BY <1>0, <1>4 DEF Told, End, Inputs
    <2>2. \A k \in Index : Done(k) => i > k /\ toolReply[i] # "edit_file"
        BY <1>0, <1>2, ToolAssumption DEF Index
    <2>3. \A j \in Index : ~(j > i /\ (j = i \/ Done(j)))
        BY <1>2, ToolAssumption DEF Index
    <2> QED BY <1>0, <2>1, <2>2, <2>3
<1> QED BY <1>1, <1>3, <1>5 DEF ToolInv

\* An edit adds its text to what it read, which is what the file still holds.
LEMMA EditKeepsInv ==
    ASSUME ToolInv, NEW i \in Index, EditWrites(i)
    PROVE  ToolInv'
<1>0. ToolTypeOK /\ End(i, "success") /\ i \in readers /\ ~dryRun /\ file' = copy[i] /\ copy' = copy /\ copy[i] # {}
    BY DEF ToolInv, EditWrites, End
<1>1. toolReply[i] = "edit_file" /\ copy[i] = file \cup {i} /\ copy[i] \subseteq Index
    BY <1>0 DEF ToolInv, CopiesOK, ToolTypeOK
<1>2. ToolTypeOK' /\ Cardinality(readers') <= MaxReaders /\ ResultsOK' /\ OrderOK'
    BY <1>0, <1>1, EndKeepsOrder
<1>3. readers = {i} /\ \A j \in Index : Done(j) => j < i
    BY <1>0, <1>1, WritersAlone DEF Modifying
<1>4. CopiesOK'
    BY <1>0, <1>3 DEF End, Inputs, ToolInv, CopiesOK, ToolTypeOK
<1>5. \A j \in Index : Done(j)' <=> j = i \/ Done(j)
    BY <1>0, <1>1 DEF End, Inputs, Done, Modifying, ToolTypeOK
<1>6. file' = Told'
    <2>1. Told' = {k \in Index : (k = i \/ Done(k)) /\ \A j \in Index : j > k /\ (j = i \/ Done(j)) => toolReply[j] = "edit_file"}
        BY <1>0, <1>5 DEF Told, End, Inputs
    <2>2. \A j \in Index : ~(j > i /\ (j = i \/ Done(j)))
        BY <1>3, ToolAssumption DEF Index
    <2>3. Told' = Told \cup {i}
        BY <1>1, <2>1, <2>2 DEF Told
    <2> QED BY <1>0, <1>1, <2>3 DEF ToolInv
<1> QED BY <1>2, <1>4, <1>6 DEF ToolInv

\* An edit reads while it is the only call in hand.
LEMMA ReadKeepsInv ==
    ASSUME ToolInv, NEW i \in Index, EditReads(i)
    PROVE  ToolInv'
<1>0. ToolTypeOK
    BY DEF ToolInv
<1>1. readers = {i} /\ readers' = readers
    BY WritersAlone DEF EditReads, Modifying
<1>2. ToolTypeOK'
    BY <1>0 DEF EditReads, Inputs, ToolTypeOK
<1>3. ResultsOK' /\ OrderOK'
    BY <1>0 DEF EditReads, Inputs, ToolInv, ResultsOK, OrderOK, Modifying, Open
<1>4. CopiesOK'
    BY <1>0, <1>1 DEF EditReads, Inputs, ToolInv, CopiesOK, ToolTypeOK
<1>5. file' = Told'
    BY ToldStays DEF EditReads, Inputs, ToolInv
<1> QED BY <1>1, <1>2, <1>3, <1>4, <1>5 DEF ToolInv

\* Every step keeps the invariant.
LEMMA ToolStep == ToolInv /\ [ToolNext]_toolVars => ToolInv'
<1> SUFFICES ASSUME ToolInv, [ToolNext]_toolVars PROVE ToolInv'
    OBVIOUS
<1>1. CASE Parse \/ CheckApprovals \/ AllReceived \/ Return
    BY <1>1, PhasesKeepInv
<1>2. CASE ExecuteNext
    <2>1. PICK i \in Open : readers' = {i}
        BY <1>2 DEF ExecuteNext
    <2>2. i \in Index
        BY <2>1 DEF Open, ToolInv, ToolTypeOK
    <2> QED BY <1>2, <2>1, <2>2, BeginsKeepInv
<1>3. ASSUME NEW i \in Index, AcquireSemaphore(i) PROVE ToolInv'
    BY <1>3, BeginsKeepInv
<1>4. ASSUME NEW i \in Index, CallRefused(i) \/ CallFails(i) \/ DryRun(i) \/ ReadFile(i) PROVE ToolInv'
    BY <1>4, QuietEndsKeepInv DEF CallRefused, CallFails, DryRun, ReadFile, Modifying
<1>5. ASSUME NEW i \in Index, WriteFile(i) \/ EditReads(i) \/ EditWrites(i) PROVE ToolInv'
    BY <1>5, WriteKeepsInv, ReadKeepsInv, EditKeepsInv
<1>6. CASE UNCHANGED toolVars
    <2>1. UNCHANGED <<toolReply, calls, planMode, dryRun, asking, readers, copy, file, toolResults, toolPhase>>
        BY <1>6 DEF toolVars
    <2>2. ToolTypeOK' /\ ResultsOK'
        BY <2>1 DEF ToolInv, ToolTypeOK, ResultsOK
    <2>3. OrderOK' /\ CopiesOK'
        BY <2>1 DEF ToolInv, OrderOK, CopiesOK, Open, Modifying
    <2> QED BY <2>1, <2>2, <2>3, ToldStays DEF ToolInv
<1> QED BY <1>1, <1>2, <1>3, <1>4, <1>5, <1>6 DEF ToolNext

\* For any number of calls, whatever fails: when a batch returns, every call
\* executed has a result, and the file holds what these results tell.
THEOREM ToolResultsTell == ToolSpec => []ResultsTellFile
<1>1. ToolInv => ResultsTellFile
    BY DEF ToolInv, ResultsTellFile, OrderOK, Open, Told, Done
<1> QED BY <1>1, ToolInitial, ToolStep, PTL DEF ToolSpec

-----------------------------------------------------------------------------
(* Requests to tool servers. A message id is as good as the number of the  *)
(* request it was given to, so an answer with the id is the answer to that *)
(* request, whichever connection it outlived. A channel in pending has an  *)
(* owner, and only one that is going to remove it.                         *)

Live == {"open", "waiting", "leaving"}
Request ==
    [step : {"idle", "start", "looked", "over"} \cup Live, over : 0 .. MaxConnects,
     id : Nat, number : Nat, answer : Nat]
RequestOK(r) ==
    /\ r \in Request /\ r.number = r.id
    /\ r.answer \in {NoAnswer, ServersOwn, r.number}

Owned(p) == \E c \in Requesters : request[c].step \in Live /\ Channel(c) = p
ChannelOf(m) == [over |-> m.over, id |-> m.id]
IsMessage(m) == m.number \in {ServersOwn, m.id}

ConnectionsOK ==
    /\ connects \in 0 .. MaxConnects /\ connecting \in 0 .. connects /\ server \in 0 .. connects

\* Nobody makes requests for a connection that does not exist yet.
RequestsOK ==
    /\ request \in [Requesters -> Request]
    /\ \A c \in Requesters : RequestOK(request[c])
    /\ \A c \in Requesters : request[c].step \in {"idle", "start", "looked", "open", "waiting"} =>
                                request[c].answer = NoAnswer
    /\ connecting = NoTransport => request[Handshake].step = "idle"
    /\ \A t \in Transports : t > connects \/ t = connecting => request[t].step = "idle"

MessagesOK ==
    /\ \A m \in unanswered \cup wire \cup box \cup jammed : IsMessage(m)
    /\ \A p \in pending : Owned(p)
    /\ \A m \in box \cup jammed : ChannelOf(m) \in pending

McpInv ==
    /\ sent \in Nat /\ nextID = sent
    /\ ConnectionsOK /\ RequestsOK /\ MessagesOK

\* One request goes on; the connections stay as they are. A channel keeps its owner
\* unless it is this request's and the request is not live any more.
LEMMA RequestGoesOn ==
  ASSUME ConnectionsOK, RequestsOK, NEW c \in Requesters, NEW r,
         request' = [request EXCEPT ![c] = r], UNCHANGED <<connects, connecting>>,
         RequestOK(r), r.step \in {"idle", "start", "looked", "open", "waiting"} => r.answer = NoAnswer,
         request[c].step # "idle" \/ c \in ToolUsers
  PROVE  /\ RequestsOK'
         /\ \A p : /\ Owned(p)
                   /\ request[c].step \in Live /\ Channel(c) = p => r.step \in Live /\ ChannelOf(r) = p
                   => Owned(p)'
<1>1. \A d \in Requesters : request'[d] = IF d = c THEN r ELSE request[d]
  BY DEF RequestsOK
<1>2. RequestsOK'
  <2>1. request' \in [Requesters -> Request]
    BY DEF RequestsOK, RequestOK
  <2>2. Handshake \in Requesters /\ Handshake \notin ToolUsers /\ Transports \subseteq Requesters
        /\ ToolUsers \cap Transports = {}
    BY McpAssumption DEF Requesters
  <2>3. connecting' = NoTransport => request'[Handshake].step = "idle"
    BY <1>1, <2>2 DEF RequestsOK
  <2>4. \A t \in Transports : t > connects' \/ t = connecting' => request'[t].step = "idle"
    BY <1>1, <2>2 DEF RequestsOK
  <2>5. \A d \in Requesters : RequestOK(request'[d])
    BY <1>1 DEF RequestsOK
  <2>6. \A d \in Requesters : request'[d].step \in {"idle", "start", "looked", "open", "waiting"} =>
                                 request'[d].answer = NoAnswer
    BY <1>1 DEF RequestsOK
  <2>7. QED
    BY <2>1, <2>3, <2>4, <2>5, <2>6 DEF RequestsOK, RequestOK
<1>3. ASSUME NEW p, Owned(p),
             request[c].step \in Live /\ Channel(c) = p => r.step \in Live /\ ChannelOf(r) = p
      PROVE  Owned(p)'
  <2>1. PICK d \in Requesters : request[d].step \in Live /\ Channel(d) = p
    BY <1>3 DEF Owned
  <2>2. request'[d].step \in Live /\ ChannelOf(request'[d]) = p
    BY <1>1, <1>3, <2>1 DEF Channel, ChannelOf
  <2>3. QED
    BY <2>2 DEF Owned, Channel, ChannelOf
<1>4. QED
  BY <1>2, <1>3

\* What a request may become.
LEMMA RequestBecomes ==
  ASSUME NEW r, RequestOK(r)
  PROVE  /\ RequestOK(NoRequest) /\ NoRequest.step = "idle" /\ NoRequest.answer = NoAnswer
         /\ \A t \in 0 .. MaxConnects :
               RequestOK([NoRequest EXCEPT !.step = "looked", !.over = t])
         /\ \A to \in {"over", "start"} \cup Live : RequestOK([r EXCEPT !.step = to])
         /\ \A n \in {ServersOwn, r.id} : RequestOK([r EXCEPT !.step = "leaving", !.answer = n])
         /\ \A i \in Nat : r.answer = NoAnswer => RequestOK([r EXCEPT !.step = "open", !.id = i, !.number = i])
<1>1. NoAnswer \in Nat /\ NoTransport \in 0 .. MaxConnects
  BY McpAssumption DEF McpAssumption, NoAnswer, NoTransport
<1>2. r \in Request /\ r.number = r.id /\ r.answer \in {NoAnswer, ServersOwn, r.number}
  BY DEF RequestOK
<1>3. RequestOK(NoRequest) /\ \A t \in 0 .. MaxConnects : RequestOK([NoRequest EXCEPT !.step = "looked", !.over = t])
  BY <1>1 DEF RequestOK, Request, NoRequest
<1>4. \A to \in {"over", "start"} \cup Live : RequestOK([r EXCEPT !.step = to])
  BY <1>2 DEF RequestOK, Request
<1>5. \A n \in {ServersOwn, r.id} : RequestOK([r EXCEPT !.step = "leaving", !.answer = n])
  <2>1. ASSUME NEW n \in {ServersOwn, r.id} PROVE RequestOK([r EXCEPT !.step = "leaving", !.answer = n])
    <3>1. n \in Nat
      BY <1>2, <2>1 DEF Request, ServersOwn
    <3>2. [r EXCEPT !.step = "leaving", !.answer = n] \in Request
      BY <1>2, <3>1 DEF Request, Live
    <3>3. QED
      BY <1>2, <2>1, <3>2 DEF RequestOK, Request
  <2>2. QED
    BY <2>1
<1>6. \A i \in Nat : r.answer = NoAnswer => RequestOK([r EXCEPT !.step = "open", !.id = i, !.number = i])
  BY <1>1, <1>2 DEF RequestOK, Request, Live
<1>7. QED
  BY <1>3, <1>4, <1>5, <1>6 DEF NoRequest

\* The steps of one request, up to the answer.
LEMMA OpenKeepsInv ==
  ASSUME McpInv, NEW c \in Requesters, GetConnection(c) \/ OpenChannel(c) PROVE McpInv'
<1> DEFINE r0 == request[c]
<1>0. /\ RequestOK(r0) /\ request \in [Requesters -> Request]
      /\ sent \in Nat /\ nextID = sent /\ ConnectionsOK /\ RequestsOK /\ MessagesOK
  BY DEF McpInv, RequestsOK
<1>1. CASE GetConnection(c)
  <2>1. PICK r \in {NoRequest, [NoRequest EXCEPT !.step = "looked", !.over = server]} :
           request' = [request EXCEPT ![c] = r]
    BY <1>1 DEF GetConnection
  <2>2. RequestOK(r) /\ r.answer = NoAnswer
    <3>1. server \in 0 .. MaxConnects
      <4>1. MaxConnects \in Nat /\ connects \in 0 .. MaxConnects /\ server \in 0 .. connects
        BY <1>0, McpAssumption DEF McpAssumption, ConnectionsOK
      <4>2. QED
        BY <4>1
    <3>2. RequestOK(r)
      BY <1>0, <2>1, <3>1, RequestBecomes
    <3>3. QED
      <4>1. r = NoRequest \/ r = [NoRequest EXCEPT !.step = "looked", !.over = server]
        BY <2>1
      <4>2. [NoRequest EXCEPT !.step = "looked", !.over = server].answer = NoAnswer
            /\ NoRequest.answer = NoAnswer
        BY DEF NoRequest
      <4>3. QED
        BY <3>2, <4>1, <4>2
  <2>3. (request[c].step # "idle" \/ c \in ToolUsers) /\ request[c].step \notin Live
    BY <1>1 DEF GetConnection, NoRequest, Live
  <2>4. UNCHANGED <<connects, connecting, server, nextID, sent, pending, box, jammed, unanswered, wire>>
    BY <1>1 DEF GetConnection, Connections, ServerState
  <2>5. RequestsOK' /\ \A p : Owned(p) => Owned(p)'
    BY <1>0, <2>1, <2>2, <2>3, <2>4, RequestGoesOn
  <2>6. QED
    BY <1>0, <2>4, <2>5 DEF McpInv, ConnectionsOK, MessagesOK
<1>2. CASE OpenChannel(c) /\ r0.over \notin up
  <2>1. /\ request' = [request EXCEPT ![c] = [r0 EXCEPT !.step = "over"]] /\ r0.step = "looked"
        /\ UNCHANGED <<connects, connecting, server, nextID, sent, pending, box, jammed, unanswered, wire>>
    BY <1>0, <1>2 DEF OpenChannel, Connections, ServerState
  <2>2. RequestOK([r0 EXCEPT !.step = "over"]) /\ [r0 EXCEPT !.step = "over"].step = "over"
    <3>1. RequestOK([r0 EXCEPT !.step = "over"])
      BY <1>0, RequestBecomes
    <3>2. r0 \in Request
      BY <1>0 DEF RequestOK
    <3>3. QED
      BY <3>1, <3>2 DEF Request
  <2>3. RequestsOK' /\ \A p : Owned(p) => Owned(p)'
    BY <1>0, <2>1, <2>2, RequestGoesOn DEF Live
  <2>4. QED
    BY <1>0, <2>1, <2>3 DEF McpInv, ConnectionsOK, MessagesOK
<1>3. CASE OpenChannel(c) /\ r0.over \in up
  <2> DEFINE new == [over |-> r0.over, id |-> NextID]
             r == [r0 EXCEPT !.step = "open", !.id = NextID, !.number = NextID]
  <2>1. /\ request' = [request EXCEPT ![c] = r] /\ r0.step = "looked"
        /\ nextID' = NextID /\ sent' = sent + 1 /\ pending' = pending \cup {new}
        /\ UNCHANGED <<connects, connecting, server, box, jammed, unanswered, wire>>
    BY <1>0, <1>3 DEF OpenChannel, Connections, ServerState, NextID
  <2>2. NextID \in Nat /\ NextID = sent + 1
    BY <1>0 DEF NextID
  <2>3. r0.answer = NoAnswer
    BY <1>0, <2>1 DEF RequestsOK
  <2>4. RequestOK(r) /\ r.answer = NoAnswer /\ r.step = "open" /\ ChannelOf(r) = new
    <3>1. RequestOK(r)
      BY <1>0, <2>2, <2>3, RequestBecomes
    <3>2. r0 \in Request
      BY <1>0
    <3>3. r.answer = r0.answer /\ r.step = "open" /\ r.over = r0.over /\ r.id = NextID
      BY <3>2 DEF Request
    <3>4. QED
      BY <2>3, <3>1, <3>3 DEF ChannelOf
  <2>5. request'[c] = r
    BY <1>0, <2>1
  <2> HIDE DEF r
  <2>6. RequestsOK' /\ \A p : Owned(p) => Owned(p)'
    BY <1>0, <2>1, <2>4, RequestGoesOn DEF Live
  <2>7. \A p : p = new => Owned(p)'
    BY <2>4, <2>5 DEF Owned, Live, Channel, ChannelOf
  <2>8. MessagesOK'
    BY <1>0, <2>1, <2>6, <2>7 DEF MessagesOK
  <2>9. QED
    BY <1>0, <2>1, <2>2, <2>6, <2>8 DEF McpInv, ConnectionsOK
<1>4. QED
  BY <1>1, <1>2, <1>3

LEMMA AnswerKeepsInv ==
  ASSUME McpInv, NEW c \in Requesters, WriteMessage(c) \/ ReceiveAnswer(c) \/ Timeout(c) PROVE McpInv'
<1> DEFINE r0 == request[c]
<1>0. /\ RequestOK(r0) /\ request \in [Requesters -> Request]
      /\ sent \in Nat /\ nextID = sent /\ ConnectionsOK /\ RequestsOK /\ MessagesOK
  BY DEF McpInv, RequestsOK
<1>1. ASSUME NEW r, request' = [request EXCEPT ![c] = r], RequestOK(r), r0.step \in Live, r.step \in Live,
             r.step \in {"open", "waiting"} => r.answer = NoAnswer, ChannelOf(r) = ChannelOf(r0),
             UNCHANGED <<connects, connecting, server, nextID, sent, pending, jammed, wire>>,
             box' \subseteq box,
             unanswered' \subseteq unanswered \cup {[over |-> r0.over, id |-> r0.id, number |-> r0.number]}
      PROVE  McpInv'
  <2>1. RequestsOK' /\ \A p : Owned(p) => Owned(p)'
    BY <1>0, <1>1, RequestGoesOn DEF Live, Channel, ChannelOf
  <2>2. r0.number = r0.id
    BY <1>0 DEF RequestOK
  <2>3. \A m \in unanswered' : IsMessage(m)
    BY <1>0, <1>1, <2>2 DEF MessagesOK, IsMessage
  <2>4. MessagesOK'
    BY <1>0, <1>1, <2>1, <2>3 DEF MessagesOK
  <2>5. QED
    BY <1>0, <1>1, <2>1, <2>4 DEF McpInv, ConnectionsOK
<1>2. ASSUME NEW to \in {"waiting", "leaving"}, r0.step \in {"open", "waiting"}
      PROVE  LET r == [r0 EXCEPT !.step = to]
             IN  RequestOK(r) /\ r.step \in Live /\ r.answer = NoAnswer /\ ChannelOf(r) = ChannelOf(r0)
  <2>1. r0.answer = NoAnswer
    BY <1>0, <1>2 DEF RequestsOK
  <2>2. QED
    <3>1. to \in Live
      BY DEF Live
    <3>2. RequestOK([r0 EXCEPT !.step = to])
      BY <1>0, <3>1, RequestBecomes
    <3>3. r0 \in Request
      BY <1>0 DEF RequestOK
    <3>4. PICK r : r = [r0 EXCEPT !.step = to]
      OBVIOUS
    <3>5. r.step = to /\ r.answer = r0.answer /\ r.over = r0.over /\ r.id = r0.id
      BY <3>3, <3>4 DEF Request
    <3>6. QED
      BY <2>1, <3>1, <3>2, <3>4, <3>5 DEF ChannelOf
<1>3. CASE WriteMessage(c)
  <2>1. PICK to \in {"waiting", "leaving"} : request' = [request EXCEPT ![c] = [r0 EXCEPT !.step = to]]
    BY <1>0, <1>3 DEF WriteMessage, Goes
  <2>2. r0.step = "open"
    BY <1>3 DEF WriteMessage, Goes
  <2>3. /\ UNCHANGED <<connects, connecting, server, nextID, sent, pending, box, jammed, wire>>
        /\ unanswered' \subseteq unanswered \cup {[over |-> r0.over, id |-> r0.id, number |-> r0.number]}
    BY <1>3 DEF WriteMessage, Connections
  <2>4. QED
    BY <1>1, <1>2, <2>1, <2>2, <2>3 DEF Live
<1>4. CASE Timeout(c)
  <2>1. r0.step = "waiting" /\ request' = [request EXCEPT ![c] = [r0 EXCEPT !.step = "leaving"]]
    BY <1>0, <1>4 DEF Timeout, Goes
  <2>2. UNCHANGED <<connects, connecting, server, nextID, sent, pending, box, jammed, wire, unanswered>>
    BY <1>4 DEF Timeout, Connections, ServerState
  <2>3. QED
    BY <1>1, <1>2, <2>1, <2>2 DEF Live
<1>5. CASE ReceiveAnswer(c)
  <2>1. PICK b \in box : /\ Holds(b, Channel(c)) /\ box' = box \ {b}
                         /\ request' = [request EXCEPT ![c].step = "leaving", ![c].answer = b.number]
    BY <1>5 DEF ReceiveAnswer
  <2> DEFINE r == [r0 EXCEPT !.step = "leaving", !.answer = b.number]
  <2>2. request' = [request EXCEPT ![c] = r] /\ r0.step = "waiting"
    BY <1>0, <1>5, <2>1 DEF ReceiveAnswer
  <2>3. b.number \in {ServersOwn, r0.id}
    BY <1>0, <2>1 DEF MessagesOK, IsMessage, Holds, Channel
  <2>4. RequestOK(r) /\ r.step = "leaving" /\ ChannelOf(r) = ChannelOf(r0)
    BY <1>0, <2>3, RequestBecomes DEF RequestOK, Request, ChannelOf
  <2>5. UNCHANGED <<connects, connecting, server, nextID, sent, pending, jammed, wire, unanswered>>
    BY <1>5 DEF ReceiveAnswer, Connections, ServerState
  <2> HIDE DEF r
  <2>6. QED
    BY <1>1, <2>1, <2>2, <2>4, <2>5 DEF Live
<1>6. QED
  BY <1>3, <1>4, <1>5

\* A Send that ends takes its channel with it, and what was in it; no reader holds
\* a message for it, for then the removal would wait.
LEMMA CloseKeepsInv ==
  ASSUME McpInv, NEW c \in Requesters, CloseChannel(c) \/ ReturnAnswer(c) PROVE McpInv'
<1> DEFINE r0 == request[c]
<1>0. /\ RequestOK(r0) /\ request \in [Requesters -> Request]
      /\ sent \in Nat /\ nextID = sent /\ ConnectionsOK /\ RequestsOK /\ MessagesOK
  BY DEF McpInv, RequestsOK
<1>1. CASE CloseChannel(c)
  <2>1. /\ request' = [request EXCEPT ![c] = [r0 EXCEPT !.step = "over"]] /\ r0.step = "leaving"
        /\ UNCHANGED <<connects, connecting, server, nextID, sent, jammed, unanswered, wire>>
        /\ pending' = pending \ {Channel(c)} /\ box' = {b \in box : ~Holds(b, Channel(c))}
        /\ ~Locked(r0.over)
    BY <1>0, <1>1 DEF CloseChannel, Goes, Connections, ServerState
  <2>2. RequestOK([r0 EXCEPT !.step = "over"]) /\ [r0 EXCEPT !.step = "over"].step = "over"
    <3>1. RequestOK([r0 EXCEPT !.step = "over"])
      BY <1>0, RequestBecomes
    <3>2. r0 \in Request
      BY <1>0 DEF RequestOK
    <3>3. QED
      BY <3>1, <3>2 DEF Request
  <2>3. RequestsOK' /\ \A p : Owned(p) /\ p # Channel(c) => Owned(p)'
    BY <1>0, <2>1, <2>2, RequestGoesOn
  <2>4. \A m \in box' \cup jammed' : ChannelOf(m) # Channel(c)
    BY <2>1 DEF Holds, Channel, ChannelOf, Locked
  <2>5. MessagesOK'
    BY <1>0, <2>1, <2>3, <2>4 DEF MessagesOK
  <2>6. QED
    BY <1>0, <2>1, <2>3, <2>5 DEF McpInv, ConnectionsOK
<1>2. CASE ReturnAnswer(c)
  <2>1. /\ request' = [request EXCEPT ![c] = NoRequest] /\ r0.step = "over"
        /\ UNCHANGED <<connects, connecting, server, nextID, sent, pending, box, jammed, unanswered, wire>>
    BY <1>2 DEF ReturnAnswer, ServerState
  <2>2. RequestsOK' /\ \A p : Owned(p) => Owned(p)'
    BY <1>0, <2>1, RequestBecomes, RequestGoesOn DEF Live
  <2>3. QED
    BY <1>0, <2>1, <2>2 DEF McpInv, ConnectionsOK, MessagesOK
<1>3. QED
  BY <1>1, <1>2

\* A new connection has a new number, so nobody has made a request for it; and the
\* handshake is one request at a time, under the lock.
LEMMA ConnectKeepsInv ==
  ASSUME McpInv, Connect \/ EndConnect \/ (\E clearTools \in BOOLEAN : Disconnect(clearTools)) PROVE McpInv'
<1>0. /\ request \in [Requesters -> Request]
      /\ sent \in Nat /\ nextID = sent /\ ConnectionsOK /\ RequestsOK /\ MessagesOK
  BY DEF McpInv, RequestsOK
<1>a. /\ Handshake \in Requesters /\ Handshake \notin Transports /\ Transports \subseteq Requesters
      /\ MaxConnects \in Nat /\ connects \in 0 .. MaxConnects /\ connecting \in 0 .. connects
      /\ Transports = 1 .. MaxConnects /\ NoTransport = 0
  BY <1>0, McpAssumption DEF McpAssumption, Requesters, Transports, ConnectionsOK, NoTransport
<1>1. CASE Connect
  <2> DEFINE r == [NoRequest EXCEPT !.step = "looked", !.over = connects + 1]
  <2>1. /\ request' = [request EXCEPT ![Handshake] = r] /\ connecting = NoTransport /\ connects < MaxConnects
        /\ connects' = connects + 1 /\ connecting' = connects + 1
        /\ UNCHANGED <<server, nextID, sent, pending, box, jammed, unanswered, wire>>
    BY <1>1 DEF Connect, ServerState
  <2>2. connects + 1 \in 0 .. MaxConnects
    BY <1>a, <2>1
  <2>3. RequestOK(r) /\ r.step = "looked" /\ r.answer = NoAnswer
    BY <1>0, <1>a, <2>2, RequestBecomes DEF RequestsOK, NoRequest
  <2>4. \A d \in Requesters : request'[d] = IF d = Handshake THEN r ELSE request[d]
    BY <1>0, <2>1
  <2>5. request[Handshake].step = "idle"
    BY <1>0, <2>1 DEF RequestsOK
  <2> HIDE DEF r
  <2>6. RequestsOK'
    <3>1. request' \in [Requesters -> Request]
      BY <1>0, <2>1, <2>3 DEF RequestOK
    <3>2. connecting' # NoTransport
      BY <1>a, <2>1
    <3>3. \A t \in Transports : t > connects' \/ t = connecting' => t > connects /\ t # Handshake
      BY <1>a, <2>1
    <3>4. \A t \in Transports : t > connects' \/ t = connecting' => request'[t].step = "idle"
      BY <1>0, <1>a, <2>4, <3>3 DEF RequestsOK
    <3>5. QED
      BY <1>0, <2>3, <2>4, <3>1, <3>2, <3>4 DEF RequestsOK
  <2>7. \A p : Owned(p) => Owned(p)'
    BY <2>4, <2>5 DEF Owned, Channel, Live
  <2>8. ConnectionsOK'
    BY <1>0, <1>a, <2>1, <2>2 DEF ConnectionsOK
  <2>9. QED
    BY <1>0, <2>1, <2>6, <2>7, <2>8 DEF McpInv, MessagesOK
<1>2. CASE EndConnect
  <2> DEFINE first == [request[connecting] EXCEPT !.step = "start"]
  <2>1. /\ connecting' = NoTransport /\ request[Handshake].step = "over"
        /\ UNCHANGED <<connects, nextID, sent, pending, box, jammed, unanswered, wire>>
        /\ server' \in {server, connecting}
        /\ \/ request' = [request EXCEPT ![Handshake] = NoRequest]
           \/ request' = [request EXCEPT ![Handshake] = NoRequest, ![connecting].step = "start"]
    BY <1>2 DEF EndConnect, ServerState
  <2>2. connecting \in Transports /\ connecting # Handshake
    BY <1>0, <1>a, <2>1 DEF RequestsOK
  <2>3. request[connecting].step = "idle" /\ request[connecting].answer = NoAnswer /\ RequestOK(request[connecting])
    BY <1>0, <1>a, <2>2 DEF RequestsOK
  <2>4. RequestOK(first) /\ first.step = "start" /\ first.answer = NoAnswer
    <3>1. RequestOK(first)
      BY <2>3, RequestBecomes
    <3>2. request[connecting] \in Request
      BY <2>3 DEF RequestOK
    <3>3. first.step = "start" /\ first.answer = request[connecting].answer
      BY <3>2 DEF Request
    <3>4. QED
      BY <2>3, <3>1, <3>3
  <2>5. RequestOK(NoRequest) /\ NoRequest.step = "idle" /\ NoRequest.answer = NoAnswer
    BY <2>3, RequestBecomes
  <2>6. \A d \in Requesters : \/ d = Handshake /\ request'[d] = NoRequest
                              \/ d = connecting /\ request'[d] = first
                              \/ d # Handshake /\ request'[d] = request[d]
    BY <1>0, <1>a, <2>1, <2>2
  <2>7. request' \in [Requesters -> Request]
    <3>1. NoRequest \in Request /\ first \in Request
      BY <2>4, <2>5 DEF RequestOK
    <3>2. CASE request' = [request EXCEPT ![Handshake] = NoRequest]
      BY <1>0, <3>1, <3>2
    <3>3. CASE request' = [request EXCEPT ![Handshake] = NoRequest, ![connecting].step = "start"]
      <4>1. request' = [[request EXCEPT ![Handshake] = NoRequest] EXCEPT ![connecting] = first]
        BY <1>0, <1>a, <2>2, <3>3
      <4>2. QED
        BY <1>0, <3>1, <4>1
    <3>4. QED
      BY <2>1, <3>2, <3>3
  <2> HIDE DEF first
  <2>8. RequestsOK'
    <3>1. request'[Handshake].step = "idle"
      BY <1>a, <2>2, <2>5, <2>6
    <3>2. \A t \in Transports : t > connects' \/ t = connecting' => request'[t].step = "idle"
      <4>1. \A t \in Transports : t > connects' \/ t = connecting' => t > connects /\ t # connecting /\ t # Handshake
        BY <1>a, <2>1
      <4>2. QED
        BY <1>0, <1>a, <2>6, <4>1 DEF RequestsOK
    <3>3. \A d \in Requesters : RequestOK(request'[d])
      BY <1>0, <2>4, <2>5, <2>6 DEF RequestsOK
    <3>4. \A d \in Requesters : request'[d].step \in {"idle", "start", "looked", "open", "waiting"} =>
                                   request'[d].answer = NoAnswer
      BY <1>0, <2>4, <2>5, <2>6 DEF RequestsOK
    <3>5. QED
      BY <2>7, <3>1, <3>2, <3>3, <3>4 DEF RequestsOK
  <2>9. \A p : Owned(p) => Owned(p)'
    BY <2>1, <2>3, <2>6 DEF Owned, Channel, Live
  <2>10. ConnectionsOK'
    BY <1>0, <1>a, <2>1 DEF ConnectionsOK
  <2>11. QED
    BY <1>0, <2>1, <2>8, <2>9, <2>10 DEF McpInv, MessagesOK
<1>3. CASE \E clearTools \in BOOLEAN : Disconnect(clearTools)
  <2>1. /\ UNCHANGED <<connects, connecting, request, nextID, sent, pending, box, jammed, unanswered, wire>>
        /\ server' = NoTransport
    BY <1>3 DEF Disconnect, ServerState
  <2>2. RequestsOK' /\ MessagesOK' /\ ConnectionsOK'
    BY <1>0, <1>a, <2>1 DEF RequestsOK, MessagesOK, ConnectionsOK, Owned, Channel
  <2>3. QED
    BY <1>0, <2>1, <2>2 DEF McpInv
<1>4. QED
  BY <1>1, <1>2, <1>3

\* Messages move. The reader puts one only where a Send has opened a channel, and a
\* message that it holds keeps that channel.
LEMMA MessagesKeepInv ==
  ASSUME McpInv,
         \/ \E m \in wire : ReadMessage(m)
         \/ \E m \in jammed : PutMessage(m)
         \/ \E m \in unanswered : ServerAnswers(m)
         \/ \E t \in up : OutputEnds(t) \/ \E id \in 1 .. MaxRequests : ServerRequests(t, id)
  PROVE  McpInv'
<1>0. sent \in Nat /\ nextID = sent /\ ConnectionsOK /\ RequestsOK /\ MessagesOK
  BY DEF McpInv
<1>1. ASSUME UNCHANGED <<connects, connecting, server, request, nextID, sent, pending>>,
             \A m \in unanswered' \cup wire' \cup box' \cup jammed' : IsMessage(m),
             \A m \in box' \cup jammed' : ChannelOf(m) \in pending
      PROVE  McpInv'
  <2>1. RequestsOK' /\ ConnectionsOK'
    BY <1>0, <1>1 DEF RequestsOK, ConnectionsOK
  <2>2. MessagesOK'
    BY <1>0, <1>1 DEF MessagesOK, Owned, Channel
  <2>3. QED
    BY <1>0, <1>1, <2>1, <2>2 DEF McpInv
<1>2. ASSUME NEW m \in wire, ReadMessage(m) PROVE McpInv'
  <2>1. ChannelOf(m) \in pending \/ UNCHANGED <<box, jammed>>
    BY <1>2 DEF ReadMessage, ChannelOf
  <2>2. box' \cup jammed' \subseteq box \cup jammed \cup {m} /\ wire' \subseteq wire /\ UNCHANGED unanswered
    BY <1>2 DEF ReadMessage
  <2>3. UNCHANGED <<connects, connecting, server, request, nextID, sent, pending>>
    BY <1>2 DEF ReadMessage, Connections
  <2>4. QED
    BY <1>0, <1>1, <1>2, <2>1, <2>2, <2>3 DEF MessagesOK
<1>3. ASSUME NEW m \in jammed, PutMessage(m) PROVE McpInv'
  <2>1. /\ UNCHANGED <<connects, connecting, server, request, nextID, sent, pending, unanswered, wire>>
        /\ box' \cup jammed' = box \cup jammed
    BY <1>3 DEF PutMessage, Connections, ServerState
  <2>2. QED
    BY <1>0, <1>1, <2>1 DEF MessagesOK
<1>4. ASSUME NEW m \in unanswered, ServerAnswers(m) PROVE McpInv'
  <2>1. /\ UNCHANGED <<connects, connecting, server, request, nextID, sent, pending, box, jammed>>
        /\ unanswered' \cup wire' = unanswered \cup wire
    BY <1>4 DEF ServerAnswers, Connections
  <2>2. QED
    BY <1>0, <1>1, <2>1 DEF MessagesOK
<1>5. ASSUME NEW t \in up, OutputEnds(t) PROVE McpInv'
  <2>1. UNCHANGED <<connects, connecting, server, request, nextID, sent, pending, box, jammed, unanswered, wire>>
    BY <1>5 DEF OutputEnds, ServerState
  <2>2. QED
    BY <1>0, <1>1, <2>1 DEF MessagesOK
<1>6. ASSUME NEW t \in up, NEW id \in 1 .. MaxRequests, ServerRequests(t, id) PROVE McpInv'
  <2>1. /\ UNCHANGED <<connects, connecting, server, request, nextID, sent, pending, box, jammed, unanswered>>
        /\ wire' = wire \cup {[over |-> t, id |-> id, number |-> ServersOwn]}
    BY <1>6 DEF ServerRequests, Connections
  <2>2. IsMessage([over |-> t, id |-> id, number |-> ServersOwn])
    BY DEF IsMessage
  <2>3. QED
    BY <1>0, <1>1, <2>1, <2>2 DEF MessagesOK
<1>7. QED
  BY <1>2, <1>3, <1>4, <1>5, <1>6

\* For any number of goroutines, connections and requests: no goroutine gets what
\* answers another's request, not even over a connection made anew, and what is in
\* a channel belongs to a Send that is there to take it.
THEOREM AnswersAreOnesOwn == McpSpec => []AnswersMatch
<1>1. McpInit => McpInv
  <2> SUFFICES ASSUME McpInit PROVE McpInv
    OBVIOUS
  <2>1. NoRequest \in Request /\ NoRequest.step = "idle" /\ NoRequest.answer = NoAnswer /\ RequestOK(NoRequest)
    BY McpAssumption DEF McpAssumption, NoRequest, Request, NoAnswer, NoTransport, RequestOK
  <2>2. /\ request = [c \in Requesters |-> NoRequest] /\ sent = 0 /\ nextID = 0
        /\ server = 0 /\ connects = 0 /\ connecting = 0
        /\ pending = {} /\ box = {} /\ jammed = {} /\ unanswered = {} /\ wire = {}
    BY DEF McpInit, NoTransport
  <2>3. Handshake \in Requesters /\ Transports \subseteq Requesters /\ MaxConnects \in Nat
    BY McpAssumption DEF McpAssumption, Requesters
  <2>4. RequestsOK
    BY <2>1, <2>2, <2>3 DEF RequestsOK
  <2>5. ConnectionsOK /\ MessagesOK
    BY <2>2, <2>3 DEF ConnectionsOK, MessagesOK
  <2>6. QED
    BY <2>2, <2>4, <2>5 DEF McpInv
<1>2. McpInv /\ [McpNext]_mcpVars => McpInv'
  <2> SUFFICES ASSUME McpInv, [McpNext]_mcpVars PROVE McpInv'
    OBVIOUS
  <2>1. CASE UNCHANGED mcpVars
    BY <2>1 DEF mcpVars, McpInv, ConnectionsOK, RequestsOK, MessagesOK, Owned, Channel
  <2>2. CASE \E c \in Requesters : GetConnection(c) \/ Send(c) \/ ReturnAnswer(c)
    BY <2>2, OpenKeepsInv, AnswerKeepsInv, CloseKeepsInv DEF Send
  <2>3. QED
    BY <2>1, <2>2, ConnectKeepsInv, MessagesKeepInv DEF McpNext
<1>3. McpInv => AnswersMatch
  <2> SUFFICES ASSUME McpInv PROVE AnswersMatch
    OBVIOUS
  <2>1. \A b \in box : \E c \in Requesters : request[c].step \in Live /\ Channel(c) = ChannelOf(b)
    BY DEF McpInv, MessagesOK, Owned
  <2>2. \A b \in box, c \in Requesters : Channel(c) = ChannelOf(b) => Holds(b, Channel(c))
    BY DEF Holds, ChannelOf
  <2>3. QED
    BY <2>1, <2>2 DEF McpInv, RequestsOK, RequestOK, AnswersMatch, Live
<1>4. QED
  BY <1>1, <1>2, <1>3, PTL DEF McpSpec

-----------------------------------------------------------------------------
(* Calls of the Herald service. A request that the service has acted on is *)
(* either answered or has lost its body, so that no retry of it can have   *)
(* an effect again; and an approval that is settled stays as it is.        *)

Requests == CallKinds \cup {"look", "session", "find", "activate", "health", "cached"}
Answers == {"none", "ok", "refused", "error", "healthy", "unhealthy", "pending", "approved", "denied", "expired"}
CallRecord ==
    [kind : CallKinds, req : Requests, step : {"tick", "try", "backoff", "answered", "reading", "done"},
     attempt : 0 .. RetryAttempts, spent : BOOLEAN, answer : Answers,
     told : {"nothing", "ok", "error", "local", "all", "empty", "approved", "denied", "expired"},
     read : 0 .. MaxChunks]
Once == {"dispatch", "complete"}

\* The requests that belong to a call.
Belongs(kind, req) ==
    CASE kind = "wait" -> req = "look"
      [] kind = "resume" -> req \in {"session", "find", "activate"}
      [] kind = "complete" -> req \in {"health", "cached", "complete"}
      [] OTHER -> req = kind

\* The steps that are of some calls only, and the attempts still to make.
InStage(r) ==
    /\ r.step = "tick" => r.kind = "wait"
    /\ r.step = "reading" => r.kind = "stream"
    /\ r.step = "backoff" => r.attempt < RetryAttempts

\* How often the service has acted on the call r.
ActedOn(r, n) ==
    /\ n \in {0, 1}
    /\ r.req \notin Once => n = 0
    /\ r.step \in {"try", "backoff"} /\ ~r.spent => n = 0
    /\ r.step = "answered" /\ r.req \in Once /\ r.answer = "ok" => n = 1
    /\ r.step = "done" /\ r.kind \in Once /\ r.told = "ok" => n = 1
    /\ r.step = "done" /\ r.told = "local" => n = 0

\* What the call r knows of the service, or has told, is so.
Knows(r, verdict, resumed) ==
    /\ r.step = "answered" /\ r.req = "health" => r.answer \in {"healthy", "unhealthy", "error"}
    /\ r.step = "answered" /\ r.kind = "wait" /\ r.answer \in {"approved", "denied", "expired"} => verdict = r.answer
    /\ r.step = "answered" /\ r.kind \in DOMAIN Verdict /\ r.answer = "ok" => verdict = Verdict[r.kind]
    /\ r.step = "done" /\ r.kind = "wait" /\ r.told # "error" => r.told \in Settled /\ verdict = r.told
    /\ r.step = "done" /\ r.kind \in DOMAIN Verdict /\ r.told = "ok" => verdict = Verdict[r.kind]
    /\ r.step = "done" /\ r.kind = "resume" /\ r.told = "ok" => resumed

CallOK(r, n, verdict, resumed) ==
    IF r = NoCall THEN n = 0
    ELSE r \in CallRecord /\ Belongs(r.kind, r.req) /\ InStage(r) /\ ActedOn(r, n) /\ Knows(r, verdict, resumed)

ServiceOK ==
    /\ sessionID \in BOOLEAN /\ healthCache \in {"none", "healthy", "unhealthy"}
    /\ approval \in Settled \cup {"pending"} /\ session \in {"idle", "active", "ended"}

HeraldInv ==
    /\ ServiceOK
    /\ call \in [HeraldUsers -> CallRecord \cup {NoCall}] /\ applied \in [HeraldUsers -> Nat]
    /\ \A c \in HeraldUsers : CallOK(call[c], applied[c], approval, sessionID)

\* A settled approval, and the session resumed, are so for good.
Lasting == /\ approval # "pending" => approval' = approval
           /\ sessionID => sessionID'

LEMMA KnowledgeLasts ==
  ASSUME NEW r, NEW n, CallOK(r, n, approval, sessionID), Lasting
  PROVE  CallOK(r, n, approval', sessionID')
<1>1. \A v \in DOMAIN Verdict : Verdict[v] # "pending"
  BY DEF Verdict
<1>2. r # NoCall => r.step # "done" \/ r.kind # "wait" \/ r.told = "error" \/ r.told # "pending"
  BY DEF CallOK, CallRecord
<1>3. QED
  BY <1>1, <1>2 DEF CallOK, Knows, Lasting

\* One call goes on.
LEMMA CallGoesOn ==
  ASSUME HeraldInv, ServiceOK', Lasting, NEW c \in HeraldUsers, NEW r \in CallRecord \cup {NoCall},
         call' = [call EXCEPT ![c] = r], applied' \in [HeraldUsers -> Nat],
         \A d \in HeraldUsers \ {c} : applied'[d] = applied[d],
         CallOK(r, applied'[c], approval', sessionID')
  PROVE  HeraldInv'
<1>1. call' \in [HeraldUsers -> CallRecord \cup {NoCall}]
  BY DEF HeraldInv
<1>2. ASSUME NEW d \in HeraldUsers PROVE CallOK(call'[d], applied'[d], approval', sessionID')
  <2>1. CASE d = c
    BY <2>1 DEF HeraldInv
  <2>2. CASE d # c
    <3>1. call'[d] = call[d] /\ applied'[d] = applied[d] /\ CallOK(call[d], applied[d], approval, sessionID)
      BY <2>2 DEF HeraldInv
    <3>2. QED
      BY <3>1, KnowledgeLasts
  <2>3. QED
    BY <2>1, <2>2
<1>3. \A d \in HeraldUsers : CallOK(call[d], applied[d], approval, sessionID)'
  BY <1>2
<1>4. QED
  BY <1>1, <1>3 DEF HeraldInv

\* A call in progress, and what is known of it.
LEMMA InProgress ==
  ASSUME HeraldInv, NEW c \in HeraldUsers, call[c] # NoCall
  PROVE  /\ call[c] \in CallRecord /\ Belongs(call[c].kind, call[c].req)
         /\ InStage(call[c]) /\ ActedOn(call[c], applied[c]) /\ Knows(call[c], approval, sessionID)
         /\ applied \in [HeraldUsers -> Nat]
  BY DEF HeraldInv, CallOK

LEMMA CallIsNot == \A r \in CallRecord : r # NoCall
  BY DEF CallRecord, NoCall

\* The service acts on a request, or refuses it.
LEMMA ActDoes ==
  ASSUME HeraldInv, NEW c \in HeraldUsers, Does(c, "try"), Act(c), UNCHANGED Client
  PROVE  /\ Answer(c) \in Answers /\ Lasting /\ ServiceOK'
         /\ applied' \in [HeraldUsers -> Nat] /\ \A d \in HeraldUsers \ {c} : applied'[d] = applied[d]
         /\ call[c].req \in Once /\ Answer(c) = "ok" => applied[c] = 0 /\ applied'[c] = 1
         /\ call[c].req \notin Once \/ Answer(c) # "ok" => applied'[c] = applied[c]
         /\ call[c].req \in DOMAIN Verdict /\ Answer(c) = "ok" => approval' = Verdict[call[c].req]
         /\ call[c].req = "look" /\ Answer(c) \in {"approved", "denied", "expired"} => approval' = Answer(c)
<1> DEFINE req == call[c].req
<1>0. /\ call[c] \in CallRecord /\ ActedOn(call[c], applied[c]) /\ applied \in [HeraldUsers -> Nat] /\ ServiceOK
      /\ call[c].step = "try"
  BY InProgress DEF Does, HeraldInv
<1>1. UNCHANGED <<sessionID, healthCache>>
  BY DEF Client
<1>2. Answer(c) \in Answers
  BY <1>0 DEF Answer, Answers, ServiceOK, Settled
<1>3. CASE Answer(c) # "ok"
  <2>1. UNCHANGED <<approval, session, applied>>
    BY <1>3 DEF Act
  <2>2. req = "look" => Answer(c) \in {"refused", approval}
    BY DEF Answer, HasBody
  <2>3. QED
    BY <1>0, <1>1, <1>2, <1>3, <2>1, <2>2 DEF Lasting, ServiceOK
<1>4. CASE Answer(c) = "ok"
  <2>1. /\ approval' = CASE req \in DOMAIN Verdict -> Verdict[req] [] req = "cancel" -> "cancelled" [] OTHER -> approval
        /\ session' = CASE req = "activate" -> "active" [] req = "terminate" -> "ended" [] OTHER -> session
        /\ applied' = IF req \in Once THEN [applied EXCEPT ![c] = @ + 1] ELSE applied
    BY <1>4 DEF Act, Once
  <2>2. req \in Once => ~call[c].spent
    BY <1>4 DEF Answer, HasBody, Once
  <2>3. req \in {"approve", "deny", "cancel"} => approval = "pending"
    BY <1>4 DEF Answer
  <2>4. req = "look" => FALSE
    BY <1>0, <1>4 DEF Answer, HasBody, ServiceOK, Settled
  <2>5. DOMAIN Verdict = {"approve", "deny"} /\ Verdict["approve"] = "approved" /\ Verdict["deny"] = "denied"
    BY DEF Verdict
  <2>6. ServiceOK' /\ Lasting
    BY <1>0, <1>1, <2>1, <2>3, <2>5 DEF ServiceOK, Lasting, Settled
  <2>7. req \in Once => applied[c] = 0
    BY <1>0, <2>2 DEF ActedOn
  <2>8. QED
    BY <1>0, <1>2, <1>4, <2>1, <2>4, <2>5, <2>6, <2>7
<1>5. QED
  BY <1>3, <1>4

LEMMA BeginKeepsInv ==
  ASSUME HeraldInv, NEW c \in HeraldUsers, NEW k \in CallKinds, BeginCall(c, k) PROVE HeraldInv'
<1> DEFINE new == [kind |-> k, req |-> FirstRequest[k], step |-> "try", attempt |-> 0,
                   spent |-> FALSE, answer |-> "none", told |-> "nothing", read |-> 0]
<1>0. /\ ServiceOK /\ applied[c] = 0 /\ applied \in [HeraldUsers -> Nat]
      /\ RetryAttempts \in Nat /\ MaxChunks \in Nat
  BY HeraldAssumption DEF HeraldAssumption, HeraldInv, BeginCall, CallOK
<1>1. UNCHANGED <<sessionID, healthCache, approval, session, applied>>
  BY DEF BeginCall, Client, Service
<1>2. Belongs(k, FirstRequest[k]) /\ FirstRequest[k] \in Requests
  BY DEF CallKinds, FirstRequest, Belongs, Requests
<1>3. PICK r : /\ call' = [call EXCEPT ![c] = r]
               /\ \/ r = new
                  \/ k = "wait" /\ r = [new EXCEPT !.step = "tick"]
                  \/ k = "complete" /\ healthCache # "none"
                     /\ r = [new EXCEPT !.req = "cached", !.step = "answered", !.answer = healthCache]
  BY DEF BeginCall, Becomes
<1>4. new \in CallRecord
  BY <1>0, <1>2 DEF CallRecord, Answers
<1>5. r \in CallRecord /\ Belongs(r.kind, r.req) /\ r.kind = k
  <2>1. CASE r = new
    BY <1>2, <1>4, <2>1
  <2>2. CASE k = "wait" /\ r = [new EXCEPT !.step = "tick"]
    BY <1>2, <1>4, <2>2 DEF CallRecord
  <2>3. CASE k = "complete" /\ healthCache # "none"
             /\ r = [new EXCEPT !.req = "cached", !.step = "answered", !.answer = healthCache]
    <3>1. "cached" \in Requests /\ healthCache \in Answers
      BY <1>0 DEF Requests, Answers, ServiceOK
    <3>2. r \in CallRecord
      BY <1>4, <2>3, <3>1 DEF CallRecord
    <3>3. r.kind = "complete" /\ r.req = "cached"
      BY <2>3
    <3>4. QED
      BY <2>3, <3>2, <3>3 DEF Belongs
  <2>4. QED
    BY <1>3, <2>1, <2>2, <2>3
<1>6. r.step \in {"try", "tick"} \/ (r.step = "answered" /\ r.req = "cached" /\ r.kind = "complete")
  <2>1. CASE r = new
    BY <2>1
  <2>2. CASE k = "wait" /\ r = [new EXCEPT !.step = "tick"]
    BY <1>4, <2>2 DEF CallRecord
  <2>3. CASE k = "complete" /\ healthCache # "none"
             /\ r = [new EXCEPT !.req = "cached", !.step = "answered", !.answer = healthCache]
    BY <2>3
  <2>4. QED
    BY <1>3, <2>1, <2>2, <2>3
<1>7. ActedOn(r, applied'[c]) /\ Knows(r, approval', sessionID')
  BY <1>0, <1>1, <1>6 DEF ActedOn, Knows, Once, Verdict
<1>11. InStage(r)
  <2>1. r.step = "tick" => r.kind = "wait"
    <3>1. CASE r = new
      BY <3>1
    <3>2. CASE k = "wait"
      BY <1>5, <3>2
    <3>3. CASE r = [new EXCEPT !.req = "cached", !.step = "answered", !.answer = healthCache]
      BY <3>3
    <3>4. QED
      BY <1>3, <3>1, <3>2, <3>3
  <2>2. QED
    BY <1>6, <2>1 DEF InStage
<1>8. ServiceOK' /\ Lasting
  BY <1>0, <1>1 DEF ServiceOK, Lasting
<1>9. CallOK(r, applied'[c], approval', sessionID')
  BY <1>5, <1>7, <1>11, CallIsNot DEF CallOK
<1>10. QED
  BY <1>0, <1>1, <1>3, <1>5, <1>8, <1>9, CallGoesOn

\* An attempt ends: with an answer, or without one after the service has acted or
\* before. What has been acted on without an answer has lost its body.
LEMMA AttemptKeepsInv ==
  ASSUME HeraldInv, NEW c \in HeraldUsers, ServiceAnswers(c) \/ ServiceFails(c) \/ AnswerIsLost(c)
  PROVE  HeraldInv'
<1> DEFINE r0 == call[c]
<1>0. /\ r0 \in CallRecord /\ Belongs(r0.kind, r0.req) /\ ActedOn(r0, applied[c]) /\ r0.step = "try"
      /\ applied \in [HeraldUsers -> Nat] /\ ServiceOK /\ UNCHANGED Client /\ Does(c, "try")
  BY InProgress DEF ServiceAnswers, ServiceFails, AnswerIsLost, Does, HeraldInv
<1>1. Once \subseteq HasBody /\ DOMAIN Verdict = {"approve", "deny"}
  BY DEF Once, HasBody, Verdict
<1>2. /\ r0.kind = "wait" => r0.req = "look"
      /\ r0.kind \in DOMAIN Verdict => r0.req = r0.kind
      /\ r0.req \in Once => r0.kind = r0.req
  BY <1>0, <1>1 DEF Belongs, Once
<1>3. CASE ServiceAnswers(c)
  <2>1. Act(c)
    BY <1>3 DEF ServiceAnswers
  <2>2. PICK answer \in Answers :
           /\ call' = [call EXCEPT ![c] = [r0 EXCEPT !.step = "answered", !.answer = answer]]
           /\ IF r0.req = "health" THEN answer \in {"healthy", "unhealthy"} ELSE answer = Answer(c)
    <3>1. CASE r0.req = "health"
      BY <1>3, <3>1 DEF ServiceAnswers, HasAnswer, Becomes, Answers
    <3>2. CASE r0.req # "health"
      <4>1. Answer(c) \in Answers
        BY <1>0, <2>1, ActDoes
      <4>2. QED
        BY <1>3, <3>2, <4>1 DEF ServiceAnswers, HasAnswer, Becomes
    <3>3. QED
      BY <3>1, <3>2
  <2> DEFINE r == [r0 EXCEPT !.step = "answered", !.answer = answer]
  <2>3. r \in CallRecord /\ r.kind = r0.kind /\ r.req = r0.req /\ r.step = "answered" /\ r.answer = answer
    BY <1>0 DEF CallRecord
  <2> HIDE DEF r
  <2>4. ServiceOK' /\ Lasting /\ applied' \in [HeraldUsers -> Nat]
        /\ \A d \in HeraldUsers \ {c} : applied'[d] = applied[d]
    BY <1>0, <2>1, ActDoes
  <2>5. ActedOn(r, applied'[c])
    <3>1. CASE r0.req \in Once /\ Answer(c) = "ok"
      BY <1>0, <2>1, <2>3, <3>1, ActDoes DEF ActedOn
    <3>2. CASE r0.req \notin Once \/ Answer(c) # "ok"
      <4>1. applied'[c] = applied[c]
        BY <1>0, <2>1, <3>2, ActDoes
      <4>2. r0.req \in Once => answer # "ok"
        BY <2>2, <3>2 DEF Once
      <4>3. QED
        BY <1>0, <2>3, <4>1, <4>2 DEF ActedOn
    <3>3. QED
      BY <3>1, <3>2
  <2>6. Knows(r, approval', sessionID') /\ InStage(r)
    <3>1. r0.kind = "wait" /\ answer \in {"approved", "denied", "expired"} => approval' = answer
      BY <1>0, <1>2, <2>1, <2>2, ActDoes
    <3>2. r0.kind \in DOMAIN Verdict /\ answer = "ok" => approval' = Verdict[r0.kind]
      BY <1>0, <1>1, <1>2, <2>1, <2>2, ActDoes
    <3>3. QED
      BY <2>2, <2>3, <3>1, <3>2 DEF Knows, InStage
  <2>7. CallOK(r, applied'[c], approval', sessionID')
    BY <1>0, <2>3, <2>5, <2>6, CallIsNot DEF CallOK
  <2>8. call' = [call EXCEPT ![c] = r]
    BY <2>2 DEF r
  <2>9. QED
    BY <2>3, <2>4, <2>7, <2>8, CallGoesOn
<1>4. ASSUME NEW spent \in BOOLEAN, AttemptFailed(c, spent), ServiceOK', Lasting,
             applied' \in [HeraldUsers -> Nat], \A d \in HeraldUsers \ {c} : applied'[d] = applied[d],
             applied'[c] \in {0, 1}, r0.req \notin Once \/ ~spent => applied'[c] = 0
      PROVE  HeraldInv'
  <2>1. PICK r : /\ call' = [call EXCEPT ![c] = r]
                 /\ \/ r0.attempt < RetryAttempts /\ r = [r0 EXCEPT !.step = "backoff", !.spent = spent]
                    \/ r = [r0 EXCEPT !.step = "answered", !.answer = "error"]
    BY <1>4 DEF AttemptFailed, HasAnswer, Becomes
  <2>2. r \in CallRecord /\ r.kind = r0.kind /\ r.req = r0.req
        /\ \/ r.step = "backoff" /\ r.spent = spent /\ r.attempt < RetryAttempts
           \/ r.step = "answered" /\ r.answer = "error"
    <3>1. CASE r0.attempt < RetryAttempts /\ r = [r0 EXCEPT !.step = "backoff", !.spent = spent]
      BY <1>0, <1>4, <3>1 DEF CallRecord
    <3>2. CASE r = [r0 EXCEPT !.step = "answered", !.answer = "error"]
      BY <1>0, <3>2 DEF CallRecord, Answers
    <3>3. QED
      BY <2>1, <3>1, <3>2
  <2>3. ActedOn(r, applied'[c])
    BY <1>4, <2>2 DEF ActedOn
  <2>4. Knows(r, approval', sessionID') /\ InStage(r)
    BY <2>2 DEF Knows, InStage
  <2>5. CallOK(r, applied'[c], approval', sessionID')
    BY <1>0, <2>2, <2>3, <2>4, CallIsNot DEF CallOK
  <2>6. QED
    BY <1>4, <2>1, <2>2, <2>5, CallGoesOn
<1>5. CASE ServiceFails(c)
  <2>1. PICK bodyRead \in {FALSE, r0.req \in HasBody} : AttemptFailed(c, r0.spent \/ bodyRead)
    BY <1>5 DEF ServiceFails
  <2>2. UNCHANGED <<sessionID, healthCache, approval, session, applied>>
    BY <1>5 DEF ServiceFails, Client, Service
  <2>3. ServiceOK' /\ Lasting
    BY <1>0, <2>2 DEF ServiceOK, Lasting
  <2>4. applied[c] \in {0, 1} /\ (r0.req \notin Once \/ ~r0.spent => applied[c] = 0)
    BY <1>0 DEF ActedOn
  <2>5. r0.spent \in BOOLEAN
    BY <1>0 DEF CallRecord
  <2>6. CASE r0.spent \/ bodyRead
    <3>1. AttemptFailed(c, TRUE)
      BY <2>1, <2>6 DEF AttemptFailed
    <3>2. r0.req \notin Once \/ ~TRUE => applied'[c] = 0
      BY <2>2, <2>4
    <3>3. QED
      BY <1>0, <1>4, <2>2, <2>3, <2>4, <3>1, <3>2
  <2>7. CASE ~(r0.spent \/ bodyRead)
    <3>1. AttemptFailed(c, FALSE)
      BY <2>1, <2>7 DEF AttemptFailed
    <3>2. applied'[c] = 0
      BY <2>2, <2>4, <2>7
    <3>3. QED
      BY <1>0, <1>4, <2>2, <2>3, <3>1, <3>2
  <2>8. QED
    BY <2>6, <2>7
<1>6. CASE AnswerIsLost(c)
  <2>1. Act(c) /\ AttemptFailed(c, r0.req \in HasBody)
    BY <1>6 DEF AnswerIsLost
  <2>2. ServiceOK' /\ Lasting /\ applied' \in [HeraldUsers -> Nat]
        /\ \A d \in HeraldUsers \ {c} : applied'[d] = applied[d]
    BY <1>0, <2>1, ActDoes
  <2>3. applied'[c] \in {0, 1} /\ (r0.req \notin Once => applied'[c] = 0)
    <3>1. applied[c] \in {0, 1} /\ (r0.req \notin Once => applied[c] = 0)
      BY <1>0 DEF ActedOn
    <3>2. (applied'[c] = 1 /\ r0.req \in Once) \/ applied'[c] = applied[c]
      BY <1>0, <2>1, ActDoes
    <3>3. QED
      BY <3>1, <3>2
  <2>4. CASE r0.req \in HasBody
    <3>1. AttemptFailed(c, TRUE)
      BY <2>1, <2>4 DEF AttemptFailed
    <3>2. QED
      BY <1>4, <2>2, <2>3, <3>1
  <2>5. CASE r0.req \notin HasBody
    <3>1. AttemptFailed(c, FALSE)
      <4>1. (r0.req \in HasBody) = FALSE
        BY <2>5
      <4>2. QED
        BY <2>1, <4>1 DEF AttemptFailed
    <3>2. QED
      BY <1>1, <1>4, <2>2, <2>3, <2>5, <3>1
  <2>6. QED
    BY <2>4, <2>5
<1>7. QED
  BY <1>3, <1>5, <1>6

\* A call goes on without the service.
LEMMA QuietKeepsInv ==
  ASSUME HeraldInv, NEW c \in HeraldUsers, NEW r \in CallRecord,
         call' = [call EXCEPT ![c] = r], UNCHANGED <<applied, approval, session>>,
         sessionID' \in BOOLEAN, sessionID => sessionID', healthCache' \in {"none", "healthy", "unhealthy"},
         Belongs(r.kind, r.req), InStage(r), ActedOn(r, applied[c]), Knows(r, approval, sessionID')
  PROVE  HeraldInv'
<1>1. ServiceOK' /\ Lasting /\ applied' \in [HeraldUsers -> Nat]
  BY DEF HeraldInv, ServiceOK, Lasting
<1>2. CallOK(r, applied'[c], approval', sessionID')
  BY CallIsNot DEF CallOK
<1>3. QED
  BY <1>1, <1>2, CallGoesOn

\* A call ends that has been told so.
LEMMA TellKeepsInv ==
  ASSUME HeraldInv, NEW c \in HeraldUsers, call[c] # NoCall,
         NEW told \in {"ok", "error", "local", "all", "empty", "approved", "denied", "expired"}, Tell(c, told),
         UNCHANGED <<applied, approval, session>>,
         sessionID' \in BOOLEAN, sessionID => sessionID', healthCache' \in {"none", "healthy", "unhealthy"},
         call[c].kind \in Once /\ told = "ok" => applied[c] = 1,
         told = "local" => applied[c] = 0,
         call[c].kind = "wait" /\ told # "error" => told \in Settled /\ approval = told,
         call[c].kind \in DOMAIN Verdict /\ told = "ok" => approval = Verdict[call[c].kind],
         call[c].kind = "resume" /\ told = "ok" => sessionID'
  PROVE  HeraldInv'
<1>0. PICK r : r = [call[c] EXCEPT !.step = "done", !.told = told]
  OBVIOUS
<1>1. call[c] \in CallRecord /\ Belongs(call[c].kind, call[c].req) /\ ActedOn(call[c], applied[c])
  BY InProgress
<1>2. r \in CallRecord /\ r.kind = call[c].kind /\ r.req = call[c].req /\ r.step = "done" /\ r.told = told
  <2>1. PICK k : k = call[c]
    OBVIOUS
  <2>2. k \in CallRecord /\ r = [k EXCEPT !.step = "done", !.told = told]
    BY <1>0, <1>1, <2>1
  <2>3. r \in CallRecord /\ r.kind = k.kind /\ r.req = k.req /\ r.step = "done" /\ r.told = told
    BY <2>2 DEF CallRecord
  <2>4. QED
    BY <2>1, <2>3
<1>3. call' = [call EXCEPT ![c] = r]
  BY <1>0 DEF Tell, Becomes
<1>4. ActedOn(r, applied[c])
  BY <1>1, <1>2 DEF ActedOn
<1>5. Knows(r, approval, sessionID') /\ InStage(r)
  BY <1>2 DEF Knows, InStage
<1>6. QED
  BY <1>1, <1>2, <1>3, <1>4, <1>5, QuietKeepsInv

\* A call asks again, or for something else, on which the service has not acted.
LEMMA AskKeepsInv ==
  ASSUME HeraldInv, NEW c \in HeraldUsers, call[c] # NoCall, NEW req \in Requests, Ask(c, req),
         UNCHANGED <<applied, approval, session>>,
         sessionID' \in BOOLEAN, sessionID => sessionID', healthCache' \in {"none", "healthy", "unhealthy"},
         Belongs(call[c].kind, req), applied[c] = 0
  PROVE  HeraldInv'
<1>0. PICK r : r = [call[c] EXCEPT !.req = req, !.step = "try", !.attempt = 0, !.spent = FALSE]
  OBVIOUS
<1>1. call[c] \in CallRecord
  BY InProgress
<1>2. r \in CallRecord /\ r.kind = call[c].kind /\ r.req = req /\ r.step = "try"
  <2>1. PICK k : k = call[c]
    OBVIOUS
  <2>2. k \in CallRecord /\ r = [k EXCEPT !.req = req, !.step = "try", !.attempt = 0, !.spent = FALSE]
    BY <1>0, <1>1, <2>1
  <2>3. 0 \in 0 .. RetryAttempts
    BY HeraldAssumption DEF HeraldAssumption
  <2>4. PICK asked : asked = [k EXCEPT !.req = req, !.step = "try"]
    OBVIOUS
  <2>5. asked \in CallRecord /\ asked.kind = k.kind /\ asked.req = req /\ asked.step = "try"
    BY <2>2, <2>4 DEF CallRecord
  <2>6. r = [asked EXCEPT !.attempt = 0, !.spent = FALSE]
    BY <2>2, <2>4
  <2>7. r \in CallRecord /\ r.kind = k.kind /\ r.req = req /\ r.step = "try"
    BY <2>3, <2>5, <2>6 DEF CallRecord
  <2>8. QED
    BY <2>1, <2>7
<1>3. call' = [call EXCEPT ![c] = r]
  BY <1>0 DEF Ask, Becomes
<1>4. ActedOn(r, applied[c]) /\ Knows(r, approval, sessionID') /\ InStage(r)
  BY <1>2 DEF ActedOn, Knows, InStage
<1>5. QED
  BY <1>2, <1>3, <1>4, QuietKeepsInv

\* A call changes its step only.
LEMMA StepKeepsInv ==
  ASSUME HeraldInv, NEW c \in HeraldUsers, call[c] # NoCall, NEW step \in {"tick", "reading"},
         Becomes(c, [call[c] EXCEPT !.step = step]),
         step = "tick" => call[c].kind = "wait", step = "reading" => call[c].kind = "stream",
         UNCHANGED <<applied, approval, session, sessionID, healthCache>>
  PROVE  HeraldInv'
<1>0. PICK r : r = [call[c] EXCEPT !.step = step]
  OBVIOUS
<1>1. /\ call[c] \in CallRecord /\ Belongs(call[c].kind, call[c].req) /\ ActedOn(call[c], applied[c])
      /\ ServiceOK
  BY InProgress DEF HeraldInv
<1>2. r \in CallRecord /\ r.kind = call[c].kind /\ r.req = call[c].req /\ r.step = step
  <2>1. PICK k : k = call[c]
    OBVIOUS
  <2>2. k \in CallRecord /\ r = [k EXCEPT !.step = step]
    BY <1>0, <1>1, <2>1
  <2>3. r \in CallRecord /\ r.kind = k.kind /\ r.req = k.req /\ r.step = step
    BY <2>2 DEF CallRecord
  <2>4. QED
    BY <2>1, <2>3
<1>3. call' = [call EXCEPT ![c] = r]
  BY <1>0 DEF Becomes
<1>4. ActedOn(r, applied[c]) /\ Knows(r, approval, sessionID') /\ InStage(r)
  BY <1>1, <1>2 DEF ActedOn, Knows, InStage
<1>5. QED
  BY <1>1, <1>2, <1>3, <1>4, QuietKeepsInv DEF ServiceOK

\* Retries and the ends of calls.
LEMMA RetryKeepsInv ==
  ASSUME HeraldInv, NEW c \in HeraldUsers, Retry(c) \/ ContextEnds(c) \/ Poll(c) \/ EndCall(c) PROVE HeraldInv'
<1> DEFINE r0 == call[c]
<1>0. /\ r0 # NoCall /\ r0 \in CallRecord /\ Belongs(r0.kind, r0.req) /\ ActedOn(r0, applied[c])
      /\ Knows(r0, approval, sessionID) /\ InStage(r0) /\ applied \in [HeraldUsers -> Nat] /\ ServiceOK
  BY InProgress DEF Retry, ContextEnds, Poll, EndCall, Does, HeraldInv
<1>1. CASE Retry(c)
  <2> DEFINE r == [r0 EXCEPT !.step = "try", !.attempt = @ + 1]
  <2>1. /\ r0.step = "backoff" /\ call' = [call EXCEPT ![c] = r]
        /\ UNCHANGED <<applied, approval, session, sessionID, healthCache>>
    BY <1>1 DEF Retry, Does, Becomes, Client, Service
  <2>2. RetryAttempts \in Nat /\ r0.attempt \in 0 .. RetryAttempts /\ r0.attempt < RetryAttempts
    BY <1>0, <2>1, HeraldAssumption DEF HeraldAssumption, CallRecord, InStage
  <2>3. r0.attempt + 1 \in 0 .. RetryAttempts
    BY <2>2
  <2>4. r \in CallRecord /\ r.kind = r0.kind /\ r.req = r0.req /\ r.step = "try" /\ r.spent = r0.spent
    BY <1>0, <2>3 DEF CallRecord
  <2> HIDE DEF r
  <2>5. ActedOn(r, applied[c]) /\ Knows(r, approval, sessionID') /\ InStage(r)
    BY <1>0, <2>1, <2>4 DEF ActedOn, Knows, InStage
  <2>6. QED
    BY <1>0, <2>1, <2>4, <2>5, QuietKeepsInv DEF ServiceOK
<1>2. CASE ContextEnds(c)
  <2>1. UNCHANGED <<applied, approval, session, sessionID, healthCache>>
    BY <1>2 DEF ContextEnds, Client, Service
  <2>2. CASE Tell(c, "error")
    BY <1>0, <2>1, <2>2, TellKeepsInv DEF ServiceOK
  <2>3. CASE HasAnswer(c, "error")
    <3> DEFINE r == [r0 EXCEPT !.step = "answered", !.answer = "error"]
    <3>1. call' = [call EXCEPT ![c] = r]
      BY <2>3 DEF HasAnswer, Becomes
    <3>2. r \in CallRecord /\ r.kind = r0.kind /\ r.req = r0.req /\ r.step = "answered" /\ r.answer = "error"
      BY <1>0 DEF CallRecord, Answers
    <3> HIDE DEF r
    <3>3. ActedOn(r, applied[c]) /\ Knows(r, approval, sessionID') /\ InStage(r)
      BY <1>0, <3>2 DEF ActedOn, Knows, InStage
    <3>4. QED
      BY <1>0, <2>1, <3>1, <3>2, <3>3, QuietKeepsInv DEF ServiceOK
  <2>4. QED
    BY <1>2, <2>2, <2>3 DEF ContextEnds
<1>3. CASE Poll(c)
  <2>1. Ask(c, "look") /\ r0.step = "tick" /\ UNCHANGED <<applied, approval, session, sessionID, healthCache>>
    BY <1>3 DEF Poll, Does, Client, Service
  <2>2. r0.kind = "wait" /\ r0.req = "look"
    BY <1>0, <2>1 DEF InStage, Belongs
  <2>3. applied[c] = 0 /\ "look" \in Requests /\ Belongs(r0.kind, "look")
    BY <1>0, <2>2 DEF ActedOn, Once, Requests
  <2>4. QED
    BY <1>0, <2>1, <2>3, AskKeepsInv DEF ServiceOK
<1>4. CASE EndCall(c)
  <2>1. /\ call' = [call EXCEPT ![c] = NoCall] /\ applied' = [applied EXCEPT ![c] = 0]
        /\ UNCHANGED <<approval, session, sessionID, healthCache>>
    BY <1>4 DEF EndCall, Becomes, Client, Service
  <2>2. ServiceOK' /\ Lasting /\ applied' \in [HeraldUsers -> Nat] /\ applied'[c] = 0
        /\ \A d \in HeraldUsers \ {c} : applied'[d] = applied[d]
    BY <1>0, <2>1 DEF ServiceOK, Lasting
  <2>3. CallOK(NoCall, applied'[c], approval', sessionID')
    BY <2>2 DEF CallOK
  <2>4. QED
    BY <2>1, <2>2, <2>3, CallGoesOn
<1>5. QED
  BY <1>1, <1>2, <1>3, <1>4

\* What is made of an answer.
LEMMA AnswerIsTaken ==
  ASSUME HeraldInv, NEW c \in HeraldUsers,
         \/ EndSimpleCall(c) \/ JudgeApproval(c) \/ ResumeGoesOn(c) \/ ChooseProvider(c)
         \/ OpenStream(c) \/ ReadChunk(c)
  PROVE  HeraldInv'
<1> DEFINE r0 == call[c]
<1>0. /\ r0 # NoCall /\ r0 \in CallRecord /\ Belongs(r0.kind, r0.req) /\ ActedOn(r0, applied[c])
      /\ Knows(r0, approval, sessionID) /\ InStage(r0) /\ applied \in [HeraldUsers -> Nat] /\ ServiceOK
  BY InProgress DEF EndSimpleCall, JudgeApproval, ResumeGoesOn, ChooseProvider, OpenStream, ReadChunk, Does, HeraldInv
<1>1. DOMAIN Verdict = {"approve", "deny"} /\ Once = {"dispatch", "complete"}
  BY DEF Verdict, Once
<1>2. CASE EndSimpleCall(c)
  <2>1. /\ r0.step = "answered" /\ r0.kind \notin {"wait", "resume", "stream"} /\ r0.req \notin {"health", "cached"}
        /\ UNCHANGED <<applied, approval, session, sessionID, healthCache>>
    BY <1>2 DEF EndSimpleCall, Does, Client, Service
  <2>2. PICK told \in {"ok", "error"} : Tell(c, told) /\ (told = "ok" => r0.answer = "ok")
    BY <1>2 DEF EndSimpleCall, Outcome
  <2>3. r0.kind \in Once => r0.req = r0.kind
    BY <1>0, <1>1, <2>1 DEF Belongs
  <2>4. r0.kind \in Once /\ told = "ok" => applied[c] = 1
    BY <1>0, <2>1, <2>2, <2>3 DEF ActedOn
  <2>5. r0.kind \in DOMAIN Verdict /\ told = "ok" => approval = Verdict[r0.kind]
    BY <1>0, <2>1, <2>2 DEF Knows
  <2>6. QED
    BY <1>0, <2>1, <2>2, <2>4, <2>5, TellKeepsInv DEF ServiceOK
<1>3. CASE JudgeApproval(c)
  <2>1. /\ r0.step = "answered" /\ r0.kind = "wait"
        /\ UNCHANGED <<applied, approval, session, sessionID, healthCache>>
    BY <1>3 DEF JudgeApproval, Does, Client, Service
  <2>2. CASE r0.answer = "pending"
    <3>1. Becomes(c, [r0 EXCEPT !.step = "tick"])
      BY <1>3, <2>2 DEF JudgeApproval
    <3>2. QED
      BY <1>0, <2>1, <3>1, StepKeepsInv
  <2>3. CASE r0.answer \in {"approved", "denied", "expired"}
    <3>1. Tell(c, r0.answer)
      BY <1>3, <2>3 DEF JudgeApproval
    <3>2. approval = r0.answer
      BY <1>0, <2>1, <2>3 DEF Knows
    <3>3. QED
      BY <1>0, <1>1, <2>1, <2>3, <3>1, <3>2, TellKeepsInv DEF ServiceOK, Settled
  <2>4. CASE r0.answer \notin {"pending", "approved", "denied", "expired"}
    <3>1. Tell(c, "error")
      BY <1>3, <2>4 DEF JudgeApproval
    <3>2. QED
      BY <1>0, <2>1, <3>1, TellKeepsInv DEF ServiceOK
  <2>5. QED
    BY <2>2, <2>3, <2>4
<1>4. CASE ResumeGoesOn(c)
  <2>1. /\ r0.step = "answered" /\ r0.kind = "resume"
        /\ UNCHANGED <<applied, approval, session, healthCache>>
        /\ sessionID' = (sessionID \/ (r0.req = "activate" /\ r0.answer = "ok"))
    BY <1>4 DEF ResumeGoesOn, Does, Service
  <2>2. sessionID' \in BOOLEAN /\ (sessionID => sessionID')
    BY <1>0, <2>1 DEF ServiceOK
  <2>3. r0.req \in {"session", "find", "activate"} /\ applied[c] = 0
    BY <1>0, <1>1, <2>1 DEF Belongs, ActedOn
  <2>4. ASSUME NEW req \in {"activate", "find"}, Ask(c, req) PROVE HeraldInv'
    <3>1. Belongs(r0.kind, req) /\ req \in Requests
      BY <2>1, <2>4 DEF Belongs, Requests
    <3>2. QED
      BY <1>0, <2>1, <2>2, <2>3, <2>4, <3>1, AskKeepsInv DEF ServiceOK
  <2>5. CASE Tell(c, Outcome(r0.answer)) /\ ~(r0.req \in {"session", "find"} /\ r0.answer = "ok")
    <3>1. PICK told \in {"ok", "error"} : Tell(c, told) /\ (told = "ok" => r0.answer = "ok")
      BY <2>5 DEF Outcome
    <3>2. told = "ok" => sessionID'
      BY <2>1, <2>3, <2>5, <3>1
    <3>3. QED
      BY <1>0, <1>1, <2>1, <2>2, <3>1, <3>2, TellKeepsInv DEF ServiceOK
  <2>6. QED
    BY <1>4, <2>3, <2>4, <2>5 DEF ResumeGoesOn
<1>5. CASE ChooseProvider(c)
  <2>1. /\ r0.step = "answered" /\ r0.req \in {"health", "cached"}
        /\ UNCHANGED <<applied, approval, session, sessionID>>
    BY <1>5 DEF ChooseProvider, Does, Service
  <2>2. applied[c] = 0 /\ r0.kind \notin DOMAIN Verdict /\ r0.kind \notin {"wait", "resume"}
    BY <1>0, <1>1, <2>1 DEF ActedOn, Belongs
  <2>3. r0.kind = "complete"
    BY <1>0, <2>1, <2>2 DEF Belongs, CallRecord, CallKinds, FirstRequest
  <2>4. healthCache' \in {"none", "healthy", "unhealthy"}
    <3>1. r0.req = "cached" => healthCache' = healthCache
      BY <1>5 DEF ChooseProvider
    <3>2. r0.req = "health" => r0.answer \in {"healthy", "unhealthy", "error"}
      BY <1>0, <2>1 DEF Knows
    <3>3. QED
      BY <1>0, <1>5, <2>1, <3>1, <3>2 DEF ChooseProvider, ServiceOK
  <2>5. CASE r0.answer = "healthy"
    <3>1. Ask(c, "complete") /\ "complete" \in Requests /\ Belongs(r0.kind, "complete")
      BY <1>5, <2>3, <2>5 DEF ChooseProvider, Requests, Belongs, CallKinds, FirstRequest
    <3>2. QED
      BY <1>0, <2>1, <2>2, <2>4, <3>1, AskKeepsInv DEF ServiceOK
  <2>6. CASE r0.answer # "healthy"
    <3>1. PICK result \in {"local", "error"} : Tell(c, result)
      BY <1>5, <2>6 DEF ChooseProvider
    <3>2. QED
      BY <1>0, <2>1, <2>2, <2>4, <3>1, TellKeepsInv DEF ServiceOK
  <2>7. QED
    BY <2>5, <2>6
<1>6. CASE OpenStream(c)
  <2>1. /\ r0.kind = "stream" /\ UNCHANGED <<applied, approval, session, sessionID, healthCache>>
        /\ Becomes(c, [r0 EXCEPT !.step = "reading"]) \/ Tell(c, "error")
    BY <1>6 DEF OpenStream, Client, Service
  <2>2. QED
    BY <1>0, <1>1, <2>1, StepKeepsInv, TellKeepsInv DEF ServiceOK
<1>7. CASE ReadChunk(c)
  <2>1. r0.step = "reading" /\ UNCHANGED <<applied, approval, session, sessionID, healthCache>>
    BY <1>7 DEF ReadChunk, Does, Client, Service
  <2>2. r0.kind = "stream"
    BY <1>0, <2>1 DEF InStage
  <2>3. CASE Tell(c, "empty") \/ Tell(c, "error")
    BY <1>0, <1>1, <2>1, <2>2, <2>3, TellKeepsInv DEF ServiceOK
  <2>4. CASE r0.read < MaxChunks /\ \E last \in BOOLEAN :
                Becomes(c, IF last THEN [r0 EXCEPT !.read = @ + 1, !.step = "done", !.told = "all"]
                           ELSE [r0 EXCEPT !.read = @ + 1])
    <3>1. PICK r \in {[r0 EXCEPT !.read = @ + 1, !.step = "done", !.told = "all"], [r0 EXCEPT !.read = @ + 1]} :
             call' = [call EXCEPT ![c] = r]
      BY <2>4 DEF Becomes
    <3>2. MaxChunks \in Nat /\ r0.read \in 0 .. MaxChunks
      BY <1>0, HeraldAssumption DEF HeraldAssumption, CallRecord
    <3>3. r0.read + 1 \in 0 .. MaxChunks
      BY <2>4, <3>2
    <3>4. /\ r \in CallRecord /\ r.kind = "stream" /\ r.req = r0.req
          /\ (r.step = "done" /\ r.told = "all") \/ r.step = "reading"
      <4>1. CASE r = [r0 EXCEPT !.read = @ + 1, !.step = "done", !.told = "all"]
        BY <1>0, <2>2, <3>3, <4>1 DEF CallRecord
      <4>2. CASE r = [r0 EXCEPT !.read = @ + 1]
        BY <1>0, <2>1, <2>2, <3>3, <4>2 DEF CallRecord
      <4>3. QED
        BY <3>1, <4>1, <4>2
    <3>5. ActedOn(r, applied[c]) /\ Knows(r, approval, sessionID') /\ InStage(r)
      BY <1>0, <1>1, <3>4 DEF ActedOn, Knows, InStage
    <3>6. Belongs(r.kind, r.req)
      BY <1>0, <2>2, <3>4
    <3>7. QED
      BY <1>0, <2>1, <3>1, <3>4, <3>5, <3>6, QuietKeepsInv DEF ServiceOK
  <2>5. QED
    BY <1>7, <2>3, <2>4 DEF ReadChunk
<1>8. QED
  BY <1>2, <1>3, <1>4, <1>5, <1>6, <1>7

\* Whatever fails and whenever: the service acts on a task or a completion at most
\* once and never on one the local provider has answered, and a verdict that a
\* caller is told is the one the service has.
THEOREM HeraldIsBelieved == HeraldSpec => []HeraldTellsTrue
<1>1. HeraldInit => HeraldInv
  <2> SUFFICES ASSUME HeraldInit PROVE HeraldInv
    OBVIOUS
  <2>1. ServiceOK
    BY DEF HeraldInit, ServiceOK
  <2>2. call \in [HeraldUsers -> CallRecord \cup {NoCall}] /\ applied \in [HeraldUsers -> Nat]
    BY DEF HeraldInit
  <2>3. \A c \in HeraldUsers : CallOK(call[c], applied[c], approval, sessionID)
    BY DEF HeraldInit, CallOK
  <2>4. QED
    BY <2>1, <2>2, <2>3 DEF HeraldInv
<1>2. HeraldInv /\ [HeraldNext]_heraldVars => HeraldInv'
  <2> SUFFICES ASSUME HeraldInv, [HeraldNext]_heraldVars PROVE HeraldInv'
    OBVIOUS
  <2>1. ASSUME NEW c \in HeraldUsers, Proceed(c) \/ ContextEnds(c) PROVE HeraldInv'
    BY <2>1, AttemptKeepsInv, RetryKeepsInv, AnswerIsTaken DEF Proceed
  <2>2. ASSUME UNCHANGED <<call, applied, sessionID>>, ServiceOK', Lasting PROVE HeraldInv'
    <3>1. \A c \in HeraldUsers : CallOK(call[c], applied[c], approval', sessionID')
      BY <2>2, KnowledgeLasts DEF HeraldInv
    <3>2. \A c \in HeraldUsers : CallOK(call[c], applied[c], approval, sessionID)'
      BY <2>2, <3>1
    <3>3. QED
      BY <2>2, <3>2 DEF HeraldInv
  <2>3. CASE CacheAges \/ ApprovalExpires \/ UNCHANGED heraldVars
    BY <2>2, <2>3 DEF CacheAges, ApprovalExpires, heraldVars, Client, Service, HeraldInv, ServiceOK, Lasting, Settled
  <2>4. QED
    BY <2>1, <2>3, BeginKeepsInv DEF HeraldNext
<1>3. HeraldInv => HeraldTellsTrue
  <2> SUFFICES ASSUME HeraldInv PROVE HeraldTellsTrue
    OBVIOUS
  <2>1. \A c \in HeraldUsers : call[c] # NoCall => call[c] \in CallRecord /\ ActedOn(call[c], applied[c])
                                                   /\ Knows(call[c], approval, sessionID)
    BY InProgress
  <2>2. HeraldTypeOK
    BY <2>1 DEF HeraldInv, ServiceOK, HeraldTypeOK, CallRecord
  <2>3. \A c \in HeraldUsers : call[c] # NoCall => applied[c] <= 1
    BY <2>1 DEF ActedOn
  <2>4. QED
    BY <2>1, <2>2, <2>3 DEF HeraldTellsTrue, Does, ActedOn, Knows, Once
<1>4. QED
  BY <1>1, <1>2, <1>3, PTL DEF HeraldSpec
=============================================================================

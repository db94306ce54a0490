----------------------------- MODULE DocService -----------------------------
(***************************************************************************)
(* The documentation agent's documents and their index                     *)
(* (internal/docservice/agent.go): GenerateDocumentation, called by the    *)
(* consumers of requests and of assignments, and the indexer, which walks  *)
(* the documents at the start and at every tick. The index has a lock; the *)
(* file and its entry are not changed together.                            *)
(*                                                                         *)
(* A document is a name and a format; two sources of one base name have    *)
(* the same. Its content is the version of the source it was made from,    *)
(* empty in the middle of a write, or an edit. The walk passes over a      *)
(* format that the configuration does not list.                            *)
(***************************************************************************)
EXTENDS Naturals, FiniteSets

CONSTANTS Consumers, Sources, Base,      \* Base[s] is the source's base name
          Formats, SupportedFormats,
          MaxGenerations, MaxChanges, MaxCrashes   \* bounds

ASSUME DocAssumption ==
    /\ SupportedFormats \subseteq Formats
    /\ MaxGenerations \in Nat /\ MaxChanges \in Nat /\ MaxCrashes \in Nat

Docs == {Base[s] : s \in Sources} \X Formats
Walked == {d \in Docs : d[2] \in SupportedFormats}
NoName == <<>>
\* Contents: no document, an empty one, and those made of the changes so far.
NoDoc == 0
Empty == 1
Contents == 0 .. MaxChanges + 2

VARIABLES version,      \* the content of a source, counted by the changes so far
          disk,         \* the documents on disk
          docIndex,     \* content of a document's entry
          generation,   \* the call of GenerateDocumentation of each consumer
          walk,         \* the indexer: the documents still to visit, and the one in hand
          docUp, serving,
          changes, generations, crashes

docVars == <<version, disk, docIndex, generation, walk, docUp, serving, changes, generations, crashes>>
World == <<version, changes, generations, crashes>>

NoGeneration == [step |-> "none"]
NoWalk == [todo |-> {}, doc |-> NoName, content |-> NoDoc]

DocTypeOK ==
    /\ version \in [Sources -> Contents]
    /\ disk \in [Docs -> Contents] /\ docIndex \in [Docs -> Contents]
    /\ \A c \in Consumers :
         generation[c] # NoGeneration =>
            /\ generation[c].step \in {"walk", "truncate", "write", "read", "store"}
            /\ generation[c].todo \subseteq Sources /\ generation[c].format \in Formats
    /\ walk.todo \subseteq Walked /\ walk.doc \in Docs \cup {NoName}
    /\ {docUp, serving} \subseteq BOOLEAN

DocInit ==
    /\ version = [s \in Sources |-> 2]
    /\ disk = [d \in Docs |-> NoDoc] /\ docIndex = [d \in Docs |-> NoDoc]
    /\ generation = [c \in Consumers |-> NoGeneration]
    /\ walk = NoWalk
    /\ docUp = FALSE /\ serving = FALSE
    /\ changes = 0 /\ generations = 0 /\ crashes = 0

-----------------------------------------------------------------------------
\* GenerateDocumentation walks the sources (in an order that is left open).
Works(c, step) == generation[c] # NoGeneration /\ generation[c].step = step
Continues(c, r) == generation' = [generation EXCEPT ![c] = r]
TargetDoc(c, s) == <<Base[s], generation[c].format>>

Generate(c, format) ==
    /\ serving /\ generation[c] = NoGeneration /\ generations < MaxGenerations
    /\ generations' = generations + 1
    /\ Continues(c, [step |-> "walk", todo |-> Sources, format |-> format, doc |-> NoName, content |-> NoDoc])
    /\ UNCHANGED <<version, disk, docIndex, walk, docUp, serving, changes, crashes>>

\* generateDocForFile: the source is read; the read may fail.
ReadSource(c) ==
    /\ Works(c, "walk")
    /\ \E s \in generation[c].todo :
         LET rest == [generation[c] EXCEPT !.todo = @ \ {s}]
         IN  \/ Continues(c, rest)
             \/ Continues(c, [rest EXCEPT !.step = "truncate", !.doc = TargetDoc(c, s), !.content = version[s]])
    /\ UNCHANGED <<disk, docIndex, walk, docUp, serving, World>>

\* os.WriteFile empties the file first.
Truncate(c) ==
    /\ Works(c, "truncate")
    /\ disk' = [disk EXCEPT ![generation[c].doc] = Empty]
    /\ Continues(c, [generation[c] EXCEPT !.step = "write"])
    /\ UNCHANGED <<docIndex, walk, docUp, serving, World>>

\* The write may fail; such a document is not indexed.
WriteDoc(c) ==
    /\ Works(c, "write")
    /\ \/ /\ disk' = [disk EXCEPT ![generation[c].doc] = generation[c].content]
          /\ Continues(c, [generation[c] EXCEPT !.step = "read"])
       \/ Continues(c, [generation[c] EXCEPT !.step = "walk"]) /\ UNCHANGED disk
    /\ UNCHANGED <<docIndex, walk, docUp, serving, World>>

\* indexDocument reads the file, then sets the entry.
ReadDoc(c) ==
    /\ Works(c, "read")
    /\ LET d == generation[c].doc
       IN  Continues(c, IF disk[d] = NoDoc THEN [generation[c] EXCEPT !.step = "walk"]
                        ELSE [generation[c] EXCEPT !.step = "store", !.content = disk[d]])
    /\ UNCHANGED <<disk, docIndex, walk, docUp, serving, World>>

StoreEntry(c) ==
    /\ Works(c, "store")
    /\ docIndex' = [docIndex EXCEPT ![generation[c].doc] = generation[c].content]
    /\ Continues(c, [generation[c] EXCEPT !.step = "walk"])
    /\ UNCHANGED <<disk, walk, docUp, serving, World>>

\* The response is published; what it says is left out.
EndGeneration(c) ==
    /\ Works(c, "walk") /\ generation[c].todo = {}
    /\ Continues(c, NoGeneration)
    /\ UNCHANGED <<disk, docIndex, walk, docUp, serving, World>>

-----------------------------------------------------------------------------
\* Start and the ticks of runIndexer. Messages are taken after the first walk.
DocStarts ==
    /\ ~docUp /\ docUp' = TRUE
    /\ walk' = [NoWalk EXCEPT !.todo = Walked]
    /\ UNCHANGED <<disk, docIndex, generation, serving, World>>

Tick ==
    /\ serving /\ walk = NoWalk
    /\ walk' = [NoWalk EXCEPT !.todo = Walked]
    /\ UNCHANGED <<disk, docIndex, generation, docUp, serving, World>>

\* A mutant: the tick visits what has no entry yet.
WalkReadsNew ==
    /\ walk.doc = NoName
    /\ \E d \in walk.todo :
         walk' = IF disk[d] = NoDoc \/ docIndex[d] # NoDoc THEN [walk EXCEPT !.todo = @ \ {d}]
                 ELSE [todo |-> walk.todo \ {d}, doc |-> d, content |-> disk[d]]
    /\ UNCHANGED <<disk, docIndex, generation, docUp, serving, World>>

WalkReads ==
    /\ walk.doc = NoName
    /\ \E d \in walk.todo :
         walk' = IF disk[d] = NoDoc THEN [walk EXCEPT !.todo = @ \ {d}]
                 ELSE [todo |-> walk.todo \ {d}, doc |-> d, content |-> disk[d]]
    /\ UNCHANGED <<disk, docIndex, generation, docUp, serving, World>>

WalkStores ==
    /\ walk.doc # NoName
    /\ docIndex' = [docIndex EXCEPT ![walk.doc] = walk.content]
    /\ walk' = [walk EXCEPT !.doc = NoName, !.content = NoDoc]
    /\ UNCHANGED <<disk, generation, docUp, serving, World>>

Subscribed ==
    /\ docUp /\ ~serving /\ walk = NoWalk /\ serving' = TRUE
    /\ UNCHANGED <<disk, docIndex, generation, walk, docUp, World>>

DocCrash ==
    /\ docUp /\ crashes < MaxCrashes
    /\ docUp' = FALSE /\ serving' = FALSE /\ crashes' = crashes + 1
    /\ docIndex' = [d \in Docs |-> NoDoc]
    /\ generation' = [c \in Consumers |-> NoGeneration] /\ walk' = NoWalk
    /\ UNCHANGED <<version, disk, changes, generations>>

\* Users change a source, or edit or delete a document.
UserChanges ==
    /\ changes < MaxChanges /\ changes' = changes + 1
    /\ \/ \E s \in Sources : version' = [version EXCEPT ![s] = changes + 3] /\ UNCHANGED disk
       \/ \E d \in Docs, content \in {NoDoc, changes + 3} :
            disk[d] # NoDoc /\ disk' = [disk EXCEPT ![d] = content] /\ UNCHANGED version
    /\ UNCHANGED <<docIndex, generation, walk, docUp, serving, generations, crashes>>

GenerationStep(c) ==
    \/ ReadSource(c) \/ Truncate(c) \/ WriteDoc(c) \/ ReadDoc(c) \/ StoreEntry(c) \/ EndGeneration(c)
IndexerStep == Tick \/ WalkReads \/ WalkStores

DocNext ==
    \/ \E c \in Consumers : GenerationStep(c) \/ \E f \in Formats : Generate(c, f)
    \/ IndexerStep \/ DocStarts \/ Subscribed \/ DocCrash \/ UserChanges

\* Goroutines go on, and a process that has ended is started again.
DocFairness ==
    /\ \A c \in Consumers : WF_docVars(GenerationStep(c))
    /\ WF_docVars(IndexerStep) /\ WF_docVars(DocStarts) /\ WF_docVars(Subscribed)

DocSpec == DocInit /\ [][DocNext]_docVars /\ DocFairness

-----------------------------------------------------------------------------
\* Once nobody changes the documents, every one that is on disk in a format of the
\* walk is found with its content, and stays so: a half-written file that was read,
\* a read overtaken by a write and an index lost in a crash are put right by the
\* ticks. (An entry whose file is gone stays; a document in another format is
\* indexed when it is generated, and never again.)
IndexCatchesUp ==
    [](DocTypeOK) /\ <>[](\A d \in Walked : disk[d] # NoDoc => docIndex[d] = disk[d])

\* agent.go:178 "GenerateDocumentation generates documentation from source": every
\* document that exists is indexed with its content in the end, in any format.
EveryFormatCatchesUp == <>[](\A d \in Docs : disk[d] # NoDoc => docIndex[d] = disk[d])
=============================================================================

--------------------------- MODULE ManifestStore ---------------------------
(***************************************************************************)
(* The store of agent manifests (pkg/manifest/loader.go) over the folders  *)
(* it loads when it is made and may watch afterwards. The watcher handles  *)
(* one event at a time; SaveManifest writes a file and loads it like the   *)
(* watcher does, in a goroutine of the caller. LoadManifest reads a file   *)
(* first and takes the lock to store it later.                             *)
(*                                                                         *)
(* A manifest is the name of its agent and a number for its text. A file   *)
(* that cannot be parsed or is not valid is bad, one being written in      *)
(* place too. The folders exist and the queue of events does not overflow. *)
(***************************************************************************)
EXTENDS Naturals, Sequences

CONSTANTS ManifestFiles, AgentNames,
          MaxEdits            \* bound on the changes of files

NoFile == "no file"

ASSUME ManifestAssumption == MaxEdits \in Nat /\ NoFile \notin ManifestFiles

VARIABLES folder,      \* what each file holds
          manifests,   \* s.manifests and s.filePaths: the text and the file of each name
          toLoad,      \* files NewManifestStore has still to load
          watching,
          fileEvents,
          loading,     \* what the watcher and a caller of SaveManifest have read
          edits,
          named,       \* history: the names each file has had
          untold       \* history: files with a change the watcher is not told of or that a save overlapped

manifestVars == <<folder, manifests, toLoad, watching, fileEvents, loading, edits, named, untold>>

Absent == [holds |-> "nothing"]
Bad == [holds |-> "bad"]
Manifest(n, text) == [holds |-> "manifest", name |-> n, text |-> text]
Manifests == {Manifest(n, text) : n \in AgentNames, text \in 0 .. MaxEdits}
Loaders == {"watcher", "saver"}
Nothing == [file |-> NoFile]
NotLoaded == [file |-> NoFile, text |-> 0]

ManifestTypeOK ==
    /\ folder \in [ManifestFiles -> Manifests \cup {Absent, Bad}]
    /\ manifests \in [AgentNames -> [file : ManifestFiles, text : 0 .. MaxEdits] \cup {NotLoaded}]
    /\ toLoad \subseteq ManifestFiles /\ watching \in BOOLEAN
    /\ fileEvents \in Seq([op : {"create", "write", "remove", "rename"}, file : ManifestFiles])
    /\ \A l \in Loaders : loading[l] # Nothing => loading[l].file \in ManifestFiles /\ loading[l].content \in Manifests
    /\ edits \in 0 .. MaxEdits
    /\ named \in [ManifestFiles -> SUBSET AgentNames] /\ untold \subseteq ManifestFiles

NamesIn(content) == IF content \in Manifests THEN {content.name} ELSE {}

\* NewManifestStore is about to load the files there are.
ManifestInit ==
    /\ folder \in [ManifestFiles -> {Absent} \cup {Manifest(n, 0) : n \in AgentNames}]
    /\ manifests = [n \in AgentNames |-> NotLoaded]
    /\ toLoad = {f \in ManifestFiles : folder[f] # Absent}
    /\ watching = FALSE /\ fileEvents = <<>>
    /\ loading = [l \in Loaders |-> Nothing]
    /\ edits = 0
    /\ named = [f \in ManifestFiles |-> NamesIn(folder[f])]
    /\ untold = {}

-----------------------------------------------------------------------------
\* The second half of LoadManifest. The name's earlier file is forgotten, a name the
\* file had before is not.
Stored(f, content) == [manifests EXCEPT ![content.name] = [file |-> f, text |-> content.text]]

\* loadFromDirectory goes on after a file it cannot load.
LoadOne(f) ==
    /\ f \in toLoad
    /\ toLoad' = toLoad \ {f}
    /\ manifests' = IF folder[f] \in Manifests THEN Stored(f, folder[f]) ELSE manifests
    /\ UNCHANGED <<folder, watching, fileEvents, loading, edits, named, untold>>

StartWatching ==
    /\ toLoad = {} /\ ~watching /\ watching' = TRUE
    /\ UNCHANGED <<folder, manifests, toLoad, fileEvents, loading, edits, named, untold>>

Read(l, f) == loading' = [loading EXCEPT ![l] = [file |-> f, content |-> folder[f]]]

TakeEvent == watching /\ fileEvents # <<>> /\ loading["watcher"] = Nothing /\ fileEvents' = Tail(fileEvents)

\* A mutant: a file that is moved into place is not loaded.
ReloadsWritesOnly(op) == op = "write"

Reloads(op) == op \in {"write", "create"}

\* handleFSEvent; a rename is none of its cases.
HandleWrite ==
    /\ TakeEvent
    /\ Reloads(Head(fileEvents).op)
    /\ IF folder[Head(fileEvents).file] \in Manifests THEN Read("watcher", Head(fileEvents).file) ELSE UNCHANGED loading
    /\ UNCHANGED <<folder, manifests, toLoad, watching, edits, named, untold>>

\* One of the names of the file, if it has several.
HandleRemove ==
    /\ TakeEvent
    /\ Head(fileEvents).op = "remove"
    /\ LET names == {n \in AgentNames : manifests[n].file = Head(fileEvents).file}
       IN  IF names = {} THEN UNCHANGED manifests
           ELSE \E n \in names : manifests' = [manifests EXCEPT ![n] = NotLoaded]
    /\ UNCHANGED <<folder, toLoad, watching, loading, edits, named, untold>>

HandleOther ==
    /\ TakeEvent
    /\ ~Reloads(Head(fileEvents).op) /\ Head(fileEvents).op # "remove"
    /\ UNCHANGED <<folder, manifests, toLoad, watching, loading, edits, named, untold>>

StoreManifest(l) ==
    /\ loading[l] # Nothing
    /\ manifests' = Stored(loading[l].file, loading[l].content)
    /\ loading' = [loading EXCEPT ![l] = Nothing]
    /\ UNCHANGED <<folder, toLoad, watching, fileEvents, edits, named, untold>>

-----------------------------------------------------------------------------
\* A file changes. Nobody is told before the folders are watched.
Change(f, content, op) ==
    /\ edits < MaxEdits /\ edits' = edits + 1
    /\ folder' = [folder EXCEPT ![f] = content]
    /\ fileEvents' = IF watching THEN Append(fileEvents, [op |-> op, file |-> f]) ELSE fileEvents
    /\ named' = [named EXCEPT ![f] = @ \cup NamesIn(content)]
    /\ untold' = IF ~watching \/ op = "rename" \/ loading["saver"].file = f
                 THEN untold \cup {f} ELSE untold
    /\ UNCHANGED <<toLoad, watching>>

WriteOp(f) == IF folder[f] = Absent THEN "create" ELSE "write"

UserWrites(f) ==
    /\ \E content \in {Bad} \cup {Manifest(n, edits + 1) : n \in AgentNames} : Change(f, content, WriteOp(f))
    /\ UNCHANGED <<manifests, loading>>

\* An editor that writes another file and moves it into place.
UserReplaces(f) ==
    /\ \E n \in AgentNames : Change(f, Manifest(n, edits + 1), "create")
    /\ UNCHANGED <<manifests, loading>>

UserRemoves(f) ==
    /\ folder[f] # Absent
    /\ \E op \in {"remove", "rename"} : Change(f, Absent, op)
    /\ UNCHANGED <<manifests, loading>>

\* SaveManifest writes the file, then loads it.
SaveManifest(f, n) ==
    /\ toLoad = {} /\ loading["saver"] = Nothing
    /\ Change(f, Manifest(n, edits + 1), WriteOp(f))
    /\ loading' = [loading EXCEPT !["saver"] = [file |-> f, content |-> folder'[f]]]
    /\ UNCHANGED manifests

\* From the store; the file stays.
DeleteManifest(n) ==
    /\ toLoad = {} /\ manifests[n] # NotLoaded
    /\ manifests' = [manifests EXCEPT ![n] = NotLoaded]
    /\ untold' = untold \cup {manifests[n].file}
    /\ UNCHANGED <<folder, toLoad, watching, fileEvents, loading, edits, named>>

CloseStore ==
    /\ watching /\ edits = MaxEdits /\ fileEvents = <<>> /\ loading["watcher"] = Nothing
    /\ watching' = FALSE
    /\ UNCHANGED <<folder, manifests, toLoad, fileEvents, loading, edits, named, untold>>

ManifestNext ==
    \/ StartWatching \/ HandleWrite \/ HandleRemove \/ HandleOther \/ CloseStore
    \/ \E l \in Loaders : StoreManifest(l)
    \/ \E f \in ManifestFiles : \/ LoadOne(f) \/ UserWrites(f) \/ UserReplaces(f) \/ UserRemoves(f)
                                \/ \E n \in AgentNames : SaveManifest(f, n)
    \/ \E n \in AgentNames : DeleteManifest(n)

ManifestSpec == ManifestInit /\ [][ManifestNext]_manifestVars

-----------------------------------------------------------------------------
AtRest == watching /\ fileEvents = <<>> /\ \A l \in Loaders : loading[l] = Nothing

\* What a file says is in the store, and what was removed is not.
Follows(f) ==
    /\ folder[f] \in Manifests => manifests[folder[f].name] = [file |-> f, text |-> folder[f].text]
    /\ folder[f] = Absent => \A n \in AgentNames : manifests[n].file # f

\* A file that has kept to one name which no other file has had.
OwnName(f) ==
    /\ \A m, n \in named[f] : m = n
    /\ \A g \in ManifestFiles \ {f} : named[f] \cap named[g] = {}

\* When all events are handled the store says what the files say, however they were
\* written, replaced and removed while the watcher was loading one: for files whose
\* name is their own, and whose changes the watcher has been told of.
StoreFollowsFiles == ManifestTypeOK /\ (AtRest => \A f \in ManifestFiles \ untold : OwnName(f) => Follows(f))

\* loader.go:32 "ManifestStore manages agent manifests with hot-reload": what the store
\* says is what its files say, also when two of them name one agent or the agent's
\* name in a file has changed.
HotReload ==
    AtRest => \A f \in ManifestFiles \ untold :
        folder[f] # Bad => Follows(f) /\ \A n \in AgentNames : manifests[n].file = f => n \in NamesIn(folder[f])
=============================================================================

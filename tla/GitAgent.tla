------------------------------ MODULE GitAgent ------------------------------
(***************************************************************************)
(* The operations of the git agent (internal/git/agent.go) on one          *)
(* repository below its repos path, called by two consumers: that of the   *)
(* service requests and that of the task assignments. An operation is a    *)
(* sequence of git commands in one working tree, which no lock protects,   *)
(* and an entry in the map repos at its end.                               *)
(*                                                                         *)
(* Git itself is external. A branch is the set of its commits; merge       *)
(* commits are left out. Any command may fail for reasons of its own.      *)
(***************************************************************************)
EXTENDS Naturals, FiniteSets

CONSTANTS Consumers,
          Branches, Main,
          MaxCommits, MaxOperations    \* bounds

NoBranch == "no branch"

ASSUME GitAssumption ==
    /\ Main \in Branches /\ NoBranch \notin Branches
    /\ MaxCommits \in Nat /\ MaxOperations \in Nat

VARIABLES commits,          \* of each branch, or NoBranch
          head,             \* the branch checked out; NoBranch if there is no repository
          merging,          \* commits of a merge that met a conflict, not yet committed
          changed, staged,  \* the files differ from the last commit; the index does
          remote,           \* the commits of origin's main branch
          repos,            \* CurrentBranch of the repository's entry, or NoBranch
          op,               \* the operation of each consumer
          gitUp,
          astray,           \* history: an operation failed after its checkout, or two overlapped
          requests

gitVars == <<commits, head, merging, changed, staged, remote, repos, op, gitUp, astray, requests>>

Kinds == {"clone", "commit", "branch", "merge", "pull", "push"}
NoOp == [kind |-> "none"]
Known == remote \cup UNION {commits[b] : b \in {x \in Branches : commits[x] # {}}}
NewCommit == Cardinality(Known)
Exists(b) == b # NoBranch /\ commits[b] # {}

GitTypeOK ==
    /\ commits \in [Branches -> SUBSET (0 .. MaxCommits)]
    /\ {head, repos} \subseteq Branches \cup {NoBranch}
    /\ merging \subseteq 0 .. MaxCommits /\ remote \subseteq 0 .. MaxCommits
    /\ {changed, staged, gitUp, astray} \subseteq BOOLEAN
    /\ \A c \in Consumers : op[c] = NoOp \/ op[c].kind \in Kinds
    /\ requests \in 0 .. MaxOperations

GitInit ==
    /\ head \in {NoBranch, Main}
    /\ commits = [b \in Branches |-> IF b = head THEN {0} ELSE {}]
    /\ merging = {} /\ changed = FALSE /\ staged = FALSE
    /\ remote = {0} /\ repos = NoBranch
    /\ op = [c \in Consumers |-> NoOp]
    /\ gitUp = FALSE /\ astray = FALSE /\ requests = 0

Tree == <<commits, head, merging, changed, staged>>
Agent == <<gitUp, requests>>

-----------------------------------------------------------------------------
In(c, kinds, step) == op[c] # NoOp /\ op[c].kind \in kinds /\ op[c].step = step
Go(c, step) == op' = [op EXCEPT ![c].step = step]
\* A failure leaves the tree as it is, where the operation has brought it.
Fail(c) ==
    /\ op' = [op EXCEPT ![c].step = "reply", ![c].ok = FALSE]
    /\ astray' = (astray \/ op[c].moved)
    /\ UNCHANGED <<Tree, remote, repos, Agent>>
MayFail(c, kinds, step) == In(c, kinds, step) /\ Fail(c)

\* handleServiceRequest and handleTaskAssignment.
Serve(c, kind, source, target) ==
    /\ gitUp /\ op[c] = NoOp /\ requests < MaxOperations
    /\ requests' = requests + 1
    /\ LET others == {d \in Consumers : op[d] # NoOp}
       IN  /\ astray' = (astray \/ others # {})
           /\ op' = [d \in Consumers |->
                        IF d = c THEN [kind |-> kind, source |-> source, target |-> target, step |-> "stat",
                                       ok |-> TRUE, alone |-> others = {}, moved |-> FALSE]
                        ELSE IF d \in others THEN [op[d] EXCEPT !.alone = FALSE] ELSE op[d]]
    /\ UNCHANGED <<Tree, remote, repos, gitUp>>

FirstStep(kind, source) ==
    CASE kind = "commit" -> "add"
      [] kind = "merge" \/ (kind = "branch" /\ source # NoBranch) -> "checkout"
      [] OTHER -> "git"

\* os.Stat of the path; clone wants none there.
Stat(c) ==
    /\ In(c, Kinds, "stat")
    /\ IF (op[c].kind = "clone") = (head = NoBranch)
       THEN Go(c, FirstStep(op[c].kind, op[c].source)) /\ UNCHANGED <<Tree, remote, repos, Agent, astray>>
       ELSE Fail(c)

GitClone(c) ==
    /\ In(c, {"clone"}, "git") /\ head = NoBranch
    /\ head' = Main /\ commits' = [commits EXCEPT ![Main] = remote]
    /\ Go(c, "info")
    /\ UNCHANGED <<merging, changed, staged, remote, repos, Agent, astray>>

\* The base branch of a new one, or the target of a merge.
GitCheckout(c) ==
    /\ In(c, {"branch", "merge"}, "checkout") /\ merging = {}
    /\ head' = IF op[c].kind = "branch" THEN op[c].source ELSE op[c].target
    /\ Exists(head')
    /\ op' = [op EXCEPT ![c].step = "git", ![c].moved = TRUE]
    /\ UNCHANGED <<commits, merging, changed, staged, remote, repos, Agent, astray>>

GitBranch(c) ==
    /\ In(c, {"branch"}, "git") /\ merging = {} /\ ~Exists(op[c].target)
    /\ commits' = [commits EXCEPT ![op[c].target] = commits[head]]
    /\ head' = op[c].target
    /\ Go(c, "info")
    /\ UNCHANGED <<merging, changed, staged, remote, repos, Agent, astray>>

\* A merge of these commits into the branch checked out.
MergeHere(new) == commits' = [commits EXCEPT ![head] = @ \cup new] /\ UNCHANGED merging
\* It stops at a conflict and leaves that in the tree; git exits with an error.
Conflict(c, new) ==
    /\ ~(new \subseteq commits[head]) /\ ~(commits[head] \subseteq new)
    /\ merging' = new
    /\ op' = [op EXCEPT ![c].step = "reply", ![c].ok = FALSE]
    /\ astray' = (astray \/ op[c].moved)
    /\ UNCHANGED commits

GitMerge(c) ==
    /\ In(c, {"merge"}, "git") /\ merging = {} /\ Exists(op[c].source)
    /\ \/ MergeHere(commits[op[c].source]) /\ Go(c, "info") /\ UNCHANGED astray
       \/ Conflict(c, commits[op[c].source])
    /\ UNCHANGED <<head, changed, staged, remote, repos, Agent>>

\* Only the main branch has an upstream. The entry is not touched.
GitPull(c) ==
    /\ In(c, {"pull"}, "git") /\ merging = {} /\ head = Main
    /\ \/ MergeHere(remote) /\ Go(c, "reply") /\ UNCHANGED astray
       \/ Conflict(c, remote)
    /\ UNCHANGED <<head, changed, staged, remote, repos, Agent>>

GitPush(c) ==
    /\ In(c, {"push"}, "git") /\ remote \subseteq commits[Main]
    /\ remote' = commits[Main]
    /\ Go(c, "reply")
    /\ UNCHANGED <<Tree, repos, Agent, astray>>

\* add -A, no file being named by the handlers; it takes in a conflict as well.
GitAdd(c) ==
    /\ In(c, {"commit"}, "add")
    /\ staged' = (staged \/ changed \/ merging # {}) /\ changed' = FALSE
    /\ Go(c, "diff")
    /\ UNCHANGED <<commits, head, merging, remote, repos, Agent, astray>>

GitDiff(c) ==
    /\ In(c, {"commit"}, "diff")
    /\ IF staged THEN Go(c, "git") /\ UNCHANGED <<Tree, remote, repos, Agent, astray>> ELSE Fail(c)

GitCommit(c) ==
    /\ In(c, {"commit"}, "git") /\ staged /\ NewCommit <= MaxCommits
    /\ commits' = [commits EXCEPT ![head] = @ \cup merging \cup {NewCommit}]
    /\ staged' = FALSE /\ merging' = {}
    /\ Go(c, "info")
    /\ UNCHANGED <<head, changed, remote, repos, Agent, astray>>

\* A mutant: the entry is made as if no branch had been checked out.
UpdateEntryStatus(c) ==
    /\ In(c, Kinds, "info")
    /\ repos' = IF op[c].kind = "clone" THEN Main ELSE repos
    /\ astray' = (astray /\ (op[c].kind = "commit" \/ ~op[c].alone))
    /\ Go(c, "reply")
    /\ UNCHANGED <<Tree, remote, Agent>>

\* The entry, if there is one. Its status and time are left out.
UpdateEntry(c) ==
    /\ In(c, Kinds, "info")
    /\ repos' = CASE op[c].kind = "clone" -> Main
                  [] op[c].kind \in {"branch", "merge"} /\ repos # NoBranch -> op[c].target
                  [] OTHER -> repos
    /\ astray' = (astray /\ (op[c].kind = "commit" \/ ~op[c].alone))
    /\ Go(c, "reply")
    /\ UNCHANGED <<Tree, remote, Agent>>

Reply(c) ==
    /\ In(c, Kinds, "reply")
    /\ op' = [op EXCEPT ![c] = NoOp]
    /\ UNCHANGED <<Tree, remote, repos, Agent, astray>>

-----------------------------------------------------------------------------
\* scanRepositories asks git for the branch.
AgentStarts ==
    /\ ~gitUp /\ gitUp' = TRUE
    /\ repos' = head /\ astray' = FALSE
    /\ UNCHANGED <<Tree, remote, op, requests>>

\* The process ends at any moment; the map is in memory only.
AgentEnds ==
    /\ gitUp /\ gitUp' = FALSE
    /\ repos' = NoBranch /\ op' = [c \in Consumers |-> NoOp]
    /\ UNCHANGED <<Tree, remote, astray, requests>>

EditFiles ==
    /\ head # NoBranch /\ ~changed /\ changed' = TRUE
    /\ UNCHANGED <<commits, head, merging, staged, remote, repos, op, Agent, astray>>

OthersPush ==
    /\ NewCommit <= MaxCommits /\ remote' = remote \cup {NewCommit}
    /\ UNCHANGED <<Tree, repos, op, Agent, astray>>

Operate(c) ==
    \/ Stat(c) \/ GitClone(c) \/ GitCheckout(c) \/ GitBranch(c) \/ GitMerge(c) \/ GitPull(c) \/ GitPush(c)
    \/ GitAdd(c) \/ GitDiff(c) \/ GitCommit(c) \/ UpdateEntry(c) \/ Reply(c)
    \/ \E step \in {"checkout", "git", "add"} : MayFail(c, Kinds, step)

GitNext ==
    \/ \E c \in Consumers :
         \/ Operate(c)
         \/ \E kind \in Kinds, s \in Branches \cup {NoBranch}, t \in Branches :
               /\ kind \in {"branch", "merge"} \/ (s = NoBranch /\ t = Main)
               /\ kind = "merge" => s # NoBranch
               /\ Serve(c, kind, s, t)
    \/ AgentStarts \/ AgentEnds \/ EditFiles \/ OthersPush

GitSpec == GitInit /\ [][GitNext]_gitVars

-----------------------------------------------------------------------------
\* An operation that no other overlapped and that reports success has done what
\* it says, wherever earlier failures, conflicts and restarts have left the tree;
\* and the entry names the branch checked out, unless an operation has failed
\* after its checkout or two overlapped, until the next one puts it right.
ReportsHold ==
    /\ GitTypeOK
    /\ \A c \in Consumers :
         In(c, Kinds, "reply") /\ op[c].ok /\ op[c].alone =>
            /\ op[c].kind \in {"branch", "merge"} => head = op[c].target /\ merging = {}
            /\ op[c].kind = "merge" => commits[op[c].source] \subseteq commits[op[c].target]
            /\ op[c].kind = "commit" => ~staged
    /\ gitUp /\ ~astray /\ (\A c \in Consumers : op[c] = NoOp) => repos = head

\* agent.go:334 "MergeChanges merges branches": a merge that was reported as failed
\* is not completed by the next commit, conflict markers and all.
FailedMergesStayOut == [][\A c \in Consumers : GitCommit(c) => merging = {}]_gitVars
=============================================================================

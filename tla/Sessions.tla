------------------------------ MODULE Sessions ------------------------------
(***************************************************************************)
(* pkg/session: conversations kept as append-only files, and the programs  *)
(* (the terminal interface and the chat command) that create, resume, fork *)
(* and save them. A program saves the part of its history it has not saved *)
(* yet, one line a message. A crash may come between any two lines. Whole  *)
(* lines only: one Write puts a line down, and none fails.                 *)
(***************************************************************************)
EXTENDS Naturals, Sequences, SequencesExt, FiniteSets

CONSTANTS Programs,
          MaxSessions, MaxMessages     \* bounds on the sessions and on the messages said

ASSUME SessionsAssumption == MaxSessions \in Nat /\ MaxMessages \in Nat

SessionIDs == 1 .. MaxSessions
Said == 1 .. MaxMessages

VARIABLES stored,       \* the sessions with metadata on disk
          lines,        \* messages.jsonl of each session
          current,      \* the session of a program, 0 if none
          history,      \* the conversation of a program
          lastSaved,    \* lastSavedIndex
          saving,       \* what is left to write, and what then follows
          told,         \* the conversation held in each session
          messageCount

sessionsVars == <<stored, lines, current, history, lastSaved, saving, told, messageCount>>

NotSaving == [to |-> 0, left |-> <<>>, upTo |-> 0]

SessionsTypeOK ==
    /\ stored \subseteq SessionIDs
    /\ lines \in [SessionIDs -> Seq(Said)] /\ told \in [SessionIDs -> Seq(Said)]
    /\ current \in [Programs -> 0 .. MaxSessions]
    /\ history \in [Programs -> Seq(Said)]
    /\ lastSaved \in [Programs -> 0 .. MaxMessages]
    /\ messageCount \in 0 .. MaxMessages

SessionsInit ==
    /\ stored = {} /\ lines = [s \in SessionIDs |-> <<>>] /\ told = [s \in SessionIDs |-> <<>>]
    /\ current = [p \in Programs |-> 0]
    /\ history = [p \in Programs |-> <<>>]
    /\ lastSaved = [p \in Programs |-> 0]
    /\ saving = [p \in Programs |-> NotSaving]
    /\ messageCount = 0

Fresh(s) == s \notin stored /\ lines[s] = <<>> /\ \A p \in Programs : current[p] # s /\ saving[p].to # s
Resting(p) == saving[p] = NotSaving
Adopt(p, s, messages, saved) ==
    /\ current' = [current EXCEPT ![p] = s]
    /\ history' = [history EXCEPT ![p] = messages]
    /\ lastSaved' = [lastSaved EXCEPT ![p] = saved]

-----------------------------------------------------------------------------
CreateSession(p, s) ==
    /\ current[p] = 0 /\ Fresh(s) /\ told[s] = <<>>
    /\ stored' = stored \cup {s}
    /\ Adopt(p, s, <<>>, 0)
    /\ UNCHANGED <<lines, saving, told, messageCount>>

\* Resume reads the lines there are. The other program is not in this session.
Resume(p, s) ==
    /\ current[p] = 0 /\ s \in stored /\ \A q \in Programs : current[q] # s /\ saving[q].to # s
    /\ Adopt(p, s, lines[s], Len(lines[s]))
    /\ told' = [told EXCEPT ![s] = lines[s]]
    /\ UNCHANGED <<stored, lines, saving, messageCount>>

\* The user's message, or the agent's.
Say(p) ==
    /\ current[p] # 0 /\ Resting(p) /\ messageCount < MaxMessages
    /\ messageCount' = messageCount + 1
    /\ history' = [history EXCEPT ![p] = Append(@, messageCount')]
    /\ told' = [told EXCEPT ![current[p]] = Append(@, messageCount')]
    /\ UNCHANGED <<stored, lines, current, lastSaved, saving>>

AppendMessages(p) ==
    /\ current[p] # 0 /\ Resting(p) /\ Len(history[p]) > lastSaved[p]
    /\ saving' = [saving EXCEPT ![p] = [to |-> current[p], upTo |-> Len(history[p]),
                                        left |-> SubSeq(history[p], lastSaved[p] + 1, Len(history[p]))]]
    /\ UNCHANGED <<stored, lines, current, history, lastSaved, told, messageCount>>

\* The manager's lock is held over the whole operation; the file is not locked.
WriteLine(p) ==
    /\ saving[p].left # <<>>
    /\ lines' = [lines EXCEPT ![saving[p].to] = Append(@, Head(saving[p].left))]
    /\ saving' = [saving EXCEPT ![p].left = Tail(@)]
    /\ UNCHANGED <<stored, current, history, lastSaved, told, messageCount>>

\* The index moves and SaveSession writes the metadata, which brings a session
\* deleted meanwhile back with the lines written since.
AppendDone(p) ==
    /\ saving[p].to = current[p] /\ saving[p].to # 0 /\ saving[p].left = <<>>
    /\ lastSaved' = [lastSaved EXCEPT ![p] = saving[p].upTo]
    /\ stored' = stored \cup {current[p]}
    /\ saving' = [saving EXCEPT ![p] = NotSaving]
    /\ UNCHANGED <<lines, current, history, told, messageCount>>

\* Fork copies the lines of the current session into a new one.
Fork(p, s) ==
    /\ current[p] # 0 /\ Resting(p) /\ Fresh(s) /\ told[s] = <<>>
    /\ stored' = stored \cup {s}
    /\ saving' = [saving EXCEPT ![p] = [to |-> s, left |-> lines[current[p]], upTo |-> Len(lines[current[p]])]]
    /\ told' = [told EXCEPT ![s] = lines[current[p]]]
    /\ UNCHANGED <<lines, current, history, lastSaved, messageCount>>

\* A mutant: a fork that forgets what it has copied.
ForkDoneUnsaved(p) ==
    /\ saving[p].to \notin {0, current[p]} /\ saving[p].left = <<>>
    /\ Adopt(p, saving[p].to, lines[saving[p].to], 0)
    /\ saving' = [saving EXCEPT ![p] = NotSaving]
    /\ UNCHANGED <<stored, lines, told, messageCount>>

\* The caller goes on with the messages of the fork, which it resumes.
ForkDone(p) ==
    /\ saving[p].to \notin {0, current[p]} /\ saving[p].left = <<>>
    /\ Adopt(p, saving[p].to, lines[saving[p].to], saving[p].upTo)
    /\ saving' = [saving EXCEPT ![p] = NotSaving]
    /\ UNCHANGED <<stored, lines, told, messageCount>>

\* The program ends, at any point of what it is doing.
Exit(p) ==
    /\ current[p] # 0
    /\ Adopt(p, 0, <<>>, 0)
    /\ saving' = [saving EXCEPT ![p] = NotSaving]
    /\ UNCHANGED <<stored, lines, told, messageCount>>

\* The sessions command, for a session no program is in.
DeleteSession(s) ==
    /\ s \in stored /\ \A p \in Programs : current[p] # s /\ saving[p].to # s
    /\ stored' = stored \ {s}
    /\ lines' = [lines EXCEPT ![s] = <<>>]
    /\ UNCHANGED <<current, history, lastSaved, saving, told, messageCount>>

SessionsNext ==
    \/ \E p \in Programs, s \in SessionIDs : CreateSession(p, s) \/ Resume(p, s) \/ Fork(p, s)
    \/ \E p \in Programs : Say(p) \/ AppendMessages(p) \/ WriteLine(p) \/ AppendDone(p) \/ ForkDone(p) \/ Exit(p)
    \/ \E s \in SessionIDs : DeleteSession(s)

SessionsSpec == SessionsInit /\ [][SessionsNext]_sessionsVars

-----------------------------------------------------------------------------
\* Through saves, forks and exits at any moment, a session's file holds the
\* beginning of the conversation held in it, every message once, and a program
\* that is not saving knows how much of its history is there (manager.go:58-208).
FilesFollowConversations ==
    /\ SessionsTypeOK
    /\ \A s \in SessionIDs : IsPrefix(lines[s], told[s])
    /\ \A p \in Programs : current[p] # 0 /\ (Resting(p) \/ saving[p].to # current[p]) =>
           /\ history[p] = told[current[p]]
           /\ lastSaved[p] = Len(lines[current[p]])
=============================================================================

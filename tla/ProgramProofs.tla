---------------------------- MODULE ProgramProofs ----------------------------
(***************************************************************************)
(* Safety of what the programs keep in files: the conversations, for any   *)
(* number of programs, sessions and messages; the settings, for any number *)
(* of commands; the git agent's repository with its entry, for any number  *)
(* of consumers and branches; the manifests, for any files and edits; and  *)
(* what the terminal shows, tells the models and saves.                    *)
(***************************************************************************)
EXTENDS Sessions, CommandLine, GitAgent, Transcript, ManifestStore, SequenceTheorems, FiniteSetTheorems, TLAPS

-----------------------------------------------------------------------------
(* The sessions. Two programs are never in one session, nor does one write *)
(* to a session another is in. A file holds the beginning of the           *)
(* conversation, and where it is being saved, what is left to write is     *)
(* exactly the rest.                                                       *)

SavingTypeOK == saving \in [Programs -> [to : 0 .. MaxSessions, left : Seq(Said), upTo : Nat]]

Apart ==
    \A p, q \in Programs : p # q =>
        /\ current[p] # 0 => current[p] # current[q] /\ current[p] # saving[q].to
        /\ saving[p].to # 0 => saving[p].to # saving[q].to

IdleSavesNothing == \A p \in Programs : current[p] = 0 \/ saving[p].to = 0 => saving[p] = NotSaving

Begins(s) ==
    /\ Len(lines[s]) <= Len(told[s]) /\ Len(told[s]) <= messageCount
    /\ \A i \in 1 .. Len(lines[s]) : lines[s][i] = told[s][i]

LeftToWrite(r) ==
    /\ Len(told[r.to]) = Len(lines[r.to]) + Len(r.left)
    /\ \A i \in 1 .. Len(r.left) : r.left[i] = told[r.to][Len(lines[r.to]) + i]
    /\ r.upTo = Len(told[r.to])

WritesTheRest == \A p \in Programs : saving[p].to # 0 => LeftToWrite(saving[p])

KnowsItsPlace ==
    \A p \in Programs : current[p] # 0 =>
        /\ history[p] = told[current[p]]
        /\ saving[p].to # current[p] => lastSaved[p] = Len(lines[current[p]])

SessionsInv ==
    /\ SessionsTypeOK /\ SavingTypeOK
    /\ Apart /\ IdleSavesNothing /\ (\A s \in SessionIDs : Begins(s)) /\ WritesTheRest /\ KnowsItsPlace

USE SessionsAssumption DEF SessionsAssumption, SessionIDs

\* A prefix, element by element.
LEMMA PrefixMeans ==
  ASSUME NEW S, NEW s \in Seq(S), NEW t \in Seq(S),
         Len(s) <= Len(t), \A i \in 1 .. Len(s) : s[i] = t[i]
  PROVE  IsPrefix(s, t)
<1>1. Len(s) \in Nat /\ Len(t) \in Nat
  OBVIOUS
<1>2. SubSeq(s, 1, Len(s)) \in Seq(S) /\ SubSeq(t, 1, Len(s)) \in Seq(S)
  BY <1>1
<1>3. Len(SubSeq(s, 1, Len(s))) = Len(s) /\ Len(SubSeq(t, 1, Len(s))) = Len(s)
  BY <1>1
<1>4. \A i \in 1 .. Len(s) : SubSeq(s, 1, Len(s))[i] = SubSeq(t, 1, Len(s))[i]
  BY <1>1
<1>5. SubSeq(s, 1, Len(s)) = SubSeq(t, 1, Len(s))
  BY <1>2, <1>3, <1>4, SeqEqual
<1>6. QED
  BY <1>5 DEF IsPrefix

\* Where a program is, and where it writes.
LEMMA Places ==
  ASSUME SessionsInv, NEW p \in Programs PROVE
    /\ current[p] # 0 => current[p] \in SessionIDs
    /\ saving[p].to # 0 => saving[p].to \in SessionIDs
<1>1. saving[p] \in [to : 0 .. MaxSessions, left : Seq(Said), upTo : Nat]
  BY DEF SessionsInv, SavingTypeOK
<1>2. saving[p].to \in 0 .. MaxSessions /\ current[p] \in 0 .. MaxSessions
  BY <1>1 DEF SessionsInv, SessionsTypeOK
<1>3. \A n \in 0 .. MaxSessions : n # 0 => n \in 1 .. MaxSessions
  OBVIOUS
<1>4. QED
  BY <1>2, <1>3

\* The types of one program's records.
LEMMA SavingTypes ==
  ASSUME SessionsInv, NEW p \in Programs PROVE
    /\ saving[p].to \in 0 .. MaxSessions /\ saving[p].left \in Seq(Said) /\ saving[p].upTo \in Nat
    /\ saving[p] = [to |-> saving[p].to, left |-> saving[p].left, upTo |-> saving[p].upTo]
    /\ current[p] \in 0 .. MaxSessions /\ history[p] \in Seq(Said) /\ lastSaved[p] \in 0 .. MaxMessages
<1>1. saving[p] \in [to : 0 .. MaxSessions, left : Seq(Said), upTo : Nat]
  BY DEF SessionsInv, SavingTypeOK
<1>2. QED
  BY <1>1 DEF SessionsInv, SessionsTypeOK

LEMMA SessionTypes ==
  ASSUME SessionsInv, NEW s \in SessionIDs PROVE
    /\ lines[s] \in Seq(Said) /\ told[s] \in Seq(Said)
    /\ Len(lines[s]) \in Nat /\ Len(told[s]) \in Nat
    /\ messageCount \in 0 .. MaxMessages
  BY DEF SessionsInv, SessionsTypeOK

LEMMA InitSessions == SessionsInit => SessionsInv
<1> SUFFICES ASSUME SessionsInit PROVE SessionsInv
  OBVIOUS
<1>1. <<>> \in Seq(Said) /\ Len(<<>>) = 0
  OBVIOUS
<1>2. \A p \in Programs : saving[p] = NotSaving /\ current[p] = 0
  BY DEF SessionsInit
<1>3. NotSaving \in [to : 0 .. MaxSessions, left : Seq(Said), upTo : Nat] /\ NotSaving.to = 0
  BY <1>1 DEF NotSaving
<1>4. SessionsTypeOK /\ SavingTypeOK
  BY <1>1, <1>3 DEF SessionsInit, SessionsTypeOK, SavingTypeOK
<1>5. \A s \in SessionIDs : Begins(s)
  <2>1. ASSUME NEW s \in SessionIDs PROVE Begins(s)
    <3>1. lines[s] = <<>> /\ told[s] = <<>> /\ messageCount = 0
      BY DEF SessionsInit
    <3>2. QED
      BY <3>1, <1>1 DEF Begins
  <2>2. QED
    BY <2>1
<1>6. QED
  BY <1>2, <1>3, <1>4, <1>5 DEF SessionsInv, Apart, IdleSavesNothing, WritesTheRest, KnowsItsPlace
\* A program goes to a session nobody is in, with the lines of its file for its history.
LEMMA EnterSession ==
  ASSUME SessionsInv, NEW p \in Programs, NEW s \in SessionIDs, current[p] = 0,
         \A q \in Programs : current[q] # s /\ saving[q].to # s,
         Adopt(p, s, lines[s], Len(lines[s])),
         stored' \in SUBSET SessionIDs, told' = [told EXCEPT ![s] = lines[s]],
         UNCHANGED <<lines, saving, messageCount>>
  PROVE  SessionsInv'
<1>1. /\ lines[s] \in Seq(Said) /\ told[s] \in Seq(Said) /\ Len(lines[s]) \in Nat /\ Len(told[s]) \in Nat
      /\ messageCount \in 0 .. MaxMessages
  BY SessionTypes
<1>2. Len(lines[s]) <= Len(told[s]) /\ Len(told[s]) <= messageCount
  BY DEF SessionsInv, Begins
<1>3. Len(lines[s]) \in 0 .. MaxMessages
  BY <1>1, <1>2
<1>4. /\ current' = [current EXCEPT ![p] = s] /\ history' = [history EXCEPT ![p] = lines[s]]
      /\ lastSaved' = [lastSaved EXCEPT ![p] = Len(lines[s])]
  BY DEF Adopt
<1>5. /\ current \in [Programs -> 0 .. MaxSessions] /\ history \in [Programs -> Seq(Said)]
      /\ lastSaved \in [Programs -> 0 .. MaxMessages]
      /\ lines \in [SessionIDs -> Seq(Said)] /\ told \in [SessionIDs -> Seq(Said)]
  BY DEF SessionsInv, SessionsTypeOK
<1>6. /\ current'[p] = s /\ history'[p] = lines[s] /\ lastSaved'[p] = Len(lines[s])
      /\ \A q \in Programs \ {p} : current'[q] = current[q] /\ history'[q] = history[q] /\ lastSaved'[q] = lastSaved[q]
  BY <1>4, <1>5
<1>7. told'[s] = lines[s] /\ \A x \in SessionIDs \ {s} : told'[x] = told[x]
  BY <1>5
<1>8. saving[p] = NotSaving /\ saving[p].to = 0 /\ s # 0
  BY DEF SessionsInv, IdleSavesNothing, NotSaving
<1>9. SessionsTypeOK' /\ SavingTypeOK'
  <2>1. /\ current' \in [Programs -> 0 .. MaxSessions] /\ history' \in [Programs -> Seq(Said)]
        /\ lastSaved' \in [Programs -> 0 .. MaxMessages] /\ told' \in [SessionIDs -> Seq(Said)]
    BY <1>1, <1>3, <1>4, <1>5
  <2>2. QED
    BY <2>1 DEF SessionsInv, SessionsTypeOK, SavingTypeOK
<1>10. Apart'
  BY <1>6, <1>8 DEF SessionsInv, Apart
<1>11. IdleSavesNothing'
  BY <1>6, <1>8 DEF SessionsInv, IdleSavesNothing
<1>12. ASSUME NEW x \in SessionIDs PROVE Begins(x)'
  <2>1. CASE x = s
    BY <2>1, <1>1, <1>2, <1>7 DEF Begins
  <2>2. CASE x # s
    BY <2>2, <1>7 DEF SessionsInv, Begins
  <2>3. QED
    BY <2>1, <2>2
<1>13. ASSUME NEW q \in Programs, saving[q].to # 0 PROVE LeftToWrite(saving[q])'
  <2>1. saving[q].to \in SessionIDs \ {s}
    BY <1>13, Places, Zenon
  <2>2. LeftToWrite(saving[q])
    BY <1>13 DEF SessionsInv, WritesTheRest
  <2>3. QED
    BY <2>1, <2>2, <1>7 DEF LeftToWrite
<1>14. ASSUME NEW q \in Programs, current'[q] # 0
       PROVE  /\ history'[q] = told'[current'[q]]
              /\ saving'[q].to # current'[q] => lastSaved'[q] = Len(lines'[current'[q]])
  <2>1. CASE q = p
    BY <2>1, <1>6, <1>7
  <2>2. CASE q # p
    <3>1. current[q] # 0 /\ current'[q] = current[q] /\ current[q] \in SessionIDs \ {s}
      BY <2>2, <1>14, <1>6, Places, Zenon
    <3>2. QED
      BY <2>2, <3>1, <1>6, <1>7 DEF SessionsInv, KnowsItsPlace
  <2>3. QED
    BY <2>1, <2>2
<1>15. QED
  BY <1>9, <1>10, <1>11, <1>12, <1>13, <1>14 DEF SessionsInv, WritesTheRest, KnowsItsPlace

LEMMA CreateSessionKeeps ==
  ASSUME SessionsInv, NEW p \in Programs, NEW s \in SessionIDs, CreateSession(p, s) PROVE SessionsInv'
<1>1. lines[s] = <<>> /\ told[s] = <<>> /\ Len(<<>>) = 0
  BY DEF CreateSession, Fresh
<1>2. told' = [told EXCEPT ![s] = lines[s]]
  BY <1>1 DEF CreateSession, SessionsInv, SessionsTypeOK
<1>3. Adopt(p, s, lines[s], Len(lines[s])) /\ stored' \in SUBSET SessionIDs
  BY <1>1 DEF CreateSession, SessionsInv, SessionsTypeOK
<1>4. QED
  BY <1>2, <1>3, EnterSession DEF CreateSession, Fresh

LEMMA ResumeKeeps ==
  ASSUME SessionsInv, NEW p \in Programs, NEW s \in SessionIDs, Resume(p, s) PROVE SessionsInv'
<1>1. stored' \in SUBSET SessionIDs
  BY DEF Resume, SessionsInv, SessionsTypeOK
<1>2. QED
  BY <1>1, EnterSession DEF Resume

LEMMA SayKeeps ==
  ASSUME SessionsInv, NEW p \in Programs, Say(p) PROVE SessionsInv'
<1> DEFINE s == current[p]
           m == messageCount + 1
<1>1. s \in SessionIDs /\ s # 0 /\ saving[p].to = 0
  BY SavingTypes DEF Say, Resting, NotSaving
<1>2. /\ lines[s] \in Seq(Said) /\ told[s] \in Seq(Said) /\ Len(lines[s]) \in Nat /\ Len(told[s]) \in Nat
      /\ messageCount \in 0 .. MaxMessages
  BY <1>1, SessionTypes
<1>3. m \in Said /\ messageCount' = m /\ m \in 0 .. MaxMessages /\ history[p] = told[s]
  BY <1>1, <1>2 DEF Say, Said, SessionsInv, KnowsItsPlace
<1>4. /\ Append(told[s], m) \in Seq(Said) /\ Len(Append(told[s], m)) = Len(told[s]) + 1
      /\ \A i \in 1 .. Len(told[s]) : Append(told[s], m)[i] = told[s][i]
  BY <1>2, <1>3
<1>5. /\ history' = [history EXCEPT ![p] = Append(told[s], m)] /\ told' = [told EXCEPT ![s] = Append(told[s], m)]
      /\ UNCHANGED <<stored, lines, current, lastSaved, saving>>
  BY <1>3 DEF Say
<1>6. /\ history \in [Programs -> Seq(Said)] /\ told \in [SessionIDs -> Seq(Said)]
  BY DEF SessionsInv, SessionsTypeOK
<1> HIDE DEF m
<1>7. /\ told'[s] = Append(told[s], m) /\ \A x \in SessionIDs \ {s} : told'[x] = told[x]
      /\ history'[p] = Append(told[s], m) /\ \A q \in Programs \ {p} : history'[q] = history[q]
  BY <1>1, <1>5, <1>6
<1>8. \A q \in Programs \ {p} : current[q] # s /\ saving[q].to # s
  BY <1>1 DEF SessionsInv, Apart
<1> HIDE DEF s
<1>9. SessionsTypeOK' /\ SavingTypeOK'
  BY <1>3, <1>4, <1>5, <1>6 DEF SessionsInv, SessionsTypeOK, SavingTypeOK
<1>10. Apart' /\ IdleSavesNothing'
  BY <1>5 DEF SessionsInv, Apart, IdleSavesNothing
<1>11. ASSUME NEW x \in SessionIDs PROVE Begins(x)'
  <2>1. Begins(x) /\ Len(told[x]) \in Nat /\ Len(lines[x]) \in Nat /\ m = messageCount + 1
    BY SessionTypes DEF SessionsInv, m
  <2>2. CASE x = s
    <3>1. Len(told'[x]) = Len(told[x]) + 1 /\ \A i \in 1 .. Len(told[x]) : told'[x][i] = told[x][i]
      BY <2>2, <1>4, <1>7
    <3>2. lines'[x] = lines[x] /\ messageCount' = messageCount + 1
      BY <1>5, <1>3, <2>1
    <3>3. QED
      BY <2>1, <3>1, <3>2, <1>2 DEF Begins
  <2>3. CASE x # s
    BY <2>3, <2>1, <1>2, <1>3, <1>5, <1>7 DEF Begins
  <2>4. QED
    BY <2>2, <2>3
<1>12. ASSUME NEW q \in Programs, saving[q].to # 0 PROVE LeftToWrite(saving[q])'
  <2>1. saving[q].to \in SessionIDs \ {s}
    BY <1>12, <1>1, <1>8, Places, Zenon
  <2>2. LeftToWrite(saving[q])
    BY <1>12 DEF SessionsInv, WritesTheRest
  <2>3. QED
    BY <2>1, <2>2, <1>5, <1>7 DEF LeftToWrite
<1>13. ASSUME NEW q \in Programs, current[q] # 0
       PROVE  /\ history'[q] = told'[current[q]]
              /\ saving[q].to # current[q] => lastSaved[q] = Len(lines[current[q]])
  <2>1. CASE q = p
    BY <2>1, <1>13, <1>7 DEF SessionsInv, KnowsItsPlace, s
  <2>2. CASE q # p
    <3>1. current[q] \in SessionIDs \ {s}
      BY <2>2, <1>13, <1>8, Places, Zenon
    <3>2. QED
      BY <2>2, <3>1, <1>13, <1>7 DEF SessionsInv, KnowsItsPlace
  <2>3. QED
    BY <2>1, <2>2
<1>14. QED
  BY <1>5, <1>9, <1>10, <1>11, <1>12, <1>13 DEF SessionsInv, WritesTheRest, KnowsItsPlace
\* Where only what a program writes changes, what remains is to be shown of that.
LEMMA SavingChanges ==
  ASSUME SessionsInv, NEW p \in Programs, NEW r \in [to : 0 .. MaxSessions, left : Seq(Said), upTo : Nat],
         saving' = [saving EXCEPT ![p] = r]
  PROVE  /\ SavingTypeOK'
         /\ saving'[p] = r /\ \A q \in Programs \ {p} : saving'[q] = saving[q]
  BY DEF SessionsInv, SavingTypeOK

LEMMA AppendMessagesKeeps ==
  ASSUME SessionsInv, NEW p \in Programs, AppendMessages(p) PROVE SessionsInv'
<1> DEFINE s == current[p]
           n == Len(history[p])
           r == [to |-> s, upTo |-> n, left |-> SubSeq(history[p], lastSaved[p] + 1, n)]
<1>1. s # 0 /\ s \in SessionIDs /\ saving[p].to = 0 /\ saving' = [saving EXCEPT ![p] = r]
  BY Places DEF AppendMessages, Resting, NotSaving
<1>2. /\ lines[s] \in Seq(Said) /\ told[s] \in Seq(Said) /\ Len(lines[s]) \in Nat /\ Len(told[s]) \in Nat
  BY <1>1, SessionTypes
<1>3. history[p] = told[s] /\ lastSaved[p] = Len(lines[s]) /\ n = Len(told[s])
  BY <1>1 DEF SessionsInv, KnowsItsPlace
<1>4. Len(lines[s]) <= Len(told[s])
  BY <1>1 DEF SessionsInv, Begins
<1>5. r.to = s /\ r.upTo = Len(told[s]) /\ r.left = SubSeq(told[s], Len(lines[s]) + 1, Len(told[s]))
  BY <1>3
<1>6. /\ r.left \in Seq(Said) /\ Len(r.left) = Len(told[s]) - Len(lines[s])
      /\ \A i \in 1 .. Len(r.left) : r.left[i] = told[s][Len(lines[s]) + i]
  <2> HIDE DEF r, s
  <2>1. Len(lines[s]) + 1 \in 1 .. Len(told[s]) + 1 /\ Len(told[s]) \in 0 .. Len(told[s])
    BY <1>2, <1>4
  <2>2. SubSeq(told[s], Len(lines[s]) + 1, Len(told[s])) \in Seq(Said)
    BY <1>2, <2>1
  <2>3. Len(SubSeq(told[s], Len(lines[s]) + 1, Len(told[s]))) = Len(told[s]) - Len(lines[s])
    <3> DEFINE a == Len(lines[s])
               b == Len(told[s])
    <3>1. a \in Nat /\ b \in Nat /\ a <= b /\ told[s] \in Seq(Said)
      BY <1>2, <1>4
    <3> HIDE DEF a, b
    <3>2. a + 1 \in 1 .. b + 1 /\ b \in a .. b /\ (a + 1 <= b + 1)
      BY <3>1
    <3>3. Len(SubSeq(told[s], a + 1, b)) = IF a + 1 <= b THEN b - (a + 1) + 1 ELSE 0
      BY <3>1, <3>2, SubSeqProperties DEF b
    <3>4. Len(SubSeq(told[s], a + 1, b)) = b - a
      BY <3>1, <3>3
    <3>5. QED
      BY <3>4 DEF a, b
  <2>4. \A i \in 1 .. Len(told[s]) - Len(lines[s]) :
          SubSeq(told[s], Len(lines[s]) + 1, Len(told[s]))[i] = told[s][Len(lines[s]) + i]
    BY <1>2, <2>1, <1>4
  <2>5. QED
    BY <1>5, <2>2, <2>3, <2>4
<1>7. r \in [to : 0 .. MaxSessions, left : Seq(Said), upTo : Nat]
  BY <1>1, <1>2, <1>3, <1>6
<1> HIDE DEF r
<1>8. SavingTypeOK' /\ saving'[p] = r /\ \A q \in Programs \ {p} : saving'[q] = saving[q]
  BY <1>1, <1>7, SavingChanges
<1>9. UNCHANGED <<stored, lines, current, history, lastSaved, told, messageCount>>
  BY DEF AppendMessages
<1>10. \A q \in Programs \ {p} : current[q] # s /\ saving[q].to # s
  BY <1>1 DEF SessionsInv, Apart
<1>11. Apart' /\ IdleSavesNothing'
  BY <1>1, <1>5, <1>8, <1>9, <1>10 DEF SessionsInv, Apart, IdleSavesNothing
<1>12. \A q \in Programs : saving'[q].to # 0 => LeftToWrite(saving'[q])
  <2>1. Len(told[s]) = Len(lines[s]) + (Len(told[s]) - Len(lines[s]))
    BY <1>2
  <2>2. LeftToWrite(r)
    BY <1>5, <1>6, <2>1 DEF LeftToWrite
  <2>3. QED
    BY <2>2, <1>8 DEF SessionsInv, WritesTheRest
<1>13. WritesTheRest'
  BY <1>9, <1>12 DEF WritesTheRest, LeftToWrite
<1>14. KnowsItsPlace'
  BY <1>5, <1>8, <1>9 DEF SessionsInv, KnowsItsPlace
<1>15. QED
  BY <1>8, <1>9, <1>11, <1>13, <1>14 DEF SessionsInv, SessionsTypeOK, Begins

LEMMA WriteLineKeeps ==
  ASSUME SessionsInv, NEW p \in Programs, WriteLine(p) PROVE SessionsInv'
<1> DEFINE s == saving[p].to
           r == [to |-> s, upTo |-> saving[p].upTo, left |-> Tail(saving[p].left)]
<1>1. s # 0
  <2>1. NotSaving.left = <<>>
    BY DEF NotSaving
  <2>2. QED
    BY <2>1 DEF WriteLine, SessionsInv, IdleSavesNothing
<1>2. s \in SessionIDs /\ LeftToWrite(saving[p]) /\ Begins(s)
  BY <1>1, Places DEF SessionsInv, WritesTheRest
<1>3. /\ lines[s] \in Seq(Said) /\ told[s] \in Seq(Said) /\ Len(lines[s]) \in Nat /\ Len(told[s]) \in Nat
  BY <1>2, SessionTypes
<1>4. /\ saving[p].left \in Seq(Said) /\ saving[p].left # <<>> /\ saving[p].upTo \in Nat
      /\ saving[p] = [to |-> s, left |-> saving[p].left, upTo |-> saving[p].upTo]
  BY SavingTypes DEF WriteLine
<1> DEFINE left == saving[p].left
<1>5. /\ Len(left) \in Nat \ {0} /\ Head(left) = left[1] /\ Head(left) \in Said
      /\ Tail(left) \in Seq(Said) /\ Len(Tail(left)) = Len(left) - 1
      /\ \A i \in 1 .. Len(left) - 1 : Tail(left)[i] = left[i + 1]
  <2> HIDE DEF left
  <2>1. left \in Seq(Said) /\ left # <<>>
    BY <1>4 DEF left
  <2>2. QED
    BY <2>1
<1>6. saving' = [saving EXCEPT ![p] = r]
  <2> HIDE DEF s
  <2>0. \A v \in [to : 0 .. MaxSessions, left : Seq(Said), upTo : Nat], d \in Seq(Said) :
          [v EXCEPT !.left = d] = [to |-> v.to, upTo |-> v.upTo, left |-> d]
    OBVIOUS
  <2>1. [saving[p] EXCEPT !.left = Tail(saving[p].left)] = r
    <3>1. saving[p] \in [to : 0 .. MaxSessions, left : Seq(Said), upTo : Nat] /\ Tail(saving[p].left) \in Seq(Said)
      BY <1>5 DEF SessionsInv, SavingTypeOK
    <3>2. QED
      BY <2>0, <3>1, Zenon DEF s
  <2>2. saving' = [saving EXCEPT ![p] = [saving[p] EXCEPT !.left = Tail(saving[p].left)]]
    BY DEF WriteLine
  <2>3. QED
    BY <2>1, <2>2
<1>7. r \in [to : 0 .. MaxSessions, left : Seq(Said), upTo : Nat] /\ r.to = s /\ r.left = Tail(left) /\ r.upTo = saving[p].upTo
  BY <1>2, <1>4, <1>5
<1> HIDE DEF r
<1>8. SavingTypeOK' /\ saving'[p] = r /\ \A q \in Programs \ {p} : saving'[q] = saving[q]
  BY <1>6, <1>7, SavingChanges
<1> DEFINE longer == Append(lines[s], Head(left))
<1>9. lines' = [lines EXCEPT ![s] = longer] /\ UNCHANGED <<stored, current, history, lastSaved, told, messageCount>>
  BY DEF WriteLine
<1> HIDE DEF left, s
<1>10. /\ longer \in Seq(Said) /\ Len(longer) = Len(lines[s]) + 1 /\ longer[Len(lines[s]) + 1] = Head(left)
       /\ \A i \in 1 .. Len(lines[s]) : longer[i] = lines[s][i]
  BY <1>3, <1>5
<1> HIDE DEF longer
<1>11. lines' \in [SessionIDs -> Seq(Said)] /\ lines'[s] = longer /\ \A x \in SessionIDs \ {s} : lines'[x] = lines[x]
  BY <1>2, <1>9, <1>10 DEF SessionsInv, SessionsTypeOK
<1>12. /\ Len(told[s]) = Len(lines[s]) + Len(left) /\ saving[p].upTo = Len(told[s])
       /\ \A i \in 1 .. Len(left) : left[i] = told[s][Len(lines[s]) + i]
  BY <1>2 DEF LeftToWrite, left, s
<1>13. Head(left) = told[s][Len(lines[s]) + 1]
  BY <1>5, <1>12
<1>14. \A q \in Programs \ {p} : current[q] # s /\ saving[q].to # s
  BY <1>1 DEF SessionsInv, Apart, s
<1>15. Apart'
  BY <1>7, <1>8, <1>9, <1>14 DEF SessionsInv, Apart, s
<1>16. IdleSavesNothing'
  <2>1. current[p] # 0
    BY <1>1 DEF SessionsInv, IdleSavesNothing, NotSaving, s
  <2>2. QED
    BY <2>1, <1>1, <1>7, <1>8, <1>9 DEF SessionsInv, IdleSavesNothing
<1>17. ASSUME NEW x \in SessionIDs PROVE Begins(x)'
  <2>1. CASE x = s
    <3>1. Len(lines'[x]) = Len(lines[s]) + 1 /\ told'[x] = told[s] /\ messageCount' = messageCount
      BY <2>1, <1>9, <1>10, <1>11
    <3>2. \A i \in 1 .. Len(lines[s]) : lines'[x][i] = told[s][i]
      BY <2>1, <1>2, <1>10, <1>11 DEF Begins, s
    <3>3. lines'[x][Len(lines[s]) + 1] = told[s][Len(lines[s]) + 1]
      BY <2>1, <1>10, <1>11, <1>13
    <3>4. Len(lines[s]) + 1 <= Len(told[s])
      BY <1>3, <1>5, <1>12
    <3>5. \A i \in 1 .. Len(lines[s]) + 1 : lines'[x][i] = told[s][i]
      <4>1. \A i \in 1 .. Len(lines[s]) + 1 : i \in 1 .. Len(lines[s]) \/ i = Len(lines[s]) + 1
        BY <1>3
      <4>2. QED
        BY <3>2, <3>3, <4>1
    <3>6. QED
      BY <3>1, <3>4, <3>5, <2>1, <1>2 DEF Begins, s
  <2>2. CASE x # s
    BY <2>2, <1>9, <1>11 DEF SessionsInv, Begins
  <2>3. QED
    BY <2>1, <2>2
<1>18. ASSUME NEW q \in Programs, saving'[q].to # 0 PROVE LeftToWrite(saving[q])'
  <2>1. CASE q = p
    <3>1. Len(told[s]) = Len(lines[s]) + 1 + (Len(left) - 1)
      BY <1>3, <1>5, <1>12
    <3>2. \A i \in 1 .. Len(left) - 1 : Tail(left)[i] = told[s][Len(lines[s]) + 1 + i]
      <4>1. ASSUME NEW i \in 1 .. Len(left) - 1 PROVE Tail(left)[i] = told[s][Len(lines[s]) + 1 + i]
        <5>1. i + 1 \in 1 .. Len(left) /\ Len(lines[s]) + (i + 1) = Len(lines[s]) + 1 + i
          <6>1. Len(left) \in Nat /\ Len(lines[s]) \in Nat /\ i \in 1 .. Len(left) - 1
            BY <1>3, <1>5
          <6>2. i \in Nat /\ i + 1 <= Len(left)
            BY <6>1
          <6>3. i + 1 \in 1 .. Len(left)
            BY <6>1, <6>2
          <6>4. \A x, y \in Nat : x + (y + 1) = x + 1 + y
            OBVIOUS
          <6>5. QED
            BY <6>1, <6>2, <6>3, <6>4
        <5>2. left[i + 1] = told[s][Len(lines[s]) + (i + 1)]
          BY <5>1, <1>12
        <5>3. QED
          BY <5>1, <5>2, <1>5
      <4>2. QED
        BY <4>1
    <3>3. saving'[q] = r /\ told' = told /\ Len(lines'[s]) = Len(lines[s]) + 1
      BY <2>1, <1>8, <1>9, <1>10, <1>11
    <3>4. QED
      BY <3>1, <3>2, <3>3, <1>5, <1>7, <1>12 DEF LeftToWrite
  <2>2. CASE q # p
    <3>1. saving'[q] = saving[q] /\ saving[q].to \in SessionIDs \ {s}
      BY <2>2, <1>18, <1>8, <1>14, Places, Zenon
    <3>2. LeftToWrite(saving[q])
      BY <3>1, <1>18 DEF SessionsInv, WritesTheRest
    <3>3. QED
      BY <3>1, <3>2, <1>9, <1>11 DEF LeftToWrite
  <2>3. QED
    BY <2>1, <2>2
<1>19. ASSUME NEW q \in Programs, current[q] # 0
       PROVE  /\ history[q] = told[current[q]]
              /\ saving'[q].to # current[q] => lastSaved[q] = Len(lines'[current[q]])
  <2>1. history[q] = told[current[q]] /\ (saving[q].to # current[q] => lastSaved[q] = Len(lines[current[q]]))
    BY <1>19 DEF SessionsInv, KnowsItsPlace
  <2>2. saving'[q].to = saving[q].to /\ current[q] \in SessionIDs
    BY <1>7, <1>8, <1>19, Places DEF s
  <2>3. saving[q].to # current[q] => current[q] # s
    BY <1>14 DEF s
  <2>4. QED
    BY <2>1, <2>2, <2>3, <1>11
<1>20. QED
  BY <1>8, <1>9, <1>11, <1>15, <1>16, <1>17, <1>18, <1>19 DEF SessionsInv, SessionsTypeOK, WritesTheRest, KnowsItsPlace
\* A program stops writing: it is where it was, elsewhere, or nowhere.
LEMMA NotSavingTypes ==
  /\ NotSaving \in [to : 0 .. MaxSessions, left : Seq(Said), upTo : Nat]
  /\ NotSaving.to = 0 /\ NotSaving.left = <<>> /\ NotSaving.upTo = 0
  BY DEF NotSaving

\* What is written when nothing is left to write.
LEMMA AllWritten ==
  ASSUME SessionsInv, NEW p \in Programs, saving[p].to # 0, saving[p].left = <<>>
  PROVE  /\ saving[p].to \in SessionIDs
         /\ saving[p].upTo = Len(lines[saving[p].to]) /\ saving[p].upTo \in 0 .. MaxMessages
         /\ told[saving[p].to] = lines[saving[p].to]
<1> DEFINE s == saving[p].to
<1>1. s \in SessionIDs /\ LeftToWrite(saving[p]) /\ Begins(s)
  BY Places DEF SessionsInv, WritesTheRest
<1>2. /\ lines[s] \in Seq(Said) /\ told[s] \in Seq(Said) /\ Len(lines[s]) \in Nat /\ Len(told[s]) \in Nat
      /\ messageCount \in 0 .. MaxMessages
  BY <1>1, SessionTypes
<1>3. Len(saving[p].left) = 0
  OBVIOUS
<1>4. Len(told[s]) = Len(lines[s]) /\ saving[p].upTo = Len(told[s])
  BY <1>1, <1>2, <1>3 DEF LeftToWrite
<1>5. \A i \in 1 .. Len(lines[s]) : lines[s][i] = told[s][i]
  BY <1>1 DEF Begins
<1> HIDE DEF s
<1>6. lines[s] = told[s]
  BY <1>2, <1>4, <1>5, SeqEqual
<1>7. Len(told[s]) <= messageCount
  BY <1>1 DEF Begins
<1>8. QED
  BY <1>1, <1>2, <1>4, <1>6, <1>7 DEF s

LEMMA AppendDoneKeeps ==
  ASSUME SessionsInv, NEW p \in Programs, AppendDone(p) PROVE SessionsInv'
<1> DEFINE s == current[p]
<1>1. s # 0 /\ s \in SessionIDs /\ saving[p].to = s
  BY Places DEF AppendDone
<1>2. /\ saving[p].upTo = Len(lines[s]) /\ saving[p].upTo \in 0 .. MaxMessages
  BY <1>1, AllWritten DEF AppendDone
<1>3. /\ saving' = [saving EXCEPT ![p] = NotSaving] /\ lastSaved' = [lastSaved EXCEPT ![p] = saving[p].upTo]
      /\ UNCHANGED <<lines, current, history, told, messageCount>>
  BY DEF AppendDone
<1>4. SavingTypeOK' /\ saving'[p] = NotSaving /\ \A q \in Programs \ {p} : saving'[q] = saving[q]
  BY <1>3, SavingChanges, NotSavingTypes
<1>5. SessionsTypeOK'
  BY <1>1, <1>2, <1>3 DEF AppendDone, SessionsInv, SessionsTypeOK
<1>6. Apart' /\ IdleSavesNothing'
  BY <1>3, <1>4, NotSavingTypes DEF SessionsInv, Apart, IdleSavesNothing
<1>7. \A x \in SessionIDs : Begins(x)'
  BY <1>3 DEF SessionsInv, Begins
<1>8. WritesTheRest'
  <2> SUFFICES ASSUME NEW q \in Programs, saving'[q].to # 0 PROVE LeftToWrite(saving[q])'
    BY DEF WritesTheRest
  <2>1. q # p
    BY <1>4, NotSavingTypes
  <2>2. saving'[q] = saving[q] /\ UNCHANGED <<told, lines>>
    BY <1>3, <1>4, <2>1
  <2>3. LeftToWrite(saving[q])
    BY <2>2 DEF SessionsInv, WritesTheRest
  <2>4. QED
    BY <2>2, <2>3 DEF LeftToWrite
<1>9. KnowsItsPlace'
  <2>1. lastSaved'[p] = Len(lines[s]) /\ \A q \in Programs \ {p} : lastSaved'[q] = lastSaved[q]
    BY <1>2, <1>3 DEF SessionsInv, SessionsTypeOK
  <2>2. QED
    BY <1>3, <1>4, <2>1 DEF SessionsInv, KnowsItsPlace
<1>10. QED
  BY <1>4, <1>5, <1>6, <1>7, <1>8, <1>9 DEF SessionsInv

LEMMA ForkKeeps ==
  ASSUME SessionsInv, NEW p \in Programs, NEW s \in SessionIDs, Fork(p, s) PROVE SessionsInv'
<1> DEFINE c == current[p]
           r == [to |-> s, left |-> lines[c], upTo |-> Len(lines[c])]
<1>1. c # 0 /\ c \in SessionIDs /\ saving[p].to = 0 /\ s # 0 /\ c # s
  BY Places DEF Fork, Fresh, Resting, NotSaving
<1>2. lines[s] = <<>> /\ \A q \in Programs : current[q] # s /\ saving[q].to # s
  BY DEF Fork, Fresh
<1>3. /\ lines[c] \in Seq(Said) /\ Len(lines[c]) \in Nat /\ Len(told[c]) \in Nat /\ messageCount \in 0 .. MaxMessages
      /\ Len(lines[c]) <= Len(told[c]) /\ Len(told[c]) <= messageCount
  BY <1>1, SessionTypes DEF SessionsInv, Begins
<1>4. /\ saving' = [saving EXCEPT ![p] = r] /\ told' = [told EXCEPT ![s] = lines[c]]
      /\ UNCHANGED <<lines, current, history, lastSaved, messageCount>>
  BY DEF Fork
<1>5. r \in [to : 0 .. MaxSessions, left : Seq(Said), upTo : Nat] /\ r.to = s /\ r.left = lines[c] /\ r.upTo = Len(lines[c])
  BY <1>3
<1> HIDE DEF r, c
<1>6. SavingTypeOK' /\ saving'[p] = r /\ \A q \in Programs \ {p} : saving'[q] = saving[q]
  BY <1>4, <1>5, SavingChanges
<1>7. /\ told' \in [SessionIDs -> Seq(Said)]
      /\ told'[s] = lines[c] /\ \A x \in SessionIDs \ {s} : told'[x] = told[x]
  BY <1>3, <1>4 DEF SessionsInv, SessionsTypeOK
<1>8. SessionsTypeOK'
  BY <1>4, <1>7 DEF Fork, SessionsInv, SessionsTypeOK
<1>9. Apart' /\ IdleSavesNothing'
  BY <1>1, <1>2, <1>4, <1>5, <1>6 DEF SessionsInv, Apart, IdleSavesNothing, c
<1>10. ASSUME NEW x \in SessionIDs PROVE Begins(x)'
  <2>1. CASE x = s
    <3>1. Len(lines[s]) = 0
      BY <1>2
    <3>2. QED
      BY <2>1, <3>1, <1>3, <1>4, <1>7 DEF Begins
  <2>2. CASE x # s
    BY <2>2, <1>4, <1>7 DEF SessionsInv, Begins
  <2>3. QED
    BY <2>1, <2>2
<1>11. ASSUME NEW q \in Programs, saving'[q].to # 0 PROVE LeftToWrite(saving[q])'
  <2>1. CASE q = p
    <3>1. Len(lines[s]) = 0 /\ lines' = lines /\ saving'[q] = r
      BY <2>1, <1>2, <1>4, <1>6
    <3>2. \A i \in 1 .. Len(lines[c]) : 0 + i = i
      BY <1>3
    <3>3. Len(lines[c]) = 0 + Len(lines[c])
      BY <1>3
    <3>4. QED
      BY <3>1, <3>2, <3>3, <1>5, <1>7 DEF LeftToWrite
  <2>2. CASE q # p
    <3>1. saving'[q] = saving[q] /\ saving[q].to \in SessionIDs \ {s}
      BY <2>2, <1>11, <1>6, <1>2, Places, Zenon
    <3>2. LeftToWrite(saving[q])
      BY <3>1, <1>11 DEF SessionsInv, WritesTheRest
    <3>3. QED
      BY <3>1, <3>2, <1>4, <1>7 DEF LeftToWrite
  <2>3. QED
    BY <2>1, <2>2
<1>12. ASSUME NEW q \in Programs, current[q] # 0
       PROVE  /\ history[q] = told'[current[q]]
              /\ saving'[q].to # current[q] => lastSaved[q] = Len(lines[current[q]])
  <2>1. current[q] \in SessionIDs \ {s}
    BY <1>12, <1>2, Places, Zenon
  <2>2. history[q] = told[current[q]] /\ (saving[q].to # current[q] => lastSaved[q] = Len(lines[current[q]]))
    BY <1>12 DEF SessionsInv, KnowsItsPlace
  <2>3. q = p => saving[q].to # current[q]
    BY <1>1 DEF c
  <2>4. QED
    BY <2>1, <2>2, <2>3, <1>6, <1>7
<1>13. QED
  BY <1>4, <1>6, <1>8, <1>9, <1>10, <1>11, <1>12 DEF SessionsInv, WritesTheRest, KnowsItsPlace

\* A program that rests goes where it has written, or ends.
LEMMA LeaveKeeps ==
  ASSUME SessionsInv, NEW p \in Programs, NEW s \in 0 .. MaxSessions, NEW said \in Seq(Said), NEW n \in 0 .. MaxMessages,
         s # 0 => s = saving[p].to /\ said = told[s] /\ n = Len(lines[s]),
         Adopt(p, s, said, n), saving' = [saving EXCEPT ![p] = NotSaving],
         UNCHANGED <<stored, lines, told, messageCount>>
  PROVE  SessionsInv'
<1>1. SavingTypeOK' /\ saving'[p] = NotSaving /\ \A q \in Programs \ {p} : saving'[q] = saving[q]
  BY SavingChanges, NotSavingTypes
<1>2. SessionsTypeOK'
  BY DEF Adopt, SessionsInv, SessionsTypeOK
<1>3. /\ current'[p] = s /\ history'[p] = said /\ lastSaved'[p] = n
      /\ \A q \in Programs \ {p} : current'[q] = current[q] /\ history'[q] = history[q] /\ lastSaved'[q] = lastSaved[q]
  BY DEF Adopt, SessionsInv, SessionsTypeOK
<1>4. s # 0 => \A q \in Programs \ {p} : current[q] # s /\ saving[q].to # s
  BY DEF SessionsInv, Apart
<1>5. Apart'
  BY <1>1, <1>3, <1>4, NotSavingTypes DEF SessionsInv, Apart
<1>6. IdleSavesNothing'
  BY <1>1, <1>3 DEF SessionsInv, IdleSavesNothing
<1>7. /\ \A x \in SessionIDs : Begins(x)'
      /\ WritesTheRest'
  <2>1. \A x \in SessionIDs : Begins(x)'
    BY DEF SessionsInv, Begins
  <2>2. ASSUME NEW q \in Programs, saving'[q].to # 0 PROVE LeftToWrite(saving[q])'
    <3>1. saving'[q] = saving[q]
      BY <2>2, <1>1, NotSavingTypes
    <3>2. LeftToWrite(saving[q])
      BY <2>2, <3>1 DEF SessionsInv, WritesTheRest
    <3>3. QED
      BY <3>1, <3>2 DEF LeftToWrite
  <2>3. QED
    BY <2>1, <2>2 DEF WritesTheRest
<1>8. KnowsItsPlace'
  BY <1>1, <1>3, NotSavingTypes DEF SessionsInv, KnowsItsPlace
<1>9. QED
  BY <1>1, <1>2, <1>5, <1>6, <1>7, <1>8 DEF SessionsInv

LEMMA ForkDoneKeeps ==
  ASSUME SessionsInv, NEW p \in Programs, ForkDone(p) PROVE SessionsInv'
<1> DEFINE s == saving[p].to
<1>1. /\ s \in SessionIDs /\ told[s] = lines[s]
      /\ saving[p].upTo = Len(lines[s]) /\ saving[p].upTo \in 0 .. MaxMessages
  BY AllWritten DEF ForkDone
<1>2. lines[s] \in Seq(Said) /\ s \in 0 .. MaxSessions
  BY <1>1, SessionTypes
<1>3. QED
  BY <1>1, <1>2, LeaveKeeps DEF ForkDone

LEMMA ExitKeeps ==
  ASSUME SessionsInv, NEW p \in Programs, Exit(p) PROVE SessionsInv'
<1>1. <<>> \in Seq(Said) /\ 0 \in 0 .. MaxSessions /\ 0 \in 0 .. MaxMessages
  OBVIOUS
<1>2. QED
  BY <1>1, LeaveKeeps DEF Exit

LEMMA DeleteSessionKeeps ==
  ASSUME SessionsInv, NEW s \in SessionIDs, DeleteSession(s) PROVE SessionsInv'
<1>1. <<>> \in Seq(Said) /\ Len(<<>>) = 0
  OBVIOUS
<1>2. /\ lines' = [lines EXCEPT ![s] = <<>>] /\ stored' = stored \ {s}
      /\ UNCHANGED <<current, history, lastSaved, saving, told, messageCount>>
      /\ \A q \in Programs : current[q] # s /\ saving[q].to # s
  BY DEF DeleteSession
<1>3. lines' \in [SessionIDs -> Seq(Said)] /\ lines'[s] = <<>> /\ \A x \in SessionIDs \ {s} : lines'[x] = lines[x]
  BY <1>1, <1>2 DEF SessionsInv, SessionsTypeOK
<1>4. SessionsTypeOK' /\ SavingTypeOK' /\ Apart' /\ IdleSavesNothing'
  BY <1>2, <1>3 DEF SessionsInv, SessionsTypeOK, SavingTypeOK, Apart, IdleSavesNothing
<1>5. ASSUME NEW x \in SessionIDs PROVE Begins(x)'
  <2>1. Begins(x) /\ Len(told[x]) \in Nat /\ lines[x] \in Seq(Said)
    BY SessionTypes DEF SessionsInv
  <2>2. QED
    BY <2>1, <1>1, <1>2, <1>3 DEF Begins
<1>6. ASSUME NEW q \in Programs, saving[q].to # 0 PROVE LeftToWrite(saving[q])'
  <2>1. saving[q].to \in SessionIDs \ {s} /\ LeftToWrite(saving[q])
    BY <1>2, <1>6, Places, Zenon DEF SessionsInv, WritesTheRest
  <2>2. QED
    BY <2>1, <1>2, <1>3 DEF LeftToWrite
<1>7. ASSUME NEW q \in Programs, current[q] # 0
      PROVE  /\ history[q] = told[current[q]]
             /\ saving[q].to # current[q] => lastSaved[q] = Len(lines'[current[q]])
  <2>1. current[q] \in SessionIDs \ {s}
    BY <1>2, <1>7, Places, Zenon
  <2>2. QED
    BY <2>1, <1>3, <1>7 DEF SessionsInv, KnowsItsPlace
<1>8. QED
  BY <1>2, <1>4, <1>5, <1>6, <1>7 DEF SessionsInv, WritesTheRest, KnowsItsPlace

LEMMA NextSessions == SessionsInv /\ [SessionsNext]_sessionsVars => SessionsInv'
<1> SUFFICES ASSUME SessionsInv, [SessionsNext]_sessionsVars PROVE SessionsInv'
  OBVIOUS
<1>1. CASE UNCHANGED sessionsVars
  BY <1>1 DEF sessionsVars, SessionsInv, SessionsTypeOK, SavingTypeOK, Apart, IdleSavesNothing, Begins, WritesTheRest, LeftToWrite,
              KnowsItsPlace
<1>2. QED
  BY <1>1, CreateSessionKeeps, ResumeKeeps, ForkKeeps, SayKeeps, AppendMessagesKeeps, WriteLineKeeps, AppendDoneKeeps,
     ForkDoneKeeps, ExitKeeps, DeleteSessionKeeps DEF SessionsNext

\* The file of a session holds the beginning of its conversation, whatever the
\* programs were doing when they ended, and a program that is not writing to its
\* session knows how much of it is there, so that no message is written twice or
\* left out (manager.go:58-208).
THEOREM FilesFollow == SessionsSpec => []FilesFollowConversations
<1>1. SessionsInv => FilesFollowConversations
  <2> SUFFICES ASSUME SessionsInv PROVE FilesFollowConversations
    OBVIOUS
  <2>1. ASSUME NEW s \in SessionIDs PROVE IsPrefix(lines[s], told[s])
    <3>1. lines[s] \in Seq(Said) /\ told[s] \in Seq(Said)
      BY SessionTypes
    <3>2. Len(lines[s]) <= Len(told[s]) /\ \A i \in 1 .. Len(lines[s]) : lines[s][i] = told[s][i]
      BY DEF SessionsInv, Begins
    <3>3. QED
      BY <3>1, <3>2, PrefixMeans
  <2>2. ASSUME NEW p \in Programs, current[p] # 0, Resting(p) \/ saving[p].to # current[p]
        PROVE  history[p] = told[current[p]] /\ lastSaved[p] = Len(lines[current[p]])
    BY <2>2, NotSavingTypes DEF Resting, SessionsInv, KnowsItsPlace
  <2>3. QED
    BY <2>1, <2>2 DEF FilesFollowConversations, SessionsInv
<1>2. QED
  BY <1>1, InitSessions, NextSessions, PTL DEF SessionsSpec
-----------------------------------------------------------------------------
(* The commands. What ties the file to what was asked for is the commands  *)
(* between them: one that nobody has overtaken holds, of every setting it  *)
(* does not set itself, what was last asked for; one that has been         *)
(* overtaken is stale. Where a file is absent the defaults were asked for. *)

CommandSteps == {"truncate", "write", "ask", "editor", "check", "pull", "chat", "stream", "prompt"}
CommandKinds == {"set", "reset", "init", "edit", "run", "pull", "repl"}
SomeSettings == UNION {[some -> Models \cup {"yes", "no"}] : some \in SUBSET SettingKeys}
CommandRecords == [kind : CommandKinds, step : CommandSteps, cfg : Settings, sets : SomeSettings,
                   model : Models \cup {NoModel}, stale : BOOLEAN]

CommandTypes ==
    /\ config \in [state : {"absent", "empty", "broken", "settings"}, values : Settings]
    /\ override \in Overrides
    /\ command \in [Terminals -> CommandRecords \cup {NoCommand}]
    /\ installed \in SUBSET Models
    /\ \A k \in SettingKeys : lastSet[k] \in Values[k] \cup {Unknown}

\* What the command c is to write, given what was last set and what is overridden.
RightShape(c) ==
    /\ c.step = "ask" => c.kind = "init"
    /\ c.step = "editor" => c.kind = "edit"
    /\ c.kind = "edit" => DOMAIN c.sets = {}
    /\ c.step \in {"check", "pull", "chat", "stream", "prompt"} \/ (c.kind = "init" /\ c.step # "ask") => c.model \in Models
    /\ c.step \in {"truncate", "write"} =>
         \A k \in SettingKeys : k \in DOMAIN c.sets => c.sets[k] = c.cfg[k]

Current(c, last, over) ==
    c.step \in {"truncate", "write", "editor"} /\ ~c.stale =>
        \A k \in SettingKeys \ DOMAIN over : k \notin DOMAIN c.sets /\ last[k] # Unknown => c.cfg[k] = last[k]

FileSays(file, last, over) ==
    \A k \in SettingKeys \ DOMAIN over : last[k] # Unknown =>
        /\ file.state = "settings" => file.values[k] = last[k]
        /\ file.state = "absent" => Defaults[k] = last[k]

CommandInv ==
    /\ CommandTypes
    /\ FileSays(config, lastSet, override)
    /\ \A t \in Terminals : command[t] # NoCommand =>
           RightShape(command[t]) /\ Current(command[t], lastSet, override)

\* Settings.
LEMMA DefaultsType == Defaults \in Settings
  BY CommandAssumption DEF CommandAssumption, Defaults, Settings, SettingKeys, Values

LEMMA ChangedSettings ==
  ASSUME NEW s \in Settings, NEW k \in SettingKeys, NEW val \in Values[k] PROVE [s EXCEPT ![k] = val] \in Settings
<1>1. val \in Models \cup {"yes", "no"}
  BY DEF SettingKeys, Values
<1>2. s \in [SettingKeys -> Models \cup {"yes", "no"}] /\ \A j \in SettingKeys : s[j] \in Values[j]
  BY DEF Settings
<1>3. [s EXCEPT ![k] = val] \in [SettingKeys -> Models \cup {"yes", "no"}]
  BY <1>1, <1>2
<1>4. \A j \in SettingKeys : [s EXCEPT ![k] = val][j] \in Values[j]
  BY <1>2
<1>5. QED
  BY <1>3, <1>4 DEF Settings

LEMMA SomeSettingsAre ==
  /\ <<>> \in SomeSettings /\ DOMAIN <<>> = {}
  /\ \A k \in SettingKeys : \A val \in Values[k] : [j \in {k} |-> val] \in SomeSettings
  /\ Settings \subseteq SomeSettings
<1>1. <<>> \in [{} -> Models \cup {"yes", "no"}] /\ DOMAIN <<>> = {}
  BY SMT
<1>2. ASSUME NEW k \in SettingKeys, NEW val \in Values[k] PROVE [j \in {k} |-> val] \in [{k} -> Models \cup {"yes", "no"}]
  BY DEF SettingKeys, Values
<1>3. Settings \subseteq [SettingKeys -> Models \cup {"yes", "no"}]
  BY DEF Settings
<1>4. ASSUME NEW some \in SUBSET SettingKeys PROVE [some -> Models \cup {"yes", "no"}] \subseteq SomeSettings
  BY Zenon DEF SomeSettings
<1>5. {} \in SUBSET SettingKeys /\ SettingKeys \in SUBSET SettingKeys /\ \A k \in SettingKeys : {k} \in SUBSET SettingKeys
  OBVIOUS
<1>6. <<>> \in SomeSettings
  BY <1>1, <1>4, <1>5, Zenon
<1>7. ASSUME NEW k \in SettingKeys, NEW val \in Values[k] PROVE [j \in {k} |-> val] \in SomeSettings
  <2>1. [{k} -> Models \cup {"yes", "no"}] \subseteq SomeSettings
    BY <1>4, <1>5
  <2>2. QED
    BY <1>2, <2>1
<1>8. Settings \subseteq SomeSettings
  BY <1>3, <1>4, <1>5, Zenon
<1>9. QED
  BY <1>1, <1>6, <1>7, <1>8

LEMMA LoadedIs ==
  ASSUME CommandTypes PROVE
    /\ Loaded \in Settings
    /\ config.values \in Settings
    /\ \A k \in SettingKeys \ DOMAIN override :
         Loaded[k] = IF config.state = "settings" THEN config.values[k] ELSE Defaults[k]
<1>1. config.values \in Settings /\ Defaults \in Settings
  BY DefaultsType DEF CommandTypes
<1>2. \A k \in SettingKeys : k \in DOMAIN override => override[k] \in Values[k]
  BY CommandAssumption DEF CommandAssumption, CommandTypes
<1>3. \A s \in Settings, k \in SettingKeys : s[k] \in Values[k]
  BY DEF Settings
<1>4. \A k \in SettingKeys : Loaded[k] \in Values[k]
  BY <1>1, <1>2, <1>3 DEF Loaded
<1>5. \A k \in SettingKeys : Values[k] \subseteq Models \cup {"yes", "no"}
  BY DEF SettingKeys, Values
<1>6. Loaded \in [SettingKeys -> Models \cup {"yes", "no"}]
  BY <1>4, <1>5 DEF Loaded
<1>7. Loaded \in Settings
  BY <1>4, <1>6 DEF Settings
<1>8. QED
  BY <1>1, <1>7 DEF Loaded

LEMMA InitCommands == CommandInit => CommandInv
<1> SUFFICES ASSUME CommandInit PROVE CommandInv
  OBVIOUS
<1>1. \A k \in SettingKeys : lastSet[k] \in Values[k] /\ Defaults[k] = lastSet[k]
  BY DefaultsType DEF CommandInit, Settings
<1>2. CommandTypes
  BY <1>1, DefaultsType DEF CommandInit, CommandTypes
<1>3. FileSays(config, lastSet, override)
  BY <1>1 DEF CommandInit, FileSays
<1>4. QED
  BY <1>2, <1>3 DEF CommandInit, CommandInv
\* The commands themselves: one that goes on, and the value it has then.
LEMMA CommandIs ==
  ASSUME CommandInv, NEW t \in Terminals, command[t] # NoCommand PROVE
    /\ command[t] \in CommandRecords /\ RightShape(command[t]) /\ Current(command[t], lastSet, override)
  BY DEF CommandInv, CommandTypes

\* Only t does something, and the file and what was asked for stay.
LEMMA NowDoesKeeps ==
  ASSUME CommandInv, NEW t \in Terminals, NEW c \in CommandRecords \cup {NoCommand}, NowDoes(t, c),
         c # NoCommand => RightShape(c) /\ Current(c, lastSet, override),
         UNCHANGED <<config, override, lastSet>>, installed' \in SUBSET Models
  PROVE  CommandInv'
<1>1. /\ command' \in [Terminals -> CommandRecords \cup {NoCommand}]
      /\ command'[t] = c /\ \A x \in Terminals \ {t} : command'[x] = command[x]
  BY DEF NowDoes, CommandInv, CommandTypes
<1>2. CommandTypes'
  BY <1>1 DEF CommandInv, CommandTypes
<1>3. FileSays(config', lastSet', override')
  BY DEF CommandInv
<1>4. \A x \in Terminals : command'[x] # NoCommand => RightShape(command'[x]) /\ Current(command'[x], lastSet', override')
  BY <1>1 DEF CommandInv
<1>5. QED
  BY <1>2, <1>3, <1>4 DEF CommandInv, FileSays, RightShape, Current

\* t changes the file or what was asked for; the others are stale.
LEMMA ChangesKeeps ==
  ASSUME CommandInv, NEW t \in Terminals, NEW c \in CommandRecords \cup {NoCommand}, Changes(t, c),
         c # NoCommand => RightShape(c) /\ Current(c, lastSet', override),
         FileSays(config', lastSet', override), UNCHANGED override, installed' \in SUBSET Models,
         config' \in [state : {"absent", "empty", "broken", "settings"}, values : Settings],
         \A k \in SettingKeys : lastSet'[k] \in Values[k] \cup {Unknown}
  PROVE  CommandInv'
<1>1. ASSUME NEW d \in CommandRecords, RightShape(d) PROVE
        LET e == [d EXCEPT !.stale = TRUE]
        IN  e \in CommandRecords /\ RightShape(e) /\ Current(e, lastSet', override)
  <2> DEFINE e == [d EXCEPT !.stale = TRUE]
  <2>1. /\ e \in CommandRecords /\ e.stale = TRUE
        /\ e.step = d.step /\ e.kind = d.kind /\ e.cfg = d.cfg /\ e.sets = d.sets /\ e.model = d.model
    BY DEF CommandRecords
  <2> HIDE DEF e
  <2>2. RightShape(e)
    BY <1>1, <2>1 DEF RightShape
  <2>3. Current(e, lastSet', override)
    BY <2>1 DEF Current
  <2>4. QED
    BY <2>1, <2>2, <2>3 DEF e
<1>2. ASSUME NEW x \in Terminals PROVE
        /\ command'[x] \in CommandRecords \cup {NoCommand}
        /\ command'[x] # NoCommand => RightShape(command'[x]) /\ Current(command'[x], lastSet', override)
  <2>1. CASE x = t
    BY <2>1 DEF Changes
  <2>2. CASE x # t /\ command[x] = NoCommand
    BY <2>2 DEF Changes
  <2>3. CASE x # t /\ command[x] # NoCommand
    <3>1. command[x] \in CommandRecords /\ RightShape(command[x])
      BY <2>3, CommandIs
    <3>2. command'[x] = [command[x] EXCEPT !.stale = TRUE]
      BY <2>3 DEF Changes
    <3>3. QED
      BY <3>1, <3>2, <1>1
  <2>4. QED
    BY <2>1, <2>2, <2>3
<1>3. command' \in [Terminals -> CommandRecords \cup {NoCommand}]
  BY <1>2 DEF Changes
<1>4. CommandTypes'
  BY <1>3 DEF CommandInv, CommandTypes
<1>5. QED
  BY <1>2, <1>4 DEF CommandInv, FileSays, RightShape, Current

LEMMA GiveKeeps ==
  ASSUME CommandInv, NEW t \in Terminals, NEW c \in CommandRecords, Give(t, c),
         RightShape(c), Current(c, lastSet, override)
  PROVE  CommandInv'
<1>1. NowDoes(t, c) /\ UNCHANGED <<config, override, lastSet>> /\ installed' \in SUBSET Models
  BY DEF Give, NowDoes, CommandInv, CommandTypes
<1>2. QED
  BY <1>1, NowDoesKeeps

\* A command as it begins, and with what may then be changed of it.
LEMMA NewIs ==
  ASSUME CommandInv, NEW kind \in CommandKinds, NEW step \in CommandSteps PROVE
    /\ New(kind, step) \in CommandRecords
    /\ New(kind, step).kind = kind /\ New(kind, step).step = step /\ New(kind, step).cfg = Loaded
    /\ DOMAIN New(kind, step).sets = {} /\ New(kind, step).stale = (config.state = "empty")
<1>1. Loaded \in Settings
  BY LoadedIs DEF CommandInv
<1>2. <<>> \in SomeSettings /\ DOMAIN <<>> = {}
  BY SomeSettingsAre
<1>3. QED
  BY <1>1, <1>2 DEF New, CommandRecords

LEMMA WithModel ==
  ASSUME NEW c \in CommandRecords, NEW m \in Models \cup {NoModel} PROVE
    LET d == [c EXCEPT !.model = m]
    IN  /\ d \in CommandRecords /\ d.model = m
        /\ d.cfg = c.cfg /\ d.sets = c.sets /\ d.step = c.step /\ d.kind = c.kind /\ d.stale = c.stale
  BY DEF CommandRecords

\* A command that is given agrees with the file on what it does not set.
LEMMA CommandBegins ==
  ASSUME CommandInv, NEW t \in Terminals, NEW c \in CommandRecords, Give(t, c),
         c.stale = (config.state = "empty"), RightShape(c),
         c.step \in {"truncate", "write", "editor"} =>
             \A k \in SettingKeys \ DOMAIN override : k \notin DOMAIN c.sets =>
                 c.cfg[k] = IF config.state = "settings" THEN config.values[k] ELSE Defaults[k]
  PROVE  CommandInv'
<1>1. config.state \in {"absent", "empty", "settings"}
  BY DEF Give, CommandInv, CommandTypes
<1>2. ASSUME c.step \in {"truncate", "write", "editor"}, config.state # "empty",
             NEW k \in SettingKeys \ DOMAIN override, k \notin DOMAIN c.sets, lastSet[k] # Unknown
      PROVE  c.cfg[k] = lastSet[k]
  <2>1. c.cfg[k] = IF config.state = "settings" THEN config.values[k] ELSE Defaults[k]
    BY <1>2
  <2>2. FileSays(config, lastSet, override)
    BY DEF CommandInv
  <2>3. QED
    BY <1>1, <1>2, <2>1, <2>2 DEF FileSays
<1>3. Current(c, lastSet, override)
  BY <1>2 DEF Current
<1>4. QED
  BY <1>3, GiveKeeps

LEMMA NewCommandKeeps ==
  ASSUME CommandInv, NEW t \in Terminals, NewCommand(t) PROVE CommandInv'
<1>1. /\ Loaded \in Settings /\ config.values \in Settings
      /\ \A k \in SettingKeys \ DOMAIN override :
           Loaded[k] = IF config.state = "settings" THEN config.values[k] ELSE Defaults[k]
  BY LoadedIs DEF CommandInv
<1>2. NoModel \in Models \cup {NoModel} /\ Defaults \in Settings
  BY DefaultsType
<1>3. \A s \in Settings : DOMAIN s = SettingKeys /\ \A k \in SettingKeys : s[k] \in Values[k]
  BY DEF Settings
<1>4. ASSUME NEW k \in SettingKeys, NEW val \in Values[k], SetConfigValue(t, k, val) PROVE CommandInv'
  <2> DEFINE new == New("set", "truncate")
             cfg == [Loaded EXCEPT ![k] = val]
             sets == [j \in {k} |-> val]
             c == [new EXCEPT !.cfg = cfg, !.sets = sets]
  <2>1. cfg \in Settings /\ sets \in SomeSettings
    BY <1>1, ChangedSettings, SomeSettingsAre
  <2>2. /\ DOMAIN sets = {k} /\ sets[k] = val
        /\ cfg[k] = val /\ \A j \in SettingKeys : j # k => cfg[j] = Loaded[j]
    BY <1>1 DEF Settings
  <2>3. new \in CommandRecords /\ new.kind = "set" /\ new.step = "truncate" /\ new.stale = (config.state = "empty")
    BY NewIs DEF CommandKinds, CommandSteps
  <2>4. Give(t, c)
    BY <1>4 DEF SetConfigValue
  <2>9. c = [new EXCEPT !.cfg = cfg, !.sets = sets]
    OBVIOUS
  <2> HIDE DEF new, cfg, sets, c
  <2>5. c \in CommandRecords /\ c.cfg = cfg /\ c.sets = sets /\ c.step = "truncate" /\ c.kind = "set" /\ c.stale = new.stale
    BY <2>1, <2>3, <2>9 DEF CommandRecords
  <2>6. RightShape(c)
    BY <2>2, <2>5 DEF RightShape
  <2>7. \A j \in SettingKeys \ DOMAIN override : j \notin DOMAIN c.sets =>
          c.cfg[j] = IF config.state = "settings" THEN config.values[j] ELSE Defaults[j]
    BY <1>1, <2>2, <2>5
  <2>8. QED
    BY <2>3, <2>4, <2>5, <2>6, <2>7, CommandBegins
<1>5. CASE ResetConfig(t)
  <2> DEFINE new == New("reset", "truncate")
             c == [new EXCEPT !.cfg = Defaults, !.sets = Defaults]
  <2>1. new \in CommandRecords /\ new.kind = "reset" /\ new.step = "truncate" /\ new.stale = (config.state = "empty")
    BY NewIs DEF CommandKinds, CommandSteps
  <2>2. Give(t, c) /\ Defaults \in SomeSettings
    BY <1>2, <1>5, SomeSettingsAre DEF ResetConfig
  <2>7. c = [new EXCEPT !.cfg = Defaults, !.sets = Defaults]
    OBVIOUS
  <2> HIDE DEF new, c
  <2>3. c \in CommandRecords /\ c.cfg = Defaults /\ c.sets = Defaults /\ c.step = "truncate" /\ c.kind = "reset" /\ c.stale = new.stale
    BY <1>2, <2>1, <2>2, <2>7 DEF CommandRecords
  <2>4. RightShape(c)
    BY <2>3 DEF RightShape
  <2>5. \A k \in SettingKeys : k \in DOMAIN c.sets
    BY <1>2, <1>3, <2>3
  <2>6. QED
    BY <2>1, <2>2, <2>3, <2>4, <2>5, CommandBegins
<1>6. CASE Wizard(t)
  <2> DEFINE c == New("init", "ask")
  <2>1. c \in CommandRecords /\ c.kind = "init" /\ c.step = "ask" /\ c.stale = (config.state = "empty")
    BY NewIs DEF CommandKinds, CommandSteps
  <2>2. Give(t, c)
    BY <1>6 DEF Wizard
  <2> HIDE DEF c
  <2>3. RightShape(c)
    BY <2>1 DEF RightShape
  <2>4. QED
    BY <2>1, <2>2, <2>3, CommandBegins
<1>7. CASE EditConfig(t) /\ config.state = "absent"
  <2> DEFINE c == New("edit", "truncate")
  <2>1. c \in CommandRecords /\ c.kind = "edit" /\ c.step = "truncate" /\ c.stale = (config.state = "empty")
        /\ c.cfg = Loaded /\ DOMAIN c.sets = {}
    BY NewIs DEF CommandKinds, CommandSteps
  <2>2. Give(t, c)
    BY <1>7 DEF EditConfig
  <2> HIDE DEF c
  <2>3. RightShape(c)
    BY <2>1 DEF RightShape
  <2>4. QED
    BY <1>1, <2>1, <2>2, <2>3, CommandBegins
<1>8. CASE EditConfig(t) /\ config.state # "absent"
  <2> DEFINE new == New("edit", "editor")
             cfg == IF config.state = "settings" THEN config.values ELSE Defaults
             c == [new EXCEPT !.cfg = cfg]
  <2>1. new \in CommandRecords /\ new.kind = "edit" /\ new.step = "editor" /\ new.stale = (config.state = "empty")
        /\ DOMAIN new.sets = {}
    BY NewIs DEF CommandKinds, CommandSteps
  <2>2. cfg \in Settings /\ \A k \in SettingKeys : cfg[k] = IF config.state = "settings" THEN config.values[k] ELSE Defaults[k]
    BY <1>1, <1>2
  <2>3. Give(t, c)
    BY <1>8 DEF EditConfig
  <2> HIDE DEF new, cfg
  <2>4. c \in CommandRecords /\ c.cfg = cfg /\ c.sets = new.sets /\ c.step = "editor" /\ c.kind = "edit" /\ c.stale = new.stale
    BY <2>1, <2>2 DEF CommandRecords
  <2> HIDE DEF c
  <2>5. RightShape(c)
    BY <2>1, <2>4 DEF RightShape
  <2>6. QED
    BY <2>1, <2>2, <2>3, <2>4, <2>5, CommandBegins
<1>9. ASSUME NEW kind \in {"run", "pull", "repl"}, NEW step \in {"check", "pull", "prompt"}, NEW m \in Models,
             Give(t, [New(kind, step) EXCEPT !.model = m])
      PROVE  CommandInv'
  <2> DEFINE new == New(kind, step)
             c == [new EXCEPT !.model = m]
  <2>1. new \in CommandRecords /\ new.kind = kind /\ new.step = step /\ new.stale = (config.state = "empty")
    BY NewIs DEF CommandKinds, CommandSteps
  <2> HIDE DEF new
  <2>2. c \in CommandRecords /\ c.step = step /\ c.kind = kind /\ c.model = m /\ c.stale = (config.state = "empty")
    BY <2>1, WithModel
  <2>3. Give(t, c)
    BY <1>9 DEF new
  <2> HIDE DEF c
  <2>4. RightShape(c)
    BY <2>2 DEF RightShape
  <2>5. QED
    BY <2>2, <2>3, <2>4, CommandBegins
<1>10. ASSUME NEW flag \in Models \cup {NoModel}, NEW fromDB \in Models \cup {NoModel}, RunAgent(t, flag, fromDB) PROVE CommandInv'
  <2> DEFINE model == IF flag # NoModel THEN flag ELSE IF fromDB # NoModel THEN fromDB ELSE GetDefaultModel
  <2>1. GetDefaultModel \in Models
    BY <1>1 DEF GetDefaultModel, Settings, SettingKeys, Values
  <2>2. model \in Models
    BY <2>1
  <2>3. Give(t, [New("run", "check") EXCEPT !.model = model])
    BY <1>10 DEF RunAgent
  <2> HIDE DEF model
  <2>4. QED
    BY <2>2, <2>3, <1>9
<1>11. ASSUME NEW m \in Models, PullCommand(t, m) \/ StartChat(t, m) PROVE CommandInv'
  BY <1>9, <1>11 DEF PullCommand, StartChat
<1>12. QED
  BY <1>4, <1>5, <1>6, <1>7, <1>8, <1>10, <1>11 DEF NewCommand
LEMMA WizardAnswersKeeps ==
  ASSUME CommandInv, NEW t \in Terminals, WizardAnswers(t) PROVE CommandInv'
<1>1. installed' \in SUBSET Models /\ UNCHANGED <<config, override, lastSet>>
  BY DEF WizardAnswers, CommandInv, CommandTypes
<1>2. CASE NowDoes(t, NoCommand)
  BY <1>1, <1>2, NowDoesKeeps
<1>3. ASSUME NEW s \in Settings,
             NowDoes(t, [command[t] EXCEPT !.step = "truncate", !.cfg = s, !.sets = s, !.model = s["default_model"]])
      PROVE  CommandInv'
  <2> DEFINE old == command[t]
             c == [old EXCEPT !.step = "truncate", !.cfg = s, !.sets = s, !.model = s["default_model"]]
  <2>1. old \in CommandRecords /\ old.kind = "init"
    BY CommandIs DEF WizardAnswers, Is, RightShape
  <2>2. s \in SomeSettings /\ s["default_model"] \in Models /\ DOMAIN s = SettingKeys
    BY SomeSettingsAre DEF Settings, SettingKeys, Values
  <2>3. c = [old EXCEPT !.step = "truncate", !.cfg = s, !.sets = s, !.model = s["default_model"]] /\ NowDoes(t, c)
    BY <1>3
  <2> HIDE DEF old, c
  <2>4. c \in CommandRecords /\ c.kind = "init" /\ c.step = "truncate" /\ c.cfg = s /\ c.sets = s
        /\ c.model = s["default_model"]
    BY <2>1, <2>2, <2>3 DEF CommandRecords, CommandSteps
  <2>5. RightShape(c) /\ Current(c, lastSet, override)
    BY <2>2, <2>4 DEF RightShape, Current
  <2>6. QED
    BY <1>1, <2>3, <2>4, <2>5, NowDoesKeeps
<1>4. QED
  BY <1>2, <1>3 DEF WizardAnswers

LEMMA EmptyFileKeeps ==
  ASSUME CommandInv, NEW t \in Terminals, EmptyFile(t) PROVE CommandInv'
<1> DEFINE old == command[t]
           c == [old EXCEPT !.step = "write"]
<1>1. old \in CommandRecords /\ old.step = "truncate" /\ RightShape(old) /\ Current(old, lastSet, override)
  BY CommandIs DEF EmptyFile, Is
<1>2. Changes(t, c) /\ UNCHANGED <<override, lastSet>> /\ installed' \in SUBSET Models
  BY DEF EmptyFile, CommandInv, CommandTypes
<1>3. /\ config' \in [state : {"absent", "empty", "broken", "settings"}, values : Settings]
      /\ config'.state = "empty"
  BY DEF EmptyFile, CommandInv, CommandTypes
<1>4. c = [old EXCEPT !.step = "write"] /\ "write" \in CommandSteps
  BY DEF CommandSteps
<1> HIDE DEF old, c
<1>5. c \in CommandRecords /\ c.step = "write" /\ c.kind = old.kind /\ c.cfg = old.cfg /\ c.sets = old.sets
      /\ c.stale = old.stale /\ c.model = old.model
  BY <1>1, <1>4 DEF CommandRecords
<1>6. RightShape(c) /\ Current(c, lastSet', override)
  BY <1>1, <1>2, <1>5 DEF RightShape, Current
<1>7. FileSays(config', lastSet', override)
  BY <1>3 DEF FileSays
<1>8. \A k \in SettingKeys : lastSet'[k] \in Values[k] \cup {Unknown}
  BY <1>2 DEF CommandInv, CommandTypes
<1>9. QED
  BY <1>2, <1>3, <1>5, <1>6, <1>7, <1>8, ChangesKeeps

\* What follows on a write is no write.
LEMMA AfterWriteIs ==
  ASSUME CommandInv, NEW t \in Terminals, Is(t, "write") PROVE
    /\ AfterWrite(t) \in CommandRecords \cup {NoCommand}
    /\ AfterWrite(t) # NoCommand =>
         /\ AfterWrite(t).step \in {"editor", "pull"} /\ AfterWrite(t).kind = command[t].kind
         /\ AfterWrite(t).step = "editor" => command[t].kind = "edit"
         /\ AfterWrite(t).kind = "edit" => AfterWrite(t).step = "editor"
         /\ AfterWrite(t).cfg = command[t].cfg /\ AfterWrite(t).sets = command[t].sets
         /\ AfterWrite(t).stale = command[t].stale /\ AfterWrite(t).model = command[t].model
         /\ AfterWrite(t).step = "pull" => command[t].kind = "init"
<1> DEFINE old == command[t]
<1>1. old \in CommandRecords
  BY CommandIs DEF Is
<1>2. "editor" \in CommandSteps /\ "pull" \in CommandSteps
  BY DEF CommandSteps
<1>3. ASSUME NEW s \in {"editor", "pull"}, NEW d, d = [old EXCEPT !.step = s] PROVE
        /\ d \in CommandRecords
        /\ d.step = s /\ d.kind = old.kind /\ d.cfg = old.cfg /\ d.sets = old.sets /\ d.stale = old.stale /\ d.model = old.model
  <2> HIDE DEF old
  <2>1. QED
    BY <1>1, <1>2, <1>3 DEF CommandRecords
<1>4. CASE old.kind = "edit"
  <2>1. AfterWrite(t) = [old EXCEPT !.step = "editor"]
    BY <1>4 DEF AfterWrite
  <2> HIDE DEF old
  <2>2. QED
    BY <2>1, <1>3, <1>4 DEF old
<1>5. CASE old.kind = "init" /\ old.cfg["auto_pull"] = "yes"
  <2>1. AfterWrite(t) = [old EXCEPT !.step = "pull"]
    BY <1>5 DEF AfterWrite
  <2> HIDE DEF old
  <2>2. QED
    BY <2>1, <1>3, <1>5 DEF old
<1>6. CASE old.kind # "edit" /\ ~(old.kind = "init" /\ old.cfg["auto_pull"] = "yes")
  <2>1. AfterWrite(t) = NoCommand
    BY <1>6 DEF AfterWrite
  <2>2. QED
    BY <2>1
<1>7. QED
  BY <1>4, <1>5, <1>6

LEMMA WriteConfigKeeps ==
  ASSUME CommandInv, NEW t \in Terminals, WriteConfig(t) PROVE CommandInv'
<1> DEFINE old == command[t]
           c == AfterWrite(t)
<1>1. old \in CommandRecords /\ old.step = "write" /\ RightShape(old) /\ Current(old, lastSet, override)
  BY CommandIs DEF WriteConfig, Is
<1>2. /\ c \in CommandRecords \cup {NoCommand}
      /\ c # NoCommand =>
           /\ c.step \in {"editor", "pull"} /\ c.kind = old.kind
           /\ c.step = "editor" => old.kind = "edit"
           /\ c.kind = "edit" => c.step = "editor"
           /\ c.step = "pull" => old.kind = "init"
           /\ c.cfg = old.cfg /\ c.sets = old.sets /\ c.stale = old.stale /\ c.model = old.model
  BY AfterWriteIs DEF WriteConfig
<1>3. Changes(t, c) /\ UNCHANGED override /\ installed' \in SUBSET Models
  BY DEF WriteConfig, CommandInv, CommandTypes
<1> HIDE DEF c
<1>4. c # NoCommand => RightShape(c)
  BY <1>1, <1>2 DEF RightShape
<1>5. CASE /\ config' = [state |-> "settings", values |-> old.cfg]
           /\ lastSet' = [k \in SettingKeys |-> IF k \in DOMAIN old.sets THEN old.sets[k]
                                                ELSE IF old.stale THEN Unknown ELSE lastSet[k]]
  <2> HIDE DEF old
  <2>1. old.cfg \in Settings
    BY <1>1 DEF CommandRecords
  <2>2. \A k \in SettingKeys : old.cfg[k] \in Values[k]
    BY <2>1 DEF Settings
  <2>3. \A k \in SettingKeys : lastSet'[k] = IF k \in DOMAIN old.sets THEN old.cfg[k]
                                            ELSE IF old.stale THEN Unknown ELSE lastSet[k]
    BY <1>1, <1>5 DEF RightShape
  <2>4. \A k \in SettingKeys : lastSet'[k] \in Values[k] \cup {Unknown}
    BY <2>2, <2>3 DEF CommandInv, CommandTypes
  <2>5. \A k \in SettingKeys \ DOMAIN override : lastSet'[k] # Unknown => old.cfg[k] = lastSet'[k]
    BY <1>1, <2>3 DEF Current
  <2>6. config' \in [state : {"absent", "empty", "broken", "settings"}, values : Settings]
        /\ config'.state = "settings" /\ config'.values = old.cfg
    BY <1>5, <2>1
  <2>7. FileSays(config', lastSet', override)
    BY <2>5, <2>6 DEF FileSays
  <2>8. c # NoCommand => Current(c, lastSet', override)
    BY <1>2, <2>5 DEF Current
  <2>9. QED
    BY <1>2, <1>3, <1>4, <2>4, <2>6, <2>7, <2>8, ChangesKeeps
<1>6. CASE config' = [config EXCEPT !.state = "broken"] /\ lastSet' = [k \in SettingKeys |-> Unknown]
  <2>1. config' \in [state : {"absent", "empty", "broken", "settings"}, values : Settings]
    BY <1>6 DEF CommandInv, CommandTypes
  <2>2. \A k \in SettingKeys : lastSet'[k] = Unknown
    BY <1>6
  <2>3. FileSays(config', lastSet', override) /\ (c # NoCommand => Current(c, lastSet', override))
    BY <2>2 DEF FileSays, Current
  <2>4. QED
    BY <1>2, <1>3, <1>4, <2>1, <2>2, <2>3, ChangesKeeps
<1>7. QED
  BY <1>5, <1>6 DEF WriteConfig

LEMMA EditorSavesKeeps ==
  ASSUME CommandInv, NEW t \in Terminals, EditorSaves(t) PROVE CommandInv'
<1> DEFINE old == command[t]
<1>1. /\ old \in CommandRecords /\ old.step = "editor" /\ DOMAIN old.sets = {}
      /\ Current(old, lastSet, override)
  BY CommandIs DEF EditorSaves, Is, RightShape
<1>2. UNCHANGED override /\ installed' \in SUBSET Models
  BY DEF EditorSaves, CommandInv, CommandTypes
<1>3. ASSUME NEW k \in SettingKeys, NEW val \in Values[k],
             config' = [state |-> "settings", values |-> [old.cfg EXCEPT ![k] = val]],
             lastSet' = [j \in SettingKeys |-> IF j = k THEN val ELSE IF old.stale THEN Unknown ELSE lastSet[j]],
             Changes(t, NoCommand)
      PROVE  CommandInv'
  <2> DEFINE cfg == [old.cfg EXCEPT ![k] = val]
  <2>0. old.cfg \in Settings
    BY <1>1 DEF CommandRecords
  <2> HIDE DEF old
  <2>1. cfg \in Settings /\ cfg[k] = val /\ \A j \in SettingKeys : j # k => cfg[j] = old.cfg[j]
    BY <2>0, ChangedSettings DEF Settings
  <2>2. config' = [state |-> "settings", values |-> cfg]
    BY <1>3
  <2> HIDE DEF cfg
  <2>3. config' \in [state : {"absent", "empty", "broken", "settings"}, values : Settings]
        /\ config'.state = "settings" /\ config'.values = cfg
    BY <2>1, <2>2
  <2>4. \A j \in SettingKeys : lastSet'[j] = IF j = k THEN val ELSE IF old.stale THEN Unknown ELSE lastSet[j]
    BY <1>3
  <2>5. \A j \in SettingKeys : lastSet'[j] \in Values[j] \cup {Unknown}
    BY <2>4 DEF CommandInv, CommandTypes
  <2>6. \A j \in SettingKeys \ DOMAIN override : lastSet'[j] # Unknown => cfg[j] = lastSet'[j]
    BY <1>1, <2>1, <2>4 DEF Current
  <2>7. FileSays(config', lastSet', override)
    BY <2>3, <2>6 DEF FileSays
  <2>8. QED
    BY <1>2, <1>3, <2>3, <2>5, <2>7, ChangesKeeps
<1>4. CASE /\ config' = [config EXCEPT !.state = "broken"]
           /\ lastSet' = [k \in SettingKeys |-> Unknown]
           /\ Changes(t, NoCommand)
  <2>1. config' \in [state : {"absent", "empty", "broken", "settings"}, values : Settings]
    BY <1>4 DEF CommandInv, CommandTypes
  <2>2. \A k \in SettingKeys : lastSet'[k] = Unknown
    BY <1>4
  <2>3. FileSays(config', lastSet', override)
    BY <2>2 DEF FileSays
  <2>4. QED
    BY <1>2, <1>4, <2>1, <2>2, <2>3, ChangesKeeps
<1>5. CASE NowDoes(t, NoCommand) /\ UNCHANGED <<config, lastSet>>
  BY <1>2, <1>5, NowDoesKeeps
<1>6. QED
  BY <1>3, <1>4, <1>5 DEF EditorSaves

\* A command that waits for Ollama, or for the user, goes on to wait or ends.
LEMMA WaitingKeeps ==
  ASSUME CommandInv, NEW t \in Terminals, command[t] # NoCommand,
         command[t].step \in {"check", "pull", "chat", "stream", "prompt"},
         NEW s \in {"check", "pull", "chat", "stream", "prompt"},
         \/ NowDoes(t, NoCommand)
         \/ NowDoes(t, [command[t] EXCEPT !.step = s])
         \/ \E m \in Models : NowDoes(t, [command[t] EXCEPT !.model = m]),
         UNCHANGED <<config, override, lastSet>>, installed' \in SUBSET Models
  PROVE  CommandInv'
<1>1. CASE NowDoes(t, NoCommand)
  BY <1>1, NowDoesKeeps
<1> DEFINE old == command[t]
<1>3. old \in CommandRecords /\ old.step \in {"check", "pull", "chat", "stream", "prompt"} /\ RightShape(old)
  BY CommandIs
<1>2. ASSUME NEW d \in CommandRecords, d.step \in {"check", "pull", "chat", "stream", "prompt"},
             d.kind = old.kind, d.sets = old.sets, d.model \in Models, NowDoes(t, d)
      PROVE  CommandInv'
  <2> HIDE DEF old
  <2>1. RightShape(d) /\ Current(d, lastSet, override)
    BY <1>2, <1>3 DEF RightShape, Current
  <2>2. QED
    BY <1>2, <2>1, NowDoesKeeps
<1>4. CASE NowDoes(t, [old EXCEPT !.step = s])
  <2> DEFINE d == [old EXCEPT !.step = s]
  <2>1. d = [old EXCEPT !.step = s] /\ NowDoes(t, d)
    BY <1>4
  <2> HIDE DEF old, d
  <2>2. d \in CommandRecords /\ d.step = s /\ d.kind = old.kind /\ d.sets = old.sets /\ d.model = old.model
    BY <1>3, <2>1 DEF CommandRecords, CommandSteps
  <2>3. old.model \in Models
    BY <1>3 DEF RightShape
  <2>4. QED
    BY <1>2, <1>3, <2>1, <2>2, <2>3
<1>5. ASSUME NEW m \in Models, NowDoes(t, [old EXCEPT !.model = m]) PROVE CommandInv'
  <2> DEFINE d == [old EXCEPT !.model = m]
  <2>1. d = [old EXCEPT !.model = m] /\ NowDoes(t, d)
    BY <1>5
  <2> HIDE DEF old, d
  <2>2. d \in CommandRecords /\ d.step = old.step /\ d.kind = old.kind /\ d.sets = old.sets /\ d.model = m
    BY <1>3, <2>1 DEF CommandRecords
  <2>3. QED
    BY <1>2, <1>3, <2>1, <2>2
<1>6. QED
  BY <1>1, <1>4, <1>5

LEMMA ConversationStepsKeep ==
  ASSUME CommandInv, NEW t \in Terminals,
         CheckModel(t) \/ PullEnds(t) \/ Chat(t) \/ AnswerEnds(t) \/ PullFails(t) \/ Deadline(t) \/ Prompt(t)
  PROVE  CommandInv'
<1>1. command[t] # NoCommand /\ command[t].step \in {"check", "pull", "chat", "stream", "prompt"}
  BY DEF CheckModel, PullEnds, Chat, AnswerEnds, PullFails, Deadline, Prompt, Waiting, Is
<1>2. UNCHANGED <<config, override, lastSet>>
  BY DEF CheckModel, PullEnds, Chat, AnswerEnds, PullFails, Deadline, Prompt
<1>3. installed' \in SUBSET Models
  <2>1. installed \in SUBSET Models /\ command[t].model \in Models
    BY <1>1, CommandIs DEF CommandInv, CommandTypes, RightShape
  <2>2. QED
    BY <2>1 DEF CheckModel, PullEnds, Chat, AnswerEnds, PullFails, Deadline, Prompt
<1>4. QED
  BY <1>1, <1>2, <1>3, WaitingKeeps DEF CheckModel, PullEnds, Chat, AnswerEnds, PullFails, Deadline, Prompt, Back

LEMMA InterruptedKeeps ==
  ASSUME CommandInv, NEW t \in Terminals, Interrupted(t) PROVE CommandInv'
<1>1. NowDoes(t, NoCommand) /\ UNCHANGED <<config, override, installed>>
  BY DEF Interrupted
<1>2. CASE lastSet' = lastSet
  <2>1. installed' \in SUBSET Models
    BY <1>1 DEF CommandInv, CommandTypes
  <2>2. QED
    BY <1>1, <1>2, <2>1, NowDoesKeeps
<1>3. CASE lastSet' = [k \in SettingKeys |-> Unknown]
  <2>1. \A k \in SettingKeys : lastSet'[k] = Unknown
    BY <1>3
  <2>2. /\ command' \in [Terminals -> CommandRecords \cup {NoCommand}]
        /\ command'[t] = NoCommand /\ \A x \in Terminals \ {t} : command'[x] = command[x]
    BY <1>1 DEF NowDoes, CommandInv, CommandTypes
  <2>3. CommandTypes'
    BY <1>1, <2>1, <2>2 DEF CommandInv, CommandTypes
  <2>4. FileSays(config, lastSet, override)'
    BY <2>1 DEF FileSays
  <2>5. ASSUME NEW x \in Terminals, command'[x] # NoCommand
        PROVE  RightShape(command[x])' /\ Current(command[x], lastSet, override)'
    <3>1. command'[x] = command[x] /\ RightShape(command[x])
      BY <2>2, <2>5 DEF CommandInv
    <3>2. QED
      BY <2>1, <3>1 DEF RightShape, Current
  <2>6. QED
    BY <2>3, <2>4, <2>5 DEF CommandInv
<1>4. QED
  BY <1>2, <1>3 DEF Interrupted

LEMMA NextCommands == CommandInv /\ [CommandNext]_commandVars => CommandInv'
<1> SUFFICES ASSUME CommandInv, [CommandNext]_commandVars PROVE CommandInv'
  OBVIOUS
<1>1. CASE UNCHANGED commandVars
  BY <1>1 DEF commandVars, CommandInv, CommandTypes, FileSays, RightShape, Current
<1>2. CASE RemoveModel
  BY <1>2 DEF RemoveModel, CommandInv, CommandTypes, FileSays, RightShape, Current
<1>3. ASSUME NEW t \in Terminals,
             \/ NewCommand(t) \/ WizardAnswers(t) \/ OwnStep(t) \/ EditorSaves(t) \/ CheckModel(t) \/ PullEnds(t)
             \/ Chat(t) \/ AnswerEnds(t) \/ PullFails(t) \/ Deadline(t) \/ Prompt(t) \/ Interrupted(t)
      PROVE  CommandInv'
  BY <1>3, NewCommandKeeps, WizardAnswersKeeps, EmptyFileKeeps, WriteConfigKeeps, EditorSavesKeeps,
     ConversationStepsKeep, InterruptedKeeps DEF OwnStep
<1>4. QED
  BY <1>1, <1>2, <1>3 DEF CommandNext

\* The global file keeps every setting that was asked for, whichever of the commands
\* writes it as a whole and in whatever order they run, except where one of them was
\* overtaken or interrupted and where the project overrides it (config.go:113-203).
THEOREM FileKeepsSettings == CommandSpec => []SettingsAreKept
<1>1. CommandInv => SettingsAreKept
  <2> SUFFICES ASSUME CommandInv PROVE SettingsAreKept
    OBVIOUS
  <2>1. config.state \in {"absent", "empty", "broken", "settings"} /\ config.values \in Settings
    BY DEF CommandInv, CommandTypes
  <2>2. ASSUME NEW t \in Terminals, command[t] # NoCommand PROVE
          /\ command[t].step \in {"truncate", "write", "ask", "editor", "check", "pull", "chat", "stream", "prompt"}
          /\ command[t].cfg \in Settings /\ command[t].model \in Models \cup {NoModel}
    BY <2>2, CommandIs DEF CommandRecords, CommandSteps
  <2>3. installed \subseteq Models /\ \A k \in SettingKeys : lastSet[k] \in Values[k] \cup {Unknown}
    BY DEF CommandInv, CommandTypes
  <2>4. CommandTypeOK
    BY <2>1, <2>2, <2>3 DEF CommandTypeOK
  <2>5. KeepsSettings(SettingKeys \ DOMAIN override)
    BY DEF CommandInv, FileSays, KeepsSettings
  <2>6. QED
    BY <2>4, <2>5 DEF SettingsAreKept
<1>2. QED
  BY <1>1, InitCommands, NextCommands, PTL DEF CommandSpec
-----------------------------------------------------------------------------
(* The git agent. An operation that says it is alone is the only one, so   *)
(* between its commands nobody else has moved the tree; one that is not    *)
(* has been noted in astray. The entry names the branch checked out except *)
(* while an operation is between its checkout and its update of the entry. *)

GitSteps == {"stat", "checkout", "git", "add", "diff", "info", "reply"}
GitOps == [kind : Kinds, source : Branches \cup {NoBranch}, target : Branches, step : GitSteps,
           ok : BOOLEAN, alone : BOOLEAN, moved : BOOLEAN]

GitTypes ==
    /\ commits \in [Branches -> SUBSET (0 .. MaxCommits)]
    /\ head \in Branches \cup {NoBranch} /\ repos \in Branches \cup {NoBranch}
    /\ merging \in SUBSET (0 .. MaxCommits) /\ remote \in SUBSET (0 .. MaxCommits)
    /\ changed \in BOOLEAN /\ staged \in BOOLEAN /\ gitUp \in BOOLEAN /\ astray \in BOOLEAN
    /\ op \in [Consumers -> GitOps \cup {NoOp}]
    /\ requests \in 0 .. MaxOperations

\* Of the operation r alone, given the head h, the merge m, the commits and the index.
OpShape(r) ==
    /\ r.moved => r.kind \in {"branch", "merge"}
    /\ r.step = "info" => r.kind \in {"clone", "branch", "merge", "commit"}

PastStat(r, h) == r.step = "info" \/ (r.step \notin {"stat", "reply"} /\ r.kind # "clone") => h # NoBranch

DoneRight(r, h, m, com, st) ==
    r.alone =>
        /\ r.kind = "merge" /\ r.step = "git" => h = r.target
        /\ r.kind = "clone" /\ r.step = "info" => h = Main
        /\ r.step = "info" \/ (r.step = "reply" /\ r.ok) =>
             /\ r.kind \in {"branch", "merge"} => h = r.target /\ m = {}
             /\ r.kind = "merge" => com[r.source] \subseteq com[r.target]
             /\ r.kind = "commit" => ~st

OpOK(r, h, m, com, st) == OpShape(r) /\ PastStat(r, h) /\ DoneRight(r, h, m, com, st)

Between(r) == r.kind # "commit" /\ (r.step = "info" \/ (r.moved /\ r.step # "reply"))
Cloning(r) == r.kind = "clone" /\ r.step = "info"

AloneIsAlone == \A c, d \in Consumers : c # d /\ op[c] # NoOp /\ op[c].alone => op[d] = NoOp
OverlapsAreNoted == \A c \in Consumers : op[c] # NoOp /\ ~op[c].alone => astray
EntryIsRight == gitUp /\ ~astray /\ (\A c \in Consumers : op[c] # NoOp => ~Between(op[c])) => repos = head
EntryIsThere == gitUp /\ head # NoBranch /\ repos = NoBranch => \E c \in Consumers : op[c] # NoOp /\ Cloning(op[c])

GitInv ==
    /\ GitTypes
    /\ ~gitUp => \A c \in Consumers : op[c] = NoOp
    /\ AloneIsAlone /\ OverlapsAreNoted /\ EntryIsRight /\ EntryIsThere
    /\ \A c \in Consumers : op[c] # NoOp => OpOK(op[c], head, merging, commits, staged)

LEMMA NoOpIsNone == NoOp \notin GitOps
<1>1. \A r \in GitOps : r.kind # "none"
  BY DEF GitOps, Kinds
<1>2. NoOp.kind = "none"
  BY DEF NoOp
<1>3. QED
  BY <1>1, <1>2

LEMMA OpIs ==
  ASSUME GitInv, NEW c \in Consumers, op[c] # NoOp PROVE
    op[c] \in GitOps /\ OpOK(op[c], head, merging, commits, staged) /\ gitUp
  BY DEF GitInv, GitTypes

\* The next commit has a number of its own, if there is one.
LEMMA NewCommitType ==
  ASSUME GitTypes PROVE NewCommit \in Nat
<1>1. \A b \in Branches : commits[b] \subseteq 0 .. MaxCommits
  BY DEF GitTypes
<1>2. Known \subseteq 0 .. MaxCommits
  BY <1>1 DEF GitTypes, Known
<1>3. IsFiniteSet(0 .. MaxCommits)
  BY GitAssumption, FS_Interval DEF GitAssumption
<1>4. IsFiniteSet(Known)
  BY <1>2, <1>3, FS_Subset
<1>5. QED
  BY <1>4, FS_CardinalityType DEF NewCommit

LEMMA InitGit == GitInit => GitInv
<1> SUFFICES ASSUME GitInit PROVE GitInv
  OBVIOUS
<1> USE GitAssumption DEF GitAssumption
<1>1. commits \in [Branches -> SUBSET (0 .. MaxCommits)]
  BY DEF GitInit
<1>2. op \in [Consumers -> GitOps \cup {NoOp}]
  BY DEF GitInit
<1>3. head \in Branches \cup {NoBranch} /\ repos \in Branches \cup {NoBranch}
  BY DEF GitInit
<1>4. merging \in SUBSET (0 .. MaxCommits) /\ remote \in SUBSET (0 .. MaxCommits) /\ requests \in 0 .. MaxOperations
  BY DEF GitInit
<1>5. GitTypes
  BY <1>1, <1>2, <1>3, <1>4 DEF GitInit, GitTypes
<1>6. QED
  BY <1>5 DEF GitInit, GitInv, AloneIsAlone, OverlapsAreNoted, EntryIsRight, EntryIsThere

\* An operation goes on: what there is to show is about that operation only.
LEMMA OpGoesOn ==
  ASSUME GitInv, NEW c \in Consumers, NEW r \in GitOps, op[c] # NoOp, op' = [op EXCEPT ![c] = r],
         r.alone = op[c].alone, r.kind = op[c].kind, UNCHANGED Agent,
         commits' \in [Branches -> SUBSET (0 .. MaxCommits)],
         head' \in Branches \cup {NoBranch}, repos' \in Branches \cup {NoBranch},
         merging' \in SUBSET (0 .. MaxCommits), remote' \in SUBSET (0 .. MaxCommits),
         changed' \in BOOLEAN, staged' \in BOOLEAN, astray' \in BOOLEAN,
         head # NoBranch => head' # NoBranch,
         ~r.alone /\ astray => astray',
         OpOK(r, head', merging', commits', staged'),
         ~astray' /\ ~Between(r) => \/ repos' = head'
                                    \/ ~astray /\ ~Between(op[c]) /\ head' = head /\ repos' = repos,
         head' # NoBranch /\ repos' = NoBranch => \/ Cloning(r)
                                                  \/ head # NoBranch /\ repos = NoBranch /\ ~Cloning(op[c])
  PROVE  GitInv'
<1>1. op[c] \in GitOps /\ OpOK(op[c], head, merging, commits, staged) /\ gitUp /\ gitUp' = gitUp /\ requests' = requests
  BY OpIs DEF Agent
<1>2. /\ op' \in [Consumers -> GitOps \cup {NoOp}]
      /\ op'[c] = r /\ r # NoOp /\ \A d \in Consumers \ {c} : op'[d] = op[d]
  BY NoOpIsNone DEF GitInv, GitTypes
<1>3. GitTypes'
  BY <1>1, <1>2 DEF GitInv, GitTypes
<1>4. AloneIsAlone'
  BY <1>2 DEF GitInv, AloneIsAlone
<1>5. \A d \in Consumers \ {c} : op[d] # NoOp => ~op[d].alone /\ ~r.alone /\ astray
  BY DEF GitInv, AloneIsAlone, OverlapsAreNoted
<1>6. OverlapsAreNoted'
  BY <1>2, <1>5 DEF GitInv, OverlapsAreNoted
<1>7. ASSUME NEW d \in Consumers, op'[d] # NoOp PROVE OpOK(op'[d], head', merging', commits', staged')
  <2>1. CASE d = c
    BY <2>1, <1>2
  <2>2. CASE d # c
    <3>1. op'[d] = op[d] /\ ~op[d].alone /\ OpOK(op[d], head, merging, commits, staged)
      BY <2>2, <1>2, <1>5, <1>7 DEF GitInv
    <3>2. QED
      BY <3>1 DEF OpOK, PastStat, DoneRight
  <2>3. QED
    BY <2>1, <2>2
<1>8. EntryIsRight'
  <2>1. ASSUME ~astray', \A d \in Consumers : op'[d] # NoOp => ~Between(op'[d]) PROVE repos' = head'
    <3>1. ~Between(r)
      BY <2>1, <1>2
    <3>2. CASE ~astray /\ ~Between(op[c]) /\ head' = head /\ repos' = repos
      <4>1. \A d \in Consumers : op[d] # NoOp => ~Between(op[d])
        BY <2>1, <3>2, <1>2
      <4>2. QED
        BY <4>1, <3>2, <1>1 DEF GitInv, EntryIsRight
    <3>3. QED
      BY <2>1, <3>1, <3>2
  <2>2. QED
    BY <2>1 DEF EntryIsRight, Between
<1>9. EntryIsThere'
  <2>1. ASSUME head' # NoBranch, repos' = NoBranch PROVE \E d \in Consumers : op'[d] # NoOp /\ Cloning(op'[d])
    <3>1. CASE Cloning(r)
      BY <3>1, <1>2
    <3>2. CASE head # NoBranch /\ repos = NoBranch /\ ~Cloning(op[c])
      <4>1. PICK d \in Consumers : op[d] # NoOp /\ Cloning(op[d])
        BY <3>2, <1>1 DEF GitInv, EntryIsThere
      <4>2. QED
        BY <4>1, <3>2, <1>2
    <3>3. QED
      BY <2>1, <3>1, <3>2
  <2>2. QED
    BY <2>1 DEF EntryIsThere, Cloning
<1>10. QED
  BY <1>1, <1>3, <1>4, <1>6, <1>7, <1>8, <1>9 DEF GitInv, OpOK, OpShape, PastStat, DoneRight
\* What an operation is after a step, and after a failure.
LEMMA GoIs ==
  ASSUME GitInv, NEW c \in Consumers, op[c] # NoOp, NEW s \in GitSteps, Go(c, s) PROVE
    \E r \in GitOps : /\ op' = [op EXCEPT ![c] = r]
                      /\ r.step = s /\ r.kind = op[c].kind /\ r.source = op[c].source /\ r.target = op[c].target
                      /\ r.ok = op[c].ok /\ r.alone = op[c].alone /\ r.moved = op[c].moved
<1> DEFINE old == op[c]
           r == [old EXCEPT !.step = s]
<1>1. old \in GitOps /\ op' = [op EXCEPT ![c] = r] /\ r = [old EXCEPT !.step = s]
  BY OpIs DEF Go
<1> HIDE DEF old, r
<1>2. /\ r \in GitOps
      /\ r.step = s /\ r.kind = old.kind /\ r.source = old.source /\ r.target = old.target
      /\ r.ok = old.ok /\ r.alone = old.alone /\ r.moved = old.moved
  BY <1>1 DEF GitOps
<1>3. QED
  BY <1>1, <1>2 DEF old

LEMMA FailureKeeps ==
  ASSUME GitInv, NEW c \in Consumers, op[c] # NoOp, op[c].step \notin {"info", "reply"},
         op' = [op EXCEPT ![c].step = "reply", ![c].ok = FALSE], astray' = (astray \/ op[c].moved),
         merging' \in SUBSET (0 .. MaxCommits), UNCHANGED <<commits, head, changed, staged, remote, repos, Agent>>
  PROVE  GitInv'
<1> DEFINE old == op[c]
           r == [old EXCEPT !.step = "reply", !.ok = FALSE]
<1>1. old \in GitOps /\ OpShape(old) /\ old.step \notin {"info", "reply"}
  BY OpIs DEF OpOK
<1>2. op' = [op EXCEPT ![c] = r]
  BY DEF GitInv, GitTypes
<1>3. r = [old EXCEPT !.step = "reply", !.ok = FALSE] /\ astray' = (astray \/ old.moved)
  OBVIOUS
<1>4. astray \in BOOLEAN /\ old.moved \in BOOLEAN
  BY <1>1 DEF GitInv, GitTypes, GitOps
<1> HIDE DEF old, r
<1>5. r \in GitOps /\ r.step = "reply" /\ r.ok = FALSE /\ r.kind = old.kind /\ r.alone = old.alone /\ r.moved = old.moved
  BY <1>1, <1>3 DEF GitOps, GitSteps
<1>6. OpOK(r, head', merging', commits', staged')
  BY <1>1, <1>5 DEF OpOK, OpShape, PastStat, DoneRight
<1>7. astray' \in BOOLEAN /\ (astray => astray') /\ (~astray' => ~astray /\ ~old.moved)
  BY <1>3, <1>4
<1>8. ~astray' => ~Between(old)
  BY <1>1, <1>7 DEF Between
<1>9. ~Cloning(old)
  BY <1>1 DEF Cloning
<1>10. /\ commits' \in [Branches -> SUBSET (0 .. MaxCommits)]
       /\ head' \in Branches \cup {NoBranch} /\ repos' \in Branches \cup {NoBranch}
       /\ remote' \in SUBSET (0 .. MaxCommits) /\ changed' \in BOOLEAN /\ staged' \in BOOLEAN
  BY DEF GitInv, GitTypes
<1>11. QED
  BY <1>2, <1>5, <1>6, <1>7, <1>8, <1>9, <1>10, OpGoesOn DEF old

LEMMA StatKeeps ==
  ASSUME GitInv, NEW c \in Consumers, Stat(c) PROVE GitInv'
<1>1. op[c] # NoOp /\ op[c].step = "stat" /\ op[c] \in GitOps /\ OpOK(op[c], head, merging, commits, staged)
  BY OpIs DEF Stat, In
<1> DEFINE s == FirstStep(op[c].kind, op[c].source)
<1>2. CASE (op[c].kind = "clone") = (head = NoBranch) /\ Go(c, s) /\ UNCHANGED <<Tree, remote, repos, Agent, astray>>
  <2>1. s \in {"add", "checkout", "git"}
    BY DEF FirstStep
  <2>2. op[c].kind = "merge" => s = "checkout"
    BY DEF FirstStep
  <2>3. Go(c, s) /\ UNCHANGED <<Tree, remote, repos, Agent, astray>> /\ (op[c].kind # "clone" => head # NoBranch)
    BY <1>2
  <2> HIDE DEF s
  <2>4. PICK r \in GitOps : /\ op' = [op EXCEPT ![c] = r]
                            /\ r.step = s /\ r.kind = op[c].kind /\ r.source = op[c].source /\ r.target = op[c].target
                            /\ r.ok = op[c].ok /\ r.alone = op[c].alone /\ r.moved = op[c].moved
    BY <1>1, <2>1, <2>3, GoIs DEF GitSteps
  <2>5. OpOK(r, head, merging, commits, staged)
    BY <1>1, <2>1, <2>2, <2>3, <2>4 DEF OpOK, OpShape, PastStat, DoneRight
  <2>6. ~Cloning(r) /\ ~Cloning(op[c]) /\ (~Between(r) => ~Between(op[c]))
    BY <1>1, <2>1, <2>4 DEF Cloning, Between
  <2>7. UNCHANGED <<commits, head, merging, changed, staged, remote, repos, Agent, astray>>
    BY <2>3 DEF Tree
  <2>8. QED
    BY <1>1, <2>4, <2>5, <2>6, <2>7, OpGoesOn DEF GitInv, GitTypes
<1>3. CASE Fail(c)
  BY <1>1, <1>3, FailureKeeps DEF Fail, Tree, GitInv, GitTypes
<1>4. QED
  BY <1>2, <1>3 DEF Stat

LEMMA MayFailKeeps ==
  ASSUME GitInv, NEW c \in Consumers, NEW s \in {"checkout", "git", "add"}, MayFail(c, Kinds, s) PROVE GitInv'
<1>1. op[c] # NoOp /\ op[c].step \notin {"info", "reply"} /\ Fail(c)
  BY DEF MayFail, In
<1>2. QED
  BY <1>1, FailureKeeps DEF Fail, Tree, GitInv, GitTypes

LEMMA GitCloneKeeps ==
  ASSUME GitInv, NEW c \in Consumers, GitClone(c) PROVE GitInv'
<1>1. op[c] # NoOp /\ op[c].kind = "clone" /\ op[c].step = "git" /\ op[c] \in GitOps /\ OpOK(op[c], head, merging, commits, staged)
  BY OpIs DEF GitClone, In
<1>2. PICK r \in GitOps : /\ op' = [op EXCEPT ![c] = r]
                          /\ r.step = "info" /\ r.kind = op[c].kind /\ r.source = op[c].source /\ r.target = op[c].target
                          /\ r.ok = op[c].ok /\ r.alone = op[c].alone /\ r.moved = op[c].moved
  BY <1>1, GoIs DEF GitClone, GitSteps
<1>3. head' = Main /\ Main \in Branches /\ Main # NoBranch
  BY GitAssumption DEF GitAssumption, GitClone
<1>4. OpOK(r, head', merging', commits', staged')
  BY <1>1, <1>2, <1>3 DEF OpOK, OpShape, PastStat, DoneRight
<1>5. Cloning(r) /\ Between(r)
  BY <1>1, <1>2 DEF Cloning, Between
<1>6. commits' \in [Branches -> SUBSET (0 .. MaxCommits)]
  BY DEF GitClone, GitInv, GitTypes
<1>7. UNCHANGED <<merging, changed, staged, remote, repos, Agent, astray>>
  BY DEF GitClone
<1>8. QED
  BY <1>1, <1>2, <1>3, <1>4, <1>5, <1>6, <1>7, OpGoesOn DEF GitInv, GitTypes

LEMMA GitCheckoutKeeps ==
  ASSUME GitInv, NEW c \in Consumers, GitCheckout(c) PROVE GitInv'
<1> DEFINE old == op[c]
           r == [old EXCEPT !.step = "git", !.moved = TRUE]
<1>1. op[c] # NoOp /\ old.kind \in {"branch", "merge"} /\ old.step = "checkout" /\ old \in GitOps
  BY OpIs DEF GitCheckout, In
<1>2. op' = [op EXCEPT ![c] = r]
  BY DEF GitCheckout, GitInv, GitTypes
<1>3. r = [old EXCEPT !.step = "git", !.moved = TRUE]
  OBVIOUS
<1>4. /\ head' = (IF old.kind = "branch" THEN old.source ELSE old.target) /\ head' # NoBranch
      /\ PastStat(old, head)
  BY <1>1, OpIs DEF GitCheckout, Exists, OpOK
<1> HIDE DEF old, r
<1>5. /\ r \in GitOps /\ r.step = "git" /\ r.moved = TRUE
      /\ r.kind = old.kind /\ r.source = old.source /\ r.target = old.target /\ r.alone = old.alone
  BY <1>1, <1>3 DEF GitOps, GitSteps
<1>6. OpOK(r, head', merging', commits', staged')
  BY <1>1, <1>4, <1>5 DEF OpOK, OpShape, PastStat, DoneRight
<1>7. Between(r) /\ ~Cloning(old) /\ head # NoBranch /\ head' \in Branches
  BY <1>1, <1>4, <1>5 DEF Between, Cloning, PastStat, GitOps
<1>8. UNCHANGED <<commits, merging, changed, staged, remote, repos, Agent, astray>>
  BY DEF GitCheckout
<1>9. QED
  BY <1>1, <1>2, <1>4, <1>5, <1>6, <1>7, <1>8, OpGoesOn DEF old, GitInv, GitTypes

LEMMA GitBranchKeeps ==
  ASSUME GitInv, NEW c \in Consumers, GitBranch(c) PROVE GitInv'
<1>1. /\ op[c] # NoOp /\ op[c].kind = "branch" /\ op[c].step = "git" /\ op[c] \in GitOps
      /\ OpOK(op[c], head, merging, commits, staged)
  BY OpIs DEF GitBranch, In
<1>2. PICK r \in GitOps : /\ op' = [op EXCEPT ![c] = r]
                          /\ r.step = "info" /\ r.kind = op[c].kind /\ r.source = op[c].source /\ r.target = op[c].target
                          /\ r.ok = op[c].ok /\ r.alone = op[c].alone /\ r.moved = op[c].moved
  BY <1>1, GoIs DEF GitBranch, GitSteps
<1>3. head \in Branches /\ head # NoBranch /\ head' = op[c].target /\ op[c].target \in Branches /\ NoBranch \notin Branches
  BY <1>1, GitAssumption DEF GitAssumption, GitBranch, GitOps, OpOK, PastStat, GitInv, GitTypes
<1>4. merging' = {} /\ commits' \in [Branches -> SUBSET (0 .. MaxCommits)]
  BY <1>3 DEF GitBranch, GitInv, GitTypes
<1>5. OpOK(r, head', merging', commits', staged')
  BY <1>1, <1>2, <1>3, <1>4 DEF OpOK, OpShape, PastStat, DoneRight
<1>6. Between(r) /\ ~Cloning(op[c])
  BY <1>1, <1>2 DEF Cloning, Between
<1>7. UNCHANGED <<merging, changed, staged, remote, repos, Agent, astray>>
  BY DEF GitBranch
<1>8. QED
  BY <1>1, <1>2, <1>3, <1>4, <1>5, <1>6, <1>7, OpGoesOn DEF GitInv, GitTypes
LEMMA GitMergeKeeps ==
  ASSUME GitInv, NEW c \in Consumers, GitMerge(c) PROVE GitInv'
<1>1. /\ op[c] # NoOp /\ op[c].kind = "merge" /\ op[c].step = "git" /\ op[c] \in GitOps
      /\ OpOK(op[c], head, merging, commits, staged)
  BY OpIs DEF GitMerge, In
<1> DEFINE src == op[c].source
           tgt == op[c].target
<1>2. src \in Branches /\ tgt \in Branches /\ head \in Branches /\ merging = {} /\ head # NoBranch
  BY <1>1 DEF GitMerge, Exists, GitOps, OpOK, PastStat, GitInv, GitTypes
<1>3. CASE MergeHere(commits[src]) /\ Go(c, "info") /\ UNCHANGED astray
  <2>1. PICK r \in GitOps : /\ op' = [op EXCEPT ![c] = r]
                            /\ r.step = "info" /\ r.kind = op[c].kind /\ r.source = src /\ r.target = tgt
                            /\ r.ok = op[c].ok /\ r.alone = op[c].alone /\ r.moved = op[c].moved
    BY <1>1, <1>3, GoIs DEF GitSteps
  <2>2. commits' = [commits EXCEPT ![head] = commits[head] \cup commits[src]] /\ merging' = merging
    BY <1>3 DEF MergeHere
  <2>3. commits \in [Branches -> SUBSET (0 .. MaxCommits)]
    BY DEF GitInv, GitTypes
  <2>4. commits' \in [Branches -> SUBSET (0 .. MaxCommits)]
    BY <1>2, <2>2, <2>3
  <2>5. r.alone => head = tgt
    BY <1>1, <2>1 DEF OpOK, DoneRight
  <2> HIDE DEF src, tgt
  <2>6. head = tgt => commits'[src] \subseteq commits'[tgt]
    BY <1>2, <2>2, <2>3
  <2>7. UNCHANGED <<head, changed, staged, remote, repos, Agent>>
    BY DEF GitMerge
  <2>8. OpOK(r, head', merging', commits', staged')
    BY <1>1, <1>2, <2>1, <2>2, <2>5, <2>6, <2>7 DEF OpOK, OpShape, PastStat, DoneRight
  <2>9. Between(r) /\ ~Cloning(op[c])
    BY <1>1, <2>1 DEF Cloning, Between
  <2>10. QED
    BY <1>1, <1>2, <1>3, <2>1, <2>2, <2>4, <2>7, <2>8, <2>9, OpGoesOn DEF GitInv, GitTypes
<1>4. CASE Conflict(c, commits[src])
  <2>1. merging' \in SUBSET (0 .. MaxCommits)
    BY <1>2, <1>4 DEF Conflict, GitInv, GitTypes
  <2>2. QED
    BY <1>1, <1>4, <2>1, FailureKeeps DEF Conflict, GitMerge
<1>5. QED
  BY <1>3, <1>4 DEF GitMerge

LEMMA GitPullKeeps ==
  ASSUME GitInv, NEW c \in Consumers, GitPull(c) PROVE GitInv'
<1>1. /\ op[c] # NoOp /\ op[c].kind = "pull" /\ op[c].step = "git" /\ op[c] \in GitOps
      /\ OpOK(op[c], head, merging, commits, staged) /\ head \in Branches
  BY OpIs, GitAssumption DEF GitPull, In, GitAssumption
<1>2. CASE MergeHere(remote) /\ Go(c, "reply") /\ UNCHANGED astray
  <2>1. PICK r \in GitOps : /\ op' = [op EXCEPT ![c] = r]
                            /\ r.step = "reply" /\ r.kind = op[c].kind /\ r.source = op[c].source /\ r.target = op[c].target
                            /\ r.ok = op[c].ok /\ r.alone = op[c].alone /\ r.moved = op[c].moved
    BY <1>1, <1>2, GoIs DEF GitSteps
  <2>2. commits' \in [Branches -> SUBSET (0 .. MaxCommits)] /\ merging' = merging
    BY <1>1, <1>2 DEF MergeHere, GitInv, GitTypes
  <2>3. UNCHANGED <<head, changed, staged, remote, repos, Agent>>
    BY DEF GitPull
  <2>4. OpOK(r, head', merging', commits', staged')
    BY <1>1, <2>1 DEF OpOK, OpShape, PastStat, DoneRight
  <2>5. ~Between(op[c]) /\ ~Cloning(op[c])
    BY <1>1 DEF OpOK, OpShape, Cloning, Between
  <2>6. QED
    BY <1>1, <1>2, <2>1, <2>2, <2>3, <2>4, <2>5, OpGoesOn DEF GitInv, GitTypes
<1>3. CASE Conflict(c, remote)
  <2>1. merging' \in SUBSET (0 .. MaxCommits)
    BY <1>3 DEF Conflict, GitInv, GitTypes
  <2>2. QED
    BY <1>1, <1>3, <2>1, FailureKeeps DEF Conflict, GitPull
<1>4. QED
  BY <1>2, <1>3 DEF GitPull

LEMMA GitPushKeeps ==
  ASSUME GitInv, NEW c \in Consumers, GitPush(c) PROVE GitInv'
<1>1. /\ op[c] # NoOp /\ op[c].kind = "push" /\ op[c].step = "git" /\ op[c] \in GitOps
      /\ OpOK(op[c], head, merging, commits, staged)
  BY OpIs DEF GitPush, In
<1>2. PICK r \in GitOps : /\ op' = [op EXCEPT ![c] = r]
                          /\ r.step = "reply" /\ r.kind = op[c].kind /\ r.source = op[c].source /\ r.target = op[c].target
                          /\ r.ok = op[c].ok /\ r.alone = op[c].alone /\ r.moved = op[c].moved
  BY <1>1, GoIs DEF GitPush, GitSteps
<1>3. remote' \in SUBSET (0 .. MaxCommits)
  BY GitAssumption DEF GitAssumption, GitPush, GitInv, GitTypes
<1>4. UNCHANGED <<commits, head, merging, changed, staged, repos, Agent, astray>>
  BY DEF GitPush, Tree
<1>5. OpOK(r, head', merging', commits', staged')
  BY <1>1, <1>2 DEF OpOK, OpShape, PastStat, DoneRight
<1>6. ~Between(op[c]) /\ ~Cloning(op[c])
  BY <1>1 DEF OpOK, OpShape, Cloning, Between
<1>7. QED
  BY <1>1, <1>2, <1>3, <1>4, <1>5, <1>6, OpGoesOn DEF GitInv, GitTypes

LEMMA GitAddKeeps ==
  ASSUME GitInv, NEW c \in Consumers, GitAdd(c) PROVE GitInv'
<1>1. /\ op[c] # NoOp /\ op[c].kind = "commit" /\ op[c].step = "add" /\ op[c] \in GitOps
      /\ OpOK(op[c], head, merging, commits, staged)
  BY OpIs DEF GitAdd, In
<1>2. PICK r \in GitOps : /\ op' = [op EXCEPT ![c] = r]
                          /\ r.step = "diff" /\ r.kind = op[c].kind /\ r.source = op[c].source /\ r.target = op[c].target
                          /\ r.ok = op[c].ok /\ r.alone = op[c].alone /\ r.moved = op[c].moved
  BY <1>1, GoIs DEF GitAdd, GitSteps
<1>3. staged' \in BOOLEAN /\ changed' \in BOOLEAN /\ UNCHANGED <<commits, head, merging, remote, repos, Agent, astray>>
  BY DEF GitAdd
<1>4. OpOK(r, head', merging', commits', staged')
  BY <1>1, <1>2, <1>3 DEF OpOK, OpShape, PastStat, DoneRight
<1>5. ~Between(op[c]) /\ ~Cloning(op[c])
  BY <1>1 DEF Cloning, Between
<1>6. QED
  BY <1>1, <1>2, <1>3, <1>4, <1>5, OpGoesOn DEF GitInv, GitTypes

LEMMA GitDiffKeeps ==
  ASSUME GitInv, NEW c \in Consumers, GitDiff(c) PROVE GitInv'
<1>1. /\ op[c] # NoOp /\ op[c].kind = "commit" /\ op[c].step = "diff" /\ op[c] \in GitOps
      /\ OpOK(op[c], head, merging, commits, staged)
  BY OpIs DEF GitDiff, In
<1>2. CASE Go(c, "git") /\ UNCHANGED <<Tree, remote, repos, Agent, astray>>
  <2>1. PICK r \in GitOps : /\ op' = [op EXCEPT ![c] = r]
                            /\ r.step = "git" /\ r.kind = op[c].kind /\ r.source = op[c].source /\ r.target = op[c].target
                            /\ r.ok = op[c].ok /\ r.alone = op[c].alone /\ r.moved = op[c].moved
    BY <1>1, <1>2, GoIs DEF GitSteps
  <2>2. UNCHANGED <<commits, head, merging, changed, staged, remote, repos, Agent, astray>>
    BY <1>2 DEF Tree
  <2>3. OpOK(r, head', merging', commits', staged')
    BY <1>1, <2>1, <2>2 DEF OpOK, OpShape, PastStat, DoneRight
  <2>4. ~Between(op[c]) /\ ~Cloning(op[c])
    BY <1>1 DEF Cloning, Between
  <2>5. QED
    BY <1>1, <2>1, <2>2, <2>3, <2>4, OpGoesOn DEF GitInv, GitTypes
<1>3. CASE Fail(c)
  BY <1>1, <1>3, FailureKeeps DEF Fail, Tree, GitInv, GitTypes
<1>4. QED
  BY <1>2, <1>3 DEF GitDiff

LEMMA GitCommitKeeps ==
  ASSUME GitInv, NEW c \in Consumers, GitCommit(c) PROVE GitInv'
<1>1. /\ op[c] # NoOp /\ op[c].kind = "commit" /\ op[c].step = "git" /\ op[c] \in GitOps
      /\ OpOK(op[c], head, merging, commits, staged)
  BY OpIs DEF GitCommit, In
<1>2. PICK r \in GitOps : /\ op' = [op EXCEPT ![c] = r]
                          /\ r.step = "info" /\ r.kind = op[c].kind /\ r.source = op[c].source /\ r.target = op[c].target
                          /\ r.ok = op[c].ok /\ r.alone = op[c].alone /\ r.moved = op[c].moved
  BY <1>1, GoIs DEF GitCommit, GitSteps
<1>3. NewCommit \in 0 .. MaxCommits
  BY NewCommitType, GitAssumption DEF GitAssumption, GitCommit, GitInv
<1>4. commits' \in [Branches -> SUBSET (0 .. MaxCommits)]
  BY <1>3 DEF GitCommit, GitInv, GitTypes
<1>5. staged' = FALSE /\ merging' = {} /\ UNCHANGED <<head, changed, remote, repos, Agent, astray>>
  BY DEF GitCommit
<1>6. OpOK(r, head', merging', commits', staged')
  BY <1>1, <1>2, <1>5 DEF OpOK, OpShape, PastStat, DoneRight
<1>7. ~Between(op[c]) /\ ~Cloning(op[c])
  BY <1>1 DEF Cloning, Between
<1>8. QED
  BY <1>1, <1>2, <1>4, <1>5, <1>6, <1>7, OpGoesOn DEF GitInv, GitTypes

LEMMA UpdateEntryKeeps ==
  ASSUME GitInv, NEW c \in Consumers, UpdateEntry(c) PROVE GitInv'
<1> USE GitAssumption DEF GitAssumption
<1> DEFINE old == op[c]
<1>1. /\ op[c] # NoOp /\ old.step = "info" /\ old \in GitOps
      /\ OpOK(old, head, merging, commits, staged) /\ gitUp
  BY OpIs DEF UpdateEntry, In
<1>2. PICK r \in GitOps : /\ op' = [op EXCEPT ![c] = r]
                          /\ r.step = "reply" /\ r.kind = old.kind /\ r.source = old.source /\ r.target = old.target
                          /\ r.ok = old.ok /\ r.alone = old.alone /\ r.moved = old.moved
  BY <1>1, GoIs DEF UpdateEntry, GitSteps
<1>3. /\ repos' = (IF old.kind = "clone" THEN Main
                   ELSE IF old.kind \in {"branch", "merge"} /\ repos # NoBranch THEN old.target ELSE repos)
      /\ astray' = (astray /\ (old.kind = "commit" \/ ~old.alone))
      /\ UNCHANGED <<commits, head, merging, changed, staged, remote, Agent>>
  BY DEF UpdateEntry, Tree
<1>4. old.kind \in {"clone", "branch", "merge", "commit"} /\ old.target \in Branches /\ old.alone \in BOOLEAN
  BY <1>1 DEF OpOK, OpShape, GitOps
<1>5. old.alone => /\ old.kind = "clone" => head = Main
                   /\ old.kind \in {"branch", "merge"} => head = old.target
  BY <1>1 DEF OpOK, DoneRight
<1>6. ~old.alone => astray
  BY <1>1 DEF GitInv, OverlapsAreNoted
<1>7. old.alone => \A d \in Consumers : d # c => op[d] = NoOp
  BY <1>1 DEF GitInv, AloneIsAlone
<1>8. head # NoBranch
  BY <1>1 DEF OpOK, PastStat
<1>9. old.alone /\ old.kind \in {"branch", "merge"} => repos # NoBranch
  <2>1. ASSUME old.alone, old.kind \in {"branch", "merge"}, repos = NoBranch PROVE FALSE
    <3>1. PICK d \in Consumers : op[d] # NoOp /\ Cloning(op[d])
      BY <1>1, <1>8, <2>1 DEF GitInv, EntryIsThere
    <3>2. d = c
      BY <1>7, <2>1, <3>1
    <3>3. QED
      BY <2>1, <3>1, <3>2 DEF Cloning
  <2>2. QED
    BY <2>1
<1> HIDE DEF old
<1>10. OpOK(r, head', merging', commits', staged')
  BY <1>1, <1>2, <1>3 DEF OpOK, OpShape, PastStat, DoneRight
<1>11. astray \in BOOLEAN /\ repos \in Branches \cup {NoBranch}
  BY DEF GitInv, GitTypes
<1>12. ~astray' => repos' = head' \/ (~astray /\ ~Between(old) /\ head' = head /\ repos' = repos)
  <2>1. CASE old.kind = "commit"
    BY <2>1, <1>3, <1>11 DEF Between
  <2>2. CASE old.kind # "commit" /\ old.alone
    BY <2>2, <1>3, <1>4, <1>5, <1>9
  <2>3. CASE ~old.alone
    BY <2>3, <1>3, <1>6
  <2>4. QED
    BY <2>1, <2>2, <2>3, <1>4
<1>13. repos' = NoBranch => repos = NoBranch /\ ~Cloning(old)
  BY <1>3, <1>4 DEF Cloning
<1>14. astray' \in BOOLEAN /\ repos' \in Branches \cup {NoBranch} /\ (~r.alone /\ astray => astray')
  BY <1>2, <1>3, <1>4, <1>11
<1>15. QED
  BY <1>1, <1>2, <1>3, <1>8, <1>10, <1>12, <1>13, <1>14, OpGoesOn DEF old, GitInv, GitTypes

\* The operations' beginning and end.
LEMMA ReplyKeeps ==
  ASSUME GitInv, NEW c \in Consumers, Reply(c) PROVE GitInv'
<1>1. op[c] # NoOp /\ op[c].step = "reply" /\ gitUp
  BY OpIs DEF Reply, In
<1>2. UNCHANGED <<commits, head, merging, changed, staged, remote, repos, gitUp, requests, astray>>
  BY DEF Reply, Tree, Agent
<1>3. /\ op' \in [Consumers -> GitOps \cup {NoOp}]
      /\ op'[c] = NoOp /\ \A d \in Consumers \ {c} : op'[d] = op[d]
  BY DEF Reply, GitInv, GitTypes
<1>4. GitTypes'
  BY <1>2, <1>3 DEF GitInv, GitTypes
<1>5. AloneIsAlone' /\ OverlapsAreNoted'
  BY <1>2, <1>3 DEF GitInv, AloneIsAlone, OverlapsAreNoted
<1>6. ~Between(op[c]) /\ ~Cloning(op[c])
  BY <1>1 DEF Between, Cloning
<1>7. ASSUME ~astray, \A d \in Consumers : op'[d] # NoOp => ~Between(op'[d]) PROVE repos = head
  <2>1. \A d \in Consumers : op[d] # NoOp => ~Between(op[d])
    BY <1>3, <1>6, <1>7
  <2>2. QED
    BY <2>1, <1>1, <1>7 DEF GitInv, EntryIsRight
<1>8. ASSUME head # NoBranch, repos = NoBranch PROVE \E d \in Consumers : op'[d] # NoOp /\ Cloning(op'[d])
  <2>1. PICK d \in Consumers : op[d] # NoOp /\ Cloning(op[d])
    BY <1>1, <1>8 DEF GitInv, EntryIsThere
  <2>2. QED
    BY <2>1, <1>3, <1>6
<1>9. EntryIsRight' /\ EntryIsThere'
  BY <1>2, <1>7, <1>8 DEF EntryIsRight, EntryIsThere, Between, Cloning
<1>10. \A d \in Consumers : op'[d] # NoOp => OpOK(op'[d], head, merging, commits, staged)
  BY <1>3 DEF GitInv
<1>11. QED
  BY <1>1, <1>2, <1>4, <1>5, <1>9, <1>10 DEF GitInv, OpOK, OpShape, PastStat, DoneRight
LEMMA ServeKeeps ==
  ASSUME GitInv, NEW c \in Consumers, NEW kind \in Kinds, NEW source \in Branches \cup {NoBranch}, NEW target \in Branches,
         Serve(c, kind, source, target)
  PROVE  GitInv'
<1> DEFINE others == {d \in Consumers : op[d] # NoOp}
           r == [kind |-> kind, source |-> source, target |-> target, step |-> "stat",
                 ok |-> TRUE, alone |-> others = {}, moved |-> FALSE]
<1>1. gitUp /\ op[c] = NoOp /\ requests' \in 0 .. MaxOperations
  BY GitAssumption DEF GitAssumption, Serve, GitInv, GitTypes
<1>2. UNCHANGED <<commits, head, merging, changed, staged, remote, repos, gitUp>> /\ astray' = (astray \/ others # {})
  BY DEF Serve, Tree
<1>3. r \in GitOps /\ r.step = "stat" /\ r.alone = (others = {}) /\ r.moved = FALSE /\ r.kind = kind
  BY DEF GitOps, GitSteps
<1>4. op' = [d \in Consumers |-> IF d = c THEN r
                                 ELSE IF d \in others THEN [op[d] EXCEPT !.alone = FALSE] ELSE op[d]]
  BY DEF Serve
<1> HIDE DEF r
<1>5. op'[c] = r /\ r # NoOp
  BY <1>3, <1>4, NoOpIsNone
<1>6. ASSUME NEW d \in Consumers \ {c} PROVE
        /\ op[d] = NoOp => op'[d] = NoOp
        /\ op[d] # NoOp => /\ op'[d] \in GitOps /\ op'[d].alone = FALSE /\ op'[d] # NoOp
                           /\ op'[d].kind = op[d].kind /\ op'[d].step = op[d].step /\ op'[d].moved = op[d].moved
  <2>1. CASE op[d] = NoOp
    BY <2>1, <1>4
  <2>2. CASE op[d] # NoOp
    <3> DEFINE old == op[d]
               e == [old EXCEPT !.alone = FALSE]
    <3>1. old \in GitOps /\ op'[d] = e /\ e = [old EXCEPT !.alone = FALSE]
      BY <2>2, <1>4, OpIs
    <3> HIDE DEF old, e
    <3>2. e \in GitOps /\ e.alone = FALSE /\ e.kind = old.kind /\ e.step = old.step /\ e.moved = old.moved
      BY <3>1 DEF GitOps
    <3>3. QED
      BY <2>2, <3>1, <3>2, NoOpIsNone DEF old
  <2>3. QED
    BY <2>1, <2>2
<1>7. op' \in [Consumers -> GitOps \cup {NoOp}]
  <2>1. \A d \in Consumers : op'[d] \in GitOps \cup {NoOp}
    BY <1>3, <1>5, <1>6
  <2>2. QED
    BY <2>1, <1>4
<1>8. astray \in BOOLEAN /\ (others = {} \/ others # {})
  BY DEF GitInv, GitTypes
<1>9. GitTypes'
  BY <1>1, <1>2, <1>7, <1>8 DEF GitInv, GitTypes
<1>10. AloneIsAlone'
  BY <1>3, <1>5, <1>6 DEF AloneIsAlone
<1>11. OverlapsAreNoted'
  <2>1. ASSUME NEW d \in Consumers, op'[d] # NoOp, ~op'[d].alone PROVE astray'
    <3>1. others # {}
      BY <2>1, <1>3, <1>5, <1>6
    <3>2. QED
      BY <3>1, <1>2
  <2>2. QED
    BY <2>1 DEF OverlapsAreNoted
<1>12. EntryIsRight'
  <2>1. ASSUME ~astray' PROVE repos = head
    <3>1. ~astray /\ others = {}
      BY <2>1, <1>2, <1>8
    <3>2. \A d \in Consumers : op[d] = NoOp
      BY <3>1
    <3>3. QED
      BY <3>1, <3>2, <1>1 DEF GitInv, EntryIsRight
  <2>2. QED
    BY <2>1, <1>2 DEF EntryIsRight
<1>13. EntryIsThere'
  <2>1. ASSUME head # NoBranch, repos = NoBranch PROVE \E d \in Consumers : op'[d] # NoOp /\ Cloning(op'[d])
    <3>1. PICK d \in Consumers : op[d] # NoOp /\ Cloning(op[d])
      BY <1>1, <2>1 DEF GitInv, EntryIsThere
    <3>2. QED
      BY <3>1, <1>1, <1>6 DEF Cloning
  <2>2. QED
    BY <2>1, <1>2 DEF EntryIsThere, Cloning
<1>14. ASSUME NEW d \in Consumers, op'[d] # NoOp PROVE OpOK(op'[d], head, merging, commits, staged)
  <2>1. CASE d = c
    BY <2>1, <1>3, <1>5 DEF OpOK, OpShape, PastStat, DoneRight
  <2>2. CASE d # c
    <3>1. /\ op[d] # NoOp /\ op'[d].alone = FALSE
          /\ op'[d].kind = op[d].kind /\ op'[d].step = op[d].step /\ op'[d].moved = op[d].moved
      BY <2>2, <1>6, <1>14
    <3>2. OpOK(op[d], head, merging, commits, staged)
      BY <3>1, OpIs
    <3>3. QED
      BY <3>1, <3>2 DEF OpOK, OpShape, PastStat, DoneRight
  <2>3. QED
    BY <2>1, <2>2
<1>15. QED
  BY <1>1, <1>2, <1>9, <1>10, <1>11, <1>12, <1>13, <1>14 DEF GitInv, OpOK, OpShape, PastStat, DoneRight

\* The agent starts and ends; others edit files and push.
LEMMA AroundKeeps ==
  ASSUME GitInv, AgentStarts \/ AgentEnds \/ EditFiles \/ OthersPush PROVE GitInv'
<1>1. CASE AgentStarts
  <2>1. \A c \in Consumers : op'[c] = NoOp
    BY <1>1 DEF AgentStarts, GitInv
  <2>2. repos' = head' /\ head' = head /\ gitUp'
    BY <1>1 DEF AgentStarts, Tree
  <2>3. GitTypes'
    BY <1>1 DEF AgentStarts, Tree, GitInv, GitTypes
  <2>4. QED
    BY <2>1, <2>2, <2>3 DEF GitInv, AloneIsAlone, OverlapsAreNoted, EntryIsRight, EntryIsThere
<1>2. CASE AgentEnds
  <2>1. (\A c \in Consumers : op'[c] = NoOp) /\ ~gitUp'
    BY <1>2 DEF AgentEnds
  <2>2. op' \in [Consumers -> GitOps \cup {NoOp}]
    BY <1>2 DEF AgentEnds
  <2>3. GitTypes'
    BY <1>2, <2>2 DEF AgentEnds, Tree, GitInv, GitTypes
  <2>4. QED
    BY <2>1, <2>3 DEF GitInv, AloneIsAlone, OverlapsAreNoted, EntryIsRight, EntryIsThere
<1>3. CASE EditFiles
  <2>1. changed' \in BOOLEAN /\ UNCHANGED <<commits, head, merging, staged, remote, repos, op, gitUp, requests, astray>>
    BY <1>3 DEF EditFiles, Agent
  <2>2. QED
    BY <2>1 DEF GitInv, GitTypes, AloneIsAlone, OverlapsAreNoted, EntryIsRight, EntryIsThere, Between, Cloning,
                OpOK, OpShape, PastStat, DoneRight
<1>4. CASE OthersPush
  <2>1. NewCommit \in 0 .. MaxCommits
    BY <1>4, NewCommitType, GitAssumption DEF GitAssumption, OthersPush, GitInv
  <2>2. remote' \in SUBSET (0 .. MaxCommits)
        /\ UNCHANGED <<commits, head, merging, changed, staged, repos, op, gitUp, requests, astray>>
    BY <1>4, <2>1 DEF OthersPush, Tree, Agent, GitInv, GitTypes
  <2>3. QED
    BY <2>2 DEF GitInv, GitTypes, AloneIsAlone, OverlapsAreNoted, EntryIsRight, EntryIsThere, Between, Cloning,
                OpOK, OpShape, PastStat, DoneRight
<1>5. QED
  BY <1>1, <1>2, <1>3, <1>4

LEMMA NextGit == GitInv /\ [GitNext]_gitVars => GitInv'
<1> SUFFICES ASSUME GitInv, [GitNext]_gitVars PROVE GitInv'
  OBVIOUS
<1>1. CASE UNCHANGED gitVars
  BY <1>1 DEF gitVars, GitInv, GitTypes, AloneIsAlone, OverlapsAreNoted, EntryIsRight, EntryIsThere, Between, Cloning,
              OpOK, OpShape, PastStat, DoneRight
<1>2. ASSUME NEW c \in Consumers, Operate(c) PROVE GitInv'
  BY <1>2, StatKeeps, GitCloneKeeps, GitCheckoutKeeps, GitBranchKeeps, GitMergeKeeps, GitPullKeeps, GitPushKeeps,
     GitAddKeeps, GitDiffKeeps, GitCommitKeeps, UpdateEntryKeeps, ReplyKeeps, MayFailKeeps DEF Operate
<1>3. QED
  BY <1>1, <1>2, ServeKeeps, AroundKeeps DEF GitNext

\* An operation of the git agent that ran alone and reports success has left the tree
\* as it says, and the agent's entry names the branch checked out, for any number of
\* consumers and branches and whatever fails, conflicts or restarts (git/agent.go).
THEOREM ReportsAreTrue == GitSpec => []ReportsHold
<1>1. GitInv => ReportsHold
  <2> SUFFICES ASSUME GitInv PROVE ReportsHold
    OBVIOUS
  <2>1. \A c \in Consumers : op[c] = NoOp \/ op[c].kind \in Kinds
    BY OpIs DEF GitOps
  <2>2. GitTypeOK
    BY <2>1 DEF GitInv, GitTypes, GitTypeOK
  <2>3. ASSUME NEW c \in Consumers, In(c, Kinds, "reply"), op[c].ok, op[c].alone PROVE
          /\ op[c].kind \in {"branch", "merge"} => head = op[c].target /\ merging = {}
          /\ op[c].kind = "merge" => commits[op[c].source] \subseteq commits[op[c].target]
          /\ op[c].kind = "commit" => ~staged
    BY <2>3, OpIs DEF In, OpOK, DoneRight
  <2>4. gitUp /\ ~astray /\ (\A c \in Consumers : op[c] = NoOp) => repos = head
    BY DEF GitInv, EntryIsRight
  <2>5. QED
    BY <2>2, <2>3, <2>4 DEF ReportsHold
<1>2. QED
  BY <1>1, InitGit, NextGit, PTL DEF GitSpec

-----------------------------------------------------------------------------
(* The store of manifests. Of a file whose changes the watcher is told of, *)
(* the last event in the queue says whether it is there; when no event of  *)
(* it is left, the watcher has in hand what the file says now, or the      *)
(* store follows the file already. A file with a name of its own is not    *)
(* overwritten by another's manifest.                                      *)

Loads == [file : ManifestFiles, content : Manifests]
FileEvents == [op : {"create", "write", "remove", "rename"}, file : ManifestFiles]

ManifestTypes ==
    /\ folder \in [ManifestFiles -> Manifests \cup {Absent, Bad}]
    /\ manifests \in [AgentNames -> [file : ManifestFiles, text : 0 .. MaxEdits] \cup {NotLoaded}]
    /\ toLoad \subseteq ManifestFiles /\ watching \in BOOLEAN
    /\ fileEvents \in Seq(FileEvents)
    /\ loading \in [Loaders -> Loads \cup {Nothing}]
    /\ edits \in 0 .. MaxEdits
    /\ named \in [ManifestFiles -> SUBSET AgentNames] /\ untold \subseteq ManifestFiles
    /\ toLoad # {} => ~watching /\ \A l \in Loaders : loading[l] = Nothing

\* A name is one its file has had.
NamesKnown ==
    /\ \A f \in ManifestFiles : NamesIn(folder[f]) \subseteq named[f]
    /\ \A n \in AgentNames : manifests[n] # NotLoaded => n \in named[manifests[n].file]
    /\ \A l \in Loaders : loading[l] # Nothing => loading[l].content.name \in named[loading[l].file]

InQueue(q, f) == \E i \in 1 .. Len(q) : q[i].file = f

Right(change, there) == IF there THEN change \in {"create", "write"} ELSE change = "remove"

LastTells(q, f, there) ==
    \A i \in 1 .. Len(q) : q[i].file = f /\ (\A j \in i + 1 .. Len(q) : q[j].file # f) => Right(q[i].op, there)

Told(f) ==
    /\ f \in toLoad => folder[f] # Absent
    /\ loading["saver"].file = f => loading["saver"].content = folder[f]
    /\ LastTells(fileEvents, f, folder[f] # Absent)
    /\ OwnName(f) /\ ~InQueue(fileEvents, f) /\ f \notin toLoad =>
          IF loading["watcher"].file = f THEN loading["watcher"].content = folder[f] ELSE Follows(f)

ManifestInv == ManifestTypes /\ NamesKnown /\ \A f \in ManifestFiles \ untold : Told(f)

LEMMA ManifestsAre ==
  /\ Absent \notin Manifests /\ Bad \notin Manifests /\ Absent # Bad
  /\ NoFile \notin ManifestFiles /\ MaxEdits \in Nat
  /\ NotLoaded.file = NoFile /\ Nothing.file = NoFile
  /\ \A m \in Manifests : m.name \in AgentNames /\ m.text \in 0 .. MaxEdits /\ NamesIn(m) = {m.name}
  /\ NamesIn(Absent) = {} /\ NamesIn(Bad) = {}
<1>1. \A m \in Manifests : m.holds = "manifest" /\ m.name \in AgentNames /\ m.text \in 0 .. MaxEdits
  BY DEF Manifests, Manifest
<1>2. Absent.holds = "nothing" /\ Bad.holds = "bad"
  BY DEF Absent, Bad
<1>3. Absent \notin Manifests /\ Bad \notin Manifests /\ Absent # Bad
  BY <1>1, <1>2
<1>4. QED
  BY <1>1, <1>3, ManifestAssumption DEF ManifestAssumption, NamesIn, NotLoaded, Nothing

LEMMA NewManifest ==
  ASSUME NEW n \in AgentNames, NEW text \in 0 .. MaxEdits
  PROVE  Manifest(n, text) \in Manifests /\ Manifest(n, text).name = n
BY DEF Manifests, Manifest

\* What is loaded is not Nothing, nor is what is in the store NotLoaded.
LEMMA LoadsAre ==
  /\ \A r \in Loads : r # Nothing /\ r.file \in ManifestFiles /\ r.content \in Manifests
  /\ \A m \in [file : ManifestFiles, text : 0 .. MaxEdits] : m # NotLoaded /\ m.file \in ManifestFiles
BY ManifestsAre DEF Loads

LEMMA QueueTail ==
  ASSUME NEW q \in Seq(FileEvents), q # <<>>, NEW f \in ManifestFiles, NEW there \in BOOLEAN,
         LastTells(q, f, there)
  PROVE  /\ Tail(q) \in Seq(FileEvents) /\ Head(q) \in FileEvents
         /\ LastTells(Tail(q), f, there)
         /\ InQueue(q, f) <=> Head(q).file = f \/ InQueue(Tail(q), f)
         /\ Head(q).file = f /\ ~InQueue(Tail(q), f) => Right(Head(q).op, there)
<1>1. /\ Tail(q) \in Seq(FileEvents) /\ Head(q) \in FileEvents /\ Head(q) = q[1]
      /\ Len(Tail(q)) = Len(q) - 1 /\ Len(q) \in Nat \ {0}
      /\ \A i \in 1 .. Len(q) - 1 : Tail(q)[i] = q[i + 1]
  BY HeadTailProperties
<1>2. \A i \in 2 .. Len(q) : i - 1 \in 1 .. Len(q) - 1 /\ q[i] = Tail(q)[i - 1]
  BY <1>1
<1>3. LastTells(Tail(q), f, there)
  <2> SUFFICES ASSUME NEW i \in 1 .. Len(q) - 1, Tail(q)[i].file = f,
                      \A j \in i + 1 .. Len(q) - 1 : Tail(q)[j].file # f
               PROVE  Right(Tail(q)[i].op, there)
    BY <1>1 DEF LastTells
  <2>1. i + 1 \in 1 .. Len(q) /\ q[i + 1] = Tail(q)[i]
    BY <1>1
  <2>2. ASSUME NEW j \in (i + 1) + 1 .. Len(q) PROVE q[j].file # f
    <3>1. j - 1 \in i + 1 .. Len(q) - 1 /\ j \in 2 .. Len(q)
      BY <1>1
    <3>2. QED
      BY <1>2, <3>1
  <2>3. QED
    BY <2>1, <2>2 DEF LastTells
<1>4. InQueue(q, f) <=> Head(q).file = f \/ InQueue(Tail(q), f)
  <2>1. ASSUME InQueue(q, f) PROVE Head(q).file = f \/ InQueue(Tail(q), f)
    <3>1. PICK i \in 1 .. Len(q) : q[i].file = f
      BY <2>1 DEF InQueue
    <3>2. i = 1 \/ i \in 2 .. Len(q)
      BY <1>1
    <3>3. QED
      BY <1>1, <1>2, <3>1, <3>2 DEF InQueue
  <2>2. ASSUME Head(q).file = f \/ InQueue(Tail(q), f) PROVE InQueue(q, f)
    <3>1. \A i \in 1 .. Len(q) - 1 : i + 1 \in 1 .. Len(q)
      BY <1>1
    <3>2. QED
      BY <1>1, <2>2, <3>1 DEF InQueue
  <2>3. QED
    BY <2>1, <2>2
<1>5. ASSUME Head(q).file = f, ~InQueue(Tail(q), f) PROVE Right(Head(q).op, there)
  <2>1. \A j \in 2 .. Len(q) : q[j].file # f
    BY <1>1, <1>2, <1>5 DEF InQueue
  <2>2. QED
    BY <1>1, <1>5, <2>1 DEF LastTells
<1>6. QED
  BY <1>1, <1>3, <1>4, <1>5

LEMMA QueueAppend ==
  ASSUME NEW q \in Seq(FileEvents), NEW e \in FileEvents
  PROVE  /\ Append(q, e) \in Seq(FileEvents)
         /\ InQueue(Append(q, e), e.file)
         /\ \A there \in BOOLEAN : Right(e.op, there) => LastTells(Append(q, e), e.file, there)
         /\ \A f \in ManifestFiles \ {e.file} :
               /\ InQueue(Append(q, e), f) <=> InQueue(q, f)
               /\ \A there \in BOOLEAN : LastTells(q, f, there) => LastTells(Append(q, e), f, there)
<1> DEFINE p == Append(q, e)
<1>1. /\ p \in Seq(FileEvents) /\ Len(p) = Len(q) + 1 /\ Len(q) \in Nat
      /\ p[Len(q) + 1] = e /\ \A i \in 1 .. Len(q) : p[i] = q[i]
  BY AppendProperties
<1> HIDE DEF p
<1>2. Len(q) + 1 \in 1 .. Len(p) /\ \A i \in 1 .. Len(p) : i = Len(q) + 1 \/ i \in 1 .. Len(q)
  BY <1>1
<1>3. InQueue(p, e.file)
  BY <1>1, <1>2 DEF InQueue
<1>4. ASSUME NEW there \in BOOLEAN, Right(e.op, there) PROVE LastTells(p, e.file, there)
  <2> SUFFICES ASSUME NEW i \in 1 .. Len(p), \A j \in i + 1 .. Len(p) : p[j].file # e.file
               PROVE  i = Len(q) + 1
    BY <1>1, <1>4 DEF LastTells
  <2>1. QED
    BY <1>1
<1>5. ASSUME NEW f \in ManifestFiles \ {e.file}
      PROVE  /\ InQueue(p, f) <=> InQueue(q, f)
             /\ \A there \in BOOLEAN : LastTells(q, f, there) => LastTells(p, f, there)
  <2>1. InQueue(p, f) <=> InQueue(q, f)
    BY <1>1, <1>2 DEF InQueue
  <2>2. ASSUME NEW there \in BOOLEAN, LastTells(q, f, there),
               NEW i \in 1 .. Len(p), p[i].file = f, \A j \in i + 1 .. Len(p) : p[j].file # f
        PROVE  Right(p[i].op, there)
    <3>1. i \in 1 .. Len(q) /\ p[i] = q[i]
      BY <1>1, <1>2, <2>2
    <3>2. \A j \in i + 1 .. Len(q) : q[j].file # f
      BY <1>1, <2>2, <3>1
    <3>3. QED
      BY <2>2, <3>1, <3>2 DEF LastTells
  <2>3. QED
    BY <2>1, <2>2 DEF LastTells
<1>6. QED
  BY <1>1, <1>3, <1>4, <1>5 DEF p

LEMMA InitManifests == ManifestInit => ManifestInv
<1> SUFFICES ASSUME ManifestInit PROVE ManifestInv
  OBVIOUS
<1>1. folder \in [ManifestFiles -> Manifests \cup {Absent, Bad}]
  BY NewManifest, ManifestsAre DEF ManifestInit
<1>2. \A f \in ManifestFiles : NamesIn(folder[f]) \subseteq AgentNames
  BY <1>1, ManifestsAre DEF NamesIn
<1>3. /\ manifests = [n \in AgentNames |-> NotLoaded] /\ loading = [l \in Loaders |-> Nothing]
      /\ fileEvents = <<>> /\ watching = FALSE /\ untold = {} /\ edits = 0
      /\ toLoad = {f \in ManifestFiles : folder[f] # Absent}
      /\ named = [f \in ManifestFiles |-> NamesIn(folder[f])]
  BY DEF ManifestInit
<1>4. ManifestTypes
  <2>1. manifests \in [AgentNames -> [file : ManifestFiles, text : 0 .. MaxEdits] \cup {NotLoaded}]
    BY <1>3
  <2>2. loading \in [Loaders -> Loads \cup {Nothing}] /\ \A l \in Loaders : loading[l] = Nothing
    BY <1>3
  <2>3. named \in [ManifestFiles -> SUBSET AgentNames]
    BY <1>2, <1>3
  <2>4. fileEvents \in Seq(FileEvents) /\ edits \in 0 .. MaxEdits /\ toLoad \subseteq ManifestFiles
    BY <1>3, ManifestsAre
  <2>5. QED
    BY <1>1, <1>3, <2>1, <2>2, <2>3, <2>4 DEF ManifestTypes
<1>5. NamesKnown
  BY <1>1, <1>3 DEF NamesKnown
<1>6. ASSUME NEW f \in ManifestFiles PROVE Told(f)
  <2>1. loading["saver"].file # f /\ loading["watcher"].file # f
    BY <1>3, ManifestsAre DEF Loaders
  <2>2. LastTells(fileEvents, f, folder[f] # Absent)
    BY <1>3 DEF LastTells
  <2>3. f \notin toLoad => Follows(f)
    BY <1>3, ManifestsAre DEF Follows
  <2>4. QED
    BY <1>3, <2>1, <2>2, <2>3 DEF Told
<1>7. QED
  BY <1>4, <1>5, <1>6 DEF ManifestInv

\* A manifest comes into the store: the store follows its file, if that is what the
\* file says, and the other files as before.
LEMMA StoringFollows ==
  ASSUME ManifestInv, NEW f \in ManifestFiles, NEW content \in Manifests, content.name \in named[f],
         manifests' = Stored(f, content), UNCHANGED <<folder, named>>
  PROVE  /\ manifests' \in [AgentNames -> [file : ManifestFiles, text : 0 .. MaxEdits] \cup {NotLoaded}]
         /\ \A n \in AgentNames : manifests'[n] # NotLoaded => n \in named'[manifests'[n].file]
         /\ content = folder[f] => Follows(f)'
         /\ \A g \in ManifestFiles \ {f} : OwnName(g) /\ Follows(g) => Follows(g)'
<1> DEFINE new == [file |-> f, text |-> content.text]
<1>1. content.name \in AgentNames /\ new \in [file : ManifestFiles, text : 0 .. MaxEdits] /\ new.file = f
  BY ManifestsAre
<1>2. manifests \in [AgentNames -> [file : ManifestFiles, text : 0 .. MaxEdits] \cup {NotLoaded}]
  BY DEF ManifestInv, ManifestTypes
<1>3. manifests' = [manifests EXCEPT ![content.name] = new]
  BY DEF Stored
<1>4. /\ manifests' \in [AgentNames -> [file : ManifestFiles, text : 0 .. MaxEdits] \cup {NotLoaded}]
      /\ manifests'[content.name] = new
      /\ \A n \in AgentNames \ {content.name} : manifests'[n] = manifests[n]
  BY <1>1, <1>2, <1>3
<1> HIDE DEF new
<1>5. \A n \in AgentNames : manifests'[n] # NotLoaded => n \in named'[manifests'[n].file]
  BY <1>1, <1>4 DEF ManifestInv, NamesKnown
<1>6. content = folder[f] => Follows(f)'
  BY <1>4, ManifestsAre DEF Follows, new
<1>7. ASSUME NEW g \in ManifestFiles \ {f}, OwnName(g), Follows(g) PROVE Follows(g)'
  <2>1. content.name \notin named[g]
    BY <1>7 DEF OwnName
  <2>2. ASSUME folder[g] \in Manifests PROVE folder[g].name \in AgentNames \ {content.name}
    BY <2>1, <2>2, ManifestsAre DEF ManifestInv, NamesKnown
  <2>3. QED
    BY <1>1, <1>4, <1>7, <2>2 DEF Follows
<1>8. QED
  BY <1>4, <1>5, <1>6, <1>7

\* A manifest leaves the store: the store follows the files it was not from.
LEMMA RemovingFollows ==
  ASSUME ManifestInv, NEW n \in AgentNames, manifests' = [manifests EXCEPT ![n] = NotLoaded], UNCHANGED <<folder, named>>
  PROVE  /\ manifests' \in [AgentNames -> [file : ManifestFiles, text : 0 .. MaxEdits] \cup {NotLoaded}]
         /\ \A m \in AgentNames : manifests'[m] # NotLoaded => m \in named'[manifests'[m].file]
         /\ \A g \in ManifestFiles : manifests[n].file # g /\ Follows(g) => Follows(g)'
<1>1. manifests \in [AgentNames -> [file : ManifestFiles, text : 0 .. MaxEdits] \cup {NotLoaded}]
  BY DEF ManifestInv, ManifestTypes
<1>2. /\ manifests' \in [AgentNames -> [file : ManifestFiles, text : 0 .. MaxEdits] \cup {NotLoaded}]
      /\ manifests'[n] = NotLoaded /\ \A m \in AgentNames \ {n} : manifests'[m] = manifests[m]
  BY <1>1
<1>3. \A m \in AgentNames : manifests'[m] # NotLoaded => m \in named'[manifests'[m].file]
  BY <1>2 DEF ManifestInv, NamesKnown
<1>4. ASSUME NEW g \in ManifestFiles, manifests[n].file # g, Follows(g) PROVE Follows(g)'
  <2>1. ASSUME folder[g] \in Manifests PROVE folder[g].name \in AgentNames \ {n}
    <3>1. manifests[folder[g].name].file = g
      BY <1>4, <2>1 DEF Follows
    <3>2. QED
      BY <1>4, <2>1, <3>1, ManifestsAre
  <2>2. QED
    BY <1>2, <1>4, <2>1, ManifestsAre DEF Follows
<1>5. QED
  BY <1>2, <1>3, <1>4

LEMMA LoadOneKeeps == ASSUME ManifestInv, NEW f \in ManifestFiles, LoadOne(f) PROVE ManifestInv'
<1>1. /\ f \in toLoad /\ toLoad' = toLoad \ {f}
      /\ UNCHANGED <<folder, watching, fileEvents, loading, edits, named, untold>>
      /\ manifests' = IF folder[f] \in Manifests THEN Stored(f, folder[f]) ELSE manifests
  BY DEF LoadOne
<1>2. /\ \A l \in Loaders : loading[l] = Nothing
      /\ toLoad \subseteq ManifestFiles
      /\ folder[f] \in Manifests \cup {Absent, Bad}
  BY <1>1 DEF ManifestInv, ManifestTypes
<1>3. folder[f] \in Manifests => folder[f].name \in named[f]
  BY ManifestsAre DEF ManifestInv, NamesKnown
<1>4. /\ manifests' \in [AgentNames -> [file : ManifestFiles, text : 0 .. MaxEdits] \cup {NotLoaded}]
      /\ \A n \in AgentNames : manifests'[n] # NotLoaded => n \in named'[manifests'[n].file]
      /\ folder[f] # Absent => Follows(f)'
      /\ \A g \in ManifestFiles \ {f} : OwnName(g) /\ Follows(g) => Follows(g)'
  <2>1. CASE folder[f] \in Manifests
    BY <1>1, <1>3, <2>1, StoringFollows
  <2>2. CASE folder[f] \notin Manifests
    BY <1>1, <1>2, <2>2 DEF ManifestInv, ManifestTypes, NamesKnown, Follows
  <2>3. QED
    BY <2>1, <2>2
<1>5. ManifestTypes'
  BY <1>1, <1>4 DEF ManifestInv, ManifestTypes
<1>6. NamesKnown'
  BY <1>1, <1>4 DEF ManifestInv, NamesKnown
<1>7. ASSUME NEW g \in ManifestFiles \ untold PROVE Told(g)'
  <2>1. Told(g) /\ (OwnName(g)' <=> OwnName(g))
    BY <1>1 DEF ManifestInv, OwnName
  <2>2. loading'["watcher"].file # g
    BY <1>1, <1>2, ManifestsAre DEF Loaders
  <2>3. OwnName(g) /\ ~InQueue(fileEvents, g) /\ g \notin toLoad' => Follows(g)'
    BY <1>1, <1>4, <2>1, <2>2 DEF Told
  <2>4. QED
    BY <1>1, <2>1, <2>2, <2>3 DEF Told
<1>8. QED
  BY <1>1, <1>5, <1>6, <1>7 DEF ManifestInv

\* A file changes, whoever changes it: what the saver has in hand is what it has just
\* written, or what it had.
LEMMA ChangeKeeps ==
  ASSUME ManifestInv, NEW f \in ManifestFiles, NEW content \in Manifests \cup {Absent, Bad},
         NEW change \in {"create", "write", "remove", "rename"}, Change(f, content, change),
         change # "rename" => Right(change, content # Absent), UNCHANGED manifests,
         \/ UNCHANGED loading
         \/ /\ content \in Manifests /\ toLoad = {} /\ loading["saver"] = Nothing
            /\ loading' = [loading EXCEPT !["saver"] = [file |-> f, content |-> content]]
  PROVE  ManifestInv'
<1> DEFINE e == [op |-> change, file |-> f]
<1>1. /\ edits < MaxEdits /\ edits' = edits + 1 /\ folder' = [folder EXCEPT ![f] = content]
      /\ fileEvents' = IF watching THEN Append(fileEvents, e) ELSE fileEvents
      /\ named' = [named EXCEPT ![f] = @ \cup NamesIn(content)]
      /\ untold' = IF ~watching \/ change = "rename" \/ loading["saver"].file = f THEN untold \cup {f} ELSE untold
      /\ UNCHANGED <<toLoad, watching>>
  BY DEF Change
<1>2. e \in FileEvents /\ e.file = f /\ e.op = change
  BY DEF FileEvents
<1> HIDE DEF e
<1>3. ManifestTypes /\ NamesKnown
  BY DEF ManifestInv
<1>4. /\ folder' \in [ManifestFiles -> Manifests \cup {Absent, Bad}] /\ folder'[f] = content
      /\ \A g \in ManifestFiles \ {f} : folder'[g] = folder[g]
  BY <1>1, <1>3 DEF ManifestTypes
<1>5. NamesIn(content) \subseteq AgentNames
  BY ManifestsAre DEF NamesIn
<1>6. /\ named' \in [ManifestFiles -> SUBSET AgentNames] /\ named'[f] = named[f] \cup NamesIn(content)
      /\ \A g \in ManifestFiles \ {f} : named'[g] = named[g]
      /\ \A g \in ManifestFiles : named[g] \subseteq named'[g]
  BY <1>1, <1>3, <1>5 DEF ManifestTypes
<1>7. fileEvents' \in Seq(FileEvents)
  BY <1>1, <1>2, <1>3, QueueAppend DEF ManifestTypes
<1>8. /\ loading' \in [Loaders -> Loads \cup {Nothing}] /\ loading'["watcher"] = loading["watcher"]
      /\ \/ loading'["saver"] = loading["saver"]
         \/ /\ loading["saver"] = Nothing /\ content \in Manifests /\ toLoad = {}
            /\ loading'["saver"].file = f /\ loading'["saver"].content = content
  <2>1. CASE UNCHANGED loading
    BY <1>3, <2>1 DEF ManifestTypes
  <2>2. CASE /\ content \in Manifests /\ toLoad = {} /\ loading["saver"] = Nothing
             /\ loading' = [loading EXCEPT !["saver"] = [file |-> f, content |-> content]]
    <3>1. [file |-> f, content |-> content] \in Loads
      BY <2>2 DEF Loads
    <3>2. QED
      BY <1>3, <2>2, <3>1 DEF ManifestTypes, Loaders
  <2>3. QED
    BY <2>1, <2>2
<1>9. ManifestTypes'
  <2>1. edits' \in 0 .. MaxEdits /\ untold' \subseteq ManifestFiles
    BY <1>1, <1>3, ManifestsAre DEF ManifestTypes
  <2>2. toLoad' # {} => ~watching' /\ \A l \in Loaders : loading'[l] = Nothing
    BY <1>1, <1>3, <1>8 DEF ManifestTypes, Loaders
  <2>3. manifests' \in [AgentNames -> [file : ManifestFiles, text : 0 .. MaxEdits] \cup {NotLoaded}]
    BY <1>3 DEF ManifestTypes
  <2>4. QED
    BY <1>1, <1>3, <1>4, <1>6, <1>7, <1>8, <2>1, <2>2, <2>3 DEF ManifestTypes
<1>10. NamesKnown'
  <2>1. \A g \in ManifestFiles : NamesIn(folder'[g]) \subseteq named'[g]
    BY <1>3, <1>4, <1>6 DEF NamesKnown
  <2>2. ASSUME NEW n \in AgentNames, manifests'[n] # NotLoaded PROVE n \in named'[manifests'[n].file]
    BY <1>3, <1>6, <2>2, LoadsAre DEF ManifestTypes, NamesKnown
  <2>3. ASSUME NEW l \in Loaders, loading'[l] # Nothing
        PROVE  loading'[l].content.name \in named'[loading'[l].file]
    <3>1. CASE loading'[l] = loading[l]
      BY <1>3, <1>6, <2>3, <3>1, LoadsAre DEF ManifestTypes, NamesKnown
    <3>2. CASE loading'[l] # loading[l]
      <4>1. content \in Manifests /\ loading'[l].file = f /\ loading'[l].content = content
        BY <1>8, <3>2 DEF Loaders
      <4>2. QED
        BY <1>6, <4>1, ManifestsAre
    <3>3. QED
      BY <3>1, <3>2
  <2>4. QED
    BY <2>1, <2>2, <2>3 DEF NamesKnown
<1>11. ASSUME NEW g \in ManifestFiles \ untold' PROVE Told(g)'
  <2>1. Told(g)
    BY <1>1, <1>11 DEF ManifestInv
  <2>2. CASE g = f
    <3>1. watching /\ change # "rename" /\ loading["saver"].file # f /\ toLoad = {}
      BY <1>1, <1>3, <1>11, <2>2 DEF ManifestTypes
    <3>2. Right(change, content # Absent)
      BY <3>1
    <3>3. InQueue(fileEvents', f) /\ LastTells(fileEvents', f, content # Absent)
      BY <1>1, <1>2, <1>3, <3>1, <3>2, QueueAppend DEF ManifestTypes
    <3>4. loading'["saver"].file = f => loading'["saver"].content = content
      BY <1>8, <3>1
    <3>5. QED
      BY <1>1, <1>4, <2>2, <3>1, <3>3, <3>4 DEF Told
  <2>3. CASE g # f
    <3>1. /\ InQueue(fileEvents', g) <=> InQueue(fileEvents, g)
          /\ LastTells(fileEvents', g, folder'[g] # Absent)
      BY <1>1, <1>2, <1>3, <1>4, <2>1, <2>3, QueueAppend DEF ManifestTypes, Told
    <3>2. OwnName(g)' => OwnName(g)
      BY <1>6 DEF OwnName
    <3>3. Follows(g) => Follows(g)'
      BY <1>4, <2>3 DEF Follows
    <3>4. folder'[g] = folder[g] /\ toLoad' = toLoad
      BY <1>1, <1>4, <2>3
    <3>5. loading'["saver"].file = g => loading'["saver"].content = folder'[g]
      BY <1>8, <2>1, <2>3, <3>4 DEF Told
    <3>6. QED
      BY <1>8, <2>1, <3>1, <3>2, <3>3, <3>4, <3>5 DEF Told
  <2>4. QED
    BY <2>2, <2>3
<1>12. QED
  BY <1>9, <1>10, <1>11 DEF ManifestInv

\* What the users and SaveManifest do is such a change.
LEMMA ChangesKeepStore ==
  ASSUME ManifestInv, NEW f \in ManifestFiles,
         UserWrites(f) \/ UserReplaces(f) \/ UserRemoves(f) \/ \E n \in AgentNames : SaveManifest(f, n)
  PROVE  ManifestInv'
<1>1. edits < MaxEdits => edits + 1 \in 0 .. MaxEdits
  BY ManifestsAre DEF ManifestInv, ManifestTypes
<1>2. ASSUME NEW n \in AgentNames, edits < MaxEdits
      PROVE  Manifest(n, edits + 1) \in Manifests /\ Manifest(n, edits + 1) # Absent
  BY <1>1, <1>2, NewManifest, ManifestsAre
<1>3. CASE UserWrites(f)
  <2>1. PICK content \in {Bad} \cup {Manifest(n, edits + 1) : n \in AgentNames} : Change(f, content, WriteOp(f))
    BY <1>3 DEF UserWrites
  <2>2. edits < MaxEdits
    BY <2>1 DEF Change
  <2>3. content \in Manifests \cup {Bad} /\ content # Absent
    BY <1>2, <2>1, <2>2, ManifestsAre
  <2>4. WriteOp(f) \in {"create", "write"}
    BY DEF WriteOp
  <2>5. Right(WriteOp(f), content # Absent)
    BY <2>3, <2>4 DEF Right
  <2>6. UNCHANGED <<manifests, loading>>
    BY <1>3 DEF UserWrites
  <2>7. QED
    BY <2>1, <2>3, <2>4, <2>5, <2>6, ChangeKeeps
<1>4. CASE UserReplaces(f)
  <2>1. PICK n \in AgentNames : Change(f, Manifest(n, edits + 1), "create")
    BY <1>4 DEF UserReplaces
  <2>2. Manifest(n, edits + 1) \in Manifests /\ Manifest(n, edits + 1) # Absent
    BY <1>2, <2>1 DEF Change
  <2>3. Right("create", Manifest(n, edits + 1) # Absent)
    BY <2>2 DEF Right
  <2>4. UNCHANGED <<manifests, loading>>
    BY <1>4 DEF UserReplaces
  <2>5. QED
    BY <2>1, <2>2, <2>3, <2>4, ChangeKeeps
<1>5. CASE UserRemoves(f)
  <2>1. PICK change \in {"remove", "rename"} : Change(f, Absent, change)
    BY <1>5 DEF UserRemoves
  <2>2. change # "rename" => Right(change, Absent # Absent)
    BY DEF Right
  <2>3. UNCHANGED <<manifests, loading>>
    BY <1>5 DEF UserRemoves
  <2>4. QED
    BY <2>1, <2>2, <2>3, ChangeKeeps
<1>6. CASE \E n \in AgentNames : SaveManifest(f, n)
  <2>1. PICK n \in AgentNames : SaveManifest(f, n)
    BY <1>6
  <2> DEFINE content == Manifest(n, edits + 1)
  <2>2. Change(f, content, WriteOp(f)) /\ toLoad = {} /\ loading["saver"] = Nothing /\ UNCHANGED manifests
    BY <2>1 DEF SaveManifest
  <2>3. content \in Manifests /\ content # Absent
    BY <1>2, <2>2 DEF Change
  <2>4. folder'[f] = content
    BY <2>2 DEF Change, ManifestInv, ManifestTypes
  <2>5. loading' = [loading EXCEPT !["saver"] = [file |-> f, content |-> content]]
    BY <2>1, <2>4 DEF SaveManifest
  <2>6. WriteOp(f) \in {"create", "write"} /\ Right(WriteOp(f), content # Absent)
    BY <2>3 DEF WriteOp, Right
  <2> HIDE DEF content
  <2>7. QED
    BY <2>2, <2>3, <2>5, <2>6, ChangeKeeps
<1>7. QED
  BY <1>3, <1>4, <1>5, <1>6

\* The watcher has taken the first event; what it tells of other files is still told.
LEMMA TakenTells ==
  ASSUME ManifestInv, TakeEvent, NEW g \in ManifestFiles \ untold
  PROVE  /\ Head(fileEvents) \in FileEvents /\ fileEvents' \in Seq(FileEvents)
         /\ loading["watcher"] = Nothing /\ watching /\ toLoad = {}
         /\ LastTells(fileEvents', g, folder[g] # Absent)
         /\ Head(fileEvents).file # g /\ OwnName(g) /\ ~InQueue(fileEvents', g) => Follows(g)
         /\ Head(fileEvents).file = g /\ ~InQueue(fileEvents', g) => Right(Head(fileEvents).op, folder[g] # Absent)
<1>1. /\ watching /\ fileEvents # <<>> /\ loading["watcher"] = Nothing /\ fileEvents' = Tail(fileEvents)
      /\ fileEvents \in Seq(FileEvents) /\ toLoad = {}
  BY DEF TakeEvent, ManifestInv, ManifestTypes
<1>2. Told(g)
  BY DEF ManifestInv
<1>3. /\ Tail(fileEvents) \in Seq(FileEvents) /\ Head(fileEvents) \in FileEvents
      /\ LastTells(Tail(fileEvents), g, folder[g] # Absent)
      /\ InQueue(fileEvents, g) <=> Head(fileEvents).file = g \/ InQueue(Tail(fileEvents), g)
      /\ Head(fileEvents).file = g /\ ~InQueue(Tail(fileEvents), g) => Right(Head(fileEvents).op, folder[g] # Absent)
  <2>1. LastTells(fileEvents, g, folder[g] # Absent) /\ (folder[g] # Absent) \in BOOLEAN
    BY <1>2 DEF Told
  <2>2. QED
    BY <1>1, <2>1, QueueTail
<1>4. loading["watcher"].file # g
  BY <1>1, ManifestsAre
<1>5. QED
  BY <1>1, <1>2, <1>3, <1>4 DEF Told

LEMMA HandlingKeeps == ASSUME ManifestInv, HandleWrite \/ HandleRemove \/ HandleOther PROVE ManifestInv'
<1> DEFINE e == Head(fileEvents)
<1>1. TakeEvent /\ UNCHANGED <<folder, toLoad, watching, edits, named, untold>>
  BY DEF HandleWrite, HandleRemove, HandleOther
<1>2. ManifestTypes /\ NamesKnown
  BY DEF ManifestInv
<1>3. /\ e \in FileEvents /\ fileEvents' \in Seq(FileEvents)
      /\ loading["watcher"] = Nothing /\ watching /\ toLoad = {}
  <2>1. /\ fileEvents # <<>> /\ loading["watcher"] = Nothing /\ fileEvents' = Tail(fileEvents) /\ watching
        /\ fileEvents \in Seq(FileEvents)
    BY <1>1, <1>2 DEF TakeEvent, ManifestTypes
  <2>2. QED
    BY <1>2, <2>1, HeadTailProperties DEF ManifestTypes
<1>4. \A g \in ManifestFiles : OwnName(g)' <=> OwnName(g)
  BY <1>1 DEF OwnName
<1>5. CASE HandleWrite
  <2>1. e.file \in ManifestFiles /\ e.op \in {"write", "create"} /\ UNCHANGED manifests
    BY <1>3, <1>5 DEF HandleWrite, Reloads, FileEvents
  <2>2. /\ loading' \in [Loaders -> Loads \cup {Nothing}] /\ loading'["saver"] = loading["saver"]
        /\ folder[e.file] \in Manifests =>
              loading'["watcher"].file = e.file /\ loading'["watcher"].content = folder[e.file]
        /\ folder[e.file] \notin Manifests => loading'["watcher"] = Nothing
    <3>1. CASE folder[e.file] \in Manifests
      <4>1. loading' = [loading EXCEPT !["watcher"] = [file |-> e.file, content |-> folder[e.file]]]
        BY <1>5, <3>1 DEF HandleWrite, Read
      <4>2. [file |-> e.file, content |-> folder[e.file]] \in Loads
        BY <2>1, <3>1 DEF Loads
      <4>3. QED
        BY <1>2, <3>1, <4>1, <4>2 DEF ManifestTypes, Loaders
    <3>2. CASE folder[e.file] \notin Manifests
      BY <1>2, <1>3, <1>5, <3>2 DEF HandleWrite, ManifestTypes
    <3>3. QED
      BY <3>1, <3>2
  <2>3. ManifestTypes'
    BY <1>1, <1>2, <1>3, <2>1, <2>2 DEF ManifestTypes
  <2>4. NamesKnown'
    <3>1. ASSUME NEW l \in Loaders, loading'[l] # Nothing
          PROVE  loading'[l].content.name \in named'[loading'[l].file]
      <4>1. CASE l = "saver"
        BY <1>1, <1>2, <2>2, <3>1, <4>1 DEF NamesKnown, Loaders
      <4>2. CASE l = "watcher"
        <5>1. folder[e.file] \in Manifests /\ folder[e.file].name \in named[e.file]
          BY <1>2, <2>1, <2>2, <3>1, <4>2, ManifestsAre DEF NamesKnown
        <5>2. QED
          BY <1>1, <2>2, <4>2, <5>1
      <4>3. QED
        BY <4>1, <4>2 DEF Loaders
    <3>2. QED
      BY <1>1, <1>2, <2>1, <3>1 DEF NamesKnown
  <2>5. ASSUME NEW g \in ManifestFiles \ untold PROVE Told(g)'
    <3>1. Told(g) /\ (Follows(g)' <=> Follows(g))
      BY <1>1, <2>1 DEF ManifestInv, Follows
    <3>2. /\ LastTells(fileEvents', g, folder[g] # Absent)
          /\ e.file # g /\ OwnName(g) /\ ~InQueue(fileEvents', g) => Follows(g)
          /\ e.file = g /\ ~InQueue(fileEvents', g) => Right(e.op, folder[g] # Absent)
      BY <1>1, TakenTells
    <3>3. ASSUME OwnName(g), ~InQueue(fileEvents', g)
          PROVE  IF loading'["watcher"].file = g THEN loading'["watcher"].content = folder[g] ELSE Follows(g)
      <4>1. CASE e.file # g
        BY <2>2, <3>2, <3>3, <4>1, ManifestsAre
      <4>2. CASE e.file = g
        <5>1. folder[g] # Absent
          BY <2>1, <3>2, <3>3, <4>2 DEF Right
        <5>2. CASE folder[g] \in Manifests
          BY <2>2, <4>2, <5>2
        <5>3. CASE folder[g] \notin Manifests
          BY <2>2, <4>2, <5>1, <5>3, ManifestsAre DEF Follows
        <5>4. QED
          BY <5>2, <5>3
      <4>3. QED
        BY <4>1, <4>2
    <3>4. QED
      BY <1>1, <1>3, <1>4, <2>2, <3>1, <3>2, <3>3 DEF Told
  <2>6. QED
    BY <1>1, <2>3, <2>4, <2>5 DEF ManifestInv
<1>6. CASE HandleRemove
  <2>1. e.op = "remove" /\ e.file \in ManifestFiles /\ UNCHANGED loading
    BY <1>3, <1>6 DEF HandleRemove, FileEvents
  <2>2. /\ manifests' \in [AgentNames -> [file : ManifestFiles, text : 0 .. MaxEdits] \cup {NotLoaded}]
        /\ \A n \in AgentNames : manifests'[n] # NotLoaded => n \in named'[manifests'[n].file]
        /\ \A g \in ManifestFiles \ {e.file} : Follows(g) => Follows(g)'
        /\ OwnName(e.file) => \A n \in AgentNames : manifests'[n].file # e.file
    <3>1. CASE \A n \in AgentNames : manifests[n].file # e.file
      <4>1. UNCHANGED manifests
        BY <1>6, <3>1 DEF HandleRemove
      <4>2. QED
        BY <1>1, <1>2, <3>1, <4>1 DEF ManifestTypes, NamesKnown, Follows
    <3>2. CASE \E n \in AgentNames : manifests[n].file = e.file
      <4>1. PICK n \in AgentNames : manifests[n].file = e.file /\ manifests' = [manifests EXCEPT ![n] = NotLoaded]
        BY <1>6, <3>2 DEF HandleRemove
      <4>2. /\ manifests' \in [AgentNames -> [file : ManifestFiles, text : 0 .. MaxEdits] \cup {NotLoaded}]
            /\ \A m \in AgentNames : manifests'[m] # NotLoaded => m \in named'[manifests'[m].file]
            /\ \A g \in ManifestFiles : manifests[n].file # g /\ Follows(g) => Follows(g)'
        BY <1>1, <4>1, RemovingFollows
      <4>3. /\ manifests'[n] = NotLoaded
            /\ \A m \in AgentNames \ {n} : manifests'[m] = manifests[m]
        BY <1>2, <4>1 DEF ManifestTypes
      <4>4. ASSUME OwnName(e.file), NEW m \in AgentNames PROVE manifests'[m].file # e.file
        <5>1. CASE m = n
          BY <2>1, <4>3, <5>1, ManifestsAre
        <5>2. CASE m # n
          <6>1. ASSUME manifests[m].file = e.file PROVE FALSE
            <7>1. m \in named[e.file] /\ n \in named[e.file]
              BY <1>2, <2>1, <4>1, <6>1, ManifestsAre DEF NamesKnown
            <7>2. QED
              BY <4>4, <5>2, <7>1 DEF OwnName
          <6>2. QED
            BY <4>3, <5>2, <6>1
        <5>3. QED
          BY <5>1, <5>2
      <4>5. QED
        BY <4>1, <4>2, <4>4
    <3>3. QED
      BY <3>1, <3>2
  <2>3. ManifestTypes' /\ NamesKnown'
    BY <1>1, <1>2, <1>3, <2>1, <2>2 DEF ManifestTypes, NamesKnown
  <2>4. ASSUME NEW g \in ManifestFiles \ untold PROVE Told(g)'
    <3>1. Told(g)
      BY DEF ManifestInv
    <3>2. /\ LastTells(fileEvents', g, folder[g] # Absent)
          /\ e.file # g /\ OwnName(g) /\ ~InQueue(fileEvents', g) => Follows(g)
          /\ e.file = g /\ ~InQueue(fileEvents', g) => Right(e.op, folder[g] # Absent)
      BY <1>1, TakenTells
    <3>3. loading'["watcher"].file # g
      BY <1>3, <2>1, ManifestsAre
    <3>4. ASSUME OwnName(g), ~InQueue(fileEvents', g) PROVE Follows(g)'
      <4>1. CASE e.file # g
        BY <2>2, <3>2, <3>4, <4>1
      <4>2. CASE e.file = g
        <5>1. folder[g] = Absent
          BY <2>1, <3>2, <3>4, <4>2 DEF Right
        <5>2. QED
          BY <1>1, <2>2, <3>4, <4>2, <5>1, ManifestsAre DEF Follows
      <4>3. QED
        BY <4>1, <4>2
    <3>5. QED
      BY <1>1, <1>3, <1>4, <2>1, <3>1, <3>2, <3>3, <3>4 DEF Told
  <2>5. QED
    BY <1>1, <2>3, <2>4 DEF ManifestInv
<1>7. CASE HandleOther
  <2>1. e.op = "rename" /\ UNCHANGED <<manifests, loading>>
    BY <1>3, <1>7 DEF HandleOther, Reloads, FileEvents
  <2>2. ManifestTypes' /\ NamesKnown'
    BY <1>1, <1>2, <1>3, <2>1 DEF ManifestTypes, NamesKnown
  <2>3. ASSUME NEW g \in ManifestFiles \ untold PROVE Told(g)'
    <3>1. Told(g) /\ (Follows(g)' <=> Follows(g))
      BY <1>1, <2>1 DEF ManifestInv, Follows
    <3>2. /\ LastTells(fileEvents', g, folder[g] # Absent)
          /\ e.file # g /\ OwnName(g) /\ ~InQueue(fileEvents', g) => Follows(g)
          /\ e.file = g /\ ~InQueue(fileEvents', g) => Right(e.op, folder[g] # Absent)
      BY <1>1, TakenTells
    <3>3. ~Right(e.op, folder[g] # Absent)
      BY <2>1 DEF Right
    <3>4. loading'["watcher"].file # g
      BY <1>3, <2>1, ManifestsAre
    <3>5. QED
      BY <1>1, <1>3, <1>4, <2>1, <3>1, <3>2, <3>3, <3>4 DEF Told
  <2>4. QED
    BY <1>1, <2>2, <2>3 DEF ManifestInv
<1>8. QED
  BY <1>5, <1>6, <1>7

LEMMA StoreManifestKeeps == ASSUME ManifestInv, NEW l \in Loaders, StoreManifest(l) PROVE ManifestInv'
<1>1. ManifestTypes /\ NamesKnown /\ loading[l] # Nothing
  BY DEF ManifestInv, StoreManifest
<1>2. PICK f \in ManifestFiles, content \in Manifests : f = loading[l].file /\ content = loading[l].content
  BY <1>1, LoadsAre DEF ManifestTypes
<1>3. /\ manifests' = Stored(f, content)
      /\ loading' = [loading EXCEPT ![l] = Nothing]
      /\ UNCHANGED <<folder, toLoad, watching, fileEvents, edits, named, untold>>
  BY <1>2 DEF StoreManifest
<1>4. content.name \in named[f] /\ toLoad = {}
  BY <1>1, <1>2 DEF ManifestTypes, NamesKnown
<1>5. /\ loading' \in [Loaders -> Loads \cup {Nothing}] /\ loading'[l] = Nothing
      /\ \A k \in Loaders \ {l} : loading'[k] = loading[k]
  BY <1>1, <1>3 DEF ManifestTypes
<1>6. /\ manifests' \in [AgentNames -> [file : ManifestFiles, text : 0 .. MaxEdits] \cup {NotLoaded}]
      /\ \A n \in AgentNames : manifests'[n] # NotLoaded => n \in named'[manifests'[n].file]
      /\ content = folder[f] => Follows(f)'
      /\ \A g \in ManifestFiles \ {f} : OwnName(g) /\ Follows(g) => Follows(g)'
  BY <1>3, <1>4, StoringFollows
<1>7. ManifestTypes'
  BY <1>1, <1>3, <1>4, <1>5, <1>6 DEF ManifestTypes
<1>8. NamesKnown'
  BY <1>1, <1>3, <1>5, <1>6 DEF NamesKnown
<1>9. ASSUME NEW g \in ManifestFiles \ untold PROVE Told(g)'
  <2>1. Told(g) /\ (OwnName(g)' <=> OwnName(g))
    BY <1>3 DEF ManifestInv, OwnName
  <2>2. loading'["saver"].file = g => loading'["saver"].content = folder[g]
    BY <1>5, <2>1, ManifestsAre DEF Told, Loaders
  <2>3. ASSUME OwnName(g), ~InQueue(fileEvents, g), loading'["watcher"].file # g PROVE Follows(g)'
    <3>1. CASE g # f
      <4>1. loading["watcher"].file # g
        BY <1>2, <1>5, <2>3, <3>1 DEF Loaders
      <4>2. QED
        BY <1>4, <1>6, <2>1, <2>3, <3>1, <4>1 DEF Told
    <3>2. CASE g = f
      <4>1. content = folder[f]
        BY <1>2, <1>4, <1>5, <2>1, <2>3, <3>2 DEF Told, Loaders
      <4>2. QED
        BY <1>6, <3>2, <4>1
    <3>3. QED
      BY <3>1, <3>2
  <2>4. ASSUME OwnName(g), ~InQueue(fileEvents, g), loading'["watcher"].file = g
        PROVE  loading'["watcher"].content = folder[g]
    BY <1>4, <1>5, <2>1, <2>4, ManifestsAre DEF Told, Loaders
  <2>5. QED
    BY <1>3, <2>1, <2>2, <2>3, <2>4 DEF Told
<1>10. QED
  BY <1>3, <1>7, <1>8, <1>9 DEF ManifestInv

LEMMA DeleteManifestKeeps == ASSUME ManifestInv, NEW n \in AgentNames, DeleteManifest(n) PROVE ManifestInv'
<1>1. /\ toLoad = {} /\ manifests[n] # NotLoaded /\ manifests' = [manifests EXCEPT ![n] = NotLoaded]
      /\ untold' = untold \cup {manifests[n].file}
      /\ UNCHANGED <<folder, toLoad, watching, fileEvents, loading, edits, named>>
  BY DEF DeleteManifest
<1>2. ManifestTypes /\ NamesKnown /\ manifests[n].file \in ManifestFiles
  BY <1>1, LoadsAre DEF ManifestInv, ManifestTypes
<1>3. /\ manifests' \in [AgentNames -> [file : ManifestFiles, text : 0 .. MaxEdits] \cup {NotLoaded}]
      /\ \A m \in AgentNames : manifests'[m] # NotLoaded => m \in named'[manifests'[m].file]
      /\ \A g \in ManifestFiles : manifests[n].file # g /\ Follows(g) => Follows(g)'
  BY <1>1, RemovingFollows
<1>4. ManifestTypes' /\ NamesKnown'
  BY <1>1, <1>2, <1>3 DEF ManifestTypes, NamesKnown
<1>5. ASSUME NEW g \in ManifestFiles \ untold' PROVE Told(g)'
  <2>1. Told(g) /\ manifests[n].file # g /\ (OwnName(g)' <=> OwnName(g))
    BY <1>1 DEF ManifestInv, OwnName
  <2>2. Follows(g) => Follows(g)'
    BY <1>3, <2>1
  <2>3. QED
    BY <1>1, <2>1, <2>2 DEF Told
<1>6. QED
  BY <1>4, <1>5 DEF ManifestInv

LEMMA NextManifests == ManifestInv /\ [ManifestNext]_manifestVars => ManifestInv'
<1> SUFFICES ASSUME ManifestInv, [ManifestNext]_manifestVars PROVE ManifestInv'
  OBVIOUS
<1>1. CASE StartWatching \/ CloseStore \/ UNCHANGED manifestVars
  <2>1. UNCHANGED <<folder, manifests, toLoad, fileEvents, loading, edits, named, untold>>
    BY <1>1 DEF StartWatching, CloseStore, manifestVars
  <2>2. ManifestTypes'
    <3>1. watching' \in BOOLEAN /\ (toLoad # {} => ~watching' /\ \A l \in Loaders : loading[l] = Nothing)
      <4>1. watching \in BOOLEAN /\ (toLoad # {} => ~watching /\ \A l \in Loaders : loading[l] = Nothing)
        BY DEF ManifestInv, ManifestTypes
      <4>2. CASE StartWatching
        BY <4>2 DEF StartWatching
      <4>3. CASE CloseStore
        BY <4>1, <4>3 DEF CloseStore
      <4>4. CASE UNCHANGED manifestVars
        <5>1. watching' = watching
          BY <4>4 DEF manifestVars
        <5>2. QED
          BY <4>1, <5>1
      <4>5. QED
        BY <1>1, <4>2, <4>3, <4>4
    <3>2. QED
      BY <2>1, <3>1 DEF ManifestInv, ManifestTypes
  <2>3. NamesKnown'
    BY <2>1 DEF ManifestInv, NamesKnown
  <2>4. ASSUME NEW f \in ManifestFiles \ untold PROVE Told(f)'
    BY <2>1 DEF ManifestInv, Told, Follows, OwnName
  <2>5. QED
    BY <2>1, <2>2, <2>3, <2>4 DEF ManifestInv
<1>2. CASE HandleWrite \/ HandleRemove \/ HandleOther
  BY <1>2, HandlingKeeps
<1>3. CASE \E l \in Loaders : StoreManifest(l)
  BY <1>3, StoreManifestKeeps
<1>4. CASE \E f \in ManifestFiles : \/ LoadOne(f) \/ UserWrites(f) \/ UserReplaces(f) \/ UserRemoves(f)
                                   \/ \E n \in AgentNames : SaveManifest(f, n)
  BY <1>4, LoadOneKeeps, ChangesKeepStore
<1>5. CASE \E n \in AgentNames : DeleteManifest(n)
  BY <1>5, DeleteManifestKeeps
<1>6. QED
  BY <1>1, <1>2, <1>3, <1>4, <1>5 DEF ManifestNext

\* For any files, names and numbers of changes: when the watcher has handled all it was
\* told of, the store says what each file with a name of its own says.
THEOREM StoreIsUpToDate == ManifestSpec => []StoreFollowsFiles
<1>1. ManifestInv => StoreFollowsFiles
  <2> SUFFICES ASSUME ManifestInv PROVE StoreFollowsFiles
    OBVIOUS
  <2>1. ManifestTypeOK
    BY LoadsAre DEF ManifestInv, ManifestTypes, ManifestTypeOK, FileEvents
  <2>2. ASSUME AtRest, NEW f \in ManifestFiles \ untold, OwnName(f) PROVE Follows(f)
    <3>1. /\ watching /\ toLoad = {} /\ ~InQueue(fileEvents, f) /\ loading["watcher"].file # f
      BY <2>2, ManifestsAre DEF AtRest, ManifestInv, ManifestTypes, InQueue, Loaders
    <3>2. QED
      BY <2>2, <3>1 DEF ManifestInv, Told
  <2>3. QED
    BY <2>1, <2>2 DEF StoreFollowsFiles
<1>2. QED
  BY <1>1, InitManifests, NextManifests, PTL DEF ManifestSpec

-----------------------------------------------------------------------------
(* The terminal's transcript. The conversation only grows at its end, so   *)
(* what is saved and what a request was told stay beginnings of it; a      *)
(* request that is told more was made later, and knows what the program    *)
(* knew at any time before.                                                *)

ChatRequests == [kind : {"reply", "stream"}, prompt : Prompts, agent : ChatAgents, model : ChatModels,
                 told : Seq(Entries), knows : SUBSET (Skills \cup ContextFiles)]
Steps == [kind : {"dispatch", "tools", "handoff", "interrupted"}, prompt : Prompts]
Asking(r) == r.kind \in {"reply", "stream"}
Learnt == activeSkills \cup contexts

TranscriptTypes ==
    /\ screen \in Replies \cup {EmptyScreen, Typed, Noted}
    /\ conversation \in Seq(Entries) /\ sessionLog \in Seq(Entries) /\ savedIndex \in Nat
    /\ {sessionOpen, saveWorked, streamed, streamOn} \subseteq BOOLEAN
    /\ buffered \subseteq Prompts
    /\ currentAgent \in ChatAgents /\ modelOf \in [ChatAgents -> ChatModels]
    /\ activeSkills \subseteq Skills /\ contexts \subseteq ContextFiles
    /\ underWay \subseteq ChatRequests \cup Steps
    /\ promptCount \in 0 .. MaxPrompts /\ slashes \in 0 .. MaxSlashes /\ notices \in 0 .. MaxNotices
    /\ toolRounds \in 0 .. MaxToolRounds
    /\ underWay # {} \/ streamOn => promptCount \in Prompts

SavedOK ==
    /\ Len(sessionLog) = savedIndex /\ IsPrefix(sessionLog, conversation)
    /\ saveWorked /\ sessionOpen =>
          \A i \in savedIndex + 1 .. Len(conversation) : conversation[i].by # "assistant"

\* The requests among steps, when the conversation and the knowledge are these.
ToldOK(steps, said, known) ==
    /\ \A r \in steps : Asking(r) => IsPrefix(r.told, said) /\ r.knows \subseteq known
    /\ \A q, r \in steps : Asking(q) /\ Asking(r) /\ Len(q.told) < Len(r.told) => q.knows \subseteq r.knows

TranscriptInv == TranscriptTypes /\ SavedOK /\ ToldOK(underWay, conversation, Learnt)

LEMMA PrefixIs ==
  ASSUME NEW S, NEW s \in Seq(S), NEW t \in Seq(S)
  PROVE  IsPrefix(s, t) <=> Len(s) <= Len(t) /\ \A i \in 1 .. Len(s) : s[i] = t[i]
<1>1. Len(s) \in Nat /\ Len(t) \in Nat
  OBVIOUS
<1>2. ASSUME IsPrefix(s, t) PROVE \A i \in 1 .. Len(s) : s[i] = t[i]
  <2>1. Len(s) <= Len(t) /\ SubSeq(s, 1, Len(s)) = SubSeq(t, 1, Len(s))
    BY <1>2 DEF IsPrefix
  <2>2. \A i \in 1 .. Len(s) : SubSeq(s, 1, Len(s))[i] = s[i]
    BY <1>1
  <2>3. \A i \in 1 .. Len(s) : SubSeq(t, 1, Len(s))[i] = t[i]
    BY <1>1, <2>1
  <2>4. QED
    BY <2>1, <2>2, <2>3
<1>3. QED
  BY <1>2, PrefixMeans DEF IsPrefix

\* One more entry: what was a beginning still is, and the whole is longer.
LEMMA PrefixGrows ==
  ASSUME NEW S, NEW s \in Seq(S), NEW e \in S
  PROVE  /\ Append(s, e) \in Seq(S) /\ Len(Append(s, e)) = Len(s) + 1
         /\ IsPrefix(Append(s, e), Append(s, e))
         /\ \A r \in Seq(S) : IsPrefix(r, s) => IsPrefix(r, Append(s, e)) /\ Len(r) < Len(Append(s, e))
<1>1. /\ Append(s, e) \in Seq(S) /\ Len(Append(s, e)) = Len(s) + 1 /\ Len(s) \in Nat
      /\ \A i \in 1 .. Len(s) : Append(s, e)[i] = s[i]
  BY AppendProperties
<1>2. IsPrefix(Append(s, e), Append(s, e))
  BY <1>1 DEF IsPrefix
<1>3. ASSUME NEW r \in Seq(S), IsPrefix(r, s)
      PROVE  IsPrefix(r, Append(s, e)) /\ Len(r) < Len(Append(s, e))
  <2>1. Len(r) \in Nat /\ Len(r) <= Len(s) /\ \A i \in 1 .. Len(r) : r[i] = s[i]
    BY <1>3, PrefixIs
  <2>2. Len(r) <= Len(Append(s, e)) /\ Len(r) < Len(Append(s, e))
    BY <1>1, <2>1
  <2>3. \A i \in 1 .. Len(r) : r[i] = Append(s, e)[i]
    BY <1>1, <2>1
  <2>4. QED
    BY <1>1, <2>2, <2>3, PrefixIs
<1>4. QED
  BY <1>1, <1>2, <1>3

LEMMA SuffixIs ==
  ASSUME NEW S, NEW t \in Seq(S), NEW k \in 0 .. Len(t)
  PROVE  /\ SubSeq(t, k + 1, Len(t)) \in Seq(S)
         /\ Len(SubSeq(t, k + 1, Len(t))) = Len(t) - k
         /\ \A i \in 1 .. Len(t) - k : SubSeq(t, k + 1, Len(t))[i] = t[k + i]
OBVIOUS

LEMMA StepsAre ==
  /\ \A r \in ChatRequests \cup Steps : r.prompt \in Prompts
  /\ \A r \in Steps : ~Asking(r)
  /\ \A r \in ChatRequests \cup Steps : Asking(r) => r \in ChatRequests
  /\ \A k \in {"dispatch", "tools", "handoff", "interrupted"}, p \in Prompts : Step(k, p) \in Steps
BY DEF ChatRequests, Steps, Asking, Step

\* Whatever is said and learnt, what requests were told stays right.
LEMMA ToldStays ==
  ASSUME NEW old \in SUBSET (ChatRequests \cup Steps), NEW said \in Seq(Entries), NEW known,
         ToldOK(old, said, known),
         NEW new, new \subseteq old \cup Steps, NEW more, known \subseteq more
  PROVE  /\ ToldOK(new, said, more)
         /\ \A e \in Entries : ToldOK(new, Append(said, e), more)
<1>1. \A r \in new : Asking(r) => r \in old /\ r \in ChatRequests
  BY StepsAre
<1>2. \A r \in ChatRequests : r.told \in Seq(Entries)
  BY DEF ChatRequests
<1>3. \A r \in new : Asking(r) => IsPrefix(r.told, said) /\ r.knows \subseteq more
  BY <1>1 DEF ToldOK
<1>4. \A q, r \in new : Asking(q) /\ Asking(r) /\ Len(q.told) < Len(r.told) => q.knows \subseteq r.knows
  BY <1>1 DEF ToldOK
<1>5. \A e \in Entries : \A r \in new : Asking(r) => IsPrefix(r.told, Append(said, e))
  BY <1>1, <1>2, <1>3, PrefixGrows
<1>6. QED
  BY <1>3, <1>4, <1>5 DEF ToldOK

\* A new request is told all that was said, and knows all that is known.
LEMMA ToldNew ==
  ASSUME NEW old \in SUBSET (ChatRequests \cup Steps), NEW said \in Seq(Entries), NEW known,
         ToldOK(old, said, known), NEW e \in Entries,
         NEW r \in ChatRequests, r.told = Append(said, e), r.knows = known,
         NEW new, new \subseteq old \cup {r}
  PROVE  ToldOK(new, Append(said, e), known)
<1>1. \A q \in new : q = r \/ q \in old
  OBVIOUS
<1>2. \A q \in old : Asking(q) => /\ q.told \in Seq(Entries) /\ q.knows \subseteq known
                                  /\ IsPrefix(q.told, Append(said, e)) /\ Len(q.told) < Len(Append(said, e))
  BY StepsAre, PrefixGrows DEF ChatRequests, ToldOK
<1>3. IsPrefix(r.told, Append(said, e)) /\ Len(Append(said, e)) \in Nat
  BY PrefixGrows
<1>4. \A q \in new : Asking(q) => IsPrefix(q.told, Append(said, e)) /\ q.knows \subseteq known
  BY <1>1, <1>2, <1>3
<1>5. ASSUME NEW p \in new, NEW q \in new, Asking(p), Asking(q), Len(p.told) < Len(q.told)
      PROVE  p.knows \subseteq q.knows
  <2>1. CASE q = r
    BY <1>4, <1>5, <2>1
  <2>2. CASE q # r
    <3>1. q \in old /\ Len(q.told) < Len(Append(said, e)) /\ Len(q.told) \in Nat
      BY <1>1, <1>2, <1>5, <2>2
    <3>2. p # r
      BY <1>3, <1>5, <3>1
    <3>3. QED
      BY <1>1, <1>5, <3>1, <3>2 DEF ToldOK
  <2>3. QED
    BY <2>1, <2>2
<1>6. QED
  BY <1>4, <1>5 DEF ToldOK

LEMMA EntryType ==
  ASSUME NEW by \in {"user", "assistant", "results", "delegate"}, NEW prompts \in SUBSET Prompts
  PROVE  Entry(by, prompts) \in Entries /\ Entry(by, prompts).by = by
<1>1. Prompts \subseteq 0 .. MaxPrompts
  BY DEF Prompts
<1>2. QED
  BY <1>1 DEF Entry, Entries

LEMMA InitTranscript == TranscriptInit => TranscriptInv
<1> SUFFICES ASSUME TranscriptInit PROVE TranscriptInv
  OBVIOUS
<1>1. Entry("user", {0}) \in Entries /\ Entry("assistant", {0}) \in Entries
  BY TranscriptAssumption DEF TranscriptAssumption, Entry, Entries
<1>2. Earlier \in Seq(Entries) /\ <<>> \in Seq(Entries)
  BY <1>1 DEF Earlier
<1>3. conversation \in Seq(Entries) /\ sessionLog = conversation /\ savedIndex = Len(conversation) /\ savedIndex \in Nat
  <2>1. conversation = <<>> \/ conversation = Earlier
    BY DEF TranscriptInit
  <2>2. conversation \in Seq(Entries)
    BY <1>2, <2>1
  <2>3. QED
    BY <2>2 DEF TranscriptInit
<1>4. TranscriptTypes
  <2>1. {sessionOpen, saveWorked, streamed, streamOn} \subseteq BOOLEAN /\ ~streamOn /\ underWay = {}
    BY DEF TranscriptInit
  <2>2. screen \in {EmptyScreen, Noted} /\ buffered = {} /\ activeSkills = {} /\ contexts = {}
    BY DEF TranscriptInit
  <2>3. currentAgent \in ChatAgents /\ modelOf \in [ChatAgents -> ChatModels]
    BY TranscriptAssumption DEF TranscriptInit, TranscriptAssumption
  <2>4. /\ promptCount \in 0 .. MaxPrompts /\ slashes \in 0 .. MaxSlashes /\ notices \in 0 .. MaxNotices
        /\ toolRounds \in 0 .. MaxToolRounds
    BY TranscriptAssumption DEF TranscriptInit, TranscriptAssumption
  <2>5. QED
    BY <1>3, <2>1, <2>2, <2>3, <2>4 DEF TranscriptTypes
<1>5. SavedOK
  BY <1>3 DEF SavedOK, IsPrefix
<1>6. ToldOK(underWay, conversation, Learnt)
  BY DEF TranscriptInit, ToldOK
<1>7. QED
  BY <1>4, <1>5, <1>6 DEF TranscriptInv

\* What a step may do without saying anything: learn, answer, begin work that asks nobody.
LEMMA Quiet ==
  ASSUME TranscriptInv, UNCHANGED <<conversation, sessionLog, savedIndex, saveWorked, sessionOpen>>,
         underWay' \subseteq underWay \cup Steps, activeSkills \subseteq activeSkills', contexts \subseteq contexts'
  PROVE  SavedOK' /\ ToldOK(underWay', conversation', Learnt')
<1>1. SavedOK'
  BY DEF TranscriptInv, SavedOK
<1>2. Learnt \subseteq Learnt'
  BY DEF Learnt
<1>3. underWay \in SUBSET (ChatRequests \cup Steps) /\ conversation \in Seq(Entries)
  BY DEF TranscriptInv, TranscriptTypes
<1>4. ToldOK(underWay', conversation, Learnt')
  BY <1>2, <1>3, ToldStays DEF TranscriptInv
<1>5. QED
  BY <1>1, <1>4

\* Something is said that is not an agent's reply, and not saved yet.
LEMMA UnsavedEntry ==
  ASSUME TranscriptInv, UNCHANGED <<sessionLog, savedIndex, saveWorked, sessionOpen>>,
         NEW e \in Entries, e.by # "assistant", conversation' = Append(conversation, e)
  PROVE  conversation' \in Seq(Entries) /\ SavedOK'
<1>1. /\ conversation \in Seq(Entries) /\ sessionLog \in Seq(Entries) /\ savedIndex \in Nat /\ SavedOK
  BY DEF TranscriptInv, TranscriptTypes
<1>2. /\ conversation' \in Seq(Entries) /\ IsPrefix(sessionLog, conversation')
  BY <1>1, PrefixGrows DEF SavedOK
<1>3. /\ Len(conversation') = Len(conversation) + 1 /\ Len(conversation) \in Nat
      /\ conversation'[Len(conversation) + 1] = e
      /\ \A i \in 1 .. Len(conversation) : conversation'[i] = conversation[i]
  BY <1>1, AppendProperties
<1>4. ASSUME saveWorked, sessionOpen, NEW i \in savedIndex + 1 .. Len(conversation')
      PROVE  conversation'[i].by # "assistant"
  <2>1. i = Len(conversation) + 1 \/ (i \in savedIndex + 1 .. Len(conversation) /\ i \in 1 .. Len(conversation))
    BY <1>1, <1>3
  <2>2. QED
    BY <1>1, <1>3, <1>4, <2>1 DEF SavedOK
<1>5. QED
  BY <1>1, <1>2, <1>4 DEF SavedOK

\* An agent's reply, with an attempt to save.
LEMMA SavedEntry ==
  ASSUME TranscriptInv, UNCHANGED sessionOpen, AutoSave,
         NEW e \in Entries, conversation' = Append(conversation, e)
  PROVE  /\ conversation' \in Seq(Entries) /\ sessionLog' \in Seq(Entries) /\ savedIndex' \in Nat
         /\ saveWorked' \in BOOLEAN /\ SavedOK'
<1>1. /\ conversation \in Seq(Entries) /\ sessionLog \in Seq(Entries) /\ savedIndex \in Nat /\ SavedOK
      /\ sessionOpen \in BOOLEAN
  BY DEF TranscriptInv, TranscriptTypes
<1>2. /\ conversation' \in Seq(Entries) /\ IsPrefix(sessionLog, conversation')
  BY <1>1, PrefixGrows DEF SavedOK
<1>3. CASE saveWorked' = ~sessionOpen /\ UNCHANGED <<sessionLog, savedIndex>>
  BY <1>1, <1>2, <1>3 DEF SavedOK
<1>4. CASE /\ sessionLog' = sessionLog \o SubSeq(conversation', savedIndex + 1, Len(conversation'))
           /\ savedIndex' = Len(conversation') /\ saveWorked' = TRUE
  <2> DEFINE n == Len(conversation')
             rest == SubSeq(conversation', savedIndex + 1, n)
  <2>1. /\ n \in Nat /\ Len(sessionLog) = savedIndex /\ savedIndex <= n
        /\ \A i \in 1 .. savedIndex : sessionLog[i] = conversation'[i]
    BY <1>1, <1>2, PrefixIs DEF SavedOK
  <2>2. /\ rest \in Seq(Entries) /\ Len(rest) = n - savedIndex
        /\ \A i \in 1 .. n - savedIndex : rest[i] = conversation'[savedIndex + i]
    <3>1. savedIndex \in 0 .. Len(conversation')
      BY <1>1, <2>1
    <3>2. conversation' \in Seq(Entries)
      BY <1>2
    <3>3. QED
      BY <3>1, <3>2, SuffixIs
  <2> HIDE DEF rest
  <2>3. /\ sessionLog \o rest \in Seq(Entries) /\ Len(sessionLog \o rest) = Len(sessionLog) + Len(rest)
        /\ \A i \in 1 .. Len(sessionLog) + Len(rest) :
              (sessionLog \o rest)[i] = IF i <= Len(sessionLog) THEN sessionLog[i] ELSE rest[i - Len(sessionLog)]
    BY <1>1, <2>2, ConcatProperties
  <2>4. sessionLog' = sessionLog \o rest
    BY <1>4 DEF rest
  <2>5. Len(sessionLog') = n
    BY <1>1, <2>1, <2>2, <2>3, <2>4
  <2>6. ASSUME NEW i \in 1 .. n PROVE sessionLog'[i] = conversation'[i]
    <3>1. CASE i <= savedIndex
      BY <1>1, <2>1, <2>2, <2>3, <2>4, <3>1
    <3>2. CASE ~ (i <= savedIndex)
      <4>1. i - savedIndex \in 1 .. n - savedIndex /\ savedIndex + (i - savedIndex) = i
        BY <1>1, <2>1, <3>2
      <4>2. sessionLog'[i] = rest[i - savedIndex]
        BY <1>1, <2>1, <2>2, <2>3, <2>4, <3>2
      <4>3. rest[i - savedIndex] = conversation'[savedIndex + (i - savedIndex)]
        BY <2>2, <4>1
      <4>4. QED
        BY <4>1, <4>2, <4>3
    <3>3. QED
      BY <3>1, <3>2
  <2>7. IsPrefix(sessionLog', conversation')
    <3>1. sessionLog' \in Seq(Entries)
      BY <2>3, <2>4
    <3>2. Len(sessionLog') <= Len(conversation')
      BY <2>1, <2>5
    <3>3. \A i \in 1 .. Len(sessionLog') : sessionLog'[i] = conversation'[i]
      BY <2>5, <2>6
    <3>4. QED
      BY <1>2, <3>1, <3>2, <3>3, PrefixIs
  <2>8. \A i \in n + 1 .. n : FALSE
    BY <2>1
  <2>9. QED
    BY <1>2, <1>4, <2>1, <2>3, <2>4, <2>5, <2>7, <2>8 DEF SavedOK
<1>5. QED
  BY <1>3, <1>4 DEF AutoSave

\* Commands and notices that change what is shown, chosen or known.
LEMMA CommandsKeep ==
  ASSUME TranscriptInv,
         \/ Clear \/ ShowSomething \/ EndSession \/ Notice
         \/ \E m \in ChatModels : ChooseModel(m)
         \/ \E a \in ChatAgents : SwitchAgent(a) /\ UNCHANGED <<conversation, underWay, promptCount, toolRounds>> /\ screen' = Noted
         \/ \E s \in Skills : InvokeSkill(s)
         \/ \E c \in ContextFiles : CreateContext(c)
  PROVE  TranscriptInv'
<1>1. TranscriptTypes
  BY DEF TranscriptInv
<1>2. /\ UNCHANGED <<conversation, sessionLog, savedIndex, saveWorked, sessionOpen, streamed, streamOn, buffered>>
      /\ UNCHANGED <<underWay, promptCount, toolRounds>> /\ screen' \in {EmptyScreen, Noted}
  BY DEF Clear, ShowSomething, EndSession, Only, Notice, ChooseModel, SwitchAgent, Switched, InvokeSkill, CreateContext,
         SaveState, StreamVars, Setting, Fixed, Counts
<1>3. MaxSlashes \in Nat /\ MaxNotices \in Nat
  BY TranscriptAssumption DEF TranscriptAssumption
<1>4. slashes' \in 0 .. MaxSlashes
  <2>1. slashes' = slashes \/ (slashes < MaxSlashes /\ slashes' = slashes + 1)
    BY DEF Clear, ShowSomething, EndSession, Only, Notice, ChooseModel, SwitchAgent, Switched, InvokeSkill,
           CreateContext, Counts, Slash
  <2>2. QED
    BY <1>1, <1>3, <2>1 DEF TranscriptTypes
<1>5. notices' \in 0 .. MaxNotices
  <2>1. notices' = notices \/ (notices < MaxNotices /\ notices' = notices + 1)
    BY DEF Clear, ShowSomething, EndSession, Only, Notice, ChooseModel, SwitchAgent, InvokeSkill, CreateContext
  <2>2. QED
    BY <1>1, <1>3, <2>1 DEF TranscriptTypes
<1>6. currentAgent' \in ChatAgents /\ modelOf' \in [ChatAgents -> ChatModels]
  <2>1. CASE \E m \in ChatModels : ChooseModel(m)
    BY <1>1, <2>1 DEF ChooseModel, TranscriptTypes
  <2>2. CASE \E a \in ChatAgents : SwitchAgent(a)
    BY <1>1, <2>2 DEF SwitchAgent, Switched, TranscriptTypes
  <2>3. CASE Clear \/ ShowSomething \/ EndSession \/ Notice \/ (\E s \in Skills : InvokeSkill(s))
             \/ \E c \in ContextFiles : CreateContext(c)
    <3>1. UNCHANGED <<currentAgent, modelOf>>
      BY <2>3 DEF Clear, ShowSomething, EndSession, Only, Notice, InvokeSkill, CreateContext, Setting
    <3>2. QED
      BY <1>1, <3>1 DEF TranscriptTypes
  <2>4. QED
    BY <2>1, <2>2, <2>3
<1>7. /\ activeSkills \subseteq activeSkills' /\ activeSkills' \subseteq Skills
      /\ contexts \subseteq contexts' /\ contexts' \subseteq ContextFiles
  <2>1. CASE \E s \in Skills : InvokeSkill(s)
    BY <1>1, <2>1 DEF InvokeSkill, TranscriptTypes
  <2>2. CASE \E c \in ContextFiles : CreateContext(c)
    BY <1>1, <2>2 DEF CreateContext, TranscriptTypes
  <2>3. CASE Clear \/ ShowSomething \/ EndSession \/ Notice \/ (\E m \in ChatModels : ChooseModel(m))
             \/ \E a \in ChatAgents : SwitchAgent(a)
    <3>1. UNCHANGED <<activeSkills, contexts>>
      BY <2>3 DEF Clear, ShowSomething, EndSession, Only, Notice, ChooseModel, SwitchAgent, Switched, Setting
    <3>2. QED
      BY <1>1, <3>1 DEF TranscriptTypes
  <2>4. QED
    BY <2>1, <2>2, <2>3
<1>8. TranscriptTypes'
  BY <1>1, <1>2, <1>4, <1>5, <1>6, <1>7 DEF TranscriptTypes
<1>9. QED
  BY <1>2, <1>7, <1>8, Quiet DEF TranscriptInv

\* A prompt is counted within the bound.
LEMMA PromptCounts ==
  ASSUME TranscriptTypes, promptCount < MaxPrompts
  PROVE  promptCount + 1 \in Prompts /\ promptCount + 1 \in 0 .. MaxPrompts
BY TranscriptAssumption DEF TranscriptAssumption, TranscriptTypes, Prompts

LEMMA SendingKeeps ==
  ASSUME TranscriptInv, NEW a \in ChatAgents, SendTo(a), currentAgent' \in ChatAgents, slashes' \in 0 .. MaxSlashes,
         UNCHANGED <<sessionLog, savedIndex, saveWorked, streamOn, buffered, modelOf, activeSkills, contexts,
                     sessionOpen, streamed, notices>>
  PROVE  TranscriptInv'
<1>1. TranscriptTypes
  BY DEF TranscriptInv
<1>2. promptCount' = promptCount + 1 /\ promptCount' \in Prompts /\ promptCount' \in 0 .. MaxPrompts
  BY <1>1, PromptCounts DEF SendTo
<1>3. PICK e \in Entries : e = Entry("user", {promptCount'}) /\ e.by = "user"
  BY <1>2, EntryType
<1>4. conversation' = Append(conversation, e)
  BY <1>3 DEF SendTo
<1>5. conversation' \in Seq(Entries) /\ SavedOK'
  BY <1>3, <1>4, UnsavedEntry
<1>6. PICK r \in ChatRequests : underWay' = underWay \cup {r} /\ r.told = conversation' /\ r.knows = Learnt
  <2> DEFINE k == IF streamed THEN "stream" ELSE "reply"
  <2>1. underWay' = underWay \cup {ChatRequest(k, promptCount', a, conversation')}
    BY DEF SendTo
  <2>2. k \in {"reply", "stream"} /\ modelOf[a] \in ChatModels /\ Learnt \subseteq Skills \cup ContextFiles
    BY <1>1 DEF TranscriptTypes, Learnt
  <2> HIDE DEF k
  <2>3. ChatRequest(k, promptCount', a, conversation') \in ChatRequests
    BY <1>2, <1>5, <2>2 DEF ChatRequest, ChatRequests, Learnt
  <2>4. /\ ChatRequest(k, promptCount', a, conversation').told = conversation'
        /\ ChatRequest(k, promptCount', a, conversation').knows = Learnt
    BY DEF ChatRequest, Learnt
  <2>5. QED
    BY <2>1, <2>3, <2>4
<1>7. ToldOK(underWay', conversation', Learnt')
  <2>1. Learnt' = Learnt
    BY DEF Learnt
  <2>2. underWay \in SUBSET (ChatRequests \cup Steps) /\ conversation \in Seq(Entries)
    BY <1>1 DEF TranscriptTypes
  <2>3. ToldOK(underWay', Append(conversation, e), Learnt)
    BY <1>4, <1>6, <2>2, ToldNew DEF TranscriptInv
  <2>4. QED
    BY <1>4, <2>1, <2>3
<1>8. screen' \in Replies \cup {EmptyScreen, Typed, Noted}
  <2>1. Shown({}, a) \in Replies
    BY DEF Shown, Replies
  <2>2. QED
    BY <2>1 DEF SendTo
<1>9. toolRounds' \in 0 .. MaxToolRounds
  BY TranscriptAssumption DEF TranscriptAssumption, SendTo
<1>10. TranscriptTypes'
  BY <1>1, <1>2, <1>5, <1>6, <1>8, <1>9 DEF TranscriptTypes
<1>11. QED
  BY <1>5, <1>7, <1>10 DEF TranscriptInv

LEMMA DispatchKeeps == ASSUME TranscriptInv, Dispatch PROVE TranscriptInv'
<1>1. TranscriptTypes
  BY DEF TranscriptInv
<1>2. promptCount' = promptCount + 1 /\ promptCount' \in Prompts /\ promptCount' \in 0 .. MaxPrompts
  BY <1>1, PromptCounts DEF Dispatch
<1>3. underWay' = underWay \cup {Step("dispatch", promptCount')} /\ Step("dispatch", promptCount') \in Steps
  BY <1>2, StepsAre DEF Dispatch
<1>4. slashes' \in 0 .. MaxSlashes
  <2>1. slashes < MaxSlashes /\ slashes' = slashes + 1
    BY DEF Dispatch, Slash
  <2>2. QED
    BY <1>1, <2>1, TranscriptAssumption DEF TranscriptTypes, TranscriptAssumption
<1>5. /\ screen' = Noted
      /\ UNCHANGED <<conversation, sessionLog, savedIndex, saveWorked, streamOn, buffered, currentAgent, modelOf,
                     activeSkills, contexts, sessionOpen, streamed, notices, toolRounds>>
  BY DEF Dispatch, SaveState, StreamVars, Setting, Fixed
<1>6. TranscriptTypes'
  BY <1>1, <1>2, <1>3, <1>4, <1>5 DEF TranscriptTypes
<1>7. QED
  BY <1>3, <1>5, <1>6, Quiet DEF TranscriptInv

\* A command that has returned, and those it runs next.
LEMMA ReturnsSteps ==
  ASSUME TranscriptTypes, NEW r \in underWay, NEW next \in SUBSET Steps, Returns(r, next)
  PROVE  underWay' \subseteq ChatRequests \cup Steps /\ underWay' \subseteq underWay \cup Steps /\ promptCount \in Prompts
BY DEF TranscriptTypes, Returns

LEMMA ReplyComesKeeps == ASSUME TranscriptInv, NEW r \in underWay, ReplyComes(r) PROVE TranscriptInv'
<1>1. TranscriptTypes /\ r \in ChatRequests \cup Steps /\ r.prompt \in Prompts
  BY StepsAre DEF TranscriptInv, TranscriptTypes
<1>2. PICK e \in Entries : e = Entry("assistant", {r.prompt})
  BY <1>1, EntryType
<1>3. conversation' = Append(conversation, e) /\ AutoSave
  BY <1>2 DEF ReplyComes
<1>4. /\ UNCHANGED <<streamOn, buffered, currentAgent, modelOf, activeSkills, contexts, sessionOpen, streamed,
                     notices, promptCount, slashes>>
      /\ screen' = Shown({r.prompt}, currentAgent)
  BY DEF ReplyComes, StreamVars, Setting, Fixed
<1>5. /\ conversation' \in Seq(Entries) /\ sessionLog' \in Seq(Entries) /\ savedIndex' \in Nat
      /\ saveWorked' \in BOOLEAN /\ SavedOK'
  BY <1>3, <1>4, SavedEntry
<1>6. screen' \in Replies
  BY <1>1, <1>4 DEF Shown, Replies, TranscriptTypes
<1>7. \E next \in SUBSET Steps : Returns(r, next)
  <2>1. Step("tools", r.prompt) \in Steps /\ Step("handoff", r.prompt) \in Steps
    BY <1>1, StepsAre
  <2>2. Returns(r, {}) \/ Returns(r, {Step("tools", r.prompt)}) \/ Returns(r, {Step("handoff", r.prompt)})
    BY DEF ReplyComes
  <2>3. QED
    BY <2>1, <2>2
<1>8. /\ underWay' \subseteq ChatRequests \cup Steps /\ underWay' \subseteq underWay \cup Steps /\ promptCount \in Prompts
  BY <1>1, <1>7, ReturnsSteps
<1>9. toolRounds' \in 0 .. MaxToolRounds
  <2>1. toolRounds' = toolRounds \/ (toolRounds < MaxToolRounds /\ toolRounds' = toolRounds + 1)
    BY DEF ReplyComes
  <2>2. QED
    BY <1>1, <2>1, TranscriptAssumption DEF TranscriptTypes, TranscriptAssumption
<1>10. TranscriptTypes'
  BY <1>1, <1>4, <1>5, <1>6, <1>8, <1>9 DEF TranscriptTypes
<1>11. ToldOK(underWay', conversation', Learnt')
  <2>1. Learnt' = Learnt /\ underWay \in SUBSET (ChatRequests \cup Steps) /\ conversation \in Seq(Entries)
    BY <1>1, <1>4 DEF TranscriptTypes, Learnt
  <2>2. QED
    BY <1>3, <1>8, <2>1, ToldStays DEF TranscriptInv
<1>12. QED
  BY <1>5, <1>10, <1>11 DEF TranscriptInv

LEMMA ToolResultsKeep == ASSUME TranscriptInv, NEW r \in underWay, ToolResults(r) PROVE TranscriptInv'
<1>1. TranscriptTypes /\ r \in ChatRequests \cup Steps /\ r.prompt \in Prompts /\ promptCount \in Prompts
  BY StepsAre DEF TranscriptInv, TranscriptTypes
<1>2. PICK e \in Entries : e = Entry("results", {r.prompt}) /\ e.by = "results"
  BY <1>1, EntryType
<1>3. /\ conversation' = Append(conversation, e) /\ screen' = Noted
      /\ UNCHANGED <<sessionLog, savedIndex, saveWorked, streamOn, buffered, currentAgent, modelOf, activeSkills,
                     contexts, sessionOpen, streamed, notices, promptCount, slashes, toolRounds>>
  BY <1>2 DEF ToolResults, SaveState, StreamVars, Setting, Fixed, Counts
<1>4. conversation' \in Seq(Entries) /\ SavedOK'
  BY <1>2, <1>3, UnsavedEntry
<1>5. PICK q \in ChatRequests : underWay' = (underWay \ {r}) \cup {q} /\ q.told = conversation' /\ q.knows = Learnt
  <2> DEFINE asked == ChatRequest("reply", r.prompt, currentAgent, conversation')
  <2>1. underWay' = (underWay \ {r}) \cup {asked}
    BY DEF ToolResults, Returns
  <2>2. currentAgent \in ChatAgents /\ modelOf[currentAgent] \in ChatModels /\ Learnt \subseteq Skills \cup ContextFiles
    BY <1>1 DEF TranscriptTypes, Learnt
  <2>3. asked \in ChatRequests /\ asked.told = conversation' /\ asked.knows = Learnt
    BY <1>1, <1>4, <2>2 DEF ChatRequest, ChatRequests, Learnt
  <2> HIDE DEF asked
  <2>4. QED
    BY <2>1, <2>3
<1>6. ToldOK(underWay', conversation', Learnt')
  <2>1. Learnt' = Learnt /\ underWay \in SUBSET (ChatRequests \cup Steps) /\ conversation \in Seq(Entries)
    BY <1>1, <1>3 DEF TranscriptTypes, Learnt
  <2>2. underWay' \subseteq underWay \cup {q}
    BY <1>5
  <2>3. ToldOK(underWay', Append(conversation, e), Learnt)
    BY <1>3, <1>5, <2>1, <2>2, ToldNew DEF TranscriptInv
  <2>4. QED
    BY <1>3, <2>1, <2>3
<1>7. TranscriptTypes'
  BY <1>1, <1>3, <1>4, <1>5 DEF TranscriptTypes
<1>8. QED
  BY <1>4, <1>6, <1>7 DEF TranscriptInv

LEMMA HandoffReplyKeeps == ASSUME TranscriptInv, NEW r \in underWay, HandoffReply(r) PROVE TranscriptInv'
<1>1. TranscriptTypes /\ r.prompt \in Prompts
  BY StepsAre DEF TranscriptInv, TranscriptTypes
<1>2. PICK e \in Entries : e = Entry("delegate", {r.prompt}) /\ e.by = "delegate"
  BY <1>1, EntryType
<1>3. /\ conversation' = Append(conversation, e) /\ screen' = Noted
      /\ UNCHANGED <<sessionLog, savedIndex, saveWorked, streamOn, buffered, currentAgent, modelOf, activeSkills,
                     contexts, sessionOpen, streamed, notices, promptCount, slashes, toolRounds>>
  BY <1>2 DEF HandoffReply, SaveState, StreamVars, Setting, Fixed, Counts
<1>4. conversation' \in Seq(Entries) /\ SavedOK'
  BY <1>2, <1>3, UnsavedEntry
<1>5. /\ underWay' \subseteq ChatRequests \cup Steps /\ underWay' \subseteq underWay \cup Steps /\ promptCount \in Prompts
  BY <1>1, ReturnsSteps DEF HandoffReply
<1>6. ToldOK(underWay', conversation', Learnt')
  <2>1. Learnt' = Learnt /\ underWay \in SUBSET (ChatRequests \cup Steps) /\ conversation \in Seq(Entries)
    BY <1>1, <1>3 DEF TranscriptTypes, Learnt
  <2>2. QED
    BY <1>3, <1>5, <2>1, ToldStays DEF TranscriptInv
<1>7. TranscriptTypes'
  BY <1>1, <1>3, <1>4, <1>5 DEF TranscriptTypes
<1>8. QED
  BY <1>4, <1>6, <1>7 DEF TranscriptInv

\* What a chunk leaves on the screen.
LEMMA FilledIs ==
  ASSUME TranscriptTypes, NEW text \in SUBSET Prompts
  PROVE  Filled(text) \in Replies \cup {EmptyScreen, Typed, Noted}
<1>1. CASE screen.by = "assistant"
  <2>1. screen \in Replies
    BY <1>1 DEF TranscriptTypes, EmptyScreen, Typed, Noted
  <2>2. [screen EXCEPT !.prompts = text] \in Replies
    BY <2>1 DEF Replies
  <2>3. QED
    BY <1>1, <2>2 DEF Filled
<1>2. CASE screen.by # "assistant"
  BY <1>2 DEF Filled, TranscriptTypes
<1>3. QED
  BY <1>1, <1>2

LEMMA StreamKeeps ==
  ASSUME TranscriptInv, NEW r \in underWay, Chunk(r) \/ StreamEnds(r) \/ Fails(r)
  PROVE  TranscriptInv'
<1>1. TranscriptTypes /\ r.prompt \in Prompts /\ promptCount \in Prompts
  BY StepsAre DEF TranscriptInv, TranscriptTypes
<1>2. UNCHANGED <<conversation, sessionLog, savedIndex, saveWorked, currentAgent, modelOf, activeSkills, contexts,
                  sessionOpen, streamed, notices, promptCount, slashes, toolRounds>>
  BY DEF Chunk, StreamEnds, Fails, SaveState, Setting, Fixed, Counts
<1>3. underWay' \subseteq underWay
  BY DEF Chunk, StreamEnds, Fails, Returns
<1>4. streamOn' \in BOOLEAN /\ buffered' \subseteq Prompts
  <2>1. streamOn' \in BOOLEAN
    BY <1>1 DEF Chunk, StreamEnds, Fails, StreamVars, TranscriptTypes
  <2>2. buffered' = buffered \/ buffered' = buffered \cup {r.prompt}
    BY DEF Chunk, StreamEnds, Fails, StreamVars
  <2>3. QED
    BY <1>1, <2>1, <2>2 DEF TranscriptTypes
<1>5. screen' \in Replies \cup {EmptyScreen, Typed, Noted}
  <2>1. CASE Chunk(r)
    BY <1>1, <1>4, <2>1, FilledIs DEF Chunk
  <2>2. CASE StreamEnds(r) \/ Fails(r)
    BY <1>1, <2>2 DEF StreamEnds, Fails, TranscriptTypes
  <2>3. QED
    BY <2>1, <2>2
<1>6. TranscriptTypes'
  BY <1>1, <1>2, <1>3, <1>4, <1>5 DEF TranscriptTypes
<1>7. QED
  BY <1>2, <1>3, <1>6, Quiet DEF TranscriptInv

LEMMA LastChunkKeeps == ASSUME TranscriptInv, NEW r \in underWay, LastChunk(r) PROVE TranscriptInv'
<1>1. TranscriptTypes /\ r.prompt \in Prompts
  BY StepsAre DEF TranscriptInv, TranscriptTypes
<1>2. buffered' = buffered \cup {r.prompt} /\ buffered' \subseteq Prompts
  BY <1>1 DEF LastChunk, TranscriptTypes
<1>3. PICK text \in SUBSET Prompts : text = buffered'
  BY <1>2
<1>4. PICK e \in Entries : e = Entry("assistant", text)
  BY EntryType
<1>5. /\ conversation' = Append(conversation, e) /\ AutoSave /\ streamOn' = FALSE /\ screen' = Filled(text)
      /\ UNCHANGED <<currentAgent, modelOf, activeSkills, contexts, sessionOpen, streamed, notices,
                     promptCount, slashes, toolRounds>>
  BY <1>3, <1>4 DEF LastChunk, Setting, Fixed, Counts
<1>6. /\ conversation' \in Seq(Entries) /\ sessionLog' \in Seq(Entries) /\ savedIndex' \in Nat
      /\ saveWorked' \in BOOLEAN /\ SavedOK'
  BY <1>5, SavedEntry
<1>7. screen' \in Replies \cup {EmptyScreen, Typed, Noted}
  BY <1>1, <1>5, FilledIs
<1>8. /\ underWay' \subseteq ChatRequests \cup Steps /\ underWay' \subseteq underWay \cup Steps /\ promptCount \in Prompts
  BY <1>1, ReturnsSteps DEF LastChunk
<1>9. TranscriptTypes'
  BY <1>1, <1>2, <1>5, <1>6, <1>7, <1>8 DEF TranscriptTypes
<1>10. ToldOK(underWay', conversation', Learnt')
  <2>1. Learnt' = Learnt /\ underWay \in SUBSET (ChatRequests \cup Steps) /\ conversation \in Seq(Entries)
    BY <1>1, <1>5 DEF TranscriptTypes, Learnt
  <2>2. QED
    BY <1>5, <1>8, <2>1, ToldStays DEF TranscriptInv
<1>11. QED
  BY <1>6, <1>9, <1>10 DEF TranscriptInv

LEMMA InterruptKeeps == ASSUME TranscriptInv, Interrupt PROVE TranscriptInv'
<1>1. TranscriptTypes /\ promptCount \in Prompts
  BY DEF TranscriptInv, TranscriptTypes, Interrupt
<1>2. underWay' = underWay \cup {Step("interrupted", promptCount)} /\ Step("interrupted", promptCount) \in Steps
  BY <1>1, StepsAre DEF Interrupt
<1>3. /\ streamOn' = FALSE
      /\ UNCHANGED <<screen, conversation, sessionLog, savedIndex, saveWorked, buffered, currentAgent, modelOf,
                     activeSkills, contexts, sessionOpen, streamed, notices, promptCount, slashes, toolRounds>>
  BY DEF Interrupt, SaveState, Setting, Fixed, Counts
<1>4. TranscriptTypes'
  BY <1>1, <1>2, <1>3 DEF TranscriptTypes
<1>5. QED
  BY <1>2, <1>3, <1>4, Quiet DEF TranscriptInv

LEMMA NextTranscript == TranscriptInv /\ [TranscriptNext]_transcriptVars => TranscriptInv'
<1> SUFFICES ASSUME TranscriptInv, [TranscriptNext]_transcriptVars PROVE TranscriptInv'
  OBVIOUS
<1>1. CASE SendMessage
  <2>1. /\ SendTo(currentAgent) /\ currentAgent' = currentAgent /\ slashes' = slashes
        /\ UNCHANGED <<sessionLog, savedIndex, saveWorked, streamOn, buffered, modelOf, activeSkills, contexts,
                       sessionOpen, streamed, notices>>
    BY <1>1 DEF SendMessage, SaveState, StreamVars, Setting, Fixed
  <2>2. currentAgent \in ChatAgents /\ slashes \in 0 .. MaxSlashes
    BY DEF TranscriptInv, TranscriptTypes
  <2>3. PICK a \in ChatAgents : a = currentAgent
    BY <2>2
  <2>4. QED
    BY <2>1, <2>2, <2>3, SendingKeeps
<1>2. ASSUME NEW a \in ChatAgents, SwitchAgent(a) PROVE TranscriptInv'
  <2>1. CASE SendTo(a)
    <3>1. /\ currentAgent' = a /\ slashes < MaxSlashes /\ slashes' = slashes + 1
          /\ UNCHANGED <<sessionLog, savedIndex, saveWorked, streamOn, buffered, modelOf, activeSkills, contexts,
                         sessionOpen, streamed, notices>>
      BY <1>2 DEF SwitchAgent, Switched, Slash, SaveState, StreamVars, Fixed
    <3>2. slashes' \in 0 .. MaxSlashes
      BY <3>1, TranscriptAssumption DEF TranscriptInv, TranscriptTypes, TranscriptAssumption
    <3>3. QED
      BY <2>1, <3>1, <3>2, SendingKeeps
  <2>2. CASE screen' = Noted /\ UNCHANGED <<conversation, underWay, promptCount, toolRounds>>
    BY <1>2, <2>2, CommandsKeep
  <2>3. QED
    BY <1>2, <2>1, <2>2 DEF SwitchAgent
<1>3. CASE \E r \in underWay : ReplyComes(r) \/ Fails(r) \/ ToolResults(r) \/ HandoffReply(r) \/ Chunk(r) \/ LastChunk(r)
                               \/ StreamEnds(r)
  <2>1. PICK r \in underWay : ReplyComes(r) \/ Fails(r) \/ ToolResults(r) \/ HandoffReply(r) \/ Chunk(r) \/ LastChunk(r)
                               \/ StreamEnds(r)
    BY <1>3
  <2>2. QED
    BY <2>1, ReplyComesKeeps, ToolResultsKeep, HandoffReplyKeeps, StreamKeeps, LastChunkKeeps
<1>4. CASE UNCHANGED transcriptVars
  <2>1. TranscriptTypes'
    BY <1>4 DEF TranscriptInv, TranscriptTypes, transcriptVars
  <2>2. QED
    BY <1>4, <2>1, Quiet DEF TranscriptInv, transcriptVars
<1>5. QED
  <2>1. CASE Dispatch \/ Interrupt
    BY <2>1, DispatchKeeps, InterruptKeeps
  <2>2. CASE Clear \/ ShowSomething \/ EndSession \/ Notice \/ (\E m \in ChatModels : ChooseModel(m))
             \/ (\E s \in Skills : InvokeSkill(s)) \/ \E c \in ContextFiles : CreateContext(c)
    BY <2>2, CommandsKeep
  <2>3. QED
    BY <1>1, <1>2, <1>3, <1>4, <2>1, <2>2 DEF TranscriptNext

\* For any prompts, agents, skills and commands: nothing an agent has replied is missing
\* in the session's file but after a failed save, and every request is told a beginning
\* of the conversation with all the skills and context files of the requests before.
THEOREM TranscriptIsKept == TranscriptSpec => []ConversationIsKept
<1>1. TranscriptInv => ConversationIsKept
  <2> SUFFICES ASSUME TranscriptInv PROVE ConversationIsKept
    OBVIOUS
  <2>1. Requests \subseteq underWay /\ \A r \in Requests : Asking(r)
    BY DEF Requests, Asking
  <2>2. TranscriptTypeOK
    <3>1. savedIndex \in 0 .. Len(conversation)
      BY DEF TranscriptInv, TranscriptTypes, SavedOK, IsPrefix
    <3>2. \A r \in underWay : /\ r.kind \in {"reply", "stream", "dispatch", "tools", "handoff", "interrupted"}
                              /\ r.prompt \in Prompts
      BY DEF TranscriptInv, TranscriptTypes, ChatRequests, Steps
    <3>3. QED
      BY <3>1, <3>2 DEF TranscriptInv, TranscriptTypes, TranscriptTypeOK
  <2>3. QED
    BY <2>1, <2>2 DEF TranscriptInv, SavedOK, ToldOK, ConversationIsKept
<1>2. QED
  BY <1>1, InitTranscript, NextTranscript, PTL DEF TranscriptSpec
=============================================================================

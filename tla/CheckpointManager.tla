------------------------- MODULE CheckpointManager -------------------------
(***************************************************************************)
(* Manager and FileStorage of pkg/checkpoint for one session: Create with  *)
(* its interval check and its snapshots, the enforceLimits goroutine every *)
(* Create leaves behind, Restore with its backup, Delete and the hourly    *)
(* cleanupExpired. FileStorage holds its lock for the whole of each call.  *)
(* The program may end at any time (the checkpoints commands end right     *)
(* after one call), and its goroutines with it. A checkpoint is identified *)
(* by its CreatedAt; contents are numbers; a file in LargeFiles is longer  *)
(* than LargeFileThreshold.                                                *)
(***************************************************************************)
EXTENDS Naturals, FiniteSets

CONSTANTS Users,             \* goroutines that call the manager
          Paths, LargeFiles,
          RestoreModes,      \* pairs of CreateBackup and OverwriteExisting
          MaxCheckpoints, MaxTotalSize,   \* of StorageConfig
          MaxEvents                       \* bound on the events

ASSUME CheckpointAssumption ==
    /\ IsFiniteSet(Paths) /\ LargeFiles \subseteq Paths /\ RestoreModes \subseteq BOOLEAN \X BOOLEAN
    /\ {MaxCheckpoints, MaxTotalSize, MaxEvents} \subseteq Nat

VARIABLES disk,          \* the content of each file, Missing when there is none
          kept,          \* the checkpoints stored
          recent,        \* MinIntervalBetween has not passed since LastCheckpoint
          user,          \* the call each user is in
          enforcers,     \* the enforceLimits goroutines
          expiring,      \* checkpoints cleanupExpired has found too old
          events,        \* counts calls, edits, cleanups and ends of the program
          saved,         \* history: every checkpoint ever stored
          dropped,       \* history: those enforceLimits deleted
          cutShort       \* history: the program ended with an enforceLimits at work

checkpointVars == <<disk, kept, recent, user, enforcers, expiring, events,
                    saved, dropped, cutShort>>

Missing == 0
Lost == MaxEvents + 2   \* a ContentRef without a blob
Free == [step |-> "idle"]

SizeOf(cps) == Cardinality({s \in cps \X Paths : s[2] \in DOMAIN s[1].snapshots})
OldestOf(cps) == CHOOSE c \in cps : \A d \in cps : c.at <= d.at
NewestOf(n, cps) == {c \in cps : Cardinality({d \in cps : d.at > c.at}) < n}

Event == events < MaxEvents /\ events' = events + 1

CheckpointInit ==
    /\ disk = [p \in Paths |-> 1]
    /\ kept = {} /\ saved = {} /\ dropped = {} /\ expiring = {}
    /\ recent = FALSE /\ cutShort = FALSE
    /\ user = [u \in Users |-> Free]
    /\ enforcers = {}
    /\ events = 0

-----------------------------------------------------------------------------
(* Create: the interval check, one snapshot after the other, the save and  *)
(* the update of the session state. then is what follows the call.         *)
CreateFrom(u, paths, then) ==
    IF recent
    THEN user' = [user EXCEPT ![u] = then]
    ELSE user' = [user EXCEPT ![u] = [step |-> "snapshot", at |-> events + 1, todo |-> paths,
                                      taken |-> {}, then |-> then]]

BeginCreate(u, paths) ==
    /\ Event
    /\ user[u] = Free
    /\ CreateFrom(u, paths, Free)
    /\ UNCHANGED <<disk, kept, recent, enforcers, expiring, saved, dropped, cutShort>>

SnapshotFile(u, p) ==
    /\ user[u].step = "snapshot" /\ p \in user[u].todo
    /\ user' = [user EXCEPT ![u].todo = @ \ {p},
                            ![u].taken = IF disk[p] = Missing THEN @
                                         ELSE @ \cup {<<p, IF p \in LargeFiles THEN Lost ELSE disk[p]>>}]
    /\ UNCHANGED <<disk, kept, recent, enforcers, expiring, events, saved, dropped, cutShort>>

Checkpoint(u) ==
    [at |-> user[u].at,
     snapshots |-> [p \in {t[1] : t \in user[u].taken} |->
                       (CHOOSE t \in user[u].taken : t[1] = p)[2]]]

SaveCheckpointFile(u) ==
    /\ user[u].step = "snapshot" /\ user[u].todo = {}
    /\ \/ /\ kept' = kept \cup {Checkpoint(u)}
          /\ saved' = saved \cup {Checkpoint(u)}
          /\ user' = [user EXCEPT ![u].step = "saved"]
       \/ /\ user' = [user EXCEPT ![u] = user[u].then]
          /\ UNCHANGED <<kept, saved>>
    /\ UNCHANGED <<disk, recent, enforcers, expiring, events, dropped, cutShort>>

UpdateSessionState(u) ==
    /\ user[u].step = "saved"
    /\ recent' = TRUE
    /\ enforcers' = enforcers \cup {[for |-> user[u].at, step |-> "start", list |-> {}, total |-> 0]}
    /\ user' = [user EXCEPT ![u] = user[u].then]
    /\ UNCHANGED <<disk, kept, expiring, events, saved, dropped, cutShort>>

IntervalPasses ==
    /\ recent /\ recent' = FALSE
    /\ UNCHANGED <<disk, kept, user, enforcers, expiring, events, saved, dropped, cutShort>>

(* enforceLimits: the list, then one Delete after the other down to        *)
(* MaxCheckpoints, then the size of what is stored by now and Deletes from *)
(* the head of the list, which still names what the first loop deleted.    *)
Replace(e, next) == enforcers' = (enforcers \ {e}) \cup next

EnforceList(e) ==
    /\ e \in enforcers /\ e.step = "start"
    /\ Replace(e, {[e EXCEPT !.step = "count", !.list = kept]})
    /\ cutShort' = FALSE
    /\ UNCHANGED <<disk, kept, recent, user, expiring, events, saved, dropped>>

Drop(c) ==
    /\ kept' = kept \ {c}
    /\ dropped' = dropped \cup ({c} \cap kept)

\* A mutant: List's order, newest first, is not turned round.
EnforceCountUnsorted(e) ==
    /\ e \in enforcers /\ e.step = "count"
    /\ LET stays == {c \in e.list : Cardinality({d \in e.list : d.at < c.at}) < MaxCheckpoints}
           doomed == (e.list \ stays) \cap kept
       IN IF doomed # {}
          THEN Drop(OldestOf(doomed)) /\ UNCHANGED enforcers
          ELSE /\ Replace(e, {[e EXCEPT !.step = "size", !.total = SizeOf(kept)]})
               /\ UNCHANGED <<kept, dropped>>
    /\ UNCHANGED <<disk, recent, user, expiring, events, saved, cutShort>>

EnforceCount(e) ==
    /\ e \in enforcers /\ e.step = "count"
    /\ LET surplus == e.list \ NewestOf(MaxCheckpoints, e.list)
           doomed == surplus \cap kept
       IN IF doomed # {}
          THEN Drop(OldestOf(doomed)) /\ UNCHANGED enforcers
          ELSE /\ Replace(e, {[e EXCEPT !.step = "size", !.total = SizeOf(kept)]})
               /\ UNCHANGED <<kept, dropped>>
    /\ UNCHANGED <<disk, recent, user, expiring, events, saved, cutShort>>

EnforceSize(e) ==
    /\ e \in enforcers /\ e.step = "size"
    /\ IF e.total > MaxTotalSize /\ e.list # {}
       THEN LET c == OldestOf(e.list) IN
            /\ Drop(c)
            /\ Replace(e, {[e EXCEPT !.list = @ \ {c}, !.total = @ - SizeOf({c})]})
       ELSE Replace(e, {}) /\ UNCHANGED <<kept, dropped>>
    /\ UNCHANGED <<disk, recent, user, expiring, events, saved, cutShort>>

-----------------------------------------------------------------------------
(* Restore: the checkpoint is loaded, backed up over if asked, whatever    *)
(* Create answers, and its files written one after the other.              *)
BeginRestore(u, c, backup, overwrite) ==
    /\ Event
    /\ user[u] = Free /\ c \in kept
    /\ LET restore == [step |-> "restore", of |-> c, todo |-> DOMAIN c.snapshots,
                       overwrite |-> overwrite]
       IN IF backup THEN CreateFrom(u, DOMAIN c.snapshots, restore)
          ELSE user' = [user EXCEPT ![u] = restore]
    /\ UNCHANGED <<disk, kept, recent, enforcers, expiring, saved, dropped, cutShort>>

RestoreFile(u, p) ==
    /\ user[u].step = "restore" /\ p \in user[u].todo
    /\ user' = [user EXCEPT ![u].todo = @ \ {p}]
    /\ LET content == user[u].of.snapshots[p] IN
       IF content = Lost \/ (disk[p] # Missing /\ ~user[u].overwrite)
       THEN UNCHANGED disk
       ELSE disk' = [disk EXCEPT ![p] = content]
    /\ UNCHANGED <<kept, recent, enforcers, expiring, events, saved, dropped, cutShort>>

EndRestore(u) ==
    /\ user[u].step = "restore" /\ user[u].todo = {}
    /\ user' = [user EXCEPT ![u] = Free]
    /\ UNCHANGED <<disk, kept, recent, enforcers, expiring, events, saved, dropped, cutShort>>

DeleteCheckpoint(u, c) ==
    /\ Event
    /\ user[u] = Free /\ c \in kept
    /\ kept' = kept \ {c}
    /\ UNCHANGED <<disk, recent, user, enforcers, expiring, saved, dropped, cutShort>>

(* cleanupExpired: what the list shows as older than MaxAge is deleted one *)
(* by one.                                                                 *)
FindExpired(c) ==
    /\ Event
    /\ expiring = {} /\ c \in kept
    /\ expiring' = {d \in kept : d.at <= c.at}
    /\ UNCHANGED <<disk, kept, recent, user, enforcers, saved, dropped, cutShort>>

DeleteExpired(c) ==
    /\ c \in expiring
    /\ kept' = kept \ {c} /\ expiring' = expiring \ {c}
    /\ UNCHANGED <<disk, recent, user, enforcers, events, saved, dropped, cutShort>>

-----------------------------------------------------------------------------
Edit(p) ==
    /\ Event
    /\ \/ disk' = [disk EXCEPT ![p] = events + 2]
       \/ disk' = [disk EXCEPT ![p] = Missing]
    /\ UNCHANGED <<kept, recent, user, enforcers, expiring, saved, dropped, cutShort>>

ProgramEnds ==
    /\ Event
    /\ recent' = FALSE
    /\ user' = [u \in Users |-> Free]
    /\ cutShort' = (cutShort \/ enforcers # {} \/ \E u \in Users : user[u].step = "saved")
    /\ enforcers' = {} /\ expiring' = {}
    /\ UNCHANGED <<disk, kept, saved, dropped>>

CheckpointCall(u) ==
    \/ BeginCreate(u, Paths)
    \/ \E p \in Paths : SnapshotFile(u, p) \/ RestoreFile(u, p)
    \/ SaveCheckpointFile(u) \/ UpdateSessionState(u) \/ EndRestore(u)
    \/ \E c \in kept : DeleteCheckpoint(u, c)
    \/ \E c \in kept, mode \in RestoreModes : BeginRestore(u, c, mode[1], mode[2])

CheckpointNext ==
    \/ \E u \in Users : CheckpointCall(u)
    \/ \E e \in enforcers : EnforceList(e) \/ EnforceCount(e) \/ EnforceSize(e)
    \/ \E c \in kept : FindExpired(c)
    \/ \E c \in expiring : DeleteExpired(c)
    \/ \E p \in Paths : Edit(p)
    \/ IntervalPasses \/ ProgramEnds

CheckpointSpec == CheckpointInit /\ [][CheckpointNext]_checkpointVars

-----------------------------------------------------------------------------
(* The limits cost nothing but old checkpoints: what enforceLimits deletes *)
(* is older than MaxCheckpoints others, or does not fit with those that    *)
(* are newer into MaxTotalSize. And they hold: once every enforceLimits    *)
(* that was started has ended by itself, no more than MaxCheckpoints       *)
(* remain, though each works on a list that others change meanwhile.       *)
LimitsCostTheOldest ==
    /\ \A d \in dropped :
          \/ Cardinality({c \in saved : c.at > d.at}) >= MaxCheckpoints
          \/ SizeOf({c \in saved : c.at >= d.at}) > MaxTotalSize
    /\ (enforcers = {} /\ ~cutShort /\ \A u \in Users : user[u].step # "saved")
          => Cardinality(kept) <= MaxCheckpoints
=============================================================================

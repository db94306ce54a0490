------------------------------ MODULE Recovery ------------------------------
(***************************************************************************)
(* RecoveryManager of pkg/resilience/recovery.go, for one agent and a      *)
(* CheckpointStore that keeps what Save was given (the one in memory keeps *)
(* it while the store's own process lives). CreateCheckpoint reads the     *)
(* agent's state, then the stored version, then saves, with no lock over   *)
(* the three. After a crash the agent starts anew, restores its state with *)
(* Recover and only then has it checkpointed again. The state is a counter *)
(* of the agent's work.                                                    *)
(***************************************************************************)
EXTENDS Naturals

CONSTANTS Checkpointers,     \* goroutines that call CreateCheckpoint
          MaxWork, MaxCrashes,
          MaxVersion         \* bound on the versions

ASSUME RecoveryAssumption == {MaxWork, MaxCrashes, MaxVersion} \subseteq Nat

VARIABLES agent,          \* "running", "down", or "restarting" before Recover
          work,           \* its state
          checkpoint,     \* the checkpoint in the store
          creating,       \* how far each CreateCheckpoint is
          promised,       \* the most work a successful CreateCheckpoint has saved
          crashes

recoveryVars == <<agent, work, checkpoint, creating, promised, crashes>>

NoCheckpoint == [version |-> 0, work |-> 0]
Idle == [step |-> "idle", work |-> 0, version |-> 0]

RecoveryTypeOK ==
    /\ agent \in {"running", "down", "restarting"}
    /\ work \in 0 .. MaxWork /\ promised \in 0 .. MaxWork /\ crashes \in 0 .. MaxCrashes
    /\ checkpoint \in [version : 0 .. MaxVersion, work : 0 .. MaxWork]
    /\ creating \in [Checkpointers ->
           [step : {"idle", "extracted", "loaded"}, work : 0 .. MaxWork, version : 0 .. MaxVersion]]

RecoveryInit ==
    /\ agent = "restarting"
    /\ work = 0 /\ checkpoint = NoCheckpoint /\ promised = 0 /\ crashes = 0
    /\ creating = [c \in Checkpointers |-> Idle]

-----------------------------------------------------------------------------
Work ==
    /\ agent = "running" /\ work < MaxWork
    /\ work' = work + 1
    /\ UNCHANGED <<agent, checkpoint, creating, promised, crashes>>

\* A mutant: checkpoints of the state before Recover.
ExtractStateEarly(c) ==
    /\ agent # "down" /\ creating[c] = Idle
    /\ creating' = [creating EXCEPT ![c] = [step |-> "extracted", work |-> work, version |-> 0]]
    /\ UNCHANGED <<agent, work, checkpoint, promised, crashes>>

ExtractState(c) ==
    /\ agent = "running" /\ creating[c] = Idle
    /\ creating' = [creating EXCEPT ![c] = [step |-> "extracted", work |-> work, version |-> 0]]
    /\ UNCHANGED <<agent, work, checkpoint, promised, crashes>>

LoadVersion(c) ==
    /\ creating[c].step = "extracted" /\ checkpoint.version < MaxVersion
    /\ creating' = [creating EXCEPT ![c].step = "loaded", ![c].version = checkpoint.version + 1]
    /\ UNCHANGED <<agent, work, checkpoint, promised, crashes>>

SaveCheckpoint(c) ==
    /\ creating[c].step = "loaded"
    /\ \/ /\ checkpoint' = [version |-> creating[c].version, work |-> creating[c].work]
          /\ promised' = IF creating[c].work > promised THEN creating[c].work ELSE promised
       \/ UNCHANGED <<checkpoint, promised>>      \* ErrCheckpointFailed
    /\ creating' = [creating EXCEPT ![c] = Idle]
    /\ UNCHANGED <<agent, work, crashes>>

\* The checkpointing runs in the agent's process.
Crash ==
    /\ agent # "down" /\ crashes < MaxCrashes
    /\ agent' = "down" /\ crashes' = crashes + 1
    /\ work' = 0
    /\ creating' = [c \in Checkpointers |-> Idle]
    /\ UNCHANGED <<checkpoint, promised>>

Restart ==
    /\ agent = "down" /\ agent' = "restarting"
    /\ UNCHANGED <<work, checkpoint, creating, promised, crashes>>

\* Recover with what Load returned; without a checkpoint the agent starts fresh,
\* and when the restorer fails it is not started.
Recover ==
    /\ agent = "restarting"
    /\ agent' = "running" /\ work' = checkpoint.work
    /\ UNCHANGED <<checkpoint, creating, promised, crashes>>

RecoveryNext ==
    \/ Work \/ Crash \/ Restart \/ Recover
    \/ \E c \in Checkpointers : ExtractState(c) \/ LoadVersion(c) \/ SaveCheckpoint(c)

RecoverySpec == RecoveryInit /\ [][RecoveryNext]_recoveryVars

-----------------------------------------------------------------------------
\* With the periodic checkpointing alone a crash costs no more than what was done
\* since a checkpoint that was saved, whenever it comes: no older state, and not
\* that of the fresh start, replaces a newer one (recovery.go:140-192).
CrashCostsLittle ==
    /\ RecoveryTypeOK
    /\ checkpoint.work >= promised
    /\ agent = "running" => work >= promised
=============================================================================

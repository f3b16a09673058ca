--------------------------- MODULE RuntimeLedger ---------------------------
(***************************************************************************)
(* The runtime event ledger and the execution checkpoints of               *)
(* core/runtime_events.py.  The events of a task form a hash chain in a    *)
(* table of SQLite; record_event reads the last hash of the task and       *)
(* inserts the next event under the lock of its ledger object.  The        *)
(* pipeline's routes make one object per record of a task and per restored *)
(* task, over one database file; the table itself checks nothing.          *)
(*                                                                         *)
(* A hash is the event's own position-free identity: the previous hash and *)
(* the event, nested.  A checkpoint file is written in place; its checksum *)
(* covers the stage, the commit and the turn.                              *)
(***************************************************************************)
EXTENDS Naturals, Sequences, FiniteSets

CONSTANTS
    LedgerTasks,    \* task identifiers
    Recorders,      \* threads that record events
    LedgerOf,       \* the ledger object each recorder uses
    MaxRuntimeEvents, \* bound: events recorded
    MaxSaves        \* bound: checkpoints saved

ASSUME RuntimeLedgerConstants ==
    /\ DOMAIN LedgerOf = Recorders
    /\ MaxRuntimeEvents \in Nat /\ MaxSaves \in Nat

VARIABLES
    rlRows,     \* the table: a sequence of [task, event, prev, hash]
    rlRec,      \* recorder -> [phase, task, prev]
    rlHeld,     \* ledger objects whose lock is held
    ckFile,     \* checkpoint file: << >>, << "cut", n >> or << "ok", n >>
    ckSaving,   \* the checkpoint being written, or 0
    ckSaved,    \* checkpoints saved so far
    ckWhole,    \* ghost: checkpoints whose write was completed
    ckLoaded    \* what the last load returned, or 0

rlVars == << rlRows, rlRec, rlHeld, ckFile, ckSaving, ckSaved, ckWhole, ckLoaded >>

Zero == << >>          \* "0" * 64
Resting == [phase |-> "rest", task |-> << >>, prev |-> Zero]

RlInit ==
    /\ rlRows = << >> /\ rlRec = [r \in Recorders |-> Resting] /\ rlHeld = {}
    /\ ckFile = << >> /\ ckSaving = 0 /\ ckSaved = 0 /\ ckWhole = {} /\ ckLoaded = 0

\* get_events_for_task, up to a row: where the rows of a task are
EventsBefore(k, n) == {i \in 1..(n - 1) : rlRows[i].task = k}

HashBefore(k, n) ==
    IF EventsBefore(k, n) = {} THEN Zero
    ELSE rlRows[CHOOSE i \in EventsBefore(k, n) : \A j \in EventsBefore(k, n) : j <= i].hash

\* Mutant: the last row of the table, of whichever task.
PreviousHashOfTable(k) == IF rlRows = << >> THEN Zero ELSE rlRows[Len(rlRows)].hash

\* "SELECT current_hash ... ORDER BY event_id DESC LIMIT 1"
PreviousHash(k) == HashBefore(k, Len(rlRows) + 1)

HashOf(prev, event) == Append(prev, event)

(***************************************************************************)
(* record_event, in the steps another object can come between.             *)
(***************************************************************************)
\* Mutant: the object has no lock.
NeverLocked(r) == FALSE

\* The lock of the RuntimeLedger object.
Locked(r) == LedgerOf[r] \in rlHeld

LockAndRead(r, k) ==
    /\ rlRec[r].phase = "rest" /\ ~Locked(r)
    /\ Len(rlRows) + Cardinality({q \in Recorders : rlRec[q].phase = "read"}) < MaxRuntimeEvents
    /\ rlHeld' = rlHeld \union {LedgerOf[r]}
    /\ rlRec' = [rlRec EXCEPT ![r] = [phase |-> "read", task |-> k, prev |-> PreviousHash(k)]]
    /\ UNCHANGED << rlRows, ckFile, ckSaving, ckSaved, ckWhole, ckLoaded >>

InsertEvent(r) ==
    /\ rlRec[r].phase = "read"
    /\ LET e == Len(rlRows) + 1
       IN rlRows' = Append(rlRows, [task |-> rlRec[r].task, event |-> e,
                         prev |-> rlRec[r].prev, hash |-> HashOf(rlRec[r].prev, e)])
    /\ rlRec' = [rlRec EXCEPT ![r] = Resting]
    /\ rlHeld' = rlHeld \ {LedgerOf[r]}
    /\ UNCHANGED << ckFile, ckSaving, ckSaved, ckWhole, ckLoaded >>

\* the insert fails (the database is locked too long, or the process dies)
InsertFails(r) ==
    /\ rlRec[r].phase = "read"
    /\ rlRec' = [rlRec EXCEPT ![r] = Resting]
    /\ rlHeld' = rlHeld \ {LedgerOf[r]}
    /\ UNCHANGED << rlRows, ckFile, ckSaving, ckSaved, ckWhole, ckLoaded >>

\* verify_chain_integrity
ChainVerifies(k) ==
    \A i \in EventsBefore(k, Len(rlRows) + 1) :
        /\ rlRows[i].prev = HashBefore(k, i)
        /\ rlRows[i].hash = HashOf(rlRows[i].prev, rlRows[i].event)

(***************************************************************************)
(* CheckpointRecoveryManager: write_text truncates the file first.         *)
(***************************************************************************)
SaveBegins ==
    /\ ckSaving = 0 /\ ckSaved < MaxSaves
    /\ ckSaved' = ckSaved + 1 /\ ckSaving' = ckSaved + 1
    /\ ckFile' = << "cut", ckSaved + 1 >>
    /\ UNCHANGED << rlRows, rlRec, rlHeld, ckWhole, ckLoaded >>

SaveEnds ==
    /\ ckSaving # 0
    /\ ckFile' = << "ok", ckSaving >> /\ ckSaving' = 0
    /\ ckWhole' = ckWhole \union {ckSaving}
    /\ UNCHANGED << rlRows, rlRec, rlHeld, ckSaved, ckLoaded >>

SaveInterrupted ==
    /\ ckSaving # 0
    /\ ckSaving' = 0
    /\ UNCHANGED << rlRows, rlRec, rlHeld, ckFile, ckSaved, ckWhole, ckLoaded >>

\* Mutant: a checkpoint is taken as it is.
LoadsAnything(file) == TRUE

\* a cut file does not parse; a complete one has its checksum
Loads(file) == file[1] = "ok"

LoadCheckpoint ==
    /\ ckSaving = 0 /\ ckFile # << >>
    /\ ckLoaded' = IF Loads(ckFile) THEN ckFile[2] ELSE 0
    /\ UNCHANGED << rlRows, rlRec, rlHeld, ckFile, ckSaving, ckSaved, ckWhole >>

RlNext ==
    \/ \E r \in Recorders : InsertEvent(r) \/ InsertFails(r) \/ \E k \in LedgerTasks : LockAndRead(r, k)
    \/ SaveBegins \/ SaveEnds \/ SaveInterrupted \/ LoadCheckpoint

-----------------------------------------------------------------------------
(***************************************************************************)
(* While all recorders of a process share one ledger object, the chain of  *)
(* every task verifies at every moment, though the events of several tasks *)
(* interleave in one table and inserts fail after the hash was read.       *)
(***************************************************************************)
EventChainsVerify == \A k \in LedgerTasks : ChainVerifies(k)

(***************************************************************************)
(* The ledger implements an append-only log per task (EventLog): the last  *)
(* hash of a task commits to every event recorded for it so far, and only  *)
(* ever grows by the event just inserted.                                  *)
(***************************************************************************)
Log == INSTANCE EventLog WITH
           LogTasks <- LedgerTasks,
           history <- [k \in LedgerTasks |-> PreviousHash(k)]
ImplementsEventLog == Log!LogSpec

(***************************************************************************)
(* A checkpoint that loads was written completely: an interrupted save is  *)
(* noticed, never resumed from.                                            *)
(***************************************************************************)
LoadedWasWhole == ckLoaded # 0 => ckLoaded \in ckWhole
=============================================================================

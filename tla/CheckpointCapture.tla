-------------------------- MODULE CheckpointCapture --------------------------
(***************************************************************************)
(* Rows under the MOT checkpoint: how commits keep, and checkpoint workers *)
(* write, the version of every row as of the cutoff, while commits go on;  *)
(* and what recovery makes of a checkpoint and the redo log after it.      *)
(*                                                                         *)
(* Every primary sentinel carries, beside the row, a stable row and a      *)
(* status bit.  "Available" means that the worker need not look at the row *)
(* any more: it is captured, or the version to capture is the stable row.  *)
(* When a checkpoint is over all rows are available, and the two values of *)
(* the bit swap their meanings.                                            *)
(*                                                                         *)
(* The phases move as CalcPhases allows, which CheckpointPhases is proved  *)
(* to implement.  A commit is validated, logged and applied in one step    *)
(* each: it holds the locks of its sentinels from the first to after the   *)
(* last.  Left out are DDL, secondary indexes, the versions that older     *)
(* snapshots read, the standby, and redo records that are not yet durable. *)
(***************************************************************************)
EXTENDS CalcPhases

CONSTANTS
    Key,           \* primary keys
    Val,           \* contents of a row
    NoRow,         \* nullptr: no row, no stable row
    Tombstone,     \* the version that a delete installs
    LateFailure,   \* may a validated commit fail, or be given up, unlogged?
    AbortCapture   \* may the envelope give up between redo point and capture?

ASSUME RowsDistinct ==
    NoRow \notin Val /\ Tombstone \notin Val /\ NoRow # Tombstone

ASSUME SwitchesBoolean == LateFailure \in BOOLEAN /\ AbortCapture \in BOOLEAN

VARIABLES
    pc,        \* control state of a session
    writes,    \* its write set, by key
    row,       \* Sentinel::GetData: the newest version
    status,    \* PrimarySentinel::GetStableStatus
    stable,    \* PrimarySentinel::GetStable
    preAlloc,  \* PrimarySentinel::GetStablePreAllocStatus
    ckpt,      \* control state of the checkpoint
    todo,      \* the keys that the workers have still to visit
    image,     \* the rows that the workers have written
    error,     \* m_errorSet with m_checkpointError
    logged,    \* by key, the contents according to the whole redo log
    since,     \* the keys with a redo record after the redo point
    cut,       \* the contents according to the log up to the redo point
    disk,      \* the last complete checkpoint, and the keys logged after it
    aborted    \* history: a checkpoint was aborted before its capture

sessionVars == <<pc, writes>>
rowVars == <<row, status, stable, preAlloc>>
captureVars == <<ckpt, todo, image, error, cut>>
durableVars == <<logged, since, disk, aborted>>
vars == <<calcVars, sessionVars, rowVars, captureVars, durableVars>>

-----------------------------------------------------------------------------
Contents == Val \cup {NoRow}

NoWrites == [k \in {} |-> NoRow]

\* The accesses of a write set: AccessType and the version to install.  An
\* insert over a live row is a delete and an insert by the same transaction.
Accesses ==
    [type : {"INS", "WR"}, new : Val] \cup [type : {"DEL"}, new : {Tombstone}]

Permitted(a, k) == row[k] \in Val \/ a.type = "INS"

WriteSets == UNION {[K -> Accesses] : K \in SUBSET Key \ {{}}}

\* ValidateOcc locks the sentinels; EndTransaction, ReleaseHeaders unlock them.
LockedStates == {"validated", "logged", "applied", "rolled_back", "ended"}
Locked(k) == \E t \in Txn : pc[t] \in LockedStates /\ k \in DOMAIN writes[t]

Available(k) == status[k] = availableBit

NoContents == [k \in Key |-> NoRow]

-----------------------------------------------------------------------------
(* The sessions.                                                           *)

BeginCommit(t) ==
    /\ pc[t] = "run"
    /\ CalcBegin(t)
    /\ pc' = [pc EXCEPT ![t] = "begun"]
    /\ UNCHANGED <<writes, rowVars, captureVars, durableVars>>

\* Mutant: a tombstone is copied like any other row.
MutantPreAllocates(t, k) ==
    row[k] # NoRow /\ startPhase[t] = CAPTURE /\ ~Available(k)

\* Mutant: a row that is captured already is copied too.
MutantPreAllocatesCaptured(t, k) == row[k] \in Val /\ startPhase[t] = CAPTURE

\* CheckpointManager::PreAllocStableRow: the session will overwrite a row that
\* is not captured yet, and is after the cutoff.
PreAllocates(t, k) ==
    row[k] \in Val /\ startPhase[t] = CAPTURE /\ ~Available(k)

\* ValidateOcc: lock the headers, validate, pre-allocate the stable rows.
ValidateOcc(t, w) ==
    LET K == {k \in DOMAIN w : PreAllocates(t, k)}
    IN  /\ pc[t] = "begun"
        /\ \A k \in DOMAIN w : ~Locked(k) /\ Permitted(w[k], k)
        /\ pc' = [pc EXCEPT ![t] = "validated"]
        /\ writes' = [writes EXCEPT ![t] = w]
        /\ stable' = [k \in Key |-> IF k \in K THEN row[k] ELSE stable[k]]
        /\ preAlloc' = [k \in Key |-> k \in K \/ preAlloc[k]]
        /\ UNCHANGED <<calcVars, row, status, captureVars, durableVars>>

\* ValidateOcc fails and leaves nothing behind; ValidateCommit ends the commit.
ValidateFails(t) ==
    /\ pc[t] \in {"begun", "failed"}
    /\ CalcEnd(t)
    /\ pc' = [pc EXCEPT ![t] = "run"]
    /\ UNCHANGED <<writes, rowVars, captureVars, durableVars>>

\* ReserveGcMemory fails, the last thing that ValidateOcc does, or the envelope
\* aborts the transaction: the locks are released and the stable rows stay.
FailLate(t) ==
    /\ LateFailure
    /\ pc[t] = "validated"
    /\ pc' = [pc EXCEPT ![t] = "failed"]
    /\ writes' = [writes EXCEPT ![t] = NoWrites]
    /\ UNCHANGED <<calcVars, rowVars, captureVars, durableVars>>

\* Mutant: the stable rows are not freed.
MutantFreePreAllocStableRows(K) == UNCHANGED <<stable, preAlloc>>

FreePreAllocStableRows(K) ==
    LET F == {k \in K : preAlloc[k]}
    IN  /\ stable' = [k \in Key |-> IF k \in F THEN NoRow ELSE stable[k]]
        /\ preAlloc' = [k \in Key |-> k \notin F /\ preAlloc[k]]

\* RollbackInternal of a prepared transaction, up to EndCommit.
RollbackPrepared(t) ==
    /\ pc[t] = "validated"
    /\ pc' = [pc EXCEPT ![t] = "rolled_back"]
    /\ FreePreAllocStableRows(DOMAIN writes[t])
    /\ UNCHANGED <<calcVars, writes, row, status, captureVars, durableVars>>

\* What the redo log says of a key after access a.
Outcome(a) == IF a.type = "DEL" THEN NoRow ELSE a.new

\* RedoLog::Commit: the redo record is on disk.
LogCommit(t) ==
    LET K == DOMAIN writes[t]
    IN  /\ pc[t] = "validated"
        /\ ~redoLocked
        /\ pc' = [pc EXCEPT ![t] = "logged"]
        /\ logged' = [k \in Key |-> IF k \in K THEN Outcome(writes[t][k]) ELSE logged[k]]
        /\ since' = since \cup K
        /\ disk' = [disk EXCEPT !.since = @ \cup K]
        /\ UNCHANGED <<calcVars, writes, rowVars, captureVars, aborted>>

\* Mutant: a row inserted after the cutoff is left for the worker to write.
MutantApplyWriteInsert(t, k, a) ==
    CASE startPhase[t] \in {REST, PREPARE} /\ a.type = "INS" -> ~availableBit
      [] startPhase[t] = CAPTURE /\ row[k] \in Val -> availableBit
      [] startPhase[t] = COMPLETE /\ a.type = "INS" -> ~naBit[t]
      [] OTHER -> status[k]

\* Mutant: the row does not become available with its stable row.
MutantApplyWriteCapture(t, k, a) ==
    CASE startPhase[t] \in {REST, PREPARE} /\ a.type = "INS" -> ~availableBit
      [] startPhase[t] = CAPTURE /\ row[k] \notin Val -> availableBit
      [] startPhase[t] = COMPLETE /\ a.type = "INS" -> ~naBit[t]
      [] OTHER -> status[k]

\* CheckpointManager::ApplyWrite, by the phase in which the commit began.
ApplyWrite(t, k, a) ==
    CASE startPhase[t] \in {REST, PREPARE} /\ a.type = "INS" -> ~availableBit
      [] startPhase[t] = CAPTURE -> availableBit
      [] startPhase[t] = COMPLETE /\ a.type = "INS" -> ~naBit[t]
      [] OTHER -> status[k]

\* WriteChanges: ApplyWrite for every access, then the new versions.
WriteChanges(t) ==
    LET w == writes[t]
        K == DOMAIN w
        \* ApplyWrite hands the pre-allocated stable row over to the worker
        T == {k \in K : startPhase[t] = CAPTURE /\ row[k] \in Val /\ ~Available(k)}
    IN  /\ pc[t] = "logged"
        /\ pc' = [pc EXCEPT ![t] = "applied"]
        /\ status' = [k \in Key |-> IF k \in K THEN ApplyWrite(t, k, w[k]) ELSE status[k]]
        /\ preAlloc' = [k \in Key |-> k \notin T /\ preAlloc[k]]
        /\ row' = [k \in Key |-> IF k \in K THEN w[k].new ELSE row[k]]
        /\ UNCHANGED <<calcVars, writes, stable, captureVars, durableVars>>

EndCommit(t) ==
    /\ pc[t] \in {"applied", "rolled_back"}
    /\ CalcEnd(t)
    /\ pc' = [pc EXCEPT ![t] = "ended"]
    /\ UNCHANGED <<writes, rowVars, captureVars, durableVars>>

\* EndTransaction: ReleaseLocks and Cleanup.
EndTransaction(t) ==
    /\ pc[t] = "ended"
    /\ pc' = [pc EXCEPT ![t] = "run"]
    /\ writes' = [writes EXCEPT ![t] = NoWrites]
    /\ UNCHANGED <<calcVars, rowVars, captureVars, durableVars>>

\* The garbage collector removes a deleted key with its sentinel; a tombstone
\* with a stable row is not given to it before the worker has been there.
RemoveKey(k) ==
    /\ row[k] = Tombstone /\ stable[k] = NoRow /\ ~Locked(k)
    /\ row' = [row EXCEPT ![k] = NoRow]
    /\ status' = [status EXCEPT ![k] = FALSE]
    /\ UNCHANGED <<calcVars, sessionVars, stable, preAlloc, captureVars, durableVars>>

-----------------------------------------------------------------------------
(* The checkpoint.                                                         *)

CkptGoto(from, to) == ckpt = from /\ ckpt' = to

Prepare ==
    /\ ckpt = "idle"
    /\ ToPrepare \/ ToResolve
    /\ UNCHANGED <<sessionVars, rowVars, captureVars, durableVars>>

CreateSnapShot ==
    /\ CkptGoto("idle", "snapshot")
    /\ ToCapture
    /\ UNCHANGED <<sessionVars, rowVars, todo, image, error, cut, durableVars>>

\* The envelope has taken the redo point.
SnapshotReady ==
    /\ CkptGoto("snapshot", "guts")
    /\ UnlockRedo
    /\ cut' = logged
    /\ since' = {}
    /\ UNCHANGED <<sessionVars, rowVars, todo, image, error, logged, disk, aborted>>

BeginCheckpoint ==
    /\ CkptGoto("guts", "capturing")
    /\ todo' = Key
    /\ UNCHANGED <<calcVars, sessionVars, rowVars, image, error, cut, durableVars>>

\* CheckpointWorkerPool::Checkpoint of a committed row, under its lock.
Checkpoint(k) ==
    /\ CASE Available(k) ->
              /\ image' = [image EXCEPT ![k] = stable[k]]
              /\ stable' = [stable EXCEPT ![k] = NoRow]
              /\ UNCHANGED <<status, error>>
         [] ~Available(k) /\ stable[k] = NoRow /\ row[k] \in Val ->
              /\ image' = [image EXCEPT ![k] = row[k]]
              /\ status' = [status EXCEPT ![k] = availableBit]
              /\ UNCHANGED <<stable, error>>
         [] ~Available(k) /\ stable[k] = NoRow /\ row[k] = Tombstone ->
              UNCHANGED <<image, status, stable, error>>
         [] ~Available(k) /\ stable[k] # NoRow ->   \* "should not happen!"
              /\ error' = "calc"
              /\ stable' = [stable EXCEPT ![k] = IF row[k] = Tombstone THEN NoRow ELSE @]
              /\ UNCHANGED <<image, status>>
    /\ UNCHANGED <<row, preAlloc>>

\* A worker comes to key k in its walk over the primary index.
VisitKey(k) ==
    /\ ckpt = "capturing"
    /\ k \in todo
    /\ ~Locked(k)
    /\ todo' = todo \ {k}
    /\ IF row[k] = NoRow THEN UNCHANGED <<rowVars, image, error>>
                         ELSE Checkpoint(k)
    /\ UNCHANGED <<calcVars, sessionVars, ckpt, cut, durableVars>>

\* A file cannot be written: OnError.
WriteFails ==
    /\ ckpt = "capturing"
    /\ error' = "io"
    /\ UNCHANGED <<calcVars, sessionVars, rowVars, ckpt, todo, image, cut, durableVars>>

\* All tables are done, or there was an error; the move to COMPLETE.
CaptureEnded ==
    /\ CkptGoto("capturing", "captured")
    /\ todo = {} \/ error # "none"
    /\ ToComplete
    /\ todo' = {}
    /\ UNCHANGED <<sessionVars, rowVars, image, error, cut, durableVars>>

\* Mutant: the checkpoint is recorded with the redo point of its end.
MutantCompleteCheckpoint ==
    /\ CkptGoto("captured", "complete")
    /\ error = "none"
    /\ disk' = [rows |-> image, since |-> {}]
    /\ UNCHANGED <<calcVars, sessionVars, rowVars, todo, image, error, cut, logged, since, aborted>>

\* The control file names the new checkpoint and its redo point.
CompleteCheckpoint ==
    /\ CkptGoto("captured", "complete")
    /\ error = "none"
    /\ disk' = [rows |-> image, since |-> since]
    /\ UNCHANGED <<calcVars, sessionVars, rowVars, todo, image, error, cut, logged, since, aborted>>

CompleteCheckpointFails ==
    /\ CkptGoto("captured", "complete")
    /\ error' = IF error = "none" THEN "io" ELSE error
    /\ UNCHANGED <<calcVars, sessionVars, rowVars, todo, image, cut, durableVars>>

\* The checkpoint is over and its working state is forgotten.
Forget ==
    /\ image' = NoContents
    /\ cut' = NoContents
    /\ since' = {}

MoveToRest ==
    /\ CkptGoto("complete", "idle")
    /\ error = "none"
    /\ ToRest
    /\ Forget
    /\ UNCHANGED <<sessionVars, rowVars, todo, error, logged, disk, aborted>>

\* Abort, from the error handler of the checkpointer: the phases are moved on
\* although no row has been captured.
Abort ==
    /\ AbortCapture
    /\ CkptGoto("guts", "aborting")
    /\ ToComplete
    /\ aborted' = TRUE
    /\ UNCHANGED <<sessionVars, rowVars, todo, image, error, cut, logged, since, disk>>

AbortMoveToRest ==
    /\ CkptGoto("aborting", "idle")
    /\ ToRest
    /\ Forget
    /\ UNCHANGED <<sessionVars, rowVars, todo, error, logged, disk, aborted>>

-----------------------------------------------------------------------------
(* Crash and recovery.                                                     *)

\* The checkpoint, and the redo records after its redo point.
Recovered == [k \in Key |-> IF k \in disk.since THEN logged[k] ELSE disk.rows[k]]

\* The server stops, at any time or with PANIC after a checkpoint error, and
\* comes up again.
CrashAndRecover ==
    /\ CalcRestart
    /\ pc' = [t \in Txn |-> "run"]
    /\ writes' = [t \in Txn |-> NoWrites]
    /\ row' = Recovered
    /\ status' = [k \in Key |-> FALSE]
    /\ stable' = NoContents
    /\ preAlloc' = [k \in Key |-> FALSE]
    /\ ckpt' = "idle"
    /\ todo' = {}
    /\ error' = "none"
    /\ Forget
    /\ UNCHANGED <<logged, disk, aborted>>

-----------------------------------------------------------------------------
Init ==
    /\ CalcInit
    /\ pc = [t \in Txn |-> "run"]
    /\ writes = [t \in Txn |-> NoWrites]
    /\ row = NoContents
    /\ status = [k \in Key |-> FALSE]
    /\ stable = NoContents
    /\ preAlloc = [k \in Key |-> FALSE]
    /\ ckpt = "idle"
    /\ todo = {}
    /\ image = NoContents
    /\ error = "none"
    /\ logged = NoContents
    /\ since = {}
    /\ cut = NoContents
    /\ disk = [rows |-> NoContents, since |-> {}]
    /\ aborted = FALSE

Session(t) ==
    \/ BeginCommit(t) \/ ValidateFails(t) \/ FailLate(t)
    \/ \E w \in WriteSets : ValidateOcc(t, w)
    \/ RollbackPrepared(t) \/ LogCommit(t) \/ WriteChanges(t)
    \/ EndCommit(t) \/ EndTransaction(t)

CheckpointStep ==
    \/ Prepare \/ CreateSnapShot \/ SnapshotReady \/ BeginCheckpoint
    \/ \E k \in Key : VisitKey(k)
    \/ WriteFails \/ CaptureEnded
    \/ CompleteCheckpoint \/ CompleteCheckpointFails \/ MoveToRest
    \/ Abort \/ AbortMoveToRest

Next ==
    \/ \E t \in Txn : Session(t)
    \/ \E k \in Key : RemoveKey(k)
    \/ CheckpointStep
    \/ CrashAndRecover

Spec == Init /\ [][Next]_vars

-----------------------------------------------------------------------------
(* Properties.                                                             *)

\* Every variable has its type.
TypeOK ==
    /\ phase \in Phases
    /\ availableBit \in BOOLEAN
    /\ startPhase \in [Txn -> Phases \cup {NONE}]
    /\ naBit \in [Txn -> BOOLEAN]
    /\ redoLocked \in BOOLEAN
    /\ pc \in [Txn -> {"run", "begun", "failed"} \cup LockedStates]
    /\ DOMAIN writes = Txn
    /\ \A t \in Txn : writes[t] = NoWrites \/ writes[t] \in WriteSets
    /\ row \in [Key -> Contents \cup {Tombstone}]
    /\ status \in [Key -> BOOLEAN]
    /\ stable \in [Key -> Contents]
    /\ preAlloc \in [Key -> BOOLEAN]
    /\ ckpt \in {"idle", "snapshot", "guts", "capturing", "captured",
                 "complete", "aborting"}
    /\ todo \in SUBSET Key
    /\ image \in [Key -> Contents]
    /\ error \in {"none", "io", "calc"}
    /\ logged \in [Key -> Contents]
    /\ since \in SUBSET Key
    /\ cut \in [Key -> Contents]
    /\ disk \in [rows : [Key -> Contents], since : SUBSET Key]
    /\ aborted \in BOOLEAN

\* What the workers have written when they are done is the database as of the
\* redo point, row by row: no commit after the cutoff is in it and none before
\* it is missing.  This and what follows from it hold until a checkpoint is
\* aborted before its capture.
ImageIsCut ==
    ~aborted /\ ckpt = "captured" /\ error = "none" => image = cut

\* Recovery from the last complete checkpoint and the log after its redo point
\* gives what the whole log says, whenever the server stops.
RecoveredIsLogged == Recovered = logged

\* The same until a checkpoint is aborted before its capture.
RecoveryExact == ~aborted => RecoveredIsLogged

\* The worker's "should not happen!": a stable row behind a bit that says that
\* there is none.
NoCalcError == ~aborted => error # "calc"

\* A pre-allocated stable row belongs to a commit that holds the row's lock:
\* the worker asserts GetStablePreAllocStatus() == false once it has the lock.
PreAllocUnderLock == \A k \in Key : preAlloc[k] => Locked(k)

\* A finished checkpoint leaves no stable row behind for the next one.
NoStableLeft == ~aborted /\ phase = REST => stable = NoContents
=============================================================================

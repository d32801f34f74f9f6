-------------------------- MODULE CheckpointPhases --------------------------
(***************************************************************************)
(* The phase machine of the MOT checkpoint (the CALC algorithm): class     *)
(* CheckpointManager of the in-memory engine, driven by the envelope's     *)
(* checkpointer thread and by the threads that commit transactions.        *)
(*                                                                         *)
(* A checkpoint cycles through REST, PREPARE, RESOLVE, CAPTURE, COMPLETE   *)
(* and back.  Every committing transaction registers itself in one of two  *)
(* counters (BeginCommit) and leaves it when it is done (EndCommit); the   *)
(* counters swap roles with every phase change, so that "the other"        *)
(* counter tells whether a transaction of the previous phase is left.      *)
(*                                                                         *)
(* What is left out: rows (module CheckpointCapture), the standby, whose   *)
(* replay threads may begin a commit in RESOLVE, and the configuration     *)
(* without a redo log.                                                     *)
(***************************************************************************)
EXTENDS CheckpointPhaseEnum, FiniteSets

CONSTANTS
    Txn,             \* the sessions that commit transactions
    CounterModulus,  \* 2^32 in the code: the counters are uint32_t
    AbortPoints,     \* where the envelope may give a checkpoint up
    MayLap           \* may a session be suspended while the phases come round?

ASSUME TxnFinite == IsFiniteSet(Txn)

ASSUME CounterWidth ==
    CounterModulus \in Nat /\ CounterModulus > Cardinality(Txn)

(***************************************************************************)
(* The envelope calls Abort when it finds, after CREATE_SNAPSHOT, that     *)
(* nothing was logged since the last checkpoint ("skip"), and from the     *)
(* checkpointer's error handler when flushing the disk engine's buffers    *)
(* fails between SNAPSHOT_READY and BEGIN_CHECKPOINT ("guts").             *)
(***************************************************************************)
ASSUME AbortPointsAssumption == AbortPoints \subseteq {"skip", "guts"}

(***************************************************************************)
(* The code as it is allows everything (MayLap = TRUE).  MayLap = FALSE is *)
(* a timing assumption: no session stays in EndCommit's unlocked tail, a   *)
(* handful of instructions, while a whole checkpoint runs and the phase    *)
(* becomes again the one that the session has read.                        *)
(***************************************************************************)
ASSUME MayLapAssumption == MayLap \in BOOLEAN

VARIABLES
    phase,         \* m_phase
    cntBit,        \* m_cntBit, the index of the current phase's counter
    counters,      \* m_counters[2]
    availableBit,  \* m_availableBit
    errorSet,      \* m_errorSet
    redoLock,      \* the redo log handler's RwLock, as its writer sees it
    rmLock,        \* the recovery manager's mutex
    ckpt,          \* control state of the checkpointer thread
    pc,            \* control state of every session
    txnPhase,      \* TxnManager::m_checkpointPhase
    naBit,         \* TxnManager::m_checkpointNABit
    commitEnded,   \* TxnManager::m_checkpointCommitEnded
    curPhase,      \* EndCommit's local current_phase
    seenBit,       \* EndCommit's unlocked read of m_cntBit
    resume         \* what the session does once EndCommit returns

managerVars == <<phase, cntBit, counters, availableBit>>
lockVars == <<redoLock, rmLock>>
txnVars == <<txnPhase, naBit, commitEnded, curPhase, seenBit, resume>>
phaseVars == <<managerVars, errorSet, lockVars, ckpt, pc, txnVars>>

-----------------------------------------------------------------------------
\* The sessions that hold the redo lock for reading, inside WriteToLog.
LoggingStates == {"wr_commit", "wr_prepare", "wr_rollback"}
RedoReaders == {t \in Txn : pc[t] \in LoggingStates}

\* EndCommit after it has released m_lock.
TailStates == {"ec_bit", "ec_counter", "ec_phase", "ec_lock"}

SessionStates ==
    {"run", "validate", "validated", "log_commit", "log_prepare", "prepared",
     "apply", "end_commit", "log_rollback", "cleanup"}
        \cup LoggingStates \cup TailStates

CheckpointerStates ==
    {"idle", "wait_complete", "to_prepare", "wait_resolve", "wait_prepare",
     "rm_lock", "pending_file", "to_capture", "snapshot", "guts", "capturing",
     "wait_resolve_txn", "to_complete", "completing", "wait_capture",
     "to_rest", "abort_wait_resolve", "abort_to_complete",
     "abort_wait_capture", "abort_to_rest"}

\* A session is registered in a counter from BeginCommit to EndCommit.
Registered(t) == txnPhase[t] # NONE /\ ~commitEnded[t]
RegisteredIn(p) == {t \in Txn : Registered(t) /\ txnPhase[t] = p}

\* m_lock is a spinning reader-writer lock.  All its sections are one step
\* here but the one that waits, inside, for the redo lock.
MLockFree == redoLock # "wanted"

\* fetch_add(1) and fetch_sub(1) on an unsigned counter wrap around.
Increment(c) == IF c = CounterModulus - 1 THEN 0 ELSE c + 1
Decrement(c) == IF c = 0 THEN CounterModulus - 1 ELSE c - 1

\* Mutant: the enum is left at its last value instead of wrapping to REST.
MutantNextPhase(p) == p + 1

NextPhase(p) == IF p = COMPLETE THEN REST ELSE p + 1
PrevPhase(p) == IF p = REST THEN COMPLETE ELSE p - 1

IsAutoCompletePhase == phase = PREPARE

\* The timing assumption, where phase p is entered.
NotLapped(p) ==
    MayLap \/ \A t \in Txn : pc[t] \in TailStates => curPhase[t] # p

(***************************************************************************)
(* MoveToNextPhase, called with m_lock held for writing.  Entering CAPTURE *)
(* it asks for the redo lock; entering PREPARE it goes straight on to      *)
(* RESOLVE when nobody is left from REST, whose counter has just become    *)
(* the "previous" one.                                                     *)
(***************************************************************************)
MoveToNextPhase ==
    LET next == NextPhase(phase)
        onward == next = PREPARE /\ counters[cntBit] = 0
    IN  /\ NotLapped(next)
        /\ onward => NotLapped(RESOLVE)
        /\ phase' = IF onward THEN RESOLVE ELSE next
        /\ cntBit' = IF onward THEN cntBit ELSE 1 - cntBit
        /\ availableBit' = IF next = REST THEN ~availableBit ELSE availableBit
        /\ redoLock' = IF next = CAPTURE THEN "wanted" ELSE redoLock
        /\ UNCHANGED <<counters, rmLock>>

\* Mutant: the writer does not wait for the readers.
MutantRedoWrLockGranted ==
    /\ redoLock = "wanted"
    /\ redoLock' = "held"
    /\ UNCHANGED <<managerVars, errorSet, rmLock, ckpt, pc, txnVars>>

\* The mover gets the redo lock once its readers are gone, and drops m_lock.
RedoWrLockGranted ==
    /\ redoLock = "wanted"
    /\ RedoReaders = {}
    /\ redoLock' = "held"
    /\ UNCHANGED <<managerVars, errorSet, rmLock, ckpt, pc, txnVars>>

-----------------------------------------------------------------------------
(* The engine as it starts, and as it is again after a PANIC: everything   *)
(* here is in memory.                                                      *)

Init ==
    /\ phase = REST
    /\ cntBit = 0
    /\ counters = [b \in {0, 1} |-> 0]
    /\ availableBit = TRUE
    /\ errorSet = FALSE
    /\ redoLock = "free"
    /\ rmLock = FALSE
    /\ ckpt = "idle"
    /\ pc = [t \in Txn |-> "run"]
    /\ txnPhase = [t \in Txn |-> NONE]
    /\ naBit = [t \in Txn |-> FALSE]
    /\ commitEnded = [t \in Txn |-> TRUE]
    /\ curPhase = [t \in Txn |-> NONE]
    /\ seenBit = [t \in Txn |-> 0]
    /\ resume = [t \in Txn |-> "cleanup"]

Restart ==
    /\ phase' = REST
    /\ cntBit' = 0
    /\ counters' = [b \in {0, 1} |-> 0]
    /\ availableBit' = TRUE
    /\ errorSet' = FALSE
    /\ redoLock' = "free"
    /\ rmLock' = FALSE
    /\ ckpt' = "idle"
    /\ pc' = [t \in Txn |-> "run"]
    /\ txnPhase' = [t \in Txn |-> NONE]
    /\ naBit' = [t \in Txn |-> FALSE]
    /\ commitEnded' = [t \in Txn |-> TRUE]
    /\ curPhase' = [t \in Txn |-> NONE]
    /\ seenBit' = [t \in Txn |-> 0]
    /\ resume' = [t \in Txn |-> "cleanup"]

-----------------------------------------------------------------------------
(* The checkpointer thread.                                                *)

CkptGoto(from, to) ==
    /\ ckpt = from
    /\ ckpt' = to

\* WaitPrevPhaseCommittedTxnComplete: spin until the other counter is zero.
WaitPrev(from, to) ==
    /\ CkptGoto(from, to)
    /\ MLockFree
    /\ counters[1 - cntBit] = 0
    /\ UNCHANGED <<managerVars, errorSet, lockVars, pc, txnVars>>

\* m_lock.WrLock(); MoveToNextPhase(); m_lock.WrUnlock();
Move(from, to) ==
    /\ CkptGoto(from, to)
    /\ MLockFree
    /\ MoveToNextPhase
    /\ UNCHANGED <<errorSet, pc, txnVars>>

\* EVENT_CHECKPOINT_CREATE_SNAPSHOT: the checks, then ResetFlags.
CreateSnapShot ==
    /\ CkptGoto("idle", "wait_complete")
    /\ phase = REST
    /\ errorSet' = FALSE
    /\ UNCHANGED <<managerVars, lockVars, pc, txnVars>>

\* "checkpoint is already running", or no id, directory or pending-recovery
\* file could be created: the callback's caller raises PANIC.
CreateSnapShotFails ==
    /\ ckpt \in {"idle", "pending_file"}
    /\ Restart

WaitCompleteTxns == WaitPrev("wait_complete", "to_prepare")

MoveToPrepare == Move("to_prepare", "wait_resolve")

\* while (m_phase != RESOLVE) usleep(): an unlocked read.
SeeResolve ==
    /\ CkptGoto("wait_resolve", "wait_prepare")
    /\ phase = RESOLVE
    /\ UNCHANGED <<managerVars, errorSet, lockVars, pc, txnVars>>

\* Mutant: no wait for the commits that began in PREPARE.
MutantWaitPrepareTxns ==
    /\ CkptGoto("wait_prepare", "rm_lock")
    /\ UNCHANGED <<managerVars, errorSet, lockVars, pc, txnVars>>

WaitPrepareTxns == WaitPrev("wait_prepare", "rm_lock")

\* GetRecoveryManager()->Lock(), a std::mutex; then FillTasksQueue.
LockRecoveryManager ==
    /\ CkptGoto("rm_lock", "pending_file")
    /\ ~rmLock
    /\ rmLock' = TRUE
    /\ UNCHANGED <<managerVars, errorSet, redoLock, pc, txnVars>>

CreatePendingRecoveryDataFile ==
    /\ CkptGoto("pending_file", "to_capture")
    /\ UNCHANGED <<managerVars, errorSet, lockVars, pc, txnVars>>

MoveToCapture == Move("to_capture", "snapshot")

\* Mutant: the recovery manager's mutex is not released.
MutantSnapshotReady ==
    /\ ckpt = "snapshot"
    /\ MLockFree
    /\ ckpt' = "guts"
    /\ redoLock' = "free"
    /\ UNCHANGED <<managerVars, errorSet, rmLock, pc, txnVars>>

\* EVENT_CHECKPOINT_SNAPSHOT_READY, with the envelope's redo point; in any
\* phase but CAPTURE it reports a "BAD Checkpoint state", which is a PANIC.
SnapshotReady ==
    /\ ckpt = "snapshot"
    /\ MLockFree
    /\ IF phase = CAPTURE
         THEN /\ ckpt' = "guts"
              /\ redoLock' = "free"
              /\ rmLock' = FALSE
              /\ UNCHANGED <<managerVars, errorSet, pc, txnVars>>
         ELSE Restart

\* EVENT_CHECKPOINT_BEGIN_CHECKPOINT: Capture wakes the workers.
BeginCheckpoint ==
    /\ CkptGoto("guts", "capturing")
    /\ UNCHANGED <<managerVars, errorSet, lockVars, pc, txnVars>>

\* m_checkpointEnded: TaskDone of the last table, or OnError of a worker.
CaptureEnded(failed) ==
    /\ CkptGoto("capturing", "wait_resolve_txn")
    /\ errorSet' = failed
    /\ UNCHANGED <<managerVars, lockVars, pc, txnVars>>

WaitResolveTxns == WaitPrev("wait_resolve_txn", "to_complete")

MoveToComplete == Move("to_complete", "completing")

\* CompleteCheckpoint, which is skipped after an error.
CompleteCheckpoint(failed) ==
    /\ CkptGoto("completing", "wait_capture")
    /\ errorSet' = (errorSet \/ failed)
    /\ UNCHANGED <<managerVars, lockVars, pc, txnVars>>

\* Mutant: no wait for the commits that began in CAPTURE.
MutantWaitCaptureTxns ==
    /\ CkptGoto("wait_capture", "to_rest")
    /\ UNCHANGED <<managerVars, errorSet, lockVars, pc, txnVars>>

WaitCaptureTxns == WaitPrev("wait_capture", "to_rest")

\* The last move; BeginCheckpoint then reports an error, which is a PANIC.
MoveToRest ==
    \/ ~errorSet /\ Move("to_rest", "idle")
    \/ errorSet /\ ckpt = "to_rest" /\ MLockFree /\ Restart

(***************************************************************************)
(* EVENT_CHECKPOINT_ABORT, which does something in the CAPTURE phase only. *)
(* The redo lock is released whether or not SnapshotReady has done so; the *)
(* recovery manager's mutex is left as it is.                              *)
(***************************************************************************)
Abort(at) ==
    /\ at \in AbortPoints
    /\ ckpt = IF at = "skip" THEN "snapshot" ELSE "guts"
    /\ MLockFree
    /\ IF phase = CAPTURE
         THEN ckpt' = "abort_wait_resolve" /\ redoLock' = "free"
         ELSE ckpt' = "idle" /\ redoLock' = redoLock
    /\ UNCHANGED <<managerVars, errorSet, rmLock, pc, txnVars>>

AbortWaitResolveTxns == WaitPrev("abort_wait_resolve", "abort_to_complete")

AbortMoveToComplete == Move("abort_to_complete", "abort_wait_capture")

AbortWaitCaptureTxns == WaitPrev("abort_wait_capture", "abort_to_rest")

AbortMoveToRest == Move("abort_to_rest", "idle")

-----------------------------------------------------------------------------
(* The sessions.                                                           *)

Goto(t, from, to) ==
    /\ pc[t] = from
    /\ pc' = [pc EXCEPT ![t] = to]

\* A step of session t that changes nothing but its control state.
Step(t, from, to) ==
    /\ Goto(t, from, to)
    /\ UNCHANGED <<managerVars, errorSet, lockVars, ckpt, txnVars>>

\* Mutant: commits may begin in RESOLVE.
MutantBeginCommit(t) ==
    /\ Goto(t, "run", "validate")
    /\ MLockFree
    /\ commitEnded' = [commitEnded EXCEPT ![t] = FALSE]
    /\ txnPhase' = [txnPhase EXCEPT ![t] = phase]
    /\ naBit' = [naBit EXCEPT ![t] = ~availableBit]
    /\ counters' = [counters EXCEPT ![cntBit] = Increment(@)]
    /\ UNCHANGED <<phase, cntBit, availableBit, errorSet, lockVars, ckpt,
                   curPhase, seenBit, resume>>

\* ValidateCommit and Prepare start here; no commit begins in RESOLVE.
BeginCommit(t) ==
    /\ Goto(t, "run", "validate")
    /\ MLockFree
    /\ phase # RESOLVE
    /\ commitEnded' = [commitEnded EXCEPT ![t] = FALSE]
    /\ txnPhase' = [txnPhase EXCEPT ![t] = phase]
    /\ naBit' = [naBit EXCEPT ![t] = ~availableBit]
    /\ counters' = [counters EXCEPT ![cntBit] = Increment(@)]
    /\ UNCHANGED <<phase, cntBit, availableBit, errorSet, lockVars, ckpt,
                   curPhase, seenBit, resume>>

\* ValidateDDLChanges and ValidateOcc succeed.
ValidateOk(t) == Step(t, "validate", "validated")

\* On its way to EndCommit, after which it cleans up or logs a rollback.
ToEndCommit(t, from, to) ==
    /\ Goto(t, from, "end_commit")
    /\ resume' = [resume EXCEPT ![t] = to]
    /\ UNCHANGED <<managerVars, errorSet, lockVars, ckpt,
                   txnPhase, naBit, commitEnded, curPhase, seenBit>>

ValidateFails(t) == ToEndCommit(t, "validate", "cleanup")

\* RecordCommit, CommitPrepared: the redo record comes first.
RecordCommit(t) == Step(t, "validated", "log_commit")
CommitPrepared(t) == Step(t, "prepared", "log_commit")

\* Prepare logs the transaction and leaves it registered.
Prepare(t) == Step(t, "validated", "log_prepare")

\* The envelope aborts a validated transaction, or it wrote nothing and
\* RECORD_COMMIT is skipped: Cleanup calls EndCommit.
LeaveUnrecorded(t) == ToEndCommit(t, "validated", "cleanup")

\* RollbackPrepared ends the commit before it logs the rollback.
RollbackPrepared(t) == ToEndCommit(t, "prepared", "log_rollback")

\* RedoLog::WriteToLog: RdLock, the handler's WriteToLog, RdUnlock.
RedoRdLock(t) ==
    /\ redoLock = "free"
    /\ \/ Step(t, "log_commit", "wr_commit")
       \/ Step(t, "log_prepare", "wr_prepare")
       \/ Step(t, "log_rollback", "wr_rollback")

WriteCommit(t) == Step(t, "wr_commit", "apply")
WritePrepare(t) == Step(t, "wr_prepare", "prepared")
WriteRollback(t) == Step(t, "wr_rollback", "cleanup")

\* ApplyDDLChanges and WriteChanges, then EndCommit.
WriteChanges(t) == ToEndCommit(t, "apply", "cleanup")

\* Mutant: the session leaves the counter of the current phase, whichever it
\* entered.
MutantEndCommit(t) ==
    /\ Goto(t, "end_commit", "ec_bit")
    /\ MLockFree
    /\ commitEnded' = [commitEnded EXCEPT ![t] = TRUE]
    /\ curPhase' = [curPhase EXCEPT ![t] = phase]
    /\ counters' = [counters EXCEPT ![cntBit] = Decrement(@)]
    /\ UNCHANGED <<phase, cntBit, availableBit, errorSet, lockVars, ckpt,
                   txnPhase, naBit, seenBit, resume>>

\* EndCommit up to m_lock.RdUnlock().
EndCommit(t) ==
    /\ Goto(t, "end_commit", "ec_bit")
    /\ MLockFree
    /\ commitEnded' = [commitEnded EXCEPT ![t] = TRUE]
    /\ curPhase' = [curPhase EXCEPT ![t] = phase]
    /\ counters' =
        LET b == IF txnPhase[t] = phase THEN cntBit ELSE 1 - cntBit
        IN  [counters EXCEPT ![b] = Decrement(@)]
    /\ UNCHANGED <<phase, cntBit, availableBit, errorSet, lockVars, ckpt,
                   txnPhase, naBit, seenBit, resume>>

\* m_counters[!m_cntBit] == 0 && IsAutoCompletePhase(), read without m_lock.
ReadCntBit(t) ==
    /\ Goto(t, "ec_bit", "ec_counter")
    /\ seenBit' = [seenBit EXCEPT ![t] = 1 - cntBit]
    /\ UNCHANGED <<managerVars, errorSet, lockVars, ckpt,
                   txnPhase, naBit, commitEnded, curPhase, resume>>

\* EndCommit returns: its locals are gone.
ReturnFrom(t, from) ==
    /\ Goto(t, from, resume[t])
    /\ curPhase' = [curPhase EXCEPT ![t] = NONE]
    /\ seenBit' = [seenBit EXCEPT ![t] = 0]
    /\ resume' = [resume EXCEPT ![t] = "cleanup"]
    /\ UNCHANGED <<errorSet, ckpt, txnPhase, naBit, commitEnded>>

ReadCounter(t) ==
    IF counters[seenBit[t]] = 0
      THEN Step(t, "ec_counter", "ec_phase")
      ELSE ReturnFrom(t, "ec_counter") /\ UNCHANGED <<managerVars, lockVars>>

\* Mutant: the session that drains the previous phase does not move on.
MutantReadPhase(t) ==
    ReturnFrom(t, "ec_phase") /\ UNCHANGED <<managerVars, lockVars>>

ReadPhase(t) ==
    IF IsAutoCompletePhase
      THEN Step(t, "ec_phase", "ec_lock")
      ELSE ReturnFrom(t, "ec_phase") /\ UNCHANGED <<managerVars, lockVars>>

\* Mutant: the phase is not looked at again under m_lock.
MutantMoveIfFirst(t) ==
    /\ ReturnFrom(t, "ec_lock")
    /\ MLockFree
    /\ MoveToNextPhase

\* Under m_lock: "I am the first one to change it" if the phase is still the
\* one seen when the counter was decremented.
MoveIfFirst(t) ==
    /\ ReturnFrom(t, "ec_lock")
    /\ MLockFree
    /\ IF curPhase[t] = phase THEN MoveToNextPhase
                              ELSE UNCHANGED <<managerVars, lockVars>>

\* EndTransaction or Rollback: Cleanup resets the transaction.
Cleanup(t) ==
    /\ Goto(t, "cleanup", "run")
    /\ txnPhase' = [txnPhase EXCEPT ![t] = NONE]
    /\ UNCHANGED <<managerVars, errorSet, lockVars, ckpt,
                   naBit, commitEnded, curPhase, seenBit, resume>>

-----------------------------------------------------------------------------
Checkpointer ==
    \/ CreateSnapShot \/ CreateSnapShotFails
    \/ WaitCompleteTxns \/ MoveToPrepare
    \/ SeeResolve \/ WaitPrepareTxns
    \/ LockRecoveryManager \/ CreatePendingRecoveryDataFile
    \/ MoveToCapture \/ RedoWrLockGranted \/ SnapshotReady
    \/ BeginCheckpoint \/ \E failed \in BOOLEAN : CaptureEnded(failed)
    \/ WaitResolveTxns \/ MoveToComplete
    \/ \E failed \in BOOLEAN : CompleteCheckpoint(failed)
    \/ WaitCaptureTxns \/ MoveToRest
    \/ \E at \in AbortPoints : Abort(at)
    \/ AbortWaitResolveTxns \/ AbortMoveToComplete
    \/ AbortWaitCaptureTxns \/ AbortMoveToRest

Session(t) ==
    \/ BeginCommit(t) \/ ValidateOk(t) \/ ValidateFails(t)
    \/ RecordCommit(t) \/ Prepare(t) \/ LeaveUnrecorded(t)
    \/ CommitPrepared(t) \/ RollbackPrepared(t)
    \/ RedoRdLock(t) \/ WriteCommit(t) \/ WritePrepare(t) \/ WriteRollback(t)
    \/ WriteChanges(t) \/ EndCommit(t)
    \/ ReadCntBit(t) \/ ReadCounter(t) \/ ReadPhase(t) \/ MoveIfFirst(t)
    \/ Cleanup(t)

PhaseNext == Checkpointer \/ \E t \in Txn : Session(t)

Spec == Init /\ [][PhaseNext]_phaseVars

(***************************************************************************)
(* Fairness.  Every thread keeps running; the envelope finishes what it    *)
(* started with a checkpoint and with a validated or prepared transaction. *)
(* Nothing makes a session begin a commit or the envelope a checkpoint.    *)
(***************************************************************************)
CheckpointerStep ==
    \/ WaitCompleteTxns \/ MoveToPrepare \/ SeeResolve \/ WaitPrepareTxns
    \/ LockRecoveryManager \/ CreatePendingRecoveryDataFile \/ MoveToCapture
    \/ SnapshotReady \/ BeginCheckpoint \/ CaptureEnded(FALSE)
    \/ WaitResolveTxns \/ MoveToComplete \/ CompleteCheckpoint(FALSE)
    \/ WaitCaptureTxns \/ MoveToRest
    \/ AbortWaitResolveTxns \/ AbortMoveToComplete
    \/ AbortWaitCaptureTxns \/ AbortMoveToRest

SessionStep(t) ==
    \/ ValidateOk(t) \/ RecordCommit(t) \/ CommitPrepared(t) \/ RedoRdLock(t)
    \/ WriteCommit(t) \/ WritePrepare(t) \/ WriteRollback(t)
    \/ WriteChanges(t) \/ EndCommit(t)
    \/ ReadCntBit(t) \/ ReadCounter(t) \/ ReadPhase(t) \/ MoveIfFirst(t)
    \/ Cleanup(t)

Fairness ==
    /\ WF_phaseVars(CheckpointerStep)
    /\ WF_phaseVars(RedoWrLockGranted)
    /\ \A t \in Txn : WF_phaseVars(SessionStep(t))

FairSpec == Spec /\ Fairness

-----------------------------------------------------------------------------
(* Properties.                                                             *)

\* Every variable has its type.
TypeOK ==
    /\ phase \in Phases
    /\ cntBit \in {0, 1}
    /\ counters \in [{0, 1} -> 0..(CounterModulus - 1)]
    /\ availableBit \in BOOLEAN
    /\ errorSet \in BOOLEAN
    /\ redoLock \in {"free", "wanted", "held"}
    /\ rmLock \in BOOLEAN
    /\ ckpt \in CheckpointerStates
    /\ pc \in [Txn -> SessionStates]
    /\ txnPhase \in [Txn -> Phases \cup {NONE}]
    /\ naBit \in [Txn -> BOOLEAN]
    /\ commitEnded \in [Txn -> BOOLEAN]
    /\ curPhase \in [Txn -> Phases \cup {NONE}]
    /\ seenBit \in [Txn -> {0, 1}]
    /\ resume \in [Txn -> {"cleanup", "log_rollback"}]

\* The two counters count: the current one the sessions that began to commit
\* in this phase, the other one those of the phase before, and there are no
\* others.  EndCommit picks the counter to decrement by comparing phases, so
\* a session two phases behind would take the count of somebody else away.
CountersExact ==
    /\ counters[cntBit] = Cardinality(RegisteredIn(phase))
    /\ counters[1 - cntBit] = Cardinality(RegisteredIn(PrevPhase(phase)))
    /\ \A t \in Txn : Registered(t) => txnPhase[t] \in {phase, PrevPhase(phase)}

\* The cutoff: once CAPTURE is entered, every commit that began before it is
\* over, and none began in RESOLVE ("Now in RESOLVE phase, no transaction is
\* allowed to start the commit").
CutoffDrained ==
    /\ phase = CAPTURE => \A t \in Txn : Registered(t) => txnPhase[t] = CAPTURE
    /\ RegisteredIn(RESOLVE) = {}

\* While the envelope takes the redo point (the redo lock is held), nobody is
\* between the redo record of its commit and the end of that commit: the
\* records before the redo point are those of commits that are applied.
RedoPointQuiescent ==
    redoLock = "held" =>
        \A t \in Txn : pc[t] \notin LoggingStates \cup {"apply", "prepared"}
                       /\ ~(pc[t] = "end_commit" /\ resume[t] = "cleanup"
                            /\ txnPhase[t] # CAPTURE)

\* The meaning of the sentinels' status bit turns over only when no commit is
\* left that began before COMPLETE and relies on the old meaning.
SwapWhenDrained ==
    [][availableBit' # availableBit /\ pc' = pc =>
          \A t \in Txn : Registered(t) => txnPhase[t] = COMPLETE]_phaseVars

\* The promise made to the commit and capture of rows: whatever the counters,
\* locks and threads do, the phases, the available bit and the registered
\* commits move as in CalcPhases (the phase of a commit is what BeginCommit
\* read, until EndCommit).
Calc == INSTANCE CalcPhases WITH
            startPhase <- [t \in Txn |-> IF Registered(t) THEN txnPhase[t] ELSE NONE],
            redoLocked <- redoLock # "free"

ImplementsCalc == Calc!CalcSpec

\* Nobody but the checkpointer starts a checkpoint: outside REST it is in the
\* middle of one.  EndCommit says of the session that moves the phase "If the
\* state was not change by another thread in the meanwhile, I am the first
\* one to change it".
OnlyCheckpointerStarts == phase # REST => ckpt # "idle"

\* Between checkpoints no lock is left behind: the error handler of the
\* checkpointer calls Abort to "release MOT snapshot lock if taken".
LocksReleased == ckpt = "idle" => redoLock = "free" /\ ~rmLock

\* A checkpoint that was begun comes to its end.
CheckpointEnds == ckpt # "idle" ~> ckpt = "idle"

\* Commits are not shut out for ever: RESOLVE is left.
ResolveEnds == phase = RESOLVE ~> phase # RESOLVE
=============================================================================

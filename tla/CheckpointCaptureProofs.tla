----------------------- MODULE CheckpointCaptureProofs -----------------------
(***************************************************************************)
(* Proofs about CheckpointCapture for any sessions, keys and contents of   *)
(* rows.  The inductive invariant is stated key by key: what row, stable   *)
(* row and status bit say about the version of the cutoff before the       *)
(* worker has visited the key, after it, and between two checkpoints.      *)
(***************************************************************************)
EXTENDS CheckpointCapture, TLAPS

Holds(t, k) == k \in DOMAIN writes[t]

\* Where a session is in its commit, and that locks exclude each other.
SessionOf(t) ==
    /\ startPhase[t] = NONE <=> pc[t] \in {"run", "ended"}
    /\ pc[t] \notin LockedStates => writes[t] = NoWrites
    /\ pc[t] = "logged" => ~redoLocked

SessionInv ==
    /\ \A t \in Txn : SessionOf(t)
    /\ \A t, u \in Txn : \A k \in Key : t # u /\ Holds(t, k) => ~Holds(u, k)

\* The phase at every step of the checkpoint, the phases in which the commits
\* under way have begun, and the bit that a late commit of COMPLETE has seen.
PhaseInv ==
    /\ ckpt = "idle" <=> phase \in {REST, PREPARE, RESOLVE}
    /\ ckpt \in {"snapshot", "guts", "capturing"} <=> phase = CAPTURE
    /\ redoLocked <=> ckpt = "snapshot"
    /\ error # "none" => ckpt \in {"capturing", "captured", "complete"}
    /\ ckpt = "aborting" => aborted

StartedIn(p) ==
    CASE p = REST -> {NONE, REST, COMPLETE}
      [] p = PREPARE -> {NONE, REST, PREPARE}
      [] p = RESOLVE -> {NONE, PREPARE}
      [] p = CAPTURE -> {NONE, CAPTURE}
      [] p = COMPLETE -> {NONE, CAPTURE, COMPLETE}

StartOf(t) ==
    /\ startPhase[t] \in StartedIn(phase)
    /\ startPhase[t] = COMPLETE => (naBit[t] = availableBit <=> phase = REST)

StartInv == \A t \in Txn : StartOf(t)

\* The contents of a key as far as versions are installed.
Installed(k) == IF row[k] \in Val THEN row[k] ELSE NoRow

\* A redo record runs ahead of the installed version by at most one commit.
LoggedOf(k) ==
    /\ \A t \in Txn : pc[t] = "logged" /\ Holds(t, k) => logged[k] = Outcome(writes[t][k])
    /\ (\A t \in Txn : pc[t] = "logged" => ~Holds(t, k)) => logged[k] = Installed(k)

\* Between checkpoints every row is to be captured by the next one.
RestingOf(k) ==
    /\ stable[k] = NoRow /\ ~preAlloc[k] /\ image[k] = NoRow
    /\ row[k] \in Val => ~Available(k)

\* What the log said of the key at the redo point.
AtCutoff(k) == IF ckpt = "snapshot" THEN logged[k] ELSE cut[k]

\* Before the visit: the version of the cutoff is the stable row if the key is
\* available, and else the row.  A stable row that is not available is a copy of
\* the row, and a commit that will replace the row has it.
UnvisitedOf(k) ==
    /\ image[k] = NoRow
    /\ row[k] = NoRow => AtCutoff(k) = NoRow /\ stable[k] = NoRow
    /\ row[k] # NoRow /\ Available(k) => AtCutoff(k) = stable[k]
    /\ row[k] # NoRow /\ ~Available(k) => AtCutoff(k) = Installed(k)
    /\ preAlloc[k] => row[k] \in Val /\ ~Available(k) /\ stable[k] = row[k]
    /\ ~Available(k) /\ stable[k] # NoRow => preAlloc[k]
    /\ \A t \in Txn : /\ pc[t] \in {"validated", "logged"} /\ Holds(t, k)
                      /\ row[k] \in Val /\ ~Available(k)
                      => preAlloc[k]

\* After the visit.
VisitedOf(k) ==
    /\ image[k] = cut[k]
    /\ stable[k] = NoRow /\ ~preAlloc[k]
    /\ row[k] \in Val => Available(k)

Unvisited(k) == ckpt \in {"snapshot", "guts"} \/ (ckpt = "capturing" /\ k \in todo)
Visited(k) == ckpt \in {"captured", "complete"} \/ (ckpt = "capturing" /\ k \notin todo)

KeyOf(k) ==
    /\ LoggedOf(k)
    /\ ckpt = "idle" => RestingOf(k)
    /\ Unvisited(k) => UnvisitedOf(k)
    /\ Visited(k) /\ error = "none" => VisitedOf(k)
    /\ ckpt \in {"guts", "capturing", "captured", "complete"} /\ k \notin since =>
          cut[k] = logged[k]
    /\ k \notin disk.since => disk.rows[k] = logged[k]

KeyInv == ~aborted => \A k \in Key : KeyOf(k)

\* What a commit has validated is still so when it writes.
ValidatedOf(t, k) ==
    pc[t] \in {"validated", "logged"} /\ Holds(t, k) => Permitted(writes[t][k], k)

ValidatedInv == \A t \in Txn, k \in Key : ValidatedOf(t, k)

\* The inductive invariant.
IInv == TypeOK /\ SessionInv /\ PhaseInv /\ StartInv /\ ValidatedInv /\ KeyInv

\* Without late failures a pre-allocated stable row is the copy of a row that a
\* commit which is to replace it has locked.
PreAllocOf(k) ==
    preAlloc[k] =>
        /\ row[k] \in Val /\ ~Available(k)
        /\ \E t \in Txn : pc[t] \in {"validated", "logged"} /\ startPhase[t] = CAPTURE /\ Holds(t, k)

PreAllocInv == \A k \in Key : PreAllocOf(k)

\* IInv with what holds without late failures.
StrictInv == IInv /\ PreAllocInv /\ (~aborted => error # "calc")

-----------------------------------------------------------------------------
(* Write sets.                                                             *)

\* What an access installs, and what the redo log says of it.
LEMMA AccessFacts ==
    ASSUME NEW a \in Accesses
    PROVE  /\ a.type \in {"INS", "WR", "DEL"}
           /\ a.type = "DEL" => a.new = Tombstone /\ Outcome(a) = NoRow
           /\ a.type # "DEL" => a.new \in Val /\ Outcome(a) = a.new
  BY DEF Accesses, Outcome

\* A write set gives each of some keys an access.
LEMMA WriteSetFacts ==
    ASSUME NEW w \in WriteSets
    PROVE  /\ DOMAIN w \subseteq Key
           /\ \A k \in DOMAIN w : w[k] \in Accesses
  <1>1. PICK K \in SUBSET Key \ {{}} : w \in [K -> Accesses]
    BY DEF WriteSets
  <1>2. QED
    BY <1>1

LEMMA NoWritesFacts == DOMAIN NoWrites = {}
  BY DEF NoWrites

\* What a session holds.
LEMMA HeldAccess ==
    ASSUME TypeOK, NEW t \in Txn, NEW k, Holds(t, k)
    PROVE  /\ k \in Key
           /\ writes[t][k] \in Accesses
           /\ writes[t] \in WriteSets
  <1>1. writes[t] = NoWrites \/ writes[t] \in WriteSets
    BY DEF TypeOK
  <1>2. writes[t] # NoWrites
    BY NoWritesFacts DEF Holds
  <1>3. QED
    BY <1>1, <1>2, WriteSetFacts DEF Holds

-----------------------------------------------------------------------------
(* Type correctness.                                                       *)

LEMMA TypeInit == Init => TypeOK
  <1> SUFFICES ASSUME Init PROVE TypeOK
    OBVIOUS
  <1> USE DEF Init, CalcInit
  <1>1. NoContents \in [Key -> Contents]
    BY DEF NoContents, Contents
  <1>2. /\ phase \in Phases
        /\ startPhase \in [Txn -> Phases \cup {NONE}]
    BY DEF Phases, NONE, REST, COMPLETE
  <1>3. row \in [Key -> Contents \cup {Tombstone}]
    BY DEF NoContents, Contents
  <1>4. disk \in [rows : [Key -> Contents], since : SUBSET Key]
    BY <1>1
  <1>5. QED
    BY <1>1, <1>2, <1>3, <1>4 DEF TypeOK

LEMMA SessionTypes ==
    ASSUME TypeOK, NEW t \in Txn, Session(t)
    PROVE  TypeOK'
  <1> USE DEF TypeOK, LockedStates
  <1>1. CASE BeginCommit(t)
    BY <1>1 DEF BeginCommit, CalcBegin, rowVars, captureVars, durableVars
  <1>2. CASE ValidateFails(t)
    BY <1>2 DEF ValidateFails, CalcEnd, rowVars, captureVars, durableVars
  <1>3. CASE FailLate(t)
    BY <1>3 DEF FailLate, calcVars, rowVars, captureVars, durableVars
  <1>4. ASSUME NEW w \in WriteSets, ValidateOcc(t, w)
        PROVE  TypeOK'
    <2>1. \A k \in Key : PreAllocates(t, k) => row[k] \in Contents
      BY DEF PreAllocates, Contents
    <2>2. stable' \in [Key -> Contents] /\ preAlloc' \in [Key -> BOOLEAN]
      BY <1>4, <2>1 DEF ValidateOcc
    <2>3. QED
      BY <1>4, <2>2 DEF ValidateOcc, calcVars, captureVars, durableVars
  <1>5. CASE RollbackPrepared(t)
    <2>1. stable' \in [Key -> Contents] /\ preAlloc' \in [Key -> BOOLEAN]
      BY <1>5 DEF RollbackPrepared, FreePreAllocStableRows, Contents
    <2>2. QED
      BY <1>5, <2>1 DEF RollbackPrepared, calcVars, captureVars, durableVars
  <1>6. CASE LogCommit(t)
    <2>1. \A k \in DOMAIN writes[t] : k \in Key /\ Outcome(writes[t][k]) \in Contents
      BY HeldAccess, AccessFacts DEF Holds, Contents
    <2>2. logged' \in [Key -> Contents] /\ since' \in SUBSET Key
      BY <1>6, <2>1 DEF LogCommit
    <2>3. disk' \in [rows : [Key -> Contents], since : SUBSET Key]
      BY <1>6, <2>1 DEF LogCommit
    <2>4. QED
      BY <1>6, <2>2, <2>3 DEF LogCommit, calcVars, rowVars, captureVars
  <1>7. CASE WriteChanges(t)
    <2>1. \A k \in DOMAIN writes[t] : k \in Key /\ writes[t][k].new \in Contents \cup {Tombstone}
      BY HeldAccess, AccessFacts DEF Holds, Contents
    <2>2. \A k \in DOMAIN writes[t] : ApplyWrite(t, k, writes[t][k]) \in BOOLEAN
      BY <2>1 DEF ApplyWrite
    <2>3. row' \in [Key -> Contents \cup {Tombstone}] /\ status' \in [Key -> BOOLEAN]
      BY <1>7, <2>1, <2>2 DEF WriteChanges
    <2>4. preAlloc' \in [Key -> BOOLEAN]
      BY <1>7 DEF WriteChanges
    <2>5. QED
      BY <1>7, <2>3, <2>4 DEF WriteChanges, calcVars, captureVars, durableVars
  <1>8. CASE EndCommit(t)
    BY <1>8 DEF EndCommit, CalcEnd, rowVars, captureVars, durableVars
  <1>9. CASE EndTransaction(t)
    BY <1>9 DEF EndTransaction, calcVars, rowVars, captureVars, durableVars
  <1>10. QED
    BY <1>1, <1>2, <1>3, <1>4, <1>5, <1>6, <1>7, <1>8, <1>9 DEF Session

LEMMA CheckpointTypes ==
    ASSUME TypeOK, CheckpointStep
    PROVE  TypeOK'
  <1> USE DEF TypeOK, CkptGoto
  <1>1. CASE Prepare
    BY <1>1 DEF Prepare, ToPrepare, ToResolve, sessionVars, rowVars, captureVars, durableVars,
       Phases, REST, PREPARE, RESOLVE, COMPLETE
  <1>2. CASE CreateSnapShot
    BY <1>2 DEF CreateSnapShot, ToCapture, sessionVars, rowVars, durableVars,
       Phases, REST, CAPTURE, COMPLETE
  <1>3. CASE SnapshotReady
    BY <1>3 DEF SnapshotReady, UnlockRedo, sessionVars, rowVars
  <1>4. CASE BeginCheckpoint
    BY <1>4 DEF BeginCheckpoint, calcVars, sessionVars, rowVars, durableVars
  <1>5. ASSUME NEW k \in Key, VisitKey(k)
        PROVE  TypeOK'
    <2>1. CASE row[k] = NoRow
      BY <1>5, <2>1 DEF VisitKey, calcVars, sessionVars, rowVars, durableVars
    <2>2. CASE row[k] # NoRow
      <3>1. Checkpoint(k)
        BY <1>5, <2>2 DEF VisitKey
      <3>2. /\ image' \in [Key -> Contents]
            /\ stable' \in [Key -> Contents]
            /\ status' \in [Key -> BOOLEAN]
            /\ error' \in {"none", "io", "calc"}
            /\ UNCHANGED <<row, preAlloc>>
        <4>1. CASE Available(k)
          BY <3>1, <4>1 DEF Checkpoint, Contents
        <4>2. CASE ~Available(k) /\ stable[k] = NoRow /\ row[k] \in Val
          BY <3>1, <4>2, RowsDistinct DEF Checkpoint, Contents
        <4>3. CASE ~Available(k) /\ stable[k] = NoRow /\ row[k] = Tombstone
          BY <3>1, <4>3, RowsDistinct DEF Checkpoint, Contents
        <4>4. CASE ~Available(k) /\ stable[k] # NoRow
          BY <3>1, <4>4 DEF Checkpoint, Contents
        <4>5. QED
          BY <2>2, <4>1, <4>2, <4>3, <4>4 DEF Contents
      <3>3. QED
        BY <1>5, <3>2 DEF VisitKey, calcVars, sessionVars, durableVars
    <2>3. QED
      BY <2>1, <2>2
  <1>6. CASE WriteFails
    BY <1>6 DEF WriteFails, calcVars, sessionVars, rowVars, durableVars
  <1>7. CASE CaptureEnded
    BY <1>7 DEF CaptureEnded, ToComplete, sessionVars, rowVars, durableVars,
       Phases, REST, COMPLETE
  <1>8. CASE CompleteCheckpoint
    BY <1>8 DEF CompleteCheckpoint, calcVars, sessionVars, rowVars
  <1>9. CASE CompleteCheckpointFails
    BY <1>9 DEF CompleteCheckpointFails, calcVars, sessionVars, rowVars, durableVars
  <1>10. NoContents \in [Key -> Contents]
    BY DEF NoContents, Contents
  <1>11. CASE MoveToRest
    BY <1>10, <1>11 DEF MoveToRest, ToRest, Forget, sessionVars, rowVars, Phases, REST, COMPLETE
  <1>12. CASE Abort
    BY <1>12 DEF Abort, ToComplete, sessionVars, rowVars, Phases, REST, COMPLETE
  <1>13. CASE AbortMoveToRest
    BY <1>10, <1>13 DEF AbortMoveToRest, ToRest, Forget, sessionVars, rowVars,
       Phases, REST, COMPLETE
  <1>14. QED
    BY <1>1, <1>2, <1>3, <1>4, <1>5, <1>6, <1>7, <1>8, <1>9, <1>11, <1>12, <1>13
    DEF CheckpointStep

LEMMA TypeStep == TypeOK /\ [Next]_vars => TypeOK'
  <1> SUFFICES ASSUME TypeOK, [Next]_vars PROVE TypeOK'
    OBVIOUS
  <1>1. CASE \E k \in Key : RemoveKey(k)
    BY <1>1 DEF TypeOK, RemoveKey, Contents, calcVars, sessionVars, captureVars, durableVars
  <1>2. CASE CrashAndRecover
    <2>1. NoContents \in [Key -> Contents] /\ Recovered \in [Key -> Contents]
      BY DEF TypeOK, NoContents, Contents, Recovered
    <2>2. row' \in [Key -> Contents \cup {Tombstone}]
      BY <1>2, <2>1 DEF CrashAndRecover
    <2>3. phase' \in Phases /\ startPhase' \in [Txn -> Phases \cup {NONE}]
      BY <1>2 DEF CrashAndRecover, CalcRestart, Phases, REST, COMPLETE
    <2>4. QED
      BY <1>2, <2>1, <2>2, <2>3 DEF TypeOK, CrashAndRecover, CalcRestart, Forget
  <1>3. CASE UNCHANGED vars
    BY <1>3 DEF TypeOK, vars, calcVars, sessionVars, rowVars, captureVars, durableVars
  <1>4. QED
    BY <1>1, <1>2, <1>3, SessionTypes, CheckpointTypes DEF Next

\* Every variable has its type in every reachable state.
THEOREM TypeCorrect == Spec => []TypeOK
  BY TypeInit, TypeStep, PTL DEF Spec

-----------------------------------------------------------------------------
(* Sessions, their locks and the phases.                                   *)

\* A session that holds a key has it locked.
LEMMA HeldLocked ==
    ASSUME TypeOK, SessionInv, NEW t \in Txn, NEW k \in Key
    PROVE  /\ Holds(t, k) => pc[t] \in LockedStates /\ Locked(k)
           /\ Locked(k) => \E u \in Txn : Holds(u, k)
  BY NoWritesFacts DEF SessionInv, SessionOf, Holds, Locked

LEMMA SessionStep ==
    ASSUME TypeOK, SessionInv, StartInv, [Next]_vars
    PROVE  SessionInv'
  <1> USE DEF SessionOf, LockedStates
  <1>1. ASSUME NEW t \in Txn, Session(t)
        PROVE  SessionInv'
    <2> USE DEF TypeOK
    <2>1. CASE BeginCommit(t) \/ ValidateFails(t) \/ EndCommit(t)
      <3>1. UNCHANGED <<writes, redoLocked>>
        BY <2>1 DEF BeginCommit, ValidateFails, EndCommit, CalcBegin, CalcEnd
      <3>2. /\ \A u \in Txn : u # t => pc'[u] = pc[u] /\ startPhase'[u] = startPhase[u]
            /\ startPhase'[t] = NONE <=> pc'[t] \in {"run", "ended"}
            /\ pc'[t] # "logged"
            /\ pc'[t] \notin LockedStates => pc[t] \notin LockedStates
        BY <2>1 DEF BeginCommit, ValidateFails, EndCommit, CalcBegin, CalcEnd, SessionInv,
           Phases, REST, COMPLETE, NONE
      <3>3. QED
        BY <3>1, <3>2 DEF SessionInv, Holds
    <2>2. CASE FailLate(t) \/ EndTransaction(t)
      BY <2>2, NoWritesFacts DEF FailLate, EndTransaction, calcVars, SessionInv, Holds
    <2>3. ASSUME NEW w \in WriteSets, ValidateOcc(t, w)
          PROVE  SessionInv'
      <3>1. \A u \in Txn : SessionOf(u)'
        BY <2>3 DEF ValidateOcc, calcVars, SessionInv
      <3>2. \A u \in Txn : \A k \in Key : k \in DOMAIN w => ~Holds(u, k)
        BY <2>3, HeldLocked DEF ValidateOcc
      <3>3. QED
        BY <2>3, <3>1, <3>2 DEF ValidateOcc, SessionInv, Holds
    <2>4. CASE RollbackPrepared(t) \/ LogCommit(t) \/ WriteChanges(t)
      BY <2>4 DEF RollbackPrepared, LogCommit, WriteChanges, calcVars, SessionInv, Holds
    <2>5. QED
      BY <1>1, <2>1, <2>2, <2>3, <2>4 DEF Session
  <1>2. CASE \E k \in Key : RemoveKey(k)
    BY <1>2 DEF RemoveKey, calcVars, sessionVars, SessionInv, Holds
  <1>3. CASE CheckpointStep
    <2>1. UNCHANGED <<pc, writes, startPhase>>
      BY <1>3 DEF CheckpointStep, Prepare, CreateSnapShot, SnapshotReady, BeginCheckpoint,
         VisitKey, WriteFails, CaptureEnded, CompleteCheckpoint, CompleteCheckpointFails,
         MoveToRest, Abort, AbortMoveToRest, ToPrepare, ToResolve, ToCapture, UnlockRedo,
         ToComplete, ToRest, calcVars, sessionVars
    <2>2. redoLocked' => redoLocked \/ CreateSnapShot
      BY <1>3 DEF CheckpointStep, Prepare, CreateSnapShot, SnapshotReady, BeginCheckpoint,
         VisitKey, WriteFails, CaptureEnded, CompleteCheckpoint, CompleteCheckpointFails,
         MoveToRest, Abort, AbortMoveToRest, ToPrepare, ToResolve, ToCapture, UnlockRedo,
         ToComplete, ToRest, calcVars, sessionVars
    <2>3. CreateSnapShot => \A t \in Txn : pc[t] # "logged"
      BY DEF CreateSnapShot, ToCapture, Drained, StartInv, StartOf, StartedIn, SessionInv,
         NONE, REST, PREPARE, RESOLVE, CAPTURE, COMPLETE
    <2>4. QED
      BY <2>1, <2>2, <2>3 DEF SessionInv, Holds
  <1>4. CASE CrashAndRecover
    BY <1>4, NoWritesFacts DEF CrashAndRecover, CalcRestart, SessionInv, Holds
  <1>5. CASE UNCHANGED vars
    BY <1>5 DEF vars, calcVars, sessionVars, SessionInv, Holds
  <1>6. QED
    BY <1>1, <1>2, <1>3, <1>4, <1>5 DEF Next

LEMMA PhaseStep ==
    ASSUME TypeOK, PhaseInv, [Next]_vars
    PROVE  PhaseInv'
  <1> USE DEF PhaseInv, REST, PREPARE, RESOLVE, CAPTURE, COMPLETE
  <1>1. ASSUME NEW t \in Txn, Session(t)
        PROVE  PhaseInv'
    BY <1>1 DEF Session, BeginCommit, ValidateFails, FailLate, ValidateOcc, RollbackPrepared,
       LogCommit, WriteChanges, EndCommit, EndTransaction, CalcBegin, CalcEnd, calcVars,
       captureVars, durableVars
  <1>2. CASE \E k \in Key : RemoveKey(k)
    BY <1>2 DEF RemoveKey, calcVars, captureVars, durableVars
  <1>3. CASE CheckpointStep
    <2> USE DEF CkptGoto
    <2>1. CASE Prepare
      BY <2>1 DEF Prepare, ToPrepare, ToResolve, captureVars, durableVars
    <2>2. CASE CreateSnapShot \/ SnapshotReady \/ BeginCheckpoint
      BY <2>2 DEF CreateSnapShot, SnapshotReady, BeginCheckpoint, ToCapture, UnlockRedo,
         calcVars, durableVars
    <2>3. CASE (\E k \in Key : VisitKey(k)) \/ WriteFails
      <3>1. UNCHANGED <<phase, ckpt, redoLocked, aborted>> /\ ckpt = "capturing"
        BY <2>3 DEF VisitKey, WriteFails, calcVars, durableVars
      <3>2. QED
        BY <3>1
    <2>4. CASE CaptureEnded \/ CompleteCheckpoint \/ CompleteCheckpointFails
      BY <2>4 DEF CaptureEnded, CompleteCheckpoint, CompleteCheckpointFails, ToComplete,
         calcVars, durableVars
    <2>5. CASE MoveToRest \/ Abort \/ AbortMoveToRest
      BY <2>5 DEF MoveToRest, Abort, AbortMoveToRest, ToRest, ToComplete
    <2>6. QED
      BY <1>3, <2>1, <2>2, <2>3, <2>4, <2>5 DEF CheckpointStep
  <1>4. CASE CrashAndRecover
    BY <1>4 DEF CrashAndRecover, CalcRestart
  <1>5. CASE UNCHANGED vars
    BY <1>5 DEF vars, calcVars, captureVars, durableVars
  <1>6. QED
    BY <1>1, <1>2, <1>3, <1>4, <1>5 DEF Next

LEMMA StartStep ==
    ASSUME TypeOK, StartInv, [Next]_vars
    PROVE  StartInv'
  <1> USE DEF StartOf, StartedIn, NONE, REST, PREPARE, RESOLVE, CAPTURE, COMPLETE
  <1>1. ASSUME NEW t \in Txn, CalcBegin(t) \/ CalcEnd(t)
        PROVE  StartInv'
    BY <1>1 DEF CalcBegin, CalcEnd, StartInv, TypeOK, Phases
  <1>2. CASE ToPrepare \/ ToResolve \/ ToCapture \/ UnlockRedo \/ ToComplete \/ ToRest
    <2> SUFFICES ASSUME NEW u \in Txn PROVE StartOf(u)'
      BY DEF StartInv
    <2>1. StartOf(u) /\ phase \in 1..5 /\ availableBit \in BOOLEAN /\ naBit[u] \in BOOLEAN
      BY DEF StartInv, TypeOK, Phases
    <2>2. CASE ToPrepare \/ ToResolve
      BY <2>1, <2>2 DEF ToPrepare, ToResolve, Drained
    <2>3. CASE ToCapture \/ UnlockRedo \/ ToComplete
      BY <2>1, <2>3 DEF ToCapture, UnlockRedo, ToComplete, Drained
    <2>4. CASE ToRest
      BY <2>1, <2>4 DEF ToRest, Drained
    <2>5. QED
      BY <1>2, <2>2, <2>3, <2>4
  <1>3. CASE CalcRestart
    BY <1>3 DEF CalcRestart, StartInv
  <1>4. CASE UNCHANGED calcVars
    BY <1>4 DEF calcVars, StartInv
  <1>5. (\E t \in Txn : Session(t)) => CalcNext \/ UNCHANGED calcVars
    BY DEF CalcNext, Session, BeginCommit, ValidateFails, FailLate, ValidateOcc,
       RollbackPrepared, LogCommit, WriteChanges, EndCommit, EndTransaction
  <1>6. CheckpointStep => CalcNext \/ UNCHANGED calcVars
    BY DEF CalcNext, CheckpointStep, Prepare, CreateSnapShot, SnapshotReady, BeginCheckpoint,
       VisitKey, WriteFails, CaptureEnded, CompleteCheckpoint, CompleteCheckpointFails,
       MoveToRest, Abort, AbortMoveToRest
  <1>7. [Next]_vars => CalcNext \/ UNCHANGED calcVars
    BY <1>5, <1>6 DEF Next, CalcNext, CrashAndRecover, RemoveKey, vars
  <1>8. QED
    BY <1>1, <1>2, <1>3, <1>4, <1>7 DEF CalcNext

-----------------------------------------------------------------------------
(* Rows under the steps of sessions.                                       *)

\* A session's step leaves the checkpoint's own state alone.
LEMMA SessionFrame ==
    ASSUME NEW t \in Txn, Session(t)
    PROVE  UNCHANGED <<phase, availableBit, ckpt, todo, image, error, cut, aborted>>
  BY DEF Session, BeginCommit, ValidateFails, FailLate, ValidateOcc, RollbackPrepared,
     LogCommit, WriteChanges, EndCommit, EndTransaction, CalcBegin, CalcEnd, calcVars,
     captureVars, durableVars

\* Steps that touch neither rows nor the log: at most a validated commit is over.
LEMMA QuietStep ==
    ASSUME TypeOK, SessionInv, NEW t \in Txn, NEW k \in Key, KeyOf(k),
           \/ BeginCommit(t) \/ ValidateFails(t) \/ FailLate(t)
           \/ EndCommit(t) \/ EndTransaction(t)
    PROVE  KeyOf(k)'
  <1>1. UNCHANGED <<rowVars, captureVars, durableVars, phase, availableBit>>
    BY DEF BeginCommit, ValidateFails, FailLate, EndCommit, EndTransaction, CalcBegin,
       CalcEnd, calcVars
  <1>2. \A u \in Txn : /\ (pc[u] = "logged" /\ Holds(u, k))' <=> pc[u] = "logged" /\ Holds(u, k)
                       /\ pc[u] = "logged" => writes'[u] = writes[u]
                       /\ (pc[u] \in {"validated", "logged"} /\ Holds(u, k))' =>
                             pc[u] \in {"validated", "logged"} /\ Holds(u, k)
    BY DEF BeginCommit, ValidateFails, FailLate, EndCommit, EndTransaction, Holds, TypeOK
  <1>3. LoggedOf(k)'
    BY <1>1, <1>2 DEF KeyOf, LoggedOf, rowVars, captureVars, durableVars, Installed
  <1>4. UnvisitedOf(k) => UnvisitedOf(k)'
    BY <1>1, <1>2 DEF UnvisitedOf, rowVars, captureVars, durableVars, Installed, AtCutoff,
       Available
  <1>5. QED
    BY <1>1, <1>3, <1>4 DEF KeyOf, rowVars, captureVars, durableVars, RestingOf, VisitedOf,
       Visited, Unvisited, Available

LEMMA ValidateStep ==
    ASSUME IInv, NEW t \in Txn, NEW w \in WriteSets, ValidateOcc(t, w), NEW k \in Key, KeyOf(k)
    PROVE  KeyOf(k)'
  <1>1. UNCHANGED <<calcVars, row, status, captureVars, durableVars>>
    BY DEF ValidateOcc
  <1>2. UNCHANGED <<phase, availableBit, startPhase, ckpt, todo, image, error, cut,
                    logged, since, disk, aborted>>
    BY <1>1 DEF calcVars, captureVars, durableVars
  <1>3. \A u \in Txn : /\ u # t => pc'[u] = pc[u] /\ writes'[u] = writes[u]
                       /\ pc[t] = "begun" /\ pc'[t] = "validated" /\ writes'[t] = w
    BY DEF ValidateOcc, IInv, TypeOK
  <1>4. LoggedOf(k)'
    BY <1>1, <1>2, <1>3 DEF KeyOf, LoggedOf, Installed, Holds
  <1>5. CASE k \in DOMAIN w /\ PreAllocates(t, k)
    <2>1. stable'[k] = row[k] /\ preAlloc'[k] = TRUE
      BY <1>5 DEF ValidateOcc
    <2>2. row[k] \in Val /\ startPhase[t] = CAPTURE /\ ~Available(k)
      BY <1>5 DEF PreAllocates
    <2>3. phase = CAPTURE \/ phase = COMPLETE
      BY <2>2 DEF IInv, StartInv, StartOf, StartedIn, TypeOK, Phases,
         NONE, REST, PREPARE, RESOLVE, CAPTURE, COMPLETE
    <2>4. ckpt # "idle" /\ ~(Visited(k) /\ error = "none")
      BY <2>2, <2>3 DEF KeyOf, VisitedOf, IInv, PhaseInv, REST, PREPARE, RESOLVE, CAPTURE, COMPLETE
    <2>5. UnvisitedOf(k) => UnvisitedOf(k)'
      BY <1>1, <1>2, <2>1, <2>2, RowsDistinct DEF UnvisitedOf, AtCutoff, Installed, Available
    <2>6. QED
      BY <1>1, <1>2, <1>4, <2>4, <2>5 DEF KeyOf, Visited, Unvisited
  <1>6. CASE ~(k \in DOMAIN w /\ PreAllocates(t, k))
    <2>1. stable'[k] = stable[k] /\ preAlloc'[k] = preAlloc[k]
      BY <1>6 DEF ValidateOcc, IInv, TypeOK
    <2>2. ASSUME Unvisited(k), UnvisitedOf(k)
          PROVE  UnvisitedOf(k)'
      <3>1. pc[t] = "begun" /\ startPhase[t] = CAPTURE
        BY <1>3, <2>2 DEF Unvisited, IInv, PhaseInv, StartInv, StartOf, StartedIn, SessionInv,
           SessionOf, NONE, REST, PREPARE, RESOLVE, CAPTURE, COMPLETE
      <3>2. k \in DOMAIN w => row[k] \notin Val \/ Available(k)
        BY <1>6, <3>1 DEF PreAllocates
      <3>3. QED
        BY <1>1, <1>2, <1>3, <2>1, <2>2, <3>2 DEF UnvisitedOf, AtCutoff, Installed, Available, Holds
    <2>3. QED
      BY <1>1, <1>2, <1>4, <2>1, <2>2 DEF KeyOf, Visited, Unvisited, RestingOf, VisitedOf, Available
  <1>7. QED
    BY <1>5, <1>6

LEMMA RollbackStep ==
    ASSUME IInv, NEW t \in Txn, RollbackPrepared(t), NEW k \in Key, KeyOf(k)
    PROVE  KeyOf(k)'
  <1>1. UNCHANGED <<row, status, phase, availableBit, startPhase, ckpt, todo, image, error, cut,
                    logged, since, disk, aborted, writes>>
    BY DEF RollbackPrepared, calcVars, captureVars, durableVars
  <1>2. /\ \A u \in Txn : u # t => pc'[u] = pc[u]
        /\ pc[t] = "validated" /\ pc'[t] = "rolled_back"
    BY DEF RollbackPrepared, IInv, TypeOK
  <1>3. IF Holds(t, k) /\ preAlloc[k] THEN stable'[k] = NoRow /\ preAlloc'[k] = FALSE
                                      ELSE stable'[k] = stable[k] /\ preAlloc'[k] = preAlloc[k]
    BY DEF RollbackPrepared, FreePreAllocStableRows, Holds, IInv, TypeOK
  <1>4. LoggedOf(k)'
    BY <1>1, <1>2 DEF KeyOf, LoggedOf, Installed, Holds
  <1>5. \A u \in Txn : Holds(t, k) /\ Holds(u, k) => u = t
    BY DEF IInv, SessionInv
  <1>6. UnvisitedOf(k) => UnvisitedOf(k)'
    BY <1>1, <1>2, <1>3, <1>5, RowsDistinct DEF UnvisitedOf, AtCutoff, Installed, Available, Holds
  <1>7. QED
    BY <1>1, <1>3, <1>4, <1>6 DEF KeyOf, Visited, Unvisited, RestingOf, VisitedOf, Available

LEMMA LogStep ==
    ASSUME IInv, NEW t \in Txn, LogCommit(t), NEW k \in Key, KeyOf(k)
    PROVE  KeyOf(k)'
  <1>1. UNCHANGED <<row, status, stable, preAlloc, phase, availableBit, ckpt, todo, image, error,
                    cut, aborted, writes>>
    BY DEF LogCommit, calcVars, captureVars, rowVars
  <1>2. /\ \A u \in Txn : u # t => pc'[u] = pc[u]
        /\ pc[t] = "validated" /\ pc'[t] = "logged"
    BY DEF LogCommit, IInv, TypeOK
  <1>3. IF Holds(t, k) THEN /\ logged'[k] = Outcome(writes[t][k])
                            /\ k \in since' /\ k \in disk'.since
                       ELSE /\ logged'[k] = logged[k]
                            /\ k \in since' <=> k \in since
                            /\ k \in disk'.since <=> k \in disk.since
    BY DEF LogCommit, IInv, TypeOK, Holds
  <1>4. disk'.rows = disk.rows
    BY DEF LogCommit, IInv, TypeOK
  <1>5. \A u \in Txn : Holds(t, k) /\ Holds(u, k) => u = t
    BY DEF IInv, SessionInv
  <1>6. LoggedOf(k)'
    BY <1>1, <1>2, <1>3, <1>5 DEF KeyOf, LoggedOf, Installed, Holds
  <1>7. ckpt # "snapshot"
    BY DEF LogCommit, IInv, PhaseInv
  <1>8. UnvisitedOf(k) => UnvisitedOf(k)'
    BY <1>1, <1>2, <1>7 DEF UnvisitedOf, AtCutoff, Installed, Available, Holds
  <1>9. QED
    BY <1>1, <1>3, <1>4, <1>6, <1>8 DEF KeyOf, Visited, Unvisited, RestingOf, VisitedOf, Available

\* The status bit after a write.
LEMMA StatusWritten ==
    ASSUME TypeOK, StartInv, NEW t \in Txn, NEW k \in Key, NEW a \in Accesses,
           startPhase[t] # NONE, Permitted(a, k)
    PROVE  /\ phase \in {REST, PREPARE, RESOLVE} =>
                 \/ ApplyWrite(t, k, a) = ~availableBit
                 \/ row[k] \in Val /\ ApplyWrite(t, k, a) = status[k]
           /\ phase = CAPTURE => ApplyWrite(t, k, a) = availableBit
           /\ phase = COMPLETE =>
                 \/ ApplyWrite(t, k, a) = availableBit
                 \/ row[k] \in Val /\ ApplyWrite(t, k, a) = status[k]
  <1> USE DEF NONE, REST, PREPARE, RESOLVE, CAPTURE, COMPLETE
  <1>1. /\ phase \in 1..5 /\ startPhase[t] \in StartedIn(phase)
        /\ startPhase[t] = COMPLETE => (naBit[t] = availableBit <=> phase = REST)
        /\ naBit[t] \in BOOLEAN /\ availableBit \in BOOLEAN
    BY DEF TypeOK, Phases, StartInv, StartOf
  <1>2. a.type = "INS" \/ row[k] \in Val
    BY DEF Permitted
  <1>3. CASE startPhase[t] \in {REST, PREPARE} /\ a.type = "INS"
    BY <1>1, <1>3 DEF ApplyWrite, StartedIn
  <1>4. CASE startPhase[t] = CAPTURE
    BY <1>1, <1>4 DEF ApplyWrite, StartedIn
  <1>5. CASE startPhase[t] = COMPLETE /\ a.type = "INS"
    <2>1. ApplyWrite(t, k, a) = ~naBit[t]
      BY <1>5 DEF ApplyWrite
    <2>2. phase = REST \/ phase = COMPLETE
      BY <1>1, <1>5 DEF StartedIn
    <2>3. phase = REST => ApplyWrite(t, k, a) = ~availableBit
      BY <1>1, <1>5, <2>1
    <2>4. phase = COMPLETE => ApplyWrite(t, k, a) = availableBit
      BY <1>1, <1>5, <2>1
    <2>5. QED
      BY <2>2, <2>3, <2>4
  <1>6. CASE startPhase[t] # CAPTURE /\ a.type # "INS"
    <2>1. ApplyWrite(t, k, a) = status[k]
      BY <1>6 DEF ApplyWrite
    <2>2. phase # CAPTURE
      BY <1>1, <1>6 DEF StartedIn
    <2>3. QED
      BY <1>2, <1>6, <2>1, <2>2
  <1>7. startPhase[t] \in {REST, PREPARE, CAPTURE, COMPLETE}
    BY <1>1 DEF StartedIn
  <1>8. QED
    BY <1>3, <1>4, <1>5, <1>6, <1>7

LEMMA WriteStep ==
    ASSUME IInv, NEW t \in Txn, WriteChanges(t), NEW k \in Key, KeyOf(k)
    PROVE  KeyOf(k)'
  <1> DEFINE a == writes[t][k]
  <1>1. UNCHANGED <<stable, phase, availableBit, startPhase, ckpt, todo, image, error,
                    cut, logged, since, disk, aborted, writes>>
    BY DEF WriteChanges, calcVars, captureVars, durableVars
  <1>2. /\ \A u \in Txn : u # t => pc'[u] = pc[u]
        /\ pc[t] = "logged" /\ pc'[t] = "applied"
    BY DEF WriteChanges, IInv, TypeOK
  <1>3. \A u \in Txn : Holds(t, k) /\ Holds(u, k) => u = t
    BY DEF IInv, SessionInv
  <1>4. CASE ~Holds(t, k)
    <2>1. row'[k] = row[k] /\ status'[k] = status[k] /\ preAlloc'[k] = preAlloc[k]
      BY <1>4 DEF WriteChanges, Holds, IInv, TypeOK
    <2>2. LoggedOf(k)'
      BY <1>1, <1>2, <1>4, <2>1 DEF KeyOf, LoggedOf, Installed, Holds
    <2>3. UnvisitedOf(k) => UnvisitedOf(k)'
      BY <1>1, <1>2, <1>4, <2>1 DEF UnvisitedOf, AtCutoff, Installed, Available, Holds
    <2>4. QED
      BY <1>1, <2>1, <2>2, <2>3 DEF KeyOf, Visited, Unvisited, RestingOf, VisitedOf, Available
  <1>5. CASE Holds(t, k)
    <2>1. /\ a \in Accesses /\ row'[k] = a.new /\ status'[k] = ApplyWrite(t, k, a)
          /\ preAlloc'[k] = (preAlloc[k] /\ ~(startPhase[t] = CAPTURE /\ row[k] \in Val /\ ~Available(k)))
      BY <1>5, HeldAccess DEF WriteChanges, Holds, IInv, TypeOK
    <2>2. row'[k] \in Val \cup {Tombstone} /\ Outcome(a) = IF row'[k] \in Val THEN row'[k] ELSE NoRow
      BY <2>1, AccessFacts, RowsDistinct
    <2>3. LoggedOf(k)'
      BY <1>1, <1>2, <1>3, <1>5, <2>2 DEF KeyOf, LoggedOf, Installed, Holds
    <2>4. startPhase[t] # NONE /\ Permitted(a, k)
      BY <1>2, <1>5 DEF IInv, SessionInv, SessionOf, ValidatedInv, ValidatedOf
    <2>5. /\ phase \in {REST, PREPARE, RESOLVE} =>
                status'[k] = ~availableBit \/ (row[k] \in Val /\ status'[k] = status[k])
          /\ phase = CAPTURE => status'[k] = availableBit
          /\ phase = COMPLETE =>
                status'[k] = availableBit \/ (row[k] \in Val /\ status'[k] = status[k])
      BY <2>1, <2>4, StatusWritten DEF IInv
    <2>6. availableBit \in BOOLEAN /\ (~availableBit) # availableBit
      BY DEF IInv, TypeOK
    <2>7. ASSUME ckpt = "idle"
          PROVE  RestingOf(k)'
      BY <1>1, <2>1, <2>5, <2>6, <2>7 DEF KeyOf, RestingOf, Available, IInv, PhaseInv
    <2>8. ASSUME Unvisited(k)
          PROVE  UnvisitedOf(k)'
      <3>1. phase = CAPTURE /\ startPhase[t] = CAPTURE
        BY <2>4, <2>8 DEF Unvisited, IInv, PhaseInv, StartInv, StartOf, StartedIn,
           NONE, REST, PREPARE, RESOLVE, CAPTURE, COMPLETE
      <3>2. Available(k)' /\ row'[k] # NoRow
        BY <1>1, <2>2, <2>5, <3>1, RowsDistinct DEF Available
      <3>3. ~preAlloc'[k]
        BY <2>1, <2>8, <3>1 DEF KeyOf, UnvisitedOf
      <3>4. AtCutoff(k) = stable[k]
        BY <1>2, <1>5, <2>8, RowsDistinct DEF KeyOf, UnvisitedOf, Installed
      <3>5. QED
        BY <1>1, <2>8, <3>2, <3>3, <3>4 DEF KeyOf, UnvisitedOf, AtCutoff
    <2>9. ASSUME Visited(k), error = "none"
          PROVE  VisitedOf(k)'
      <3>1. phase = CAPTURE \/ phase = COMPLETE
        BY <2>9 DEF Visited, IInv, PhaseInv, TypeOK, Phases, REST, PREPARE, RESOLVE, CAPTURE, COMPLETE
      <3>2. QED
        BY <1>1, <2>1, <2>5, <2>9, <3>1 DEF KeyOf, VisitedOf, Available
    <2>10. QED
      BY <1>1, <2>3, <2>7, <2>8, <2>9 DEF KeyOf, Visited, Unvisited
  <1>6. QED
    BY <1>4, <1>5

\* A row that a validated commit holds stays as it was validated.
LEMMA ValidatedStep ==
    ASSUME TypeOK, SessionInv, ValidatedInv, [Next]_vars
    PROVE  ValidatedInv'
  <1> SUFFICES ASSUME NEW u \in Txn, NEW k \in Key,
                      (pc[u] \in {"validated", "logged"} /\ Holds(u, k))'
               PROVE  Permitted(writes[u][k], k)'
    BY DEF ValidatedInv, ValidatedOf
  <1>1. ASSUME NEW t \in Txn, Session(t)
        PROVE  Permitted(writes[u][k], k)'
    <2>1. ASSUME NEW w \in WriteSets, ValidateOcc(t, w)
          PROVE  Permitted(writes[u][k], k)'
      BY <2>1 DEF ValidateOcc, Permitted, Holds, TypeOK, ValidatedInv, ValidatedOf
    <2>2. CASE WriteChanges(t)
      <3>1. u # t /\ Holds(u, k) /\ pc[u] \in {"validated", "logged"} /\ writes' = writes
        BY <2>2 DEF WriteChanges, Holds, TypeOK
      <3>2. ~Holds(t, k)
        BY <3>1 DEF SessionInv
      <3>3. row'[k] = row[k]
        BY <2>2, <3>2 DEF WriteChanges, Holds
      <3>4. QED
        BY <3>1, <3>3 DEF ValidatedInv, ValidatedOf, Permitted
    <2>3. CASE \/ BeginCommit(t) \/ ValidateFails(t) \/ FailLate(t) \/ RollbackPrepared(t)
               \/ LogCommit(t) \/ EndCommit(t) \/ EndTransaction(t)
      <3>1. row' = row
        BY <2>3 DEF BeginCommit, ValidateFails, FailLate, RollbackPrepared, LogCommit, EndCommit,
           EndTransaction, rowVars
      <3>2. Holds(u, k) /\ writes'[u] = writes[u] /\ pc[u] \in {"validated", "logged"}
        BY <2>3 DEF BeginCommit, ValidateFails, FailLate, RollbackPrepared, LogCommit, EndCommit,
           EndTransaction, Holds, TypeOK
      <3>3. QED
        BY <3>1, <3>2 DEF ValidatedInv, ValidatedOf, Permitted
    <2>4. QED
      BY <1>1, <2>1, <2>2, <2>3 DEF Session
  <1>2. ASSUME NEW j \in Key, RemoveKey(j)
        PROVE  Permitted(writes[u][k], k)'
    <2>1. Holds(u, k) /\ pc[u] \in {"validated", "logged"} /\ writes' = writes
      BY <1>2 DEF RemoveKey, sessionVars, Holds
    <2>2. row'[k] = row[k]
      BY <1>2, <2>1, HeldLocked DEF RemoveKey, TypeOK
    <2>3. QED
      BY <2>1, <2>2 DEF ValidatedInv, ValidatedOf, Permitted
  <1>3. CASE CheckpointStep \/ UNCHANGED vars
    <2>1. UNCHANGED <<pc, writes, row>>
      BY <1>3 DEF vars, CheckpointStep, Prepare, CreateSnapShot, SnapshotReady, BeginCheckpoint,
         VisitKey, Checkpoint, WriteFails, CaptureEnded, CompleteCheckpoint,
         CompleteCheckpointFails, MoveToRest, Abort, AbortMoveToRest, sessionVars, rowVars
    <2>2. QED
      BY <2>1 DEF ValidatedInv, ValidatedOf, Permitted, Holds
  <1>4. CASE CrashAndRecover
    BY <1>4 DEF CrashAndRecover
  <1>5. QED
    BY <1>1, <1>2, <1>3, <1>4 DEF Next

-----------------------------------------------------------------------------
(* Rows under the garbage collector, the checkpoint and a crash.           *)

LEMMA RemoveStep ==
    ASSUME IInv, NEW j \in Key, RemoveKey(j), NEW k \in Key, KeyOf(k)
    PROVE  KeyOf(k)'
  <1>1. UNCHANGED <<stable, preAlloc, phase, availableBit, ckpt, todo, image, error,
                    cut, logged, since, disk, aborted, writes, pc>>
    BY DEF RemoveKey, calcVars, sessionVars, captureVars, durableVars
  <1>2. CASE k # j
    <2>1. row'[k] = row[k] /\ status'[k] = status[k]
      BY <1>2 DEF RemoveKey, IInv, TypeOK
    <2>2. LoggedOf(k)'
      BY <1>1, <2>1 DEF KeyOf, LoggedOf, Installed, Holds
    <2>3. UnvisitedOf(k) => UnvisitedOf(k)'
      BY <1>1, <2>1 DEF UnvisitedOf, AtCutoff, Installed, Available, Holds
    <2>4. QED
      BY <1>1, <2>1, <2>2, <2>3 DEF KeyOf, Visited, Unvisited, RestingOf, VisitedOf, Available
  <1>3. CASE k = j
    <2>1. /\ row[k] = Tombstone /\ stable[k] = NoRow /\ row'[k] = NoRow
          /\ Installed(k) = NoRow /\ Installed(k)' = NoRow /\ row[k] # NoRow
          /\ row'[k] \notin Val
      BY <1>3, RowsDistinct DEF RemoveKey, IInv, TypeOK, Installed
    <2>2. \A t \in Txn : ~Holds(t, k)
      BY <1>3, HeldLocked DEF RemoveKey, IInv
    <2>3. LoggedOf(k)'
      BY <1>1, <2>1 DEF KeyOf, LoggedOf, Holds
    <2>4. UnvisitedOf(k) => UnvisitedOf(k)'
      BY <1>1, <2>1, <2>2, RowsDistinct DEF UnvisitedOf, AtCutoff, Holds
    <2>5. QED
      BY <1>1, <2>1, <2>3, <2>4 DEF KeyOf, Visited, Unvisited, RestingOf, VisitedOf
  <1>4. QED
    BY <1>2, <1>3

\* What a visit to key j does to every key.
LEMMA VisitCases ==
    ASSUME TypeOK, NEW j \in Key, VisitKey(j)
    PROVE  /\ UNCHANGED <<row, preAlloc>>
           /\ \A k \in Key : k # j =>
                 stable'[k] = stable[k] /\ status'[k] = status[k] /\ image'[k] = image[k]
           /\ \/ UNCHANGED error
              \/ error' = "calc" /\ row[j] # NoRow /\ ~Available(j) /\ stable[j] # NoRow
  <1>1. CASE row[j] = NoRow
    BY <1>1 DEF VisitKey, rowVars
  <1>2. CASE row[j] # NoRow
    <2> USE DEF TypeOK
    <2>0. Checkpoint(j) /\ row[j] \in Val \cup {Tombstone}
      BY <1>2 DEF VisitKey, Contents
    <2>1. CASE Available(j)
      BY <2>0, <2>1 DEF Checkpoint
    <2>2. CASE ~Available(j) /\ stable[j] = NoRow /\ row[j] \in Val
      BY <2>0, <2>2, RowsDistinct DEF Checkpoint
    <2>3. CASE ~Available(j) /\ stable[j] = NoRow /\ row[j] = Tombstone
      BY <2>0, <2>3, RowsDistinct DEF Checkpoint
    <2>4. CASE ~Available(j) /\ stable[j] # NoRow
      BY <1>2, <2>0, <2>4 DEF Checkpoint
    <2>5. QED
      BY <2>0, <2>1, <2>2, <2>3, <2>4
  <1>3. QED
    BY <1>1, <1>2

LEMMA VisitStep ==
    ASSUME IInv, NEW j \in Key, VisitKey(j), NEW k \in Key, KeyOf(k)
    PROVE  KeyOf(k)'
  <1>1. UNCHANGED <<phase, availableBit, ckpt, cut, logged, since, disk, aborted, writes, pc,
                    row, preAlloc>>
    BY DEF VisitKey, Checkpoint, calcVars, sessionVars, durableVars, rowVars
  <1>2. LoggedOf(k)'
    BY <1>1 DEF KeyOf, LoggedOf, Installed, Holds
  <1>3. ckpt = "capturing" /\ j \in todo /\ ~Locked(j) /\ todo' = todo \ {j}
    BY DEF VisitKey
  <1>4. error' = "none" => error = "none"
    BY VisitCases DEF IInv
  <1>5. CASE k # j
    <2>1. /\ stable'[k] = stable[k] /\ status'[k] = status[k] /\ image'[k] = image[k]
          /\ k \in todo' <=> k \in todo
      BY <1>3, <1>5, VisitCases DEF IInv
    <2>2. UnvisitedOf(k) => UnvisitedOf(k)'
      BY <1>1, <2>1 DEF UnvisitedOf, AtCutoff, Installed, Available, Holds
    <2>3. QED
      BY <1>1, <1>2, <1>3, <1>4, <2>1, <2>2 DEF KeyOf, Visited, Unvisited, VisitedOf, Available
  <1>6. CASE k = j
    <2>1. UnvisitedOf(k) /\ AtCutoff(k) = cut[k]
      BY <1>3, <1>6 DEF KeyOf, Unvisited, AtCutoff
    <2>2. ASSUME error' = "none"
          PROVE  VisitedOf(k)'
      <3>1. CASE row[k] = NoRow
        BY <1>1, <1>6, <2>1, <3>1, RowsDistinct DEF VisitKey, rowVars, UnvisitedOf, VisitedOf
      <3>2. CASE row[k] # NoRow /\ Available(k)
        BY <1>1, <1>6, <2>1, <3>2 DEF VisitKey, Checkpoint, UnvisitedOf, VisitedOf, Available,
           IInv, TypeOK
      <3>3. CASE row[k] # NoRow /\ ~Available(k) /\ stable[k] = NoRow /\ row[k] \in Val
        BY <1>1, <1>6, <2>1, <3>3, RowsDistinct
        DEF VisitKey, Checkpoint, UnvisitedOf, VisitedOf, Available, Installed, IInv, TypeOK
      <3>4. CASE row[k] # NoRow /\ ~Available(k) /\ stable[k] = NoRow /\ row[k] = Tombstone
        BY <1>1, <1>6, <2>1, <3>4, RowsDistinct
        DEF VisitKey, Checkpoint, UnvisitedOf, VisitedOf, Available, Installed, IInv, TypeOK
      <3>5. ~(row[k] # NoRow /\ ~Available(k) /\ stable[k] # NoRow)
        BY <1>6, <2>2 DEF VisitKey, Checkpoint
      <3>6. row[k] \in Val \/ row[k] = NoRow \/ row[k] = Tombstone
        BY DEF IInv, TypeOK, Contents
      <3>7. QED
        BY <3>1, <3>2, <3>3, <3>4, <3>5, <3>6
    <2>3. QED
      BY <1>1, <1>2, <1>3, <1>6, <2>2 DEF KeyOf, Visited, Unvisited
  <1>7. QED
    BY <1>5, <1>6

LEMMA CheckpointKeyStep ==
    ASSUME IInv, CheckpointStep, ~aborted, ~aborted', NEW k \in Key, KeyOf(k)
    PROVE  KeyOf(k)'
  <1> USE DEF CkptGoto
  <1>1. CASE \E j \in Key : VisitKey(j)
    BY <1>1, VisitStep
  <1>2. CASE Abort \/ AbortMoveToRest
    BY <1>2 DEF Abort, AbortMoveToRest, IInv, PhaseInv
  <1>3. CASE \/ Prepare \/ CreateSnapShot \/ SnapshotReady \/ BeginCheckpoint \/ WriteFails
             \/ CaptureEnded \/ CompleteCheckpoint \/ CompleteCheckpointFails \/ MoveToRest
    <2>1. UNCHANGED <<row, status, stable, preAlloc, pc, writes, logged>>
      BY <1>3 DEF Prepare, CreateSnapShot, SnapshotReady, BeginCheckpoint, WriteFails,
         CaptureEnded, CompleteCheckpoint, CompleteCheckpointFails, MoveToRest, sessionVars,
         rowVars, durableVars
    <2>2. LoggedOf(k)'
      BY <2>1 DEF KeyOf, LoggedOf, Installed, Holds
    <2>3. CASE Prepare
      BY <2>1, <2>2, <2>3 DEF Prepare, ToPrepare, ToResolve, captureVars, durableVars,
         KeyOf, Visited, Unvisited, RestingOf, Available
    <2>4. CASE CreateSnapShot
      <3>1. /\ ckpt = "idle" /\ ckpt' = "snapshot" /\ availableBit' = availableBit
            /\ UNCHANGED <<image, disk>>
        BY <2>4 DEF CreateSnapShot, ToCapture, durableVars
      <3>2. \A t \in Txn : pc[t] \in {"run", "ended"}
        BY <2>4 DEF CreateSnapShot, ToCapture, Drained, IInv, StartInv, StartOf, StartedIn,
           SessionInv, SessionOf, NONE, REST, PREPARE, RESOLVE, CAPTURE, COMPLETE
      <3>3. logged[k] = Installed(k)
        BY <3>2 DEF KeyOf, LoggedOf
      <3>4. UnvisitedOf(k)'
        BY <2>1, <3>1, <3>2, <3>3, RowsDistinct DEF KeyOf, RestingOf, UnvisitedOf, AtCutoff,
           Installed, Available
      <3>5. QED
        BY <2>1, <2>2, <3>1, <3>4 DEF KeyOf, Visited
    <2>5. CASE SnapshotReady
      <3>1. /\ ckpt = "snapshot" /\ ckpt' = "guts" /\ availableBit' = availableBit
            /\ UNCHANGED <<image, disk>> /\ cut' = logged
        BY <2>5 DEF SnapshotReady, UnlockRedo
      <3>2. UnvisitedOf(k)'
        BY <2>1, <3>1 DEF KeyOf, Unvisited, UnvisitedOf, AtCutoff, Installed, Available, Holds
      <3>3. QED
        BY <2>1, <2>2, <3>1, <3>2 DEF KeyOf, Visited
    <2>6. CASE BeginCheckpoint
      <3>1. /\ ckpt = "guts" /\ ckpt' = "capturing" /\ availableBit' = availableBit
            /\ UNCHANGED <<image, disk, cut, since>> /\ todo' = Key
        BY <2>6 DEF BeginCheckpoint, calcVars, durableVars
      <3>2. UnvisitedOf(k)'
        BY <2>1, <3>1 DEF KeyOf, Unvisited, UnvisitedOf, AtCutoff, Installed, Available, Holds
      <3>3. QED
        BY <2>1, <2>2, <3>1, <3>2 DEF KeyOf, Visited
    <2>7. CASE WriteFails
      <3>1. /\ ckpt = "capturing" /\ error' = "io" /\ availableBit' = availableBit
            /\ UNCHANGED <<ckpt, image, disk, cut, since, todo>>
        BY <2>7 DEF WriteFails, calcVars, durableVars
      <3>2. UnvisitedOf(k) => UnvisitedOf(k)'
        BY <2>1, <3>1 DEF UnvisitedOf, AtCutoff, Installed, Available, Holds
      <3>3. QED
        BY <2>1, <2>2, <3>1, <3>2 DEF KeyOf, Unvisited, Visited
    <2>8. CASE CaptureEnded
      BY <2>1, <2>2, <2>8 DEF CaptureEnded, ToComplete, durableVars, KeyOf, Visited, Unvisited,
         VisitedOf, Available
    <2>9. CASE CompleteCheckpoint
      <3>1. /\ ckpt = "captured" /\ ckpt' = "complete" /\ availableBit' = availableBit
            /\ error = "none" /\ disk'.rows = image /\ disk'.since = since
            /\ UNCHANGED <<image, cut, since, error>>
        BY <2>9 DEF CompleteCheckpoint, calcVars
      <3>2. VisitedOf(k) /\ VisitedOf(k)'
        BY <2>1, <3>1 DEF KeyOf, Visited, VisitedOf, Available
      <3>3. QED
        BY <2>1, <2>2, <3>1, <3>2 DEF KeyOf, Unvisited, VisitedOf
    <2>10. CASE CompleteCheckpointFails
      BY <2>1, <2>2, <2>10 DEF CompleteCheckpointFails, calcVars, durableVars, KeyOf, Unvisited
    <2>11. CASE MoveToRest
      <3>1. /\ ckpt = "complete" /\ ckpt' = "idle" /\ availableBit' = ~availableBit
            /\ error = "none" /\ image'[k] = NoRow /\ UNCHANGED disk
        BY <2>11 DEF MoveToRest, ToRest, Forget, NoContents
      <3>2. VisitedOf(k)
        BY <3>1 DEF KeyOf, Visited
      <3>3. RestingOf(k)'
        BY <2>1, <3>1, <3>2 DEF VisitedOf, RestingOf, Available
      <3>4. QED
        BY <2>1, <2>2, <3>1, <3>3 DEF KeyOf, Unvisited, Visited
    <2>12. QED
      BY <1>3, <2>3, <2>4, <2>5, <2>6, <2>7, <2>8, <2>9, <2>10, <2>11
  <1>4. QED
    BY <1>1, <1>2, <1>3 DEF CheckpointStep

LEMMA CrashStep ==
    ASSUME IInv, CrashAndRecover, NEW k \in Key, KeyOf(k)
    PROVE  KeyOf(k)'
  <1>1. /\ ckpt' = "idle" /\ availableBit' = TRUE /\ status'[k] = FALSE /\ stable'[k] = NoRow
        /\ preAlloc'[k] = FALSE /\ image'[k] = NoRow /\ row'[k] = Recovered[k]
        /\ UNCHANGED <<logged, disk>> /\ \A t \in Txn : pc'[t] = "run"
    BY DEF CrashAndRecover, CalcRestart, Forget, NoContents
  <1>2. Recovered[k] = logged[k]
    BY DEF Recovered, KeyOf
  <1>3. LoggedOf(k)'
    BY <1>1, <1>2 DEF LoggedOf, Installed, IInv, TypeOK, Contents
  <1>4. RestingOf(k)'
    BY <1>1 DEF RestingOf, Available
  <1>5. QED
    BY <1>1, <1>3, <1>4 DEF KeyOf, Unvisited, Visited

LEMMA KeyStep ==
    ASSUME IInv, [Next]_vars
    PROVE  KeyInv'
  <1> SUFFICES ASSUME ~aborted', NEW k \in Key
               PROVE  KeyOf(k)'
    BY DEF KeyInv
  <1>1. CASE \E t \in Txn : Session(t)
    <2>1. PICK t \in Txn : Session(t)
      BY <1>1
    <2>2. KeyOf(k)
      BY <2>1, SessionFrame DEF IInv, KeyInv
    <2>3. QED
      BY <2>1, <2>2, QuietStep, ValidateStep, RollbackStep, LogStep, WriteStep DEF Session, IInv
  <1>2. CASE \E j \in Key : RemoveKey(j)
    <2>1. ~aborted
      BY <1>2 DEF RemoveKey, durableVars
    <2>2. KeyOf(k)
      BY <2>1 DEF IInv, KeyInv
    <2>3. QED
      BY <1>2, <2>2, RemoveStep
  <1>3. CASE CheckpointStep
    <2>1. ~aborted
      BY <1>3 DEF CheckpointStep, Prepare, CreateSnapShot, SnapshotReady, BeginCheckpoint,
         VisitKey, WriteFails, CaptureEnded, CompleteCheckpoint, CompleteCheckpointFails,
         MoveToRest, Abort, AbortMoveToRest, durableVars
    <2>2. QED
      BY <1>3, <2>1, CheckpointKeyStep DEF IInv, KeyInv
  <1>4. CASE CrashAndRecover
    BY <1>4, CrashStep DEF CrashAndRecover, IInv, KeyInv
  <1>5. CASE UNCHANGED vars
    <2>1. KeyOf(k)
      BY <1>5 DEF vars, durableVars, IInv, KeyInv
    <2>2. LoggedOf(k)' /\ (UnvisitedOf(k) => UnvisitedOf(k)')
      BY <1>5, <2>1 DEF vars, calcVars, sessionVars, rowVars, captureVars, durableVars, KeyOf,
         LoggedOf, UnvisitedOf, Installed, AtCutoff, Available, Holds
    <2>3. QED
      BY <1>5, <2>1, <2>2 DEF vars, calcVars, sessionVars, rowVars, captureVars, durableVars,
         KeyOf, RestingOf, VisitedOf, Available, Unvisited, Visited
  <1>6. QED
    BY <1>1, <1>2, <1>3, <1>4, <1>5 DEF Next

-----------------------------------------------------------------------------
(* The theorems.                                                           *)

LEMMA InvInit == Init => IInv
  <1> SUFFICES ASSUME Init PROVE IInv
    OBVIOUS
  <1>1. TypeOK
    BY TypeInit
  <1>2. SessionInv /\ ValidatedInv
    BY NoWritesFacts DEF Init, CalcInit, SessionInv, SessionOf, ValidatedInv, ValidatedOf, Holds,
       LockedStates
  <1>3. PhaseInv /\ StartInv
    BY DEF Init, CalcInit, PhaseInv, StartInv, StartOf, StartedIn,
       NONE, REST, PREPARE, RESOLVE, CAPTURE, COMPLETE
  <1>4. ASSUME NEW k \in Key
        PROVE  KeyOf(k)
    BY RowsDistinct DEF Init, CalcInit, KeyOf, LoggedOf, RestingOf, Unvisited, Visited, Installed,
       Available, NoContents
  <1>5. QED
    BY <1>1, <1>2, <1>3, <1>4 DEF IInv, KeyInv

LEMMA InvStep == IInv /\ [Next]_vars => IInv'
  BY TypeStep, SessionStep, PhaseStep, StartStep, ValidatedStep, KeyStep DEF IInv

LEMMA Invariance == Spec => []IInv
  BY InvInit, InvStep, PTL DEF Spec

\* Until a checkpoint is aborted before its capture, what the workers have
\* written when they are done is the database as of the redo point.
THEOREM CaptureExact == Spec => []ImageIsCut
  <1>1. IInv => ImageIsCut
    <2> SUFFICES ASSUME IInv, ~aborted, ckpt = "captured", error = "none"
                 PROVE  image = cut
      BY DEF ImageIsCut
    <2>1. \A k \in Key : image[k] = cut[k]
      BY DEF IInv, KeyInv, KeyOf, Visited, VisitedOf
    <2>2. QED
      BY <2>1 DEF IInv, TypeOK
  <1>2. QED
    BY <1>1, Invariance, PTL

\* Until then recovery gives what the whole redo log says, whenever the server
\* stops.
THEOREM RecoveryCorrect == Spec => []RecoveryExact
  <1>1. IInv => RecoveryExact
    <2> SUFFICES ASSUME IInv, ~aborted
                 PROVE  Recovered = logged
      BY DEF RecoveryExact, RecoveredIsLogged
    <2>1. \A k \in Key : Recovered[k] = logged[k]
      BY DEF IInv, KeyInv, KeyOf, Recovered
    <2>2. Recovered = [k \in Key |-> Recovered[k]] /\ logged = [k \in Key |-> logged[k]]
      BY DEF IInv, TypeOK, Recovered
    <2>3. QED
      BY <2>1, <2>2
  <1>2. QED
    BY <1>1, Invariance, PTL

\* Where the envelope never gives a checkpoint up between its redo point and its
\* capture, recovery always gives what the whole redo log says.
THEOREM RecoveryWithoutAborts == ~AbortCapture /\ Spec => []RecoveredIsLogged
  <1>1. Init => ~aborted
    BY DEF Init
  <1>2. ~AbortCapture /\ ~aborted /\ [Next]_vars => ~aborted'
    <2> SUFFICES ASSUME ~AbortCapture, ~aborted, [Next]_vars
                 PROVE  aborted' = aborted
      OBVIOUS
    <2>1. (\E t \in Txn : Session(t)) => aborted' = aborted
      BY SessionFrame
    <2>2. CheckpointStep => aborted' = aborted
      BY DEF CheckpointStep, Prepare, CreateSnapShot, SnapshotReady, BeginCheckpoint, VisitKey,
         WriteFails, CaptureEnded, CompleteCheckpoint, CompleteCheckpointFails, MoveToRest,
         Abort, AbortMoveToRest, durableVars
    <2>3. QED
      BY <2>1, <2>2 DEF Next, RemoveKey, CrashAndRecover, vars, durableVars
  <1>3. CASE AbortCapture
    BY <1>3
  <1>4. CASE ~AbortCapture
    <2>1. RecoveryExact /\ ~aborted => RecoveredIsLogged
      BY DEF RecoveryExact
    <2>2. QED
      BY <1>1, <1>2, <1>4, <2>1, RecoveryCorrect, PTL DEF Spec
  <1>5. QED
    BY <1>3, <1>4

\* Until a checkpoint is aborted before its capture, a finished one leaves no
\* stable row behind.
THEOREM StableRowsGone == Spec => []NoStableLeft
  <1>1. IInv => NoStableLeft
    <2> SUFFICES ASSUME IInv, ~aborted, phase = REST
                 PROVE  stable = NoContents
      BY DEF NoStableLeft
    <2>1. \A k \in Key : stable[k] = NoRow
      BY DEF IInv, KeyInv, KeyOf, PhaseInv, RestingOf
    <2>2. QED
      BY <2>1 DEF IInv, TypeOK, NoContents
  <1>2. QED
    BY <1>1, Invariance, PTL

-----------------------------------------------------------------------------
(* Without late failures.                                                  *)

LEMMA PreAllocSession ==
    ASSUME IInv, ~LateFailure, PreAllocInv, NEW t \in Txn, Session(t), NEW k \in Key, preAlloc'[k]
    PROVE  PreAllocOf(k)'
  <1> USE DEF IInv, TypeOK
  <1>1. CASE BeginCommit(t) \/ ValidateFails(t) \/ EndCommit(t) \/ EndTransaction(t) \/ LogCommit(t)
    <2>1. UNCHANGED <<row, status, preAlloc, availableBit>>
      BY <1>1 DEF BeginCommit, ValidateFails, EndCommit, EndTransaction, LogCommit, CalcBegin,
         CalcEnd, calcVars, rowVars
    <2>2. PICK u \in Txn : pc[u] \in {"validated", "logged"} /\ startPhase[u] = CAPTURE /\ Holds(u, k)
      BY <2>1 DEF PreAllocInv, PreAllocOf
    <2>3. pc'[u] \in {"validated", "logged"} /\ startPhase'[u] = CAPTURE /\ Holds(u, k)'
      BY <1>1, <2>2 DEF BeginCommit, ValidateFails, EndCommit, EndTransaction, LogCommit, CalcBegin,
         CalcEnd, calcVars, Holds
    <2>4. QED
      BY <2>1, <2>3 DEF PreAllocInv, PreAllocOf, Available
  <1>2. ASSUME NEW w \in WriteSets, ValidateOcc(t, w)
        PROVE  PreAllocOf(k)'
    <2>1. UNCHANGED <<row, status, availableBit, startPhase>>
      BY <1>2 DEF ValidateOcc, calcVars
    <2>2. CASE k \in DOMAIN w /\ PreAllocates(t, k)
      BY <1>2, <2>1, <2>2 DEF ValidateOcc, PreAllocates, PreAllocOf, Available, Holds
    <2>3. CASE ~(k \in DOMAIN w /\ PreAllocates(t, k))
      <3>1. preAlloc[k]
        BY <1>2, <2>3 DEF ValidateOcc
      <3>2. PICK u \in Txn : pc[u] \in {"validated", "logged"} /\ startPhase[u] = CAPTURE /\ Holds(u, k)
        BY <3>1 DEF PreAllocInv, PreAllocOf
      <3>3. pc'[u] \in {"validated", "logged"} /\ startPhase'[u] = CAPTURE /\ Holds(u, k)'
        BY <1>2, <2>1, <3>2 DEF ValidateOcc, Holds
      <3>4. QED
        BY <2>1, <3>1, <3>3 DEF PreAllocInv, PreAllocOf, Available
    <2>4. QED
      BY <2>2, <2>3
  <1>3. CASE FailLate(t)
    BY <1>3 DEF FailLate
  <1>4. CASE RollbackPrepared(t) \/ WriteChanges(t)
    <2>1. preAlloc[k] /\ UNCHANGED <<availableBit, startPhase, writes>>
      BY <1>4 DEF RollbackPrepared, FreePreAllocStableRows, WriteChanges, calcVars
    <2>2. PICK u \in Txn : pc[u] \in {"validated", "logged"} /\ startPhase[u] = CAPTURE /\ Holds(u, k)
      BY <2>1 DEF PreAllocInv, PreAllocOf
    <2>3. row[k] \in Val /\ ~Available(k)
      BY <2>1 DEF PreAllocInv, PreAllocOf
    <2>4. u # t
      BY <1>4, <2>1, <2>2, <2>3 DEF RollbackPrepared, FreePreAllocStableRows, WriteChanges, Holds
    <2>5. ~Holds(t, k)
      BY <2>2, <2>4 DEF SessionInv
    <2>6. row'[k] = row[k] /\ status'[k] = status[k]
      BY <1>4, <2>5 DEF RollbackPrepared, WriteChanges, Holds
    <2>7. pc'[u] = pc[u] /\ (Holds(u, k) <=> Holds(u, k)')
      BY <1>4, <2>1, <2>4 DEF RollbackPrepared, WriteChanges, Holds
    <2>8. QED
      BY <2>1, <2>2, <2>3, <2>6, <2>7 DEF PreAllocOf, Available
  <1>5. QED
    BY <1>1, <1>2, <1>3, <1>4 DEF Session

LEMMA PreAllocStep ==
    ASSUME IInv, ~LateFailure, PreAllocInv, [Next]_vars
    PROVE  PreAllocInv'
  <1> SUFFICES ASSUME NEW k \in Key, preAlloc'[k]
               PROVE  PreAllocOf(k)'
    BY DEF PreAllocInv, PreAllocOf
  <1>1. CASE \E t \in Txn : Session(t)
    BY <1>1, PreAllocSession
  <1>2. CASE CrashAndRecover
    BY <1>2 DEF CrashAndRecover
  <1>3. CASE \E j \in Key : RemoveKey(j)
    <2>1. PICK j \in Key : RemoveKey(j)
      BY <1>3
    <2>2. UNCHANGED <<availableBit, startPhase, preAlloc, pc, writes>>
      BY <2>1 DEF RemoveKey, calcVars, sessionVars
    <2>3. k # j
      BY <2>1, <2>2, RowsDistinct DEF RemoveKey, PreAllocInv, PreAllocOf
    <2>4. row'[k] = row[k] /\ status'[k] = status[k]
      BY <2>1, <2>3 DEF RemoveKey, IInv, TypeOK
    <2>5. QED
      BY <2>2, <2>4 DEF PreAllocInv, PreAllocOf, Available, Holds
  <1>4. CASE CheckpointStep \/ UNCHANGED vars
    <2>1. UNCHANGED <<startPhase, preAlloc, pc, writes, row>>
      BY <1>4 DEF vars, CheckpointStep, Prepare, CreateSnapShot, SnapshotReady, BeginCheckpoint,
         VisitKey, Checkpoint, WriteFails, CaptureEnded, CompleteCheckpoint,
         CompleteCheckpointFails, MoveToRest, Abort, AbortMoveToRest, ToPrepare, ToResolve,
         ToCapture, UnlockRedo, ToComplete, ToRest, calcVars, sessionVars, rowVars
    <2>2. PICK u \in Txn : pc[u] \in {"validated", "logged"} /\ startPhase[u] = CAPTURE /\ Holds(u, k)
      BY <2>1 DEF PreAllocInv, PreAllocOf
    <2>3. Locked(k)
      BY <2>2, HeldLocked DEF IInv
    <2>4. ~ToRest
      BY <2>2 DEF ToRest, Drained
    <2>5. availableBit' = availableBit
      BY <1>4, <2>4 DEF vars, CheckpointStep, Prepare, CreateSnapShot, SnapshotReady,
         BeginCheckpoint, VisitKey, WriteFails, CaptureEnded, CompleteCheckpoint,
         CompleteCheckpointFails, MoveToRest, Abort, AbortMoveToRest, ToPrepare, ToResolve,
         ToCapture, UnlockRedo, ToComplete, calcVars
    <2>6. status'[k] = status[k]
      <3>1. ASSUME NEW j \in Key, VisitKey(j)
            PROVE  status'[k] = status[k]
        <4>1. k # j
          BY <2>3, <3>1 DEF VisitKey
        <4>2. QED
          BY <3>1, <4>1, VisitCases DEF IInv
      <3>2. QED
        BY <1>4, <3>1 DEF vars, CheckpointStep, Prepare, CreateSnapShot, SnapshotReady,
           BeginCheckpoint, WriteFails, CaptureEnded, CompleteCheckpoint,
           CompleteCheckpointFails, MoveToRest, Abort, AbortMoveToRest, rowVars
    <2>7. QED
      BY <2>1, <2>5, <2>6 DEF PreAllocInv, PreAllocOf, Available, Holds
  <1>5. QED
    BY <1>1, <1>2, <1>3, <1>4 DEF Next

LEMMA NoCalcStep ==
    ASSUME StrictInv, [Next]_vars, ~aborted'
    PROVE  error' # "calc"
  <1>1. CASE \E j \in Key : VisitKey(j)
    <2>1. PICK j \in Key : VisitKey(j)
      BY <1>1
    <2>2. KeyOf(j) /\ error # "calc"
      BY <2>1 DEF StrictInv, IInv, KeyInv, VisitKey, durableVars
    <2>3. UnvisitedOf(j) /\ ~Locked(j)
      BY <2>1, <2>2 DEF VisitKey, KeyOf, Unvisited
    <2>4. ~preAlloc[j]
      BY <2>3, HeldLocked DEF StrictInv, IInv, PreAllocInv, PreAllocOf
    <2>5. ~(~Available(j) /\ stable[j] # NoRow)
      BY <2>3, <2>4 DEF UnvisitedOf
    <2>6. QED
      BY <2>1, <2>2, <2>5, VisitCases DEF StrictInv, IInv
  <1>2. CASE ~(\E j \in Key : VisitKey(j)) /\ CheckpointStep
    BY <1>2 DEF StrictInv, CheckpointStep, Prepare, CreateSnapShot, SnapshotReady,
       BeginCheckpoint, WriteFails, CaptureEnded, CompleteCheckpoint, CompleteCheckpointFails,
       MoveToRest, Abort, AbortMoveToRest, captureVars, durableVars
  <1>3. CASE \E t \in Txn : Session(t)
    BY <1>3, SessionFrame DEF StrictInv
  <1>4. CASE CrashAndRecover \/ (\E j \in Key : RemoveKey(j)) \/ UNCHANGED vars
    BY <1>4 DEF StrictInv, CrashAndRecover, RemoveKey, vars, captureVars, durableVars
  <1>5. QED
    BY <1>1, <1>2, <1>3, <1>4 DEF Next

LEMMA StrictInvariance == ~LateFailure /\ Spec => []StrictInv
  <1>1. Init => StrictInv
    BY InvInit DEF Init, StrictInv, PreAllocInv, PreAllocOf
  <1>2. ~LateFailure /\ StrictInv /\ [Next]_vars => StrictInv'
    BY InvStep, PreAllocStep, NoCalcStep DEF StrictInv
  <1>3. CASE LateFailure
    BY <1>3
  <1>4. CASE ~LateFailure
    BY <1>1, <1>2, <1>4, PTL DEF Spec
  <1>5. QED
    BY <1>3, <1>4

\* If no commit fails between its validation and its redo record, a pre-allocated
\* stable row is never seen without the lock, aborted checkpoints included.
THEOREM PreAllocCorrect == ~LateFailure /\ Spec => []PreAllocUnderLock
  <1>1. StrictInv => PreAllocUnderLock
    BY HeldLocked DEF StrictInv, IInv, PreAllocInv, PreAllocOf, PreAllocUnderLock
  <1>2. QED
    BY <1>1, StrictInvariance, PTL

\* Nor does a worker ever meet a stable row that it has no explanation for, until
\* a checkpoint is aborted before its capture.
THEOREM CalcErrorFree == ~LateFailure /\ Spec => []NoCalcError
  <1>1. StrictInv => NoCalcError
    BY DEF StrictInv, NoCalcError
  <1>2. QED
    BY <1>1, StrictInvariance, PTL
=============================================================================

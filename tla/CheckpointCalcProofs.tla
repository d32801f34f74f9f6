------------------------ MODULE CheckpointCalcProofs ------------------------
(***************************************************************************)
(* CheckpointPhases implements CalcPhases, for every finite set of         *)
(* sessions: each step of the checkpointer or of a session is a step of    *)
(* the abstract phase machine or leaves its state alone.                   *)
(***************************************************************************)
EXTENDS CheckpointPhasesProofs

\* The abstract state that the refinement mapping computes.
StartPhase == [t \in Txn |-> IF Registered(t) THEN txnPhase[t] ELSE NONE]

LEMMA DrainedMapping ==
    ASSUME NEW p \in Phases
    PROVE  Calc!Drained(p) <=> RegisteredIn(p) = {}
<1>1. p # NONE
  BY DEF Phases, NONE, REST, COMPLETE
<1> QED
  BY <1>1 DEF Calc!Drained, RegisteredIn

\* A step that touches nothing of the abstract state.
LEMMA StutterStep ==
    ASSUME UNCHANGED <<managerVars, redoLock, txnPhase, commitEnded, naBit>>
    PROVE  UNCHANGED Calc!calcVars
<1>1. StartPhase' = StartPhase
  BY DEF StartPhase, Registered
<1> QED
  BY <1>1 DEF Calc!calcVars, StartPhase, managerVars

\* A phase change made when nobody is left of the phase before.
LEMMA MoveMapping ==
    ASSUME PhaseInv, PrevDrained, MoveToNextPhase, phase = CAPTURE => redoLock = "free",
           UNCHANGED <<txnPhase, commitEnded, naBit>>
    PROVE  Calc!CalcNext
<1> DEFINE next == NextPhase(phase)
           onward == next = PREPARE /\ counters[cntBit] = 0
<1>1. /\ phase' = IF onward THEN RESOLVE ELSE next
      /\ availableBit' = IF next = REST THEN ~availableBit ELSE availableBit
      /\ redoLock' = IF next = CAPTURE THEN "wanted" ELSE redoLock
  BY DEF MoveToNextPhase
<1>2. StartPhase' = StartPhase /\ naBit' = naBit
  BY DEF StartPhase, Registered
<1>3. phase \in Phases
  BY DEF PhaseInv, TypeOK
<1>4. Calc!Drained(PrevPhase(phase))
  BY <1>3, DrainedMapping, PhaseCycle DEF PrevDrained
<1>5. counters[cntBit] = 0 <=> Calc!Drained(phase)
  BY <1>3, DrainedMapping, ZeroIsDrained DEF PhaseInv
<1> USE <1>1, <1>2, <1>3, <1>4, <1>5
        DEF Calc!REST, Calc!PREPARE, Calc!RESOLVE, Calc!CAPTURE, Calc!COMPLETE,
            REST, PREPARE, RESOLVE, CAPTURE, COMPLETE, StartPhase
<1>6. CASE phase = REST
  <2>1. PrevPhase(phase) = COMPLETE /\ next = PREPARE
    BY <1>6 DEF PrevPhase, NextPhase
  <2>2. phase' = IF Calc!Drained(REST) THEN RESOLVE ELSE PREPARE
    BY <1>6, <2>1
  <2>3. availableBit' = availableBit /\ redoLock' = redoLock
    BY <2>1
  <2>4. Calc!Drained(COMPLETE)
    BY <2>1
  <2>5. Calc!ToPrepare
    BY <1>6, <2>2, <2>3, <2>4 DEF Calc!ToPrepare
  <2> QED
    BY <2>5 DEF Calc!CalcNext
<1>7. CASE phase = PREPARE
  <2>1. PrevPhase(phase) = REST /\ next = RESOLVE
    BY <1>7 DEF PrevPhase, NextPhase
  <2>2. phase' = RESOLVE /\ availableBit' = availableBit /\ redoLock' = redoLock
    BY <2>1
  <2>3. Calc!Drained(REST)
    BY <2>1
  <2>4. Calc!ToResolve
    BY <1>7, <2>2, <2>3 DEF Calc!ToResolve
  <2> QED
    BY <2>4 DEF Calc!CalcNext
<1>8. CASE phase = RESOLVE
  <2>1. PrevPhase(phase) = PREPARE /\ next = CAPTURE
    BY <1>8 DEF PrevPhase, NextPhase
  <2>2. phase' = CAPTURE /\ availableBit' = availableBit /\ redoLock' = "wanted"
    BY <2>1
  <2>3. Calc!Drained(PREPARE)
    BY <2>1
  <2>4. Calc!ToCapture
    BY <1>8, <2>2, <2>3 DEF Calc!ToCapture
  <2> QED
    BY <2>4 DEF Calc!CalcNext
<1>9. CASE phase = CAPTURE
  <2>1. next = COMPLETE
    BY <1>9 DEF NextPhase
  <2>2. phase' = COMPLETE /\ availableBit' = availableBit /\ redoLock' = redoLock
    BY <2>1
  <2>3. redoLock = "free"
    BY <1>9
  <2>4. Calc!ToComplete
    BY <1>9, <2>2, <2>3 DEF Calc!ToComplete
  <2> QED
    BY <2>4 DEF Calc!CalcNext
<1>10. CASE phase = COMPLETE
  <2>1. PrevPhase(phase) = CAPTURE /\ next = REST
    BY <1>10 DEF PrevPhase, NextPhase
  <2>2. phase' = REST /\ redoLock' = redoLock
    BY <2>1
  <2>3. availableBit' = ~availableBit
    BY Zenon, <2>1
  <2>4. Calc!Drained(CAPTURE)
    BY <2>1
  <2>5. Calc!ToRest
    BY <1>10, <2>2, <2>3, <2>4 DEF Calc!ToRest
  <2> QED
    BY <2>5 DEF Calc!CalcNext
<1> QED
  BY <1>6, <1>7, <1>8, <1>9, <1>10 DEF Phases

LEMMA RestartMapping == Restart => Calc!CalcNext
<1> SUFFICES ASSUME Restart PROVE Calc!CalcRestart
  BY DEF Calc!CalcNext
<1>1. StartPhase' = [t \in Txn |-> NONE]
  BY DEF Restart, StartPhase, Registered
<1> QED
  BY <1>1 DEF Restart, Calc!CalcRestart, StartPhase, Calc!REST, Calc!NONE, REST, NONE

LEMMA CheckpointerMapping ==
    ASSUME PhaseInv, Checkpointer PROVE [Calc!CalcNext]_(Calc!calcVars)
<1>1. ASSUME NEW from, NEW to, WaitPrev(from, to) PROVE UNCHANGED Calc!calcVars
  BY <1>1, StutterStep DEF WaitPrev, lockVars, txnVars
<1>2. ASSUME NEW from \in {"to_prepare", "to_capture", "to_complete", "to_rest",
                           "abort_to_complete", "abort_to_rest"},
             NEW to, Move(from, to)
      PROVE  Calc!CalcNext
  <2>1. ckpt = from /\ MoveToNextPhase /\ UNCHANGED txnVars
    BY <1>2 DEF Move, CkptGoto
  <2>2. PrevDrained /\ redoLock = "free"
    BY <2>1 DEF PhaseInv, WaitedFor, RedoLocked, TypeOK
  <2> QED
    BY <2>1, <2>2, MoveMapping DEF txnVars
<1>3. CASE \/ WaitCompleteTxns \/ WaitPrepareTxns \/ WaitResolveTxns
           \/ WaitCaptureTxns \/ AbortWaitResolveTxns \/ AbortWaitCaptureTxns
  BY <1>1, <1>3 DEF WaitCompleteTxns, WaitPrepareTxns, WaitResolveTxns,
       WaitCaptureTxns, AbortWaitResolveTxns, AbortWaitCaptureTxns
<1>4. CASE \/ MoveToPrepare \/ MoveToCapture \/ MoveToComplete \/ MoveToRest
           \/ AbortMoveToComplete \/ AbortMoveToRest
  BY <1>2, <1>4, RestartMapping DEF MoveToPrepare, MoveToCapture, MoveToComplete,
       MoveToRest, AbortMoveToComplete, AbortMoveToRest
<1>5. CASE \/ CreateSnapShot \/ SeeResolve \/ LockRecoveryManager
           \/ CreatePendingRecoveryDataFile \/ BeginCheckpoint
           \/ \E failed \in BOOLEAN : CaptureEnded(failed)
           \/ \E failed \in BOOLEAN : CompleteCheckpoint(failed)
  BY <1>5, StutterStep DEF CreateSnapShot, SeeResolve, LockRecoveryManager,
       CreatePendingRecoveryDataFile, BeginCheckpoint, CaptureEnded,
       CompleteCheckpoint, lockVars, txnVars
<1>6. CASE CreateSnapShotFails
  BY <1>6, RestartMapping DEF CreateSnapShotFails
<1>7. CASE RedoWrLockGranted
  <2>1. UNCHANGED <<managerVars, txnVars>> /\ redoLock # "free" /\ redoLock' # "free"
    BY <1>7 DEF RedoWrLockGranted
  <2>2. StartPhase' = StartPhase
    BY <2>1 DEF StartPhase, Registered, txnVars
  <2> QED
    BY <2>1, <2>2 DEF Calc!calcVars, StartPhase, managerVars, txnVars
<1>8. ASSUME redoLock' = "free" \/ redoLock' = redoLock, UNCHANGED <<managerVars, txnVars>>
      PROVE  [Calc!CalcNext]_(Calc!calcVars)
  <2>1. CASE redoLock' = redoLock
    BY <1>8, <2>1, StutterStep DEF txnVars
  <2>2. CASE redoLock # "free" /\ redoLock' = "free"
    <3>1. StartPhase' = StartPhase
      BY <1>8 DEF StartPhase, Registered, txnVars
    <3>2. Calc!UnlockRedo
      BY <1>8, <2>2, <3>1 DEF Calc!UnlockRedo, StartPhase, managerVars, txnVars
    <3> QED
      BY <3>2 DEF Calc!CalcNext
  <2> QED
    BY <1>8, <2>1, <2>2
<1>9. CASE SnapshotReady
  BY <1>8, <1>9, RestartMapping DEF SnapshotReady
<1>10. CASE \E at \in AbortPoints : Abort(at)
  BY <1>8, <1>10 DEF Abort
<1> QED
  BY <1>3, <1>4, <1>5, <1>6, <1>7, <1>9, <1>10 DEF Checkpointer

LEMMA SessionMapping ==
    ASSUME PhaseInv, NEW t \in Txn, Session(t)
    PROVE  [Calc!CalcNext]_(Calc!calcVars)
<1> USE DEF Goto
<1>1. TypeOK
  BY DEF PhaseInv
<1>2. ASSUME NEW from, NEW to, Step(t, from, to) \/ ToEndCommit(t, from, to)
      PROVE  UNCHANGED Calc!calcVars
  BY <1>2, StutterStep DEF Step, ToEndCommit, lockVars, txnVars
<1>3. ASSUME NEW from, ReturnFrom(t, from), UNCHANGED <<managerVars, lockVars>>
      PROVE  UNCHANGED Calc!calcVars
  BY <1>3, StutterStep DEF ReturnFrom, lockVars
<1>4. CASE BeginCommit(t)
  <2>1. ~Registered(t)
    BY <1>4 DEF BeginCommit, PhaseInv, SessionRegistered, CommitStates
  <2>2. phase # NONE
    BY <1>1 DEF TypeOK, Phases, REST, COMPLETE, NONE
  <2>3. /\ txnPhase' = [txnPhase EXCEPT ![t] = phase]
        /\ commitEnded' = [commitEnded EXCEPT ![t] = FALSE]
        /\ naBit' = [naBit EXCEPT ![t] = ~availableBit]
        /\ UNCHANGED <<phase, availableBit, redoLock>>
    BY <1>4 DEF BeginCommit, lockVars
  <2>4. /\ txnPhase'[t] = phase
        /\ ~commitEnded'[t]
        /\ \A u \in Txn : u # t => /\ txnPhase'[u] = txnPhase[u]
                                   /\ commitEnded'[u] = commitEnded[u]
    BY <1>1, <2>3 DEF TypeOK
  <2>5. StartPhase' = [StartPhase EXCEPT ![t] = phase]
    BY <2>2, <2>4 DEF StartPhase, Registered
  <2>6. StartPhase[t] = NONE /\ phase # RESOLVE
    BY <1>4, <2>1 DEF StartPhase, BeginCommit
  <2>7. Calc!CalcBegin(t)
    BY <2>3, <2>5, <2>6 DEF Calc!CalcBegin, StartPhase, Calc!NONE, Calc!RESOLVE,
         NONE, RESOLVE
  <2> QED
    BY <2>7 DEF Calc!CalcNext
<1>5. CASE EndCommit(t)
  <2>1. Registered(t)
    BY <1>5 DEF EndCommit, PhaseInv, SessionRegistered, CommitStates
  <2>2. /\ commitEnded' = [commitEnded EXCEPT ![t] = TRUE]
        /\ UNCHANGED <<phase, availableBit, redoLock, txnPhase, naBit>>
    BY <1>5 DEF EndCommit, lockVars
  <2>3. commitEnded'[t] /\ \A u \in Txn : u # t => commitEnded'[u] = commitEnded[u]
    BY <1>1, <2>2 DEF TypeOK
  <2>4. StartPhase' = [StartPhase EXCEPT ![t] = NONE]
    BY <2>2, <2>3 DEF StartPhase, Registered
  <2>5. StartPhase[t] # NONE
    BY <2>1 DEF StartPhase, Registered
  <2>6. Calc!CalcEnd(t)
    BY <2>2, <2>4, <2>5 DEF Calc!CalcEnd, StartPhase, Calc!NONE, NONE
  <2> QED
    BY <2>6 DEF Calc!CalcNext
<1>6. CASE ReadCntBit(t)
  BY <1>6, StutterStep DEF ReadCntBit, lockVars
<1>7. CASE ReadCounter(t) \/ ReadPhase(t)
  BY <1>2, <1>3, <1>7 DEF ReadCounter, ReadPhase
<1>8. CASE MoveIfFirst(t)
  <2>1. CASE curPhase[t] = phase
    <3>1. MoveToNextPhase /\ UNCHANGED <<txnPhase, commitEnded, naBit>>
      BY <1>8, <2>1 DEF MoveIfFirst, ReturnFrom
    <3>2. phase = PREPARE /\ PrevDrained
      BY <1>8, <2>1 DEF MoveIfFirst, ReturnFrom, PhaseInv, TailFresh
    <3> QED
      BY <3>1, <3>2, MoveMapping DEF PREPARE, CAPTURE
  <2>2. CASE curPhase[t] # phase
    BY <1>3, <1>8, <2>2 DEF MoveIfFirst
  <2> QED
    BY <2>1, <2>2
<1>9. CASE Cleanup(t)
  <2>1. ~Registered(t)
    BY <1>9 DEF Cleanup, PhaseInv, SessionRegistered, CommitStates
  <2>2. /\ txnPhase' = [txnPhase EXCEPT ![t] = NONE]
        /\ UNCHANGED <<managerVars, redoLock, commitEnded, naBit>>
    BY <1>9 DEF Cleanup, lockVars
  <2>3. txnPhase'[t] = NONE /\ \A u \in Txn : u # t => txnPhase'[u] = txnPhase[u]
    BY <1>1, <2>2 DEF TypeOK
  <2>4. StartPhase' = StartPhase
    BY <2>1, <2>2, <2>3 DEF StartPhase, Registered
  <2> QED
    BY <2>2, <2>4 DEF Calc!calcVars, StartPhase, managerVars
<1>10. CASE \/ ValidateFails(t) \/ LeaveUnrecorded(t) \/ RollbackPrepared(t)
            \/ WriteChanges(t) \/ ValidateOk(t) \/ RecordCommit(t) \/ Prepare(t)
            \/ CommitPrepared(t) \/ RedoRdLock(t) \/ WriteCommit(t)
            \/ WritePrepare(t) \/ WriteRollback(t)
  BY <1>2, <1>10 DEF ValidateFails, LeaveUnrecorded, RollbackPrepared,
       WriteChanges, ValidateOk, RecordCommit, Prepare, CommitPrepared,
       RedoRdLock, WriteCommit, WritePrepare, WriteRollback
<1> QED
  BY <1>4, <1>5, <1>6, <1>7, <1>8, <1>9, <1>10 DEF Session

\* CheckpointManager keeps the promise of CalcPhases: its counters, its locks
\* and the threads that use them move the phases only as CALC allows.
THEOREM CalcImplemented == ASSUME ~MayLap PROVE Spec => ImplementsCalc
<1>1. Init => Calc!CalcInit
  <2> SUFFICES ASSUME Init PROVE Calc!CalcInit
    OBVIOUS
  <2>1. StartPhase = [t \in Txn |-> NONE]
    BY DEF Init, StartPhase, Registered
  <2> QED
    BY <2>1 DEF Init, Calc!CalcInit, StartPhase, Calc!REST, Calc!NONE, REST, NONE
<1>2. PhaseInv /\ [PhaseNext]_phaseVars => [Calc!CalcNext]_(Calc!calcVars)
  <2> SUFFICES ASSUME PhaseInv, [PhaseNext]_phaseVars
               PROVE  [Calc!CalcNext]_(Calc!calcVars)
    OBVIOUS
  <2>1. CASE Checkpointer
    BY <2>1, CheckpointerMapping
  <2>2. CASE \E t \in Txn : Session(t)
    BY <2>2, SessionMapping
  <2>3. CASE UNCHANGED phaseVars
    BY <2>3, StutterStep DEF phaseVars, lockVars, txnVars
  <2> QED
    BY <2>1, <2>2, <2>3 DEF PhaseNext
<1> QED
  BY <1>1, <1>2, PhaseInvCorrect, PTL DEF Spec, ImplementsCalc, Calc!CalcSpec
=============================================================================

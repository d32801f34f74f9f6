----------------------- MODULE CheckpointPhasesProofs -----------------------
(***************************************************************************)
(* Proofs about CheckpointPhases for every finite set of sessions.         *)
(***************************************************************************)
EXTENDS CheckpointPhases, FiniteSetTheorems, TLAPS

-----------------------------------------------------------------------------
(* Type correctness.                                                       *)

LEMMA NextPhaseType == \A p \in Phases : NextPhase(p) \in Phases
  BY DEF NextPhase, Phases, REST, COMPLETE

LEMMA CounterType ==
    ASSUME NEW c \in 0..(CounterModulus - 1)
    PROVE  /\ Increment(c) \in 0..(CounterModulus - 1)
           /\ Decrement(c) \in 0..(CounterModulus - 1)
<1>1. CounterModulus \in Nat /\ CounterModulus > 0
  BY CounterWidth, TxnFinite, FS_CardinalityType
<1> QED
  BY <1>1 DEF Increment, Decrement

LEMMA InitTypeOK == Init => TypeOK
<1> SUFFICES ASSUME Init PROVE TypeOK
  OBVIOUS
<1>1. CounterModulus \in Nat /\ CounterModulus > 0
  BY CounterWidth, TxnFinite, FS_CardinalityType
<1>2. phase \in Phases /\ cntBit \in {0, 1} /\ redoLock \in {"free", "wanted", "held"}
  BY DEF Init, Phases, REST, COMPLETE
<1>3. counters \in [{0, 1} -> 0..(CounterModulus - 1)]
  BY <1>1 DEF Init
<1>4. availableBit \in BOOLEAN /\ errorSet \in BOOLEAN /\ rmLock \in BOOLEAN
  BY DEF Init
<1>5. ckpt \in CheckpointerStates /\ pc \in [Txn -> SessionStates]
  BY DEF Init, CheckpointerStates, SessionStates
<1>6. /\ txnPhase \in [Txn -> Phases \cup {NONE}]
      /\ curPhase \in [Txn -> Phases \cup {NONE}]
      /\ seenBit \in [Txn -> {0, 1}]
      /\ resume \in [Txn -> {"cleanup", "log_rollback"}]
  BY DEF Init
<1>7. naBit \in [Txn -> BOOLEAN] /\ commitEnded \in [Txn -> BOOLEAN]
  BY DEF Init
<1> QED
  BY <1>2, <1>3, <1>4, <1>5, <1>6, <1>7 DEF TypeOK

LEMMA RestartTypeOK == Restart => TypeOK'
<1> SUFFICES ASSUME Restart PROVE TypeOK'
  OBVIOUS
<1>1. CounterModulus \in Nat /\ CounterModulus > 0
  BY CounterWidth, TxnFinite, FS_CardinalityType
<1>2. phase' \in Phases /\ cntBit' \in {0, 1} /\ redoLock' \in {"free", "wanted", "held"}
  BY DEF Restart, Phases, REST, COMPLETE
<1>3. counters' \in [{0, 1} -> 0..(CounterModulus - 1)]
  BY <1>1 DEF Restart
<1>4. availableBit' \in BOOLEAN /\ errorSet' \in BOOLEAN /\ rmLock' \in BOOLEAN
  BY DEF Restart
<1>5. ckpt' \in CheckpointerStates /\ pc' \in [Txn -> SessionStates]
  BY DEF Restart, CheckpointerStates, SessionStates
<1>6. /\ txnPhase' \in [Txn -> Phases \cup {NONE}]
      /\ curPhase' \in [Txn -> Phases \cup {NONE}]
      /\ seenBit' \in [Txn -> {0, 1}]
      /\ resume' \in [Txn -> {"cleanup", "log_rollback"}]
  BY DEF Restart
<1>7. naBit' \in [Txn -> BOOLEAN] /\ commitEnded' \in [Txn -> BOOLEAN]
  BY DEF Restart
<1> QED
  BY <1>2, <1>3, <1>4, <1>5, <1>6, <1>7 DEF TypeOK

LEMMA MoveType ==
    TypeOK /\ MoveToNextPhase =>
        /\ phase' \in Phases
        /\ cntBit' \in {0, 1}
        /\ counters' = counters
        /\ availableBit' \in BOOLEAN
        /\ redoLock' \in {"free", "wanted", "held"}
        /\ rmLock' = rmLock
<1> SUFFICES ASSUME TypeOK, MoveToNextPhase
             PROVE  /\ phase' \in Phases
                    /\ cntBit' \in {0, 1}
                    /\ counters' = counters
                    /\ availableBit' \in BOOLEAN
                    /\ redoLock' \in {"free", "wanted", "held"}
                    /\ rmLock' = rmLock
  OBVIOUS
<1>1. phase' \in Phases
  <2>1. NextPhase(phase) \in Phases /\ RESOLVE \in Phases
    BY NextPhaseType DEF TypeOK, Phases, REST, RESOLVE, COMPLETE
  <2> QED
    BY <2>1 DEF MoveToNextPhase
<1>2. cntBit' \in {0, 1}
  BY DEF TypeOK, MoveToNextPhase
<1>3. counters' = counters /\ rmLock' = rmLock
  BY DEF MoveToNextPhase
<1>4. availableBit' \in BOOLEAN
  BY Zenon DEF TypeOK, MoveToNextPhase
<1>5. redoLock' \in {"free", "wanted", "held"}
  BY DEF TypeOK, MoveToNextPhase
<1> QED
  BY <1>1, <1>2, <1>3, <1>4, <1>5

LEMMA CheckpointerTypeOK == TypeOK /\ Checkpointer => TypeOK'
<1> SUFFICES ASSUME TypeOK, Checkpointer PROVE TypeOK'
  OBVIOUS
<1> USE DEF TypeOK, managerVars, lockVars, txnVars, CheckpointerStates, CkptGoto
<1>1. ASSUME NEW from, NEW to \in CheckpointerStates, WaitPrev(from, to)
      PROVE  TypeOK'
  BY <1>1 DEF WaitPrev
<1>2. ASSUME NEW from, NEW to \in CheckpointerStates, Move(from, to)
      PROVE  TypeOK'
  BY <1>2, MoveType DEF Move
<1>3. CASE Restart
  BY <1>3, RestartTypeOK
<1>4. CASE CreateSnapShot
  BY <1>4 DEF CreateSnapShot
<1>5. CASE CreateSnapShotFails
  BY <1>3, <1>5 DEF CreateSnapShotFails
<1>6. CASE SeeResolve
  BY <1>6 DEF SeeResolve
<1>7. CASE LockRecoveryManager
  BY <1>7 DEF LockRecoveryManager
<1>8. CASE CreatePendingRecoveryDataFile
  BY <1>8 DEF CreatePendingRecoveryDataFile
<1>9. CASE RedoWrLockGranted
  BY <1>9 DEF RedoWrLockGranted
<1>10. CASE SnapshotReady
  BY <1>3, <1>10 DEF SnapshotReady
<1>11. CASE BeginCheckpoint
  BY <1>11 DEF BeginCheckpoint
<1>12. CASE \E failed \in BOOLEAN : CaptureEnded(failed)
  BY <1>12 DEF CaptureEnded
<1>13. CASE \E failed \in BOOLEAN : CompleteCheckpoint(failed)
  BY <1>13 DEF CompleteCheckpoint
<1>14. CASE \E at \in AbortPoints : Abort(at)
  BY <1>14 DEF Abort
<1>15. CASE \/ WaitCompleteTxns \/ WaitPrepareTxns \/ WaitResolveTxns
            \/ WaitCaptureTxns \/ AbortWaitResolveTxns \/ AbortWaitCaptureTxns
  BY <1>1, <1>15 DEF WaitCompleteTxns, WaitPrepareTxns, WaitResolveTxns,
       WaitCaptureTxns, AbortWaitResolveTxns, AbortWaitCaptureTxns
<1>16. CASE \/ MoveToPrepare \/ MoveToCapture \/ MoveToComplete \/ MoveToRest
            \/ AbortMoveToComplete \/ AbortMoveToRest
  BY <1>2, <1>3, <1>16 DEF MoveToPrepare, MoveToCapture, MoveToComplete,
       MoveToRest, AbortMoveToComplete, AbortMoveToRest
<1> QED
  BY <1>4, <1>5, <1>6, <1>7, <1>8, <1>9, <1>10, <1>11, <1>12, <1>13, <1>14,
     <1>15, <1>16 DEF Checkpointer

LEMMA SessionTypeOK == ASSUME TypeOK, NEW t \in Txn, Session(t) PROVE TypeOK'
<1> USE DEF TypeOK, managerVars, lockVars, txnVars, Goto
<1>1. ASSUME NEW from, NEW to \in SessionStates, Step(t, from, to)
      PROVE  TypeOK'
  BY <1>1 DEF Step
<1>2. ASSUME NEW from, NEW to \in {"cleanup", "log_rollback"},
             ToEndCommit(t, from, to)
      PROVE  TypeOK'
  BY <1>2 DEF ToEndCommit, SessionStates
<1>3. ASSUME NEW from, ReturnFrom(t, from), UNCHANGED <<managerVars, lockVars>>
      PROVE  TypeOK'
  BY <1>3 DEF ReturnFrom, SessionStates, NONE
<1>4. CASE BeginCommit(t)
  BY <1>4, CounterType DEF BeginCommit, SessionStates
<1>5. CASE EndCommit(t)
  BY <1>5, CounterType DEF EndCommit, SessionStates, TailStates
<1>6. CASE ReadCntBit(t)
  BY <1>6 DEF ReadCntBit, SessionStates, TailStates
<1>7. CASE ReadCounter(t)
  BY <1>1, <1>3, <1>7 DEF ReadCounter, SessionStates, TailStates
<1>8. CASE ReadPhase(t)
  BY <1>1, <1>3, <1>8 DEF ReadPhase, SessionStates, TailStates
<1>9. CASE MoveIfFirst(t)
  BY <1>9, MoveType DEF MoveIfFirst, ReturnFrom, SessionStates, NONE
<1>10. CASE Cleanup(t)
  BY <1>10 DEF Cleanup, SessionStates, NONE
<1>11. CASE \/ ValidateFails(t) \/ LeaveUnrecorded(t) \/ RollbackPrepared(t)
            \/ WriteChanges(t)
  BY <1>2, <1>11 DEF ValidateFails, LeaveUnrecorded, RollbackPrepared, WriteChanges
<1>12. CASE \/ ValidateOk(t) \/ RecordCommit(t) \/ Prepare(t) \/ CommitPrepared(t)
            \/ RedoRdLock(t) \/ WriteCommit(t) \/ WritePrepare(t) \/ WriteRollback(t)
  BY <1>1, <1>12 DEF ValidateOk, RecordCommit, Prepare, CommitPrepared, RedoRdLock,
       WriteCommit, WritePrepare, WriteRollback, SessionStates, LoggingStates
<1> QED
  BY <1>4, <1>5, <1>6, <1>7, <1>8, <1>9, <1>10, <1>11, <1>12 DEF Session

\* Every variable keeps its type, in the code as it is (without the timing
\* assumption): CheckpointManager's state and the state of every session.
THEOREM TypeCorrect == Spec => []TypeOK
<1>1. TypeOK /\ [PhaseNext]_phaseVars => TypeOK'
  <2> SUFFICES ASSUME TypeOK, [PhaseNext]_phaseVars PROVE TypeOK'
    OBVIOUS
  <2>1. CASE Checkpointer
    BY <2>1, CheckpointerTypeOK
  <2>2. CASE \E t \in Txn : Session(t)
    BY <2>2, SessionTypeOK
  <2>3. CASE UNCHANGED phaseVars
    BY <2>3 DEF phaseVars, managerVars, lockVars, txnVars, TypeOK
  <2> QED
    BY <2>1, <2>2, <2>3 DEF PhaseNext
<1> QED
  BY InitTypeOK, <1>1, PTL DEF Spec

-----------------------------------------------------------------------------
(* The inductive invariant.                                                *)

\* Between BeginCommit and EndCommit.
CommitStates ==
    {"validate", "validated", "log_commit", "wr_commit", "log_prepare",
     "wr_prepare", "prepared", "apply", "end_commit"}

\* What the checkpointer's control state says of the phase.
CheckpointerPhase ==
    /\ ckpt \in {"idle", "wait_complete", "to_prepare"} => phase = REST
    /\ ckpt = "wait_resolve" => phase \in {PREPARE, RESOLVE}
    /\ ckpt \in {"wait_prepare", "rm_lock", "pending_file", "to_capture"} =>
          phase = RESOLVE
    /\ ckpt \in {"snapshot", "guts", "capturing", "wait_resolve_txn",
                 "to_complete", "abort_wait_resolve", "abort_to_complete"} =>
          phase = CAPTURE
    /\ ckpt \in {"completing", "wait_capture", "to_rest",
                 "abort_wait_capture", "abort_to_rest"} => phase = COMPLETE

\* Nobody is left of the phase before the current one.
PrevDrained == RegisteredIn(PrevPhase(phase)) = {}

\* What WaitPrevPhaseCommittedTxnComplete waited for still holds at the move.
WaitedFor ==
    ckpt \in {"to_prepare", "rm_lock", "pending_file", "to_capture",
              "to_complete", "to_rest", "abort_to_complete", "abort_to_rest"}
        => PrevDrained

SessionRegistered == \A t \in Txn : Registered(t) <=> pc[t] \in CommitStates

\* A session in EndCommit's tail whose current_phase is still the phase has
\* read nothing stale, and moves from PREPARE only.
TailFresh ==
    \A t \in Txn : curPhase[t] = phase =>
        /\ pc[t] = "ec_counter" => seenBit[t] = 1 - cntBit
        /\ pc[t] = "ec_phase" => PrevDrained
        /\ pc[t] = "ec_lock" => phase = PREPARE /\ PrevDrained

\* The redo lock is only wanted, and held, between the move to CAPTURE and
\* SnapshotReady; a commit that begins meanwhile gets no further than to it.
RedoLocked ==
    /\ redoLock # "free" => ckpt = "snapshot"
    /\ redoLock = "wanted" => \A t \in Txn : ~Registered(t)
    /\ redoLock = "held" =>
          \A t \in Txn : /\ pc[t] \notin LoggingStates
                         /\ pc[t] \notin {"apply", "prepared"}
                         /\ Registered(t) => txnPhase[t] = CAPTURE

PhaseInv ==
    /\ TypeOK
    /\ CountersExact
    /\ RegisteredIn(RESOLVE) = {}
    /\ CheckpointerPhase
    /\ WaitedFor
    /\ SessionRegistered
    /\ TailFresh
    /\ RedoLocked

\* The recovery manager's mutex, when no checkpoint is skipped.
MutexHeld == rmLock <=> ckpt \in {"pending_file", "to_capture", "snapshot"}

-----------------------------------------------------------------------------
(* Counting.                                                               *)

LEMMA SubsetCardinality ==
    ASSUME NEW S \in SUBSET Txn
    PROVE  /\ Cardinality(S) \in Nat
           /\ Cardinality(S) < CounterModulus
           /\ Cardinality(S) = 0 <=> S = {}
           /\ \A t \in Txn \ S : Cardinality(S \cup {t}) = Cardinality(S) + 1
           /\ \A t \in S : Cardinality(S \ {t}) = Cardinality(S) - 1
<1>1. IsFiniteSet(S) /\ Cardinality(S) <= Cardinality(Txn)
  BY TxnFinite, FS_Subset
<1>2. Cardinality(S) \in Nat /\ Cardinality(Txn) \in Nat
  BY <1>1, TxnFinite, FS_CardinalityType
<1>3. Cardinality(S) = 0 <=> S = {}
  BY <1>1, FS_EmptySet
<1>4. \A t \in Txn \ S : Cardinality(S \cup {t}) = Cardinality(S) + 1
  BY <1>1, FS_AddElement
<1>5. \A t \in S : Cardinality(S \ {t}) = Cardinality(S) - 1
  BY <1>1, FS_RemoveElement
<1> QED
  BY <1>1, <1>2, <1>3, <1>4, <1>5, CounterWidth

LEMMA PhaseCycle ==
    ASSUME NEW p \in Phases
    PROVE  /\ PrevPhase(p) \in Phases
           /\ PrevPhase(p) # p
           /\ NextPhase(p) # p
           /\ PrevPhase(NextPhase(p)) = p
           /\ NextPhase(p) # PrevPhase(p)
           /\ NextPhase(p) = RESOLVE <=> p = PREPARE
           /\ NextPhase(p) = PREPARE <=> p = REST
           /\ NextPhase(p) = REST <=> p = COMPLETE
           /\ NextPhase(p) = CAPTURE <=> p = RESOLVE
           /\ NextPhase(p) = COMPLETE <=> p = CAPTURE
  BY DEF Phases, PrevPhase, NextPhase, REST, PREPARE, RESOLVE, CAPTURE, COMPLETE

\* The sets of registered sessions depend on two variables only.
LEMMA RegisteredFrame ==
    ASSUME UNCHANGED <<txnPhase, commitEnded>>
    PROVE  /\ \A t : Registered(t)' <=> Registered(t)
           /\ \A p : RegisteredIn(p)' = RegisteredIn(p)
  BY DEF Registered, RegisteredIn

\* A counter at zero means that its phase is drained.
LEMMA ZeroIsDrained ==
    ASSUME CountersExact
    PROVE  /\ counters[1 - cntBit] = 0 <=> PrevDrained
           /\ counters[cntBit] = 0 <=> RegisteredIn(phase) = {}
<1>1. \A p : RegisteredIn(p) \in SUBSET Txn
  BY DEF RegisteredIn
<1> QED
  BY <1>1, SubsetCardinality DEF CountersExact, PrevDrained

\* Moving on when nobody is left of the previous phase keeps the counters.
LEMMA MoveCounters ==
    ASSUME TypeOK, CountersExact, RegisteredIn(RESOLVE) = {}, PrevDrained,
           MoveToNextPhase, UNCHANGED <<txnPhase, commitEnded>>
    PROVE  CountersExact' /\ (RegisteredIn(RESOLVE) = {})'
<1> DEFINE next == NextPhase(phase)
           onward == next = PREPARE /\ counters[cntBit] = 0
<1>1. \A t \in Txn : Registered(t) => txnPhase[t] = phase
  BY DEF CountersExact, PrevDrained, RegisteredIn
<1>2. \A p : p # phase => RegisteredIn(p) = {}
  BY <1>1 DEF RegisteredIn
<1>3. Cardinality({}) = 0
  BY FS_EmptySet
<1>4. phase \in Phases /\ cntBit \in {0, 1}
  BY DEF TypeOK
<1>5. /\ counters[cntBit] = Cardinality(RegisteredIn(phase))
      /\ counters[1 - cntBit] = 0
  BY ZeroIsDrained DEF CountersExact
<1>6. /\ \A p : RegisteredIn(p)' = RegisteredIn(p)
      /\ \A t \in Txn : Registered(t)' <=> Registered(t)
      /\ txnPhase' = txnPhase
  BY RegisteredFrame
<1>7. /\ phase' = IF onward THEN RESOLVE ELSE next
      /\ cntBit' = IF onward THEN cntBit ELSE 1 - cntBit
      /\ counters' = counters
  BY DEF MoveToNextPhase
<1>8. CASE onward
  <2>1. phase = REST /\ phase' = RESOLVE /\ cntBit' = cntBit
    BY <1>4, <1>7, <1>8, PhaseCycle
  <2>2. PrevPhase(RESOLVE) = PREPARE /\ REST # RESOLVE /\ REST # PREPARE
    BY DEF PrevPhase, REST, PREPARE, RESOLVE
  <2>3. RegisteredIn(phase) = {}
    BY <1>8, ZeroIsDrained
  <2>4. \A t \in Txn : ~Registered(t)
    BY <1>1, <2>3 DEF RegisteredIn
  <2>5. counters'[cntBit'] = Cardinality(RegisteredIn(phase)')
    BY <1>2, <1>3, <1>6, <1>7, <1>8, <2>1, <2>2
  <2>6. counters'[1 - cntBit'] = Cardinality(RegisteredIn(PrevPhase(phase))')
    <3>1. RegisteredIn(PrevPhase(phase))' = {}
      BY <2>4, <1>6 DEF RegisteredIn
    <3> QED
      BY <3>1, <1>3, <1>5, <1>7, <2>1
  <2> QED
    BY <2>4, <2>5, <2>6, <1>6 DEF CountersExact
<1>9. CASE ~onward
  <2>1. phase' = next /\ cntBit' = 1 - cntBit /\ 1 - cntBit' = cntBit
    BY <1>4, <1>7, <1>9
  <2>2. PrevPhase(phase') = phase /\ phase' # phase
    BY <1>4, <2>1, PhaseCycle
  <2>3. RegisteredIn(phase)' = {}
    BY <1>1, <1>6, <2>2 DEF RegisteredIn
  <2>4. RegisteredIn(PrevPhase(phase))' = RegisteredIn(phase)
    BY <1>6, <2>2 DEF RegisteredIn, Registered
  <2>5. counters'[cntBit'] = Cardinality(RegisteredIn(phase)')
    BY <2>3, <1>3, <1>5, <1>7, <2>1
  <2>6. counters'[1 - cntBit'] = Cardinality(RegisteredIn(PrevPhase(phase))')
    BY <2>4, <1>5, <1>7, <2>1
  <2>7. \A t \in Txn : Registered(t)' =>
            txnPhase'[t] \in {phase', PrevPhase(phase')}
    BY <1>1, <1>6, <2>2
  <2> QED
    BY <2>5, <2>6, <2>7, <1>6 DEF CountersExact
<1> QED
  BY <1>8, <1>9

-----------------------------------------------------------------------------
(* The checkpointer's steps.                                               *)

LEMMA InitPhaseInv == Init => PhaseInv
<1> SUFFICES ASSUME Init PROVE PhaseInv
  OBVIOUS
<1>1. \A t \in Txn : ~Registered(t) /\ pc[t] = "run" /\ curPhase[t] = NONE
  BY DEF Init, Registered
<1>2. \A p : RegisteredIn(p) = {}
  BY <1>1 DEF RegisteredIn
<1>3. CountersExact
  BY <1>1, <1>2, FS_EmptySet DEF Init, CountersExact
<1>4. CheckpointerPhase /\ WaitedFor /\ RedoLocked
  BY DEF Init, CheckpointerPhase, WaitedFor, RedoLocked
<1>5. SessionRegistered
  BY <1>1 DEF SessionRegistered, CommitStates
<1>6. TailFresh
  BY <1>1 DEF TailFresh
<1> QED
  BY <1>2, <1>3, <1>4, <1>5, <1>6, InitTypeOK DEF PhaseInv

LEMMA RestartPhaseInv == Restart => PhaseInv'
<1> SUFFICES ASSUME Restart PROVE PhaseInv'
  OBVIOUS
<1>1. \A t \in Txn : ~Registered(t)' /\ pc'[t] = "run" /\ curPhase'[t] = NONE
  BY DEF Restart, Registered
<1>2. \A p : RegisteredIn(p)' = {}
  BY <1>1 DEF RegisteredIn
<1>3. CountersExact'
  <2>1. RegisteredIn(phase)' = {} /\ RegisteredIn(PrevPhase(phase))' = {}
    BY <1>1 DEF RegisteredIn
  <2> QED
    BY <1>1, <2>1, FS_EmptySet DEF Restart, CountersExact
<1>4. CheckpointerPhase' /\ WaitedFor' /\ RedoLocked'
  BY DEF Restart, CheckpointerPhase, WaitedFor, RedoLocked
<1>5. SessionRegistered'
  BY <1>1 DEF SessionRegistered, CommitStates
<1>6. TailFresh'
  BY <1>1 DEF TailFresh
<1> QED
  BY <1>2, <1>3, <1>4, <1>5, <1>6, RestartTypeOK DEF PhaseInv

\* A step of the checkpointer that leaves the phase and the sessions alone.
LEMMA QuietStep ==
    ASSUME PhaseInv, TypeOK', UNCHANGED <<managerVars, pc, txnVars>>
    PROVE  /\ PrevDrained' <=> PrevDrained
           /\ CheckpointerPhase' /\ WaitedFor' /\ RedoLocked' => PhaseInv'
<1>1. UNCHANGED <<phase, cntBit, counters, txnPhase, commitEnded, curPhase, seenBit>>
  BY DEF managerVars, txnVars
<1>2. /\ \A t : Registered(t)' <=> Registered(t)
      /\ \A p : RegisteredIn(p)' = RegisteredIn(p)
  BY <1>1, RegisteredFrame
<1>3. RegisteredIn(phase)' = RegisteredIn(phase) /\ (PrevDrained' <=> PrevDrained)
  BY <1>1 DEF RegisteredIn, Registered, PrevDrained
<1>4. RegisteredIn(PrevPhase(phase))' = RegisteredIn(PrevPhase(phase))
  BY <1>1 DEF RegisteredIn, Registered
<1>5. CountersExact'
  BY <1>1, <1>2, <1>3, <1>4 DEF PhaseInv, CountersExact
<1>6. SessionRegistered' /\ TailFresh'
  BY <1>1, <1>2, <1>3 DEF PhaseInv, SessionRegistered, TailFresh
<1> QED
  BY <1>2, <1>3, <1>5, <1>6 DEF PhaseInv

\* After a move nobody in EndCommit's tail has the new phase as its
\* current_phase, because nobody is lapped.
LEMMA MoveTail ==
    ASSUME ~MayLap, MoveToNextPhase,
           \A t \in Txn : pc'[t] \in TailStates =>
               pc[t] \in TailStates /\ curPhase'[t] = curPhase[t]
    PROVE  TailFresh'
<1>1. /\ \A t \in Txn : pc[t] \in TailStates => curPhase[t] # NextPhase(phase)
      /\ phase' = RESOLVE /\ phase' # NextPhase(phase) =>
            \A t \in Txn : pc[t] \in TailStates => curPhase[t] # RESOLVE
      /\ phase' \in {RESOLVE, NextPhase(phase)}
  BY DEF MoveToNextPhase, NotLapped
<1>2. \A t \in Txn : pc'[t] \in TailStates => curPhase'[t] # phase'
  BY <1>1
<1> QED
  BY <1>2 DEF TailFresh, TailStates

LEMMA CheckpointerMove ==
    ASSUME PhaseInv, ~MayLap, TypeOK', NEW from, NEW to, Move(from, to),
           <<from, to>> \in {<<"to_prepare", "wait_resolve">>,
               <<"to_capture", "snapshot">>, <<"to_complete", "completing">>,
               <<"to_rest", "idle">>, <<"abort_to_rest", "idle">>,
               <<"abort_to_complete", "abort_wait_capture">>}
    PROVE  PhaseInv'
<1>1. /\ ckpt = from /\ ckpt' = to
      /\ MoveToNextPhase
      /\ UNCHANGED <<pc, txnPhase, commitEnded, curPhase>>
  BY DEF Move, CkptGoto, txnVars
<1>2. PrevDrained /\ redoLock = "free" /\ phase \in Phases
  BY <1>1 DEF PhaseInv, TypeOK, WaitedFor, RedoLocked
<1>3. CountersExact' /\ (RegisteredIn(RESOLVE) = {})'
  BY <1>1, <1>2, MoveCounters DEF PhaseInv
<1>4. TailFresh'
  BY <1>1, MoveTail
<1>5. \A t : Registered(t)' <=> Registered(t)
  BY <1>1, RegisteredFrame
<1>6. SessionRegistered'
  BY <1>1, <1>5 DEF PhaseInv, SessionRegistered
<1>7. CheckpointerPhase'
  <2>1. phase' = NextPhase(phase) \/ (phase = REST /\ phase' = RESOLVE)
    BY <1>1, <1>2, PhaseCycle DEF MoveToNextPhase
  <2> QED
    BY <1>1, <2>1 DEF PhaseInv, CheckpointerPhase, NextPhase,
         REST, PREPARE, RESOLVE, CAPTURE, COMPLETE
<1>8. WaitedFor'
  BY <1>1 DEF WaitedFor
<1>9. RedoLocked'
  <2>1. CASE from = "to_capture"
    <3>1. phase = RESOLVE /\ to = "snapshot" /\ redoLock' = "wanted"
      BY <1>1, <1>2, <2>1, PhaseCycle
      DEF PhaseInv, CheckpointerPhase, MoveToNextPhase
    <3>2. \A t \in Txn : ~Registered(t)
      BY <3>1, <1>2 DEF PhaseInv, CountersExact, PrevDrained, RegisteredIn
    <3> QED
      BY <1>1, <1>5, <3>1, <3>2 DEF RedoLocked
  <2>2. CASE from # "to_capture"
    <3>1. NextPhase(phase) # CAPTURE
      BY <1>1, <1>2, <2>2, PhaseCycle DEF PhaseInv, CheckpointerPhase,
           REST, PREPARE, RESOLVE, CAPTURE, COMPLETE
    <3>2. redoLock' = "free"
      BY <1>1, <1>2, <3>1 DEF MoveToNextPhase
    <3> QED
      BY <3>2 DEF RedoLocked
  <2> QED
    BY <2>1, <2>2
<1> QED
  BY <1>3, <1>4, <1>6, <1>7, <1>8, <1>9 DEF PhaseInv


LEMMA CheckpointerPhaseInv ==
    ASSUME PhaseInv, ~MayLap, Checkpointer PROVE PhaseInv'
<1>1. TypeOK'
  BY CheckpointerTypeOK DEF PhaseInv
<1>2. ASSUME NEW from, NEW to, WaitPrev(from, to),
             <<from, to>> \in {<<"wait_complete", "to_prepare">>,
                 <<"wait_prepare", "rm_lock">>,
                 <<"wait_resolve_txn", "to_complete">>,
                 <<"wait_capture", "to_rest">>,
                 <<"abort_wait_resolve", "abort_to_complete">>,
                 <<"abort_wait_capture", "abort_to_rest">>}
      PROVE  PhaseInv'
  <2>1. /\ ckpt = from /\ ckpt' = to /\ redoLock' = redoLock /\ phase' = phase
        /\ counters[1 - cntBit] = 0
        /\ UNCHANGED <<managerVars, pc, txnVars>>
    BY <1>2 DEF WaitPrev, CkptGoto, lockVars, managerVars
  <2>2. PrevDrained' <=> PrevDrained
    BY <1>1, <2>1, QuietStep
  <2>3. WaitedFor'
    BY <2>1, <2>2, ZeroIsDrained DEF PhaseInv, WaitedFor
  <2>4. CheckpointerPhase'
    BY <1>2, <2>1 DEF PhaseInv, CheckpointerPhase
  <2>5. RedoLocked'
    BY <1>2, <2>1 DEF PhaseInv, RedoLocked, TypeOK
  <2> QED
    BY <1>1, <2>1, <2>3, <2>4, <2>5, QuietStep
<1>3. CASE \/ WaitCompleteTxns \/ WaitPrepareTxns \/ WaitResolveTxns
           \/ WaitCaptureTxns \/ AbortWaitResolveTxns \/ AbortWaitCaptureTxns
  BY <1>2, <1>3 DEF WaitCompleteTxns, WaitPrepareTxns, WaitResolveTxns,
       WaitCaptureTxns, AbortWaitResolveTxns, AbortWaitCaptureTxns
<1>4. CASE \/ MoveToPrepare \/ MoveToCapture \/ MoveToComplete \/ MoveToRest
           \/ AbortMoveToComplete \/ AbortMoveToRest
  BY <1>1, <1>4, CheckpointerMove, RestartPhaseInv
  DEF MoveToPrepare, MoveToCapture, MoveToComplete, MoveToRest,
      AbortMoveToComplete, AbortMoveToRest
<1>5. CASE \/ CreateSnapShot \/ SeeResolve \/ LockRecoveryManager
           \/ CreatePendingRecoveryDataFile \/ BeginCheckpoint
           \/ \E failed \in BOOLEAN : CaptureEnded(failed)
           \/ \E failed \in BOOLEAN : CompleteCheckpoint(failed)
  <2>1. /\ UNCHANGED <<managerVars, pc, txnVars>>
        /\ redoLock' = redoLock /\ phase' = phase
        /\ \/ <<ckpt, ckpt'>> \in {<<"idle", "wait_complete">>,
                 <<"rm_lock", "pending_file">>, <<"pending_file", "to_capture">>,
                 <<"guts", "capturing">>, <<"capturing", "wait_resolve_txn">>,
                 <<"completing", "wait_capture">>}
           \/ ckpt = "wait_resolve" /\ ckpt' = "wait_prepare" /\ phase = RESOLVE
    BY <1>5 DEF CreateSnapShot, SeeResolve, LockRecoveryManager,
         CreatePendingRecoveryDataFile, BeginCheckpoint, CaptureEnded,
         CompleteCheckpoint, CkptGoto, lockVars, managerVars
  <2>2. PrevDrained' <=> PrevDrained
    BY <1>1, <2>1, QuietStep
  <2>3. CheckpointerPhase'
    BY <2>1 DEF PhaseInv, CheckpointerPhase
  <2>4. WaitedFor'
    BY <2>1, <2>2 DEF PhaseInv, WaitedFor
  <2>5. RedoLocked'
    BY <2>1 DEF PhaseInv, RedoLocked, TypeOK
  <2> QED
    BY <1>1, <2>1, <2>3, <2>4, <2>5, QuietStep
<1>6. CASE CreateSnapShotFails
  BY <1>6, RestartPhaseInv DEF CreateSnapShotFails
<1>7. CASE RedoWrLockGranted
  <2>1. /\ UNCHANGED <<managerVars, pc, txnVars>>
        /\ ckpt' = ckpt /\ phase' = phase
        /\ redoLock = "wanted" /\ redoLock' = "held" /\ RedoReaders = {}
    BY <1>7 DEF RedoWrLockGranted, managerVars
  <2>2. PrevDrained' <=> PrevDrained
    BY <1>1, <2>1, QuietStep
  <2>3. CheckpointerPhase' /\ WaitedFor'
    BY <2>1, <2>2 DEF PhaseInv, CheckpointerPhase, WaitedFor
  <2>4. RedoLocked'
    <3>1. \A t \in Txn : ~Registered(t) /\ ~Registered(t)'
      BY <2>1, RegisteredFrame DEF PhaseInv, RedoLocked, txnVars
    <3>2. \A t \in Txn : pc'[t] \notin LoggingStates
      BY <2>1 DEF RedoReaders
    <3>3. \A t \in Txn : pc'[t] \notin {"apply", "prepared"}
      BY <2>1, <3>1 DEF PhaseInv, SessionRegistered, CommitStates
    <3> QED
      BY <2>1, <3>1, <3>2, <3>3 DEF PhaseInv, RedoLocked
  <2> QED
    BY <1>1, <2>1, <2>3, <2>4, QuietStep
<1>8. CASE SnapshotReady \/ \E at \in AbortPoints : Abort(at)
  <2>1. \/ Restart
        \/ /\ UNCHANGED <<managerVars, pc, txnVars>> /\ phase' = phase
           /\ ckpt \in {"snapshot", "guts"}
           /\ \/ ckpt' \in {"guts", "abort_wait_resolve"} /\ redoLock' = "free"
              \/ phase # CAPTURE
    BY <1>8 DEF SnapshotReady, Abort, managerVars
  <2>2. CASE Restart
    BY <2>2, RestartPhaseInv
  <2>3. CASE /\ UNCHANGED <<managerVars, pc, txnVars>> /\ phase' = phase
             /\ ckpt \in {"snapshot", "guts"}
             /\ \/ ckpt' \in {"guts", "abort_wait_resolve"} /\ redoLock' = "free"
                \/ phase # CAPTURE
    <3>1. phase = CAPTURE
      BY <2>3 DEF PhaseInv, CheckpointerPhase
    <3>2. CheckpointerPhase' /\ WaitedFor' /\ RedoLocked'
      BY <2>3, <3>1 DEF CheckpointerPhase, WaitedFor, RedoLocked
    <3> QED
      BY <1>1, <2>3, <3>2, QuietStep
  <2> QED
    BY <2>1, <2>2, <2>3
<1> QED
  BY <1>3, <1>4, <1>5, <1>6, <1>7, <1>8 DEF Checkpointer


-----------------------------------------------------------------------------
(* The sessions' steps.                                                    *)

\* A step of a session that registers nobody and moves nothing.
LEMMA SessionQuiet ==
    ASSUME PhaseInv, TypeOK',
           UNCHANGED <<managerVars, lockVars, ckpt, txnPhase, commitEnded>>
    PROVE  /\ \A t : Registered(t)' <=> Registered(t)
           /\ PrevDrained' <=> PrevDrained
           /\ SessionRegistered' /\ TailFresh' /\ RedoLocked' => PhaseInv'
<1>1. UNCHANGED <<phase, cntBit, counters, txnPhase, commitEnded, ckpt>>
  BY DEF managerVars
<1>2. /\ \A t : Registered(t)' <=> Registered(t)
      /\ \A p : RegisteredIn(p)' = RegisteredIn(p)
  BY <1>1, RegisteredFrame
<1>3. RegisteredIn(phase)' = RegisteredIn(phase) /\ (PrevDrained' <=> PrevDrained)
  BY <1>1 DEF RegisteredIn, Registered, PrevDrained
<1>4. RegisteredIn(PrevPhase(phase))' = RegisteredIn(PrevPhase(phase))
  BY <1>1 DEF RegisteredIn, Registered
<1>5. CountersExact'
  BY <1>1, <1>2, <1>3, <1>4 DEF PhaseInv, CountersExact
<1>6. CheckpointerPhase' /\ WaitedFor'
  BY <1>1, <1>3 DEF PhaseInv, CheckpointerPhase, WaitedFor
<1> QED
  BY <1>2, <1>3, <1>5, <1>6 DEF PhaseInv

\* As above, when only the control state of t moves, from one state of a
\* commit to another one.
LEMMA CommitStep ==
    ASSUME PhaseInv, TypeOK', NEW t \in Txn, NEW from, NEW to, Goto(t, from, to),
           UNCHANGED <<managerVars, lockVars, ckpt, txnPhase, commitEnded,
                       curPhase, seenBit>>,
           from \in CommitStates <=> to \in CommitStates,
           to \notin TailStates,
           to \in LoggingStates => redoLock = "free",
           to \in {"apply", "prepared"} => from \in LoggingStates
    PROVE  PhaseInv'
<1>1. /\ pc[t] = from /\ pc' = [pc EXCEPT ![t] = to] /\ pc \in [Txn -> SessionStates]
      /\ redoLock' = redoLock /\ phase' = phase /\ cntBit' = cntBit /\ ckpt' = ckpt
      /\ UNCHANGED <<txnPhase, curPhase, seenBit>>
  BY DEF Goto, PhaseInv, TypeOK, managerVars, lockVars
<1>2. /\ \A u : Registered(u)' <=> Registered(u)
      /\ PrevDrained' <=> PrevDrained
  BY SessionQuiet
<1>3. SessionRegistered'
  BY <1>1, <1>2 DEF PhaseInv, SessionRegistered
<1>4. TailFresh'
  BY <1>1, <1>2 DEF PhaseInv, TailFresh, TailStates
<1>5. RedoLocked'
  BY <1>1, <1>2 DEF PhaseInv, RedoLocked
<1> QED
  BY <1>3, <1>4, <1>5, SessionQuiet

\* EndCommit returns without moving the phase.
LEMMA ReturnStep ==
    ASSUME PhaseInv, TypeOK', NEW t \in Txn, NEW from \in TailStates,
           ReturnFrom(t, from), UNCHANGED <<managerVars, lockVars>>
    PROVE  PhaseInv'
<1>1. /\ pc[t] = from /\ pc' = [pc EXCEPT ![t] = resume[t]]
      /\ resume[t] \in {"cleanup", "log_rollback"}
      /\ curPhase' = [curPhase EXCEPT ![t] = NONE]
      /\ seenBit' = [seenBit EXCEPT ![t] = 0]
      /\ pc \in [Txn -> SessionStates] /\ curPhase \in [Txn -> Phases \cup {NONE}]
      /\ seenBit \in [Txn -> {0, 1}]
      /\ redoLock' = redoLock /\ phase' = phase /\ cntBit' = cntBit
      /\ UNCHANGED <<ckpt, txnPhase, commitEnded>>
  BY DEF ReturnFrom, Goto, PhaseInv, TypeOK, managerVars, lockVars
<1>2. /\ \A u : Registered(u)' <=> Registered(u)
      /\ PrevDrained' <=> PrevDrained
  BY <1>1, SessionQuiet
<1>3. SessionRegistered'
  BY <1>1, <1>2 DEF PhaseInv, SessionRegistered, CommitStates, TailStates
<1>4. TailFresh'
  BY <1>1, <1>2 DEF PhaseInv, TailFresh
<1>5. RedoLocked'
  BY <1>1, <1>2 DEF PhaseInv, RedoLocked, LoggingStates
<1> QED
  BY <1>1, <1>3, <1>4, <1>5, SessionQuiet

\* One step further in EndCommit's tail.
LEMMA TailStep ==
    ASSUME PhaseInv, TypeOK', NEW t \in Txn, NEW from, NEW to \in TailStates,
           Goto(t, from, to), from \notin CommitStates,
           UNCHANGED <<managerVars, lockVars, ckpt, txnPhase, commitEnded, curPhase>>,
           \A u \in Txn : u # t => seenBit'[u] = seenBit[u],
           curPhase[t] = phase =>
               /\ to = "ec_counter" => seenBit'[t] = 1 - cntBit
               /\ to = "ec_phase" => PrevDrained
               /\ to = "ec_lock" => phase = PREPARE /\ PrevDrained
    PROVE  PhaseInv'
<1>1. /\ pc[t] = from /\ pc' = [pc EXCEPT ![t] = to] /\ pc \in [Txn -> SessionStates]
      /\ redoLock' = redoLock /\ phase' = phase /\ cntBit' = cntBit /\ ckpt' = ckpt
      /\ UNCHANGED <<txnPhase, curPhase>>
  BY DEF Goto, PhaseInv, TypeOK, managerVars, lockVars
<1>2. /\ \A u : Registered(u)' <=> Registered(u)
      /\ PrevDrained' <=> PrevDrained
  BY SessionQuiet
<1>3. SessionRegistered'
  BY <1>1, <1>2 DEF PhaseInv, SessionRegistered, CommitStates, TailStates
<1>4. TailFresh'
  BY <1>1, <1>2 DEF PhaseInv, TailFresh
<1>5. RedoLocked'
  BY <1>1, <1>2 DEF PhaseInv, RedoLocked, LoggingStates, TailStates
<1> QED
  BY <1>3, <1>4, <1>5, SessionQuiet


LEMMA BeginCommitInv ==
    ASSUME PhaseInv, TypeOK', NEW t \in Txn, BeginCommit(t) PROVE PhaseInv'
<1>1. /\ pc[t] = "run" /\ pc' = [pc EXCEPT ![t] = "validate"]
      /\ phase # RESOLVE /\ redoLock # "wanted"
      /\ commitEnded' = [commitEnded EXCEPT ![t] = FALSE]
      /\ txnPhase' = [txnPhase EXCEPT ![t] = phase]
      /\ counters' = [counters EXCEPT ![cntBit] = Increment(@)]
      /\ UNCHANGED <<phase, cntBit, redoLock, ckpt, curPhase, seenBit>>
  BY DEF BeginCommit, Goto, MLockFree, lockVars
<1>2. /\ phase \in Phases /\ cntBit \in {0, 1} /\ NONE \notin Phases
      /\ counters \in [{0, 1} -> 0..(CounterModulus - 1)]
      /\ pc \in [Txn -> SessionStates]
      /\ txnPhase \in [Txn -> Phases \cup {NONE}]
      /\ commitEnded \in [Txn -> BOOLEAN]
  BY DEF PhaseInv, TypeOK, Phases, NONE, REST, COMPLETE
<1>3. ~Registered(t) /\ Registered(t)' /\ \A u \in Txn \ {t} : Registered(u)' <=> Registered(u)
  <2>1. ~Registered(t)
    BY <1>1 DEF PhaseInv, SessionRegistered, CommitStates
  <2>2. txnPhase'[t] = phase /\ ~commitEnded'[t]
    BY <1>1, <1>2
  <2>3. \A u \in Txn \ {t} : txnPhase'[u] = txnPhase[u] /\ commitEnded'[u] = commitEnded[u]
    BY <1>1, <1>2
  <2> QED
    BY <1>2, <2>1, <2>2, <2>3 DEF Registered
<1>4. \A u \in Txn : txnPhase'[u] = IF u = t THEN phase ELSE txnPhase[u]
  BY <1>1, <1>2
<1>5. \A p : p # phase => RegisteredIn(p)' = RegisteredIn(p)
  BY <1>3, <1>4 DEF RegisteredIn
<1>6. RegisteredIn(phase)' = RegisteredIn(phase) \cup {t} /\ t \notin RegisteredIn(phase)
  BY <1>1, <1>3, <1>4 DEF RegisteredIn
<1>7. PrevPhase(phase) # phase /\ RegisteredIn(PrevPhase(phase))' = RegisteredIn(PrevPhase(phase))
  <2>1. PrevPhase(phase) # phase
    BY <1>2, PhaseCycle
  <2>2. \A u \in Txn : (Registered(u)' /\ txnPhase'[u] = PrevPhase(phase)) <=>
                       (Registered(u) /\ txnPhase[u] = PrevPhase(phase))
    BY <1>3, <1>4, <2>1
  <2> QED
    BY <1>1, <2>1, <2>2 DEF RegisteredIn
<1>8. CountersExact'
  <2>1. RegisteredIn(phase) \in SUBSET Txn /\ RegisteredIn(phase) \cup {t} \in SUBSET Txn
    BY DEF RegisteredIn
  <2>2. /\ Cardinality(RegisteredIn(phase)) \in Nat
        /\ Cardinality(RegisteredIn(phase)') = Cardinality(RegisteredIn(phase)) + 1
        /\ Cardinality(RegisteredIn(phase)') < CounterModulus
    BY <1>6, <2>1, SubsetCardinality
  <2>3. Increment(counters[cntBit]) = counters[cntBit] + 1
    BY <2>2, CounterWidth DEF PhaseInv, CountersExact, Increment
  <2>4. /\ counters'[cntBit'] = Cardinality(RegisteredIn(phase)')
        /\ counters'[1 - cntBit'] = counters[1 - cntBit]
    BY <1>1, <1>2, <2>2, <2>3 DEF PhaseInv, CountersExact
  <2>5. \A u \in Txn : Registered(u)' => txnPhase'[u] \in {phase', PrevPhase(phase')}
    BY <1>1, <1>3, <1>4 DEF PhaseInv, CountersExact
  <2> QED
    BY <1>7, <2>4, <2>5 DEF PhaseInv, CountersExact
<1>9. (RegisteredIn(RESOLVE) = {})'
  BY <1>1, <1>5 DEF PhaseInv
<1>10. PrevDrained' <=> PrevDrained
  BY <1>7 DEF PrevDrained
<1>11. CheckpointerPhase' /\ WaitedFor'
  BY <1>1, <1>10 DEF PhaseInv, CheckpointerPhase, WaitedFor
<1>12. SessionRegistered'
  BY <1>1, <1>2, <1>3 DEF PhaseInv, SessionRegistered, CommitStates
<1>13. TailFresh'
  BY <1>1, <1>2, <1>10 DEF PhaseInv, TailFresh
<1>14. RedoLocked'
  <2>1. redoLock = "held" => phase = CAPTURE
    BY DEF PhaseInv, RedoLocked, CheckpointerPhase
  <2> QED
    BY <1>1, <1>2, <1>3, <1>4, <2>1 DEF PhaseInv, RedoLocked, LoggingStates
<1> QED
  BY <1>8, <1>9, <1>11, <1>12, <1>13, <1>14 DEF PhaseInv

LEMMA EndCommitInv ==
    ASSUME PhaseInv, TypeOK', NEW t \in Txn, EndCommit(t) PROVE PhaseInv'
<1> DEFINE q == txnPhase[t]
           b == IF q = phase THEN cntBit ELSE 1 - cntBit
<1>1. /\ pc[t] = "end_commit" /\ pc' = [pc EXCEPT ![t] = "ec_bit"]
      /\ redoLock # "wanted"
      /\ commitEnded' = [commitEnded EXCEPT ![t] = TRUE]
      /\ curPhase' = [curPhase EXCEPT ![t] = phase]
      /\ counters' = [counters EXCEPT ![b] = Decrement(@)]
      /\ UNCHANGED <<phase, cntBit, redoLock, ckpt, txnPhase, seenBit>>
  BY DEF EndCommit, Goto, MLockFree, lockVars
<1>2. /\ phase \in Phases /\ cntBit \in {0, 1}
      /\ counters \in [{0, 1} -> 0..(CounterModulus - 1)]
      /\ pc \in [Txn -> SessionStates]
      /\ curPhase \in [Txn -> Phases \cup {NONE}]
      /\ commitEnded \in [Txn -> BOOLEAN]
  BY DEF PhaseInv, TypeOK
<1>3. Registered(t) /\ ~Registered(t)' /\ \A u \in Txn \ {t} : Registered(u)' <=> Registered(u)
  <2>1. Registered(t)
    BY <1>1 DEF PhaseInv, SessionRegistered, CommitStates
  <2>2. commitEnded'[t] /\ \A u \in Txn \ {t} : commitEnded'[u] = commitEnded[u]
    BY <1>1, <1>2
  <2> QED
    BY <1>1, <2>1, <2>2 DEF Registered
<1>4. \A p : RegisteredIn(p)' = IF p = q THEN RegisteredIn(p) \ {t} ELSE RegisteredIn(p)
  BY <1>1, <1>3 DEF RegisteredIn
<1>5. t \in RegisteredIn(q) /\ q \in {phase, PrevPhase(phase)}
  BY <1>3 DEF RegisteredIn, PhaseInv, CountersExact
<1>6. /\ RegisteredIn(phase)' =
            IF phase = q THEN RegisteredIn(phase) \ {t} ELSE RegisteredIn(phase)
      /\ RegisteredIn(PrevPhase(phase))' =
            IF PrevPhase(phase) = q THEN RegisteredIn(PrevPhase(phase)) \ {t}
                                    ELSE RegisteredIn(PrevPhase(phase))
  BY <1>1, <1>3 DEF RegisteredIn
<1>7. PrevPhase(phase) # phase
  BY <1>2, PhaseCycle
<1>8. CountersExact'
  <2>1. RegisteredIn(q) \in SUBSET Txn
    BY DEF RegisteredIn
  <2>2. /\ Cardinality(RegisteredIn(q)) \in Nat \ {0}
        /\ Cardinality(RegisteredIn(q) \ {t}) = Cardinality(RegisteredIn(q)) - 1
    BY <1>5, <2>1, SubsetCardinality
  <2>3. counters[b] = Cardinality(RegisteredIn(q)) /\ b \in {0, 1}
    BY <1>2, <1>5 DEF PhaseInv, CountersExact
  <2>4. counters'[b] = Cardinality(RegisteredIn(q) \ {t})
    BY <1>1, <1>2, <2>2, <2>3 DEF Decrement
  <2>5. counters'[1 - b] = counters[1 - b]
    BY <1>1, <1>2, <2>3
  <2>6. /\ counters'[cntBit'] = Cardinality(RegisteredIn(phase)')
        /\ counters'[1 - cntBit'] = Cardinality(RegisteredIn(PrevPhase(phase))')
    <3>1. CASE q = phase
      BY <1>1, <1>2, <1>6, <1>7, <2>4, <2>5, <3>1 DEF PhaseInv, CountersExact
    <3>2. CASE q # phase
      BY <1>1, <1>2, <1>5, <1>6, <2>4, <2>5, <3>2 DEF PhaseInv, CountersExact
    <3> QED
      BY <3>1, <3>2
  <2>7. \A u \in Txn : Registered(u)' => txnPhase'[u] \in {phase', PrevPhase(phase')}
    BY <1>1, <1>3 DEF PhaseInv, CountersExact
  <2> QED
    BY <2>6, <2>7 DEF CountersExact
<1>9. (RegisteredIn(RESOLVE) = {})'
  BY <1>4 DEF PhaseInv
<1>10. PrevDrained => PrevDrained'
  BY <1>6 DEF PrevDrained
<1>11. CheckpointerPhase' /\ WaitedFor'
  BY <1>1, <1>10 DEF PhaseInv, CheckpointerPhase, WaitedFor
<1>12. SessionRegistered'
  BY <1>1, <1>2, <1>3 DEF PhaseInv, SessionRegistered, CommitStates
<1>13. TailFresh'
  BY <1>1, <1>2, <1>10 DEF PhaseInv, TailFresh
<1>14. RedoLocked'
  BY <1>1, <1>2, <1>3 DEF PhaseInv, RedoLocked, LoggingStates
<1> QED
  BY <1>8, <1>9, <1>11, <1>12, <1>13, <1>14 DEF PhaseInv

LEMMA MoveIfFirstInv ==
    ASSUME PhaseInv, ~MayLap, TypeOK', NEW t \in Txn, MoveIfFirst(t) PROVE PhaseInv'
<1>1. CASE curPhase[t] # phase
  BY <1>1, ReturnStep DEF MoveIfFirst, TailStates
<1>2. CASE curPhase[t] = phase
  <2>1. /\ pc[t] = "ec_lock" /\ pc' = [pc EXCEPT ![t] = resume[t]]
        /\ resume[t] \in {"cleanup", "log_rollback"}
        /\ curPhase' = [curPhase EXCEPT ![t] = NONE]
        /\ pc \in [Txn -> SessionStates] /\ curPhase \in [Txn -> Phases \cup {NONE}]
        /\ phase \in Phases /\ MoveToNextPhase
        /\ UNCHANGED <<ckpt, txnPhase, commitEnded>>
    BY <1>2 DEF MoveIfFirst, ReturnFrom, Goto, PhaseInv, TypeOK
  <2>2. phase = PREPARE /\ PrevDrained
    BY <1>2, <2>1 DEF PhaseInv, TailFresh
  <2>3. phase' = RESOLVE /\ redoLock' = redoLock
    BY <2>1, <2>2, PhaseCycle
    DEF MoveToNextPhase, PREPARE, RESOLVE, CAPTURE
  <2>4. CountersExact' /\ (RegisteredIn(RESOLVE) = {})'
    BY <2>1, <2>2, MoveCounters DEF PhaseInv
  <2>5. TailFresh'
    BY <2>1, MoveTail DEF TailStates
  <2>6. ckpt = "wait_resolve"
    BY <2>2 DEF PhaseInv, TypeOK, CheckpointerStates, CheckpointerPhase,
         REST, PREPARE, RESOLVE, CAPTURE, COMPLETE
  <2>7. CheckpointerPhase' /\ WaitedFor'
    BY <2>1, <2>3, <2>6 DEF CheckpointerPhase, WaitedFor
  <2>8. SessionRegistered'
    BY <2>1, RegisteredFrame DEF PhaseInv, SessionRegistered, CommitStates
  <2>9. RedoLocked'
    BY <2>3, <2>6 DEF PhaseInv, RedoLocked, TypeOK
  <2> QED
    BY <2>4, <2>5, <2>7, <2>8, <2>9 DEF PhaseInv
<1> QED
  BY <1>1, <1>2


LEMMA CleanupInv ==
    ASSUME PhaseInv, TypeOK', NEW t \in Txn, Cleanup(t) PROVE PhaseInv'
<1>1. /\ pc[t] = "cleanup" /\ pc' = [pc EXCEPT ![t] = "run"]
      /\ txnPhase' = [txnPhase EXCEPT ![t] = NONE]
      /\ pc \in [Txn -> SessionStates] /\ txnPhase \in [Txn -> Phases \cup {NONE}]
      /\ UNCHANGED <<phase, cntBit, counters, redoLock, ckpt, commitEnded,
                     curPhase, seenBit>>
  BY DEF Cleanup, Goto, PhaseInv, TypeOK, managerVars, lockVars
<1>2. \A u \in Txn : (Registered(u)' <=> Registered(u))
                     /\ (Registered(u) => txnPhase'[u] = txnPhase[u])
  <2>1. ~Registered(t) /\ ~Registered(t)'
    BY <1>1 DEF PhaseInv, SessionRegistered, CommitStates, Registered
  <2>2. \A u \in Txn \ {t} : (Registered(u)' <=> Registered(u))
                             /\ txnPhase'[u] = txnPhase[u]
    BY <1>1 DEF Registered
  <2> QED
    BY <2>1, <2>2
<1>3. /\ \A p : RegisteredIn(p)' = RegisteredIn(p)
      /\ RegisteredIn(phase)' = RegisteredIn(phase)
      /\ RegisteredIn(PrevPhase(phase))' = RegisteredIn(PrevPhase(phase))
  BY <1>1, <1>2 DEF RegisteredIn
<1>4. CountersExact'
  BY <1>1, <1>2, <1>3 DEF PhaseInv, CountersExact
<1>5. PrevDrained' <=> PrevDrained
  BY <1>3 DEF PrevDrained
<1>6. CheckpointerPhase' /\ WaitedFor'
  BY <1>1, <1>5 DEF PhaseInv, CheckpointerPhase, WaitedFor
<1>7. SessionRegistered'
  BY <1>1, <1>2 DEF PhaseInv, SessionRegistered, CommitStates
<1>8. TailFresh'
  BY <1>1, <1>5 DEF PhaseInv, TailFresh
<1>9. RedoLocked'
  BY <1>1, <1>2 DEF PhaseInv, RedoLocked, LoggingStates
<1> QED
  BY <1>3, <1>4, <1>6, <1>7, <1>8, <1>9 DEF PhaseInv

LEMMA SessionPhaseInv ==
    ASSUME PhaseInv, ~MayLap, NEW t \in Txn, Session(t) PROVE PhaseInv'
<1>1. TypeOK'
  BY SessionTypeOK DEF PhaseInv
<1>2. ASSUME NEW from, NEW to, Step(t, from, to) \/ ToEndCommit(t, from, to)
      PROVE  UNCHANGED <<managerVars, lockVars, ckpt, txnPhase, commitEnded,
                         curPhase, seenBit>>
  BY <1>2 DEF Step, ToEndCommit, txnVars
<1>3. CASE \/ ValidateOk(t) \/ RecordCommit(t) \/ CommitPrepared(t) \/ Prepare(t)
  <2>1. PICK from \in {"validate", "validated", "prepared"},
             to \in {"validated", "log_commit", "log_prepare"} : Step(t, from, to)
    BY <1>3 DEF ValidateOk, RecordCommit, CommitPrepared, Prepare
  <2>2. Goto(t, from, to) /\ from \in CommitStates /\ to \in CommitStates
    BY <2>1 DEF Step, CommitStates
  <2> QED
    BY <1>1, <1>2, <2>1, <2>2, CommitStep DEF LoggingStates, TailStates
<1>4. CASE RedoRdLock(t)
  <2>1. PICK from, to : /\ Step(t, from, to) /\ redoLock = "free"
                        /\ <<from, to>> \in {<<"log_commit", "wr_commit">>,
                               <<"log_prepare", "wr_prepare">>,
                               <<"log_rollback", "wr_rollback">>}
    BY <1>4 DEF RedoRdLock
  <2>2. Goto(t, from, to) /\ (from \in CommitStates <=> to \in CommitStates)
    BY <2>1 DEF Step, CommitStates
  <2> QED
    BY <1>1, <1>2, <2>1, <2>2, CommitStep DEF TailStates
<1>5. CASE WriteCommit(t) \/ WritePrepare(t) \/ WriteRollback(t)
  <2>1. PICK from, to : /\ Step(t, from, to)
                        /\ <<from, to>> \in {<<"wr_commit", "apply">>,
                               <<"wr_prepare", "prepared">>,
                               <<"wr_rollback", "cleanup">>}
    BY <1>5 DEF WriteCommit, WritePrepare, WriteRollback
  <2>2. Goto(t, from, to) /\ (from \in CommitStates <=> to \in CommitStates)
    BY <2>1 DEF Step, CommitStates
  <2>3. from \in LoggingStates /\ to \notin LoggingStates /\ to \notin TailStates
    BY <2>1 DEF LoggingStates, TailStates
  <2> QED
    BY <1>1, <1>2, <2>1, <2>2, <2>3, CommitStep
<1>6. CASE ValidateFails(t) \/ LeaveUnrecorded(t) \/ RollbackPrepared(t) \/ WriteChanges(t)
  <2>1. PICK from \in {"validate", "validated", "prepared", "apply"},
             to \in {"cleanup", "log_rollback"} : ToEndCommit(t, from, to)
    BY <1>6 DEF ValidateFails, LeaveUnrecorded, RollbackPrepared, WriteChanges
  <2>2. /\ Goto(t, from, "end_commit")
        /\ from \in CommitStates /\ "end_commit" \in CommitStates
    BY <2>1 DEF ToEndCommit, CommitStates
  <2> QED
    BY <1>1, <1>2, <2>1, <2>2, CommitStep DEF LoggingStates, TailStates
<1>7. CASE ReadCntBit(t)
  <2>1. /\ Goto(t, "ec_bit", "ec_counter")
        /\ seenBit' = [seenBit EXCEPT ![t] = 1 - cntBit]
        /\ UNCHANGED <<managerVars, lockVars, ckpt, txnPhase, commitEnded, curPhase>>
        /\ seenBit \in [Txn -> {0, 1}]
    BY <1>7 DEF ReadCntBit, PhaseInv, TypeOK
  <2>2. seenBit'[t] = 1 - cntBit /\ \A u \in Txn : u # t => seenBit'[u] = seenBit[u]
    BY <2>1
  <2> QED
    BY <1>1, <2>1, <2>2, TailStep DEF TailStates, CommitStates
<1>8. CASE ReadCounter(t)
  <2>1. CASE counters[seenBit[t]] = 0
    <3>1. Step(t, "ec_counter", "ec_phase")
      BY <1>8, <2>1 DEF ReadCounter
    <3>2. Goto(t, "ec_counter", "ec_phase") /\ seenBit' = seenBit
      BY <3>1 DEF Step, txnVars
    <3>3. curPhase[t] = phase => PrevDrained
      BY <2>1, <3>2, ZeroIsDrained DEF PhaseInv, TailFresh, Goto
    <3> QED
      BY <1>1, <1>2, <3>1, <3>2, <3>3, TailStep DEF TailStates, CommitStates
  <2>2. CASE counters[seenBit[t]] # 0
    BY <1>1, <1>8, <2>2, ReturnStep DEF ReadCounter, TailStates
  <2> QED
    BY <2>1, <2>2
<1>9. CASE ReadPhase(t)
  <2>1. CASE IsAutoCompletePhase
    <3>1. Step(t, "ec_phase", "ec_lock")
      BY <1>9, <2>1 DEF ReadPhase
    <3>2. Goto(t, "ec_phase", "ec_lock") /\ seenBit' = seenBit
      BY <3>1 DEF Step, txnVars
    <3>3. curPhase[t] = phase => phase = PREPARE /\ PrevDrained
      BY <2>1, <3>2 DEF PhaseInv, TailFresh, Goto, IsAutoCompletePhase
    <3> QED
      BY <1>1, <1>2, <3>1, <3>2, <3>3, TailStep DEF TailStates, CommitStates
  <2>2. CASE ~IsAutoCompletePhase
    BY <1>1, <1>9, <2>2, ReturnStep DEF ReadPhase, TailStates
  <2> QED
    BY <2>1, <2>2
<1> QED
  BY <1>1, <1>3, <1>4, <1>5, <1>6, <1>7, <1>8, <1>9, BeginCommitInv, EndCommitInv,
     MoveIfFirstInv, CleanupInv DEF Session

-----------------------------------------------------------------------------
(* The results.                                                            *)

LEMMA PhaseInvCorrect == ASSUME ~MayLap PROVE Spec => []PhaseInv
<1>1. PhaseInv /\ [PhaseNext]_phaseVars => PhaseInv'
  <2> SUFFICES ASSUME PhaseInv, [PhaseNext]_phaseVars PROVE PhaseInv'
    OBVIOUS
  <2>1. CASE Checkpointer
    BY <2>1, CheckpointerPhaseInv
  <2>2. CASE \E t \in Txn : Session(t)
    BY <2>2, SessionPhaseInv
  <2>3. CASE UNCHANGED phaseVars
    <3>1. UNCHANGED <<managerVars, pc, txnVars, ckpt, redoLock>> /\ TypeOK' /\ phase' = phase
      BY <2>3 DEF phaseVars, PhaseInv, TypeOK, managerVars, lockVars, txnVars
    <3>2. PrevDrained' <=> PrevDrained
      BY <3>1, QuietStep
    <3>3. \A t : Registered(t)' <=> Registered(t)
      BY <3>1, RegisteredFrame DEF txnVars
    <3>4. CheckpointerPhase' /\ WaitedFor' /\ RedoLocked'
      BY <3>1, <3>2, <3>3
      DEF PhaseInv, CheckpointerPhase, WaitedFor, RedoLocked, txnVars
    <3> QED
      BY <3>1, <3>4, QuietStep
  <2> QED
    BY <2>1, <2>2, <2>3 DEF PhaseNext
<1> QED
  BY InitPhaseInv, <1>1, PTL DEF Spec

\* The counters of the CheckpointManager are exact as long as no session is
\* suspended in EndCommit while the phases come round.
THEOREM CountersCorrect == ASSUME ~MayLap PROVE Spec => []CountersExact
<1>1. PhaseInv => CountersExact
  BY DEF PhaseInv
<1> QED
  BY <1>1, PhaseInvCorrect, PTL

\* CAPTURE starts with every earlier commit over, and no commit begins in
\* RESOLVE.
THEOREM CutoffCorrect == ASSUME ~MayLap PROVE Spec => []CutoffDrained
<1>1. PhaseInv => CutoffDrained
  <2> SUFFICES ASSUME PhaseInv PROVE CutoffDrained
    OBVIOUS
  <2>1. PrevPhase(CAPTURE) = RESOLVE
    BY DEF PrevPhase, CAPTURE, RESOLVE, REST
  <2> QED
    BY <2>1 DEF PhaseInv, CountersExact, CutoffDrained, RegisteredIn
<1> QED
  BY <1>1, PhaseInvCorrect, PTL

\* The redo point is taken while no commit is between its redo record and its
\* end.
THEOREM RedoPointCorrect == ASSUME ~MayLap PROVE Spec => []RedoPointQuiescent
<1>1. PhaseInv => RedoPointQuiescent
  <2> SUFFICES ASSUME PhaseInv, redoLock = "held", NEW t \in Txn
               PROVE  /\ pc[t] \notin LoggingStates \cup {"apply", "prepared"}
                      /\ pc[t] = "end_commit" => txnPhase[t] = CAPTURE
    BY DEF RedoPointQuiescent
  <2> QED
    BY DEF PhaseInv, RedoLocked, SessionRegistered, CommitStates
<1> QED
  BY <1>1, PhaseInvCorrect, PTL

\* A checkpoint is started by the checkpointer only.
THEOREM StarterCorrect == ASSUME ~MayLap PROVE Spec => []OnlyCheckpointerStarts
<1>1. PhaseInv => OnlyCheckpointerStarts
  BY DEF PhaseInv, CheckpointerPhase, OnlyCheckpointerStarts
<1> QED
  BY <1>1, PhaseInvCorrect, PTL


\* No lock is left behind, if the envelope never skips a checkpoint for want
\* of log records.
THEOREM LocksCorrect ==
    ASSUME ~MayLap, "skip" \notin AbortPoints PROVE Spec => []LocksReleased
<1>1. Init => MutexHeld
  BY DEF Init, MutexHeld
<1>2. PhaseInv /\ MutexHeld /\ [PhaseNext]_phaseVars => MutexHeld'
  <2> SUFFICES ASSUME PhaseInv, MutexHeld, [PhaseNext]_phaseVars PROVE MutexHeld'
    OBVIOUS
  <2>1. CASE Restart
    BY <2>1 DEF Restart, MutexHeld
  <2>2. ASSUME NEW from, NEW to, Move(from, to) \/ WaitPrev(from, to)
        PROVE  ckpt = from /\ ckpt' = to /\ rmLock' = rmLock
    BY <2>2 DEF Move, WaitPrev, CkptGoto, MoveToNextPhase, lockVars
  <2>3. CASE \/ WaitCompleteTxns \/ WaitPrepareTxns \/ WaitResolveTxns
             \/ WaitCaptureTxns \/ AbortWaitResolveTxns \/ AbortWaitCaptureTxns
    BY <2>2, <2>3 DEF WaitCompleteTxns, WaitPrepareTxns, WaitResolveTxns,
         WaitCaptureTxns, AbortWaitResolveTxns, AbortWaitCaptureTxns, MutexHeld
  <2>4. CASE \/ MoveToPrepare \/ MoveToCapture \/ MoveToComplete \/ MoveToRest
             \/ AbortMoveToComplete \/ AbortMoveToRest
    BY <2>1, <2>2, <2>4 DEF MoveToPrepare, MoveToCapture, MoveToComplete,
         MoveToRest, AbortMoveToComplete, AbortMoveToRest, MutexHeld
  <2>5. CASE \/ CreateSnapShot \/ SeeResolve \/ CreatePendingRecoveryDataFile
             \/ BeginCheckpoint \/ RedoWrLockGranted \/ UNCHANGED phaseVars
             \/ \E failed \in BOOLEAN : CaptureEnded(failed)
             \/ \E failed \in BOOLEAN : CompleteCheckpoint(failed)
    <3>1. /\ rmLock' = rmLock
          /\ \/ ckpt' = ckpt
             \/ ckpt = "pending_file" /\ ckpt' = "to_capture"
             \/ /\ ckpt \notin {"pending_file", "to_capture", "snapshot"}
                /\ ckpt' \notin {"pending_file", "to_capture", "snapshot"}
      BY <2>5 DEF CreateSnapShot, SeeResolve, CreatePendingRecoveryDataFile,
           BeginCheckpoint, RedoWrLockGranted, CaptureEnded, CompleteCheckpoint,
           CkptGoto, phaseVars, lockVars
    <3> QED
      BY <3>1 DEF MutexHeld
  <2>6. CASE CreateSnapShotFails
    BY <2>1, <2>6 DEF CreateSnapShotFails
  <2>7. CASE LockRecoveryManager
    BY <2>7 DEF LockRecoveryManager, CkptGoto, MutexHeld
  <2>8. CASE SnapshotReady
    BY <2>1, <2>8 DEF SnapshotReady, MutexHeld
  <2>9. CASE \E at \in AbortPoints : Abort(at)
    <3>1. /\ ckpt = "guts" /\ rmLock' = rmLock
          /\ ckpt' \in {"abort_wait_resolve", "idle"}
      BY <2>9, AbortPointsAssumption DEF Abort
    <3> QED
      BY <3>1 DEF MutexHeld
  <2>10. CASE \E t \in Txn : Session(t)
    <3>1. PICK t \in Txn : Session(t)
      BY <2>10
    <3>2. rmLock' = rmLock /\ ckpt' = ckpt
      BY <3>1 DEF Session, BeginCommit, ValidateOk, ValidateFails, RecordCommit,
           Prepare, LeaveUnrecorded, CommitPrepared, RollbackPrepared, RedoRdLock,
           WriteCommit, WritePrepare, WriteRollback, WriteChanges, EndCommit,
           ReadCntBit, ReadCounter, ReadPhase, MoveIfFirst, Cleanup, Step,
           ToEndCommit, ReturnFrom, MoveToNextPhase, lockVars
    <3> QED
      BY <3>2 DEF MutexHeld
  <2> QED
    BY <2>3, <2>4, <2>5, <2>6, <2>7, <2>8, <2>9, <2>10 DEF PhaseNext, Checkpointer
<1>3. PhaseInv /\ MutexHeld => LocksReleased
  BY DEF PhaseInv, TypeOK, RedoLocked, MutexHeld, LocksReleased
<1> QED
  BY <1>1, <1>2, <1>3, PhaseInvCorrect, PTL DEF Spec

\* The available bit turns over only when every commit under way began in
\* COMPLETE.
THEOREM SwapCorrect == ASSUME ~MayLap PROVE Spec => SwapWhenDrained
<1> DEFINE Swap == availableBit' # availableBit /\ pc' = pc =>
                       \A t \in Txn : Registered(t) => txnPhase[t] = COMPLETE
<1>1. PhaseInv /\ [PhaseNext]_phaseVars => [Swap]_phaseVars
  <2> SUFFICES ASSUME PhaseInv, PhaseNext, availableBit' # availableBit, pc' = pc,
                      NEW t \in Txn, Registered(t)
               PROVE  txnPhase[t] = COMPLETE
    BY DEF phaseVars, managerVars
  <2>1. ~Restart
    <3>1. pc[t] # "run"
      BY DEF PhaseInv, SessionRegistered, CommitStates
    <3> QED
      BY <3>1 DEF Restart
  <2>2. ASSUME NEW from, NEW to, Move(from, to)
        PROVE  ckpt = from /\ (from \in {"to_rest", "abort_to_rest"} =>
                                   txnPhase[t] = COMPLETE)
                           /\ phase = COMPLETE
    <3>1. ckpt = from /\ NextPhase(phase) = REST
      BY <2>2 DEF Move, CkptGoto, MoveToNextPhase
    <3>2. phase = COMPLETE
      BY <3>1, PhaseCycle DEF PhaseInv, TypeOK
    <3>3. from \in {"to_rest", "abort_to_rest"} => PrevDrained
      BY <3>1 DEF PhaseInv, WaitedFor
    <3> QED
      BY <3>1, <3>2, <3>3 DEF PhaseInv, CountersExact, PrevDrained, RegisteredIn
  <2>3. ASSUME NEW from, NEW to PROVE ~WaitPrev(from, to)
    BY DEF WaitPrev, managerVars
  <2>4. CASE Checkpointer
    <3>1. \/ MoveToPrepare \/ MoveToCapture \/ MoveToComplete \/ MoveToRest
          \/ AbortMoveToComplete \/ AbortMoveToRest
      BY <2>1, <2>3, <2>4 DEF Checkpointer, CreateSnapShot, CreateSnapShotFails,
           WaitCompleteTxns, SeeResolve, WaitPrepareTxns, LockRecoveryManager,
           CreatePendingRecoveryDataFile, RedoWrLockGranted, SnapshotReady,
           BeginCheckpoint, CaptureEnded, WaitResolveTxns, CompleteCheckpoint,
           WaitCaptureTxns, Abort, AbortWaitResolveTxns, AbortWaitCaptureTxns,
           managerVars
    <3>2. PICK from \in {"to_prepare", "to_capture", "to_complete", "to_rest",
                         "abort_to_complete", "abort_to_rest"},
               to \in CheckpointerStates : Move(from, to)
      BY <2>1, <3>1 DEF MoveToPrepare, MoveToCapture, MoveToComplete, MoveToRest,
           AbortMoveToComplete, AbortMoveToRest, CheckpointerStates
    <3>3. from \in {"to_rest", "abort_to_rest"}
      BY <2>2, <3>2 DEF PhaseInv, CheckpointerPhase,
           REST, RESOLVE, CAPTURE, COMPLETE
    <3> QED
      BY <2>2, <3>2, <3>3
  <2>5. ASSUME NEW u \in Txn, NEW from, NEW to, Goto(u, from, to)
        PROVE  from = to
    BY <2>5 DEF Goto, PhaseInv, TypeOK
  <2>6. ASSUME NEW u \in Txn PROVE ~Session(u)
    <3>1. ~MoveIfFirst(u)
      BY <2>5 DEF MoveIfFirst, ReturnFrom, PhaseInv, TypeOK
    <3> QED
      BY <3>1 DEF Session, BeginCommit, ValidateOk, ValidateFails, RecordCommit,
           Prepare, LeaveUnrecorded, CommitPrepared, RollbackPrepared, RedoRdLock,
           WriteCommit, WritePrepare, WriteRollback, WriteChanges, EndCommit,
           ReadCntBit, ReadCounter, ReadPhase, Cleanup, Step, ToEndCommit,
           managerVars
  <2> QED
    BY <2>4, <2>6 DEF PhaseNext
<1> QED
  BY <1>1, PhaseInvCorrect, PTL DEF Spec, SwapWhenDrained
=============================================================================

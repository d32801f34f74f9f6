----------------------------- MODULE CalcPhases -----------------------------
(***************************************************************************)
(* What the phase machine of the MOT checkpoint promises to the commit and *)
(* capture of rows: the phases of the CALC algorithm without the counters, *)
(* locks and control states by which CheckpointManager keeps the promise   *)
(* (module CheckpointPhases, which implements this one).                   *)
(***************************************************************************)
EXTENDS CheckpointPhaseEnum

CONSTANT Txn    \* the sessions that commit transactions

VARIABLES
    phase,         \* m_phase
    availableBit,  \* m_availableBit
    startPhase,    \* the phase in which a session began the commit it is in
    naBit,         \* the not-available bit that the session saw then
    redoLocked     \* may commits not write their redo records?

calcVars == <<phase, availableBit, startPhase, naBit, redoLocked>>

\* Every commit that began in phase p is over.
Drained(p) == \A t \in Txn : startPhase[t] # p

-----------------------------------------------------------------------------
CalcInit ==
    /\ phase = REST
    /\ availableBit = TRUE
    /\ startPhase = [t \in Txn |-> NONE]
    /\ naBit = [t \in Txn |-> FALSE]
    /\ redoLocked = FALSE

\* No commit begins in RESOLVE.
CalcBegin(t) ==
    /\ startPhase[t] = NONE
    /\ phase # RESOLVE
    /\ startPhase' = [startPhase EXCEPT ![t] = phase]
    /\ naBit' = [naBit EXCEPT ![t] = ~availableBit]
    /\ UNCHANGED <<phase, availableBit, redoLocked>>

CalcEnd(t) ==
    /\ startPhase[t] # NONE
    /\ startPhase' = [startPhase EXCEPT ![t] = NONE]
    /\ UNCHANGED <<phase, availableBit, naBit, redoLocked>>

\* A checkpoint starts once the commits that began in the COMPLETE phase of
\* the one before are over; PREPARE is skipped if no commit is under way.
ToPrepare ==
    /\ phase = REST
    /\ Drained(COMPLETE)
    /\ phase' = IF Drained(REST) THEN RESOLVE ELSE PREPARE
    /\ UNCHANGED <<availableBit, startPhase, naBit, redoLocked>>

ToResolve ==
    /\ phase = PREPARE
    /\ Drained(REST)
    /\ phase' = RESOLVE
    /\ UNCHANGED <<availableBit, startPhase, naBit, redoLocked>>

\* The cutoff: no commit is under way, and none gets to its redo record until
\* the redo point is taken.
ToCapture ==
    /\ phase = RESOLVE
    /\ Drained(PREPARE)
    /\ phase' = CAPTURE
    /\ redoLocked' = TRUE
    /\ UNCHANGED <<availableBit, startPhase, naBit>>

\* The envelope has taken the redo point.
UnlockRedo ==
    /\ redoLocked
    /\ redoLocked' = FALSE
    /\ UNCHANGED <<phase, availableBit, startPhase, naBit>>

ToComplete ==
    /\ phase = CAPTURE
    /\ ~redoLocked
    /\ phase' = COMPLETE
    /\ UNCHANGED <<availableBit, startPhase, naBit, redoLocked>>

\* The two values of the status bit swap their meanings when the commits that
\* began in CAPTURE are over.
ToRest ==
    /\ phase = COMPLETE
    /\ Drained(CAPTURE)
    /\ phase' = REST
    /\ availableBit' = ~availableBit
    /\ UNCHANGED <<startPhase, naBit, redoLocked>>

\* Everything here is in memory.
CalcRestart ==
    /\ phase' = REST
    /\ availableBit' = TRUE
    /\ startPhase' = [t \in Txn |-> NONE]
    /\ naBit' = [t \in Txn |-> FALSE]
    /\ redoLocked' = FALSE

CalcNext ==
    \/ \E t \in Txn : CalcBegin(t) \/ CalcEnd(t)
    \/ ToPrepare \/ ToResolve \/ ToCapture \/ UnlockRedo \/ ToComplete \/ ToRest
    \/ CalcRestart

CalcSpec == CalcInit /\ [][CalcNext]_calcVars
=============================================================================

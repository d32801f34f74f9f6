--------------------------- MODULE RedoLogHandler ---------------------------
(***************************************************************************)
(* What a redo log handler of the MOT engine promises to the transactions  *)
(* that write to it (redo_log_handler.h): a call of WriteToLog inserts the *)
(* buffer of its transaction in the write-ahead log once, after the call   *)
(* and before the return, so that the transaction may then reuse the       *)
(* buffer and write its commit record.  SyncRedoLogHandler::WriteToLog     *)
(* does so by itself; the group handler (module GroupRedoLog) has one      *)
(* transaction insert the buffers of several.                              *)
(***************************************************************************)
EXTENDS Naturals

CONSTANT Call    \* the calls of WriteToLog, one per transaction

VARIABLES
    stage,    \* where each call is: "idle", "called", "logged", "returned"
    dataLsn,  \* position of the call's buffer in the log, 0 if not inserted
    walEnd    \* number of records in the log

handlerVars == <<stage, dataLsn, walEnd>>

HandlerInit ==
    /\ stage = [c \in Call |-> "idle"]
    /\ dataLsn = [c \in Call |-> 0]
    /\ walEnd = 0

\* A transaction takes the redo lock for reading and calls WriteToLog.
CallWrite(c) ==
    /\ stage[c] = "idle"
    /\ stage' = [stage EXCEPT ![c] = "called"]
    /\ UNCHANGED <<dataLsn, walEnd>>

\* AddToLog of the call's buffer, by whichever thread.
InsertData(c) ==
    /\ stage[c] = "called"
    /\ stage' = [stage EXCEPT ![c] = "logged"]
    /\ walEnd' = walEnd + 1
    /\ dataLsn' = [dataLsn EXCEPT ![c] = walEnd + 1]

ReturnBuffer(c) ==
    /\ stage[c] = "logged"
    /\ stage' = [stage EXCEPT ![c] = "returned"]
    /\ UNCHANGED <<dataLsn, walEnd>>

\* Any other record: the handler does not own the log.
OtherRecord ==
    /\ walEnd' = walEnd + 1
    /\ UNCHANGED <<stage, dataLsn>>

HandlerNext ==
    \/ \E c \in Call : CallWrite(c) \/ InsertData(c) \/ ReturnBuffer(c)
    \/ OtherRecord

HandlerSpec == HandlerInit /\ [][HandlerNext]_handlerVars
=============================================================================

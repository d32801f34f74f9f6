---------------------------- MODULE ParallelRedo ----------------------------
(***************************************************************************)
(* Parallel recovery (storage/access/transam/parallel_recovery).  The      *)
(* startup thread reads the log, hands every record to the page workers    *)
(* and to a transaction list it works off itself, and reports how far the  *)
(* log has been replayed.  Page workers take lists of records from a       *)
(* bounded queue each and meet on the records they share.                  *)
(*                                                                         *)
(* A record is its position n in the log: it starts at Read(n) and ends at *)
(* End(n).                                                                 *)
(***************************************************************************)
EXTENDS Integers, Sequences, FiniteSetsExt

CONSTANTS
    NumWorkers,  \* page workers are 1..NumWorkers, in the order of the loops
    QueueSize,   \* lists that a worker's queue holds
    MaxLsn,      \* bound: records in the log
    SpreadAt,    \* bound: the one record after which pages may be spread anew
    Records,     \* bound: the records that may be at each position of the log
    Modes,       \* values of enable_batch_dispatch
    Targets,     \* modes in which recovery may stop at a recovery target
    Drains       \* modes in which a queue that was found full may be empty when
                 \* the transaction list is worked off before the next try

VARIABLES
    batch,       \* enable_batch_dispatch
    log,         \* the records read so far
    dispatchEnd, \* g_dispatcher->dispatchEndRecPtr
    dispatchRead,\* g_dispatcher->dispatchReadRecPtr
    dpc,         \* where the startup thread is
    full,        \* g_dispatcher->full_sync_dispatch
    force,       \* forceAll of ApplyReadyTxnLogRecords
    ret,         \* where ApplyReadyTxnLogRecords returns to
    after,       \* where ProcessPendingRecords returns to
    moved,       \* records read when dispatchRandom changed, 0 before it did
    pending,     \* pendingHead of each page worker
    txnPending,  \* pendingHead of the transaction worker
    proc,        \* procHead of the transaction worker
    transed,     \* transed_txn_lsn
    trying,      \* txn_trying_lsn
    queue,       \* queue of each page worker: lists of records, <<>> the end mark
    refCount,    \* RedoItem.refCount
    released,    \* items whose RedoItem.replayed is set
    freed,       \* items given to FreeRedoItem
    applied,     \* records given to ApplyRedoRecord
    wpc,         \* where each page worker is
    rest,        \* what is left of the list it replays
    item,        \* the item it replays
    replaying,   \* curReplayingReadRecPtr
    completed,   \* lastReplayedEndRecPtr of the worker
    completedRead,  \* lastReplayedReadRecPtr of the worker
    snap,        \* cur_transed_lsn in wait_valid_snapshot
    replayed,    \* XLogCtl->lastReplayedEndRecPtr
    lastRead,    \* XLogCtl->lastReplayedReadRecPtr
    ahead        \* history: the replay position was reported by a drained round

startupVars == <<dpc, full, force, ret, after>>
listVars    == <<pending, txnPending, proc, transed>>
itemVars    == <<refCount, released, freed, applied>>
workerVars  == <<wpc, rest, item, replaying, completed, completedRead, snap>>
vars == <<batch, log, dispatchEnd, dispatchRead, moved, startupVars, listVars, trying, queue,
          itemVars, workerVars, replayed, lastRead, ahead>>

Workers == 1..NumWorkers
Lsn     == 1..MaxLsn
Read(n) == n
End(n)  == n + 1

Kinds == {"page", "create", "clean", "txn", "share", "all", "block", "seg"}

\* Records.  A "page" record belongs to the workers of its pages; "create" makes
\* a database or a tablespace, and goes to all of them and as a marker to the
\* startup thread; "clean" is XLOG_HEAP2_CLEAN; "txn" is replayed by the startup thread; "share" is
\* prepared by page workers and replayed by the startup thread while they wait
\* (drop of relations, truncate, SP-GiST vacuum); "all" is a checkpoint or drop
\* of a database; "block" is replayed by its page worker, which then waits for
\* the transaction list; "seg" is a segment-page synchronisation record.
\* sync is the isNeedFullSync that the record's rm_dispatch returns.
Record ==
    { r \in [kind : Kinds, to : SUBSET Workers, sync : BOOLEAN] :
        /\ r.kind = "page" => r.to # {}
        /\ r.kind \in {"clean", "block"} => Cardinality(r.to) = 1
        /\ r.kind = "share" => r.to = Workers \/ Cardinality(r.to) = 1
        /\ r.kind \in {"all", "create"} => r.to = Workers
        /\ r.kind \in {"txn", "seg"} => r.to = {}
        /\ r.kind \notin {"txn", "all"} => ~r.sync }

ASSUME RedoAssumption ==
    /\ NumWorkers \in Nat \ {0}
    /\ QueueSize \in Nat \ {0}
    /\ MaxLsn \in Nat
    /\ SpreadAt \in 0..MaxLsn
    /\ Records \in [1..MaxLsn -> SUBSET Record]
    /\ Modes \subseteq BOOLEAN
    /\ Targets \subseteq Modes
    /\ Drains \subseteq Modes

Kind(n) == log[n].kind

\* The records that the startup thread replays itself, in its list.
OnTxnList(r) == r.kind \in {"create", "txn", "share", "all", "block"}

\* The page workers that get an item for the record: a transaction record is
\* an LSN marker for every one of them, but in batch mode only.
Recipients(r) == IF r.kind = "txn" THEN {w \in Workers : batch} ELSE r.to

ShareCount(n) ==
    Cardinality(log[n].to) + IF Kind(n) \in {"share", "all"} THEN 1 ELSE 0

-----------------------------------------------------------------------------
(* Progress of the page workers, as the startup thread reads it.           *)

MaxPtr == MaxLsn + 2

Idle(w) == queue[w] = <<>>

GetReplyingRecPtr(w) == Max({replaying[w], completed[w]})

\* Mutant: the worker that is furthest ahead.
MutantGetReplayingRecPtrFromWorkers ==
    LET busy == {v \in Workers : ~Idle(v)}
    IN IF busy = {} THEN MaxPtr ELSE Max({GetReplyingRecPtr(w) : w \in busy})

GetReplayingRecPtrFromWorkers ==
    Min({MaxPtr} \union {GetReplyingRecPtr(w) : w \in {v \in Workers : ~Idle(v)}})

\* Mutant: the worker that is furthest ahead.
MutantGetReplayedRecPtrFromWorkers ==
    LET busy == {v \in Workers : ~Idle(v)}
    IN IF busy = {} THEN MaxPtr ELSE Max({completed[w] : w \in busy})

GetReplayedRecPtrFromWorkers ==
    Min({MaxPtr} \union {completed[w] : w \in {v \in Workers : ~Idle(v)}})

\* The read position that comes with it: that of the first such worker.
ReplayedReadFromWorkers ==
    LET slowest == {w \in Workers : ~Idle(w) /\ completed[w] = GetReplayedRecPtrFromWorkers}
    IN IF slowest = {} THEN MaxPtr ELSE completedRead[Min(slowest)]

\* SetXLogReplayRecPtr compares the end given with the start of the last record, and
\* takes start and end over as they are given.
SetXLogReplayRecPtr(read, end) ==
    IF lastRead < end
    THEN lastRead' = read /\ replayed' = end
    ELSE UNCHANGED <<replayed, lastRead>>

-----------------------------------------------------------------------------
(* The startup thread: dispatch of a record.                               *)

Goto(l) == dpc' = l

\* ProcessPendingRecords(sync), which returns to where.
Flush(sync, where) ==
    /\ Goto("put")
    /\ full' = sync
    /\ after' = where
    /\ UNCHANGED <<force, ret>>

\* ApplyReadyTxnLogRecords(all), which returns to where.
Apply(all, where) ==
    /\ Goto("apply")
    /\ force' = all
    /\ ret' = where

Add(r, n) == [w \in Workers |->
    IF w \in Recipients(r) THEN Append(pending[w], n) ELSE pending[w]]

\* The end of DispatchRedoRecordToFile for a record that needs no full sync:
\* one record is a batch, or in batch mode the batch is full or the timeout
\* has passed; otherwise the records stay pending.  CheckDispatchCount may follow.
FlushBatch(n) ==
    \/ Flush(FALSE, "read")
    \/ n = SpreadAt /\ Flush(FALSE, "check")
    \/ /\ batch
       /\ Goto("read")
       /\ UNCHANGED <<full, force, ret, after>>

\* The records that may be read next.
NextRecords == IF Len(log) < MaxLsn THEN Records[Len(log) + 1] ELSE {}

Dispatch ==
    /\ dpc = "read"
    /\ \E r \in {s \in NextRecords : s.kind # "seg"} :
          LET n == Len(log) + 1
          IN /\ log' = Append(log, r)
             /\ pending' = Add(r, n)
             /\ txnPending' = IF OnTxnList(r) THEN Append(txnPending, n) ELSE txnPending
             /\ dispatchEnd' = End(n) /\ dispatchRead' = Read(n)
             /\ IF r.sync THEN Flush(TRUE, "read") ELSE FlushBatch(n)
    /\ UNCHANGED <<batch, ahead, moved, proc, transed, trying, queue, itemVars, workerVars,
                   replayed, lastRead>>

MoveTxnItemToApplyQueue ==
    /\ proc' = proc \o txnPending
    /\ txnPending' = <<>>
    /\ transed' = IF txnPending = <<>> THEN transed
                  ELSE End(txnPending[Len(txnPending)])

\* A segment-page synchronisation record is replayed at once, when the page
\* workers have nothing left.  If no transaction record waits, their pending
\* lists are put without a look at the transaction list.
DealWithSegpageSyncRecord ==
    /\ dpc = "read"
    /\ \E r \in {s \in NextRecords : s.kind = "seg"} : log' = Append(log, r)
    /\ MoveTxnItemToApplyQueue
    /\ IF proc' = <<>>
       THEN /\ Goto("segput")
            /\ UNCHANGED <<full, force, ret, after>>
       ELSE Flush(TRUE, "drain")
    /\ UNCHANGED <<batch, ahead, dispatchEnd, dispatchRead, moved, pending, trying, queue,
                   itemVars, workerVars, replayed, lastRead>>

\* The loop over the page workers skips those with nothing pending.
ToPut == {w \in Workers : pending[w] # <<>>}

\* Mutant: no look at the space that is left.
MutantPut ==
    /\ ToPut # {}
    /\ LET w == Min(ToPut)
       IN /\ queue' = [queue EXCEPT ![w] = Append(@, pending[w])]
          /\ pending' = [pending EXCEPT ![w] = <<>>]

\* ProcessPendingPageRedoItems for the worker whose turn it is.
Put ==
    /\ ToPut # {}
    /\ LET w == Min(ToPut)
       IN /\ Len(queue[w]) < QueueSize
          /\ queue' = [queue EXCEPT ![w] = Append(@, pending[w])]
          /\ pending' = [pending EXCEPT ![w] = <<>>]

SegPut ==
    /\ dpc = "segput"
    /\ \/ Put /\ UNCHANGED dpc
       \/ /\ ToPut = {}
          /\ Goto("drain")
          /\ UNCHANGED <<pending, queue>>
    /\ UNCHANGED <<batch, ahead, log, dispatchEnd, dispatchRead, moved, full, force, ret,
                   after, txnPending, proc, transed, trying, itemVars, workerVars, replayed,
                   lastRead>>

\* WaitAllPageWorkersQueueEmpty, then the record itself, then the end of
\* DispatchRedoRecordToFile.
SegApply ==
    /\ dpc = "drain"
    /\ \A w \in Workers : Idle(w)
    /\ applied' = applied \union {Len(log)}
    /\ freed' = freed \union {Len(log)}
    /\ dispatchEnd' = End(Len(log)) /\ dispatchRead' = Read(Len(log))
    /\ FlushBatch(Len(log))
    /\ UNCHANGED <<batch, ahead, log, moved, listVars, trying, queue, refCount, released,
                   workerVars, replayed, lastRead>>

-----------------------------------------------------------------------------
(* ProcessPendingRecords and ApplyReadyTxnLogRecords.                      *)

PutPending ==
    /\ dpc = "put"
    /\ Put
    /\ UNCHANGED <<batch, ahead, log, dispatchEnd, dispatchRead, moved, dpc, full, force, ret,
                   after, txnPending, proc, transed, trying, itemVars, workerVars, replayed,
                   lastRead>>

\* The queue is full: the transaction list is looked at before the next try.
PutFailed ==
    /\ dpc = "put"
    /\ ToPut # {}
    /\ Len(queue[Min(ToPut)]) = QueueSize
    /\ Apply(FALSE, "put")
    /\ UNCHANGED <<batch, ahead, log, dispatchEnd, dispatchRead, moved, full, after, listVars,
                   trying, queue, itemVars, workerVars, replayed, lastRead>>

PutDone ==
    /\ dpc = "put"
    /\ ToPut = {}
    /\ MoveTxnItemToApplyQueue
    /\ Apply(full, after)
    /\ UNCHANGED <<batch, ahead, log, dispatchEnd, dispatchRead, moved, full, after, pending,
                   trying, queue, itemVars, workerVars, replayed, lastRead>>

\* ApplyReadyTxnLogRecords returns; so does ProcessPendingRecords if it made
\* its last call of it.
Return ==
    /\ Goto(ret)
    /\ force' = FALSE
    /\ full' = (full /\ ret = "put")
    /\ ret' = "read"
    /\ after' = IF ret = "put" THEN after ELSE "read"

\* The round that follows a failed put, and that queue is empty by now.
Drained == ret = "put" /\ Idle(Min(ToPut))

\* In other modes than Drains such a round ends there.
Busy == Drained => batch \in Drains

NotBusy ==
    /\ dpc = "apply"
    /\ ~Busy
    /\ Return
    /\ UNCHANGED <<batch, ahead, log, dispatchEnd, dispatchRead, moved, listVars, trying,
                   queue, itemVars, workerVars, replayed, lastRead>>

TryTxn ==
    /\ dpc = "apply"
    /\ Busy
    /\ proc # <<>>
    /\ trying # End(Head(proc))
    /\ trying' = End(Head(proc))
    /\ UNCHANGED <<batch, ahead, log, dispatchEnd, dispatchRead, moved, startupVars, listVars,
                   queue, itemVars, workerVars, replayed, lastRead>>

\* The head of the transaction list, published as txn_trying_lsn.
Trying ==
    /\ dpc = "apply"
    /\ Busy
    /\ proc # <<>>
    /\ trying = End(Head(proc))

Ready(n) == End(n) <= GetReplayingRecPtrFromWorkers

\* ProcTxnItem.  A record shared with page workers is counted first; the item of
\* a "create" or "block" record is an LSN marker.
ProcTxnItem ==
    /\ Trying
    /\ LET n == Head(proc)
       IN /\ Ready(n)
          /\ IF Kind(n) \in {"share", "all"}
             THEN /\ refCount' = [refCount EXCEPT ![n] = @ + 1]
                  /\ Goto("meet")
                  /\ UNCHANGED <<proc, freed, applied, replayed, lastRead>>
             ELSE /\ applied' = IF Kind(n) = "txn" THEN applied \union {n} ELSE applied
                  /\ freed' = IF Kind(n) = "txn" THEN freed \union {n} ELSE freed
                  /\ proc' = Tail(proc)
                  /\ SetXLogReplayRecPtr(Read(n), End(n))
                  /\ UNCHANGED <<refCount, dpc>>
    /\ UNCHANGED <<batch, ahead, log, dispatchEnd, dispatchRead, moved, full, force, ret,
                   after, pending, txnPending, transed, trying, queue, released, workerVars>>

\* Every page worker has reached the shared record: replay it.  The item of an
\* "all" record is freed here, workers that wait for a "share" record go on.
ApplyShared ==
    /\ dpc = "meet"
    /\ LET n == Head(proc)
       IN /\ refCount[n] = ShareCount(n)
          /\ applied' = applied \union {n}
          /\ IF Kind(n) = "share"
             THEN /\ released' = released \union {n}
                  /\ Goto("leave")
                  /\ UNCHANGED <<proc, freed, replayed, lastRead>>
             ELSE /\ freed' = freed \union {n}
                  /\ proc' = Tail(proc)
                  /\ SetXLogReplayRecPtr(Read(n), End(n))
                  /\ Goto("apply")
                  /\ UNCHANGED released
    /\ UNCHANGED <<batch, ahead, log, dispatchEnd, dispatchRead, moved, full, force, ret,
                   after, pending, txnPending, transed, trying, queue, refCount, workerVars>>

\* Mutant: the last but one frees the item.
MutantUnref(n) ==
    /\ refCount' = [refCount EXCEPT ![n] = @ - 1]
    /\ freed' = IF refCount[n] <= 2 THEN freed \union {n} ELSE freed

\* The last one that leaves a shared item frees it.
Unref(n) ==
    /\ refCount' = [refCount EXCEPT ![n] = @ - 1]
    /\ freed' = IF refCount[n] = 1 THEN freed \union {n} ELSE freed

LeaveShared ==
    /\ dpc = "leave"
    /\ Unref(Head(proc))
    /\ proc' = Tail(proc)
    /\ SetXLogReplayRecPtr(Read(Head(proc)), End(Head(proc)))
    /\ Goto("apply")
    /\ UNCHANGED <<batch, ahead, log, dispatchEnd, dispatchRead, moved, full, force, ret,
                   after, pending, txnPending, transed, trying, queue, released, applied,
                   workerVars>>

\* The head of the list must wait: with forceAll the thread goes on looking and
\* reports the workers' progress, otherwise it returns.
TxnNotReady ==
    /\ Trying
    /\ ~Ready(Head(proc))
    /\ \/ /\ force
          /\ SetXLogReplayRecPtr(ReplayedReadFromWorkers, GetReplayedRecPtrFromWorkers)
          /\ UNCHANGED startupVars
       \/ /\ ~force
          /\ Return
          /\ UNCHANGED <<replayed, lastRead>>
    /\ UNCHANGED <<batch, ahead, log, dispatchEnd, dispatchRead, moved, listVars, trying,
                   queue, itemVars, workerVars>>

\* The list is empty: report what the workers have completed, up to the last
\* record dispatched; with forceAll until they have completed that one.
TxnListEmpty ==
    /\ dpc = "apply"
    /\ Busy
    /\ proc = <<>>
    /\ LET end == Min({GetReplayedRecPtrFromWorkers, dispatchEnd})
           read == IF dispatchEnd < GetReplayedRecPtrFromWorkers THEN dispatchRead
                   ELSE ReplayedReadFromWorkers
       IN /\ SetXLogReplayRecPtr(read, end)
          /\ ahead' = (ahead \/ Drained)
          /\ IF force /\ end < dispatchEnd
             THEN UNCHANGED startupVars
             ELSE Return
    /\ UNCHANGED <<batch, log, dispatchEnd, dispatchRead, moved, listVars, trying, queue,
                   itemVars, workerVars>>

\* CheckDispatchCount finds the load of the workers uneven: everything is replayed
\* and the pages are spread anew (dispatchRandom).
CheckDispatchCount ==
    /\ dpc = "check"
    /\ Apply(TRUE, "respread")
    /\ UNCHANGED <<batch, ahead, log, dispatchEnd, dispatchRead, moved, full, after, listVars,
                   trying, queue, itemVars, workerVars, replayed, lastRead>>

Respread ==
    /\ dpc = "respread"
    /\ moved' = Len(log)
    /\ Goto("read")
    /\ UNCHANGED <<batch, ahead, log, dispatchEnd, dispatchRead, full, force, ret, after,
                   listVars, trying, queue, itemVars, workerVars, replayed, lastRead>>

-----------------------------------------------------------------------------
(* The startup thread: no record to read, and the end of recovery.         *)

\* ProcTxnWorkLoad(all), then on to where.
ProcTxnWorkLoad(all, where) ==
    IF batch
    THEN Flush(all, where)
    ELSE Apply(all, where) /\ UNCHANGED <<full, after>>

\* ReadRecord waits for the next record.
WaitForRecord ==
    /\ dpc = "read"
    /\ \E all \in BOOLEAN : ProcTxnWorkLoad(all, "read")
    /\ UNCHANGED <<batch, ahead, log, dispatchEnd, dispatchRead, moved, listVars, trying,
                   queue, itemVars, workerVars, replayed, lastRead>>

\* Mutant: what is pending is forgotten at the end of the log.
MutantEndOfLog ==
    /\ dpc = "read"
    /\ Goto("finish")
    /\ UNCHANGED <<batch, ahead, log, dispatchEnd, dispatchRead, moved, full, force, ret,
                   after, listVars, trying, queue, itemVars, workerVars, replayed, lastRead>>

\* ReadRecord gives up: the log ends.
EndOfLog ==
    /\ dpc = "read"
    /\ ProcTxnWorkLoad(FALSE, "finish")
    /\ UNCHANGED <<batch, ahead, log, dispatchEnd, dispatchRead, moved, listVars, trying,
                   queue, itemVars, workerVars, replayed, lastRead>>

\* The main redo loop breaks at the recovery target.
StopAtTarget ==
    /\ dpc = "read"
    /\ batch \in Targets
    /\ Goto("finish")
    /\ UNCHANGED <<batch, ahead, log, dispatchEnd, dispatchRead, moved, full, force, ret,
                   after, listVars, trying, queue, itemVars, workerVars, replayed, lastRead>>

\* SendRecoveryEndMarkToWorkersAndWaitForFinish.
Finish ==
    /\ dpc = "finish"
    /\ Apply(TRUE, "endput")
    /\ UNCHANGED <<batch, ahead, log, dispatchEnd, dispatchRead, moved, full, after, listVars,
                   trying, queue, itemVars, workerVars, replayed, lastRead>>

\* The workers that have no end mark yet.
ToEnd == {w \in Workers : wpc[w] # "exit" /\ ~(\E i \in DOMAIN queue[w] : queue[w][i] = <<>>)}

SendPageRedoEndMark ==
    /\ dpc = "endput"
    /\ ToEnd # {}
    /\ LET w == Min(ToEnd)
       IN \/ /\ Len(queue[w]) < QueueSize
             /\ queue' = [queue EXCEPT ![w] = Append(@, <<>>)]
             /\ UNCHANGED <<dpc, force, ret>>
          \/ /\ Len(queue[w]) = QueueSize
             /\ Apply(FALSE, "endput")
             /\ UNCHANGED queue
    /\ UNCHANGED <<batch, ahead, log, dispatchEnd, dispatchRead, moved, full, after, listVars,
                   trying, itemVars, workerVars, replayed, lastRead>>

EndMarksSent ==
    /\ dpc = "endput"
    /\ ToEnd = {}
    /\ Apply(TRUE, "join")
    /\ UNCHANGED <<batch, ahead, log, dispatchEnd, dispatchRead, moved, full, after, listVars,
                   trying, queue, itemVars, workerVars, replayed, lastRead>>

Join ==
    /\ dpc = "join"
    /\ \A w \in Workers : wpc[w] = "exit"
    /\ Goto("done")
    /\ UNCHANGED <<batch, ahead, log, dispatchEnd, dispatchRead, moved, full, force, ret,
                   after, listVars, trying, queue, itemVars, workerVars, replayed, lastRead>>

-----------------------------------------------------------------------------
(* A page worker: ApplyRedoLoop, ApplyProcHead and ApplyAndFreeRedoItem.   *)

WGoto(w, l) == wpc' = [wpc EXCEPT ![w] = l]

\* Mutant: the start of an earlier record stays with the end of this one.
MutantSetCompletedReadEndPtr(w, n) ==
    /\ completed' = [completed EXCEPT ![w] = End(n)]
    /\ UNCHANGED completedRead

SetCompletedReadEndPtr(w, n) ==
    /\ completed' = [completed EXCEPT ![w] = End(n)]
    /\ completedRead' = [completedRead EXCEPT ![w] = Read(n)]

\* What is left of the list at the head of the queue.
List(w) == IF wpc[w] = "top" THEN Head(queue[w]) ELSE rest[w]

\* An LSN marker, or a record of this worker alone.
Alone(n) == \/ Kind(n) = "txn"
            \/ Kind(n) \in {"page", "create", "clean", "block"} /\ Cardinality(log[n].to) = 1

Fetch(w) ==
    /\ \/ wpc[w] = "top" /\ ~Idle(w)
       \/ wpc[w] = "next"
    /\ List(w) # <<>>
    /\ LET n == Head(List(w))
       IN /\ item' = [item EXCEPT ![w] = n]
          /\ replaying' = [replaying EXCEPT ![w] = Read(n)]
          /\ WGoto(w, IF Alone(n) THEN "apply" ELSE "reach")
    /\ rest' = [rest EXCEPT ![w] = Tail(List(w))]
    /\ UNCHANGED <<batch, ahead, log, dispatchEnd, dispatchRead, moved, startupVars, listVars,
                   trying, queue, itemVars, completed, completedRead, snap, replayed,
                   lastRead>>

Pop(w) ==
    /\ wpc[w] = "next"
    /\ rest[w] = <<>>
    /\ queue' = [queue EXCEPT ![w] = Tail(@)]
    /\ WGoto(w, "top")
    /\ UNCHANGED <<batch, ahead, log, dispatchEnd, dispatchRead, moved, startupVars, listVars,
                   trying, itemVars, rest, item, replaying, completed, completedRead, snap,
                   replayed, lastRead>>

\* The end mark is taken from the queue and the worker leaves its loop.
Exit(w) ==
    /\ wpc[w] = "top"
    /\ ~Idle(w)
    /\ Head(queue[w]) = <<>>
    /\ queue' = [queue EXCEPT ![w] = Tail(@)]
    /\ WGoto(w, "exit")
    /\ UNCHANGED <<batch, ahead, log, dispatchEnd, dispatchRead, moved, startupVars, listVars,
                   trying, itemVars, rest, item, replaying, completed, completedRead, snap,
                   replayed, lastRead>>

\* wait_valid_snapshot: transed_txn_lsn is read once, the rest in every round.
\* That standbyXmin is old enough is the case of a "page" record.
MustWait(w) == Kind(item[w]) = "clean" /\ batch /\ ~full

ReadTransed(w) ==
    /\ wpc[w] = "apply"
    /\ MustWait(w)
    /\ snap[w] = 0
    /\ transed # 0
    /\ snap' = [snap EXCEPT ![w] = transed]
    /\ UNCHANGED <<batch, ahead, log, dispatchEnd, dispatchRead, moved, startupVars, listVars,
                   trying, queue, itemVars, wpc, rest, item, replaying, completed,
                   completedRead, replayed, lastRead>>

\* Mutant: no look at the record the startup thread tries.
MutantValidSnapshot(w) ==
    \/ ~MustWait(w)
    \/ transed = 0
    \/ snap[w] # 0 /\ snap[w] <= replayed

ValidSnapshot(w) ==
    \/ ~MustWait(w)
    \/ transed = 0
    \/ snap[w] # 0 /\ snap[w] <= replayed
    \/ trying >= End(item[w])

\* ApplySinglePageRecord, or the free of an LSN marker.  Nobody else looks at the
\* item, so apply, free and SetCompletedReadEndPtr are one step.
ApplySingle(w) ==
    /\ wpc[w] = "apply"
    /\ ValidSnapshot(w)
    /\ LET n == item[w]
       IN /\ applied' = IF Kind(n) = "txn" THEN applied ELSE applied \union {n}
          /\ freed' = IF Kind(n) = "txn" THEN freed ELSE freed \union {n}
          /\ SetCompletedReadEndPtr(w, n)
          /\ WGoto(w, IF Kind(n) = "block" THEN "block" ELSE "next")
    /\ snap' = [snap EXCEPT ![w] = 0]
    /\ UNCHANGED <<batch, ahead, log, dispatchEnd, dispatchRead, moved, startupVars, listVars,
                   trying, queue, refCount, released, rest, item, replaying, replayed,
                   lastRead>>

\* A worker arrives at a shared record.  The last one replays a record of pages;
\* the others wait for it, and for the startup thread if that is to replay it.
Reach(w) ==
    /\ wpc[w] = "reach"
    /\ LET n == item[w]
           pages == Kind(n) \in {"page", "create"}
           last == pages /\ refCount[n] + 1 = ShareCount(n)
       IN /\ refCount' = [refCount EXCEPT ![n] = @ + 1]
          /\ applied' = IF last THEN applied \union {n} ELSE applied
          /\ released' = IF last THEN released \union {n} ELSE released
          /\ WGoto(w, IF pages THEN "wait" ELSE "publish")
    /\ UNCHANGED <<batch, ahead, log, dispatchEnd, dispatchRead, moved, startupVars, listVars,
                   trying, queue, freed, rest, item, replaying, completed, completedRead,
                   snap, replayed, lastRead>>

\* ApplyMultiPageAllWorkerRecord and ApplyMultiPageShareWithTrxnRecord: the
\* worker's own part of the record is done, which it reports.
Publish(w) ==
    /\ wpc[w] = "publish"
    /\ SetCompletedReadEndPtr(w, item[w])
    /\ WGoto(w, IF Kind(item[w]) = "share" THEN "wait" ELSE "next")
    /\ UNCHANGED <<batch, ahead, log, dispatchEnd, dispatchRead, moved, startupVars, listVars,
                   trying, queue, itemVars, rest, item, replaying, snap, replayed, lastRead>>

\* The shared record has been replayed.
Leave(w) ==
    /\ wpc[w] = "wait"
    /\ LET n == item[w]
       IN /\ n \in released
          /\ Unref(n)
          /\ SetCompletedReadEndPtr(w, n)
          /\ WGoto(w, "next")
    /\ UNCHANGED <<batch, ahead, log, dispatchEnd, dispatchRead, moved, startupVars, listVars,
                   trying, queue, released, applied, rest, item, replaying, snap, replayed,
                   lastRead>>

\* Mutant: the worker does not wait for the transaction list.
MutantUnblock(w) ==
    /\ wpc[w] = "block"
    /\ WGoto(w, "next")
    /\ UNCHANGED <<batch, ahead, log, dispatchEnd, dispatchRead, moved, startupVars, listVars,
                   trying, queue, itemVars, rest, item, replaying, completed, completedRead,
                   snap, replayed, lastRead>>

\* ApplyMultiPageSyncWithTrxnRecord: the transaction list has passed the record.
Unblock(w) ==
    /\ wpc[w] = "block"
    /\ replayed >= End(item[w])
    /\ WGoto(w, "next")
    /\ UNCHANGED <<batch, ahead, log, dispatchEnd, dispatchRead, moved, startupVars, listVars,
                   trying, queue, itemVars, rest, item, replaying, completed, completedRead,
                   snap, replayed, lastRead>>

-----------------------------------------------------------------------------
\* Recovery starts at the first record, as if the one before it had been dispatched.
\* The start of the last record replayed is the redo point of a checkpoint or, if that
\* was a shutdown checkpoint, the start of its record.
Init ==
    /\ batch \in Modes
    /\ log = <<>>
    /\ dispatchEnd = 1 /\ dispatchRead = 0 /\ ahead = FALSE
    /\ replayed = 1 /\ lastRead \in {0, 1}
    /\ moved = 0
    /\ dpc = "read" /\ full = FALSE /\ force = FALSE
    /\ ret = "read" /\ after = "read"
    /\ pending = [w \in Workers |-> <<>>]
    /\ txnPending = <<>> /\ proc = <<>>
    /\ transed = 0 /\ trying = 0
    /\ queue = [w \in Workers |-> <<>>]
    /\ refCount = [n \in Lsn |-> 0]
    /\ released = {} /\ freed = {} /\ applied = {}
    /\ wpc = [w \in Workers |-> "top"]
    /\ rest = [w \in Workers |-> <<>>]
    /\ item = [w \in Workers |-> 0]
    /\ replaying = [w \in Workers |-> 0]
    /\ completed = [w \in Workers |-> 0] /\ completedRead = [w \in Workers |-> 0]
    /\ snap = [w \in Workers |-> 0]

Startup ==
    \/ Dispatch \/ DealWithSegpageSyncRecord
    \/ SegPut \/ SegApply
    \/ PutPending \/ PutFailed \/ PutDone
    \/ NotBusy \/ TryTxn \/ ProcTxnItem \/ ApplyShared \/ LeaveShared
    \/ TxnNotReady \/ TxnListEmpty
    \/ CheckDispatchCount \/ Respread
    \/ WaitForRecord \/ EndOfLog \/ StopAtTarget
    \/ Finish \/ SendPageRedoEndMark \/ EndMarksSent \/ Join

Worker(w) ==
    \/ Fetch(w) \/ Pop(w) \/ Exit(w)
    \/ ReadTransed(w) \/ ApplySingle(w)
    \/ Reach(w) \/ Publish(w) \/ Leave(w) \/ Unblock(w)

\* Recovery is over.
Done == dpc = "done" /\ UNCHANGED vars

Next == Startup \/ (\E w \in Workers : Worker(w)) \/ Done

Spec == Init /\ [][Next]_vars

\* Every thread goes on: the waits of both kinds of threads are busy loops.
FairSpec == Spec /\ WF_vars(Startup) /\ \A w \in Workers : WF_vars(Worker(w))

-----------------------------------------------------------------------------
StartupStep == {"read", "put", "apply", "meet", "leave", "segput", "drain", "check",
                "respread", "finish", "endput", "join", "done"}

TypeOK ==
    /\ batch \in BOOLEAN
    /\ log \in Seq(Record) /\ Len(log) <= MaxLsn
    /\ dpc \in StartupStep
    /\ full \in BOOLEAN /\ force \in BOOLEAN
    /\ ret \in StartupStep /\ after \in StartupStep
    /\ moved \in 0..MaxLsn
    /\ pending \in [Workers -> Seq(Lsn)]
    /\ txnPending \in Seq(Lsn) /\ proc \in Seq(Lsn)
    /\ queue \in [Workers -> Seq(Seq(Lsn))]
    /\ \A w \in Workers : Len(queue[w]) <= QueueSize
    /\ refCount \in [Lsn -> 0..(NumWorkers + 1)]
    /\ released \subseteq Lsn /\ freed \subseteq Lsn /\ applied \subseteq Lsn
    /\ wpc \in [Workers -> {"top", "next", "apply", "reach", "publish", "wait", "block", "exit"}]
    /\ rest \in [Workers -> Seq(Lsn)]
    /\ item \in [Workers -> 0..MaxLsn]
    /\ replaying \in [Workers -> 0..MaxLsn]
    /\ \A p \in {dispatchEnd, dispatchRead, replayed, lastRead, transed, trying} :
          p \in 0..(MaxLsn + 1)
    /\ completed \in [Workers -> 0..(MaxLsn + 1)]
    /\ completedRead \in [Workers -> 0..MaxLsn]
    /\ snap \in [Workers -> 0..(MaxLsn + 1)]
    /\ ahead \in BOOLEAN

\* A record that the startup thread waits for before it reads on: one that needs a
\* full sync, a segment-page synchronisation record, the last record before pages
\* are spread anew.
Barrier(n) == log[n].sync \/ Kind(n) = "seg" \/ n = moved

\* The records that must be replayed before record n: all earlier ones for a record
\* that the startup thread replays, all up to a barrier, and the ones on a page
\* worker of record n (which does not wait for a checkpoint).
Earlier(n) ==
    { m \in 1..(n - 1) :
        \/ Kind(n) \in {"txn", "share", "all", "seg"}
        \/ \E b \in m..(n - 1) : Barrier(b)
        \/ Kind(m) # "all" /\ log[m].to \intersect log[n].to # {} }

\* A record is replayed after the records it depends on, whatever thread replays
\* them: dispatcher.cpp hands dependent records to a common worker or to the
\* transaction list, and that waits for the page workers.
RedoInOrder == \A n \in applied : Earlier(n) \subseteq applied

\* What follows a "block" record on its page worker is replayed only after every
\* record before that one, on whatever thread (ApplyMultiPageSyncWithTrxnRecord).
BlockIsBarrier ==
    \A n \in applied : \A m \in 1..(n - 1) :
        Kind(m) = "block" /\ log[m].to \intersect log[n].to # {} => 1..m \subseteq applied

\* lastReplayedEndRecPtr is the end of the last record replayed: the position that
\* the readers of the standby and the primary see never runs ahead of what has
\* been replayed (SetXLogReplayRecPtr and its callers).
NeverAhead == \A n \in 1..Len(log) : End(n) <= replayed => n \in applied

\* The same until a drained round reports the position of a record that no worker
\* has yet.
ReplayedIsTruth == ~ahead => NeverAhead

Elements(s) == {s[i] : i \in DOMAIN s}

\* The items a page worker has in its lists or works on.
Holds(w) ==
    Elements(rest[w]) \union Elements(pending[w])
    \union (UNION {Elements(queue[w][i]) : i \in
                    IF wpc[w] = "top" THEN DOMAIN queue[w] ELSE DOMAIN queue[w] \ {1}})
    \union (IF wpc[w] \in {"apply", "reach", "publish", "wait"} THEN {item[w]} ELSE {})

\* An item that was given to FreeRedoItem, and may carry another record by then,
\* is in no list and in no thread's hands (the counts of ApplyMultiPageRecord,
\* ApplyReadyTxnShareLogRecords and ApplyReadyAllShareLogRecords).
ItemLifetime ==
    \A n \in freed :
        /\ n \in Elements(proc) \union Elements(txnPending) => Kind(n) \in {"create", "block"}
        /\ \A w \in Workers : n \in Holds(w) => Kind(n) = "txn"

\* When recovery is over every record that was read has been replayed and its item
\* freed (SendRecoveryEndMarkToWorkersAndWaitForFinish).
FinishComplete == dpc = "done" => applied = 1..Len(log) /\ freed = applied

\* Neither the start nor the end of the last record replayed ever moves back, although
\* the end given is compared with the start that was stored: whichever thread's pair
\* SetXLogReplayRecPtr is given, its two halves are of one record.
ReplayMonotone == [][replayed' >= replayed /\ lastRead' >= lastRead]_vars

\* Every record that is read is replayed in the end: no wait of a page worker, of the
\* startup thread or for a full queue lasts for ever.
AllReplayed == <>[](applied = 1..Len(log))
=============================================================================

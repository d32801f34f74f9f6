----------------------- MODULE ParallelRedoOrderProofs ----------------------
(***************************************************************************)
(* Proofs about ParallelRedo: the order of replay, the replay position and *)
(* the life of the items, for any number of page workers, any length of    *)
(* queues and any log.                                                     *)
(*                                                                         *)
(* What is proved here holds without batches, and with them unless         *)
(* recovery stops at a target or a round looks at the transaction list     *)
(* while a queue that was full has been emptied: Unbroken.                 *)
(***************************************************************************)
EXTENDS ParallelRedoProofs

Unbroken == TRUE \notin Targets /\ TRUE \notin Drains

-----------------------------------------------------------------------------
(* Where the startup thread is.                                            *)

Applying == dpc \in {"apply", "meet", "leave"}

\* ProcessPendingRecords has lists to put.
PutPhase == dpc = "put" \/ (Applying /\ ret = "put")

\* The page workers and the transaction worker have nothing pending.
Flushed == txnPending = <<>> /\ \A w \in Workers : pending[w] = <<>>

FlushPoint ==
    \/ Applying /\ ret # "put"
    \/ dpc \in {"drain", "check", "respread", "finish", "endput", "join", "done"}
    \/ dpc = "read" /\ ~batch

\* A segment-page synchronisation record waits for the page workers.
SegPhase ==
    \/ dpc \in {"segput", "drain"}
    \/ PutPhase /\ after = "drain"
    \/ Applying /\ ret = "drain"

FlushInv ==
    /\ FlushPoint => Flushed
    /\ dpc = "segput" => txnPending = <<>>
    /\ dpc \in {"segput", "drain", "join", "done"} => proc = <<>>

PhaseInv ==
    /\ Applying /\ ret = "put" => ~force /\ ToPut # {}
    /\ Applying /\ ret \in {"drain", "respread", "join"} => force
    /\ PutPhase => after \in {"read", "check", "finish", "drain"} /\ (after = "drain" => full)

\* The log ends with the last record dispatched, but for a record of segment pages
\* that waits.
EndInv ==
    /\ dispatchEnd = IF SegPhase THEN Len(log) ELSE Len(log) + 1
    /\ SegPhase => Len(log) \in 1..Len(log) /\ Kind(Len(log)) = "seg"

LEMMA EmptyPending == (\A w \in Workers : pending[w] = <<>>) <=> ToPut = {}
  BY DEF ToPut

LEMMA PhaseStep ==
    ASSUME TypeInv, ReturnInv, PhaseInv, Next
    PROVE  PhaseInv'
<1>. USE DEF PhaseInv, PutPhase, Applying, Goto, Flush, Apply, Return, FlushBatch, startupVars
<1>1. CASE Dispatch \/ DealWithSegpageSyncRecord
  BY <1>1 DEF Dispatch, DealWithSegpageSyncRecord
<1>2. CASE SegPut \/ SegApply
  BY <1>2 DEF SegPut, SegApply
<1>3. CASE PutPending
  BY <1>3 DEF PutPending
<1>4. CASE PutFailed \/ PutDone
  <2>1. ToPut' = ToPut
    BY <1>4 DEF PutFailed, PutDone, ToPut, listVars
  <2>. QED
    BY <1>4, <2>1 DEF PutFailed, PutDone
<1>5. CASE NotBusy \/ TxnNotReady \/ TxnListEmpty
  <2>1. ToPut' = ToPut
    BY <1>5 DEF NotBusy, TxnNotReady, TxnListEmpty, ToPut, listVars
  <2>2. dpc = "apply" /\ (Return \/ UNCHANGED startupVars)
    BY <1>5 DEF NotBusy, TxnNotReady, TxnListEmpty, Trying
  <2>3. CASE Return /\ ret = "put"
    <3>1. full' = full
      BY <2>3 DEF TypeInv
    <3>2. dpc' = "put" /\ after' = after
      BY <2>3
    <3>. QED
      BY <2>2, <3>1, <3>2
  <2>4. CASE Return /\ ret # "put"
    <3>1. dpc' \notin {"put", "apply", "meet", "leave"}
      BY <2>4 DEF ReturnInv, ReturnPoint
    <3>. QED
      BY <3>1
  <2>5. CASE UNCHANGED startupVars
    BY <2>1, <2>5
  <2>. QED
    BY <2>2, <2>3, <2>4, <2>5
<1>6. CASE TryTxn \/ ProcTxnItem \/ ApplyShared \/ LeaveShared
  <2>1. ToPut' = ToPut /\ UNCHANGED <<full, force, ret, after>> /\ Applying /\ Applying'
    BY <1>6 DEF TryTxn, ProcTxnItem, ApplyShared, LeaveShared, ToPut, listVars, Trying
  <2>. QED
    BY <2>1
<1>7. CASE CheckDispatchCount \/ Respread
  BY <1>7 DEF CheckDispatchCount, Respread
<1>8. CASE WaitForRecord \/ EndOfLog \/ StopAtTarget
  BY <1>8 DEF WaitForRecord, EndOfLog, StopAtTarget, ProcTxnWorkLoad
<1>9. CASE Finish \/ EndMarksSent \/ Join
  BY <1>9 DEF Finish, EndMarksSent, Join
<1>10. CASE SendPageRedoEndMark
  BY <1>10 DEF SendPageRedoEndMark
<1>11. CASE (\E w \in Workers : Worker(w)) \/ Done
  <2>1. UNCHANGED <<dpc, full, force, ret, after, pending>>
    BY <1>11, WorkerSame DEF listVars, Done, vars
  <2>. QED
    BY <2>1 DEF ToPut
<1>. QED
  BY <1>1, <1>2, <1>3, <1>4, <1>5, <1>6, <1>7, <1>8, <1>9, <1>10, <1>11 DEF Next, Startup

LEMMA FlushStep ==
    ASSUME Unbroken, TypeInv, ReturnInv, PhaseInv, FlushInv, Next
    PROVE  FlushInv'
<1>. USE DEF FlushInv, FlushPoint, Applying, Goto, Flush, Apply, Return, FlushBatch, startupVars
<1>1. CASE Dispatch
  BY <1>1 DEF Dispatch
<1>2. CASE DealWithSegpageSyncRecord
  BY <1>2 DEF DealWithSegpageSyncRecord, MoveTxnItemToApplyQueue
<1>3. CASE SegPut
  BY <1>3, EmptyPending DEF SegPut, Flushed
<1>4. CASE SegApply
  BY <1>4 DEF SegApply, Flushed, listVars
<1>5. CASE PutPending \/ PutFailed
  BY <1>5 DEF PutPending, PutFailed
<1>6. CASE PutDone
  BY <1>6, EmptyPending DEF PutDone, Flushed, MoveTxnItemToApplyQueue
<1>7. CASE NotBusy \/ TxnNotReady \/ TxnListEmpty
  <2>1. UNCHANGED <<batch, pending, txnPending, proc>> /\ dpc = "apply"
    BY <1>7 DEF NotBusy, TxnNotReady, TxnListEmpty, Trying, listVars
  <2>2. \/ UNCHANGED startupVars
        \/ Return /\ (ret = "put" \/ ~force \/ proc = <<>>)
    BY <1>7 DEF NotBusy, TxnNotReady, TxnListEmpty, Trying, Busy, Drained
  <2>. QED
    BY <2>1, <2>2 DEF ReturnInv, ReturnPoint, PhaseInv, Flushed
<1>8. CASE TryTxn \/ ProcTxnItem \/ ApplyShared \/ LeaveShared
  <2>1. UNCHANGED <<batch, pending, txnPending, ret>> /\ Applying /\ Applying'
    BY <1>8 DEF TryTxn, ProcTxnItem, ApplyShared, LeaveShared, listVars, Trying
  <2>. QED
    BY <2>1 DEF Flushed
<1>9. CASE CheckDispatchCount \/ Respread
  BY <1>9 DEF CheckDispatchCount, Respread, Flushed, listVars
<1>10. CASE WaitForRecord \/ EndOfLog \/ StopAtTarget
  BY <1>10 DEF WaitForRecord, EndOfLog, StopAtTarget, ProcTxnWorkLoad, Flushed, listVars, Unbroken
<1>11. CASE Finish \/ EndMarksSent \/ Join
  BY <1>11 DEF Finish, EndMarksSent, Join, Flushed, listVars
<1>12. CASE SendPageRedoEndMark
  BY <1>12 DEF SendPageRedoEndMark, Flushed, listVars
<1>13. CASE (\E w \in Workers : Worker(w)) \/ Done
  <2>1. UNCHANGED <<batch, dpc, ret, pending, txnPending, proc>>
    BY <1>13, WorkerSame DEF listVars, Done, vars
  <2>. QED
    BY <2>1 DEF Flushed
<1>. QED
  BY <1>1, <1>2, <1>3, <1>4, <1>5, <1>6, <1>7, <1>8, <1>9, <1>10, <1>11, <1>12, <1>13
     DEF Next, Startup

LEMMA EndStep ==
    ASSUME TypeInv, ReturnInv, PhaseInv, EndInv, Next
    PROVE  EndInv'
<1>. USE DEF EndInv, SegPhase, PutPhase, Applying, Goto, Flush, Apply, Return, FlushBatch, startupVars
<1>0. Len(log) \in Nat
  BY DEF TypeInv
<1>1. CASE Dispatch
  <2>1. Len(log') = Len(log) + 1 /\ dispatchEnd' = (Len(log) + 1) + 1
    BY <1>1, NextRecordType DEF Dispatch, End
  <2>2. ~SegPhase'
    BY <1>1 DEF Dispatch
  <2>. QED
    BY <2>1, <2>2
<1>2. CASE DealWithSegpageSyncRecord
  <2>1. PICK r \in NextRecords : r.kind = "seg" /\ log' = Append(log, r)
    BY <1>2 DEF DealWithSegpageSyncRecord
  <2>2. Len(log') = Len(log) + 1 /\ log'[Len(log) + 1] = r
    BY <2>1, NextRecordType
  <2>3. SegPhase' /\ ~SegPhase /\ dispatchEnd' = dispatchEnd
    BY <1>2 DEF DealWithSegpageSyncRecord
  <2>. QED
    BY <1>0, <2>1, <2>2, <2>3 DEF Kind
<1>3. CASE SegApply
  <2>1. ~SegPhase' /\ dispatchEnd' = Len(log) + 1 /\ log' = log
    BY <1>3 DEF SegApply, End
  <2>. QED
    BY <2>1
<1>4. ASSUME SegPhase' <=> SegPhase, UNCHANGED <<log, dispatchEnd>> PROVE EndInv'
  BY <1>4 DEF Kind
<1>5. CASE SegPut \/ PutPending \/ PutFailed \/ PutDone
  BY <1>4, <1>5 DEF SegPut, PutPending, PutFailed, PutDone, PhaseInv
<1>6. CASE NotBusy \/ TxnNotReady \/ TxnListEmpty
  <2>1. dpc = "apply" /\ (Return \/ UNCHANGED startupVars) /\ UNCHANGED <<log, dispatchEnd>>
    BY <1>6 DEF NotBusy, TxnNotReady, TxnListEmpty, Trying
  <2>2. SegPhase' <=> SegPhase
    BY <2>1 DEF ReturnInv, ReturnPoint
  <2>. QED
    BY <1>4, <2>1, <2>2
<1>7. CASE TryTxn \/ ProcTxnItem \/ ApplyShared \/ LeaveShared
  <2>1. UNCHANGED <<log, dispatchEnd, ret, after>> /\ Applying /\ Applying'
    BY <1>7 DEF TryTxn, ProcTxnItem, ApplyShared, LeaveShared, Trying
  <2>. QED
    BY <1>4, <2>1
<1>8. CASE CheckDispatchCount \/ Respread
  BY <1>4, <1>8 DEF CheckDispatchCount, Respread
<1>9. CASE WaitForRecord \/ EndOfLog \/ StopAtTarget
  BY <1>4, <1>9 DEF WaitForRecord, EndOfLog, StopAtTarget, ProcTxnWorkLoad
<1>10. CASE Finish \/ EndMarksSent \/ Join
  BY <1>4, <1>10 DEF Finish, EndMarksSent, Join
<1>11. CASE SendPageRedoEndMark
  BY <1>4, <1>11 DEF SendPageRedoEndMark
<1>12. CASE (\E w \in Workers : Worker(w)) \/ Done
  <2>1. UNCHANGED <<dpc, ret, after, log, dispatchEnd>>
    BY <1>12, WorkerSame DEF Done, vars
  <2>. QED
    BY <1>4, <2>1
<1>. QED
  BY <1>1, <1>2, <1>3, <1>5, <1>6, <1>7, <1>8, <1>9, <1>10, <1>11, <1>12 DEF Next, Startup

-----------------------------------------------------------------------------
(* What is pending comes after what the workers were given.                *)

Putting == PutPhase \/ dpc = "segput"

InBatch(p) == p \in Elements(txnPending) \/ \E v \in Workers : p \in Elements(pending[v])

\* Record m was put in the queue of worker w.
Given(w, m) == m \in 1..Len(log) /\ w \in Recipients(log[m]) /\ m \notin Elements(pending[w])

\* A worker that has not got its part of the batch yet was given only what comes
\* before the batch.  So was every worker when nothing is being put.
GivenInv ==
    \A w \in Workers : pending[w] # <<>> \/ ~Putting =>
        \A m, p \in Lsn : Given(w, m) /\ InBatch(p) => m < p

\* The records of the transaction list come before what is pending, or before all
\* that a worker with something pending has not got.
Ahead(n) == \A v \in Workers : \A p \in Elements(pending[v]) : n < p

Amid(n) ==
    /\ batch /\ Putting
    /\ \A w \in Workers : pending[w] # <<>> => \A m \in Lsn : Given(w, m) => m < n

ProcInv == \A n \in Elements(proc) : Ahead(n) \/ Amid(n)

\* Without batches only the record read last is pending.
LastInv == ~batch => \A p : InBatch(p) => p = Len(log)

LEMMA FlushedBatch ==
    ASSUME Flushed
    PROVE  GivenInv /\ ProcInv /\ LastInv /\ \A p : ~InBatch(p)
<1>1. \A p : ~InBatch(p)
  BY NoElements DEF Flushed, InBatch
<1>2. \A w \in Workers : Elements(pending[w]) = {}
  BY NoElements DEF Flushed
<1>. QED
  BY <1>1, <1>2 DEF GivenInv, ProcInv, LastInv, Ahead

LEMMA FlushedBatchNext ==
    ASSUME Flushed'
    PROVE  GivenInv' /\ ProcInv' /\ LastInv'
<1>1. \A p : ~InBatch(p)'
  BY NoElements DEF Flushed, InBatch
<1>2. \A w \in Workers : Elements(pending'[w]) = {}
  BY NoElements DEF Flushed
<1>3. GivenInv'
  BY <1>1 DEF GivenInv
<1>4. ProcInv'
  BY <1>2 DEF ProcInv, Ahead
<1>5. LastInv'
  BY <1>1 DEF LastInv
<1>. QED
  BY <1>3, <1>4, <1>5

\* A step that leaves what is pending, and does not end a round of puts.
LEMMA BatchFrame ==
    ASSUME GivenInv, ProcInv, LastInv, UNCHANGED <<batch, log, pending, txnPending>>,
           Elements(proc') \subseteq Elements(proc), Putting => Putting'
    PROVE  GivenInv' /\ ProcInv' /\ LastInv'
<1>1. \A p : InBatch(p)' <=> InBatch(p)
  BY DEF InBatch
<1>2. \A w, m : Given(w, m)' <=> Given(w, m)
  BY DEF Given, Recipients
<1>3. GivenInv'
  BY <1>1, <1>2 DEF GivenInv
<1>4. \A n : Ahead(n) => Ahead(n)'
  BY DEF Ahead
<1>5. \A n : Amid(n) => Amid(n)'
  BY <1>2 DEF Amid
<1>6. ProcInv'
  BY <1>4, <1>5 DEF ProcInv
<1>7. LastInv'
  BY <1>1 DEF LastInv
<1>. QED
  BY <1>3, <1>6, <1>7

LEMMA PutBatch ==
    ASSUME TypeInv, GivenInv, ProcInv, LastInv, Put, Putting, Putting',
           UNCHANGED <<batch, log, txnPending, proc>>
    PROVE  GivenInv' /\ ProcInv' /\ LastInv'
<1>1. PICK v \in Workers : pending' = [pending EXCEPT ![v] = <<>>]
  BY PutEffect
<1>2. pending'[v] = <<>> /\ \A w \in Workers \ {v} : pending'[w] = pending[w]
  BY <1>1 DEF TypeInv
<1>3. \A w \in Workers : Elements(pending'[w]) \subseteq Elements(pending[w])
  BY <1>2, NoElements
<1>4. \A p : InBatch(p)' => InBatch(p)
  BY <1>3 DEF InBatch
<1>5. \A w \in Workers : \A m : pending'[w] # <<>> => pending[w] # <<>> /\ (Given(w, m)' <=> Given(w, m))
  BY <1>2 DEF Given, Recipients
<1>6. GivenInv'
  BY <1>4, <1>5 DEF GivenInv
<1>7. \A n : Ahead(n) => Ahead(n)'
  BY <1>3 DEF Ahead
<1>8. \A n : Amid(n) => Amid(n)'
  BY <1>5 DEF Amid
<1>9. ProcInv'
  BY <1>7, <1>8 DEF ProcInv
<1>10. LastInv'
  BY <1>4 DEF LastInv
<1>. QED
  BY <1>6, <1>9, <1>10

\* At dpc = "read" nothing is being put: what is on the list comes before the batch.
LEMMA AtRead ==
    ASSUME dpc = "read", GivenInv, ProcInv
    PROVE  /\ \A w \in Workers : \A m, p \in Lsn : Given(w, m) /\ InBatch(p) => m < p
           /\ \A n \in Elements(proc) : Ahead(n)
<1>1. ~Putting
  BY DEF Putting, PutPhase, Applying
<1>. QED
  BY <1>1 DEF GivenInv, ProcInv, Amid

LEMMA DispatchBatch ==
    ASSUME TypeInv, TxnListInv, FlushInv, GivenInv, ProcInv, Dispatch
    PROVE  GivenInv' /\ ProcInv' /\ LastInv'
<1>1. PICK r \in NextRecords :
         /\ log' = Append(log, r) /\ pending' = Add(r, Len(log) + 1)
         /\ txnPending' = IF OnTxnList(r) THEN Append(txnPending, Len(log) + 1) ELSE txnPending
  BY DEF Dispatch
<1>2. PICK n : n = Len(log) + 1
  OBVIOUS
<1>3. /\ n \in Lsn /\ n \in Nat /\ Len(log) \in Nat /\ Len(log') = n /\ log'[n] = r
      /\ \A m \in 1..Len(log) : log'[m] = log[m]
  BY <1>1, <1>2, NextRecordType
<1>4. UNCHANGED <<batch, proc>> /\ dpc = "read" /\ \A s : Recipients(s)' = Recipients(s)
  BY DEF Dispatch, Recipients
<1>5. \A w \in Workers : Elements(pending'[w]) = Elements(pending[w])
                           \union IF w \in Recipients(r) THEN {n} ELSE {}
  <2>1. TAKE w \in Workers
  <2>2. CASE w \in Recipients(r)
    <3>1. pending'[w] = Append(pending[w], n) /\ pending[w] \in Seq(Lsn)
      BY <1>1, <1>2, <2>2 DEF Add, TypeInv
    <3>. QED
      BY <1>3, <2>2, <3>1, ElementsAppend
  <2>3. CASE w \notin Recipients(r)
    BY <1>1, <2>3 DEF Add
  <2>. QED
    BY <2>2, <2>3
<1>6. \A p : p \in Elements(txnPending') => p \in Elements(txnPending) \/ p = n
  <2>1. Elements(Append(txnPending, n)) = Elements(txnPending) \union {n}
    BY <1>3, ElementsAppend DEF TypeInv
  <2>. QED
    BY <1>1, <1>2, <2>1
<1>7. \A p : InBatch(p)' => InBatch(p) \/ p = n
  BY <1>5, <1>6 DEF InBatch
<1>8. \A w \in Workers : \A m : Given(w, m)' => Given(w, m) /\ m < n
  <2>1. TAKE w \in Workers
  <2>2. SUFFICES ASSUME NEW m, Given(w, m)' PROVE Given(w, m) /\ m < n
    OBVIOUS
  <2>3. m \in 1..n /\ w \in Recipients(log'[m]) /\ m \notin Elements(pending'[w])
    BY <1>3, <1>4, <2>2 DEF Given
  <2>4. m # n
    BY <1>3, <1>5, <2>3
  <2>5. m \in 1..Len(log) /\ m < n
    BY <1>2, <1>3, <2>3, <2>4
  <2>. QED
    BY <1>3, <1>5, <2>3, <2>5 DEF Given
<1>9. GivenInv'
  <2>1. ASSUME NEW w \in Workers, NEW m \in Lsn, NEW p \in Lsn, Given(w, m)', InBatch(p)'
        PROVE  m < p
    BY <1>4, <1>7, <1>8, <2>1, AtRead
  <2>. QED
    BY <2>1 DEF GivenInv
<1>10. ProcInv'
  <2>1. SUFFICES ASSUME NEW k \in Elements(proc) PROVE Ahead(k)'
    BY <1>4 DEF ProcInv
  <2>2. k < n
    BY <1>2, <1>3 DEF TxnListInv
  <2>3. Ahead(k)
    BY <1>4, AtRead
  <2>. QED
    BY <1>5, <2>2, <2>3 DEF Ahead
<1>11. LastInv'
  <2>1. SUFFICES ASSUME ~batch PROVE \A p : InBatch(p)' => p = n
    BY <1>3, <1>4 DEF LastInv
  <2>2. \A p : ~InBatch(p)
    BY <1>4, <2>1, FlushedBatch DEF FlushInv, FlushPoint
  <2>. QED
    BY <1>7, <2>2
<1>. QED
  BY <1>9, <1>10, <1>11

LEMMA SegBatch ==
    ASSUME TypeInv, TxnListInv, FlushInv, GivenInv, ProcInv, DealWithSegpageSyncRecord
    PROVE  GivenInv' /\ ProcInv' /\ LastInv'
<1>1. PICK r \in NextRecords : r.kind = "seg" /\ log' = Append(log, r)
  BY DEF DealWithSegpageSyncRecord
<1>2. PICK n : n = Len(log) + 1
  OBVIOUS
<1>3. /\ n \in Lsn /\ n \in Nat /\ Len(log) \in Nat /\ Len(log') = n /\ log'[n] = r /\ r \in Record
      /\ \A m \in 1..Len(log) : log'[m] = log[m]
  BY <1>1, <1>2, NextRecordType
<1>4. /\ UNCHANGED <<batch, pending>> /\ dpc = "read" /\ \A s : Recipients(s)' = Recipients(s)
      /\ proc' = proc \o txnPending /\ txnPending' = <<>> /\ dpc' \in {"segput", "put"}
  BY DEF DealWithSegpageSyncRecord, Recipients, MoveTxnItemToApplyQueue, Flush, Goto
<1>5. Recipients(r) = {}
  BY <1>1, <1>3 DEF Recipients, Record
<1>6. Elements(proc') = Elements(proc) \union Elements(txnPending) /\ Elements(txnPending') = {}
  BY <1>4, ElementsConcat, NoElements DEF TypeInv
<1>7. CASE ~batch
  <2>1. Flushed'
    BY <1>4, <1>7 DEF FlushInv, FlushPoint, Flushed
  <2>. QED
    BY <2>1, FlushedBatchNext
<1>8. CASE batch
  <2>1. \A p : InBatch(p)' => InBatch(p)
    BY <1>4, <1>6 DEF InBatch
  <2>2. \A w \in Workers : \A m : Given(w, m)' => Given(w, m)
    <3>1. TAKE w \in Workers
    <3>2. SUFFICES ASSUME NEW m, Given(w, m)' PROVE Given(w, m)
      OBVIOUS
    <3>3. m \in 1..n /\ w \in Recipients(log'[m]) /\ m \notin Elements(pending[w])
      BY <1>3, <1>4, <3>2 DEF Given
    <3>4. m # n
      BY <1>3, <1>5, <3>3
    <3>5. m \in 1..Len(log)
      BY <1>2, <1>3, <3>3, <3>4
    <3>. QED
      BY <1>3, <3>3, <3>5 DEF Given
  <2>3. GivenInv'
    <3>1. ASSUME NEW w \in Workers, NEW m \in Lsn, NEW p \in Lsn, Given(w, m)', InBatch(p)'
          PROVE  m < p
      BY <1>4, <2>1, <2>2, <3>1, AtRead
    <3>. QED
      BY <3>1 DEF GivenInv
  <2>4. ASSUME NEW k \in Elements(proc) PROVE Ahead(k)'
    BY <1>4, AtRead DEF Ahead
  <2>5. ASSUME NEW k \in Elements(txnPending) PROVE Amid(k)'
    <3>1. InBatch(k) /\ k \in Lsn
      BY OnListType DEF InBatch
    <3>2. \A w \in Workers : \A m \in Lsn : Given(w, m)' => m < k
      BY <1>4, <2>2, <3>1, AtRead
    <3>3. batch' /\ Putting'
      BY <1>4, <1>8 DEF Putting, PutPhase
    <3>. QED
      BY <3>2, <3>3 DEF Amid
  <2>6. ProcInv'
    BY <1>6, <2>4, <2>5 DEF ProcInv
  <2>7. LastInv'
    BY <1>4, <1>8 DEF LastInv
  <2>. QED
    BY <2>3, <2>6, <2>7
<1>. QED
  BY <1>7, <1>8 DEF TypeInv

LEMMA BatchStep ==
    ASSUME TypeInv, ReturnInv, TxnListInv, FlushInv, FlushInv', GivenInv, ProcInv, LastInv, Next
    PROVE  GivenInv' /\ ProcInv' /\ LastInv'
<1>1. CASE Dispatch \/ DealWithSegpageSyncRecord
  BY <1>1, DispatchBatch, SegBatch
<1>2. CASE FlushPoint'
  BY <1>2, FlushedBatchNext DEF FlushInv
<1>. USE DEF Putting, PutPhase, FlushPoint, Applying, Goto, Flush, Apply, Return, FlushBatch, startupVars
<1>3. CASE (SegPut \/ PutPending) /\ ~FlushPoint'
  <2>1. UNCHANGED <<batch, log, txnPending, proc, dpc>> /\ Put /\ dpc \in {"put", "segput"}
    BY <1>3 DEF SegPut, PutPending
  <2>2. Putting /\ Putting'
    BY <2>1
  <2>. QED
    BY <2>1, <2>2, PutBatch
<1>4. CASE PutDone /\ ~FlushPoint'
  <2>1. Flushed'
    BY <1>4, EmptyPending DEF PutDone, Flushed, MoveTxnItemToApplyQueue
  <2>. QED
    BY <2>1, FlushedBatchNext
<1>5. CASE (ProcTxnItem \/ ApplyShared \/ LeaveShared) /\ ~FlushPoint'
  <2>1. /\ UNCHANGED <<batch, log, pending, txnPending, ret>> /\ Applying /\ Applying'
        /\ proc # <<>> /\ (proc' = proc \/ proc' = Tail(proc))
    BY <1>5 DEF ProcTxnItem, ApplyShared, LeaveShared, Trying, TxnListInv
  <2>2. Elements(proc') \subseteq Elements(proc)
    BY <2>1, ElementsTail DEF TypeInv
  <2>. QED
    BY <2>1, <2>2, BatchFrame
<1>6. CASE (NotBusy \/ TxnNotReady \/ TxnListEmpty) /\ ~FlushPoint'
  <2>1. /\ UNCHANGED <<batch, log, pending, txnPending, proc>>
        /\ dpc = "apply" /\ (Return \/ UNCHANGED startupVars)
    BY <1>6 DEF NotBusy, TxnNotReady, TxnListEmpty, Trying, listVars
  <2>2. Putting => Putting'
    BY <2>1
  <2>. QED
    BY <2>1, <2>2, BatchFrame
<1>7. CASE (SegApply \/ TryTxn \/ PutFailed \/ CheckDispatchCount \/ Respread) /\ ~FlushPoint'
  <2>1. UNCHANGED <<batch, log, pending, txnPending, proc>> /\ (Putting => Putting')
    BY <1>7 DEF SegApply, TryTxn, PutFailed, CheckDispatchCount, Respread, listVars
  <2>. QED
    BY <2>1, BatchFrame
<1>8. CASE (WaitForRecord \/ EndOfLog \/ StopAtTarget) /\ ~FlushPoint'
  <2>1. UNCHANGED <<batch, log, pending, txnPending, proc>> /\ ~Putting
    BY <1>8 DEF WaitForRecord, EndOfLog, StopAtTarget, listVars
  <2>. QED
    BY <2>1, BatchFrame
<1>9. CASE (Finish \/ SendPageRedoEndMark \/ EndMarksSent \/ Join) /\ ~FlushPoint'
  <2>1. UNCHANGED <<batch, log, pending, txnPending, proc>> /\ ~Putting
    BY <1>9 DEF Finish, SendPageRedoEndMark, EndMarksSent, Join, listVars
  <2>. QED
    BY <2>1, BatchFrame
<1>10. CASE (\E w \in Workers : Worker(w)) \/ Done
  <2>1. UNCHANGED <<batch, log, pending, txnPending, proc, dpc, ret>>
    BY <1>10, WorkerSame DEF Done, vars, listVars
  <2>. QED
    BY <2>1, BatchFrame
<1>. QED
  BY <1>1, <1>2, <1>3, <1>4, <1>5, <1>6, <1>7, <1>8, <1>9, <1>10 DEF Next, Startup

-----------------------------------------------------------------------------
(* What has been replayed, and who is through with a record.               *)

Upto(n) == 1..n \subseteq applied

\* Worker w waits at record n, its own part of it done.
Waits(w, n) == n = item[w] /\ wpc[w] = "wait"

Met(w, n) == Passed(w, n) \/ Waits(w, n)

\* The transaction list is through with record n.
TxnDone(n) == OnTxnList(log[n]) /\ ~OnList(n)

AppliedInv(n) ==
    /\ Kind(n) # "all" => \A w \in log[n].to : Passed(w, n) => n \in applied
    /\ Kind(n) \in {"txn", "share", "all"} /\ TxnDone(n) => n \in applied
    /\ Kind(n) = "seg" /\ n < dispatchEnd => n \in applied

\* A record that page workers and the startup thread share.
SharedInv(n) ==
    /\ Kind(n) \in {"share", "all"} /\ TxnDone(n) => \A w \in log[n].to : Met(w, n)
    /\ dpc \in {"meet", "leave"} /\ AtHead(n) =>
          /\ Upto(n - 1)
          /\ \A w \in log[n].to : Met(w, n)
          /\ dpc = "leave" => n \in applied

ReleasedInv(n) ==
    n \in released =>
        /\ n \in applied /\ Kind(n) \in {"page", "create", "share"}
        /\ \A w \in log[n].to : Met(w, n)
        /\ Kind(n) = "share" => TxnDone(n) \/ (dpc = "leave" /\ AtHead(n))

\* Everyone is through with the item of record n.
Forgotten(n) ==
    /\ \A w \in log[n].to : Passed(w, n)
    /\ Kind(n) \in {"txn", "share", "all"} => TxnDone(n)
    /\ Kind(n) = "seg" => n < dispatchEnd

FreedInv(n) == n \in freed <=> Forgotten(n)

BlockInv(n) ==
    Kind(n) = "block" => \A w \in log[n].to :
        Passed(w, n) => Upto(n) \/ (n = item[w] /\ wpc[w] = "block")

\* Record n was replayed after everything before it, or by page workers that have come
\* as far.
OrderInv(n) ==
    n \in applied =>
        \/ Upto(n - 1)
        \/ Kind(n) \notin {"txn", "share", "all", "seg"} /\ \A w \in log[n].to : item[w] >= n

RecordInv ==
    /\ applied \subseteq 1..Len(log) /\ freed \subseteq 1..Len(log) /\ released \subseteq 1..Len(log)
    /\ \A n \in 1..Len(log) :
          /\ AppliedInv(n) /\ SharedInv(n) /\ ReleasedInv(n) /\ FreedInv(n)
          /\ BlockInv(n) /\ OrderInv(n)

\* The startup thread does not read on before everything is replayed.
SyncPhase == SegPhase \/ (PutPhase /\ full) \/ (Applying /\ force)

BarrierInv ==
    /\ \A n \in 1..Len(log) :
          log[n].sync \/ Kind(n) = "seg" => Upto(n) \/ (n = Len(log) /\ SyncPhase)
    /\ Upto(moved)
    /\ dpc = "respread" => Upto(Len(log))

StopInv ==
    /\ dpc \in {"join", "done"} => Upto(Len(log)) /\ \A w \in Workers : Later(w) = {}
    /\ dpc = "done" => \A w \in Workers : wpc[w] = "exit"

ReplayInv == Upto(replayed - 2) /\ (~ahead => Upto(replayed - 1))

-----------------------------------------------------------------------------
(* What the startup thread may conclude from the progress of the workers.  *)

\* Every worker has done what it can of the records before b.
Cleared(b) ==
    \A w \in Workers : \A m \in 1..Len(log) :
        m < b /\ w \in Recipients(log[m]) =>
            Passed(w, m) \/ (Waits(w, m) /\ Kind(m) = "share")

LEMMA IdleLater ==
    ASSUME RedoInv, NEW w \in Workers, Idle(w)
    PROVE  wpc[w] \in AtRest /\ Later(w) = Elements(pending[w])
<1>1. Sorted(queue[w], From(w), rest[w], pending[w]) /\ queue[w] = <<>>
  BY DEF RedoInv, ListInv, Idle
<1>2. From(w) # 2
  BY <1>1 DEF Sorted
<1>3. wpc[w] \in AtRest /\ From(w) = 1
  BY <1>2 DEF From
<1>4. Elements(rest[w]) = {}
  BY <1>1, <1>3, NoElements DEF Sorted
<1>5. Held(queue[w], 1) = {}
  BY <1>1 DEF Held
<1>. QED
  BY <1>3, <1>4, <1>5 DEF Later, Upcoming

LEMMA Progress ==
    ASSUME RedoInv, NEW b \in Nat,
           \A w \in Workers : Idle(w) \/ item[w] >= b \/ completed[w] >= b,
           \A w \in Workers : \A p \in Elements(pending[w]) : b <= p
    PROVE  Cleared(b)
<1>1. SUFFICES ASSUME NEW w \in Workers, NEW m \in 1..Len(log), m < b, w \in Recipients(log[m])
               PROVE  Passed(w, m) \/ (Waits(w, m) /\ Kind(m) = "share")
  BY DEF Cleared
<1>2. item[w] \in Nat /\ completed[w] \in Nat /\ m \in Nat
  BY LsnNat DEF RedoInv, TypeInv
<1>3. WorkerInv(w) /\ ListInv(w)
  BY DEF RedoInv
<1>4. CASE Idle(w)
  <2>1. wpc[w] \in AtRest /\ Later(w) = Elements(pending[w])
    BY <1>4, IdleLater
  <2>2. m \notin Later(w)
    <3>1. \A p \in Elements(pending[w]) : b <= p
      OBVIOUS
    <3>2. ~(b <= m)
      BY <1>1, <1>2
    <3>. QED
      BY <2>1, <3>1, <3>2
  <2>3. m <= item[w]
    BY <1>1, <1>2, <1>3, <2>2 DEF ListInv
  <2>. QED
    BY <1>2, <2>1, <2>3 DEF Passed, AtRest, InHand
<1>5. CASE item[w] >= b
  BY <1>1, <1>2, <1>5 DEF Passed
<1>6. CASE completed[w] >= b
  <2>1. m < item[w] \/ (m = item[w] /\ completed[w] = item[w] + 1)
    BY <1>1, <1>2, <1>3, <1>6 DEF WorkerInv
  <2>. QED
    BY <1>3, <2>1 DEF WorkerInv, Passed, Waits
<1>. QED
  BY <1>4, <1>5, <1>6

LEMMA RecordKinds ==
    ASSUME NEW r \in Record
    PROVE  /\ r.kind \in Kinds /\ r.to \in SUBSET Workers
           /\ r.kind \notin {"txn", "seg"} => r.to # {}
           /\ r.kind \in {"txn", "seg"} => r.to = {}
           /\ r.kind # "txn" => Recipients(r) = r.to
           /\ r.kind \in {"clean", "block"} => Cardinality(r.to) = 1
<1>1. 1 \in Workers
  <2>1. NumWorkers \in Nat /\ 1 <= NumWorkers
    BY RedoAssumption
  <2>. QED
    BY <2>1 DEF Workers
<1>2. r.kind \in {"clean", "block"} \/ Cardinality(r.to) = 1 => r.to # {}
  BY FS_EmptySet DEF Record
<1>. QED
  BY <1>1, <1>2 DEF Record, Kinds, Recipients

LEMMA LogRecord ==
    ASSUME TypeInv, NEW n \in 1..Len(log)
    PROVE  log[n] \in Record /\ n \in Lsn /\ n \in Nat /\ Len(log) \in Nat
<1>1. log \in Seq(Record) /\ Len(log) \in Nat /\ Len(log) <= MaxLsn /\ MaxLsn \in Nat
  BY LsnNat DEF TypeInv
<1>. QED
  BY <1>1, ElementOfSeq DEF Lsn

\* The records before b are replayed when the workers are through with them and none
\* is on the transaction list.
LEMMA AllBefore ==
    ASSUME RedoInv, RecordInv, NEW b \in Nat, Cleared(b), b <= dispatchEnd, b <= Len(log) + 1,
           \A m \in 1..Len(log) : m < b => ~OnList(m)
    PROVE  Upto(b - 1)
<1>1. SUFFICES ASSUME NEW m \in 1..(b - 1) PROVE m \in applied
  BY DEF Upto
<1>2. m \in 1..Len(log) /\ m < b /\ m \in Nat
  BY DEF RedoInv, TypeInv
<1>3. log[m] \in Record /\ AppliedInv(m) /\ ~OnList(m)
  BY <1>2, LogRecord DEF RedoInv, RecordInv
<1>4. CASE Kind(m) = "seg"
  <2>1. m < dispatchEnd
    BY <1>2, LsnNat DEF RedoInv, TypeInv
  <2>. QED
    BY <1>3, <1>4, <2>1 DEF AppliedInv
<1>5. CASE Kind(m) \in {"txn", "share", "all"}
  BY <1>3, <1>5 DEF AppliedInv, TxnDone, OnTxnList, Kind
<1>6. CASE Kind(m) \in {"page", "create", "clean", "block"}
  <2>1. PICK w \in log[m].to : w \in Workers /\ w \in Recipients(log[m])
    BY <1>3, <1>6, RecordKinds DEF Kind
  <2>2. Passed(w, m)
    BY <1>2, <1>6, <2>1 DEF Cleared
  <2>. QED
    BY <1>3, <1>6, <2>1, <2>2 DEF AppliedInv
<1>. QED
  BY <1>3, <1>4, <1>5, <1>6, RecordKinds DEF Kind, Kinds

LEMMA HeadLeast ==
    ASSUME RedoInv, proc # <<>>, NEW n, n = Head(proc)
    PROVE  /\ n \in Elements(proc) /\ n \in 1..Len(log) /\ n \in Nat /\ OnTxnList(log[n])
           /\ \A m \in 1..Len(log) : OnList(m) => n <= m
<1>1. proc \in Seq(Lsn) /\ proc \in Seq(Nat) /\ TypeInv /\ TxnListInv
  BY LsnSeq DEF RedoInv, TypeInv
<1>2. n \in Elements(proc) /\ Elements(proc) = {n} \union Elements(Tail(proc))
  BY <1>1, ElementsTail
<1>3. n \in 1..Len(log) /\ OnTxnList(log[n]) /\ n \in Nat
  BY <1>1, <1>2 DEF TxnListInv
<1>4. Before({n}, Elements(Tail(proc))) /\ Before({n}, Elements(txnPending))
  BY <1>1, <1>2, HeadTail DEF TxnListInv, Before
<1>. QED
  BY <1>2, <1>3, <1>4 DEF OnList, Before

\* What a worker has fetched, it was given.
LEMMA ItemGiven ==
    ASSUME RedoInv, NEW w \in Workers, item[w] # 0
    PROVE  Given(w, item[w]) /\ item[w] \in Lsn
<1>1. item[w] \in 1..Len(log) /\ w \in Recipients(log[item[w]])
  BY DEF RedoInv, WorkerInv
<1>2. item[w] \notin Later(w)
  BY <1>1 DEF RedoInv, ListInv, TypeInv
<1>3. item[w] \notin Elements(pending[w])
  BY <1>2 DEF Later, Upcoming
<1>. QED
  BY <1>1, <1>3, LogRecord DEF Given, RedoInv

LEMMA PendingLsn ==
    ASSUME RedoInv, NEW w \in Workers
    PROVE  /\ Elements(pending[w]) \in SUBSET Lsn /\ Elements(pending[w]) \in SUBSET Nat
           /\ item[w] \in Nat /\ completed[w] \in Nat /\ completed[w] <= item[w] + 1
           /\ replaying[w] = item[w]
<1>1. pending[w] \in Seq(Lsn)
  BY DEF RedoInv, TypeInv
<1>2. Elements(pending[w]) \in SUBSET Lsn
  BY <1>1, ElementsNat
<1>3. item[w] \in Nat /\ completed[w] \in Nat
  BY LsnNat DEF RedoInv, TypeInv
<1>. QED
  BY <1>2, <1>3, LsnNat DEF RedoInv, WorkerInv

\* A round that looks at the transaction list while lists wait to be put, in batch
\* mode: the worker that is next is busy with what comes before the batch.
LEMMA NextBusy ==
    ASSUME Unbroken, RedoInv, PhaseInv, dpc = "apply", ret = "put", Busy, batch \/ ~Drained
    PROVE  \E w \in Workers : pending[w] # <<>> /\ ~Idle(w)
<1>1. ToPut # {} /\ ToPut \in SUBSET Nat
  BY WorkersNat DEF PhaseInv, Applying, ToPut
<1>2. Min(ToPut) \in ToPut
  BY <1>1, Least
<1>3. batch \in BOOLEAN
  BY DEF RedoInv, TypeInv
<1>4. ~Idle(Min(ToPut))
  BY <1>3 DEF Busy, Drained, Unbroken
<1>. QED
  BY <1>2, <1>4 DEF ToPut

LEMMA ReadyHead ==
    ASSUME Unbroken, RedoInv, RecordInv, PhaseInv, EndInv, ProcInv, Trying,
           NEW n, n = Head(proc), Ready(n)
    PROVE  n \in 1..Len(log) /\ n \in Nat /\ OnTxnList(log[n]) /\ Cleared(n + 1) /\ Upto(n - 1)
<1>1. /\ n \in Elements(proc) /\ n \in 1..Len(log) /\ n \in Nat /\ OnTxnList(log[n])
      /\ \A m \in 1..Len(log) : OnList(m) => n <= m
  BY HeadLeast DEF Trying
<1>2. \A w \in Workers : Idle(w) \/ item[w] >= n + 1 \/ completed[w] >= n + 1
  <2>1. TAKE w \in Workers
  <2>2. CASE ~Idle(w)
    <3>1. /\ GetReplayingRecPtrFromWorkers \in Nat
          /\ \/ GetReplayingRecPtrFromWorkers <= replaying[w]
             \/ GetReplayingRecPtrFromWorkers <= completed[w]
      BY <2>2, ReplayingPtr DEF RedoInv
    <3>2. n + 1 <= GetReplayingRecPtrFromWorkers
      BY DEF Ready, End
    <3>3. item[w] \in Nat /\ completed[w] \in Nat /\ replaying[w] = item[w]
      BY PendingLsn
    <3>. QED
      BY <1>1, <3>1, <3>2, <3>3
  <2>. QED
    BY <2>2
<1>3. Ahead(n)
  <2>1. SUFFICES ASSUME Amid(n) PROVE FALSE
    BY <1>1 DEF ProcInv
  <2>2. dpc = "apply" /\ Busy /\ ret = "put" /\ batch
    BY <2>1 DEF Trying, Amid, Putting, PutPhase, Applying
  <2>3. PICK w \in Workers : pending[w] # <<>> /\ ~Idle(w)
    BY <2>2, NextBusy
  <2>4. item[w] \in Nat /\ item[w] >= n /\ item[w] # 0
    BY <1>1, <1>2, <2>3, PendingLsn
  <2>5. item[w] < n
    BY <2>1, <2>3, <2>4, ItemGiven DEF Amid
  <2>. QED
    BY <1>1, <2>4, <2>5
<1>4. \A w \in Workers : \A p \in Elements(pending[w]) : n + 1 <= p
  <2>1. TAKE w \in Workers
  <2>2. TAKE p \in Elements(pending[w])
  <2>3. p \in Nat
    BY PendingLsn
  <2>4. n < p
    BY <1>3 DEF Ahead
  <2>. QED
    BY <1>1, <2>3, <2>4
<1>5. Cleared(n + 1)
  BY <1>1, <1>2, <1>4, Progress
<1>6. Cleared(n)
  BY <1>1, <1>5 DEF Cleared
<1>7. n <= dispatchEnd /\ n <= Len(log) + 1 /\ Len(log) \in Nat
  BY <1>1 DEF EndInv, RedoInv, TypeInv
<1>8. \A m \in 1..Len(log) : m < n => ~OnList(m)
  BY <1>1
<1>. QED
  BY <1>1, <1>5, <1>6, <1>7, <1>8, AllBefore

LEMMA UptoLess ==
    ASSUME NEW a \in Int, NEW b \in Int, a <= b, Upto(b)
    PROVE  Upto(a)
  BY DEF Upto

\* The position reported while the head of the transaction list must wait.
LEMMA WaitReport ==
    ASSUME RedoInv, RecordInv, PhaseInv, FlushInv, EndInv, Trying, force, ~Ready(Head(proc)),
           NEW e, e = GetReplayedRecPtrFromWorkers
    PROVE  e \in Nat /\ Upto(e - 1)
<1>1. PICK n : n = Head(proc)
  OBVIOUS
<1>2. /\ n \in 1..Len(log) /\ n \in Nat /\ Len(log) \in Nat
      /\ \A m \in 1..Len(log) : OnList(m) => n <= m
  <2>1. proc # <<>>
    BY DEF Trying
  <2>2. Len(log) \in Nat
    BY DEF RedoInv, TypeInv
  <2>. QED
    BY <1>1, <2>1, <2>2, HeadLeast
<1>3. /\ e \in Nat /\ \A w \in Workers : Idle(w) \/ e <= completed[w]
  BY ReplayedPtr DEF RedoInv
<1>4. Flushed
  BY DEF Trying, PhaseInv, FlushInv, FlushPoint, Applying
<1>5. e <= n
  <2>1. /\ GetReplayingRecPtrFromWorkers \in Nat
        /\ \/ GetReplayingRecPtrFromWorkers = MaxPtr
           \/ \E w \in Workers : ~Idle(w) /\ completed[w] <= GetReplayingRecPtrFromWorkers
    BY ReplayingPtr DEF RedoInv
  <2>2. GetReplayingRecPtrFromWorkers <= n
    BY <1>1, <1>2, <2>1 DEF Ready, End
  <2>3. GetReplayingRecPtrFromWorkers # MaxPtr
    <3>1. n <= MaxLsn /\ MaxLsn \in Nat
      BY <1>2, LsnNat DEF RedoInv, TypeInv
    <3>. QED
      BY <1>2, <2>2, <3>1 DEF MaxPtr
  <2>4. PICK w \in Workers : ~Idle(w) /\ completed[w] <= GetReplayingRecPtrFromWorkers
    BY <2>1, <2>3
  <2>5. completed[w] \in Nat /\ e <= completed[w]
    BY <1>3, <2>4, PendingLsn
  <2>. QED
    BY <1>2, <1>3, <2>1, <2>2, <2>4, <2>5
<1>6. Cleared(e)
  <2>1. \A w \in Workers : \A p \in Elements(pending[w]) : e <= p
    BY <1>4, NoElements DEF Flushed
  <2>2. \A w \in Workers : Idle(w) \/ item[w] >= e \/ completed[w] >= e
    BY <1>3, PendingLsn
  <2>. QED
    BY <1>3, <2>1, <2>2, Progress
<1>7. e <= dispatchEnd /\ e <= Len(log) + 1
  BY <1>2, <1>3, <1>5 DEF EndInv
<1>8. \A m \in 1..Len(log) : m < e => ~OnList(m)
  BY <1>2, <1>3, <1>5
<1>. QED
  BY <1>3, <1>6, <1>7, <1>8, AllBefore

\* Every worker has completed what comes before e, and the transaction list is empty.
LEMMA Completed ==
    ASSUME Unbroken, RedoInv, RecordInv, PhaseInv, FlushInv, EndInv, GivenInv, LastInv,
           dpc = "apply", Busy, Elements(proc) = {},
           NEW e \in Nat, e <= dispatchEnd, \A w \in Workers : Idle(w) \/ completed[w] >= e
    PROVE  /\ Upto(e - 2)
           /\ ~Drained => Upto(e - 1)
           /\ ret # "put" => Cleared(e)
<1>2. Len(log) \in Nat /\ dispatchEnd \in Nat /\ dispatchEnd <= Len(log) + 1 /\ batch \in BOOLEAN
  BY DEF EndInv, RedoInv, TypeInv
<1>3. e \in Nat /\ e <= dispatchEnd
  OBVIOUS
<1>4. \A w \in Workers : Idle(w) \/ completed[w] >= e
  OBVIOUS
<1>5. \A m : OnList(m) => InBatch(m)
  BY DEF OnList, InBatch
<1>6. ASSUME NEW b \in Nat, b <= e, \A p \in Lsn : InBatch(p) => b <= p
      PROVE  Cleared(b) /\ Upto(b - 1)
  <2>1. \A w \in Workers : Idle(w) \/ item[w] >= b \/ completed[w] >= b
    <3>1. TAKE w \in Workers
    <3>2. completed[w] \in Nat
      BY PendingLsn
    <3>. QED
      BY <1>3, <1>4, <1>6, <3>2
  <2>2. \A w \in Workers : \A p \in Elements(pending[w]) : b <= p
    BY <1>6, PendingLsn DEF InBatch
  <2>3. Cleared(b)
    BY <2>1, <2>2, Progress
  <2>4. \A m \in 1..Len(log) : m < b => ~OnList(m)
    <3>1. SUFFICES ASSUME NEW m \in 1..Len(log), OnList(m) PROVE ~(m < b)
      OBVIOUS
    <3>2. m \in Lsn /\ m \in Nat
      BY LogRecord DEF RedoInv
    <3>3. b <= m
      BY <1>5, <1>6, <3>1, <3>2
    <3>. QED
      BY <3>2, <3>3
  <2>5. b <= dispatchEnd /\ b <= Len(log) + 1
    BY <1>2, <1>3, <1>6
  <2>. QED
    BY <2>3, <2>4, <2>5, AllBefore
<1>7. ASSUME Upto(e - 1) PROVE Upto(e - 2)
  BY <1>3, <1>7, UptoLess
<1>8. CASE ret # "put"
  <2>1. \A p : ~InBatch(p)
    BY <1>8, FlushedBatch DEF FlushInv, FlushPoint, Applying
  <2>2. Cleared(e) /\ Upto(e - 1)
    BY <1>3, <1>6, <2>1
  <2>. QED
    BY <1>3, <1>7, <2>2
<1>9. CASE ret = "put" /\ ~Drained
  <2>1. PICK w \in Workers : pending[w] # <<>> /\ ~Idle(w)
    BY <1>9, NextBusy
  <2>2. item[w] \in Nat /\ e <= item[w] + 1
    BY <1>3, <1>4, <2>1, PendingLsn
  <2>3. ASSUME NEW p \in Lsn, InBatch(p) PROVE e <= p
    <3>1. p \in Nat /\ 1 <= p
      BY LsnNat
    <3>2. CASE item[w] = 0
      BY <1>3, <2>2, <3>1, <3>2
    <3>3. CASE item[w] # 0
      <4>1. item[w] < p
        BY <2>1, <2>3, <3>3, ItemGiven DEF GivenInv
      <4>. QED
        BY <1>3, <2>2, <3>1, <4>1
    <3>. QED
      BY <3>2, <3>3
  <2>4. Upto(e - 1)
    BY <1>3, <1>6, <2>3
  <2>. QED
    BY <1>3, <1>7, <1>9, <2>4
<1>10. CASE ret = "put" /\ Drained
  <2>1. ~batch
    BY <1>2, <1>10 DEF Busy, Unbroken
  <2>2. \A p : InBatch(p) => p = Len(log)
    BY <2>1 DEF LastInv
  <2>3. CASE e = 0
    BY <1>3, <1>10, <2>3 DEF Upto
  <2>4. CASE e # 0
    <3>1. PICK b \in Nat : b = e - 1
      BY <1>3, <2>4
    <3>2. b <= e /\ \A p \in Lsn : InBatch(p) => b <= p
      BY <1>2, <1>3, <2>2, <3>1
    <3>3. Upto(b - 1)
      BY <1>6, <3>1, <3>2
    <3>4. b - 1 = e - 2
      BY <1>3, <3>1
    <3>. QED
      BY <1>3, <1>10, <3>3, <3>4
  <2>. QED
    BY <2>3, <2>4
<1>. QED
  BY <1>8, <1>9, <1>10

\* The position reported when the transaction list is empty.
LEMMA EmptyReport ==
    ASSUME Unbroken, RedoInv, RecordInv, PhaseInv, FlushInv, EndInv, GivenInv, LastInv,
           dpc = "apply", Busy, proc = <<>>,
           NEW e, e = Min({GetReplayedRecPtrFromWorkers, dispatchEnd})
    PROVE  /\ e \in Nat /\ e <= dispatchEnd /\ Upto(e - 2)
           /\ ~Drained => Upto(e - 1)
           /\ ret # "put" => Cleared(e)
<1>1. PICK g : g = GetReplayedRecPtrFromWorkers
  OBVIOUS
<1>2. g \in Nat /\ \A w \in Workers : ~Idle(w) => g <= completed[w]
  BY <1>1, ReplayedPtr DEF RedoInv
<1>3. dispatchEnd \in Nat
  BY DEF RedoInv, TypeInv
<1>4. e \in Nat /\ e <= dispatchEnd /\ e <= g
  BY <1>1, <1>2, <1>3, MinOfTwo
<1>5. \A w \in Workers : Idle(w) \/ completed[w] >= e
  <2>1. TAKE w \in Workers
  <2>2. completed[w] \in Nat
    BY PendingLsn
  <2>. QED
    BY <1>2, <1>4, <2>2
<1>6. Elements(proc) = {}
  BY NoElements
<1>. QED
  BY <1>4, <1>5, <1>6, Completed

-----------------------------------------------------------------------------
(* How a step changes who is through with a record.                        *)

\* Worker w gets through with its item.
Finishes(w) == wpc[w] \in InHand /\ wpc'[w] \notin InHand

LEMMA OwnProgress ==
    ASSUME RedoInv, NEW w \in Workers, Worker(w), NEW n \in 1..Len(log), w \in Recipients(log[n])
    PROVE  /\ Passed(w, n)' <=> Passed(w, n) \/ (n = item[w] /\ Finishes(w))
           /\ Waits(w, n) => Met(w, n)'
           /\ item'[w] >= item[w]
<1>. USE DEF Passed, Waits, Met, Finishes, InHand
<1>1. n \in Nat /\ item[w] \in Nat /\ TypeInv
  BY PendingLsn DEF RedoInv
<1>2. CASE Fetch(w)
  <2>1. PICK h : h = Head(List(w))
    OBVIOUS
  <2>2. h \in Nat /\ h > item[w] /\ (n > item[w] => h <= n)
    BY <1>1, <1>2, <2>1, FetchLeast DEF RedoInv
  <2>3. item'[w] = h /\ wpc'[w] \in {"apply", "reach"} /\ wpc[w] \in {"top", "next"}
    BY <1>1, <1>2, <2>1 DEF Fetch, WGoto, TypeInv
  <2>. QED
    BY <1>1, <2>2, <2>3
<1>3. CASE Pop(w) \/ Exit(w) \/ Unblock(w)
  <2>1. /\ item' = item /\ wpc[w] \in {"next", "top", "block"}
        /\ wpc'[w] \in {"top", "exit", "next"}
    BY <1>1, <1>3 DEF Pop, Exit, Unblock, WGoto, TypeInv
  <2>. QED
    BY <1>1, <2>1
<1>4. CASE ReadTransed(w)
  BY <1>1, <1>4 DEF ReadTransed
<1>5. CASE ApplySingle(w) \/ Leave(w)
  <2>1. item' = item /\ wpc[w] \in {"apply", "wait"} /\ wpc'[w] \in {"block", "next"}
    BY <1>1, <1>5 DEF ApplySingle, Leave, WGoto, TypeInv
  <2>. QED
    BY <1>1, <2>1
<1>6. CASE Reach(w) \/ Publish(w)
  <2>1. /\ item' = item /\ wpc[w] \in {"reach", "publish"}
        /\ wpc'[w] \in {"wait", "publish", "next"}
    BY <1>1, <1>6 DEF Reach, Publish, WGoto, TypeInv
  <2>. QED
    BY <1>1, <2>1
<1>. QED
  BY <1>2, <1>3, <1>4, <1>5, <1>6 DEF Worker

LEMMA WorkerProgress ==
    ASSUME RedoInv, NEW w \in Workers, Worker(w), NEW v \in Workers, NEW n \in 1..Len(log),
           v \in Recipients(log[n])
    PROVE  /\ Passed(v, n)' <=> Passed(v, n) \/ (v = w /\ n = item[w] /\ Finishes(w))
           /\ Met(v, n) => Met(v, n)'
           /\ item'[v] >= item[v]
<1>1. CASE v = w
  BY <1>1, OwnProgress DEF Met
<1>2. CASE v # w
  <2>1. UNCHANGED <<wpc[v], item[v]>> /\ item[v] \in Nat
    BY <1>2, WorkerSame, PendingLsn DEF RedoInv
  <2>. QED
    BY <1>2, <2>1 DEF Passed, Waits, Met
<1>. QED
  BY <1>1, <1>2

LEMMA FinishSteps ==
    ASSUME RedoInv, NEW w \in Workers, Worker(w), Finishes(w)
    PROVE  /\ item[w] \in 1..Len(log) /\ w \in Recipients(log[item[w]])
           /\ ApplySingle(w) \/ Leave(w) \/ (Publish(w) /\ Kind(item[w]) = "all")
<1>1. wpc[w] \in InHand /\ wpc'[w] \notin InHand /\ TypeInv /\ WorkerInv(w)
  BY DEF Finishes, RedoInv
<1>2. item[w] \in 1..Len(log) /\ w \in Recipients(log[item[w]])
  BY <1>1 DEF WorkerInv, InHand, AtRest
<1>. USE DEF InHand, WGoto, TypeInv
<1>3. ~Fetch(w) /\ ~Pop(w) /\ ~Exit(w) /\ ~Unblock(w)
  BY <1>1 DEF Fetch, Pop, Exit, Unblock
<1>4. ~ReadTransed(w) /\ ~Reach(w)
  BY <1>1 DEF ReadTransed, Reach
<1>5. Publish(w) => Kind(item[w]) = "all"
  BY <1>1 DEF Publish, WorkerInv
<1>. QED
  BY <1>2, <1>3, <1>4, <1>5 DEF Worker

LEMMA SameProgress ==
    ASSUME UNCHANGED <<item, wpc>>, NEW w, NEW n
    PROVE  (Passed(w, n)' <=> Passed(w, n)) /\ (Met(w, n)' <=> Met(w, n))
  BY DEF Passed, Waits, Met

\* The transaction list is through with its head.
Takes == (ProcTxnItem \/ ApplyShared \/ LeaveShared) /\ dpc' = "apply"

LEMMA TakesHead ==
    ASSUME RedoInv, Takes, NEW h, h = Head(proc)
    PROVE  /\ proc # <<>> /\ proc' = Tail(proc) /\ txnPending' = txnPending
           /\ h \in 1..Len(log) /\ OnTxnList(log[h]) /\ UNCHANGED <<log, pending, dispatchEnd>>
           /\ OnList(h) /\ ~OnList(h)'
           /\ \A m : m # h => (OnList(m)' <=> OnList(m))
<1>1. proc # <<>> /\ txnPending' = txnPending /\ UNCHANGED <<log, pending, dispatchEnd>>
  BY DEF Takes, ProcTxnItem, ApplyShared, LeaveShared, Trying, RedoInv, TxnListInv
<1>2. proc' = Tail(proc)
  BY DEF Takes, ProcTxnItem, ApplyShared, LeaveShared, Goto
<1>3. h \in 1..Len(log) /\ OnTxnList(log[h])
  BY <1>1, HeadLeast
<1>. QED
  BY <1>1, <1>2, <1>3, TailOnList DEF RedoInv

LEMMA MoveOnList ==
    ASSUME RedoInv, MoveTxnItemToApplyQueue, NEW m
    PROVE  OnList(m)' <=> OnList(m)
<1>1. proc \in Seq(Lsn) /\ txnPending \in Seq(Lsn)
  BY DEF RedoInv, TypeInv
<1>2. Elements(proc') = Elements(proc) \union Elements(txnPending) /\ Elements(txnPending') = {}
  BY <1>1, ElementsConcat, NoElements DEF MoveTxnItemToApplyQueue
<1>. QED
  BY <1>2 DEF OnList

\* The other steps of the startup thread change nothing of a record, and it is not at a
\* shared one or stays there.
Quiet ==
    /\ UNCHANGED <<log, dispatchEnd, applied, freed, released, item, wpc>>
    /\ \A m : OnList(m)' <=> OnList(m)
    /\ \/ dpc \notin {"meet", "leave"} /\ dpc' \notin {"meet", "leave"}
       \/ UNCHANGED <<dpc, proc>>

LEMMA QuietSteps ==
    ASSUME RedoInv, Startup, ~Dispatch, ~DealWithSegpageSyncRecord, ~SegApply,
           ~ProcTxnItem, ~ApplyShared, ~LeaveShared
    PROVE  Quiet
<1>1. UNCHANGED <<item, wpc>>
  BY StartupSame DEF workerVars
<1>2. dpc \notin {"meet", "leave"}
  BY DEF Startup, SegPut, PutPending, PutFailed, PutDone, NotBusy, TryTxn, TxnNotReady,
         TxnListEmpty, Trying, CheckDispatchCount, Respread, WaitForRecord, EndOfLog, StopAtTarget,
         Finish, SendPageRedoEndMark, EndMarksSent, Join
<1>3. dpc' \notin {"meet", "leave"}
  BY <1>2, ControlStep DEF RedoInv
<1>4. UNCHANGED <<log, dispatchEnd, applied, freed, released>>
  BY DEF Startup, SegPut, PutPending, PutFailed, PutDone, NotBusy, TryTxn, TxnNotReady,
         TxnListEmpty, CheckDispatchCount, Respread, WaitForRecord, EndOfLog, StopAtTarget,
         Finish, SendPageRedoEndMark, EndMarksSent, Join, itemVars
<1>5. MoveTxnItemToApplyQueue \/ UNCHANGED <<proc, txnPending>>
  BY DEF Startup, SegPut, PutPending, PutFailed, PutDone, NotBusy, TryTxn, TxnNotReady,
         TxnListEmpty, CheckDispatchCount, Respread, WaitForRecord, EndOfLog, StopAtTarget,
         Finish, SendPageRedoEndMark, EndMarksSent, Join, listVars
<1>6. \A m : OnList(m)' <=> OnList(m)
  BY <1>5, MoveOnList DEF OnList
<1>. QED
  BY <1>1, <1>2, <1>3, <1>4, <1>6 DEF Quiet

LEMMA QuietRecord ==
    ASSUME RecordInv, Quiet
    PROVE  RecordInv'
<1>1. ASSUME NEW n \in 1..Len(log) PROVE Kind(n)' = Kind(n) /\ (TxnDone(n)' <=> TxnDone(n))
  BY DEF Quiet, Kind, TxnDone, OnTxnList
<1>2. \A w, n : (Passed(w, n)' <=> Passed(w, n)) /\ (Met(w, n)' <=> Met(w, n))
  BY SameProgress DEF Quiet
<1>3. \A n : Upto(n)' <=> Upto(n)
  BY DEF Quiet, Upto
<1>4. ASSUME NEW n \in 1..Len(log)
      PROVE  /\ AppliedInv(n)' /\ SharedInv(n)' /\ ReleasedInv(n)' /\ FreedInv(n)'
             /\ BlockInv(n)' /\ OrderInv(n)'
  <2>1. /\ AppliedInv(n) /\ SharedInv(n) /\ ReleasedInv(n) /\ FreedInv(n)
        /\ BlockInv(n) /\ OrderInv(n)
    BY DEF RecordInv
  <2>. USE <1>1, <1>2, <1>3, <2>1 DEF Quiet
  <2>2. AppliedInv(n)'
    BY DEF AppliedInv
  <2>3. SharedInv(n)'
    BY DEF SharedInv, AtHead
  <2>4. ReleasedInv(n)'
    BY DEF ReleasedInv, AtHead
  <2>5. FreedInv(n)'
    BY DEF FreedInv, Forgotten
  <2>6. BlockInv(n)'
    BY DEF BlockInv
  <2>7. OrderInv(n)'
    BY DEF OrderInv
  <2>. QED
    BY <2>2, <2>3, <2>4, <2>5, <2>6, <2>7
<1>. QED
  BY <1>4 DEF RecordInv, Quiet

-----------------------------------------------------------------------------
(* Steps of a page worker.                                                 *)

LEMMA ToRecipient ==
    ASSUME RedoInv, NEW n \in 1..Len(log), NEW w \in log[n].to
    PROVE  w \in Workers /\ w \in Recipients(log[n]) /\ Kind(n) \notin {"txn", "seg"}
<1>1. log[n] \in Record
  BY LogRecord DEF RedoInv
<1>. QED
  BY <1>1, RecordKinds DEF Kind

LEMMA WorkerView ==
    ASSUME NEW w \in Workers, Worker(w)
    PROVE  /\ UNCHANGED <<batch, log, dispatchEnd, moved, dpc, full, force, ret, after, pending,
                          txnPending, proc, replayed, ahead>>
           /\ \A n : /\ Kind(n)' = Kind(n) /\ (TxnDone(n)' <=> TxnDone(n))
                     /\ AtHead(n)' <=> AtHead(n)
<1>1. UNCHANGED <<batch, log, dispatchEnd, moved, dpc, full, force, ret, after, pending,
                  txnPending, proc, replayed, ahead>>
  BY WorkerSame DEF startupVars, listVars
<1>. QED
  BY <1>1 DEF Kind, TxnDone, AtHead, OnList, OnTxnList

\* The last worker that reaches a shared page record.
LastReach(w) ==
    /\ Reach(w) /\ Kind(item[w]) \in {"page", "create"}
    /\ refCount[item[w]] + 1 = ShareCount(item[w])

LEMMA WorkerItems ==
    ASSUME NEW w \in Workers, Worker(w)
    PROVE  /\ applied \subseteq applied' /\ released \subseteq released' /\ freed \subseteq freed'
           /\ \A n : n \in applied' => \/ n \in applied
                                       \/ n = item[w] /\ ApplySingle(w) /\ Kind(n) # "txn"
                                       \/ n = item[w] /\ LastReach(w)
           /\ \A n : n \in released' => n \in released \/ (n = item[w] /\ LastReach(w) /\ n \in applied')
<1>1. CASE ApplySingle(w)
  BY <1>1 DEF ApplySingle
<1>2. CASE Reach(w)
  BY <1>2 DEF Reach, LastReach
<1>3. CASE Leave(w)
  BY <1>3 DEF Leave, Unref
<1>4. CASE Fetch(w) \/ Pop(w) \/ Exit(w) \/ ReadTransed(w) \/ Publish(w) \/ Unblock(w)
  <2>1. UNCHANGED <<applied, released, freed>>
    BY <1>4 DEF Fetch, Pop, Exit, ReadTransed, Publish, Unblock, itemVars
  <2>. QED
    BY <2>1
<1>. QED
  BY <1>1, <1>2, <1>3, <1>4 DEF Worker

\* Who is counted in the item of a record that has no "all" to remember it by.
LEMMA CountedWorkers ==
    ASSUME RedoInv, NEW n \in 1..Len(log), Kind(n) \in {"page", "create", "share"}
    PROVE  /\ Counted(n) = {v \in Workers : n = item[v] /\ wpc[v] \in {"publish", "wait"}}
           /\ Counted(n) \subseteq log[n].to
           /\ \A v \in Counted(n) : ~Passed(v, n) /\ (Kind(n) # "share" => Waits(v, n))
           /\ Kind(n) # "share" => ~TxnCounted(n)
           /\ refCount[n] = Cardinality(Counted(n)) + IF TxnCounted(n) THEN 1 ELSE 0
           /\ log[n].to \subseteq Workers /\ IsFiniteSet(log[n].to)
<1>1. log[n] \in Record /\ n \in Lsn /\ n \in Nat /\ Len(log) \in Nat
  BY LogRecord DEF RedoInv
<1>2. Counted(n) = {v \in Workers : n = item[v] /\ wpc[v] \in {"publish", "wait"}}
  BY DEF Counted, InCount
<1>3. Recipients(log[n]) = log[n].to /\ log[n].to \subseteq Workers
  BY <1>1, RecordKinds DEF Kind
<1>4. ASSUME NEW v \in Counted(n)
      PROVE  v \in log[n].to /\ ~Passed(v, n) /\ (Kind(n) # "share" => Waits(v, n))
  <2>1. v \in Workers /\ n = item[v] /\ wpc[v] \in {"publish", "wait"} /\ WorkerInv(v)
    BY <1>2, <1>4 DEF RedoInv
  <2>2. v \in log[n].to
    BY <1>1, <1>3, <2>1 DEF WorkerInv
  <2>3. ~Passed(v, n)
    BY <1>1, <2>1 DEF Passed, InHand
  <2>4. Kind(n) # "share" => wpc[v] # "publish"
    BY <2>1 DEF WorkerInv
  <2>. QED
    BY <2>1, <2>2, <2>3, <2>4 DEF Waits
<1>5. Kind(n) # "share" => ~TxnCounted(n)
  BY DEF TxnCounted, AtHead, RedoInv, TxnListInv
<1>6. refCount[n] = Cardinality(Counted(n)) + IF TxnCounted(n) THEN 1 ELSE 0
  BY <1>1 DEF RedoInv, CountInv
<1>7. IsFiniteSet(log[n].to)
  BY <1>3, WorkersNat, FS_Subset
<1>. QED
  BY <1>2, <1>3, <1>4, <1>5, <1>6, <1>7

LEMMA LastReachAll ==
    ASSUME RedoInv, NEW w \in Workers, LastReach(w), NEW n, n = item[w]
    PROVE  /\ n \in 1..Len(log) /\ w \in log[n].to
           /\ \A v \in log[n].to : v = w \/ Waits(v, n)
<1>1. wpc[w] = "reach" /\ Kind(n) \in {"page", "create"} /\ refCount[n] + 1 = ShareCount(n)
  BY DEF LastReach, Reach
<1>2. n \in 1..Len(log) /\ w \in Recipients(log[n])
  BY <1>1 DEF RedoInv, WorkerInv, AtRest
<1>3. w \in log[n].to
  BY <1>1, <1>2 DEF Recipients, Kind
<1>4. /\ Counted(n) = {v \in Workers : n = item[v] /\ wpc[v] \in {"publish", "wait"}}
      /\ Counted(n) \subseteq log[n].to
      /\ \A v \in Counted(n) : Waits(v, n)
      /\ refCount[n] = Cardinality(Counted(n)) + 0
      /\ IsFiniteSet(log[n].to)
  BY <1>1, <1>2, CountedWorkers
<1>5. Cardinality(Counted(n)) \in Nat /\ IsFiniteSet(Counted(n))
  BY CountedFinite
<1>6. Cardinality(log[n].to) \in Nat /\ Cardinality(log[n].to \ {w}) = Cardinality(log[n].to) - 1
      /\ IsFiniteSet(log[n].to \ {w})
  BY <1>3, <1>4, FS_RemoveElement, FS_CardinalityType
<1>7. Cardinality(Counted(n)) = Cardinality(log[n].to) - 1
  BY <1>1, <1>4, <1>5, <1>6 DEF ShareCount
<1>8. Counted(n) \subseteq log[n].to \ {w}
  BY <1>1, <1>4
<1>9. Counted(n) = log[n].to \ {w}
  BY <1>6, <1>7, <1>8, FS_Subset
<1>. QED
  BY <1>2, <1>3, <1>4, <1>9

LEMMA AloneItem ==
    ASSUME RedoInv, NEW w \in Workers, ApplySingle(w), NEW n, n = item[w]
    PROVE  /\ n \in 1..Len(log)
           /\ Kind(n) # "txn" => /\ log[n].to = {w}
                                 /\ Kind(n) \in {"page", "create", "clean", "block"}
<1>1. n \in 1..Len(log) /\ w \in Recipients(log[n]) /\ Alone(n)
  BY DEF RedoInv, WorkerInv, AtRest, ApplySingle
<1>2. CASE Kind(n) # "txn"
  <2>1. /\ Kind(n) \in {"page", "create", "clean", "block"} /\ Cardinality(log[n].to) = 1
        /\ w \in log[n].to
    BY <1>1, <1>2 DEF Alone, Recipients, Kind
  <2>2. log[n].to \subseteq Workers
    BY <1>1, LogRecord, RecordKinds DEF RedoInv
  <2>3. IsFiniteSet(log[n].to)
    BY <2>2, WorkersNat, FS_Subset
  <2>4. PICK x : log[n].to = {x}
    BY <2>1, <2>3, FS_Singleton
  <2>. QED
    BY <1>1, <2>1, <2>4
<1>. QED
  BY <1>1, <1>2

LEMMA WorkerReplays ==
    ASSUME RedoInv, RecordInv, ReplayInv, NEW w \in Workers, Worker(w), NEW n \in 1..Len(log)
    PROVE  AppliedInv(n)' /\ SharedInv(n)' /\ BlockInv(n)' /\ OrderInv(n)'
<1>1. AppliedInv(n) /\ SharedInv(n) /\ BlockInv(n) /\ OrderInv(n)
  BY DEF RecordInv
<1>2. /\ UNCHANGED <<batch, log, dispatchEnd, dpc>>
      /\ Kind(n)' = Kind(n) /\ (TxnDone(n)' <=> TxnDone(n)) /\ (AtHead(n)' <=> AtHead(n))
  BY WorkerView
<1>3. applied \subseteq applied'
  BY WorkerItems
<1>4. \A k : Upto(k) => Upto(k)'
  BY <1>3 DEF Upto
<1>5. ASSUME NEW v \in log[n].to
      PROVE  /\ v \in Workers /\ v \in Recipients(log[n]) /\ Kind(n) # "txn"
             /\ Passed(v, n)' <=> Passed(v, n) \/ (v = w /\ n = item[w] /\ Finishes(w))
             /\ Met(v, n) => Met(v, n)'
             /\ item'[v] >= item[v] /\ item[v] \in Nat /\ item'[v] \in Nat
  <2>1. v \in Workers /\ v \in Recipients(log[n]) /\ Kind(n) # "txn"
    BY ToRecipient
  <2>2. item[v] \in Nat /\ item'[v] \in Nat
    <3>1. TypeInv /\ TypeInv'
      BY TypeStep DEF RedoInv, Next
    <3>. QED
      BY <2>1, <3>1, LsnNat DEF TypeInv
  <2>. QED
    BY <2>1, <2>2, WorkerProgress
<1>6. AppliedInv(n)'
  <2>1. ASSUME Kind(n) # "all", NEW v \in log[n].to, Passed(v, n)', ~Passed(v, n)
        PROVE  n \in applied'
    <3>1. v = w /\ n = item[w] /\ Finishes(w) /\ Kind(n) # "txn"
      BY <1>5, <2>1
    <3>2. ApplySingle(w) \/ Leave(w)
      BY <2>1, <3>1, FinishSteps
    <3>3. CASE ApplySingle(w)
      BY <3>1, <3>3 DEF ApplySingle
    <3>4. CASE Leave(w)
      BY <1>3, <3>1, <3>4 DEF Leave, RecordInv, ReleasedInv
    <3>. QED
      BY <3>2, <3>3, <3>4
  <2>. QED
    BY <1>1, <1>2, <1>3, <2>1 DEF AppliedInv
<1>7. SharedInv(n)'
  BY <1>1, <1>2, <1>3, <1>4, <1>5 DEF SharedInv
<1>8. BlockInv(n)'
  <2>1. ASSUME Kind(n) = "block", NEW v \in log[n].to, Passed(v, n)'
        PROVE  Upto(n)' \/ (n = item'[v] /\ wpc'[v] = "block")
    <3>1. CASE ~Passed(v, n)
      <4>1. v = w /\ n = item[w] /\ Finishes(w)
        BY <1>5, <2>1, <3>1
      <4>2. ApplySingle(w) \/ Leave(w)
        BY <2>1, <4>1, FinishSteps
      <4>3. ~Leave(w)
        BY <2>1, <4>1 DEF Leave, RedoInv, WorkerInv
      <4>. QED
        BY <2>1, <4>1, <4>2, <4>3 DEF ApplySingle, WGoto, RedoInv, TypeInv
    <3>2. CASE Passed(v, n) /\ Upto(n)
      BY <1>4, <3>2
    <3>3. CASE Passed(v, n) /\ n = item[v] /\ wpc[v] = "block" /\ v # w
      BY <1>5, <3>3, WorkerSame DEF RedoInv
    <3>4. CASE Passed(v, n) /\ n = item[v] /\ wpc[v] = "block" /\ v = w
      <4>1. Unblock(w)
        BY <3>4 DEF Worker, Fetch, Pop, Exit, ReadTransed, ApplySingle, Reach, Publish, Leave
      <4>2. replayed >= n + 1 /\ replayed \in Nat /\ n \in Nat
        BY <3>4, <4>1, LogRecord DEF Unblock, End, RedoInv, TypeInv
      <4>3. Upto(n - 1)
        BY <4>2, UptoLess DEF ReplayInv
      <4>4. n \in applied
        BY <1>1, <2>1, <3>4 DEF AppliedInv
      <4>5. Upto(n)
        BY <4>2, <4>3, <4>4 DEF Upto
      <4>. QED
        BY <1>4, <4>5
    <3>. QED
      BY <1>1, <2>1, <3>1, <3>2, <3>3, <3>4 DEF BlockInv
  <2>. QED
    BY <1>2, <2>1 DEF BlockInv
<1>9. OrderInv(n)'
  <2>1. CASE n \in applied
    BY <1>1, <1>2, <1>4, <1>5, <2>1, LogRecord DEF OrderInv, RedoInv
  <2>2. CASE n \in applied' /\ n \notin applied
    <3>1. n = item[w] /\ ((ApplySingle(w) /\ Kind(n) # "txn") \/ LastReach(w))
      BY <2>2, WorkerItems
    <3>2. Kind(n) \in {"page", "create", "clean", "block"} /\ \A v \in log[n].to : item[v] = n
      BY <3>1, AloneItem, LastReachAll DEF LastReach, Waits
    <3>. QED
      BY <1>2, <1>5, <3>2 DEF OrderInv
  <2>. QED
    BY <2>1, <2>2 DEF OrderInv
<1>. QED
  BY <1>6, <1>7, <1>8, <1>9

LEMMA WorkerReleases ==
    ASSUME RedoInv, RecordInv, NEW w \in Workers, Worker(w), NEW n \in 1..Len(log)
    PROVE  ReleasedInv(n)'
<1>1. /\ UNCHANGED <<batch, log, dpc>>
      /\ Kind(n)' = Kind(n) /\ (TxnDone(n)' <=> TxnDone(n)) /\ (AtHead(n)' <=> AtHead(n))
  BY WorkerView
<1>2. ASSUME NEW v \in log[n].to, Met(v, n) PROVE Met(v, n)'
  BY <1>2, ToRecipient, WorkerProgress
<1>3. CASE n \in released
  BY <1>1, <1>2, <1>3, WorkerItems DEF RecordInv, ReleasedInv
<1>4. CASE n \in released' /\ n \notin released
  <2>1. n = item[w] /\ LastReach(w) /\ n \in applied'
    BY <1>4, WorkerItems
  <2>2. \A v \in log[n].to : v = w \/ Waits(v, n)
    BY <2>1, LastReachAll
  <2>3. Waits(w, n)'
    BY <2>1 DEF LastReach, Reach, WGoto, Waits, RedoInv, TypeInv
  <2>4. \A v \in log[n].to : Met(v, n)'
    BY <1>2, <2>2, <2>3 DEF Met
  <2>. QED
    BY <1>1, <2>1, <2>4 DEF ReleasedInv, LastReach
<1>. QED
  BY <1>3, <1>4 DEF ReleasedInv

\* A worker leaves a shared item: it frees the item just when everyone is through.
LEMMA LeaveFrees ==
    ASSUME RedoInv, RecordInv, NEW w \in Workers, Leave(w), NEW n, n = item[w]
    PROVE  /\ n \in 1..Len(log) /\ w \in log[n].to /\ n \notin freed
           /\ refCount[n] = 1 <=> /\ \A v \in log[n].to \ {w} : Passed(v, n)
                                  /\ Kind(n) = "share" => TxnDone(n)
<1>1. /\ n \in released /\ n \in 1..Len(log) /\ wpc[w] = "wait" /\ w \in Recipients(log[n])
      /\ Kind(n) \in {"page", "create", "share"}
  BY DEF Leave, RedoInv, WorkerInv, AtRest
<1>2. w \in log[n].to
  BY <1>1 DEF Recipients, Kind
<1>3. /\ \A v \in log[n].to : Met(v, n)
      /\ Kind(n) = "share" => TxnDone(n) \/ (dpc = "leave" /\ AtHead(n))
  BY <1>1 DEF RecordInv, ReleasedInv
<1>4. /\ Counted(n) = {v \in Workers : n = item[v] /\ wpc[v] \in {"publish", "wait"}}
      /\ Counted(n) \subseteq log[n].to
      /\ \A v \in Counted(n) : ~Passed(v, n)
      /\ Kind(n) # "share" => ~TxnCounted(n)
      /\ refCount[n] = Cardinality(Counted(n)) + IF TxnCounted(n) THEN 1 ELSE 0
      /\ log[n].to \subseteq Workers
  BY <1>1, CountedWorkers
<1>5. w \in Counted(n)
  BY <1>1, <1>4
<1>6. n \notin freed
  BY <1>1, <1>2, <1>4, <1>5 DEF RecordInv, FreedInv, Forgotten
<1>7. Cardinality(Counted(n)) \in Nat /\ IsFiniteSet(Counted(n)) /\ Cardinality(Counted(n)) # 0
  BY <1>5, CountedFinite, FS_EmptySet
<1>8. refCount[n] = 1 <=> Cardinality(Counted(n)) = 1 /\ ~TxnCounted(n)
  BY <1>4, <1>7
<1>9. Cardinality(Counted(n)) = 1 <=> Counted(n) = {w}
  BY <1>5, <1>7, FS_Singleton
<1>10. Counted(n) = {w} <=> \A v \in log[n].to \ {w} : Passed(v, n)
  <2>1. ASSUME Counted(n) = {w}, NEW v \in log[n].to \ {w} PROVE Passed(v, n)
    BY <1>3, <1>4, <2>1 DEF Met, Waits
  <2>2. ASSUME \A v \in log[n].to \ {w} : Passed(v, n) PROVE Counted(n) = {w}
    BY <1>4, <1>5, <2>2
  <2>. QED
    BY <2>1, <2>2
<1>11. ~TxnCounted(n) <=> (Kind(n) = "share" => TxnDone(n))
  <2>1. CASE Kind(n) = "share" /\ TxnDone(n)
    <3>1. ~AtHead(n)
      BY <2>1, HeadLeast DEF TxnDone, AtHead, OnList
    <3>. QED
      BY <2>1, <3>1 DEF TxnCounted
  <2>2. CASE Kind(n) = "share" /\ ~TxnDone(n)
    BY <1>3, <2>2 DEF TxnCounted
  <2>. QED
    BY <1>4, <2>1, <2>2
<1>. QED
  BY <1>1, <1>2, <1>6, <1>8, <1>9, <1>10, <1>11

LEMMA WorkerFrees ==
    ASSUME RedoInv, RecordInv, NEW w \in Workers, Worker(w), NEW n \in 1..Len(log)
    PROVE  FreedInv(n)'
<1>1. /\ UNCHANGED <<batch, log, dispatchEnd, dpc>>
      /\ Kind(n)' = Kind(n) /\ (TxnDone(n)' <=> TxnDone(n))
  BY WorkerView
<1>2. ASSUME NEW v \in log[n].to
      PROVE  Passed(v, n)' <=> Passed(v, n) \/ (v = w /\ n = item[w] /\ Finishes(w))
  BY ToRecipient, WorkerProgress
<1>3. FreedInv(n)
  BY DEF RecordInv
<1>4. CASE ~(w \in log[n].to /\ n = item[w] /\ Finishes(w)) /\ (n \in freed' <=> n \in freed)
  BY <1>1, <1>2, <1>3, <1>4 DEF FreedInv, Forgotten
<1>5. CASE ApplySingle(w) /\ n = item[w]
  <2>1. Kind(n) # "txn" => log[n].to = {w} /\ Kind(n) \in {"page", "create", "clean", "block"}
    BY <1>5, AloneItem
  <2>2. Finishes(w)
    BY <1>5 DEF ApplySingle, Finishes, InHand, WGoto, RedoInv, TypeInv
  <2>3. CASE Kind(n) # "txn"
    <3>1. n \in freed'
      BY <1>5, <2>3 DEF ApplySingle
    <3>2. Passed(w, n)'
      BY <1>2, <1>5, <2>1, <2>2, <2>3
    <3>. QED
      BY <1>1, <2>1, <2>3, <3>1, <3>2 DEF FreedInv, Forgotten
  <2>4. CASE Kind(n) = "txn"
    <3>1. freed' = freed
      BY <1>5, <2>4 DEF ApplySingle
    <3>2. log[n].to = {}
      BY <2>4, ToRecipient
    <3>. QED
      BY <1>4, <3>1, <3>2
  <2>. QED
    BY <2>3, <2>4
<1>6. CASE Leave(w) /\ n = item[w]
  <2>1. /\ w \in log[n].to /\ n \notin freed /\ Kind(n) \in {"page", "create", "share"}
        /\ refCount[n] = 1 <=> /\ \A v \in log[n].to \ {w} : Passed(v, n)
                               /\ Kind(n) = "share" => TxnDone(n)
    BY <1>6, LeaveFrees DEF RecordInv, ReleasedInv, Leave
  <2>2. Finishes(w)
    BY <1>6 DEF Leave, Finishes, InHand, WGoto, RedoInv, TypeInv
  <2>3. n \in freed' <=> refCount[n] = 1
    BY <1>6, <2>1 DEF Leave, Unref
  <2>4. (\A v \in log[n].to : Passed(v, n)') <=> \A v \in log[n].to \ {w} : Passed(v, n)
    BY <1>2, <1>6, <2>1, <2>2
  <2>. QED
    BY <1>1, <2>1, <2>3, <2>4 DEF FreedInv, Forgotten
<1>7. CASE Publish(w) /\ Kind(item[w]) = "all" /\ n = item[w]
  <2>1. freed' = freed
    BY <1>7 DEF Publish, itemVars
  <2>2. w \in log[n].to /\ ~Met(w, n)
    <3>1. wpc[w] = "publish" /\ item[w] \in Nat
      BY <1>7, PendingLsn DEF Publish
    <3>2. w \in Recipients(log[n])
      BY <1>7, <3>1 DEF RedoInv, WorkerInv, AtRest
    <3>3. w \in log[n].to
      BY <1>7, <3>2 DEF Recipients, Kind
    <3>. QED
      BY <1>7, <3>1, <3>3 DEF Met, Passed, Waits, InHand
  <2>3. ~TxnDone(n)
    BY <1>7, <2>2 DEF RecordInv, SharedInv
  <2>. QED
    BY <1>1, <1>3, <1>7, <2>1, <2>3 DEF FreedInv, Forgotten
<1>8. ApplySingle(w) \/ Leave(w) \/ UNCHANGED freed
  BY DEF Worker, Fetch, Pop, Exit, ReadTransed, Reach, Publish, Unblock, itemVars
<1>9. n # item[w] => (n \in freed' <=> n \in freed)
  BY <1>8 DEF ApplySingle, Leave, Unref
<1>. QED
  BY <1>4, <1>5, <1>6, <1>7, <1>8, <1>9, FinishSteps

LEMMA WorkerRecord ==
    ASSUME RedoInv, RecordInv, ReplayInv, NEW w \in Workers, Worker(w)
    PROVE  RecordInv'
<1>1. log' = log
  BY WorkerView
<1>2. applied' \subseteq 1..Len(log) /\ released' \subseteq 1..Len(log)
  BY WorkerItems, AloneItem, LastReachAll DEF RecordInv
<1>3. freed' \subseteq 1..Len(log)
  <2>1. ApplySingle(w) \/ Leave(w) \/ UNCHANGED freed
    BY DEF Worker, Fetch, Pop, Exit, ReadTransed, Reach, Publish, Unblock, itemVars
  <2>2. \A n : n \in freed' => n \in freed \/ ((ApplySingle(w) \/ Leave(w)) /\ n = item[w])
    BY <2>1 DEF ApplySingle, Leave, Unref
  <2>. QED
    BY <2>2, AloneItem, LeaveFrees DEF RecordInv
<1>. QED
  BY <1>1, <1>2, <1>3, WorkerReplays, WorkerReleases, WorkerFrees DEF RecordInv

-----------------------------------------------------------------------------
(* Steps of the startup thread.                                            *)

\* A record is read: nobody has seen it.
LEMMA ReadRecord ==
    ASSUME RedoInv, EndInv, RecordInv, Dispatch \/ DealWithSegpageSyncRecord
    PROVE  RecordInv'
<1>1. PICK r \in NextRecords :
         /\ log' = Append(log, r) /\ (DealWithSegpageSyncRecord <=> r.kind = "seg")
         /\ DealWithSegpageSyncRecord => MoveTxnItemToApplyQueue /\ dispatchEnd' = dispatchEnd
         /\ Dispatch => /\ txnPending' = IF OnTxnList(r) THEN Append(txnPending, Len(log) + 1)
                                         ELSE txnPending
                        /\ proc' = proc /\ dispatchEnd' = Len(log) + 2
  <2>1. CASE Dispatch /\ DealWithSegpageSyncRecord
    <3>1. PICK r \in NextRecords : r.kind # "seg" /\ log' = Append(log, r)
      BY <2>1 DEF Dispatch
    <3>2. PICK s \in NextRecords : s.kind = "seg" /\ log' = Append(log, s)
      BY <2>1 DEF DealWithSegpageSyncRecord
    <3>3. log'[Len(log) + 1] = r /\ log'[Len(log) + 1] = s
      BY <3>1, <3>2, NextRecordType DEF RedoInv
    <3>. QED
      BY <3>1, <3>2, <3>3
  <2>2. Len(log) \in Nat /\ End(Len(log) + 1) = Len(log) + 2
    BY DEF End, RedoInv, TypeInv
  <2>3. CASE Dispatch /\ ~DealWithSegpageSyncRecord
    BY <2>2, <2>3 DEF Dispatch
  <2>4. CASE DealWithSegpageSyncRecord /\ ~Dispatch
    BY <2>4 DEF DealWithSegpageSyncRecord
  <2>. QED
    BY <2>1, <2>3, <2>4
<1>2. PICK k : k = Len(log) + 1
  OBVIOUS
<1>3. /\ k \in Lsn /\ k \in Nat /\ Len(log) \in Nat /\ Len(log') = k /\ log'[k] = r /\ r \in Record
      /\ \A m \in 1..Len(log) : log'[m] = log[m]
      /\ \A m \in 1..Len(log') : m = k \/ m \in 1..Len(log)
  BY <1>1, <1>2, NextRecordType DEF RedoInv
<1>4. /\ dpc = "read" /\ dpc' \notin {"meet", "leave"} /\ UNCHANGED <<item, wpc, applied, freed, released>>
  BY DEF Dispatch, DealWithSegpageSyncRecord, Flush, FlushBatch, Goto, workerVars, itemVars
<1>5. dispatchEnd = k
  BY <1>2, <1>4 DEF EndInv, SegPhase, PutPhase, Applying
<1>6. dispatchEnd' = IF r.kind = "seg" THEN k ELSE k + 1
  BY <1>1, <1>2, <1>3, <1>5
<1>7. \A m : m # k => (OnList(m)' <=> OnList(m))
  <2>1. CASE DealWithSegpageSyncRecord
    BY <1>1, <2>1, MoveOnList
  <2>2. CASE Dispatch
    <3>1. txnPending \in Seq(Lsn)
      BY DEF RedoInv, TypeInv
    <3>2. Elements(Append(txnPending, k)) = Elements(txnPending) \union {k}
      BY <1>3, <3>1, ElementsAppend
    <3>3. proc' = proc /\ (txnPending' = Append(txnPending, k) \/ txnPending' = txnPending)
      BY <1>1, <1>2, <2>2
    <3>. QED
      BY <3>2, <3>3 DEF OnList
  <2>. QED
    BY <2>1, <2>2
<1>8. OnTxnList(r) => OnList(k)'
  <2>1. SUFFICES ASSUME OnTxnList(r) PROVE OnList(k)'
    OBVIOUS
  <2>2. Dispatch /\ txnPending' = Append(txnPending, k)
    BY <1>1, <1>2, <2>1 DEF OnTxnList
  <2>3. txnPending \in Seq(Lsn)
    BY DEF RedoInv, TypeInv
  <2>4. Elements(Append(txnPending, k)) = Elements(txnPending) \union {k}
    BY <1>3, <2>3, ElementsAppend
  <2>. QED
    BY <2>2, <2>4 DEF OnList
<1>9. \A w, n : (Passed(w, n)' <=> Passed(w, n)) /\ (Met(w, n)' <=> Met(w, n))
  BY <1>4, SameProgress
<1>10. \A n : Upto(n)' <=> Upto(n)
  BY <1>4 DEF Upto
<1>11. ASSUME NEW n \in 1..Len(log)
       PROVE  /\ AppliedInv(n)' /\ SharedInv(n)' /\ ReleasedInv(n)' /\ FreedInv(n)'
              /\ BlockInv(n)' /\ OrderInv(n)'
  <2>1. /\ AppliedInv(n) /\ SharedInv(n) /\ ReleasedInv(n) /\ FreedInv(n)
        /\ BlockInv(n) /\ OrderInv(n)
    BY DEF RecordInv
  <2>2. n \in Nat /\ n < k /\ n < dispatchEnd /\ n < dispatchEnd'
    BY <1>2, <1>3, <1>5, <1>6
  <2>3. log'[n] = log[n] /\ Kind(n)' = Kind(n) /\ (TxnDone(n)' <=> TxnDone(n))
    BY <1>3, <1>7, <2>2 DEF Kind, TxnDone, OnTxnList
  <2>. USE <1>4, <1>9, <1>10, <2>1, <2>2, <2>3
  <2>4. AppliedInv(n)'
    BY DEF AppliedInv
  <2>5. SharedInv(n)'
    BY DEF SharedInv
  <2>6. ReleasedInv(n)'
    BY DEF ReleasedInv
  <2>7. FreedInv(n)'
    BY DEF FreedInv, Forgotten
  <2>8. BlockInv(n)'
    BY DEF BlockInv
  <2>9. OrderInv(n)'
    BY DEF OrderInv
  <2>. QED
    BY <2>4, <2>5, <2>6, <2>7, <2>8, <2>9
<1>12. /\ AppliedInv(k)' /\ SharedInv(k)' /\ ReleasedInv(k)' /\ FreedInv(k)'
       /\ BlockInv(k)' /\ OrderInv(k)'
  <2>1. k \notin applied' /\ k \notin freed' /\ k \notin released'
    BY <1>2, <1>3, <1>4 DEF RecordInv
  <2>2. Kind(k)' = r.kind /\ ~TxnDone(k)'
    BY <1>3, <1>8 DEF Kind, TxnDone
  <2>3. \A w \in r.to : ~Passed(w, k)'
    <3>1. TAKE w \in r.to
    <3>2. w \in Workers
      BY <1>3, RecordKinds
    <3>3. item[w] \in Nat /\ (item[w] = 0 \/ item[w] \in 1..Len(log))
      BY <3>2, PendingLsn DEF RedoInv, WorkerInv
    <3>. QED
      BY <1>2, <1>3, <1>9, <3>3 DEF Passed
  <2>4. r.kind \notin {"txn", "seg"} => r.to # {}
    BY <1>3, RecordKinds
  <2>5. log'[k].to = r.to /\ ~(r.kind = "seg" /\ k < dispatchEnd')
    BY <1>3, <1>6
  <2>. USE <1>4, <2>1, <2>2, <2>3, <2>5
  <2>6. AppliedInv(k)' /\ SharedInv(k)' /\ ReleasedInv(k)'
    BY DEF AppliedInv, SharedInv, ReleasedInv
  <2>7. FreedInv(k)'
    BY <2>4 DEF FreedInv, Forgotten
  <2>8. BlockInv(k)' /\ OrderInv(k)'
    BY DEF BlockInv, OrderInv
  <2>. QED
    BY <2>6, <2>7, <2>8
<1>13. /\ applied' \subseteq 1..Len(log') /\ freed' \subseteq 1..Len(log') /\ released' \subseteq 1..Len(log')
  BY <1>2, <1>3, <1>4 DEF RecordInv
<1>14. ASSUME NEW n \in 1..Len(log')
       PROVE  /\ AppliedInv(n)' /\ SharedInv(n)' /\ ReleasedInv(n)' /\ FreedInv(n)'
              /\ BlockInv(n)' /\ OrderInv(n)'
  <2>1. CASE n \in 1..Len(log)
    BY <1>11, <2>1
  <2>2. CASE n = k
    BY <1>12, <2>2
  <2>. QED
    BY <1>3, <2>1, <2>2
<1>. QED
  BY <1>13, <1>14 DEF RecordInv

\* A segment-page synchronisation record finds everything before it replayed.
LEMMA SegReady ==
    ASSUME RedoInv, RecordInv, FlushInv, EndInv, dpc = "drain", \A w \in Workers : Idle(w)
    PROVE  /\ Len(log) \in 1..Len(log) /\ Kind(Len(log)) = "seg" /\ dispatchEnd = Len(log)
           /\ Upto(Len(log) - 1)
<1>1. Len(log) \in Nat /\ Len(log) \in 1..Len(log) /\ Kind(Len(log)) = "seg" /\ dispatchEnd = Len(log)
  BY DEF EndInv, SegPhase, RedoInv, TypeInv
<1>2. PICK b \in Nat : b = Len(log)
  BY <1>1
<1>3. Flushed /\ proc = <<>>
  BY DEF FlushInv, FlushPoint
<1>4. \A w \in Workers : Elements(pending[w]) = {}
  BY <1>3, NoElements DEF Flushed
<1>5. \A m : ~OnList(m)
  BY <1>3, NoElements DEF Flushed, OnList
<1>6. Cleared(b)
  BY <1>4, Progress
<1>7. b <= dispatchEnd /\ b <= Len(log) + 1
  BY <1>1, <1>2
<1>8. Upto(b - 1)
  BY <1>5, <1>6, <1>7, AllBefore
<1>. QED
  BY <1>1, <1>2, <1>8

LEMMA SegRecord ==
    ASSUME RedoInv, RecordInv, FlushInv, EndInv, SegApply
    PROVE  RecordInv'
<1>1. PICK k : k = Len(log)
  OBVIOUS
<1>2. k \in 1..Len(log) /\ k \in Nat /\ Kind(k) = "seg" /\ dispatchEnd = k /\ Upto(k - 1)
  BY <1>1, SegReady DEF SegApply
<1>3. /\ applied' = applied \union {k} /\ freed' = freed \union {k} /\ dispatchEnd' = k + 1
      /\ UNCHANGED <<log, released, item, wpc, proc, txnPending>>
      /\ dpc = "drain" /\ dpc' \notin {"meet", "leave"}
  BY <1>1 DEF SegApply, End, workerVars, listVars, FlushBatch, Flush, Goto
<1>4. \A w, n : (Passed(w, n)' <=> Passed(w, n)) /\ (Met(w, n)' <=> Met(w, n))
  BY <1>3, SameProgress
<1>5. \A n : Upto(n) => Upto(n)'
  BY <1>3 DEF Upto
<1>6. log[k].to = {}
  BY <1>2, ToRecipient
<1>7. ASSUME NEW n \in 1..Len(log)
      PROVE  /\ AppliedInv(n)' /\ SharedInv(n)' /\ ReleasedInv(n)' /\ FreedInv(n)'
             /\ BlockInv(n)' /\ OrderInv(n)'
  <2>1. /\ AppliedInv(n) /\ SharedInv(n) /\ ReleasedInv(n) /\ FreedInv(n)
        /\ BlockInv(n) /\ OrderInv(n)
    BY DEF RecordInv
  <2>2. Kind(n)' = Kind(n) /\ (TxnDone(n)' <=> TxnDone(n))
    BY <1>3 DEF Kind, TxnDone, OnTxnList, OnList
  <2>3. n # k => (n < dispatchEnd' <=> n < dispatchEnd)
    BY <1>1, <1>2, <1>3
  <2>. USE <1>2, <1>3, <1>4, <1>5, <2>1, <2>2, <2>3
  <2>4. AppliedInv(n)'
    BY DEF AppliedInv
  <2>5. SharedInv(n)'
    BY DEF SharedInv
  <2>6. ReleasedInv(n)'
    BY DEF ReleasedInv
  <2>7. FreedInv(n)'
    BY <1>6 DEF FreedInv, Forgotten
  <2>8. BlockInv(n)'
    BY DEF BlockInv
  <2>9. OrderInv(n)'
    BY DEF OrderInv
  <2>. QED
    BY <2>4, <2>5, <2>6, <2>7, <2>8, <2>9
<1>. QED
  BY <1>2, <1>3, <1>7 DEF RecordInv

\* The startup thread deals with the head h of its list.
AtHeadStep(h) ==
    /\ proc # <<>> /\ h = Head(proc)
    /\ UNCHANGED <<log, dispatchEnd, item, wpc>>
    /\ applied' \in {applied, applied \union {h}}
    /\ freed' \in {freed, freed \union {h}}
    /\ released' \in {released, released \union {h}}
    /\ \A m : m # h => (OnList(m)' <=> OnList(m))
    /\ dpc' = "apply" \/ proc' = proc

LEMMA OtherRecords ==
    ASSUME RecordInv, NEW h, AtHeadStep(h), NEW n \in 1..Len(log), n # h
    PROVE  /\ AppliedInv(n)' /\ SharedInv(n)' /\ ReleasedInv(n)' /\ FreedInv(n)'
           /\ BlockInv(n)' /\ OrderInv(n)'
<1>. USE DEF AtHeadStep
<1>1. /\ AppliedInv(n) /\ SharedInv(n) /\ ReleasedInv(n) /\ FreedInv(n)
      /\ BlockInv(n) /\ OrderInv(n)
  BY DEF RecordInv
<1>2. Kind(n)' = Kind(n) /\ (TxnDone(n)' <=> TxnDone(n))
  BY DEF Kind, TxnDone, OnTxnList
<1>3. \A w, m : (Passed(w, m)' <=> Passed(w, m)) /\ (Met(w, m)' <=> Met(w, m))
  BY SameProgress
<1>4. \A m : Upto(m) => Upto(m)'
  BY DEF Upto
<1>5. ~AtHead(n) /\ (dpc' \in {"meet", "leave"} => ~AtHead(n)')
  BY DEF AtHead
<1>6. (n \in applied' <=> n \in applied) /\ (n \in freed' <=> n \in freed) /\ (n \in released' <=> n \in released)
  OBVIOUS
<1>. USE <1>1, <1>2, <1>3, <1>4, <1>5, <1>6
<1>7. AppliedInv(n)'
  BY DEF AppliedInv
<1>8. SharedInv(n)'
  BY DEF SharedInv
<1>9. ReleasedInv(n)'
  BY DEF ReleasedInv
<1>10. FreedInv(n)'
  BY DEF FreedInv, Forgotten
<1>11. BlockInv(n)'
  BY DEF BlockInv
<1>12. OrderInv(n)'
  BY DEF OrderInv
<1>. QED
  BY <1>7, <1>8, <1>9, <1>10, <1>11, <1>12

LEMMA HeadRecord ==
    ASSUME RecordInv, NEW h \in 1..Len(log), AtHeadStep(h),
           AppliedInv(h)', SharedInv(h)', ReleasedInv(h)', FreedInv(h)', BlockInv(h)', OrderInv(h)'
    PROVE  RecordInv'
<1>1. ASSUME NEW n \in 1..Len(log)
      PROVE  /\ AppliedInv(n)' /\ SharedInv(n)' /\ ReleasedInv(n)' /\ FreedInv(n)'
             /\ BlockInv(n)' /\ OrderInv(n)'
  <2>1. CASE n = h
    BY <2>1
  <2>2. CASE n # h
    BY <2>2, OtherRecords
  <2>. QED
    BY <2>1, <2>2
<1>. QED
  BY <1>1 DEF RecordInv, AtHeadStep

LEMMA HeadProgress ==
    ASSUME NEW h, AtHeadStep(h)
    PROVE  /\ Kind(h)' = Kind(h) /\ log' = log /\ dispatchEnd' = dispatchEnd
           /\ \A w : (Passed(w, h)' <=> Passed(w, h)) /\ (Met(w, h)' <=> Met(w, h))
           /\ UNCHANGED <<item, wpc>>
           /\ \A m : Upto(m) => Upto(m)'
<1>1. UNCHANGED <<log, dispatchEnd, item, wpc>> /\ applied \subseteq applied'
  BY DEF AtHeadStep
<1>2. \A w : (Passed(w, h)' <=> Passed(w, h)) /\ (Met(w, h)' <=> Met(w, h))
  BY <1>1, SameProgress
<1>. QED
  BY <1>1, <1>2 DEF Upto, Kind

LEMMA TxnRecord ==
    ASSUME Unbroken, RedoInv, RecordInv, PhaseInv, EndInv, ProcInv, ProcTxnItem
    PROVE  RecordInv'
<1>1. PICK h : h = Head(proc)
  OBVIOUS
<1>2. Trying /\ Ready(h) /\ proc # <<>> /\ dpc = "apply"
  BY <1>1 DEF ProcTxnItem, Trying
<1>3. /\ h \in 1..Len(log) /\ h \in Nat /\ OnTxnList(log[h]) /\ Cleared(h + 1) /\ Upto(h - 1)
  BY <1>1, <1>2, ReadyHead
<1>4. /\ AppliedInv(h) /\ SharedInv(h) /\ ReleasedInv(h) /\ FreedInv(h) /\ BlockInv(h) /\ OrderInv(h)
  BY <1>3 DEF RecordInv
<1>5. UNCHANGED <<log, dispatchEnd, item, wpc, txnPending, released>>
  BY DEF ProcTxnItem, workerVars
<1>6. CASE Kind(h) \in {"share", "all"}
  <2>1. UNCHANGED <<proc, freed, applied>> /\ dpc' = "meet"
    BY <1>1, <1>6 DEF ProcTxnItem, Goto
  <2>2. AtHeadStep(h)
    BY <1>1, <1>2, <1>5, <2>1 DEF AtHeadStep, OnList
  <2>3. TxnDone(h)' <=> TxnDone(h)
    BY <1>5, <2>1 DEF TxnDone, OnTxnList, OnList
  <2>4. \A w \in log[h].to : Met(w, h)
    <3>1. TAKE w \in log[h].to
    <3>2. w \in Workers /\ w \in Recipients(log[h]) /\ h < h + 1
      BY <1>3, ToRecipient
    <3>. QED
      BY <1>3, <3>2 DEF Cleared, Met
  <2>. USE <1>4, <1>5, <1>6, <2>1, <2>2, <2>3, HeadProgress
  <2>5. AppliedInv(h)'
    BY DEF AppliedInv
  <2>6. SharedInv(h)'
    BY <1>3, <2>4 DEF SharedInv
  <2>7. ReleasedInv(h)'
    BY <1>2 DEF ReleasedInv
  <2>8. FreedInv(h)'
    BY DEF FreedInv, Forgotten
  <2>9. BlockInv(h)' /\ OrderInv(h)'
    BY DEF BlockInv, OrderInv
  <2>. QED
    BY <1>3, <2>2, <2>5, <2>6, <2>7, <2>8, <2>9, HeadRecord
<1>7. CASE Kind(h) \notin {"share", "all"}
  <2>1. /\ applied' = IF Kind(h) = "txn" THEN applied \union {h} ELSE applied
        /\ freed' = IF Kind(h) = "txn" THEN freed \union {h} ELSE freed
        /\ dpc' = "apply"
    BY <1>1, <1>2, <1>7 DEF ProcTxnItem
  <2>2. ~OnList(h)' /\ OnList(h) /\ \A m : m # h => (OnList(m)' <=> OnList(m))
    BY <1>1, <2>1, TakesHead DEF Takes
  <2>3. AtHeadStep(h)
    BY <1>1, <1>2, <1>5, <2>1, <2>2 DEF AtHeadStep
  <2>4. TxnDone(h)'
    BY <1>3, <1>5, <2>2 DEF TxnDone, OnTxnList
  <2>5. Kind(h) = "txn" => log[h].to = {}
    BY <1>3, ToRecipient
  <2>6. Kind(h) \in {"create", "txn", "block"}
    BY <1>3, <1>7 DEF OnTxnList, Kind
  <2>. USE <1>4, <1>5, <2>1, <2>3, <2>4, <2>6, HeadProgress
  <2>7. AppliedInv(h)'
    BY DEF AppliedInv
  <2>8. SharedInv(h)' /\ ReleasedInv(h)'
    BY DEF SharedInv, ReleasedInv
  <2>9. FreedInv(h)'
    BY <2>5 DEF FreedInv, Forgotten
  <2>10. BlockInv(h)'
    BY DEF BlockInv
  <2>11. OrderInv(h)'
    BY <1>3 DEF OrderInv
  <2>. QED
    BY <1>3, <2>3, <2>7, <2>8, <2>9, <2>10, <2>11, HeadRecord
<1>. QED
  BY <1>6, <1>7

LEMMA SharedRecord ==
    ASSUME RedoInv, RecordInv, ApplyShared
    PROVE  RecordInv'
<1>1. PICK h : h = Head(proc)
  OBVIOUS
<1>2. dpc = "meet" /\ proc # <<>> /\ AtHead(h) /\ Kind(h) \in {"share", "all"}
  BY <1>1 DEF ApplyShared, RedoInv, TxnListInv, AtHead
<1>3. h \in 1..Len(log) /\ h \in Nat /\ OnTxnList(log[h])
  BY <1>1, <1>2, HeadLeast
<1>4. /\ AppliedInv(h) /\ SharedInv(h) /\ ReleasedInv(h) /\ FreedInv(h) /\ BlockInv(h) /\ OrderInv(h)
  BY <1>3 DEF RecordInv
<1>5. Upto(h - 1) /\ \A w \in log[h].to : Met(w, h)
  BY <1>2, <1>4 DEF SharedInv
<1>6. UNCHANGED <<log, dispatchEnd, item, wpc, txnPending>> /\ applied' = applied \union {h}
  BY <1>1 DEF ApplyShared, workerVars
<1>7. CASE Kind(h) = "share"
  <2>1. UNCHANGED <<proc, freed>> /\ dpc' = "leave" /\ released' = released \union {h}
    BY <1>1, <1>7 DEF ApplyShared, Goto
  <2>2. AtHeadStep(h)
    BY <1>1, <1>2, <1>6, <2>1 DEF AtHeadStep, OnList
  <2>3. (TxnDone(h)' <=> TxnDone(h)) /\ AtHead(h)'
    BY <1>2, <1>6, <2>1 DEF TxnDone, OnTxnList, OnList, AtHead
  <2>. USE <1>4, <1>5, <1>6, <1>7, <2>1, <2>2, <2>3, HeadProgress
  <2>4. AppliedInv(h)' /\ OrderInv(h)'
    BY DEF AppliedInv, OrderInv
  <2>5. SharedInv(h)'
    BY DEF SharedInv
  <2>6. ReleasedInv(h)'
    BY DEF ReleasedInv
  <2>7. FreedInv(h)'
    BY DEF FreedInv, Forgotten
  <2>8. BlockInv(h)'
    BY DEF BlockInv
  <2>. QED
    BY <1>3, <2>2, <2>4, <2>5, <2>6, <2>7, <2>8, HeadRecord
<1>8. CASE Kind(h) = "all"
  <2>1. freed' = freed \union {h} /\ dpc' = "apply" /\ released' = released
    BY <1>1, <1>8 DEF ApplyShared, Goto
  <2>2. ~OnList(h)' /\ \A m : m # h => (OnList(m)' <=> OnList(m))
    BY <1>1, <2>1, TakesHead DEF Takes
  <2>3. AtHeadStep(h)
    BY <1>1, <1>2, <1>6, <2>1, <2>2 DEF AtHeadStep
  <2>4. TxnDone(h)'
    BY <1>3, <1>6, <2>2 DEF TxnDone, OnTxnList
  <2>5. \A w \in log[h].to : Passed(w, h)
    <3>1. TAKE w \in log[h].to
    <3>2. w \in Workers /\ WorkerInv(w)
      BY <1>3, ToRecipient DEF RedoInv
    <3>3. ~Waits(w, h)
      BY <1>8, <3>2 DEF Waits, WorkerInv
    <3>. QED
      BY <1>5, <3>3 DEF Met
  <2>. USE <1>4, <1>5, <1>6, <1>8, <2>1, <2>3, <2>4, HeadProgress
  <2>6. AppliedInv(h)' /\ OrderInv(h)'
    BY DEF AppliedInv, OrderInv
  <2>7. SharedInv(h)' /\ ReleasedInv(h)'
    BY DEF SharedInv, ReleasedInv
  <2>8. FreedInv(h)'
    BY <2>5 DEF FreedInv, Forgotten
  <2>9. BlockInv(h)'
    BY DEF BlockInv
  <2>. QED
    BY <1>3, <2>3, <2>6, <2>7, <2>8, <2>9, HeadRecord
<1>. QED
  BY <1>2, <1>7, <1>8

LEMMA LeaveRecord ==
    ASSUME RedoInv, RecordInv, LeaveShared
    PROVE  RecordInv'
<1>1. PICK h : h = Head(proc)
  OBVIOUS
<1>2. dpc = "leave" /\ proc # <<>> /\ AtHead(h) /\ Kind(h) = "share"
  BY <1>1 DEF LeaveShared, RedoInv, TxnListInv, AtHead
<1>3. h \in 1..Len(log) /\ h \in Nat /\ OnTxnList(log[h])
  BY <1>1, <1>2, HeadLeast
<1>4. /\ AppliedInv(h) /\ SharedInv(h) /\ ReleasedInv(h) /\ FreedInv(h) /\ BlockInv(h) /\ OrderInv(h)
  BY <1>3 DEF RecordInv
<1>5. h \in applied /\ \A w \in log[h].to : Met(w, h)
  BY <1>2, <1>4 DEF SharedInv
<1>6. /\ UNCHANGED <<log, dispatchEnd, item, wpc, txnPending, applied, released>> /\ dpc' = "apply"
      /\ freed' = IF refCount[h] = 1 THEN freed \union {h} ELSE freed
  BY <1>1 DEF LeaveShared, Unref, Goto, workerVars
<1>7. OnList(h) /\ ~OnList(h)' /\ \A m : m # h => (OnList(m)' <=> OnList(m))
  BY <1>1, <1>6, TakesHead DEF Takes
<1>8. AtHeadStep(h)
  BY <1>1, <1>2, <1>6, <1>7 DEF AtHeadStep
<1>9. TxnDone(h)' /\ ~TxnDone(h)
  BY <1>3, <1>6, <1>7 DEF TxnDone, OnTxnList
<1>10. refCount[h] = 1 <=> \A w \in log[h].to : Passed(w, h)
  <2>1. /\ Counted(h) = {v \in Workers : h = item[v] /\ wpc[v] \in {"publish", "wait"}}
        /\ Counted(h) \subseteq log[h].to
        /\ \A v \in Counted(h) : ~Passed(v, h)
        /\ refCount[h] = Cardinality(Counted(h)) + IF TxnCounted(h) THEN 1 ELSE 0
        /\ log[h].to \subseteq Workers
    BY <1>2, <1>3, CountedWorkers
  <2>2. TxnCounted(h)
    BY <1>2 DEF TxnCounted
  <2>3. Cardinality(Counted(h)) \in Nat /\ (Cardinality(Counted(h)) = 0 <=> Counted(h) = {})
    BY CountedFinite, FS_EmptySet
  <2>4. Counted(h) = {} <=> \A w \in log[h].to : Passed(w, h)
    BY <1>5, <2>1 DEF Met, Waits
  <2>. QED
    BY <2>1, <2>2, <2>3, <2>4
<1>. USE <1>2, <1>4, <1>5, <1>6, <1>8, <1>9, HeadProgress
<1>11. AppliedInv(h)' /\ OrderInv(h)'
  BY DEF AppliedInv, OrderInv
<1>12. SharedInv(h)' /\ ReleasedInv(h)'
  BY DEF SharedInv, ReleasedInv
<1>13. FreedInv(h)'
  BY <1>10 DEF FreedInv, Forgotten
<1>14. BlockInv(h)'
  BY DEF BlockInv
<1>. QED
  BY <1>3, <1>8, <1>11, <1>12, <1>13, <1>14, HeadRecord

-----------------------------------------------------------------------------
(* The replay position, the barriers and the end of recovery.              *)

LEMMA AppliedGrows ==
    ASSUME Next
    PROVE  applied \subseteq applied' /\ \A n : Upto(n) => Upto(n)'
<1>1. CASE \E w \in Workers : Worker(w)
  BY <1>1, WorkerItems DEF Upto
<1>2. CASE Startup
  <2>1. applied \subseteq applied'
    BY <1>2 DEF Startup, Dispatch, DealWithSegpageSyncRecord, SegPut, SegApply, PutPending, PutFailed,
         PutDone, NotBusy, TryTxn, ProcTxnItem, ApplyShared, LeaveShared, TxnNotReady,
         TxnListEmpty, CheckDispatchCount, Respread, WaitForRecord, EndOfLog, StopAtTarget,
         Finish, SendPageRedoEndMark, EndMarksSent, Join, itemVars
  <2>. QED
    BY <2>1 DEF Upto
<1>3. CASE Done
  BY <1>3 DEF Done, vars, itemVars, Upto
<1>. QED
  BY <1>1, <1>2, <1>3 DEF Next

\* What the startup thread reports for the head of its list is replayed.
LEMMA HeadReplayed ==
    ASSUME Unbroken, RedoInv, RecordInv, PhaseInv, EndInv, ProcInv, Takes, NEW h, h = Head(proc)
    PROVE  h \in Nat /\ Upto(h)' /\ (\E s : SetXLogReplayRecPtr(s, h + 1)) /\ ahead' = ahead
<1>1. h \in 1..Len(log) /\ h \in Nat /\ OnTxnList(log[h]) /\ proc # <<>>
  BY TakesHead, HeadLeast
<1>2. AppliedInv(h) /\ SharedInv(h) /\ applied \subseteq applied'
  BY <1>1, AppliedGrows DEF RecordInv, Takes, Next, Startup
<1>3. (\E s : SetXLogReplayRecPtr(s, h + 1)) /\ ahead' = ahead
  BY DEF Takes, ProcTxnItem, ApplyShared, LeaveShared, Goto, End
<1>4. Upto(h - 1) /\ h \in applied'
  <2>1. CASE ProcTxnItem
    <3>1. Trying /\ Ready(h) /\ Kind(h) \notin {"share", "all"}
      BY <2>1 DEF ProcTxnItem, Takes, Goto
    <3>2. Cleared(h + 1) /\ Upto(h - 1)
      BY <3>1, ReadyHead
    <3>3. CASE Kind(h) = "txn"
      BY <2>1, <3>2, <3>3 DEF ProcTxnItem
    <3>4. CASE Kind(h) \in {"create", "block"}
      <4>1. PICK w \in log[h].to : w \in Workers /\ w \in Recipients(log[h])
        BY <1>1, <3>4, LogRecord, RecordKinds DEF RedoInv, Kind
      <4>2. Passed(w, h)
        BY <1>1, <3>2, <3>4, <4>1 DEF Cleared
      <4>. QED
        BY <1>2, <3>2, <3>4, <4>1, <4>2 DEF AppliedInv
    <3>. QED
      BY <1>1, <3>1, <3>3, <3>4 DEF OnTxnList, Kind
  <2>2. CASE ApplyShared
    BY <1>1, <1>2, <2>2 DEF ApplyShared, SharedInv, AtHead
  <2>3. CASE LeaveShared
    BY <1>1, <1>2, <2>3 DEF LeaveShared, SharedInv, AtHead
  <2>. QED
    BY <2>1, <2>2, <2>3 DEF Takes
<1>5. Upto(h)'
  BY <1>1, <1>2, <1>4 DEF Upto
<1>. QED
  BY <1>1, <1>3, <1>5

LEMMA ReportInv ==
    ASSUME RedoInv, ReplayInv, Next, NEW e \in Nat, \E s : SetXLogReplayRecPtr(s, e), Upto(e - 2)',
           ~ahead' => ~ahead /\ Upto(e - 1)'
    PROVE  ReplayInv'
<1>1. replayed' = replayed \/ replayed' = e
  BY DEF SetXLogReplayRecPtr
<1>2. \A n : Upto(n) => Upto(n)'
  BY AppliedGrows
<1>3. CASE replayed' = replayed
  <2>1. Upto(replayed - 2)' /\ (~ahead' => Upto(replayed - 1)')
    <3>1. PICK r : r = replayed
      OBVIOUS
    <3>2. Upto(r - 2)' /\ (~ahead' => Upto(r - 1)')
      BY <1>2, <3>1 DEF ReplayInv
    <3>. QED
      BY <1>3, <3>1, <3>2 DEF Upto
  <2>. QED
    BY <2>1 DEF ReplayInv
<1>4. CASE replayed' = e
  BY <1>4 DEF ReplayInv, Upto
<1>. QED
  BY <1>1, <1>3, <1>4

LEMMA ReplayStep ==
    ASSUME Unbroken, RedoInv, RecordInv, PhaseInv, FlushInv, EndInv, GivenInv, ProcInv, LastInv,
           ReplayInv, Next
    PROVE  ReplayInv'
<1>1. \A n : Upto(n) => Upto(n)'
  BY AppliedGrows
<1>2. CASE UNCHANGED <<replayed, ahead>>
  <2>1. PICK r : r = replayed
    OBVIOUS
  <2>2. Upto(r - 2)' /\ (~ahead' => Upto(r - 1)')
    BY <1>1, <1>2, <2>1 DEF ReplayInv
  <2>. QED
    BY <1>2, <2>1, <2>2 DEF ReplayInv, Upto
<1>3. CASE Takes
  <2>1. PICK h : h = Head(proc)
    OBVIOUS
  <2>2. h \in Nat /\ Upto(h)' /\ (\E s : SetXLogReplayRecPtr(s, h + 1)) /\ ahead' = ahead
    BY <1>3, <2>1, HeadReplayed
  <2>3. PICK e \in Nat : e = h + 1
    BY <2>2
  <2>4. Upto(e - 1)' /\ Upto(e - 2)' /\ (\E s : SetXLogReplayRecPtr(s, e))
    <3>1. Upto(h - 1)'
      BY <2>2 DEF Upto
    <3>2. e - 1 = h /\ e - 2 = h - 1
      BY <2>2, <2>3
    <3>. QED
      BY <2>2, <2>3, <3>1, <3>2
  <2>. QED
    BY <2>2, <2>4, ReportInv
<1>4. CASE TxnNotReady /\ ~UNCHANGED replayed
  <2>1. PICK e : e = GetReplayedRecPtrFromWorkers
    OBVIOUS
  <2>2. Trying /\ force /\ ~Ready(Head(proc)) /\ (\E s : SetXLogReplayRecPtr(s, e)) /\ ahead' = ahead
    BY <1>4, <2>1 DEF TxnNotReady
  <2>3. e \in Nat /\ Upto(e - 1)
    BY <2>1, <2>2, WaitReport
  <2>4. Upto(e - 2)
    BY <2>3, UptoLess
  <2>. QED
    BY <1>1, <2>2, <2>3, <2>4, ReportInv
<1>5. CASE TxnListEmpty
  <2>1. PICK e : e = Min({GetReplayedRecPtrFromWorkers, dispatchEnd})
    OBVIOUS
  <2>2. dpc = "apply" /\ Busy /\ proc = <<>> /\ (\E s : SetXLogReplayRecPtr(s, e)) /\ ahead' = (ahead \/ Drained)
    BY <1>5, <2>1 DEF TxnListEmpty
  <2>3. e \in Nat /\ Upto(e - 2) /\ (~Drained => Upto(e - 1))
    BY <2>1, <2>2, EmptyReport
  <2>4. ~ahead' => ~ahead /\ ~Drained
    BY <2>2
  <2>. QED
    BY <1>1, <2>2, <2>3, <2>4, ReportInv
<1>6. CASE (ProcTxnItem \/ ApplyShared \/ LeaveShared) /\ ~Takes
  <2>1. UNCHANGED <<replayed, ahead>>
    BY <1>6 DEF Takes, ProcTxnItem, ApplyShared, LeaveShared, Goto, Trying
  <2>. QED
    BY <1>2, <2>1
<1>7. CASE TxnNotReady /\ UNCHANGED replayed
  BY <1>2, <1>7 DEF TxnNotReady
<1>8. CASE \E w \in Workers : Worker(w)
  BY <1>2, <1>8, WorkerView
<1>9. CASE Dispatch \/ DealWithSegpageSyncRecord \/ SegPut \/ SegApply \/ PutPending \/ PutFailed
           \/ PutDone \/ NotBusy \/ TryTxn
  BY <1>2, <1>9 DEF Dispatch, DealWithSegpageSyncRecord, SegPut, SegApply, PutPending, PutFailed,
         PutDone, NotBusy, TryTxn
<1>10. CASE CheckDispatchCount \/ Respread \/ WaitForRecord \/ EndOfLog \/ StopAtTarget
            \/ Finish \/ SendPageRedoEndMark \/ EndMarksSent \/ Join \/ Done
  BY <1>2, <1>10 DEF CheckDispatchCount, Respread, WaitForRecord, EndOfLog, StopAtTarget,
         Finish, SendPageRedoEndMark, EndMarksSent, Join, Done, vars
<1>. QED
  BY <1>3, <1>4, <1>5, <1>6, <1>7, <1>8, <1>9, <1>10 DEF Next, Startup

\* ApplyReadyTxnLogRecords with forceAll returns when everything dispatched is replayed.
LEMMA FullRound ==
    ASSUME Unbroken, RedoInv, RecordInv, PhaseInv, FlushInv, EndInv, GivenInv, LastInv,
           NotBusy \/ TxnNotReady \/ TxnListEmpty, force, dpc' # "apply"
    PROVE  /\ dpc' = ret /\ Upto(dispatchEnd - 1)
           /\ \A w \in Workers : \A m \in 1..Len(log) :
                 m < dispatchEnd /\ w \in Recipients(log[m]) => m <= item[w]
<1>1. dpc = "apply"
  BY DEF NotBusy, TxnNotReady, TxnListEmpty, Trying
<1>2. ret # "put" /\ ~Drained
  BY <1>1 DEF PhaseInv, Applying, Drained
<1>3. TxnListEmpty
  BY <1>1, <1>2 DEF NotBusy, Busy, TxnNotReady, startupVars
<1>4. PICK e : e = Min({GetReplayedRecPtrFromWorkers, dispatchEnd})
  OBVIOUS
<1>5. Busy /\ proc = <<>> /\ Return /\ ~(e < dispatchEnd)
  BY <1>1, <1>3, <1>4 DEF TxnListEmpty, startupVars
<1>6. e \in Nat /\ e <= dispatchEnd /\ Upto(e - 1) /\ Cleared(e)
  BY <1>1, <1>2, <1>4, <1>5, EmptyReport
<1>7. dispatchEnd \in Nat
  BY DEF RedoInv, TypeInv
<1>8. e = dispatchEnd
  BY <1>5, <1>6, <1>7
<1>9. ASSUME NEW w \in Workers, NEW m \in 1..Len(log), m < dispatchEnd, w \in Recipients(log[m])
      PROVE  m <= item[w]
  <2>1. Passed(w, m) \/ Waits(w, m)
    BY <1>6, <1>8, <1>9 DEF Cleared
  <2>2. m \in Nat /\ item[w] \in Nat
    BY LogRecord, PendingLsn DEF RedoInv
  <2>. QED
    BY <2>1, <2>2 DEF Passed, Waits
<1>. QED
  BY <1>5, <1>6, <1>8, <1>9 DEF Return, Goto

\* A barrier is waited for until it is replayed.
LEMMA SyncStep ==
    ASSUME Unbroken, RedoInv, RecordInv, PhaseInv, FlushInv, EndInv, GivenInv, LastInv,
           Next, ~Dispatch, ~DealWithSegpageSyncRecord, SyncPhase, NEW k, k = Len(log)
    PROVE  SyncPhase' \/ Upto(k)'
<1>. USE DEF SyncPhase, SegPhase, PutPhase, Applying, Goto, Flush, Apply, startupVars
<1>1. CASE SegPut \/ PutPending
  BY <1>1 DEF SegPut, PutPending
<1>2. CASE SegApply
  <2>1. k \in Nat /\ Upto(k - 1)
    BY <1>2, SegReady DEF SegApply, RedoInv, TypeInv
  <2>2. applied' = applied \union {k}
    BY <1>2 DEF SegApply
  <2>. QED
    BY <2>1, <2>2 DEF Upto
<1>3. CASE PutFailed \/ PutDone
  BY <1>3 DEF PutFailed, PutDone, PhaseInv
<1>4. CASE NotBusy \/ TxnNotReady \/ TxnListEmpty
  <2>1. dpc = "apply" /\ (Return \/ UNCHANGED startupVars)
    BY <1>4 DEF NotBusy, TxnNotReady, TxnListEmpty, Trying
  <2>2. CASE UNCHANGED startupVars
    BY <2>2
  <2>3. CASE Return /\ ret = "put"
    <3>1. dpc' = "put" /\ after' = after
      BY <2>3 DEF Return
    <3>2. full' = full
      BY <2>3 DEF Return, RedoInv, TypeInv
    <3>. QED
      BY <2>1, <2>3, <3>1, <3>2 DEF PhaseInv
  <2>4. CASE Return /\ ret = "drain"
    BY <2>4 DEF Return
  <2>5. CASE Return /\ ret \notin {"put", "drain"}
    <3>1. force /\ ~SegPhase
      BY <2>1, <2>5
    <3>2. dpc' = ret /\ ret # "apply"
      BY <2>5 DEF Return, RedoInv, ReturnInv, ReturnPoint
    <3>3. Upto(dispatchEnd - 1)
      BY <1>4, <3>1, <3>2, FullRound
    <3>4. dispatchEnd - 1 = k
      BY <3>1 DEF EndInv, RedoInv, TypeInv
    <3>. QED
      BY <3>3, <3>4, AppliedGrows
  <2>. QED
    BY <2>1, <2>2, <2>3, <2>4, <2>5
<1>5. CASE TryTxn \/ ProcTxnItem \/ ApplyShared \/ LeaveShared
  <2>1. UNCHANGED <<full, force, ret, after>> /\ Applying /\ Applying'
    BY <1>5 DEF TryTxn, ProcTxnItem, ApplyShared, LeaveShared, Trying
  <2>. QED
    BY <2>1
<1>6. CASE CheckDispatchCount \/ Respread \/ WaitForRecord \/ EndOfLog \/ StopAtTarget
           \/ Finish \/ SendPageRedoEndMark \/ EndMarksSent \/ Join
  BY <1>6 DEF CheckDispatchCount, Respread, WaitForRecord, EndOfLog, StopAtTarget,
         Finish, SendPageRedoEndMark, EndMarksSent, Join
<1>7. CASE (\E w \in Workers : Worker(w)) \/ Done
  <2>1. UNCHANGED <<dpc, full, force, ret, after>>
    BY <1>7, WorkerView DEF Done, vars
  <2>. QED
    BY <2>1
<1>. QED
  BY <1>1, <1>2, <1>3, <1>4, <1>5, <1>6, <1>7 DEF Next, Startup

\* Where the startup thread goes from a full round.
LEMMA RoundEnds ==
    ASSUME RedoInv, PhaseInv, Next, dpc' \in {"respread", "join"}, dpc' # dpc
    PROVE  (NotBusy \/ TxnNotReady \/ TxnListEmpty) /\ force /\ dpc = "apply" /\ dpc' = ret
<1>. USE DEF Goto, Flush, Apply, FlushBatch, startupVars
<1>1. ~Dispatch /\ ~DealWithSegpageSyncRecord /\ ~SegPut /\ ~SegApply
  BY DEF Dispatch, DealWithSegpageSyncRecord, SegPut, SegApply
<1>2. ~PutPending /\ ~PutFailed /\ ~PutDone /\ ~TryTxn /\ ~ProcTxnItem /\ ~ApplyShared /\ ~LeaveShared
  BY DEF PutPending, PutFailed, PutDone, TryTxn, ProcTxnItem, ApplyShared, LeaveShared
<1>3. ~CheckDispatchCount /\ ~Respread /\ ~WaitForRecord /\ ~EndOfLog /\ ~StopAtTarget
  BY DEF CheckDispatchCount, Respread, WaitForRecord, EndOfLog, StopAtTarget, ProcTxnWorkLoad
<1>4. ~Finish /\ ~SendPageRedoEndMark /\ ~EndMarksSent /\ ~Join
  BY DEF Finish, SendPageRedoEndMark, EndMarksSent, Join
<1>5. ~(\E w \in Workers : Worker(w)) /\ ~Done
  BY WorkerView DEF Done, vars
<1>6. NotBusy \/ TxnNotReady \/ TxnListEmpty
  BY <1>1, <1>2, <1>3, <1>4, <1>5 DEF Next, Startup
<1>7. dpc = "apply" /\ dpc' = ret
  BY <1>6 DEF NotBusy, TxnNotReady, TxnListEmpty, Trying, Return
<1>. QED
  BY <1>6, <1>7 DEF PhaseInv, Applying

LEMMA BarrierStep ==
    ASSUME Unbroken, RedoInv, RecordInv, PhaseInv, FlushInv, EndInv, GivenInv, LastInv, BarrierInv,
           Next
    PROVE  BarrierInv'
<1>1. \A n : Upto(n) => Upto(n)'
  BY AppliedGrows
<1>2. Len(log) \in Nat
  BY DEF RedoInv, TypeInv
<1>3. ASSUME NEW n \in 1..Len(log'), log'[n].sync \/ Kind(n)' = "seg"
      PROVE  Upto(n)' \/ (n = Len(log') /\ SyncPhase')
  <2>1. CASE Dispatch \/ DealWithSegpageSyncRecord
    <3>1. PICK r \in NextRecords :
             /\ log' = Append(log, r)
             /\ \/ Dispatch /\ r.kind # "seg" /\ (r.sync => Flush(TRUE, "read"))
                \/ DealWithSegpageSyncRecord /\ r.kind = "seg"
      <4>1. CASE Dispatch
        <5>1. PICK r \in NextRecords : log' = Append(log, r) /\ r.kind # "seg" /\ (r.sync => Flush(TRUE, "read"))
          BY <4>1 DEF Dispatch
        <5>. QED
          BY <4>1, <5>1
      <4>2. CASE DealWithSegpageSyncRecord
        BY <4>2 DEF DealWithSegpageSyncRecord
      <4>. QED
        BY <2>1, <4>1, <4>2
    <3>2. /\ Len(log') = Len(log) + 1 /\ log'[Len(log) + 1] = r
          /\ \A m \in 1..Len(log) : log'[m] = log[m]
      BY <3>1, NextRecordType DEF RedoInv
    <3>3. CASE n = Len(log')
      <4>1. r.sync \/ r.kind = "seg"
        BY <1>3, <3>2, <3>3 DEF Kind
      <4>2. (Dispatch /\ Flush(TRUE, "read")) \/ DealWithSegpageSyncRecord
        BY <3>1, <4>1
      <4>3. SyncPhase'
        BY <4>2 DEF DealWithSegpageSyncRecord, Flush, Goto, SyncPhase, SegPhase, PutPhase
      <4>. QED
        BY <3>3, <4>3
    <3>4. CASE n # Len(log')
      <4>1. n \in 1..Len(log) /\ log'[n] = log[n]
        BY <1>2, <3>2, <3>4
      <4>2. ~SyncPhase
        BY <2>1 DEF Dispatch, DealWithSegpageSyncRecord, SyncPhase, SegPhase, PutPhase, Applying
      <4>. QED
        BY <1>1, <1>3, <4>1, <4>2 DEF BarrierInv, Kind
    <3>. QED
      BY <3>3, <3>4
  <2>2. CASE ~Dispatch /\ ~DealWithSegpageSyncRecord
    <3>1. log' = log
      BY <2>2, LogStep DEF RedoInv
    <3>2. Upto(n) \/ (n = Len(log) /\ SyncPhase)
      BY <1>3, <3>1 DEF BarrierInv, Kind
    <3>3. CASE n = Len(log) /\ SyncPhase
      BY <2>2, <3>1, <3>3, SyncStep
    <3>. QED
      BY <1>1, <3>2, <3>3
  <2>. QED
    BY <2>1, <2>2
<1>4. ASSUME dpc' = "respread" PROVE Upto(Len(log))'
  <2>1. CASE dpc = "respread"
    <3>1. log' = log
      BY <1>2, <2>1, LogStep DEF RedoInv, Dispatch, DealWithSegpageSyncRecord
    <3>2. PICK k : k = Len(log)
      OBVIOUS
    <3>3. Upto(k)'
      BY <1>1, <2>1, <3>2 DEF BarrierInv
    <3>. QED
      BY <3>1, <3>2, <3>3 DEF Upto
  <2>2. CASE dpc # "respread"
    <3>1. /\ NotBusy \/ TxnNotReady \/ TxnListEmpty
          /\ force /\ dpc = "apply" /\ ret = "respread"
      BY <1>4, <2>2, RoundEnds
    <3>2. log' = log
      BY <3>1 DEF NotBusy, TxnNotReady, TxnListEmpty
    <3>3. Upto(dispatchEnd - 1)
      BY <1>4, <3>1, FullRound
    <3>4. dispatchEnd - 1 = Len(log)
      BY <1>2, <3>1 DEF EndInv, SegPhase, PutPhase
    <3>5. PICK k : k = Len(log)
      OBVIOUS
    <3>6. Upto(k)'
      BY <1>1, <3>3, <3>4, <3>5
    <3>. QED
      BY <3>2, <3>5, <3>6 DEF Upto
  <2>. QED
    BY <2>1, <2>2
<1>5. Upto(moved)'
  <2>1. CASE Respread
    <3>1. PICK k : k = Len(log)
      OBVIOUS
    <3>2. Upto(k)' /\ moved' = k
      BY <1>1, <2>1, <3>1 DEF Respread, BarrierInv
    <3>. QED
      BY <3>2 DEF Upto
  <2>2. CASE ~Respread
    <3>1. moved' = moved
      <4>1. CASE Startup
        BY <2>2, <4>1 DEF Startup, Dispatch, DealWithSegpageSyncRecord, SegPut, SegApply, PutPending,
         PutFailed, PutDone, NotBusy, TryTxn, ProcTxnItem, ApplyShared, LeaveShared, TxnNotReady,
         TxnListEmpty, CheckDispatchCount, WaitForRecord, EndOfLog, StopAtTarget,
         Finish, SendPageRedoEndMark, EndMarksSent, Join
      <4>2. CASE (\E w \in Workers : Worker(w)) \/ Done
        BY <4>2, WorkerView DEF Done, vars
      <4>. QED
        BY <4>1, <4>2 DEF Next
    <3>2. PICK k : k = moved
      OBVIOUS
    <3>3. Upto(k)'
      BY <1>1, <3>2 DEF BarrierInv
    <3>. QED
      BY <3>1, <3>2, <3>3 DEF Upto
  <2>. QED
    BY <2>1, <2>2
<1>. QED
  BY <1>3, <1>4, <1>5 DEF BarrierInv

LEMMA StopStep ==
    ASSUME Unbroken, RedoInv, RedoInv', RecordInv, PhaseInv, FlushInv, EndInv, GivenInv, LastInv,
           StopInv, Next
    PROVE  StopInv'
<1>1. \A n : Upto(n) => Upto(n)'
  BY AppliedGrows
<1>2. Len(log) \in Nat
  BY DEF RedoInv, TypeInv
<1>3. ASSUME NEW w \in Workers, log' = log, batch' = batch, item'[w] >= item[w],
             \A m \in 1..Len(log) : w \in Recipients(log[m]) => m <= item[w]
      PROVE  Later(w)' = {}
  <2>1. (Later(w) = {n \in 1..Len(log) : w \in Recipients(log[n]) /\ n > item[w]})'
    BY DEF RedoInv, ListInv
  <2>2. item[w] \in Nat /\ item'[w] \in Nat
    BY LsnNat DEF RedoInv, TypeInv
  <2>3. ASSUME NEW n \in 1..Len(log), w \in Recipients(log[n]) PROVE ~(n > item'[w])
    <3>1. n <= item[w] /\ n \in Nat
      BY <1>3, <2>3
    <3>. QED
      BY <1>3, <2>2, <3>1
  <2>4. {n \in 1..Len(log) : w \in Recipients(log[n]) /\ n > item[w]}'
            = {n \in 1..Len(log) : w \in Recipients(log[n]) /\ n > item'[w]}
    BY <1>3 DEF Recipients
  <2>. QED
    BY <2>1, <2>3, <2>4
<1>4. CASE dpc \in {"join", "done"}
  <2>1. PICK k : k = Len(log)
    OBVIOUS
  <2>2. Upto(k)' /\ \A w \in Workers : Later(w) = {}
    BY <1>1, <1>4, <2>1 DEF StopInv
  <2>3. ASSUME NEW w \in Workers, NEW m \in 1..Len(log), w \in Recipients(log[m]) PROVE m <= item[w]
    <3>1. m \notin Later(w) /\ m \in Nat /\ item[w] \in Nat
      BY <2>2, LsnNat DEF RedoInv, TypeInv
    <3>. QED
      BY <2>3, <3>1 DEF RedoInv, ListInv
  <2>4. CASE Startup
    <3>1. Join
      BY <1>4, <2>4 DEF Startup, Dispatch, DealWithSegpageSyncRecord, SegPut, SegApply, PutPending,
         PutFailed, PutDone, NotBusy, TryTxn, ProcTxnItem, ApplyShared, LeaveShared, TxnNotReady,
         TxnListEmpty, Trying, CheckDispatchCount, Respread, WaitForRecord, EndOfLog, StopAtTarget,
         Finish, SendPageRedoEndMark, EndMarksSent
    <3>2. UNCHANGED <<log, batch, item, wpc>> /\ \A w \in Workers : wpc[w] = "exit"
      BY <3>1 DEF Join, workerVars
    <3>3. \A w \in Workers : Later(w)' = {}
      <4>1. TAKE w \in Workers
      <4>2. item[w] \in Nat
        BY PendingLsn
      <4>. QED
        BY <1>3, <2>3, <3>2, <4>2
    <3>. QED
      BY <2>1, <2>2, <3>2, <3>3 DEF StopInv, Upto
  <2>5. CASE \E w \in Workers : Worker(w)
    <3>1. PICK w \in Workers : Worker(w)
      BY <2>5
    <3>2. UNCHANGED <<log, batch, dpc>>
      BY <3>1, WorkerView
    <3>3. \A v \in Workers : item'[v] >= item[v]
      <4>1. TAKE v \in Workers
      <4>2. item[v] \in Nat
        BY PendingLsn
      <4>3. CASE v # w
        BY <3>1, <4>2, <4>3, WorkerSame DEF RedoInv
      <4>4. CASE v = w
        <5>1. CASE Fetch(w)
          <6>1. PICK h : h = Head(List(w))
            OBVIOUS
          <6>2. h \in Nat /\ h > item[w] /\ item'[w] = h
            BY <5>1, <6>1, FetchLeast DEF Fetch, RedoInv, TypeInv
          <6>. QED
            BY <4>2, <4>4, <6>2
        <5>2. CASE ~Fetch(w)
          <6>1. item' = item
            BY <3>1, <5>2 DEF Worker, Pop, Exit, ReadTransed, ApplySingle, Reach, Publish, Leave, Unblock
          <6>. QED
            BY <4>2, <6>1
        <5>. QED
          BY <5>1, <5>2
      <4>. QED
        BY <4>3, <4>4
    <3>4. \A v \in Workers : Later(v)' = {}
      BY <1>3, <2>3, <3>2, <3>3
    <3>5. dpc # "done"
      <4>1. wpc[w] # "exit"
        BY <3>1 DEF Worker, Fetch, Pop, Exit, ReadTransed, ApplySingle, Reach, Publish, Leave, Unblock
      <4>. QED
        BY <4>1 DEF StopInv
    <3>. QED
      BY <2>1, <2>2, <3>2, <3>4, <3>5 DEF StopInv, Upto
  <2>6. CASE Done
    <3>1. UNCHANGED <<log, batch, item, wpc, dpc>>
      BY <2>6 DEF Done, vars, workerVars, startupVars
    <3>2. \A w \in Workers : Later(w)' = {}
      <4>1. TAKE w \in Workers
      <4>2. item[w] \in Nat
        BY PendingLsn
      <4>. QED
        BY <1>3, <2>3, <3>1, <4>2
    <3>. QED
      BY <2>1, <2>2, <3>1, <3>2 DEF StopInv, Upto
  <2>. QED
    BY <2>4, <2>5, <2>6 DEF Next
<1>5. CASE dpc \notin {"join", "done"} /\ dpc' = "join"
  <2>1. /\ NotBusy \/ TxnNotReady \/ TxnListEmpty
        /\ force /\ dpc = "apply" /\ ret = "join"
    BY <1>5, RoundEnds
  <2>2. UNCHANGED <<log, batch, item>>
    BY <2>1 DEF NotBusy, TxnNotReady, TxnListEmpty, workerVars
  <2>3. /\ Upto(dispatchEnd - 1)
        /\ \A w \in Workers : \A m \in 1..Len(log) :
              m < dispatchEnd /\ w \in Recipients(log[m]) => m <= item[w]
    BY <1>5, <2>1, FullRound
  <2>4. dispatchEnd = Len(log) + 1
    BY <2>1 DEF EndInv, SegPhase, PutPhase
  <2>5. PICK k : k = Len(log)
    OBVIOUS
  <2>6. Upto(k)'
    BY <1>1, <1>2, <2>3, <2>4, <2>5
  <2>7. \A w \in Workers : Later(w)' = {}
    <3>1. TAKE w \in Workers
    <3>2. item[w] \in Nat
      BY PendingLsn
    <3>3. ASSUME NEW m \in 1..Len(log), w \in Recipients(log[m]) PROVE m <= item[w]
      BY <1>2, <2>3, <2>4, <3>3
    <3>. QED
      BY <1>3, <2>2, <3>2, <3>3
  <2>. QED
    BY <1>5, <2>2, <2>5, <2>6, <2>7 DEF StopInv, Upto
<1>6. CASE dpc \notin {"join", "done"} /\ dpc' # "join"
  <2>1. dpc' # "done"
    <3>. USE <1>6 DEF Goto, Flush, Apply, FlushBatch, Return, startupVars, RedoInv, ReturnInv, ReturnPoint
    <3>1. CASE Dispatch \/ DealWithSegpageSyncRecord \/ SegPut \/ SegApply
      BY <3>1 DEF Dispatch, DealWithSegpageSyncRecord, SegPut, SegApply
    <3>2. CASE PutPending \/ PutFailed \/ PutDone \/ NotBusy \/ TryTxn \/ ProcTxnItem \/ ApplyShared \/ LeaveShared
      BY <3>2 DEF PutPending, PutFailed, PutDone, NotBusy, TryTxn, ProcTxnItem, ApplyShared, LeaveShared
    <3>3. CASE TxnNotReady \/ TxnListEmpty
      BY <3>3 DEF TxnNotReady, TxnListEmpty
    <3>4. CASE CheckDispatchCount \/ Respread \/ WaitForRecord \/ EndOfLog \/ StopAtTarget
      BY <3>4 DEF CheckDispatchCount, Respread, WaitForRecord, EndOfLog, StopAtTarget, ProcTxnWorkLoad
    <3>5. CASE Finish \/ SendPageRedoEndMark \/ EndMarksSent \/ Join
      BY <3>5 DEF Finish, SendPageRedoEndMark, EndMarksSent, Join
    <3>6. CASE (\E w \in Workers : Worker(w)) \/ Done
      BY <3>6, WorkerView DEF Done, vars
    <3>. QED
      BY <3>1, <3>2, <3>3, <3>4, <3>5, <3>6 DEF Next, Startup
  <2>. QED
    BY <1>6, <2>1 DEF StopInv
<1>. QED
  BY <1>4, <1>5, <1>6
-----------------------------------------------------------------------------
(* The inductive invariant.                                                *)

OrderedInv ==
    /\ RedoInv /\ PhaseInv /\ FlushInv /\ EndInv
    /\ GivenInv /\ ProcInv /\ LastInv
    /\ RecordInv /\ BarrierInv /\ StopInv /\ ReplayInv

LEMMA RecordStep ==
    ASSUME Unbroken, RedoInv, PhaseInv, FlushInv, EndInv, ProcInv, RecordInv, ReplayInv, Next
    PROVE  RecordInv'
<1>1. CASE \E w \in Workers : Worker(w)
  BY <1>1, WorkerRecord
<1>2. CASE Dispatch \/ DealWithSegpageSyncRecord
  BY <1>2, ReadRecord
<1>3. CASE SegApply
  BY <1>3, SegRecord
<1>4. CASE ProcTxnItem
  BY <1>4, TxnRecord
<1>5. CASE ApplyShared
  BY <1>5, SharedRecord
<1>6. CASE LeaveShared
  BY <1>6, LeaveRecord
<1>7. CASE Startup /\ ~Dispatch /\ ~DealWithSegpageSyncRecord /\ ~SegApply
           /\ ~ProcTxnItem /\ ~ApplyShared /\ ~LeaveShared
  BY <1>7, QuietSteps, QuietRecord
<1>8. CASE Done
  <2>1. Quiet
    BY <1>8 DEF Done, vars, startupVars, listVars, itemVars, workerVars, Quiet, OnList
  <2>. QED
    BY <2>1, QuietRecord
<1>. QED
  BY <1>1, <1>2, <1>3, <1>4, <1>5, <1>6, <1>7, <1>8 DEF Next

LEMMA Stutter ==
    ASSUME OrderedInv, RedoInv', UNCHANGED vars
    PROVE  OrderedInv'
<1>1. UNCHANGED <<batch, log, dispatchEnd, moved, startupVars, pending, txnPending, proc, replayed, ahead>>
      /\ UNCHANGED <<applied, freed, released, item, wpc, queue, rest>>
  BY DEF vars, listVars, itemVars, workerVars
<1>2. UNCHANGED <<dpc, full, force, ret, after>>
  BY <1>1 DEF startupVars
<1>3. PhaseInv' /\ FlushInv' /\ EndInv'
  BY <1>1, <1>2 DEF OrderedInv, PhaseInv, FlushInv, EndInv, PutPhase, Applying, FlushPoint, Flushed,
     SegPhase, ToPut, Kind
<1>4. GivenInv' /\ ProcInv' /\ LastInv'
  <2>1. Putting => Putting'
    BY <1>2 DEF Putting, PutPhase, Applying
  <2>. QED
    BY <1>1, <2>1, BatchFrame DEF OrderedInv
<1>5. RecordInv'
  <2>1. Quiet
    BY <1>1, <1>2 DEF Quiet, OnList
  <2>. QED
    BY <2>1, QuietRecord DEF OrderedInv
<1>6. \A n : Upto(n)' <=> Upto(n)
  BY <1>1 DEF Upto
<1>7. BarrierInv'
  <2>1. SyncPhase' <=> SyncPhase
    BY <1>2 DEF SyncPhase, SegPhase, PutPhase, Applying
  <2>. QED
    BY <1>1, <1>2, <1>6, <2>1 DEF OrderedInv, BarrierInv, Kind
<1>8. StopInv'
  <2>1. \A w : Later(w)' = Later(w)
    BY <1>1 DEF Later, From
  <2>. QED
    BY <1>1, <1>2, <1>6, <2>1 DEF OrderedInv, StopInv
<1>9. ReplayInv'
  BY <1>1, <1>6 DEF OrderedInv, ReplayInv
<1>. QED
  BY <1>3, <1>4, <1>5, <1>7, <1>8, <1>9 DEF OrderedInv

LEMMA InitOrdered ==
    ASSUME Init
    PROVE  OrderedInv
<1>1. /\ log = <<>> /\ Len(log) = 0 /\ dispatchEnd = 1 /\ replayed = 1 /\ moved = 0
      /\ dpc = "read" /\ applied = {} /\ freed = {} /\ released = {} /\ proc = <<>>
  BY DEF Init
<1>2. Flushed
  BY DEF Init, Flushed
<1>3. 1..0 = {} /\ 1..Len(log) = {}
  BY <1>1
<1>4. RedoInv
  BY InitRedo
<1>5. PhaseInv /\ FlushInv /\ EndInv
  BY <1>1, <1>2 DEF PhaseInv, FlushInv, EndInv, PutPhase, Applying, SegPhase
<1>6. GivenInv /\ ProcInv /\ LastInv
  BY <1>2, FlushedBatch
<1>7. RecordInv
  BY <1>1, <1>3 DEF RecordInv
<1>8. Upto(0)
  BY <1>3 DEF Upto
<1>9. BarrierInv /\ StopInv
  BY <1>1, <1>3, <1>8 DEF BarrierInv, StopInv
<1>10. ReplayInv
  <2>1. Upto(replayed - 2)
    BY <1>1 DEF Upto
  <2>2. Upto(replayed - 1)
    BY <1>1 DEF Upto
  <2>. QED
    BY <2>1, <2>2 DEF ReplayInv
<1>. QED
  BY <1>4, <1>5, <1>6, <1>7, <1>9, <1>10 DEF OrderedInv

LEMMA OrderedStep ==
    ASSUME Unbroken, OrderedInv, [Next]_vars
    PROVE  OrderedInv'
<1>1. RedoInv'
  BY RedoStep DEF OrderedInv
<1>2. CASE Next
  <2>1. PhaseInv' /\ EndInv'
    BY <1>2, PhaseStep, EndStep DEF OrderedInv, RedoInv
  <2>2. FlushInv'
    BY <1>2, FlushStep DEF OrderedInv, RedoInv
  <2>3. GivenInv' /\ ProcInv' /\ LastInv'
    BY <1>2, <2>2, BatchStep DEF OrderedInv, RedoInv
  <2>4. RecordInv'
    BY <1>2, RecordStep DEF OrderedInv
  <2>5. BarrierInv' /\ ReplayInv'
    BY <1>2, BarrierStep, ReplayStep DEF OrderedInv
  <2>6. StopInv'
    BY <1>1, <1>2, StopStep DEF OrderedInv
  <2>. QED
    BY <1>1, <2>1, <2>2, <2>3, <2>4, <2>5, <2>6 DEF OrderedInv
<1>3. CASE UNCHANGED vars
  BY <1>1, <1>3, Stutter
<1>. QED
  BY <1>2, <1>3

LEMMA OrderedInvariant ==
    ASSUME Unbroken
    PROVE  Spec => []OrderedInv
<1>1. OrderedInv /\ [Next]_vars => OrderedInv'
  BY OrderedStep
<1>. QED
  BY <1>1, InitOrdered, PTL DEF Spec

-----------------------------------------------------------------------------
(* The theorems.                                                           *)

\* A worker that was given record n has done its part of the records before it.
LEMMA BeforeItem ==
    ASSUME RedoInv, NEW w \in Workers, NEW n \in Nat, NEW m \in 1..(n - 1), item[w] >= n
    PROVE  Passed(w, m) /\ m # item[w]
<1>1. item[w] \in Nat /\ m \in Nat /\ m < n
  BY PendingLsn
<1>. QED
  BY <1>1 DEF Passed

LEMMA OrderedInOrder ==
    ASSUME OrderedInv
    PROVE  RedoInOrder
<1>1. SUFFICES ASSUME NEW n \in applied, NEW m \in Earlier(n)
               PROVE  m \in applied
  BY DEF RedoInOrder
<1>2. n \in 1..Len(log) /\ n \in Nat /\ Len(log) \in Nat
  BY DEF OrderedInv, RecordInv, RedoInv, TypeInv
<1>3. m \in 1..(n - 1) /\ m \in 1..Len(log) /\ m < n
  BY <1>2 DEF Earlier
<1>4. OrderInv(n) /\ AppliedInv(m)
  BY <1>2, <1>3 DEF OrderedInv, RecordInv
<1>5. CASE Upto(n - 1)
  BY <1>3, <1>5 DEF Upto
<1>6. CASE Kind(n) \notin {"txn", "share", "all", "seg"} /\ \A w \in log[n].to : item[w] >= n
  <2>1. CASE \E b \in m..(n - 1) : Barrier(b)
    <3>1. PICK b \in m..(n - 1) : Barrier(b)
      BY <2>1
    <3>2. b \in 1..Len(log) /\ b # Len(log) /\ m \in 1..b
      BY <1>2, <1>3, <3>1
    <3>3. Upto(b)
      BY <3>1, <3>2 DEF OrderedInv, BarrierInv, Barrier
    <3>. QED
      BY <3>2, <3>3 DEF Upto
  <2>2. CASE Kind(m) # "all" /\ log[m].to \intersect log[n].to # {}
    <3>1. PICK w : w \in log[m].to /\ w \in log[n].to
      BY <2>2
    <3>2. w \in Workers
      BY <1>3, <3>1, ToRecipient DEF OrderedInv
    <3>3. Passed(w, m)
      BY <1>2, <1>3, <1>6, <3>1, <3>2, BeforeItem DEF OrderedInv
    <3>. QED
      BY <1>4, <2>2, <3>1, <3>3 DEF AppliedInv
  <2>. QED
    BY <1>1, <1>6, <2>1, <2>2 DEF Earlier
<1>. QED
  BY <1>1, <1>4, <1>5, <1>6 DEF OrderInv

LEMMA OrderedBlocks ==
    ASSUME OrderedInv
    PROVE  BlockIsBarrier
<1>1. SUFFICES ASSUME NEW n \in applied, NEW m \in 1..(n - 1),
                      Kind(m) = "block", log[m].to \intersect log[n].to # {}
               PROVE  Upto(m)
  BY DEF BlockIsBarrier, Upto
<1>2. n \in 1..Len(log) /\ n \in Nat /\ Len(log) \in Nat
  BY DEF OrderedInv, RecordInv, RedoInv, TypeInv
<1>3. m \in 1..Len(log) /\ m \in Nat /\ m <= n - 1
  BY <1>2
<1>4. OrderInv(n) /\ BlockInv(m)
  BY <1>2, <1>3 DEF OrderedInv, RecordInv
<1>5. CASE Upto(n - 1)
  BY <1>2, <1>3, <1>5 DEF Upto
<1>6. CASE \A w \in log[n].to : item[w] >= n
  <2>1. PICK w : w \in log[m].to /\ w \in log[n].to
    BY <1>1
  <2>2. w \in Workers
    BY <1>3, <2>1, ToRecipient DEF OrderedInv
  <2>3. Passed(w, m) /\ m # item[w]
    BY <1>2, <1>6, <2>1, <2>2, BeforeItem DEF OrderedInv
  <2>. QED
    BY <1>1, <1>4, <2>1, <2>3 DEF BlockInv
<1>. QED
  BY <1>1, <1>4, <1>5, <1>6 DEF OrderInv

LEMMA OrderedReplayed ==
    ASSUME OrderedInv
    PROVE  ReplayedIsTruth
<1>1. SUFFICES ASSUME ~ahead, NEW n \in 1..Len(log), n + 1 <= replayed
               PROVE  n \in applied
  BY DEF ReplayedIsTruth, NeverAhead, End
<1>2. Upto(replayed - 1)
  BY <1>1 DEF OrderedInv, ReplayInv
<1>3. n \in Nat /\ n >= 1 /\ replayed \in Nat
  BY DEF OrderedInv, RedoInv, TypeInv
<1>4. n \in 1..(replayed - 1)
  BY <1>1, <1>3
<1>. QED
  BY <1>2, <1>4 DEF Upto

\* What a page worker holds is meant for it, and it is not through with it.
LEMMA HoldsOpen ==
    ASSUME RedoInv, NEW w \in Workers, NEW n \in Holds(w)
    PROVE  n \in 1..Len(log) /\ w \in Recipients(log[n]) /\ ~Passed(w, n)
<1>1. item[w] \in Nat /\ queue[w] \in Seq(Seq(Lsn)) /\ wpc[w] \in WorkerStep
  BY PendingLsn DEF RedoInv, TypeInv
<1>2. CASE n \in Later(w)
  <2>1. n \in 1..Len(log) /\ w \in Recipients(log[n]) /\ n > item[w]
    BY <1>2 DEF RedoInv, ListInv
  <2>. QED
    BY <1>1, <2>1 DEF Passed
<1>3. CASE n = item[w] /\ wpc[w] \in InHand
  <2>1. wpc[w] \notin AtRest
    BY <1>3 DEF InHand, AtRest
  <2>2. n \in 1..Len(log) /\ w \in Recipients(log[n])
    BY <1>3, <2>1 DEF RedoInv, WorkerInv
  <2>. QED
    BY <1>1, <1>3, <2>2 DEF Passed
<1>4. ASSUME NEW i \in IF wpc[w] = "top" THEN DOMAIN queue[w] ELSE DOMAIN queue[w] \ {1}
      PROVE  i \in From(w)..Len(queue[w])
  BY <1>1 DEF From, AtRest
<1>. DEFINE Queued == UNION {Elements(queue[w][i]) : i \in
                    IF wpc[w] = "top" THEN DOMAIN queue[w] ELSE DOMAIN queue[w] \ {1}}
<1>5. CASE n \in Queued
  <2>1. n \in Held(queue[w], From(w))
    BY <1>4, <1>5 DEF Held
  <2>. QED
    BY <1>2, <2>1 DEF Later, Upcoming
<1>6. CASE n \in Elements(rest[w]) \union Elements(pending[w])
  BY <1>2, <1>6 DEF Later, Upcoming
<1>7. Holds(w) = Elements(rest[w]) \union Elements(pending[w]) \union Queued
                 \union (IF wpc[w] \in InHand THEN {item[w]} ELSE {})
  BY DEF Holds, InHand
<1>. HIDE DEF Queued
<1>. QED
  BY <1>3, <1>5, <1>6, <1>7

LEMMA OrderedItems ==
    ASSUME OrderedInv
    PROVE  ItemLifetime
<1>1. SUFFICES ASSUME NEW n \in freed
               PROVE  /\ OnList(n) => Kind(n) \in {"create", "block"}
                      /\ \A w \in Workers : n \in Holds(w) => Kind(n) = "txn"
  BY DEF ItemLifetime, OnList
<1>2. n \in 1..Len(log) /\ Forgotten(n)
  BY DEF OrderedInv, RecordInv, FreedInv
<1>3. OnList(n) => Kind(n) \in {"create", "block"}
  BY <1>2 DEF OrderedInv, RedoInv, TxnListInv, OnList, OnTxnList, Kind, Forgotten, TxnDone
<1>4. ASSUME NEW w \in Workers, n \in Holds(w), Kind(n) # "txn" PROVE FALSE
  <2>1. w \in Recipients(log[n]) /\ ~Passed(w, n)
    BY <1>4, HoldsOpen DEF OrderedInv
  <2>2. w \in log[n].to
    BY <1>4, <2>1 DEF Recipients, Kind
  <2>. QED
    BY <1>2, <2>1, <2>2 DEF Forgotten
<1>. QED
  BY <1>3, <1>4

LEMMA OrderedFinish ==
    ASSUME OrderedInv
    PROVE  FinishComplete
<1>1. SUFFICES ASSUME dpc = "done"
               PROVE  applied = 1..Len(log) /\ freed = 1..Len(log)
  BY DEF FinishComplete
<1>2. applied = 1..Len(log)
  BY <1>1 DEF OrderedInv, RecordInv, StopInv, Upto
<1>3. ASSUME NEW n \in 1..Len(log) PROVE Forgotten(n)
  <2>1. ASSUME NEW w \in log[n].to PROVE Passed(w, n)
    <3>1. w \in Workers /\ w \in Recipients(log[n])
      BY ToRecipient DEF OrderedInv
    <3>2. n \notin Later(w) /\ wpc[w] = "exit"
      BY <1>1, <3>1 DEF OrderedInv, StopInv
    <3>3. item[w] \in Nat /\ n \in Nat
      BY <3>1, PendingLsn DEF OrderedInv
    <3>4. ~(n > item[w])
      BY <3>1, <3>2 DEF OrderedInv, RedoInv, ListInv
    <3>. QED
      BY <3>2, <3>3, <3>4 DEF Passed, InHand
  <2>2. ~OnList(n)
    BY <1>1, NoElements DEF OrderedInv, FlushInv, FlushPoint, Flushed, OnList
  <2>3. dispatchEnd = Len(log) + 1 /\ Len(log) \in Nat
    BY <1>1 DEF OrderedInv, EndInv, SegPhase, PutPhase, Applying, RedoInv, TypeInv
  <2>. QED
    BY <2>1, <2>2, <2>3 DEF Forgotten, TxnDone, OnTxnList, Kind
<1>4. freed = 1..Len(log)
  BY <1>3 DEF OrderedInv, RecordInv, FreedInv
<1>. QED
  BY <1>2, <1>4

\* The order of replay for any number of page workers and any log.  DispatchRedoRecord
\* gives a record to the workers of its pages, and no worker or thread waits for the
\* others but on the records they share; still a record is replayed after every record
\* it depends on.  A record of the startup thread comes after all before it, because
\* ApplyReadyTxnLogRecords goes by the slowest of the busy workers and nothing that is
\* not in a queue yet comes before the head of its list.
THEOREM InOrder ==
    ASSUME Unbroken
    PROVE  Spec => []RedoInOrder
  BY OrderedInvariant, OrderedInOrder, PTL

\* ApplyMultiPageSyncWithTrxnRecord holds its page worker until lastReplayedEndRecPtr
\* has passed the record, and that means that everything before it has been replayed.
THEOREM BlockHolds ==
    ASSUME Unbroken
    PROVE  Spec => []BlockIsBarrier
  BY OrderedInvariant, OrderedBlocks, PTL

\* The position that SetXLogReplayRecPtr reports, from a record of the transaction list,
\* from the slowest worker of a round that waits or from the workers when the list is
\* empty, is the end of records that have all been replayed.
THEOREM ReplayedTruth ==
    ASSUME Unbroken
    PROVE  Spec => []ReplayedIsTruth
  BY OrderedInvariant, OrderedReplayed, PTL

\* Where a round between a failed put and the next (ProcessPendingRecords) has reported a
\* position too far, it is too far by the one record that is still to be put.
THEOREM OneAhead ==
    ASSUME Unbroken
    PROVE  Spec => [](\A n \in 1..Len(log) : End(n) < replayed => n \in applied)
<1>1. ASSUME OrderedInv, NEW n \in 1..Len(log), n + 1 < replayed PROVE n \in applied
  <2>1. n \in Nat /\ n >= 1 /\ replayed \in Nat
    BY <1>1 DEF OrderedInv, RedoInv, TypeInv
  <2>2. n \in 1..(replayed - 2)
    BY <1>1, <2>1
  <2>. QED
    BY <1>1, <2>2 DEF OrderedInv, ReplayInv, Upto
<1>2. OrderedInv => \A n \in 1..Len(log) : End(n) < replayed => n \in applied
  BY <1>1 DEF End
<1>. QED
  BY <1>2, OrderedInvariant, PTL

\* FreeRedoItem gets an item when the last of the threads that count themselves in its
\* refCount is through with it, and no list holds it any more.
THEOREM ItemsLive ==
    ASSUME Unbroken
    PROVE  Spec => []ItemLifetime
  BY OrderedInvariant, OrderedItems, PTL

\* SendRecoveryEndMarkToWorkersAndWaitForFinish returns when every record that was read
\* has been replayed and every item freed: the end marks come after the last record in
\* each queue, and the startup thread goes on until its own list is empty.
THEOREM FinishedComplete ==
    ASSUME Unbroken
    PROVE  Spec => []FinishComplete
  BY OrderedInvariant, OrderedFinish, PTL
=============================================================================

------------------------------ MODULE MvccOcc -------------------------------
(***************************************************************************)
(* Transactions of MOT on versioned rows: snapshot reads, reads for update,*)
(* inserts, the optimistic commit (validate and lock headers, take a CSN,  *)
(* install versions, unlock) and the garbage collector that cuts version   *)
(* chains below what active snapshots need.                                *)
(*                                                                         *)
(* A row version is named by its CSN.  A session runs one transaction      *)
(* after the other; each action is one access, or one uninterrupted run of *)
(* accesses, to what sessions share.                                       *)
(***************************************************************************)
EXTENDS Naturals, Sequences

CONSTANTS
    Txn,       \* sessions
    NoTxn,     \* no session
    Stores,    \* what there may be to begin with: the clock, and of each key
               \* a row, a deleted row or nothing
    MaxCsn     \* bound: the clock stops here, further commits abort

RowState == {"absent", "present", "deleted"}

ASSUME StoresAssumption ==
    \A s \in Stores : s.rows \in Seq(RowState) /\ s.clock \in 3 .. MaxCsn
ASSUME MaxCsnAssumption == MaxCsn \in Nat \ {0, 1, 2}
ASSUME NoTxnAssumption == NoTxn \notin Txn

VARIABLES
    clock,     \* nextCommitSeqNo of the envelope
    chain,     \* versions of a key from its sentinel on, newest first
    startCSN,  \* m_startCSN of the sentinel
    dirty,     \* S_DIRTY_BIT: the sentinel has never been committed
    lock,      \* owner of S_LOCK_BIT
    writeBit,  \* S_WRITE_BIT
    pc,        \* where each session is
    iso,       \* m_isolationLevel
    snap,      \* snapshotcsn of the envelope's current snapshot, 0: none
    access,    \* access set
    cur,       \* the lookup under way: key, type, topRow
    got,       \* the last lookup's result, until the next operation
    csn,       \* m_csn
    gcEpoch,   \* m_gcEpoch, 0: not active
    limbo,     \* VERSION_QUEUE of the session's GcManager: the CSN of a commit
               \* and the keys with versions to reclaim below it
    bound,     \* m_performGcEpoch; while scanning, the minimum so far
    scan,      \* holder of g_gcGlobalEpochLock and managers still to visit
    activeEpoch, \* g_gcActiveEpoch
    hist,      \* history: all committed versions of a key, newest first
    late       \* history: a scan passed the session before its snapshot
               \* was published as its epoch

storeVars == <<chain, startCSN, dirty, lock, writeBit>>
txnVars == <<iso, snap, access, cur, got, csn>>
gcVars == <<gcEpoch, limbo, bound, scan, activeEpoch>>
vars == <<clock, storeVars, pc, txnVars, gcVars, hist, late>>

\* Keys are numbered in the order of their sentinels' addresses.
Key == DOMAIN chain
AccessType == {"RD", "WR", "DEL", "INS"}
Upgrade == {"no", "onDeleted", "onOwnDelete"}

NoAccess == [type |-> "RD", csn |-> 0, snapshot |-> 0, upgrade |-> "no"]
NoLookup == [key |-> 0, type |-> "RD", top |-> 0]
NoResult == [key |-> 0, type |-> "RD", csn |-> 0, hasty |-> FALSE]
NoScan == [by |-> NoTxn, todo |-> {}]

Version(c, d) == [csn |-> c, deleted |-> d]

Goto(t, l) == pc' = [pc EXCEPT ![t] = l]

\* The keys in a transaction's access set; IsReadOnlyTxn when there is none.
Accessed(t) == {k \in Key : access[t][k] # NoAccess}
ReadOnly(t) == Accessed(t) = {}

First(S) == CHOOSE i \in S : \A j \in S : i <= j

-----------------------------------------------------------------------------
(* A row that is there to begin with has been inserted with CSN 1 and, if it *)
(* is deleted, deleted with CSN 2.                                          *)

Init ==
    /\ \E s \in Stores :
          /\ clock = s.clock
          /\ chain = [k \in DOMAIN s.rows |->
                        CASE s.rows[k] = "absent" -> <<>>
                          [] s.rows[k] = "present" -> <<Version(1, FALSE)>>
                          [] s.rows[k] = "deleted" -> <<Version(2, TRUE), Version(1, FALSE)>>]
    /\ startCSN = [k \in Key |-> IF chain[k] = <<>> THEN 0 ELSE 1]
    /\ dirty = [k \in Key |-> chain[k] = <<>>]
    /\ hist = chain
    /\ lock = [k \in Key |-> NoTxn]
    /\ writeBit = [k \in Key |-> FALSE]
    /\ pc = [t \in Txn |-> "idle"]
    /\ iso = [t \in Txn |-> "RC"]
    /\ snap = [t \in Txn |-> 0]
    /\ access = [t \in Txn |-> [k \in Key |-> NoAccess]]
    /\ cur = [t \in Txn |-> NoLookup]
    /\ got = [t \in Txn |-> NoResult]
    /\ csn = [t \in Txn |-> 0]
    /\ gcEpoch = [t \in Txn |-> 0]
    /\ limbo = [t \in Txn |-> <<>>]
    /\ bound = [t \in Txn |-> 0]
    /\ scan = NoScan
    /\ activeEpoch = 0
    /\ late = [t \in Txn |-> FALSE]

-----------------------------------------------------------------------------
(* Sentinels.                                                              *)

Locked(k) == lock[k] # NoTxn
LockedAndDirty(k) == Locked(k) /\ dirty[k]

\* CSN of GetData, 0 for a null pointer.
Top(k) == IF chain[k] = <<>> THEN 0 ELSE chain[k][1].csn

\* CSN of the newest version in versions that a snapshot sees, 0 if there is
\* none or it is a tombstone.  Sequences of versions are newest first.
RowFromChain(c, versions) ==
    LET visible == {i \in DOMAIN versions : c > versions[i].csn}
    IN  IF visible = {} THEN 0
        ELSE LET v == versions[First(visible)]
             IN  IF v.deleted THEN 0 ELSE v.csn

-----------------------------------------------------------------------------
(* Statements.                                                             *)

\* Mutant: the snapshot takes in the CSN that is to be given out next.
MutantStartTransaction(t, level) ==
    /\ pc[t] = "idle"
    /\ Goto(t, "statement")
    /\ iso' = [iso EXCEPT ![t] = level]
    /\ snap' = [snap EXCEPT ![t] = clock + 1]
    /\ UNCHANGED <<clock, storeVars, access, cur, got, csn, gcVars, hist, late>>

\* The envelope takes a snapshot, once per transaction under repeatable read
\* and once per statement under read committed.
StartTransaction(t, level) ==
    /\ pc[t] = "idle"
    /\ Goto(t, "statement")
    /\ iso' = [iso EXCEPT ![t] = level]
    /\ snap' = [snap EXCEPT ![t] = clock]
    /\ UNCHANGED <<clock, storeVars, access, cur, got, csn, gcVars, hist, late>>

StartStatement(t) ==
    /\ pc[t] = "between"
    /\ Goto(t, IF gcEpoch[t] = 0 THEN "statement" ELSE "ready")
    /\ snap' = [snap EXCEPT ![t] = IF iso[t] = "RR" THEN @ ELSE clock]
    /\ UNCHANGED <<clock, storeVars, iso, access, cur, got, csn, gcVars, hist, late>>

\* The first access of the statement: GcStartTxn publishes the CSN of the
\* snapshot that the envelope took before.  It does nothing if the transaction
\* has published an epoch in an earlier statement.
SetSnapshot(t) ==
    /\ pc[t] = "statement"
    /\ Goto(t, "ready")
    /\ gcEpoch' = [gcEpoch EXCEPT ![t] = snap[t]]
    /\ UNCHANGED <<clock, storeVars, txnVars, limbo, bound, scan, activeEpoch, hist, late>>

FinishStatement(t) ==
    /\ pc[t] = "ready"
    /\ Goto(t, "between")
    /\ got' = [got EXCEPT ![t] = NoResult]
    /\ IF iso[t] = "RR"
       THEN UNCHANGED <<snap, late, gcEpoch>>
       ELSE /\ snap' = [snap EXCEPT ![t] = 0]
            /\ late' = [late EXCEPT ![t] = FALSE]
            /\ gcEpoch' = [gcEpoch EXCEPT ![t] = IF ReadOnly(t) THEN 0 ELSE @]
    /\ UNCHANGED <<clock, storeVars, iso, access, cur, csn, limbo, bound, scan, activeEpoch, hist>>

-----------------------------------------------------------------------------
(* Lookups.                                                                *)

Return(t, c) ==
    /\ Goto(t, "ready")
    /\ cur' = [cur EXCEPT ![t] = NoLookup]
    /\ got' = [got EXCEPT ![t] = [key |-> cur[t].key, type |-> cur[t].type,
                                  csn |-> c, hasty |-> FALSE]]

\* RowLookup of a key that the transaction has not accessed.  AccessLookup of
\* a transaction with an access set takes an uncommitted sentinel of another
\* transaction for invisible, without a wait if that one is committing.
RowLookup(t, k, type) ==
    /\ pc[t] = "ready"
    /\ access[t][k] = NoAccess
    /\ IF dirty[k] /\ ~ReadOnly(t)
       THEN /\ got' = [got EXCEPT ![t] = [key |-> k, type |-> type, csn |-> 0, hasty |-> Locked(k)]]
            /\ UNCHANGED <<pc, cur>>
       ELSE /\ Goto(t, IF type = "RD" THEN "read" ELSE "header")
            /\ cur' = [cur EXCEPT ![t] = [key |-> k, type |-> type,
                                          top |-> IF type = "RD" THEN Top(k) ELSE 0]]
            /\ got' = [got EXCEPT ![t] = NoResult]
    /\ UNCHANGED <<clock, storeVars, iso, snap, access, csn, gcVars, hist, late>>

\* Mutant: a reader does not wait for a commit under way.
MutantCommitCycleSeen(t, k) == TRUE

\* A locked sentinel shows a finished commit if its top row has changed or is
\* already beyond the snapshot.
CommitCycleSeen(t, k) ==
    \/ ~Locked(k)
    \/ /\ ~dirty[k]
       /\ Top(k) # 0
       /\ Top(k) # cur[t].top \/ snap[t] < Top(k)

GetVisibleRowVersion(t) ==
    /\ pc[t] = "read"
    /\ LET k == cur[t].key IN
          /\ CommitCycleSeen(t, k)
          /\ Return(t, RowFromChain(snap[t], chain[k]))
    /\ UNCHANGED <<clock, storeVars, iso, snap, access, csn, gcVars, hist, late>>

GetVisiblePrimaryHeader(t) ==
    /\ pc[t] = "header"
    /\ LET k == cur[t].key IN
          /\ ~LockedAndDirty(k)
          /\ IF ~dirty[k] /\ snap[t] > startCSN[k]
             THEN Goto(t, "topRow") /\ UNCHANGED <<cur, got>>
             ELSE Return(t, 0)
    /\ UNCHANGED <<clock, storeVars, iso, snap, access, csn, gcVars, hist, late>>

\* Mutant: a row committed with the very CSN of the snapshot is taken for older.
MutantRowForUpdate(t, k, r) ==
    IF iso[t] = "RR" /\ (IF r = 0 THEN startCSN[k] ELSE r) > snap[t]
    THEN \* RC_SERIALIZATION_FAILURE
         /\ Goto(t, "abort")
         /\ cur' = [cur EXCEPT ![t] = NoLookup]
         /\ UNCHANGED <<access, got>>
    ELSE IF r = 0 \/ chain[k][1].deleted
    THEN Return(t, 0) /\ UNCHANGED access
    ELSE /\ Goto(t, "ready")
         /\ cur' = [cur EXCEPT ![t] = NoLookup]
         /\ UNCHANGED got
         /\ access' = [access EXCEPT ![t][k] =
                [type |-> cur[t].type, csn |-> r, snapshot |-> snap[t], upgrade |-> "no"]]

\* GetVisibleRow for an update: what is done with the row r, 0 for none.
RowForUpdate(t, k, r) ==
    IF iso[t] = "RR" /\ (IF r = 0 THEN startCSN[k] ELSE r) >= snap[t]
    THEN \* RC_SERIALIZATION_FAILURE
         /\ Goto(t, "abort")
         /\ cur' = [cur EXCEPT ![t] = NoLookup]
         /\ UNCHANGED <<access, got>>
    ELSE IF r = 0 \/ chain[k][1].deleted
    THEN Return(t, 0) /\ UNCHANGED access
    ELSE /\ Goto(t, "ready")
         /\ cur' = [cur EXCEPT ![t] = NoLookup]
         /\ UNCHANGED got
         /\ access' = [access EXCEPT ![t][k] =
                [type |-> cur[t].type, csn |-> r, snapshot |-> snap[t], upgrade |-> "no"]]

\* GetVisibleRowForUpdate, entry: topRow, and the test of m_startCSN again.
TopRow(t) ==
    /\ pc[t] = "topRow"
    /\ LET k == cur[t].key IN
          IF ~dirty[k] /\ snap[t] <= startCSN[k]
          THEN RowForUpdate(t, k, 0)
          ELSE /\ Goto(t, "fetch")
               /\ cur' = [cur EXCEPT ![t].top = Top(k)]
               /\ UNCHANGED <<access, got>>
    /\ UNCHANGED <<clock, storeVars, iso, snap, csn, gcVars, hist, late>>

UpdateCycleSeen(t, k) ==
    \/ ~Locked(k)
    \/ /\ Top(k) # 0
       /\ \/ Top(k) # cur[t].top
          \/ IF iso[t] = "RC" THEN writeBit[k] ELSE snap[t] <= Top(k)

GetVisibleRowForUpdate(t) ==
    /\ pc[t] = "fetch"
    /\ LET k == cur[t].key IN
          /\ UpdateCycleSeen(t, k)
          /\ RowForUpdate(t, k, IF dirty[k] THEN 0 ELSE Top(k))
    /\ UNCHANGED <<clock, storeVars, iso, snap, csn, gcVars, hist, late>>

\* UpdateRowState: the transaction deletes the row that it has updated.
DeleteLastRow(t, k) ==
    /\ pc[t] = "ready"
    /\ access[t][k].type = "WR"
    /\ access' = [access EXCEPT ![t][k].type = "DEL"]
    /\ got' = [got EXCEPT ![t] = NoResult]
    /\ UNCHANGED <<clock, storeVars, pc, iso, snap, cur, csn, gcVars, hist, late>>

\* A unique violation is an error of the statement and ends the transaction.
InsertRow(t, k) ==
    /\ pc[t] = "ready"
    /\ access[t][k].type \in {"RD", "DEL"}
    /\ got' = [got EXCEPT ![t] = NoResult]
    /\ LET own == access[t][k].type = "DEL"
           new(c, up) == /\ access' = [access EXCEPT ![t][k] =
                              [type |-> "INS", csn |-> c,
                               snapshot |-> snap[t], upgrade |-> up]]
                         /\ UNCHANGED pc
       IN  CASE dirty[k] -> new(0, "no")
             [] own /\ ~dirty[k] ->
                    /\ access' = [access EXCEPT ![t][k] =
                                    [@ EXCEPT !.type = "INS", !.upgrade = "onOwnDelete"]]
                    /\ UNCHANGED pc
             [] ~own /\ ~dirty[k] /\ chain[k][1].deleted -> new(Top(k), "onDeleted")
             [] OTHER -> Goto(t, "abort") /\ UNCHANGED access
    /\ UNCHANGED <<clock, storeVars, iso, snap, cur, csn, gcVars, hist, late>>

-----------------------------------------------------------------------------
(* Commit.                                                                 *)

\* Mutant: only the header is compared, not the version.
MutantQuickVersionCheck(t, k) == access[t][k].snapshot > startCSN[k]

QuickVersionCheck(t, k) ==
    /\ access[t][k].snapshot > startCSN[k]
    /\ access[t][k].csn = Top(k)

QuickInsertCheck(t, k) ==
    CASE access[t][k].upgrade = "no" -> dirty[k]
      [] access[t][k].upgrade = "onDeleted" -> chain[k][1].deleted /\ access[t][k].csn = Top(k)
      [] access[t][k].upgrade = "onOwnDelete" -> access[t][k].csn = Top(k)

QuickHeaderValidation(t, k) ==
    IF access[t][k].type = "INS" THEN QuickInsertCheck(t, k) ELSE QuickVersionCheck(t, k)

AllValid(t) == \A k \in Accessed(t) : QuickHeaderValidation(t, k)

LockedBy(t) == {k \in Key : lock[k] = t}

Unlock(t) ==
    /\ lock' = [k \in Key |-> IF lock[k] = t THEN NoTxn ELSE lock[k]]
    /\ writeBit' = [k \in Key |-> writeBit[k] /\ lock[k] # t]

\* ValidateCommit of a transaction that has written, and PreAbortCheck.
ValidateCommit(t) ==
    /\ pc[t] = "between"
    /\ ~ReadOnly(t)
    /\ AllValid(t)
    /\ Goto(t, "lock")
    /\ UNCHANGED <<clock, storeVars, txnVars, gcVars, hist, late>>

\* One TryLock of LockHeaders, in the order of the sentinels' addresses, and
\* after the last one ValidateWriteSet.
TryLock(t) ==
    /\ pc[t] = "lock"
    /\ LET rest == Accessed(t) \ LockedBy(t)
           k == First(rest)
       IN  IF Locked(k)
           THEN /\ Goto(t, "retry")
                /\ Unlock(t)
           ELSE /\ lock' = [lock EXCEPT ![k] = t]
                /\ Goto(t, CASE ~QuickHeaderValidation(t, k) -> "abort"
                             [] QuickHeaderValidation(t, k) /\ rest # {k} -> "lock"
                             [] OTHER -> IF AllValid(t) THEN "validated" ELSE "abort")
                /\ UNCHANGED writeBit
    /\ UNCHANGED <<clock, chain, startCSN, dirty, txnVars, gcVars, hist, late>>

RetryLock(t) ==
    /\ pc[t] = "retry"
    /\ AllValid(t)
    /\ Goto(t, "lock")
    /\ UNCHANGED <<clock, storeVars, txnVars, gcVars, hist, late>>

\* setCommitCsn(getLocalNextCSN()).  From here on the transaction belongs to
\* every later snapshot, which is what hist records.
SetCommitCsn(t) ==
    /\ pc[t] = "validated"
    /\ clock < MaxCsn
    /\ csn' = [csn EXCEPT ![t] = clock]
    /\ clock' = clock + 1
    /\ hist' = [k \in Key |->
                  IF k \in Accessed(t)
                  THEN <<Version(clock, access[t][k].type = "DEL")>> \o hist[k]
                  ELSE hist[k]]
    /\ Goto(t, "global")
    /\ cur' = [cur EXCEPT ![t].key = First(Accessed(t))]
    /\ UNCHANGED <<storeVars, iso, snap, access, got, gcVars, late>>

\* The two loops of WriteChanges go through the ordered access set.
NextAccess(t, done) ==
    LET rest == {k \in Accessed(t) : k > cur[t].key}
    IN  IF rest # {}
        THEN UNCHANGED pc /\ cur' = [cur EXCEPT ![t].key = First(rest)]
        ELSE /\ Goto(t, done)
             /\ cur' = [cur EXCEPT ![t].key = IF done = "end" THEN 0 ELSE First(Accessed(t))]

\* Access::WriteGlobalChanges.  An upgraded insert links its row to the old
\* ones here but becomes visible in WriteSentinelChanges.
WriteGlobalChanges(t) ==
    /\ pc[t] = "global"
    /\ LET k == cur[t].key
           ac == access[t][k]
       IN  /\ IF ac.type \in {"WR", "DEL"}
              THEN /\ chain' = [chain EXCEPT ![k] = <<Version(csn[t], ac.type = "DEL")>> \o @]
                   /\ writeBit' = [writeBit EXCEPT ![k] = TRUE]
              ELSE UNCHANGED <<chain, writeBit>>
           /\ startCSN' = [startCSN EXCEPT ![k] = IF ac.upgrade # "no" THEN csn[t] ELSE @]
    /\ NextAccess(t, "sentinel")
    /\ UNCHANGED <<clock, dirty, lock, iso, snap, access, got, csn, gcVars, hist, late>>

\* An insert over the transaction's own delete puts a tombstone in between.
WriteSentinelChanges(t) ==
    /\ pc[t] = "sentinel"
    /\ LET k == cur[t].key
           ac == access[t][k]
           tombstone == IF ac.upgrade = "onOwnDelete" THEN <<Version(csn[t], TRUE)>> ELSE <<>>
       IN  IF ac.type = "INS"
           THEN /\ chain' = [chain EXCEPT ![k] = <<Version(csn[t], FALSE)>> \o tombstone \o @]
                /\ writeBit' = [writeBit EXCEPT ![k] = TRUE]
                /\ dirty' = [dirty EXCEPT ![k] = FALSE]
                /\ startCSN' = [startCSN EXCEPT ![k] = csn[t]]
           ELSE UNCHANGED <<chain, writeBit, dirty, startCSN>>
    /\ NextAccess(t, "end")
    /\ UNCHANGED <<clock, lock, iso, snap, access, got, csn, gcVars, hist, late>>

\* What GcMaintenance records of a committed write set: the versions with
\* something to reclaim below them.
Retired(t) ==
    LET keys == {k \in Key : access[t][k].type = "WR" \/ access[t][k].upgrade # "no"}
    IN  IF csn[t] = 0 \/ keys = {} THEN <<>> ELSE <<[csn |-> csn[t], keys |-> keys]>>

\* A transaction ends when it has written its changes or has failed.  Between
\* statements it is rolled back, read-only, or fails PreAbortCheck; before a
\* retry it fails that or has passed LOCK_TIME_OUT; a validated one is given up
\* by the envelope or for want of memory.
MayEnd == {"end", "abort", "between", "retry", "validated"}

\* EndTransaction or Rollback: release the locks, clean up, and at the end of
\* Cleanup enter RunQuicese with the current clock as the session's epoch.
\* Whether the queue has then reached its threshold is a matter of bytes.
EndTransaction(t, thresholdReached) ==
    /\ pc[t] \in MayEnd
    /\ Unlock(t)
    /\ limbo' = [limbo EXCEPT ![t] = @ \o Retired(t)]
    /\ thresholdReached => limbo'[t] # <<>>
    /\ access' = [access EXCEPT ![t] = [k \in Key |-> NoAccess]]
    /\ got' = [got EXCEPT ![t] = NoResult]
    /\ snap' = [snap EXCEPT ![t] = 0]
    /\ csn' = [csn EXCEPT ![t] = 0]
    /\ iso' = [iso EXCEPT ![t] = "RC"]
    /\ late' = [late EXCEPT ![t] = FALSE]
    /\ Goto(t, IF thresholdReached THEN "quiesce" ELSE "idle")
    /\ gcEpoch' = [gcEpoch EXCEPT ![t] = IF thresholdReached THEN clock ELSE 0]
    /\ UNCHANGED <<clock, chain, startCSN, dirty, cur, bound, scan, activeEpoch, hist>>

-----------------------------------------------------------------------------
(* Garbage collection by a session that has ended a transaction.           *)

\* RunQuicese: use g_gcActiveEpoch if it is beyond the first element, else
\* compute it anew, unless another session does.  The session's own epoch does
\* not change until it is through.
RunQuicese(t) ==
    /\ pc[t] = "quiesce"
    /\ IF activeEpoch <= limbo[t][1].csn /\ scan.by = NoTxn
       THEN /\ Goto(t, "scan")
            /\ scan' = [by |-> t, todo |-> Txn \ {t}]
            /\ bound' = [bound EXCEPT ![t] = gcEpoch[t]]
       ELSE /\ Goto(t, "reclaim")
            /\ bound' = [bound EXCEPT ![t] = activeEpoch]
            /\ UNCHANGED scan
    /\ UNCHANGED <<clock, storeVars, txnVars, gcEpoch, limbo, activeEpoch, hist, late>>

\* MinActiveEpoch reads the epochs of the managers one by one.
MinActiveEpoch(t, u) ==
    /\ pc[t] = "scan"
    /\ u \in scan.todo
    /\ scan' = [scan EXCEPT !.todo = @ \ {u}]
    /\ bound' = [bound EXCEPT ![t] =
                   IF gcEpoch[u] # 0 /\ gcEpoch[u] < @ THEN gcEpoch[u] ELSE @]
    /\ late' = [late EXCEPT ![u] = @ \/ (snap[u] # 0 /\ gcEpoch[u] = 0)]
    /\ UNCHANGED <<clock, storeVars, pc, txnVars, gcEpoch, limbo, activeEpoch, hist>>

SetActiveEpoch(t) ==
    /\ pc[t] = "scan"
    /\ scan.todo = {}
    /\ activeEpoch' = bound[t]
    /\ scan' = NoScan
    /\ Goto(t, "reclaim")
    /\ UNCHANGED <<clock, storeVars, txnVars, gcEpoch, limbo, bound, hist, late>>

\* The versions of a chain that are left when all below version c are destroyed.
CutBelow(c, versions) ==
    LET at == {i \in DOMAIN versions : versions[i].csn = c}
    IN  IF at = {} THEN versions
        ELSE SubSeq(versions, 1, First(at))

\* Mutant: elements as new as the oldest snapshot are reclaimed too.
MutantReclaimable(t) == limbo[t] # <<>> /\ limbo[t][1].csn <= bound[t]

Reclaimable(t) == limbo[t] # <<>> /\ limbo[t][1].csn < bound[t]

\* Another session is about to cut the chain of the key: it may have gcInfo's lock.
Contended(t, k) ==
    \E s \in Txn \ {t} :
        pc[s] = "reclaim" /\ Reclaimable(s) /\ First(limbo[s][1].keys) = k

\* HardQuiesce with RowVersionDtor, which may leave an element that is not the
\* top version to a later one of the same key, and leaves one whose TryLock fails.
\* The elements of a commit are in the order of its access set.
RowVersionDtor(t) ==
    /\ pc[t] = "reclaim"
    /\ Reclaimable(t)
    /\ LET e == limbo[t][1]
           k == First(e.keys)
       IN  /\ \/ chain' = [chain EXCEPT ![k] = CutBelow(e.csn, @)]
              \/ (Top(k) # e.csn \/ Contended(t, k)) /\ UNCHANGED chain
           /\ limbo' = [limbo EXCEPT ![t] =
                          IF e.keys = {k} THEN Tail(@)
                          ELSE <<[e EXCEPT !.keys = @ \ {k}]>> \o Tail(@)]
    /\ UNCHANGED <<clock, startCSN, dirty, lock, writeBit, pc, txnVars,
                   gcEpoch, bound, scan, activeEpoch, hist, late>>

\* The queue is empty, what is left is too new, or m_rcuFreeCount elements
\* have been reclaimed.
GcEndTxn(t) ==
    /\ pc[t] = "reclaim"
    /\ Goto(t, "idle")
    /\ gcEpoch' = [gcEpoch EXCEPT ![t] = 0]
    /\ bound' = [bound EXCEPT ![t] = 0]
    /\ UNCHANGED <<clock, storeVars, txnVars, limbo, scan, activeEpoch, hist, late>>

-----------------------------------------------------------------------------
Statement(t) ==
    \/ \E level \in {"RC", "RR"} : StartTransaction(t, level)
    \/ StartStatement(t) \/ SetSnapshot(t) \/ FinishStatement(t)
    \/ \E k \in Key : \/ \E type \in {"RD", "WR"} : RowLookup(t, k, type)
                      \/ DeleteLastRow(t, k) \/ InsertRow(t, k)

Lookup(t) ==
    \/ GetVisibleRowVersion(t) \/ GetVisiblePrimaryHeader(t)
    \/ TopRow(t) \/ GetVisibleRowForUpdate(t)

Commit(t) ==
    \/ TryLock(t) \/ RetryLock(t) \/ SetCommitCsn(t)
    \/ WriteGlobalChanges(t) \/ WriteSentinelChanges(t)
    \/ \E thresholdReached \in BOOLEAN : EndTransaction(t, thresholdReached)

Collect(t) ==
    \/ RunQuicese(t) \/ (\E u \in Txn : MinActiveEpoch(t, u))
    \/ SetActiveEpoch(t) \/ RowVersionDtor(t) \/ GcEndTxn(t)

Next == \E t \in Txn : Statement(t) \/ Lookup(t) \/ ValidateCommit(t) \/ Commit(t) \/ Collect(t)

Spec == Init /\ [][Next]_vars

-----------------------------------------------------------------------------
(* Properties.                                                             *)

Cursor == {"ready", "statement", "between", "read", "header", "topRow", "fetch"}
Label == Cursor \cup {"idle", "lock", "retry", "validated", "global", "sentinel",
                      "end", "abort", "quiesce", "scan", "reclaim"}
Csn == 0 .. MaxCsn
Versions == Seq([csn : Csn, deleted : BOOLEAN])

TypeOK ==
    /\ clock \in Csn /\ activeEpoch \in Csn
    /\ chain \in [Key -> Versions] /\ hist \in [Key -> Versions]
    /\ startCSN \in [Key -> Csn] /\ dirty \in [Key -> BOOLEAN]
    /\ lock \in [Key -> Txn \cup {NoTxn}] /\ writeBit \in [Key -> BOOLEAN]
    /\ pc \in [Txn -> Label] /\ iso \in [Txn -> {"RC", "RR"}]
    /\ snap \in [Txn -> Csn] /\ csn \in [Txn -> Csn]
    /\ access \in [Txn -> [Key -> [type : AccessType, csn : Csn, snapshot : Csn, upgrade : Upgrade]]]
    /\ cur \in [Txn -> [key : Key \cup {0}, type : AccessType, top : Csn]]
    /\ got \in [Txn -> [key : Key \cup {0}, type : AccessType, csn : Csn, hasty : BOOLEAN]]
    /\ gcEpoch \in [Txn -> Csn] /\ bound \in [Txn -> Csn] /\ late \in [Txn -> BOOLEAN]
    /\ limbo \in [Txn -> Seq([csn : Csn, keys : SUBSET Key])]
    /\ scan \in [by : Txn \cup {NoTxn}, todo : SUBSET Txn]

InSnapshot(t) == RowFromChain(snap[t], hist[got[t].key])

Read(t) == got[t].key # 0 /\ got[t].type = "RD"

\* A plain read returns the row that had been committed last when the snapshot
\* was taken: of a transaction with an older CSN all writes are seen although
\* they are installed one by one, of one with a newer CSN none, and nothing it
\* needs has been reclaimed.  Not counted are the two cases in which the code
\* fails: hasty and late.
ReadIsSnapshot == \A t \in Txn : Read(t) /\ ~got[t].hasty /\ ~late[t] => got[t].csn = InSnapshot(t)

\* Under repeatable read a row that is found for update is the one of the
\* snapshot, and a row of the snapshot is found or the transaction fails, unless
\* its key has been deleted and inserted again since.
UpdateIsSnapshot ==
    \A t \in Txn : iso[t] = "RR" =>
        /\ \A k \in Accessed(t) :
              access[t][k].type # "INS" => access[t][k].csn = RowFromChain(snap[t], hist[k])
        /\ got[t].key # 0 /\ got[t].type # "RD" /\ ~got[t].hasty /\ InSnapshot(t) # 0 =>
              startCSN[got[t].key] >= snap[t]

\* The version that a commit replaces, from the validation on and until the locks
\* are released, is the one that its write was computed from, which under
\* repeatable read is older than the snapshot: no update is lost and the first
\* committer wins.  An insert replaces nothing or a deleted row.
NoLostUpdate ==
    \A t \in Txn : pc[t] \in {"validated", "global", "sentinel", "end"} =>
        \A k \in Accessed(t) :
            LET ac == access[t][k]
                before == IF csn[t] = 0 THEN hist[k] ELSE Tail(hist[k])
            IN  /\ csn[t] # 0 => hist[k][1].csn = csn[t]
                /\ IF ac.type = "INS" /\ ac.upgrade # "onOwnDelete"
                   THEN before = <<>> \/ before[1].deleted
                   ELSE /\ before # <<>> /\ ~before[1].deleted
                        /\ before[1].csn = ac.csn
                        /\ iso[t] = "RR" => before[1].csn < snap[t]

InChain(k, c) == \E i \in DOMAIN chain[k] : chain[k][i].csn = c

\* No version that a transaction has in its hands is destroyed: what it has
\* found for update until it ends, what a read returned until the next operation.
HeldRowsLive ==
    \A t \in Txn :
        /\ \A k \in Accessed(t) :
              \/ access[t][k].upgrade = "onDeleted" \/ access[t][k].csn = 0
              \/ InChain(k, access[t][k].csn)
        /\ Read(t) /\ got[t].csn # 0 /\ ~late[t] => InChain(got[t].key, got[t].csn)
=============================================================================

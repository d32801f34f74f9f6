---------------------------- MODULE GroupRedoLog ----------------------------
(***************************************************************************)
(* Group commit of the MOT redo log: SegmentedGroupSyncRedoLogHandler with *)
(* one GroupSyncRedoLogHandler per NUMA node, the CommitGroup objects that *)
(* its calls of WriteToLog create and join, the flush by the checkpoint,   *)
(* and what RecordTransactionCommit does with the log before and after the *)
(* callback that writes the redo record.                                   *)
(*                                                                         *)
(* A call of WriteToLog makes one CommitGroup before it knows whether it   *)
(* will lead it, so a group is named by the call that made it.  A call     *)
(* stands for one transaction on a thread of its own.                      *)
(***************************************************************************)
EXTENDS Naturals

CONSTANTS
    Call,             \* transactions that write a redo record
    Node,             \* NUMA nodes, each with a handler
    GroupCommitSize,  \* m_groupCommitSize, fixed when the engine starts
    NoGroup,          \* nullptr
    StandbyModes      \* values of standbyInfo that are looked at

ASSUME SizeAssumption == GroupCommitSize \in Nat \ {0}
ASSUME NoGroupAssumption == NoGroup \notin Call
ASSUME ModesAssumption == StandbyModes \subseteq BOOLEAN

VARIABLES
    pc,            \* where each transaction is
    node,          \* MOTCurrentNumaNodeId of its thread
    currentGroup,  \* m_currentGroup of each handler
    expected,      \* nullGroup, the value WriteToLog compares with
    joinedGroup,
    groupIndex,    \* slot taken in the joined group
    groupSize,     \* m_groupSize of each group
    groupData,     \* m_groupData
    closed,        \* m_closed
    commited,      \* m_commited
    numWaiters,    \* m_numWaiters
    readers,       \* holders of m_rwlock for reading
    logPos,        \* loop counter of AddToLog in the leader
    dataLsn,       \* position of a transaction's buffer in the log
    commitLsn,     \* position of its commit record
    standbyInfo,   \* wal_level is hot_standby or logical, outside SS_SINGLE_CLUSTER
    inserted,      \* XactLastRecEnd of its thread is set
    wroteXlog,     \* wrote_xlog in RecordTransactionCommit
    walEnd,        \* redo and commit records inserted in the log
    flushed,       \* records on disk
    checkpoint     \* "idle", "locked", "flushed": holder of the redo lock

callVars == <<pc, node, expected, joinedGroup, groupIndex>>
groupVars == <<groupSize, groupData, closed, commited, numWaiters, readers, logPos>>
walVars == <<standbyInfo, dataLsn, commitLsn, inserted, wroteXlog, walEnd, flushed>>
vars == <<callVars, currentGroup, groupVars, walVars, checkpoint>>

Slot == 0 .. GroupCommitSize - 1
Group == Call \cup {NoGroup}

Outside == {"idle", "written", "recorded", "acked"}
Inside(c) == pc[c] \notin Outside

\* The steps of a leader after it has left WaitLeader's critical section.
Closed == {"leadCommit", "logging", "notifyAll"} \cup (Outside \ {"idle"})

Goto(c, l) == pc' = [pc EXCEPT ![c] = l]

-----------------------------------------------------------------------------
Init ==
    /\ pc = [c \in Call |-> "idle"]
    /\ node \in [Call -> Node]
    /\ currentGroup = [n \in Node |-> NoGroup]
    /\ expected = [c \in Call |-> NoGroup]
    /\ joinedGroup = [c \in Call |-> NoGroup]
    /\ groupIndex = [c \in Call |-> 0]
    /\ groupSize = [g \in Call |-> 1]
    /\ groupData = [g \in Call |-> [i \in Slot |-> IF i = 0 THEN g ELSE NoGroup]]
    /\ closed = [g \in Call |-> FALSE]
    /\ commited = [g \in Call |-> FALSE]
    /\ numWaiters = [g \in Call |-> 0]
    /\ readers = [g \in Call |-> {}]
    /\ logPos = [g \in Call |-> 0]
    /\ standbyInfo \in StandbyModes
    /\ dataLsn = [c \in Call |-> 0]
    /\ commitLsn = [c \in Call |-> 0]
    /\ inserted = [c \in Call |-> FALSE]
    /\ wroteXlog = [c \in Call |-> FALSE]
    /\ walEnd = 0
    /\ flushed = 0
    /\ checkpoint = "idle"

\* CloseGroup takes the group off its handler if it is still there.  The
\* configuration it re-reads does not change while the engine runs.
CloseGroup(n, g) ==
    currentGroup' = [currentGroup EXCEPT ![n] = IF @ = g THEN NoGroup ELSE @]

-----------------------------------------------------------------------------
(* WriteToLog: lead a new group or join the current one.                   *)

\* Mutant: the record is left out for a transaction of MOT tables only.
MutantXLogInsertStandbyCSNCommitting(c) == UNCHANGED inserted

\* RecordTransactionCommit before the MOT callback: with hot standby the thread
\* of the transaction logs that its commit is under way, and XLogInsert leaves the
\* end of that record in XactLastRecEnd.  Nothing looks at where the record is.
XLogInsertStandbyCSNCommitting(c) == inserted' = [inserted EXCEPT ![c] = standbyInfo]

\* The callback: RedoLog::WriteToLog takes the redo lock for reading and calls the
\* handler of its node; the handler makes the call's own group.  What the thread
\* inserted before that is its own business, so both are one step.
Start(c) ==
    /\ pc[c] = "idle"
    /\ XLogInsertStandbyCSNCommitting(c)
    /\ checkpoint = "idle"
    /\ Goto(c, "cas")
    /\ UNCHANGED <<node, expected, joinedGroup, groupIndex, currentGroup, groupVars,
                   standbyInfo, dataLsn, commitLsn, wroteXlog, walEnd, flushed, checkpoint>>

\* Mutant: a null group is not taken over into nullGroup.
MutantTryLead(c) ==
    LET n == node[c] IN
    /\ pc[c] = "cas"
    /\ IF currentGroup[n] = expected[c]
         THEN /\ currentGroup' = [currentGroup EXCEPT ![n] = c]
              /\ joinedGroup' = [joinedGroup EXCEPT ![c] = c]
              /\ groupIndex' = [groupIndex EXCEPT ![c] = 0]
              /\ Goto(c, "joined")
              /\ expected' = [expected EXCEPT ![c] = NoGroup]
         ELSE /\ expected' = [expected EXCEPT ![c] = IF currentGroup[n] = NoGroup THEN @
                                                     ELSE currentGroup[n]]
              /\ Goto(c, IF GroupCommitSize = 1 THEN "cas" ELSE "find")
              /\ UNCHANGED <<currentGroup, joinedGroup, groupIndex>>
    /\ UNCHANGED <<node, groupVars, walVars, checkpoint>>

\* The compare-exchange.  When it fails it leaves the current group in
\* nullGroup, which the next try compares with.  Nobody reads nullGroup after the
\* loop, so what it holds when a group is joined is forgotten here and in FillSlot.
TryLead(c) ==
    LET n == node[c] IN
    /\ pc[c] = "cas"
    /\ IF currentGroup[n] = expected[c]
         THEN /\ currentGroup' = [currentGroup EXCEPT ![n] = c]
              /\ joinedGroup' = [joinedGroup EXCEPT ![c] = c]
              /\ groupIndex' = [groupIndex EXCEPT ![c] = 0]
              /\ Goto(c, "joined")
              /\ expected' = [expected EXCEPT ![c] = NoGroup]
         ELSE /\ expected' = [expected EXCEPT ![c] = currentGroup[n]]
              /\ Goto(c, IF GroupCommitSize = 1 THEN "cas" ELSE "find")
              /\ UNCHANGED <<currentGroup, joinedGroup, groupIndex>>
    /\ UNCHANGED <<node, groupVars, walVars, checkpoint>>

\* Look for a group to join; a null group, seen for long or in the second of
\* the two reads, sends the call back to the compare-exchange.
FindGroup(c) ==
    LET g == currentGroup[node[c]] IN
    /\ pc[c] = "find"
    /\ joinedGroup' = [joinedGroup EXCEPT ![c] = g]
    /\ Goto(c, IF g = NoGroup THEN "cas" ELSE "add")
    /\ UNCHANGED <<node, expected, groupIndex, currentGroup, groupVars, walVars, checkpoint>>

\* Mutant: the group is not locked while the slot is being filled.
MutantAddToGroup(c) ==
    LET g == joinedGroup[c] IN
    /\ pc[c] = "add"
    /\ IF closed[g]
         THEN /\ Goto(c, "missed")
              /\ UNCHANGED <<groupIndex, groupSize>>
         ELSE /\ groupIndex' = [groupIndex EXCEPT ![c] = groupSize[g]]
              /\ groupSize' = [groupSize EXCEPT ![g] = @ + 1]
              /\ Goto(c, IF groupSize[g] >= GroupCommitSize THEN "undo" ELSE "fill")
    /\ UNCHANGED <<node, expected, joinedGroup, currentGroup, groupData, closed, commited,
                   numWaiters, readers, logPos, walVars, checkpoint>>

\* AddToGroup up to the fetch_add, under the group's lock for reading.
AddToGroup(c) ==
    LET g == joinedGroup[c] IN
    /\ pc[c] = "add"
    /\ IF closed[g]
         THEN /\ Goto(c, "missed")
              /\ UNCHANGED <<groupIndex, groupSize, readers>>
         ELSE /\ groupIndex' = [groupIndex EXCEPT ![c] = groupSize[g]]
              /\ groupSize' = [groupSize EXCEPT ![g] = @ + 1]
              /\ readers' = [readers EXCEPT ![g] = @ \cup {c}]
              /\ Goto(c, IF groupSize[g] >= GroupCommitSize THEN "undo" ELSE "fill")
    /\ UNCHANGED <<node, expected, joinedGroup, currentGroup, groupData, closed, commited,
                   numWaiters, logPos, walVars, checkpoint>>

\* The group is full: take the increment back.
UndoAdd(c) ==
    LET g == joinedGroup[c] IN
    /\ pc[c] = "undo"
    /\ groupSize' = [groupSize EXCEPT ![g] = @ - 1]
    /\ readers' = [readers EXCEPT ![g] = @ \ {c}]
    /\ Goto(c, "missed")
    /\ UNCHANGED <<node, expected, joinedGroup, groupIndex, currentGroup, groupData, closed,
                   commited, numWaiters, logPos, walVars, checkpoint>>

FillSlot(c) ==
    LET g == joinedGroup[c] IN
    /\ pc[c] = "fill"
    /\ groupData' = [groupData EXCEPT ![g] = [@ EXCEPT ![groupIndex[c]] = c]]
    /\ readers' = [readers EXCEPT ![g] = @ \ {c}]
    /\ expected' = [expected EXCEPT ![c] = NoGroup]
    /\ Goto(c, "joined")
    /\ UNCHANGED <<node, joinedGroup, groupIndex, currentGroup, groupSize, closed,
                   commited, numWaiters, logPos, walVars, checkpoint>>

\* The group could not be joined: take it off the handler and try again.
MissedGroup(c) ==
    /\ pc[c] = "missed"
    /\ CloseGroup(node[c], joinedGroup[c])
    /\ joinedGroup' = [joinedGroup EXCEPT ![c] = NoGroup]
    /\ Goto(c, "cas")
    /\ UNCHANGED <<node, expected, groupIndex, groupVars, walVars, checkpoint>>

\* The last to join takes the full group off the handler.
Joined(c) ==
    /\ pc[c] = "joined"
    /\ IF groupIndex[c] + 1 = GroupCommitSize
         THEN CloseGroup(node[c], joinedGroup[c])
         ELSE UNCHANGED currentGroup
    /\ Goto(c, "commit")
    /\ UNCHANGED <<node, expected, joinedGroup, groupIndex, groupVars, walVars, checkpoint>>

-----------------------------------------------------------------------------
(* CommitGroup::Commit.  m_fullGroupMutex is held by the leader of a group *)
(* from the end of its wait until it has closed the group; m_commitMutex by*)
(* the leader while it logs the group and by the last member while it      *)
(* notifies the leader.                                                    *)

CommitMutexFree(g) ==
    /\ pc[g] # "logging"
    /\ \A m \in Call : ~(joinedGroup[m] = g /\ pc[m] = "notifying")

\* Mutant: the member is compared with the size, not with its last slot.
MutantArrive(c) ==
    LET g == joinedGroup[c] IN
    /\ pc[c] = "commit"
    /\ numWaiters' = [numWaiters EXCEPT ![g] = @ + 1]
    /\ Goto(c, CASE g = c -> "leadCheck"
                 [] g # c /\ numWaiters[g] = GroupCommitSize -> "lastLock"
                 [] g # c /\ numWaiters[g] # GroupCommitSize -> "memberLock")
    /\ UNCHANGED <<node, expected, joinedGroup, groupIndex, currentGroup, groupSize, groupData,
                   closed, commited, readers, logPos, walVars, checkpoint>>

\* Mutant: the waiters are counted down.
MutantCountDown(c) ==
    LET g == joinedGroup[c] IN
    /\ pc[c] = "commit"
    /\ numWaiters' = [numWaiters EXCEPT ![g] = @ - 1]
    /\ Goto(c, IF g = c THEN "leadCheck" ELSE "memberLock")
    /\ UNCHANGED <<node, expected, joinedGroup, groupIndex, currentGroup, groupSize, groupData,
                   closed, commited, readers, logPos, walVars, checkpoint>>

\* The first statement of WaitLeader and of WaitMember.  The member that finds
\* all others waiting is to wake the leader.
Arrive(c) ==
    LET g == joinedGroup[c] IN
    /\ pc[c] = "commit"
    /\ numWaiters' = [numWaiters EXCEPT ![g] = @ + 1]
    /\ Goto(c, CASE g = c -> "leadCheck"
                 [] g # c /\ numWaiters[g] = GroupCommitSize - 1 -> "lastLock"
                 [] g # c /\ numWaiters[g] # GroupCommitSize - 1 -> "memberLock")
    /\ UNCHANGED <<node, expected, joinedGroup, groupIndex, currentGroup, groupSize, groupData,
                   closed, commited, readers, logPos, walVars, checkpoint>>

\* The predicate of the leader's wait, before sleeping and after a wake-up.
LeadCheck(c) ==
    /\ pc[c] = "leadCheck"
    /\ Goto(c, IF groupSize[c] >= GroupCommitSize THEN "closing" ELSE "leadSleep")
    /\ UNCHANGED <<node, expected, joinedGroup, groupIndex, currentGroup, groupVars, walVars,
                   checkpoint>>

\* The wait gives up after m_groupTimeout.
LeadTimeout(c) ==
    /\ pc[c] = "leadSleep"
    /\ Goto(c, "closing")
    /\ UNCHANGED <<node, expected, joinedGroup, groupIndex, currentGroup, groupVars, walVars,
                   checkpoint>>

\* Mutant: the closed group stays installed in the handler.
MutantLeadClose(c) ==
    /\ pc[c] = "closing"
    /\ readers[c] = {}
    /\ closed' = [closed EXCEPT ![c] = TRUE]
    /\ Goto(c, "leadCommit")
    /\ UNCHANGED <<node, expected, joinedGroup, groupIndex, currentGroup, groupSize, groupData,
                   commited, numWaiters, readers, logPos, walVars, checkpoint>>

\* The group's lock for writing: no call is in AddToGroup.
LeadClose(c) ==
    /\ pc[c] = "closing"
    /\ readers[c] = {}
    /\ closed' = [closed EXCEPT ![c] = TRUE]
    /\ CloseGroup(node[c], c)
    /\ Goto(c, "leadCommit")
    /\ UNCHANGED <<node, expected, joinedGroup, groupIndex, groupSize, groupData, commited,
                   numWaiters, readers, logPos, walVars, checkpoint>>

LeadCommit(c) ==
    /\ pc[c] = "leadCommit"
    /\ CommitMutexFree(c)
    /\ Goto(c, "logging")
    /\ UNCHANGED <<node, expected, joinedGroup, groupIndex, currentGroup, groupVars, walVars,
                   checkpoint>>

\* LogGroup: one record per slot, each an insertion by the leader's thread.
LogSlot(c) ==
    LET b == groupData[c][logPos[c]] IN
    /\ pc[c] = "logging"
    /\ logPos[c] < groupSize[c]
    /\ walEnd' = walEnd + 1
    /\ dataLsn' = [m \in Call |-> IF m = b THEN walEnd + 1 ELSE dataLsn[m]]
    /\ inserted' = [inserted EXCEPT ![c] = TRUE]
    /\ logPos' = [logPos EXCEPT ![c] = @ + 1]
    /\ UNCHANGED <<callVars, currentGroup, groupSize, groupData, closed, commited, numWaiters,
                   readers, standbyInfo, commitLsn, wroteXlog, flushed, checkpoint>>

\* The end of LogGroup.  FlushLog of XLOGLogger does nothing.
LogDone(c) ==
    /\ pc[c] = "logging"
    /\ logPos[c] = groupSize[c]
    /\ commited' = [commited EXCEPT ![c] = TRUE]
    /\ Goto(c, "notifyAll")
    /\ UNCHANGED <<node, expected, joinedGroup, groupIndex, currentGroup, groupSize, groupData,
                   closed, numWaiters, readers, logPos, walVars, checkpoint>>

NotifyAll(c) ==
    /\ pc[c] = "notifyAll"
    /\ pc' = [m \in Call |->
                CASE m = c -> "written"
                  [] m # c /\ joinedGroup[m] = c /\ pc[m] = "memberSleep" -> "memberWoken"
                  [] m # c /\ ~(joinedGroup[m] = c /\ pc[m] = "memberSleep") -> pc[m]]
    /\ UNCHANGED <<node, expected, joinedGroup, groupIndex, currentGroup, groupVars, walVars,
                   checkpoint>>

\* Mutant: a member that is locked out takes the group for committed.
MutantMemberCheck(c) ==
    /\ pc[c] \in {"memberLock", "memberWoken"}
    /\ Goto(c, "written")
    /\ UNCHANGED <<node, expected, joinedGroup, groupIndex, currentGroup, groupVars, walVars,
                   checkpoint>>

\* WaitMember of a member that has nobody to wake, and after a wake-up: the
\* predicate of the wait, with m_commitMutex held.
MemberCheck(c) ==
    /\ pc[c] \in {"memberLock", "memberWoken"}
    /\ CommitMutexFree(joinedGroup[c])
    /\ Goto(c, IF commited[joinedGroup[c]] THEN "written" ELSE "memberSleep")
    /\ UNCHANGED <<node, expected, joinedGroup, groupIndex, currentGroup, groupVars, walVars,
                   checkpoint>>

LastLock(c) ==
    /\ pc[c] = "lastLock"
    /\ CommitMutexFree(joinedGroup[c])
    /\ Goto(c, "notifying")
    /\ UNCHANGED <<node, expected, joinedGroup, groupIndex, currentGroup, groupVars, walVars,
                   checkpoint>>

\* With m_fullGroupMutex free, wake the leader and go on to wait.
NotifyLeader(c) ==
    LET g == joinedGroup[c] IN
    /\ pc[c] = "notifying"
    /\ pc[g] # "closing"
    /\ pc' = [pc EXCEPT ![c] = IF commited[g] THEN "written" ELSE "memberSleep",
                        ![g] = IF @ = "leadSleep" THEN "leadCheck" ELSE @]
    /\ UNCHANGED <<node, expected, joinedGroup, groupIndex, currentGroup, groupVars, walVars,
                   checkpoint>>

-----------------------------------------------------------------------------
(* RecordTransactionCommit after the MOT callback.                         *)

\* wrote_xlog is set if this thread inserted a record, be it the one of hot
\* standby; the commit record of the envelope comes after that.
RecordCommit(c) ==
    /\ pc[c] = "written"
    /\ wroteXlog' = [wroteXlog EXCEPT ![c] = inserted[c]]
    /\ walEnd' = walEnd + 1
    /\ commitLsn' = [commitLsn EXCEPT ![c] = walEnd + 1]
    /\ inserted' = [inserted EXCEPT ![c] = TRUE]
    /\ Goto(c, "recorded")
    /\ UNCHANGED <<node, expected, joinedGroup, groupIndex, currentGroup, groupVars,
                   standbyInfo, dataLsn, flushed, checkpoint>>

\* Synchronous commit waits until XactLastRecEnd, by now the end of the commit
\* record, is on disk; asynchronous commit does not.  Then the client is told.
Acknowledge(c) ==
    /\ pc[c] = "recorded"
    /\ wroteXlog[c] => flushed >= commitLsn[c]
    /\ Goto(c, "acked")
    /\ UNCHANGED <<node, expected, joinedGroup, groupIndex, currentGroup, groupVars, walVars,
                   checkpoint>>

\* XLogBackgroundFlush: the WAL writer puts on disk what is in the log.
WalFlush ==
    /\ flushed < walEnd
    /\ flushed' = walEnd
    /\ UNCHANGED <<callVars, currentGroup, groupVars, standbyInfo, dataLsn, commitLsn, inserted,
                   wroteXlog, walEnd, checkpoint>>

-----------------------------------------------------------------------------
(* The checkpoint enters CAPTURE.                                          *)

CheckpointLock ==
    /\ checkpoint = "idle"
    /\ \A c \in Call : ~Inside(c)
    /\ checkpoint' = "locked"
    /\ UNCHANGED <<callVars, currentGroup, groupVars, walVars>>

\* SegmentedGroupSyncRedoLogHandler::Flush spins on the group of each handler.
Flush ==
    /\ checkpoint = "locked"
    /\ \A n \in Node : currentGroup[n] # NoGroup => commited[currentGroup[n]]
    /\ checkpoint' = "flushed"
    /\ UNCHANGED <<callVars, currentGroup, groupVars, walVars>>

CheckpointUnlock ==
    /\ checkpoint = "flushed"
    /\ checkpoint' = "idle"
    /\ UNCHANGED <<callVars, currentGroup, groupVars, walVars>>

-----------------------------------------------------------------------------
\* The steps of a call other than its start and the leader's timeout.
CallStep(c) ==
    \/ TryLead(c) \/ FindGroup(c) \/ AddToGroup(c) \/ UndoAdd(c) \/ FillSlot(c)
    \/ MissedGroup(c) \/ Joined(c) \/ Arrive(c)
    \/ LeadCheck(c) \/ LeadClose(c) \/ LeadCommit(c) \/ LogSlot(c) \/ LogDone(c) \/ NotifyAll(c)
    \/ MemberCheck(c) \/ LastLock(c) \/ NotifyLeader(c)
    \/ RecordCommit(c) \/ Acknowledge(c)

Next ==
    \/ \E c \in Call : Start(c) \/ CallStep(c) \/ LeadTimeout(c)
    \/ WalFlush
    \/ CheckpointLock \/ Flush \/ CheckpointUnlock

Spec == Init /\ [][Next]_vars

\* Threads and the WAL writer run.  Nothing is said of the clock.
FairSpec ==
    /\ Spec
    /\ \A c \in Call : WF_vars(CallStep(c))
    /\ WF_vars(WalFlush)

\* The clock runs: a wait with a timeout ends.
ClockRuns == \A c \in Call : WF_vars(LeadTimeout(c))

-----------------------------------------------------------------------------
(* Properties.                                                             *)

Stages ==
    {"idle", "cas", "find", "add", "undo", "fill", "missed", "joined", "commit", "leadCheck",
     "leadSleep", "closing", "leadCommit", "logging", "notifyAll", "memberLock", "lastLock",
     "notifying", "memberSleep", "memberWoken", "written", "recorded", "acked"}

\* Types of the variables.
TypeOK ==
    /\ pc \in [Call -> Stages]
    /\ node \in [Call -> Node]
    /\ currentGroup \in [Node -> Group]
    /\ expected \in [Call -> Group]
    /\ joinedGroup \in [Call -> Group]
    /\ groupIndex \in [Call -> Nat]
    /\ groupSize \in [Call -> Nat]
    /\ groupData \in [Call -> [Slot -> Group]]
    /\ closed \in [Call -> BOOLEAN]
    /\ commited \in [Call -> BOOLEAN]
    /\ numWaiters \in [Call -> Nat]
    /\ readers \in [Call -> SUBSET Call]
    /\ logPos \in [Call -> Nat]
    /\ standbyInfo \in BOOLEAN
    /\ dataLsn \in [Call -> Nat]
    /\ commitLsn \in [Call -> Nat]
    /\ inserted \in [Call -> BOOLEAN]
    /\ wroteXlog \in [Call -> BOOLEAN]
    /\ walEnd \in Nat
    /\ flushed \in Nat
    /\ checkpoint \in {"idle", "locked", "flushed"}

\* When a leader logs its group, each slot below m_groupSize holds the buffer
\* of a transaction that waits in WriteToLog for this group, and no buffer is
\* in two slots: nothing torn, taken back or reused is written.
SlotsFilled ==
    \A g \in Call : pc[g] = "logging" =>
        /\ groupSize[g] <= GroupCommitSize
        /\ \A i \in Slot : i < groupSize[g] =>
              /\ groupData[g][i] # NoGroup
              /\ joinedGroup[groupData[g][i]] = g
              /\ Inside(groupData[g][i])
              /\ \A j \in Slot : j < i => groupData[g][j] # groupData[g][i]

\* The group installed in a handler is led by a transaction of that node that
\* has not closed it: a retried compare-exchange may replace an open group but
\* none is ever left behind for the checkpoint to spin on.
OpenGroupLed ==
    \A n \in Node : currentGroup[n] # NoGroup =>
        /\ node[currentGroup[n]] = n
        /\ pc[currentGroup[n]] \in {"joined", "commit", "leadCheck", "leadSleep", "closing"}

\* A transaction is on disk: its redo record precedes its commit record, and
\* both are flushed.
OnDisk(c) == 0 < dataLsn[c] /\ dataLsn[c] < commitLsn[c] /\ commitLsn[c] <= flushed

\* RecordTransactionCommit tells a client only of what is on disk, for the leader
\* of a group, whose thread inserted the group's records, and with hot standby for
\* every member, whose thread inserted a record of its own before it joined.
AckIsDurable ==
    \A c \in Call : pc[c] = "acked" /\ (joinedGroup[c] = c \/ standbyInfo) => OnDisk(c)

\* Every transaction is, in every mode (mot.conf: the transactions of a group wait
\* for a group-flush to finish before the client is notified).
AckedIsDurable == \A c \in Call : pc[c] = "acked" => OnDisk(c)

\* WriteToLog keeps the promise of a redo log handler: the buffer of a call is
\* inserted once, while the call is inside, whichever thread does it.
Stage(c) ==
    CASE pc[c] = "idle" -> "idle"
      [] Inside(c) /\ dataLsn[c] = 0 -> "called"
      [] Inside(c) /\ dataLsn[c] # 0 -> "logged"
      [] pc[c] \in {"written", "recorded", "acked"} -> "returned"

Handler == INSTANCE RedoLogHandler WITH stage <- [c \in Call |-> Stage(c)]

KeepsPromise == Handler!HandlerSpec

\* Every transaction that calls WriteToLog is acknowledged if timeouts expire:
\* no lost wake-up, no deadlock of the two mutexes, no endless retry.
CallEnds == ClockRuns => \A c \in Call : Inside(c) ~> pc[c] = "acked"

\* A group whose slots are all filled is committed without help of the timeout:
\* the last to arrive wakes the leader.
FullGroupCommits ==
    \A g \in Call :
        (\A i \in Slot : groupData[g][i] # NoGroup) /\ Inside(g) /\ joinedGroup[g] = g ~> commited[g]
=============================================================================

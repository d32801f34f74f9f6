------------------------- MODULE GroupRedoLogProofs -------------------------
(***************************************************************************)
(* Proofs about GroupRedoLog for any set of transactions, any NUMA nodes   *)
(* and any group size.  A step of the model is first brought into a form   *)
(* that says what happens to each call and to each group (StepEffect); the *)
(* parts of the inductive invariant IInv are then shown to be preserved by *)
(* each kind of step.                                                      *)
(***************************************************************************)
EXTENDS GroupRedoLog, FiniteSetTheorems, TLAPS

Leading == {"leadCheck", "leadSleep", "closing", "leadCommit", "logging", "notifyAll"}
Waiting == {"memberLock", "lastLock", "notifying", "memberSleep", "memberWoken"}
Trying == {"add", "undo", "fill", "missed"}
Returned == {"written", "recorded", "acked"}
Seated == {"joined", "commit"} \cup Leading \cup Waiting \cup Returned

Fillers(g) == {c \in Call : joinedGroup[c] = g /\ pc[c] = "fill"}
Undoers(g) == {c \in Call : joinedGroup[c] = g /\ pc[c] = "undo"}

\* Who leads, who is a member, and when a group is closed and committed.
RoleOf(c) ==
    /\ pc[c] \in {"idle", "cas", "find"} => joinedGroup[c] = NoGroup
    /\ pc[c] \in Leading => joinedGroup[c] = c
    /\ pc[c] \in Waiting \cup Trying => joinedGroup[c] # c
    /\ pc[c] \in Seated \cup Trying => joinedGroup[c] # NoGroup
    /\ joinedGroup[c] # NoGroup => joinedGroup[joinedGroup[c]] = joinedGroup[c]
    /\ closed[c] <=> joinedGroup[c] = c /\ pc[c] \in Closed
    /\ commited[c] <=> joinedGroup[c] = c /\ pc[c] \in {"notifyAll"} \cup Returned
    /\ pc[c] \in Returned => commited[joinedGroup[c]]

\* The installed group is led by a call of the node that has yet to close it.
OpenOf(n) ==
    currentGroup[n] # NoGroup =>
        /\ node[currentGroup[n]] = n
        /\ pc[currentGroup[n]] \in {"joined", "commit", "leadCheck", "leadSleep", "closing"}
        /\ joinedGroup[currentGroup[n]] = currentGroup[n]

RoleInv == (\A c \in Call : RoleOf(c)) /\ (\A n \in Node : OpenOf(n))

\* Calls in AddToGroup hold the lock of a group that is still open.
ReaderOf(g) ==
    /\ readers[g] = Fillers(g) \cup Undoers(g)
    /\ closed[g] => readers[g] = {}

ReaderInv == \A g \in Call : ReaderOf(g)

\* m_groupSize exceeds the capacity only by the increments to be taken back.
SizeOf(g) ==
    /\ groupSize[g] >= 1
    /\ IsFiniteSet(Undoers(g))
    /\ groupSize[g] <= GroupCommitSize + Cardinality(Undoers(g))
    /\ Undoers(g) # {} => groupSize[g] = GroupCommitSize + Cardinality(Undoers(g))

SizeInv == \A g \in Call : SizeOf(g)

\* Each slot below m_groupSize is filled, or being filled by one call; the
\* transaction in a slot is seated in that slot of that group.
IsSeated(c) == pc[c] \in Seated
Filling(c) == pc[c] = "fill"

SlotOf(g, i) ==
    /\ i < groupSize[g] =>
          \/ groupData[g][i] # NoGroup
          \/ \E m \in Call : Filling(m) /\ joinedGroup[m] = g /\ groupIndex[m] = i
    /\ i >= groupSize[g] => groupData[g][i] = NoGroup
    /\ i = 0 => groupData[g][i] = g
    /\ i # 0 /\ groupData[g][i] # NoGroup =>
          /\ joinedGroup[groupData[g][i]] = g
          /\ groupIndex[groupData[g][i]] = i
          /\ IsSeated(groupData[g][i])

SeatOf(c) ==
    /\ Filling(c) =>
          /\ groupIndex[c] \in Slot
          /\ groupIndex[c] # 0
          /\ groupIndex[c] < groupSize[joinedGroup[c]]
          /\ groupData[joinedGroup[c]][groupIndex[c]] = NoGroup
          /\ \A d \in Call : joinedGroup[d] = joinedGroup[c] /\ Filling(d) /\ d # c =>
                groupIndex[d] # groupIndex[c]
    /\ IsSeated(c) =>
          /\ groupIndex[c] \in Slot
          /\ groupData[joinedGroup[c]][groupIndex[c]] = c
    /\ joinedGroup[c] = c => groupIndex[c] = 0

SeatInv == (\A g \in Call, i \in Slot : SlotOf(g, i)) /\ (\A c \in Call : SeatOf(c))

\* A leader logs the slots in order; what is logged is exactly what lies below
\* its position.
Logs(c) == joinedGroup[c] = c /\ pc[c] \in {"logging", "notifyAll"} \cup Returned

LogOf(c) ==
    /\ ~Logs(c) => logPos[c] = 0
    /\ logPos[c] <= groupSize[c]
    /\ commited[c] => logPos[c] = groupSize[c]
    /\ ~IsSeated(c) => dataLsn[c] = 0
    /\ IsSeated(c) => (dataLsn[c] # 0 <=> groupIndex[c] < logPos[joinedGroup[c]])

LogInv == \A c \in Call : LogOf(c)

\* Positions in the log.  The thread of a leader, and with hot standby of every
\* call, has inserted a record by itself.
Waits(c) == joinedGroup[c] = c \/ standbyInfo = TRUE

LsnOf(c) ==
    /\ dataLsn[c] <= walEnd
    /\ joinedGroup[c] = c /\ logPos[c] > 0 => inserted[c] = TRUE
    /\ standbyInfo = TRUE /\ pc[c] # "idle" => inserted[c] = TRUE
    /\ pc[c] \in {"recorded", "acked"} =>
          /\ dataLsn[c] < commitLsn[c]
          /\ Waits(c) => wroteXlog[c] = TRUE
    /\ pc[c] = "acked" /\ Waits(c) => commitLsn[c] <= flushed

LsnInv == flushed <= walEnd /\ \A c \in Call : LsnOf(c)

\* The inductive invariant.
IInv == TypeOK /\ RoleInv /\ ReaderInv /\ SizeInv /\ SeatInv /\ LogInv /\ LsnInv

-----------------------------------------------------------------------------
(* What each kind of step does, call by call and group by group.           *)

\* Call c goes to l, the others stay.
Jump(c, l) == pc'[c] = l /\ \A d \in Call : d # c => pc'[d] = pc[d]

SameCalls == UNCHANGED <<node, joinedGroup, groupIndex>>
SameGroups == UNCHANGED <<groupSize, groupData, closed, commited, readers, logPos>>
SameWal == UNCHANGED <<standbyInfo, dataLsn, commitLsn, inserted, wroteXlog, walEnd, flushed>>

\* Only the program counter of c moves, and with its start what it inserted.
MoveE(c) ==
    /\ SameCalls /\ SameGroups
    /\ UNCHANGED <<currentGroup, standbyInfo, dataLsn, commitLsn, wroteXlog, walEnd, flushed>>
    /\ inserted'[c] = IF pc[c] = "idle" THEN standbyInfo ELSE inserted[c]
    /\ \A d \in Call : d # c => inserted'[d] = inserted[d]
    /\ Jump(c, pc'[c])
    /\ \/ pc[c] = "idle" /\ pc'[c] = "cas"
       \/ pc[c] = "cas" /\ pc'[c] \in {"cas", "find"}
       \/ pc[c] = "add" /\ pc'[c] = "missed"
       \/ pc[c] = "commit" /\ joinedGroup[c] = c /\ pc'[c] = "leadCheck"
       \/ pc[c] = "commit" /\ joinedGroup[c] # c /\ pc'[c] \in {"memberLock", "lastLock"}
       \/ pc[c] = "leadCheck" /\ pc'[c] \in {"leadSleep", "closing"}
       \/ pc[c] = "leadSleep" /\ pc'[c] = "closing"
       \/ pc[c] = "leadCommit" /\ pc'[c] = "logging"
       \/ pc[c] \in {"memberLock", "memberWoken"} /\ pc'[c] = "memberSleep"
       \/ pc[c] \in {"memberLock", "memberWoken"} /\ pc'[c] = "written" /\ commited[joinedGroup[c]]
       \/ pc[c] = "lastLock" /\ pc'[c] = "notifying"
       \/ pc[c] = "recorded" /\ pc'[c] = "acked" /\ (wroteXlog[c] => flushed >= commitLsn[c])

LeadE(c) ==
    /\ pc[c] = "cas" /\ Jump(c, "joined")
    /\ UNCHANGED node /\ SameGroups /\ SameWal
    /\ joinedGroup'[c] = c /\ groupIndex'[c] = 0
    /\ \A d \in Call : d # c => joinedGroup'[d] = joinedGroup[d] /\ groupIndex'[d] = groupIndex[d]
    /\ currentGroup'[node[c]] = c
    /\ \A n \in Node : n # node[c] => currentGroup'[n] = currentGroup[n]

FindE(c) ==
    /\ pc[c] = "find" /\ Jump(c, IF currentGroup[node[c]] = NoGroup THEN "cas" ELSE "add")
    /\ UNCHANGED <<node, groupIndex, currentGroup>> /\ SameGroups /\ SameWal
    /\ joinedGroup'[c] = currentGroup[node[c]]
    /\ \A d \in Call : d # c => joinedGroup'[d] = joinedGroup[d]

TakeE(c) ==
    LET g == joinedGroup[c] IN
    /\ pc[c] = "add" /\ Jump(c, IF groupSize[g] >= GroupCommitSize THEN "undo" ELSE "fill")
    /\ ~closed[g]
    /\ UNCHANGED <<node, joinedGroup, currentGroup, groupData, closed, commited, logPos>> /\ SameWal
    /\ groupIndex'[c] = groupSize[g]
    /\ \A d \in Call : d # c => groupIndex'[d] = groupIndex[d]
    /\ groupSize'[g] = groupSize[g] + 1 /\ readers'[g] = readers[g] \cup {c}
    /\ \A h \in Call : h # g => groupSize'[h] = groupSize[h] /\ readers'[h] = readers[h]

UndoE(c) ==
    LET g == joinedGroup[c] IN
    /\ pc[c] = "undo" /\ Jump(c, "missed")
    /\ SameCalls /\ UNCHANGED <<currentGroup, groupData, closed, commited, logPos>> /\ SameWal
    /\ groupSize'[g] = groupSize[g] - 1 /\ readers'[g] = readers[g] \ {c}
    /\ \A h \in Call : h # g => groupSize'[h] = groupSize[h] /\ readers'[h] = readers[h]

FillE(c) ==
    LET g == joinedGroup[c] IN
    /\ pc[c] = "fill" /\ Jump(c, "joined")
    /\ SameCalls /\ UNCHANGED <<currentGroup, groupSize, closed, commited, logPos>> /\ SameWal
    /\ \A i \in Slot : groupData'[g][i] = IF i = groupIndex[c] THEN c ELSE groupData[g][i]
    /\ readers'[g] = readers[g] \ {c}
    /\ \A h \in Call : h # g => groupData'[h] = groupData[h] /\ readers'[h] = readers[h]

MissE(c) ==
    /\ pc[c] = "missed" /\ Jump(c, "cas")
    /\ UNCHANGED <<node, groupIndex>> /\ SameGroups /\ SameWal
    /\ joinedGroup'[c] = NoGroup
    /\ \A d \in Call : d # c => joinedGroup'[d] = joinedGroup[d]
    /\ \A n \in Node : currentGroup'[n] \in {currentGroup[n], NoGroup}

JoinedE(c) ==
    /\ pc[c] = "joined" /\ Jump(c, "commit")
    /\ SameCalls /\ SameGroups /\ SameWal
    /\ \A n \in Node : currentGroup'[n] \in {currentGroup[n], NoGroup}

CloseE(c) ==
    /\ pc[c] = "closing" /\ Jump(c, "leadCommit")
    /\ readers[c] = {}
    /\ SameCalls /\ UNCHANGED <<groupSize, groupData, commited, readers, logPos>> /\ SameWal
    /\ closed'[c] = TRUE
    /\ \A h \in Call : h # c => closed'[h] = closed[h]
    /\ currentGroup'[node[c]] # c
    /\ \A n \in Node : currentGroup'[n] \in {currentGroup[n], NoGroup}

LogE(c) ==
    /\ pc[c] = "logging" /\ logPos[c] < groupSize[c]
    /\ SameCalls /\ UNCHANGED <<pc, currentGroup, groupSize, groupData, closed, commited, readers>>
    /\ UNCHANGED <<standbyInfo, commitLsn, wroteXlog, flushed>>
    /\ walEnd' = walEnd + 1
    /\ dataLsn' = [d \in Call |-> IF d = groupData[c][logPos[c]] THEN walEnd + 1 ELSE dataLsn[d]]
    /\ inserted'[c] = TRUE /\ logPos'[c] = logPos[c] + 1
    /\ \A d \in Call : d # c => inserted'[d] = inserted[d] /\ logPos'[d] = logPos[d]

DoneE(c) ==
    /\ pc[c] = "logging" /\ logPos[c] = groupSize[c] /\ Jump(c, "notifyAll")
    /\ SameCalls /\ UNCHANGED <<currentGroup, groupSize, groupData, closed, readers, logPos>>
    /\ SameWal
    /\ commited'[c] = TRUE
    /\ \A h \in Call : h # c => commited'[h] = commited[h]

AllE(c) ==
    /\ pc[c] = "notifyAll" /\ pc'[c] = "written"
    /\ \A d \in Call : d # c =>
          pc'[d] = pc[d] \/ (pc[d] = "memberSleep" /\ pc'[d] = "memberWoken")
    /\ SameCalls /\ SameGroups /\ SameWal /\ UNCHANGED currentGroup

NotifyE(c) ==
    LET g == joinedGroup[c] IN
    /\ pc[c] = "notifying"
    /\ pc'[c] = "memberSleep" \/ (pc'[c] = "written" /\ commited[g])
    /\ pc'[g] = pc[g] \/ (pc[g] = "leadSleep" /\ pc'[g] = "leadCheck")
    /\ \A d \in Call : d # c /\ d # g => pc'[d] = pc[d]
    /\ SameCalls /\ SameGroups /\ SameWal /\ UNCHANGED currentGroup

RecordE(c) ==
    /\ pc[c] = "written" /\ Jump(c, "recorded")
    /\ SameCalls /\ SameGroups /\ UNCHANGED <<currentGroup, standbyInfo, dataLsn, flushed>>
    /\ walEnd' = walEnd + 1
    /\ commitLsn'[c] = walEnd + 1 /\ inserted'[c] = TRUE
    /\ wroteXlog'[c] = inserted[c]
    /\ \A d \in Call : d # c => /\ commitLsn'[d] = commitLsn[d]
                                /\ inserted'[d] = inserted[d]
                                /\ wroteXlog'[d] = wroteXlog[d]

FlushE ==
    /\ UNCHANGED <<pc, currentGroup>> /\ SameCalls /\ SameGroups
    /\ UNCHANGED <<standbyInfo, dataLsn, commitLsn, inserted, wroteXlog, walEnd>>
    /\ flushed' \in {flushed, walEnd}

Kinds(c) ==
    \/ MoveE(c) \/ LeadE(c) \/ FindE(c) \/ TakeE(c) \/ UndoE(c) \/ FillE(c) \/ MissE(c)
    \/ JoinedE(c) \/ CloseE(c) \/ LogE(c) \/ DoneE(c) \/ AllE(c) \/ NotifyE(c) \/ RecordE(c)

StepEffect == FlushE \/ \E c \in Call : Kinds(c)

\* Every step is of one of the kinds.
LEMMA Effects == IInv /\ [Next]_vars => StepEffect
<1> SUFFICES ASSUME IInv, [Next]_vars PROVE StepEffect
  OBVIOUS
<1>0. TypeOK /\ RoleInv
  BY DEF IInv
<1> USE DEF TypeOK, Goto, Jump, CloseGroup, SameCalls, SameGroups, SameWal, callVars, groupVars,
   walVars
<1>1. ASSUME NEW c \in Call, Start(c) PROVE MoveE(c)
  BY <1>0, <1>1 DEF Group, Start, XLogInsertStandbyCSNCommitting, MoveE
<1>2. ASSUME NEW c \in Call, FindGroup(c) PROVE FindE(c)
  BY <1>0, <1>2, NoGroupAssumption DEF Group, RoleInv, RoleOf, Trying, Waiting, Seated,
     FindGroup, FindE
<1>3. ASSUME NEW c \in Call, UndoAdd(c) PROVE UndoE(c)
  BY <1>0, <1>3, NoGroupAssumption DEF Group, RoleInv, RoleOf, Trying, Waiting, Seated, UndoAdd,
     UndoE
<1>4. ASSUME NEW c \in Call, FillSlot(c) PROVE FillE(c)
  <2>1. joinedGroup[c] \in Call
    BY <1>4, <1>0, NoGroupAssumption DEF Group, RoleInv, RoleOf, Trying, FillSlot
  <2>2. groupData[joinedGroup[c]] \in [Slot -> Group]
    BY <2>1, <1>0
  <2> QED
    BY <1>4, <1>0, <2>1, <2>2 DEF FillSlot, FillE
<1>5. ASSUME NEW c \in Call, MissedGroup(c) PROVE MissE(c)
  BY <1>0, <1>5, NoGroupAssumption DEF Group, RoleInv, RoleOf, Trying, Waiting, Seated,
     MissedGroup, MissE
<1>6. ASSUME NEW c \in Call, Joined(c) PROVE JoinedE(c)
  BY <1>0, <1>6, NoGroupAssumption DEF Group, RoleInv, RoleOf, Trying, Waiting, Seated, Joined,
     JoinedE
<1>7. ASSUME NEW c \in Call, Arrive(c) PROVE MoveE(c)
  BY <1>0, <1>7, NoGroupAssumption DEF Group, RoleInv, RoleOf, Trying, Waiting, Seated, Arrive,
     MoveE
<1>8. ASSUME NEW c \in Call, LeadCheck(c) PROVE MoveE(c)
  BY <1>0, <1>8 DEF Group, LeadCheck, MoveE
<1>9. ASSUME NEW c \in Call, LeadTimeout(c) PROVE MoveE(c)
  BY <1>0, <1>9 DEF Group, LeadTimeout, MoveE
<1>10. ASSUME NEW c \in Call, LeadClose(c) PROVE CloseE(c)
  BY <1>0, <1>10, NoGroupAssumption DEF Group, RoleInv, RoleOf, Trying, Waiting, Seated,
     LeadClose, CloseE
<1>11. ASSUME NEW c \in Call, LeadCommit(c) PROVE MoveE(c)
  BY <1>0, <1>11 DEF Group, LeadCommit, MoveE
<1>12. ASSUME NEW c \in Call, LogSlot(c) PROVE LogE(c)
  BY <1>0, <1>12, NoGroupAssumption DEF Group, RoleInv, RoleOf, Trying, Waiting, Seated,
     LogSlot, LogE
<1>13. ASSUME NEW c \in Call, LogDone(c) PROVE DoneE(c)
  BY <1>0, <1>13, NoGroupAssumption DEF Group, RoleInv, RoleOf, Trying, Waiting, Seated,
     LogDone, DoneE
<1>14. ASSUME NEW c \in Call, NotifyAll(c) PROVE AllE(c)
  <2>1. \A d \in Call : pc'[d] = CASE d = c -> "written"
           [] d # c /\ joinedGroup[d] = c /\ pc[d] = "memberSleep" -> "memberWoken"
           [] d # c /\ ~(joinedGroup[d] = c /\ pc[d] = "memberSleep") -> pc[d]
    BY <1>14 DEF NotifyAll
  <2>2. pc'[c] = "written"
    BY <2>1
  <2>3. ASSUME NEW d \in Call, d # c
        PROVE pc'[d] = pc[d] \/ (pc[d] = "memberSleep" /\ pc'[d] = "memberWoken")
    BY <2>1, <2>3
  <2> QED
    BY <1>14, <2>2, <2>3 DEF NotifyAll, AllE
<1>15. ASSUME NEW c \in Call, MemberCheck(c) PROVE MoveE(c)
  BY <1>0, <1>15, NoGroupAssumption DEF Group, RoleInv, RoleOf, Trying, Waiting, Seated,
     MemberCheck, MoveE
<1>16. ASSUME NEW c \in Call, LastLock(c) PROVE MoveE(c)
  BY <1>0, <1>16 DEF Group, LastLock, MoveE
<1>17. ASSUME NEW c \in Call, NotifyLeader(c) PROVE NotifyE(c)
  <2>1. joinedGroup[c] \in Call /\ joinedGroup[c] # c
    BY <1>17, <1>0, NoGroupAssumption DEF Group, RoleInv, RoleOf, Seated, Waiting, NotifyLeader
  <2>2. \A d \in Call : d # c /\ d # joinedGroup[c] => pc'[d] = pc[d]
    BY <1>17, <1>0, <2>1 DEF NotifyLeader
  <2>3. pc'[c] = IF commited[joinedGroup[c]] THEN "written" ELSE "memberSleep"
    BY <1>17, <1>0, <2>1 DEF NotifyLeader
  <2>4. pc'[joinedGroup[c]] = IF pc[joinedGroup[c]] = "leadSleep" THEN "leadCheck"
                              ELSE pc[joinedGroup[c]]
    BY <1>17, <1>0, <2>1 DEF NotifyLeader
  <2> QED
    BY <1>17, <2>2, <2>3, <2>4 DEF NotifyLeader, NotifyE
<1>18. ASSUME NEW c \in Call, RecordCommit(c) PROVE RecordE(c)
  BY <1>0, <1>18, NoGroupAssumption DEF Group, RoleInv, RoleOf, Trying, Waiting, Seated,
     RecordCommit, RecordE
<1>19. ASSUME NEW c \in Call, Acknowledge(c) PROVE MoveE(c)
  BY <1>0, <1>19 DEF Group, Acknowledge, MoveE
<1>20. ASSUME NEW c \in Call, TryLead(c) PROVE MoveE(c) \/ LeadE(c)
  BY <1>0, <1>20 DEF Group, TryLead, MoveE, LeadE
<1>21. ASSUME NEW c \in Call, AddToGroup(c) PROVE MoveE(c) \/ TakeE(c)
  BY <1>0, <1>21, NoGroupAssumption DEF Group, RoleInv, RoleOf, Trying, AddToGroup, MoveE, TakeE
<1>22. ASSUME WalFlush \/ CheckpointLock \/ Flush \/ CheckpointUnlock \/ UNCHANGED vars PROVE FlushE
  BY <1>22 DEF WalFlush, CheckpointLock, Flush, CheckpointUnlock, vars, FlushE
<1> QED
  BY <1>1, <1>2, <1>3, <1>4, <1>5, <1>6, <1>7, <1>8, <1>9, <1>10, <1>11, <1>12, <1>13, <1>14,
     <1>15, <1>16, <1>17, <1>18, <1>19, <1>20, <1>21, <1>22 DEF Next, CallStep, StepEffect,
     Kinds

\* Who leads and who is a member changes only where a call joins or leaves a
\* group, and a leader takes its group off the handler when it closes it.
LEMMA RoleStep == IInv /\ StepEffect => RoleInv'
<1> SUFFICES ASSUME IInv, StepEffect PROVE RoleInv'
  OBVIOUS
<1>a. /\ pc \in [Call -> Stages] /\ joinedGroup \in [Call -> Group] /\ node \in [Call -> Node]
      /\ currentGroup \in [Node -> Group]
      /\ RoleInv
  BY DEF IInv, TypeOK
<1> USE <1>a, NoGroupAssumption DEF RoleInv, RoleOf, OpenOf, Group, Leading, Waiting, Trying,
   Returned, Seated, Closed, Outside, Jump, SameCalls, SameGroups, SameWal
<1>1. ASSUME NEW c \in Call, MoveE(c) PROVE RoleInv'
  <2>1. ASSUME NEW d \in Call PROVE RoleOf(d)'
    BY <1>1 DEF MoveE
  <2>2. ASSUME NEW n \in Node PROVE OpenOf(n)'
    BY <1>1 DEF MoveE
  <2> QED
    BY <2>1, <2>2
<1>2. ASSUME NEW c \in Call, LeadE(c) PROVE RoleInv'
  <2>1. ASSUME NEW d \in Call PROVE RoleOf(d)'
    BY <1>2 DEF LeadE
  <2>2. ASSUME NEW n \in Node PROVE OpenOf(n)'
    BY <1>2 DEF LeadE
  <2> QED
    BY <2>1, <2>2
<1>3. ASSUME NEW c \in Call, FindE(c) PROVE RoleInv'
  <2>1. ASSUME NEW d \in Call PROVE RoleOf(d)'
    BY <1>3 DEF FindE
  <2>2. ASSUME NEW n \in Node PROVE OpenOf(n)'
    BY <1>3 DEF FindE
  <2> QED
    BY <2>1, <2>2
<1>4. ASSUME NEW c \in Call, TakeE(c) PROVE RoleInv'
  <2>1. ASSUME NEW d \in Call PROVE RoleOf(d)'
    BY <1>4 DEF TakeE
  <2>2. ASSUME NEW n \in Node PROVE OpenOf(n)'
    BY <1>4 DEF TakeE
  <2> QED
    BY <2>1, <2>2
<1>5. ASSUME NEW c \in Call, UndoE(c) PROVE RoleInv'
  <2>1. ASSUME NEW d \in Call PROVE RoleOf(d)'
    BY <1>5 DEF UndoE
  <2>2. ASSUME NEW n \in Node PROVE OpenOf(n)'
    BY <1>5 DEF UndoE
  <2> QED
    BY <2>1, <2>2
<1>6. ASSUME NEW c \in Call, FillE(c) PROVE RoleInv'
  <2>1. ASSUME NEW d \in Call PROVE RoleOf(d)'
    BY <1>6 DEF FillE
  <2>2. ASSUME NEW n \in Node PROVE OpenOf(n)'
    BY <1>6 DEF FillE
  <2> QED
    BY <2>1, <2>2
<1>7. ASSUME NEW c \in Call, MissE(c) PROVE RoleInv'
  <2>1. ASSUME NEW d \in Call PROVE RoleOf(d)'
    BY <1>7 DEF MissE
  <2>2. ASSUME NEW n \in Node PROVE OpenOf(n)'
    BY <1>7 DEF MissE
  <2> QED
    BY <2>1, <2>2
<1>8. ASSUME NEW c \in Call, JoinedE(c) PROVE RoleInv'
  <2>1. ASSUME NEW d \in Call PROVE RoleOf(d)'
    BY <1>8 DEF JoinedE
  <2>2. ASSUME NEW n \in Node PROVE OpenOf(n)'
    BY <1>8 DEF JoinedE
  <2> QED
    BY <2>1, <2>2
<1>9. ASSUME NEW c \in Call, CloseE(c) PROVE RoleInv'
  <2>1. ASSUME NEW d \in Call PROVE RoleOf(d)'
    BY <1>9 DEF CloseE
  <2>2. ASSUME NEW n \in Node PROVE OpenOf(n)'
    BY <1>9 DEF CloseE
  <2> QED
    BY <2>1, <2>2
<1>10. ASSUME NEW c \in Call, LogE(c) PROVE RoleInv'
  <2>1. ASSUME NEW d \in Call PROVE RoleOf(d)'
    BY <1>10 DEF LogE
  <2>2. ASSUME NEW n \in Node PROVE OpenOf(n)'
    BY <1>10 DEF LogE
  <2> QED
    BY <2>1, <2>2
<1>11. ASSUME NEW c \in Call, DoneE(c) PROVE RoleInv'
  <2>1. ASSUME NEW d \in Call PROVE RoleOf(d)'
    BY <1>11 DEF DoneE
  <2>2. ASSUME NEW n \in Node PROVE OpenOf(n)'
    BY <1>11 DEF DoneE
  <2> QED
    BY <2>1, <2>2
<1>12. ASSUME NEW c \in Call, AllE(c) PROVE RoleInv'
  <2>1. ASSUME NEW d \in Call PROVE RoleOf(d)'
    BY <1>12 DEF AllE
  <2>2. ASSUME NEW n \in Node PROVE OpenOf(n)'
    BY <1>12 DEF AllE
  <2> QED
    BY <2>1, <2>2
<1>13. ASSUME NEW c \in Call, NotifyE(c) PROVE RoleInv'
  <2>1. ASSUME NEW d \in Call PROVE RoleOf(d)'
    BY <1>13 DEF NotifyE
  <2>2. ASSUME NEW n \in Node PROVE OpenOf(n)'
    BY <1>13 DEF NotifyE
  <2> QED
    BY <2>1, <2>2
<1>14. ASSUME NEW c \in Call, RecordE(c) PROVE RoleInv'
  <2>1. ASSUME NEW d \in Call PROVE RoleOf(d)'
    BY <1>14 DEF RecordE
  <2>2. ASSUME NEW n \in Node PROVE OpenOf(n)'
    BY <1>14 DEF RecordE
  <2> QED
    BY <2>1, <2>2
<1>15. CASE FlushE
  <2>1. ASSUME NEW d \in Call PROVE RoleOf(d)'
    BY <1>15 DEF FlushE
  <2>2. ASSUME NEW n \in Node PROVE OpenOf(n)'
    BY <1>15 DEF FlushE
  <2> QED
    BY <2>1, <2>2
<1> QED
  BY <1>1, <1>2, <1>3, <1>4, <1>5, <1>6, <1>7, <1>8, <1>9, <1>10, <1>11, <1>12, <1>13, <1>14,
     <1>15 DEF StepEffect, Kinds

-----------------------------------------------------------------------------
\* The slots of a group.
LEMMA SlotFacts ==
    /\ 0 \in Slot
    /\ \A i \in Slot : i \in Nat /\ i < GroupCommitSize
    /\ \A n \in Nat : n < GroupCommitSize => n \in Slot
  BY SizeAssumption DEF Slot

\* While an increment is to be taken back, the group is full.
LEMMA UndoMeansFull ==
    ASSUME TypeOK, RoleInv, SizeInv, NEW c \in Call, pc[c] = "undo"
    PROVE  joinedGroup[c] \in Call /\ groupSize[joinedGroup[c]] > GroupCommitSize
<1> DEFINE g == joinedGroup[c]
<1>1. g \in Call
  BY NoGroupAssumption DEF TypeOK, Group, RoleInv, RoleOf, Trying
<1>2. SizeOf(g) /\ c \in Undoers(g)
  BY <1>1 DEF SizeInv, Undoers
<1>3. IsFiniteSet(Undoers(g)) /\ Cardinality(Undoers(g)) \in Nat /\ Cardinality(Undoers(g)) # 0
  BY <1>2, FS_CardinalityType, FS_EmptySet DEF SizeOf
<1> QED
  BY <1>1, <1>2, <1>3, SizeAssumption DEF SizeOf, TypeOK

\* A step that keeps the seats, and moves none in or out, keeps SeatInv.
LEMMA SeatFrame ==
    ASSUME SeatInv, UNCHANGED <<joinedGroup, groupIndex, groupSize, groupData>>,
           \A d \in Call : /\ IsSeated(d)' <=> IsSeated(d)
                           /\ Filling(d)' <=> Filling(d),
           TypeOK
    PROVE  SeatInv'
<1>1. groupData \in [Call -> [Slot -> Group]]
  BY DEF TypeOK
<1>2. ASSUME NEW g \in Call, NEW i \in Slot PROVE SlotOf(g, i)'
  <2>1. groupData[g][i] \in Group
    BY <1>1
  <2> QED
    BY <2>1 DEF SeatInv, SlotOf, Group
<1>3. ASSUME NEW d \in Call PROVE SeatOf(d)'
  BY DEF SeatInv, SeatOf
<1> QED
  BY <1>2, <1>3 DEF SeatInv

\* Slots are taken one by one and filled by the call that took them.
LEMMA SeatStep == IInv /\ StepEffect => SeatInv'
<1> SUFFICES ASSUME IInv, StepEffect PROVE SeatInv'
  OBVIOUS
<1>a. TypeOK /\ RoleInv /\ SizeInv /\ SeatInv
  BY DEF IInv
<1>b. /\ joinedGroup \in [Call -> Group] /\ groupIndex \in [Call -> Nat]
      /\ groupSize \in [Call -> Nat] /\ groupData \in [Call -> [Slot -> Group]]
  BY <1>a DEF TypeOK
<1>c. ASSUME NEW g \in Call, NEW i \in Slot PROVE groupData[g][i] \in Group
  BY <1>b, <1>c
<1>1. ASSUME NEW c \in Call,
             \/ MoveE(c) \/ JoinedE(c) \/ CloseE(c) \/ LogE(c) \/ DoneE(c) \/ AllE(c)
             \/ NotifyE(c) \/ RecordE(c)
      PROVE  SeatInv'
  <2>1. UNCHANGED <<joinedGroup, groupIndex, groupSize, groupData>>
    BY <1>1 DEF MoveE, JoinedE, CloseE, LogE, DoneE, AllE, NotifyE, RecordE, SameCalls,
       SameGroups
  <2>2. ASSUME NEW d \in Call PROVE (IsSeated(d)' <=> IsSeated(d)) /\ (Filling(d)' <=> Filling(d))
    BY <1>1, <1>a DEF MoveE, JoinedE, CloseE, LogE, DoneE, AllE, NotifyE, RecordE, Jump,
       IsSeated, Filling, Seated, Leading, Waiting, Returned
  <2> QED
    BY <2>1, <2>2, <1>a, SeatFrame
<1>2. ASSUME FlushE PROVE SeatInv'
  BY <1>2, <1>a, SeatFrame DEF FlushE, SameCalls, SameGroups, IsSeated, Filling
<1>3. ASSUME NEW c \in Call, FindE(c) \/ MissE(c) PROVE SeatInv'
  <2>1. /\ UNCHANGED <<groupIndex, groupSize, groupData>>
        /\ \A d \in Call : d # c => joinedGroup'[d] = joinedGroup[d]
    BY <1>3 DEF FindE, MissE, SameGroups
  <2>2. \A d \in Call : (IsSeated(d)' <=> IsSeated(d)) /\ (Filling(d)' <=> Filling(d))
    BY <1>3 DEF FindE, MissE, Jump, IsSeated, Filling, Seated, Leading, Waiting, Returned
  <2>3. ~IsSeated(c) /\ ~Filling(c) /\ joinedGroup'[c] # c
    BY <1>3, <1>a, NoGroupAssumption
    DEF FindE, MissE, IsSeated, Filling, Seated, Leading, Waiting, Returned, RoleInv, OpenOf,
        TypeOK
  <2>4. ASSUME NEW g \in Call, NEW i \in Slot PROVE SlotOf(g, i)'
    BY <2>1, <2>2, <2>3, <1>a, <1>c DEF SeatInv, SlotOf, Group
  <2>5. ASSUME NEW d \in Call PROVE SeatOf(d)'
    BY <2>1, <2>2, <2>3, <1>a DEF SeatInv, SeatOf
  <2> QED
    BY <2>4, <2>5 DEF SeatInv
<1>4. ASSUME NEW c \in Call, LeadE(c) PROVE SeatInv'
  <2>1. /\ UNCHANGED <<groupSize, groupData>>
        /\ joinedGroup'[c] = c /\ groupIndex'[c] = 0 /\ joinedGroup[c] = NoGroup
        /\ \A d \in Call : d # c => joinedGroup'[d] = joinedGroup[d] /\ groupIndex'[d] = groupIndex[d]
    BY <1>4, <1>a DEF LeadE, SameGroups, RoleInv, RoleOf
  <2>2. \A d \in Call : (d # c => (IsSeated(d)' <=> IsSeated(d))) /\ (Filling(d)' <=> Filling(d))
    BY <1>4 DEF LeadE, Jump, IsSeated, Filling
  <2>3. ~IsSeated(c) /\ ~Filling(c) /\ ~Filling(c)'
    BY <1>4 DEF LeadE, Jump, IsSeated, Filling, Seated, Leading, Waiting, Returned
  <2>4. ASSUME NEW g \in Call, NEW i \in Slot PROVE SlotOf(g, i)'
    BY <2>1, <2>2, <2>3, <1>a, <1>c DEF SeatInv, SlotOf, Group
  <2>5. ASSUME NEW d \in Call PROVE SeatOf(d)'
    <3>1. CASE d = c
      BY <3>1, <2>1, <2>3, <1>a, SlotFacts DEF SeatInv, SeatOf, SlotOf
    <3>2. CASE d # c
      BY <3>2, <2>1, <2>2, <2>3, <1>a DEF SeatInv, SeatOf
    <3> QED
      BY <3>1, <3>2
  <2> QED
    BY <2>4, <2>5 DEF SeatInv
<1>5. ASSUME NEW c \in Call, TakeE(c) PROVE SeatInv'
  <2> DEFINE g0 == joinedGroup[c]
  <2>0. g0 \in Call /\ g0 # c
    BY <1>5, <1>a, <1>b, NoGroupAssumption DEF TakeE, RoleInv, RoleOf, Trying, Group
  <2>1. /\ UNCHANGED <<joinedGroup, groupData>>
        /\ groupIndex'[c] = groupSize[g0]
        /\ \A d \in Call : d # c => groupIndex'[d] = groupIndex[d]
        /\ groupSize'[g0] = groupSize[g0] + 1
        /\ \A h \in Call : h # g0 => groupSize'[h] = groupSize[h]
    BY <1>5 DEF TakeE
  <2>2. /\ \A d \in Call : (IsSeated(d)' <=> IsSeated(d)) /\ (d # c => (Filling(d)' <=> Filling(d)))
        /\ Filling(c)' <=> groupSize[g0] < GroupCommitSize
    BY <1>5, <1>b, <2>0, SizeAssumption
    DEF TakeE, Jump, IsSeated, Filling, Seated, Leading, Waiting, Returned
  <2>3. ~IsSeated(c) /\ ~Filling(c)
    BY <1>5 DEF TakeE, IsSeated, Filling, Seated, Leading, Waiting, Returned
  <2>s. groupSize[g0] \in Nat /\ groupSize[g0] >= 1
    BY <2>0, <1>a, <1>b DEF SizeInv, SizeOf
  <2>4. ASSUME NEW g \in Call, NEW i \in Slot PROVE SlotOf(g, i)'
    <3>1. CASE g = g0
      <4>1. i \in Nat /\ i < GroupCommitSize
        BY SlotFacts
      <4>2. SlotOf(g, i) /\ groupData'[g][i] = groupData[g][i] /\ groupData[g][i] \in Group
        BY <1>a, <1>c, <2>1 DEF SeatInv
      <4>3. i < groupSize'[g] =>
              \/ groupData'[g][i] # NoGroup
              \/ \E m \in Call : Filling(m)' /\ joinedGroup'[m] = g /\ groupIndex'[m] = i
        BY <3>1, <4>1, <4>2, <2>0, <2>1, <2>2, <2>3, <2>s DEF SlotOf
      <4> QED
        BY <3>1, <4>1, <4>2, <4>3, <2>0, <2>1, <2>2, <2>3, <2>s DEF SlotOf, Group
    <3>2. CASE g # g0
      BY <3>2, <2>0, <2>1, <2>2, <2>3, <1>a, <1>c DEF SeatInv, SlotOf, Group
    <3> QED
      BY <3>1, <3>2
  <2>5. ASSUME NEW d \in Call PROVE SeatOf(d)'
    <3>1. CASE d = c
      <4>1. joinedGroup'[c] # c /\ ~IsSeated(c)'
        BY <2>0, <2>1, <2>2, <2>3
      <4>2. ASSUME Filling(c)'
            PROVE  /\ groupIndex'[c] \in Slot /\ groupIndex'[c] # 0
                   /\ groupIndex'[c] < groupSize'[joinedGroup'[c]]
                   /\ groupData'[joinedGroup'[c]][groupIndex'[c]] = NoGroup
                   /\ \A e \in Call : joinedGroup'[e] = joinedGroup'[c] /\ Filling(e)' /\ e # c =>
                         groupIndex'[e] # groupIndex'[c]
        <5>1. groupSize[g0] \in Slot
          BY <4>2, <2>2, <2>s, SlotFacts
        <5>2. groupData[g0][groupSize[g0]] = NoGroup
          BY <5>1, <2>0, <2>s, <1>a DEF SeatInv, SlotOf
        <5>3. ASSUME NEW e \in Call, joinedGroup[e] = g0, Filling(e) PROVE groupIndex[e] < groupSize[g0]
          BY <5>3, <1>a DEF SeatInv, SeatOf
        <5>4. ASSUME NEW e \in Call, joinedGroup'[e] = joinedGroup'[c], Filling(e)', e # c
              PROVE  groupIndex'[e] # groupIndex'[c]
          BY <5>4, <5>3, <2>1, <2>2, <2>s, <1>b
        <5> QED
          BY <5>1, <5>2, <5>4, <2>0, <2>1, <2>s
      <4> QED
        BY <3>1, <4>1, <4>2 DEF SeatOf
    <3>2. CASE d # c
      <4>1. SeatOf(d)
        BY <1>a DEF SeatInv
      <4>2. IsSeated(d) \/ Filling(d) => joinedGroup[d] \in Call
        BY <1>a, <1>b, NoGroupAssumption DEF RoleInv, RoleOf, IsSeated, Filling, Trying, Group
      <4>3. Filling(d) => groupIndex[d] < groupSize'[joinedGroup[d]]
        BY <4>1, <4>2, <2>1, <1>b DEF SeatOf
      <4>4. Filling(d) /\ joinedGroup[d] = g0 => groupIndex[d] # groupSize[g0]
        BY <4>1, <1>b, <2>s DEF SeatOf
      <4> QED
        BY <3>2, <4>1, <4>2, <4>3, <4>4, <2>1, <2>2, <2>3 DEF SeatOf
    <3> QED
      BY <3>1, <3>2
  <2> QED
    BY <2>4, <2>5 DEF SeatInv
<1>6. ASSUME NEW c \in Call, UndoE(c) PROVE SeatInv'
  <2> DEFINE g0 == joinedGroup[c]
  <2>0. g0 \in Call /\ groupSize[g0] > GroupCommitSize /\ groupSize[g0] \in Nat
    BY <1>6, <1>a, <1>b, UndoMeansFull DEF UndoE
  <2>1. /\ UNCHANGED <<joinedGroup, groupIndex, groupData>>
        /\ groupSize'[g0] = groupSize[g0] - 1
        /\ \A h \in Call : h # g0 => groupSize'[h] = groupSize[h]
    BY <1>6 DEF UndoE, SameCalls
  <2>2. \A d \in Call : (IsSeated(d)' <=> IsSeated(d)) /\ (Filling(d)' <=> Filling(d))
    BY <1>6 DEF UndoE, Jump, IsSeated, Filling, Seated, Leading, Waiting, Returned
  <2>3. \A g \in Call, i \in Slot : i < groupSize'[g] <=> i < groupSize[g]
    BY <2>0, <2>1, <1>b, SlotFacts, SizeAssumption
  <2>3a. \A g \in Call, i \in Slot : i >= groupSize'[g] <=> i >= groupSize[g]
    BY <2>0, <2>1, <1>b, SlotFacts, SizeAssumption
  <2>4. ASSUME NEW g \in Call, NEW i \in Slot PROVE SlotOf(g, i)'
    BY <2>1, <2>2, <2>3, <2>3a, <1>a, <1>c DEF SeatInv, SlotOf, Group
  <2>5. ASSUME NEW d \in Call PROVE SeatOf(d)'
    <3>1. Filling(d) => joinedGroup[d] \in Call
      BY <1>a, <1>b, NoGroupAssumption DEF RoleInv, RoleOf, Filling, Trying, Group
    <3> QED
      BY <3>1, <2>1, <2>2, <2>3, <1>a DEF SeatInv, SeatOf
  <2> QED
    BY <2>4, <2>5 DEF SeatInv
<1>7. ASSUME NEW c \in Call, FillE(c) PROVE SeatInv'
  <2> DEFINE g0 == joinedGroup[c]
             k == groupIndex[c]
  <2>0. g0 \in Call /\ g0 # c
    BY <1>7, <1>a, <1>b, NoGroupAssumption DEF FillE, RoleInv, RoleOf, Trying, Group
  <2>1. /\ UNCHANGED <<joinedGroup, groupIndex, groupSize>>
        /\ \A i \in Slot : groupData'[g0][i] = IF i = k THEN c ELSE groupData[g0][i]
        /\ \A h \in Call : h # g0 => groupData'[h] = groupData[h]
    BY <1>7 DEF FillE, SameCalls
  <2>2. /\ \A d \in Call : d # c => (IsSeated(d)' <=> IsSeated(d)) /\ (Filling(d)' <=> Filling(d))
        /\ IsSeated(c)' /\ ~Filling(c)' /\ Filling(c) /\ ~IsSeated(c)
    BY <1>7 DEF FillE, Jump, IsSeated, Filling, Seated, Leading, Waiting, Returned
  <2>3. /\ k \in Slot /\ k # 0 /\ k < groupSize[g0] /\ groupData[g0][k] = NoGroup
        /\ \A d \in Call : joinedGroup[d] = g0 /\ Filling(d) /\ d # c => groupIndex[d] # k
    BY <2>2, <1>a DEF SeatInv, SeatOf
  <2>4. ASSUME NEW g \in Call, NEW i \in Slot PROVE SlotOf(g, i)'
    <3>0. SlotOf(g, i) /\ groupData[g][i] \in Group
      BY <1>a, <1>c DEF SeatInv
    <3>n. i \in Nat /\ k \in Nat /\ groupSize[g] \in Nat
      BY <1>b, <2>3, SlotFacts
    <3>1. CASE g = g0 /\ i = k
      BY <3>0, <3>1, <3>n, <2>0, <2>1, <2>2, <2>3, NoGroupAssumption DEF SlotOf
    <3>2. CASE g # g0 \/ i # k
      <4>1. groupData'[g][i] = groupData[g][i]
        BY <3>2, <2>0, <2>1
      <4>2. ASSUME NEW m \in Call, Filling(m), joinedGroup[m] = g, groupIndex[m] = i
            PROVE  Filling(m)'
        BY <4>2, <3>2, <2>2
      <4>3. ASSUME groupData[g][i] # NoGroup, i # 0
            PROVE  pc'[groupData[g][i]] \in Seated
        <5>1. groupData[g][i] \in Call /\ IsSeated(groupData[g][i])
          BY <3>0, <4>3 DEF SlotOf, Group
        <5> QED
          BY <5>1, <2>2 DEF IsSeated
      <4> QED
        BY <3>0, <4>1, <4>2, <4>3, <2>1 DEF SlotOf, IsSeated
    <3> QED
      BY <3>1, <3>2
  <2>5. ASSUME NEW d \in Call PROVE SeatOf(d)'
    <3>1. CASE d = c
      BY <3>1, <2>0, <2>1, <2>2, <2>3 DEF SeatOf
    <3>2. CASE d # c
      <4>1. SeatOf(d)
        BY <1>a DEF SeatInv
      <4>2. IsSeated(d) \/ Filling(d) => joinedGroup[d] \in Call
        BY <1>a, <1>b, NoGroupAssumption DEF RoleInv, RoleOf, IsSeated, Filling, Trying, Group
      <4>3. Filling(d) => ~(joinedGroup[d] = g0 /\ groupIndex[d] = k)
        BY <3>2, <2>3
      <4>4. IsSeated(d) => ~(joinedGroup[d] = g0 /\ groupIndex[d] = k)
        BY <4>1, <2>3, NoGroupAssumption DEF SeatOf
      <4>5. IsSeated(d) \/ Filling(d) =>
               groupData'[joinedGroup[d]][groupIndex[d]] = groupData[joinedGroup[d]][groupIndex[d]]
        BY <4>1, <4>2, <4>3, <4>4, <2>1 DEF SeatOf
      <4> QED
        BY <3>2, <4>1, <4>5, <2>1, <2>2 DEF SeatOf
    <3> QED
      BY <3>1, <3>2
  <2> QED
    BY <2>4, <2>5 DEF SeatInv
<1> QED
  BY <1>1, <1>2, <1>3, <1>4, <1>5, <1>6, <1>7 DEF StepEffect, Kinds

\* The holders of a group's lock for reading are the calls in AddToGroup, and
\* none is left when the group is closed.
LEMMA ReaderStep == IInv /\ StepEffect => ReaderInv'
<1> SUFFICES ASSUME IInv, StepEffect PROVE ReaderInv'
  OBVIOUS
<1>a. TypeOK /\ RoleInv /\ ReaderInv
  BY DEF IInv
<1>b. joinedGroup \in [Call -> Group] /\ pc \in [Call -> Stages]
  BY <1>a DEF TypeOK
<1>1. ASSUME NEW c \in Call,
             \/ MoveE(c) \/ JoinedE(c) \/ LogE(c) \/ DoneE(c) \/ AllE(c) \/ NotifyE(c)
             \/ RecordE(c) \/ FindE(c) \/ MissE(c) \/ LeadE(c)
      PROVE  ReaderInv'
  <2>1. UNCHANGED <<readers, closed>>
    BY <1>1 DEF MoveE, JoinedE, LogE, DoneE, AllE, NotifyE, RecordE, FindE, MissE, LeadE,
       SameGroups
  <2>2. ASSUME NEW d \in Call
        PROVE  /\ pc'[d] = "fill" <=> pc[d] = "fill"
               /\ pc'[d] = "undo" <=> pc[d] = "undo"
               /\ pc[d] \in {"fill", "undo"} => joinedGroup'[d] = joinedGroup[d]
    BY <1>1, <1>a DEF MoveE, JoinedE, LogE, DoneE, AllE, NotifyE, RecordE, FindE, MissE, LeadE,
       Jump, SameCalls
  <2>3. ASSUME NEW g \in Call PROVE ReaderOf(g)'
    <3>1. Fillers(g)' = Fillers(g) /\ Undoers(g)' = Undoers(g)
      BY <2>2 DEF Fillers, Undoers
    <3> QED
      BY <3>1, <2>1, <1>a DEF ReaderInv, ReaderOf
  <2> QED
    BY <2>3 DEF ReaderInv
<1>2. ASSUME FlushE PROVE ReaderInv'
  BY <1>2, <1>a DEF FlushE, SameCalls, SameGroups, ReaderInv, ReaderOf, Fillers, Undoers
<1>3. ASSUME NEW c \in Call, CloseE(c) PROVE ReaderInv'
  <2>1. ASSUME NEW g \in Call PROVE ReaderOf(g)'
    <3>1. Fillers(g)' = Fillers(g) /\ Undoers(g)' = Undoers(g)
      BY <1>3 DEF CloseE, Jump, SameCalls, Fillers, Undoers
    <3> QED
      BY <3>1, <1>3, <1>a DEF CloseE, ReaderInv, ReaderOf
  <2> QED
    BY <2>1 DEF ReaderInv
<1>4. ASSUME NEW c \in Call, TakeE(c) PROVE ReaderInv'
  <2>0. joinedGroup[c] \in Call
    BY <1>4, <1>a, <1>b, NoGroupAssumption DEF TakeE, RoleInv, RoleOf, Trying, Group
  <2>1. ASSUME NEW g \in Call PROVE ReaderOf(g)'
    <3>1. CASE g = joinedGroup[c]
      <4>1. Fillers(g)' \cup Undoers(g)' = Fillers(g) \cup Undoers(g) \cup {c}
        BY <3>1, <1>4 DEF TakeE, Jump, Fillers, Undoers
      <4> QED
        BY <3>1, <4>1, <1>4, <1>a DEF TakeE, ReaderInv, ReaderOf
    <3>2. CASE g # joinedGroup[c]
      <4>1. Fillers(g)' = Fillers(g) /\ Undoers(g)' = Undoers(g)
        BY <3>2, <1>4 DEF TakeE, Jump, Fillers, Undoers
      <4> QED
        BY <3>2, <4>1, <1>4, <1>a DEF TakeE, ReaderInv, ReaderOf
    <3> QED
      BY <3>1, <3>2
  <2> QED
    BY <2>1 DEF ReaderInv
<1>5. ASSUME NEW c \in Call, UndoE(c) \/ FillE(c) PROVE ReaderInv'
  <2>0. joinedGroup[c] \in Call
    BY <1>5, <1>a, <1>b, NoGroupAssumption DEF UndoE, FillE, RoleInv, RoleOf, Trying, Group
  <2>1. ASSUME NEW g \in Call PROVE ReaderOf(g)'
    <3>1. CASE g = joinedGroup[c]
      <4>1. Fillers(g)' \cup Undoers(g)' = (Fillers(g) \cup Undoers(g)) \ {c}
        BY <3>1, <1>5 DEF UndoE, FillE, Jump, SameCalls, Fillers, Undoers
      <4> QED
        BY <3>1, <4>1, <1>5, <1>a DEF UndoE, FillE, ReaderInv, ReaderOf
    <3>2. CASE g # joinedGroup[c]
      <4>1. Fillers(g)' = Fillers(g) /\ Undoers(g)' = Undoers(g)
        BY <3>2, <1>5 DEF UndoE, FillE, Jump, SameCalls, Fillers, Undoers
      <4> QED
        BY <3>2, <4>1, <1>5, <1>a DEF UndoE, FillE, ReaderInv, ReaderOf
    <3> QED
      BY <3>1, <3>2
  <2> QED
    BY <2>1 DEF ReaderInv
<1> QED
  BY <1>1, <1>2, <1>3, <1>4, <1>5 DEF StepEffect, Kinds

\* The size of a group is over its capacity by the increments that have yet to
\* be taken back.
LEMMA SizeStep == IInv /\ StepEffect => SizeInv'
<1> SUFFICES ASSUME IInv, StepEffect PROVE SizeInv'
  OBVIOUS
<1>a. TypeOK /\ RoleInv /\ SizeInv
  BY DEF IInv
<1>b. joinedGroup \in [Call -> Group] /\ groupSize \in [Call -> Nat]
  BY <1>a DEF TypeOK
<1>1. ASSUME NEW c \in Call,
             \/ MoveE(c) \/ JoinedE(c) \/ LogE(c) \/ DoneE(c) \/ AllE(c) \/ NotifyE(c)
             \/ RecordE(c) \/ FindE(c) \/ MissE(c) \/ LeadE(c) \/ CloseE(c) \/ FillE(c)
      PROVE  SizeInv'
  <2>1. UNCHANGED groupSize
    BY <1>1 DEF MoveE, JoinedE, LogE, DoneE, AllE, NotifyE, RecordE, FindE, MissE, LeadE,
       CloseE,
       FillE, SameGroups
  <2>2. ASSUME NEW d \in Call
        PROVE  /\ pc'[d] = "undo" <=> pc[d] = "undo"
               /\ pc[d] = "undo" => joinedGroup'[d] = joinedGroup[d]
    BY <1>1, <1>a DEF MoveE, JoinedE, LogE, DoneE, AllE, NotifyE, RecordE, FindE, MissE, LeadE,
       CloseE, FillE, Jump, SameCalls
  <2>3. ASSUME NEW g \in Call PROVE SizeOf(g)'
    <3>1. Undoers(g)' = Undoers(g)
      BY <2>2 DEF Undoers
    <3> QED
      BY <3>1, <2>1, <1>a DEF SizeInv, SizeOf
  <2> QED
    BY <2>3 DEF SizeInv
<1>2. ASSUME FlushE PROVE SizeInv'
  BY <1>2, <1>a DEF FlushE, SameCalls, SameGroups, SizeInv, SizeOf, Undoers
<1>3. ASSUME NEW c \in Call, TakeE(c) PROVE SizeInv'
  <2> DEFINE h == joinedGroup[c]
  <2>0. h \in Call
    BY <1>3, <1>a, <1>b, NoGroupAssumption DEF TakeE, RoleInv, RoleOf, Trying, Group
  <2>1. ASSUME NEW g \in Call PROVE SizeOf(g)'
    <3>0. /\ SizeOf(g) /\ groupSize[g] \in Nat
          /\ Cardinality(Undoers(g)) \in Nat
      BY <1>a, <1>b, FS_CardinalityType DEF SizeInv, SizeOf
    <3>e. Undoers(g) = {} => Cardinality(Undoers(g)) = 0
      BY FS_EmptySet
    <3>1. CASE g = h /\ groupSize[g] >= GroupCommitSize
      <4>1. Undoers(g)' = Undoers(g) \cup {c} /\ c \notin Undoers(g) /\ c \in Undoers(g)'
        BY <3>1, <1>3 DEF TakeE, Jump, Undoers
      <4>2. IsFiniteSet(Undoers(g)') /\ Cardinality(Undoers(g)') = Cardinality(Undoers(g)) + 1
        BY <4>1, <3>0, FS_AddElement DEF SizeOf
      <4>3. groupSize'[g] = groupSize[g] + 1
        BY <3>1, <1>3 DEF TakeE
      <4> QED
        BY <3>0, <3>1, <3>e, <4>1, <4>2, <4>3, SizeAssumption DEF SizeOf
    <3>2. CASE g = h /\ ~(groupSize[g] >= GroupCommitSize)
      <4>1. Undoers(g)' = Undoers(g)
        BY <3>2, <1>3 DEF TakeE, Jump, Undoers
      <4>3. groupSize'[g] = groupSize[g] + 1
        BY <3>2, <1>3 DEF TakeE
      <4> QED
        BY <3>0, <3>2, <3>e, <4>1, <4>3, SizeAssumption DEF SizeOf
    <3>3. CASE g # h
      <4>1. Undoers(g)' = Undoers(g)
        BY <3>3, <1>3 DEF TakeE, Jump, Undoers
      <4>2. groupSize'[g] = groupSize[g]
        BY <3>3, <1>3 DEF TakeE
      <4> QED
        BY <3>0, <4>1, <4>2 DEF SizeOf
    <3> QED
      BY <3>1, <3>2, <3>3
  <2> QED
    BY <2>1 DEF SizeInv
<1>4. ASSUME NEW c \in Call, UndoE(c) PROVE SizeInv'
  <2> DEFINE h == joinedGroup[c]
  <2>0. h \in Call /\ groupSize[h] > GroupCommitSize
    BY <1>4, <1>a, UndoMeansFull DEF UndoE
  <2>1. ASSUME NEW g \in Call PROVE SizeOf(g)'
    <3>0. /\ SizeOf(g) /\ groupSize[g] \in Nat
          /\ Cardinality(Undoers(g)) \in Nat
      BY <1>a, <1>b, FS_CardinalityType DEF SizeInv, SizeOf
    <3>1. CASE g = h
      <4>1. Undoers(g)' = Undoers(g) \ {c} /\ c \in Undoers(g)
        BY <3>1, <1>4 DEF UndoE, Jump, SameCalls, Undoers
      <4>2. IsFiniteSet(Undoers(g)') /\ Cardinality(Undoers(g)') = Cardinality(Undoers(g)) - 1
        BY <4>1, <3>0, FS_RemoveElement DEF SizeOf
      <4>3. groupSize'[g] = groupSize[g] - 1
        BY <3>1, <1>4 DEF UndoE
      <4> QED
        BY <2>0, <3>0, <3>1, <4>1, <4>2, <4>3, SizeAssumption DEF SizeOf
    <3>2. CASE g # h
      <4>1. Undoers(g)' = Undoers(g)
        BY <3>2, <1>4 DEF UndoE, Jump, SameCalls, Undoers
      <4>2. groupSize'[g] = groupSize[g]
        BY <3>2, <1>4 DEF UndoE
      <4> QED
        BY <3>0, <4>1, <4>2 DEF SizeOf
    <3> QED
      BY <3>1, <3>2
  <2> QED
    BY <2>1 DEF SizeInv
<1> QED
  BY <1>1, <1>2, <1>3, <1>4 DEF StepEffect, Kinds

\* In a group that is not closed nothing is logged yet.
LEMMA OpenGroupFacts ==
    ASSUME TypeOK, RoleInv, LogInv, NEW g \in Call, ~closed[g]
    PROVE  logPos[g] = 0 /\ ~commited[g]
<1>1. ~Logs(g) /\ ~commited[g]
  BY DEF RoleInv, RoleOf, Logs, Closed, Outside, Returned
<1> QED
  BY <1>1 DEF LogInv, LogOf

\* The group a call is adding itself to is not closed.
LEMMA ReaderMeansOpen ==
    ASSUME TypeOK, RoleInv, ReaderInv, NEW c \in Call, pc[c] \in {"undo", "fill"}
    PROVE  joinedGroup[c] \in Call /\ ~closed[joinedGroup[c]]
<1>1. joinedGroup[c] \in Call
  BY NoGroupAssumption DEF TypeOK, Group, RoleInv, RoleOf, Trying
<1>2. c \in Fillers(joinedGroup[c]) \cup Undoers(joinedGroup[c])
  BY <1>1 DEF Fillers, Undoers
<1> QED
  BY <1>1, <1>2 DEF ReaderInv, ReaderOf

\* All slots below the size of a closed group are filled.
LEMMA ClosedIsFilled ==
    ASSUME IInv, NEW g \in Call, closed[g]
    PROVE  /\ groupSize[g] <= GroupCommitSize
           /\ \A i \in Slot : i < groupSize[g] =>
                 /\ groupData[g][i] \in Call
                 /\ joinedGroup[groupData[g][i]] = g
                 /\ groupIndex[groupData[g][i]] = i
                 /\ IsSeated(groupData[g][i])
<1>a. TypeOK /\ RoleInv /\ ReaderInv /\ SizeInv /\ SeatInv
  BY DEF IInv
<1>1. Fillers(g) = {} /\ Undoers(g) = {}
  BY <1>a DEF ReaderInv, ReaderOf
<1>2. groupSize[g] <= GroupCommitSize
  <2>1. Cardinality(Undoers(g)) = 0
    BY <1>1, FS_EmptySet
  <2> QED
    BY <2>1, <1>a, SizeAssumption DEF SizeInv, SizeOf, TypeOK
<1>3. joinedGroup[g] = g /\ IsSeated(g)
  BY <1>a DEF RoleInv, RoleOf, Closed, Outside, IsSeated, Seated, Leading, Returned
<1>4. ASSUME NEW i \in Slot, i < groupSize[g]
      PROVE  /\ groupData[g][i] \in Call
             /\ joinedGroup[groupData[g][i]] = g
             /\ groupIndex[groupData[g][i]] = i
             /\ IsSeated(groupData[g][i])
  <2>0. groupData[g][i] \in Group
    BY <1>a DEF TypeOK
  <2>1. SlotOf(g, i) /\ SeatOf(g)
    BY <1>a DEF SeatInv
  <2>2. groupData[g][i] # NoGroup
    BY <2>1, <1>1, <1>4 DEF SlotOf, Fillers, Filling
  <2>3. CASE i = 0
    BY <2>0, <2>1, <2>2, <2>3, <1>3 DEF SlotOf, SeatOf, Group
  <2>4. CASE i # 0
    BY <2>0, <2>1, <2>2, <2>4 DEF SlotOf, Group
  <2> QED
    BY <2>3, <2>4
<1> QED
  BY <1>2, <1>4

\* What a leader is about to log: the buffer of a call that waits for it and
\* that has not been logged.
LEMMA LogSlotFacts ==
    ASSUME IInv, NEW c \in Call, pc[c] = "logging", logPos[c] < groupSize[c]
    PROVE  /\ groupData[c][logPos[c]] \in Call
           /\ joinedGroup[groupData[c][logPos[c]]] = c
           /\ groupIndex[groupData[c][logPos[c]]] = logPos[c]
           /\ IsSeated(groupData[c][logPos[c]])
           /\ pc[groupData[c][logPos[c]]] \notin Returned
           /\ dataLsn[groupData[c][logPos[c]]] = 0
<1> DEFINE b == groupData[c][logPos[c]]
<1>a. TypeOK /\ RoleInv /\ LogInv
  BY DEF IInv
<1>1. closed[c] /\ ~commited[c] /\ joinedGroup[c] = c
  BY <1>a DEF RoleInv, RoleOf, Closed, Leading, Returned
<1>2. logPos[c] \in Slot
  BY <1>a, <1>1, ClosedIsFilled, SlotFacts, SizeAssumption DEF TypeOK
<1>3. b \in Call /\ joinedGroup[b] = c /\ groupIndex[b] = logPos[c] /\ IsSeated(b)
  BY <1>1, <1>2, ClosedIsFilled
<1>4. pc[b] \notin Returned
  BY <1>1, <1>3, <1>a DEF RoleInv, RoleOf
<1>5. dataLsn[b] = 0
  BY <1>3, <1>a DEF LogInv, LogOf, TypeOK
<1> QED
  BY <1>3, <1>4, <1>5

\* In a committed group everybody is logged.
LEMMA CommittedIsLogged ==
    ASSUME IInv, NEW c \in Call, IsSeated(c), commited[joinedGroup[c]]
    PROVE  dataLsn[c] # 0
<1>a. TypeOK /\ RoleInv /\ SeatInv /\ LogInv
  BY DEF IInv
<1>1. joinedGroup[c] \in Call
  BY <1>a, NoGroupAssumption DEF TypeOK, Group, RoleInv, RoleOf, IsSeated
<1>2. groupIndex[c] \in Slot /\ groupData[joinedGroup[c]][groupIndex[c]] # NoGroup
  BY <1>a, NoGroupAssumption DEF SeatInv, SeatOf
<1>3. groupIndex[c] < groupSize[joinedGroup[c]]
  BY <1>1, <1>2, <1>a, SlotFacts DEF SeatInv, SlotOf, TypeOK
<1>4. groupIndex[c] < logPos[joinedGroup[c]]
  BY <1>1, <1>3, <1>a DEF LogInv, LogOf
<1> QED
  BY <1>4, <1>a DEF LogInv, LogOf

\* The log positions of the leaders.
LEMMA LogStep == IInv /\ StepEffect => LogInv'
<1> SUFFICES ASSUME IInv, StepEffect PROVE LogInv'
  OBVIOUS
<1>a. TypeOK /\ RoleInv /\ ReaderInv /\ SizeInv /\ SeatInv /\ LogInv
  BY DEF IInv
<1>b. /\ joinedGroup \in [Call -> Group] /\ groupIndex \in [Call -> Nat]
      /\ groupSize \in [Call -> Nat] /\ logPos \in [Call -> Nat] /\ walEnd \in Nat
      /\ dataLsn \in [Call -> Nat]
  BY <1>a DEF TypeOK
<1>j. ASSUME NEW d \in Call, IsSeated(d) PROVE joinedGroup[d] \in Call
  BY <1>a, <1>b, <1>j, NoGroupAssumption DEF RoleInv, RoleOf, IsSeated, Group
<1>1. ASSUME NEW c \in Call,
             \/ MoveE(c) \/ JoinedE(c) \/ CloseE(c) \/ AllE(c) \/ NotifyE(c) \/ RecordE(c)
             \/ FindE(c) \/ MissE(c)
      PROVE  LogInv'
  <2>1. UNCHANGED <<groupIndex, groupSize, commited, logPos, dataLsn>>
    BY <1>1 DEF MoveE, JoinedE, CloseE, AllE, NotifyE, RecordE, FindE, MissE, SameCalls,
       SameGroups, SameWal
  <2>2. ASSUME NEW d \in Call
        PROVE  /\ IsSeated(d)' <=> IsSeated(d)
               /\ IsSeated(d) => joinedGroup'[d] = joinedGroup[d]
    BY <1>1, <1>a DEF MoveE, JoinedE, CloseE, AllE, NotifyE, RecordE, FindE, MissE, Jump,
       SameCalls, IsSeated, Seated, Leading, Waiting, Returned
  <2>3. ASSUME NEW d \in Call PROVE Logs(d) => Logs(d)'
    BY <1>1, <1>a DEF MoveE, JoinedE, CloseE, AllE, NotifyE, RecordE, FindE, MissE, Jump,
       SameCalls, Logs, Returned
  <2>4. ASSUME NEW d \in Call PROVE LogOf(d)'
    BY <2>1, <2>2, <2>3, <1>a DEF LogInv, LogOf
  <2> QED
    BY <2>4 DEF LogInv
<1>2. ASSUME FlushE PROVE LogInv'
  BY <1>2, <1>a DEF FlushE, SameCalls, SameGroups, LogInv, LogOf, Logs, IsSeated
<1>3. ASSUME NEW c \in Call, LeadE(c) PROVE LogInv'
  <2>1. /\ UNCHANGED <<groupSize, commited, logPos, dataLsn>>
        /\ joinedGroup'[c] = c /\ groupIndex'[c] = 0
        /\ \A d \in Call : d # c => joinedGroup'[d] = joinedGroup[d] /\ groupIndex'[d] = groupIndex[d]
    BY <1>3 DEF LeadE, SameGroups, SameWal
  <2>2. /\ \A d \in Call : d # c => (IsSeated(d)' <=> IsSeated(d)) /\ (Logs(d)' <=> Logs(d))
        /\ ~IsSeated(c) /\ ~Logs(c) /\ ~Logs(c)' /\ IsSeated(c)'
    BY <1>3 DEF LeadE, Jump, IsSeated, Logs, Seated, Leading, Waiting, Returned
  <2>3. logPos[c] = 0 /\ dataLsn[c] = 0
    BY <2>2, <1>a DEF LogInv, LogOf
  <2>4. ASSUME NEW d \in Call PROVE LogOf(d)'
    BY <2>1, <2>2, <2>3, <1>a DEF LogInv, LogOf
  <2> QED
    BY <2>4 DEF LogInv
<1>4. ASSUME NEW c \in Call, TakeE(c) PROVE LogInv'
  <2> DEFINE g0 == joinedGroup[c]
  <2>0. g0 \in Call /\ logPos[g0] = 0 /\ ~commited[g0]
    BY <1>4, <1>a, <1>b, NoGroupAssumption, OpenGroupFacts
    DEF TakeE, RoleInv, RoleOf, Trying, Group
  <2>1. /\ UNCHANGED <<joinedGroup, commited, logPos, dataLsn>>
        /\ \A d \in Call : d # c => groupIndex'[d] = groupIndex[d]
        /\ groupSize'[g0] = groupSize[g0] + 1
        /\ \A h \in Call : h # g0 => groupSize'[h] = groupSize[h]
    BY <1>4 DEF TakeE, SameWal
  <2>2. /\ \A d \in Call : (IsSeated(d)' <=> IsSeated(d)) /\ (Logs(d)' <=> Logs(d))
        /\ ~IsSeated(c)
    BY <1>4, <2>1 DEF TakeE, Jump, IsSeated, Logs, Seated, Leading, Waiting, Returned
  <2>4. ASSUME NEW d \in Call PROVE LogOf(d)'
    BY <2>0, <2>1, <2>2, <1>a, <1>b DEF LogInv, LogOf
  <2> QED
    BY <2>4 DEF LogInv
<1>5. ASSUME NEW c \in Call, UndoE(c) PROVE LogInv'
  <2> DEFINE g0 == joinedGroup[c]
  <2>0. g0 \in Call /\ logPos[g0] = 0 /\ ~commited[g0] /\ groupSize[g0] > GroupCommitSize
    BY <1>5, <1>a, ReaderMeansOpen, OpenGroupFacts, UndoMeansFull DEF UndoE
  <2>1. /\ UNCHANGED <<joinedGroup, groupIndex, commited, logPos, dataLsn>>
        /\ groupSize'[g0] = groupSize[g0] - 1
        /\ \A h \in Call : h # g0 => groupSize'[h] = groupSize[h]
    BY <1>5 DEF UndoE, SameCalls, SameWal
  <2>2. \A d \in Call : (IsSeated(d)' <=> IsSeated(d)) /\ (Logs(d)' <=> Logs(d))
    BY <1>5, <2>1 DEF UndoE, Jump, IsSeated, Logs, Seated, Leading, Waiting, Returned
  <2>4. ASSUME NEW d \in Call PROVE LogOf(d)'
    BY <2>0, <2>1, <2>2, <1>a, <1>b, SizeAssumption DEF LogInv, LogOf
  <2> QED
    BY <2>4 DEF LogInv
<1>6. ASSUME NEW c \in Call, FillE(c) PROVE LogInv'
  <2>0. joinedGroup[c] \in Call /\ logPos[joinedGroup[c]] = 0
    BY <1>6, <1>a, ReaderMeansOpen, OpenGroupFacts DEF FillE
  <2>1. UNCHANGED <<joinedGroup, groupIndex, groupSize, commited, logPos, dataLsn>>
    BY <1>6 DEF FillE, SameCalls, SameWal
  <2>2. /\ \A d \in Call : Logs(d)' <=> Logs(d)
        /\ \A d \in Call : d # c => (IsSeated(d)' <=> IsSeated(d))
        /\ ~IsSeated(c) /\ IsSeated(c)'
    BY <1>6, <2>1 DEF FillE, Jump, IsSeated, Logs, Seated, Leading, Waiting, Returned
  <2>4. ASSUME NEW d \in Call PROVE LogOf(d)'
    BY <2>0, <2>1, <2>2, <1>a, <1>b DEF LogInv, LogOf
  <2> QED
    BY <2>4 DEF LogInv
<1>7. ASSUME NEW c \in Call, LogE(c) PROVE LogInv'
  <2> DEFINE b == groupData[c][logPos[c]]
  <2>0. /\ b \in Call /\ joinedGroup[b] = c /\ groupIndex[b] = logPos[c]
        /\ IsSeated(b) /\ dataLsn[b] = 0
    BY <1>7, LogSlotFacts DEF LogE
  <2>1. /\ UNCHANGED <<pc, joinedGroup, groupIndex, groupSize, commited>>
        /\ \A d \in Call : dataLsn'[d] = IF d = b THEN walEnd + 1 ELSE dataLsn[d]
        /\ logPos[c] < groupSize[c] /\ logPos'[c] = logPos[c] + 1
        /\ \A d \in Call : d # c => logPos'[d] = logPos[d]
    BY <1>7 DEF LogE, SameCalls
  <2>2. Logs(c) /\ ~commited[c]
    BY <1>7, <1>a DEF LogE, RoleInv, RoleOf, Leading, Logs, Returned
  <2>3. ASSUME NEW d \in Call, IsSeated(d), joinedGroup[d] = c, groupIndex[d] = logPos[c]
        PROVE  d = b
    BY <2>3, <1>a DEF SeatInv, SeatOf
  <2>4. ASSUME NEW d \in Call PROVE LogOf(d)'
    <3>1. Logs(d)' = Logs(d) /\ IsSeated(d)' = IsSeated(d)
      BY <2>1 DEF Logs, IsSeated
    <3>2. logPos'[d] <= groupSize'[d] /\ (commited'[d] => logPos'[d] = groupSize'[d])
      BY <2>1, <2>2, <1>a, <1>b DEF LogInv, LogOf
    <3>3. IsSeated(d) => (dataLsn'[d] # 0 <=> groupIndex'[d] < logPos'[joinedGroup'[d]])
      <4>1. CASE d = b
        BY <4>1, <2>0, <2>1, <1>b
      <4>2. CASE d # b /\ joinedGroup[d] = c
        BY <4>2, <2>1, <2>3, <1>a, <1>b DEF LogInv, LogOf
      <4>3. CASE d # b /\ joinedGroup[d] # c
        BY <4>3, <2>1, <1>a, <1>j DEF LogInv, LogOf
      <4> QED
        BY <4>1, <4>2, <4>3
    <3>4. ~Logs(d) => logPos'[d] = 0
      BY <2>1, <2>2, <1>a DEF LogInv, LogOf
    <3>5. ~IsSeated(d) => dataLsn'[d] = 0
      BY <2>0, <2>1, <1>a DEF LogInv, LogOf
    <3> QED
      BY <3>1, <3>2, <3>3, <3>4, <3>5 DEF LogOf
  <2> QED
    BY <2>4 DEF LogInv
<1>8. ASSUME NEW c \in Call, DoneE(c) PROVE LogInv'
  <2>1. /\ UNCHANGED <<joinedGroup, groupIndex, groupSize, logPos, dataLsn>>
        /\ logPos[c] = groupSize[c]
        /\ \A h \in Call : h # c => commited'[h] = commited[h]
    BY <1>8 DEF DoneE, SameCalls, SameWal
  <2>2. \A d \in Call : (IsSeated(d)' <=> IsSeated(d)) /\ (Logs(d)' <=> Logs(d))
    BY <1>8, <2>1 DEF DoneE, Jump, IsSeated, Logs, Seated, Leading, Waiting, Returned
  <2>4. ASSUME NEW d \in Call PROVE LogOf(d)'
    BY <2>1, <2>2, <1>a DEF LogInv, LogOf
  <2> QED
    BY <2>4 DEF LogInv
<1> QED
  BY <1>1, <1>2, <1>3, <1>4, <1>5, <1>6, <1>7, <1>8 DEF StepEffect, Kinds

\* The log grows, so that what is logged stays below its end; whoever Waits has
\* inserted a record by itself before it returns, and thus waits for the disk.
LEMMA LsnStep == IInv /\ StepEffect => LsnInv'
<1> SUFFICES ASSUME IInv, StepEffect PROVE LsnInv'
  OBVIOUS
<1>a. TypeOK /\ RoleInv /\ SizeInv /\ LogInv /\ LsnInv
  BY DEF IInv
<1>b. /\ logPos \in [Call -> Nat] /\ groupSize \in [Call -> Nat]
      /\ dataLsn \in [Call -> Nat] /\ commitLsn \in [Call -> Nat] 
      /\ walEnd \in Nat /\ flushed \in Nat
  BY <1>a DEF TypeOK
<1>1. ASSUME NEW c \in Call,
             \/ JoinedE(c) \/ CloseE(c) \/ DoneE(c) \/ AllE(c) \/ NotifyE(c) \/ TakeE(c)
             \/ UndoE(c) \/ FillE(c)
      PROVE  LsnInv'
  <2>1. UNCHANGED <<standbyInfo, joinedGroup, logPos, dataLsn, commitLsn, inserted, wroteXlog, walEnd,
                  flushed>>
    BY <1>1 DEF JoinedE, CloseE, DoneE, AllE, NotifyE, TakeE, UndoE, FillE, SameCalls,
       SameGroups,
       SameWal
  <2>2. ASSUME NEW d \in Call, pc'[d] \in {"recorded", "acked"} PROVE pc'[d] = pc[d]
    BY <1>1, <2>2 DEF JoinedE, CloseE, DoneE, AllE, NotifyE, TakeE, UndoE, FillE, Jump
  <2>3. ASSUME NEW d \in Call, pc[d] = "idle" PROVE pc'[d] = "idle"
    BY <1>1, <2>3 DEF JoinedE, CloseE, DoneE, AllE, NotifyE, TakeE, UndoE, FillE, Jump
  <2> QED
    BY <2>1, <2>2, <2>3, <1>a DEF LsnInv, LsnOf, Waits
<1>2. ASSUME NEW c \in Call, FindE(c) \/ MissE(c) \/ LeadE(c) PROVE LsnInv'
  <2>1. UNCHANGED <<standbyInfo, logPos, dataLsn, commitLsn, inserted, wroteXlog, walEnd, flushed>>
    BY <1>2 DEF FindE, MissE, LeadE, SameGroups, SameWal
  <2>2. /\ pc[c] # "idle" /\ pc'[c] \notin {"recorded", "acked"}
        /\ \A d \in Call : d # c => pc'[d] = pc[d] /\ joinedGroup'[d] = joinedGroup[d]
    BY <1>2 DEF FindE, MissE, LeadE, Jump
  <2>3. logPos[c] = 0
    BY <1>2, <1>a DEF FindE, MissE, LeadE, LogInv, LogOf, Logs, Returned
  <2> QED
    BY <2>1, <2>2, <2>3, <1>a DEF LsnInv, LsnOf, Waits
<1>3. ASSUME NEW c \in Call, MoveE(c) PROVE LsnInv'
  <2>1. UNCHANGED <<standbyInfo, joinedGroup, logPos, dataLsn, commitLsn, wroteXlog, walEnd,
                    flushed>>
    BY <1>3 DEF MoveE, SameCalls, SameGroups
  <2>2. /\ \A d \in Call : d # c => pc'[d] = pc[d] /\ inserted'[d] = inserted[d]
        /\ pc[c] = "idle" => pc'[c] = "cas" /\ inserted'[c] = standbyInfo
        /\ pc[c] # "idle" => inserted'[c] = inserted[c]
        /\ pc'[c] # "recorded"
        /\ pc'[c] = "acked" => pc[c] = "recorded" /\ (wroteXlog[c] => flushed >= commitLsn[c])
    BY <1>3 DEF MoveE, Jump
  <2>3. LsnOf(c)'
    <3>1. CASE pc[c] = "idle"
      <4>1. logPos[c] = 0
        BY <3>1, <1>a DEF LogInv, LogOf, Logs, Returned
      <4> QED
        BY <3>1, <4>1, <2>1, <2>2, <1>a DEF LsnInv, LsnOf
    <3>2. CASE pc[c] # "idle" /\ pc'[c] # "acked"
      BY <3>2, <2>1, <2>2, <1>a DEF LsnInv, LsnOf
    <3>3. CASE pc'[c] = "acked"
      <4>1. pc[c] = "recorded" /\ pc[c] # "idle" /\ inserted'[c] = inserted[c]
        BY <3>3, <2>2
      <4>2. LsnOf(c)
        BY <1>a DEF LsnInv
      <4>3. Waits(c)' <=> Waits(c)
        BY <2>1 DEF Waits
      <4>4. Waits(c) => wroteXlog[c] = TRUE
        BY <4>1, <4>2 DEF LsnOf
      <4>5. Waits(c) => flushed >= commitLsn[c]
        BY <4>4, <3>3, <2>2
      <4>6. Waits(c) => commitLsn[c] <= flushed
        BY <4>5, <1>b
      <4> QED
        BY <3>3, <4>1, <4>2, <4>3, <4>4, <4>6, <2>1 DEF LsnOf
    <3> QED
      BY <3>1, <3>2, <3>3
  <2>4. ASSUME NEW d \in Call, d # c PROVE LsnOf(d)'
    BY <2>1, <2>2, <2>4, <1>a DEF LsnInv, LsnOf, Waits
  <2> QED
    BY <2>1, <2>3, <2>4, <1>a DEF LsnInv
<1>4. ASSUME NEW c \in Call, LogE(c) PROVE LsnInv'
  <2>1. /\ pc[c] = "logging" /\ logPos[c] < groupSize[c]
        /\ UNCHANGED <<pc, joinedGroup, standbyInfo, commitLsn, wroteXlog, flushed>>
        /\ walEnd' = walEnd + 1
        /\ \A d \in Call : dataLsn'[d] = IF d = groupData[c][logPos[c]] THEN walEnd + 1 ELSE dataLsn[d]
        /\ inserted'[c] = TRUE
        /\ \A d \in Call : d # c => inserted'[d] = inserted[d] /\ logPos'[d] = logPos[d]
    BY <1>4 DEF LogE, SameCalls
  <2>2. pc[groupData[c][logPos[c]]] \notin Returned
    BY <2>1, LogSlotFacts
  <2>3. ASSUME NEW d \in Call PROVE LsnOf(d)'
    <3>1. dataLsn'[d] <= walEnd'
      BY <2>1, <1>a, <1>b DEF LsnInv, LsnOf
    <3>2. /\ joinedGroup'[d] = d /\ logPos'[d] > 0 => inserted'[d] = TRUE
          /\ standbyInfo' = TRUE /\ pc'[d] # "idle" => inserted'[d] = TRUE
      BY <2>1, <1>a DEF LsnInv, LsnOf
    <3>3. pc[d] \in {"recorded", "acked"} => dataLsn'[d] = dataLsn[d]
      BY <2>1, <2>2 DEF Returned
    <3> QED
      BY <2>1, <3>1, <3>2, <3>3, <1>a DEF LsnInv, LsnOf, Waits
  <2> QED
    BY <2>1, <2>3, <1>a, <1>b DEF LsnInv
<1>5. ASSUME NEW c \in Call, RecordE(c) PROVE LsnInv'
  <2>1. /\ pc[c] = "written" /\ pc'[c] = "recorded" /\ \A d \in Call : d # c => pc'[d] = pc[d]
        /\ UNCHANGED <<joinedGroup, logPos, standbyInfo, dataLsn, flushed>>
        /\ walEnd' = walEnd + 1
        /\ commitLsn'[c] = walEnd + 1 /\ inserted'[c] = TRUE
        /\ wroteXlog'[c] = inserted[c]
        /\ \A d \in Call : d # c => /\ commitLsn'[d] = commitLsn[d]
                                    /\ inserted'[d] = inserted[d]
                                    /\ wroteXlog'[d] = wroteXlog[d]
    BY <1>5 DEF RecordE, Jump, SameCalls, SameGroups
  <2>2. Waits(c) => inserted[c] = TRUE
    <3>1. joinedGroup[c] = c => commited[c]
      BY <2>1, <1>a DEF RoleInv, RoleOf, Returned
    <3>2. commited[c] => logPos[c] = groupSize[c]
      BY <1>a DEF LogInv, LogOf
    <3>3. groupSize[c] >= 1
      BY <1>a DEF SizeInv, SizeOf
    <3>4. joinedGroup[c] = c => logPos[c] > 0
      BY <3>1, <3>2, <3>3, <1>b
    <3> QED
      BY <3>4, <2>1, <1>a DEF LsnInv, LsnOf, Waits
  <2>3. LsnOf(c)'
    <3>1. Waits(c)' => wroteXlog'[c] = TRUE
      BY <2>1, <2>2 DEF Waits
    <3>2. dataLsn[c] <= walEnd /\ dataLsn[c] \in Nat
      BY <1>a, <1>b DEF LsnInv, LsnOf
    <3>3. dataLsn'[c] <= walEnd' /\ dataLsn'[c] < commitLsn'[c]
      BY <2>1, <3>2, <1>b
    <3> QED
      BY <2>1, <3>1, <3>3 DEF LsnOf
  <2>4. ASSUME NEW d \in Call, d # c PROVE LsnOf(d)'
    <3>1. LsnOf(d)
      BY <1>a DEF LsnInv
    <3>2. dataLsn'[d] <= walEnd'
      BY <2>1, <1>b, <3>1 DEF LsnOf
    <3> QED
      BY <2>1, <2>4, <3>1, <3>2 DEF LsnOf, Waits
  <2> QED
    BY <2>1, <2>3, <2>4, <1>a, <1>b DEF LsnInv
<1>6. ASSUME FlushE PROVE LsnInv'
  <2>1. /\ UNCHANGED <<pc, joinedGroup, logPos, standbyInfo, dataLsn, commitLsn, inserted, wroteXlog,
                       walEnd>>
        /\ flushed' \in {flushed, walEnd}
    BY <1>6 DEF FlushE, SameCalls, SameGroups
  <2>2. flushed <= flushed' /\ flushed' <= walEnd
    BY <2>1, <1>a, <1>b DEF LsnInv
  <2>3. ASSUME NEW d \in Call PROVE LsnOf(d)'
    <3>1. flushed' \in Nat
      BY <2>1, <1>b
    <3>2. LsnOf(d) /\ commitLsn[d] \in Nat
      BY <1>a, <1>b DEF LsnInv
    <3>3. commitLsn[d] <= flushed => commitLsn[d] <= flushed'
      BY <2>2, <3>1, <3>2, <1>b
    <3> QED
      BY <2>1, <3>2, <3>3 DEF LsnOf, Waits
  <2> QED
    BY <2>1, <2>2, <2>3 DEF LsnInv
<1> QED
  BY <1>1, <1>2, <1>3, <1>4, <1>5, <1>6 DEF StepEffect, Kinds

-----------------------------------------------------------------------------
(* Types.                                                                  *)

LEMMA TypeStep == IInv /\ [Next]_vars => TypeOK'
<1> SUFFICES ASSUME IInv, [Next]_vars PROVE TypeOK'
  OBVIOUS
<1> USE NoGroupAssumption, SizeAssumption
<1>0. TypeOK /\ RoleInv
  BY DEF IInv
<1>1. ASSUME NEW c \in Call,
             \/ Start(c) \/ LeadCheck(c) \/ LeadTimeout(c) \/ LeadCommit(c) \/ MemberCheck(c)
             \/ LastLock(c) \/ Acknowledge(c)
      PROVE  TypeOK'
  <2>. USE <1>0 DEF Goto
  <2>1. CASE Start(c)
    <3>1. standbyInfo \in BOOLEAN /\ inserted \in [Call -> BOOLEAN]
      BY DEF TypeOK
    <3>2. inserted' \in [Call -> BOOLEAN]
      BY <2>1, <3>1 DEF Start, XLogInsertStandbyCSNCommitting
    <3>. QED
      BY <2>1, <3>2 DEF TypeOK, Stages, Start, groupVars
  <2>2. CASE LeadCheck(c) \/ LeadTimeout(c) \/ LeadCommit(c)
    BY <2>2 DEF TypeOK, Stages, LeadCheck, LeadTimeout, LeadCommit, groupVars, walVars
  <2>3. CASE MemberCheck(c) \/ LastLock(c) \/ Acknowledge(c)
    BY <2>3 DEF TypeOK, Stages, MemberCheck, LastLock, Acknowledge, groupVars, walVars
  <2>. QED
    BY <1>1, <2>1, <2>2, <2>3
<1>2. ASSUME NEW c \in Call, TryLead(c) PROVE TypeOK'
  <2>1. currentGroup[node[c]] \in Group /\ c \in Group /\ NoGroup \in Group /\ 0 \in Nat
    BY <1>0 DEF TypeOK, Group
  <2>2. pc' \in [Call -> Stages]
    BY <1>0, <1>2 DEF TypeOK, Stages, TryLead, Goto
  <2>3. CASE currentGroup[node[c]] = expected[c]
    <3>1. /\ currentGroup' = [currentGroup EXCEPT ![node[c]] = c]
          /\ joinedGroup' = [joinedGroup EXCEPT ![c] = c]
          /\ groupIndex' = [groupIndex EXCEPT ![c] = 0]
          /\ expected' = [expected EXCEPT ![c] = NoGroup]
      BY <1>2, <2>3 DEF TryLead
    <3> QED
      BY <1>0, <1>2, <2>1, <2>2, <3>1 DEF TypeOK, TryLead, groupVars, walVars
  <2>4. CASE currentGroup[node[c]] # expected[c]
    <3>1. /\ expected' = [expected EXCEPT ![c] = currentGroup[node[c]]]
          /\ UNCHANGED <<currentGroup, joinedGroup, groupIndex>>
      BY <1>2, <2>4 DEF TryLead
    <3> QED
      BY <1>0, <1>2, <2>1, <2>2, <3>1 DEF TypeOK, TryLead, groupVars, walVars
  <2> QED
    BY <2>3, <2>4
<1>3. ASSUME NEW c \in Call, FindGroup(c) \/ MissedGroup(c) PROVE TypeOK'
  <2>1. currentGroup[node[c]] \in Group /\ NoGroup \in Group
    BY <1>0 DEF TypeOK, Group
  <2>2. pc' \in [Call -> Stages]
    BY <1>0, <1>3 DEF TypeOK, Stages, FindGroup, MissedGroup, Goto
  <2>3. joinedGroup' \in [Call -> Group]
    BY <1>0, <1>3, <2>1 DEF TypeOK, FindGroup, MissedGroup
  <2>4. currentGroup' \in [Node -> Group]
    BY <1>0, <1>3, <2>1 DEF TypeOK, FindGroup, MissedGroup, CloseGroup
  <2> QED
    BY <1>0, <1>3, <2>2, <2>3, <2>4 DEF TypeOK, FindGroup, MissedGroup, groupVars, walVars
<1>4. ASSUME NEW c \in Call, AddToGroup(c) PROVE TypeOK'
  <2>1. joinedGroup[c] \in Call
    BY <1>0, <1>4 DEF TypeOK, Group, RoleInv, RoleOf, Trying, AddToGroup
  <2>2. pc' \in [Call -> Stages]
    <3>1. PICK l \in {"missed", "undo", "fill"} : pc' = [pc EXCEPT ![c] = l]
      BY <1>4 DEF AddToGroup, Goto
    <3> QED
      BY <1>0, <3>1 DEF TypeOK, Stages
  <2>3. CASE closed[joinedGroup[c]]
    <3>1. UNCHANGED <<groupIndex, groupSize, readers>>
      BY <1>4, <2>3 DEF AddToGroup
    <3> QED
      BY <1>0, <1>4, <2>2, <3>1 DEF TypeOK, AddToGroup, walVars
  <2>4. CASE ~closed[joinedGroup[c]]
    <3>1. /\ groupIndex' = [groupIndex EXCEPT ![c] = groupSize[joinedGroup[c]]]
          /\ groupSize' = [groupSize EXCEPT ![joinedGroup[c]] = @ + 1]
          /\ readers' = [readers EXCEPT ![joinedGroup[c]] = @ \cup {c}]
      BY <1>4, <2>4 DEF AddToGroup
    <3>2. groupIndex' \in [Call -> Nat] /\ groupSize' \in [Call -> Nat]
      BY <1>0, <2>1, <3>1 DEF TypeOK
    <3>3. readers' \in [Call -> SUBSET Call]
      BY <1>0, <2>1, <3>1 DEF TypeOK
    <3> QED
      BY <1>0, <1>4, <2>2, <3>2, <3>3 DEF TypeOK, AddToGroup, walVars
  <2> QED
    BY <2>3, <2>4
<1>5. ASSUME NEW c \in Call, UndoAdd(c) PROVE TypeOK'
  <2>1. joinedGroup[c] \in Call /\ groupSize[joinedGroup[c]] > GroupCommitSize
    BY <1>5, <1>0, UndoMeansFull DEF IInv, UndoAdd
  <2>2. groupSize[joinedGroup[c]] - 1 \in Nat
    BY <1>0, <2>1 DEF TypeOK
  <2> QED
    BY <1>0, <1>5, <2>1, <2>2 DEF TypeOK, Stages, UndoAdd, Goto, walVars
<1>6. ASSUME NEW c \in Call, FillSlot(c) PROVE TypeOK'
  <2>1. joinedGroup[c] \in Call
    BY <1>0, <1>6 DEF TypeOK, Group, RoleInv, RoleOf, Trying, FillSlot
  <2>2. groupData' \in [Call -> [Slot -> Group]]
    BY <1>0, <1>6, <2>1 DEF TypeOK, Group, FillSlot
  <2>3. expected' \in [Call -> Group]
    BY <1>0, <1>6 DEF TypeOK, Group, FillSlot
  <2> QED
    BY <1>0, <1>6, <2>1, <2>2, <2>3 DEF TypeOK, Stages, FillSlot, Goto, walVars
<1>7. ASSUME NEW c \in Call, Joined(c) \/ LeadClose(c) PROVE TypeOK'
  <2>1. NoGroup \in Group
    BY DEF Group
  <2>2. pc' \in [Call -> Stages]
    BY <1>0, <1>7 DEF TypeOK, Stages, Joined, LeadClose, Goto
  <2>3. currentGroup' \in [Node -> Group]
    BY <1>0, <1>7, <2>1 DEF TypeOK, Joined, LeadClose, CloseGroup
  <2>4. closed' \in [Call -> BOOLEAN]
    BY <1>0, <1>7 DEF TypeOK, Joined, LeadClose, groupVars
  <2> QED
    BY <1>0, <1>7, <2>2, <2>3, <2>4 DEF TypeOK, Joined, LeadClose, groupVars, walVars
<1>8. ASSUME NEW c \in Call, Arrive(c) PROVE TypeOK'
  <2>1. /\ pc' = [pc EXCEPT ![c] = CASE joinedGroup[c] = c -> "leadCheck"
                 [] joinedGroup[c] # c /\ numWaiters[joinedGroup[c]] = GroupCommitSize - 1 -> "lastLock"
                 [] joinedGroup[c] # c /\ numWaiters[joinedGroup[c]] # GroupCommitSize - 1 -> "memberLock"]
        /\ numWaiters' = [numWaiters EXCEPT ![joinedGroup[c]] = @ + 1]
    BY <1>8 DEF Arrive, Goto
  <2>2. pc' \in [Call -> Stages]
    BY <1>0, <2>1 DEF TypeOK, Stages
  <2>3. numWaiters' \in [Call -> Nat]
    <3>1. joinedGroup[c] \in Call
      BY <1>0, <1>8 DEF TypeOK, Group, RoleInv, RoleOf, Seated, Arrive
    <3> QED
      BY <1>0, <2>1, <3>1 DEF TypeOK
  <2> QED
    BY <1>0, <1>8, <2>2, <2>3 DEF TypeOK, Arrive, walVars
<1>9. ASSUME NEW c \in Call, LogSlot(c) \/ LogDone(c) PROVE TypeOK'
  <2>1. CASE LogSlot(c)
    <3>1. walEnd' \in Nat /\ dataLsn' \in [Call -> Nat] /\ inserted' \in [Call -> BOOLEAN]
      BY <1>0, <2>1 DEF TypeOK, LogSlot
    <3>2. logPos' \in [Call -> Nat]
      BY <1>0, <2>1 DEF TypeOK, LogSlot
    <3> QED
      BY <1>0, <2>1, <3>1, <3>2 DEF TypeOK, LogSlot, callVars
  <2>2. CASE LogDone(c)
    BY <1>0, <2>2 DEF TypeOK, Stages, LogDone, Goto, walVars
  <2> QED
    BY <1>9, <2>1, <2>2
<1>10. ASSUME NEW c \in Call, NotifyAll(c) \/ NotifyLeader(c) PROVE TypeOK'
  <2>1. CASE NotifyAll(c)
    <3>1. ASSUME NEW m \in Call
          PROVE (CASE m = c -> "written"
                  [] m # c /\ joinedGroup[m] = c /\ pc[m] = "memberSleep" -> "memberWoken"
                  [] m # c /\ ~(joinedGroup[m] = c /\ pc[m] = "memberSleep") -> pc[m]) \in Stages
      BY <1>0 DEF TypeOK, Stages
    <3>2. pc' \in [Call -> Stages]
      BY <2>1, <3>1 DEF NotifyAll
    <3> QED
      BY <1>0, <2>1, <3>2 DEF TypeOK, NotifyAll, groupVars, walVars
  <2>2. CASE NotifyLeader(c)
    BY <1>0, <2>2 DEF TypeOK, Stages, NotifyLeader, groupVars, walVars
  <2> QED
    BY <2>1, <2>2, <1>10
<1>11. ASSUME NEW c \in Call, RecordCommit(c) PROVE TypeOK'
  BY <1>0, <1>11 DEF TypeOK, Stages, RecordCommit, Goto, groupVars
<1>12. ASSUME WalFlush \/ CheckpointLock \/ Flush \/ CheckpointUnlock \/ UNCHANGED vars
       PROVE  TypeOK'
  BY <1>0, <1>12 DEF TypeOK, WalFlush, CheckpointLock, Flush, CheckpointUnlock, vars, callVars,
     groupVars, walVars
<1> QED
  BY <1>1, <1>2, <1>3, <1>4, <1>5, <1>6, <1>7, <1>8, <1>9, <1>10, <1>11, <1>12 DEF Next,
     CallStep

\* Initially nobody has called and the groups hold only their makers.
LEMMA InitInv == Init => IInv
<1> SUFFICES ASSUME Init PROVE IInv
  OBVIOUS
<1> USE NoGroupAssumption, SizeAssumption
<1>1. TypeOK
  BY ModesAssumption DEF Init, TypeOK, Stages, Group
<1>2. RoleInv
  BY DEF Init, RoleInv, RoleOf, OpenOf, Leading, Waiting, Trying, Returned, Seated, Closed,
     Outside
<1>3. \A g \in Call : Fillers(g) = {} /\ Undoers(g) = {}
  BY DEF Init, Fillers, Undoers
<1>4. ReaderInv
  BY <1>3 DEF Init, ReaderInv, ReaderOf
<1>5. SizeInv
  <2>1. IsFiniteSet({}) /\ Cardinality({}) = 0
    BY FS_EmptySet
  <2>2. ASSUME NEW g \in Call PROVE SizeOf(g)
    <3>1. groupSize[g] = 1 /\ Undoers(g) = {}
      BY <1>3 DEF Init
    <3> QED
      BY <2>1, <3>1 DEF SizeOf
  <2> QED
    BY <2>2 DEF SizeInv
<1>6. SeatInv
  BY SlotFacts DEF Init, SeatInv, SlotOf, SeatOf, Filling, IsSeated, Seated, Leading, Waiting,
     Returned
<1>7. LogInv
  <2>1. ASSUME NEW c \in Call PROVE LogOf(c)
    <3>1. logPos[c] = 0 /\ groupSize[c] = 1 /\ dataLsn[c] = 0 /\ ~commited[c]
      BY DEF Init
    <3>2. ~IsSeated(c)
      BY DEF Init, IsSeated, Seated, Leading, Waiting, Returned
    <3> QED
      BY <3>1, <3>2 DEF LogOf
  <2> QED
    BY <2>1 DEF LogInv
<1>8. LsnInv
  BY DEF Init, LsnInv, LsnOf
<1> QED
  BY <1>1, <1>2, <1>4, <1>5, <1>6, <1>7, <1>8 DEF IInv

LEMMA Inductive == Spec => []IInv
<1>1. IInv /\ [Next]_vars => IInv'
  BY Effects, TypeStep, RoleStep, ReaderStep, SizeStep, SeatStep, LogStep, LsnStep DEF IInv
<1> QED
  BY InitInv, <1>1, PTL DEF Spec

-----------------------------------------------------------------------------
(* Theorems.                                                               *)

\* The variables have their types for any number of transactions, nodes and
\* any size of a group.  That the size of a group is never decremented below
\* zero rests on who may undo an increment.
THEOREM TypeCorrect == Spec => []TypeOK
<1>1. IInv => TypeOK
  BY DEF IInv
<1> QED
  BY Inductive, <1>1, PTL

\* A leader in LogGroup finds in each slot the buffer of a different
\* transaction that is waiting inside WriteToLog for this group: the reader
\* lock around fetch_add and the filling of the slot, and the writer lock
\* around closing the group, suffice.
THEOREM GroupIsFilled == Spec => []SlotsFilled
<1>1. IInv => SlotsFilled
  <2> SUFFICES ASSUME IInv, NEW g \in Call, pc[g] = "logging"
               PROVE  /\ groupSize[g] <= GroupCommitSize
                      /\ \A i \in Slot : i < groupSize[g] =>
                            /\ groupData[g][i] # NoGroup
                            /\ joinedGroup[groupData[g][i]] = g
                            /\ Inside(groupData[g][i])
                            /\ \A j \in Slot : j < i => groupData[g][j] # groupData[g][i]
    BY DEF SlotsFilled
  <2>a. TypeOK /\ RoleInv
    BY DEF IInv
  <2>1. closed[g] /\ ~commited[g]
    BY <2>a DEF RoleInv, RoleOf, Closed, Leading, Returned
  <2>2. /\ groupSize[g] <= GroupCommitSize
        /\ \A i \in Slot : i < groupSize[g] =>
              /\ groupData[g][i] \in Call
              /\ joinedGroup[groupData[g][i]] = g
              /\ groupIndex[groupData[g][i]] = i
              /\ IsSeated(groupData[g][i])
    BY <2>1, ClosedIsFilled
  <2>3. ASSUME NEW i \in Slot, i < groupSize[g]
        PROVE  /\ groupData[g][i] # NoGroup
               /\ joinedGroup[groupData[g][i]] = g
               /\ Inside(groupData[g][i])
               /\ \A j \in Slot : j < i => groupData[g][j] # groupData[g][i]
    <3>1. groupData[g][i] \in Call /\ joinedGroup[groupData[g][i]] = g /\ IsSeated(groupData[g][i])
      BY <2>2, <2>3
    <3>2. pc[groupData[g][i]] \notin Returned
      BY <3>1, <2>1, <2>a DEF RoleInv, RoleOf
    <3>3. Inside(groupData[g][i])
      BY <3>1, <3>2 DEF Inside, Outside, Returned, IsSeated, Seated, Leading, Waiting
    <3>4. ASSUME NEW j \in Slot, j < i PROVE groupData[g][j] # groupData[g][i]
      <4>1. j \in Nat /\ i \in Nat /\ groupSize[g] \in Nat
        BY <2>a, SlotFacts DEF TypeOK
      <4>2. j < groupSize[g] /\ j # i
        BY <4>1, <3>4, <2>3
      <4> QED
        BY <4>2, <2>2, <2>3
    <3> QED
      BY <3>1, <3>3, <3>4, NoGroupAssumption
  <2> QED
    BY <2>2, <2>3
<1> QED
  BY Inductive, <1>1, PTL

\* An installed group is led by a transaction of its node that has yet to
\* close it, whatever groups a retried compare-exchange replaced: Flush of the
\* checkpoint never spins on a group without a leader.
THEOREM OpenGroupIsLed == Spec => []OpenGroupLed
<1>1. IInv => OpenGroupLed
  BY DEF IInv, RoleInv, OpenOf, OpenGroupLed
<1> QED
  BY Inductive, <1>1, PTL

\* The client of a leader, and with hot standby of every transaction, is told only
\* after the redo record and the commit record of its transaction are on disk.
THEOREM AcknowledgedIsDurable == Spec => []AckIsDurable
<1>1. IInv => AckIsDurable
  <2> SUFFICES ASSUME IInv, NEW c \in Call, pc[c] = "acked", joinedGroup[c] = c \/ standbyInfo
               PROVE  OnDisk(c)
    BY DEF AckIsDurable
  <2>a. TypeOK /\ RoleInv /\ LsnInv
    BY DEF IInv
  <2>0. Waits(c)
    BY <2>a DEF TypeOK, Waits
  <2>1. dataLsn[c] < commitLsn[c] /\ commitLsn[c] <= flushed
    BY <2>0, <2>a DEF LsnInv, LsnOf
  <2>2. commited[joinedGroup[c]] /\ IsSeated(c)
    BY <2>a DEF RoleInv, RoleOf, Returned, IsSeated, Seated
  <2>3. dataLsn[c] # 0 /\ dataLsn[c] \in Nat
    BY <2>2, <2>a, CommittedIsLogged DEF TypeOK
  <2> QED
    BY <2>1, <2>3 DEF OnDisk
<1> QED
  BY Inductive, <1>1, PTL

-----------------------------------------------------------------------------
(* GroupRedoLog implements RedoLogHandler.                                 *)

\* The call stays on its side of the start and of the return of WriteToLog.
SameSide(d) ==
    /\ pc'[d] = "idle" <=> pc[d] = "idle"
    /\ pc'[d] \in Returned <=> pc[d] \in Returned

\* What each place in the code and the position of the buffer mean for the
\* abstract stage.
LEMMA StageCases ==
    ASSUME NEW c \in Call
    PROVE  /\ pc[c] = "idle" => Stage(c) = "idle"
           /\ pc[c] # "idle" /\ pc[c] \notin Returned /\ dataLsn[c] = 0 => Stage(c) = "called"
           /\ pc[c] # "idle" /\ pc[c] \notin Returned /\ dataLsn[c] # 0 => Stage(c) = "logged"
           /\ pc[c] \in Returned => Stage(c) = "returned"
<1>1. Returned = {"written", "recorded", "acked"}
  BY DEF Returned
<1>2. Inside(c) <=> pc[c] # "idle" /\ pc[c] \notin Returned
  BY <1>1 DEF Inside, Outside
<1>3. CASE pc[c] = "idle"
  BY <1>1, <1>2, <1>3 DEF Stage
<1>4. CASE pc[c] \in Returned
  BY <1>1, <1>2, <1>4 DEF Stage
<1>5. CASE pc[c] # "idle" /\ pc[c] \notin Returned
  BY <1>1, <1>2, <1>5 DEF Stage
<1> QED
  BY <1>3, <1>4, <1>5

\* The same in the next state.
LEMMA StageCasesNext ==
    ASSUME NEW c \in Call
    PROVE  /\ pc'[c] = "idle" => Stage(c)' = "idle"
           /\ pc'[c] # "idle" /\ pc'[c] \notin Returned /\ dataLsn'[c] = 0 => Stage(c)' = "called"
           /\ pc'[c] # "idle" /\ pc'[c] \notin Returned /\ dataLsn'[c] # 0 => Stage(c)' = "logged"
           /\ pc'[c] \in Returned => Stage(c)' = "returned"
<1>1. Returned = {"written", "recorded", "acked"}
  BY DEF Returned
<1>2. Inside(c)' <=> pc'[c] # "idle" /\ pc'[c] \notin Returned
  BY <1>1 DEF Inside, Outside
<1>3. CASE pc'[c] = "idle"
  BY <1>1, <1>2, <1>3 DEF Stage
<1>4. CASE pc'[c] \in Returned
  BY <1>1, <1>2, <1>4 DEF Stage
<1>5. CASE pc'[c] # "idle" /\ pc'[c] \notin Returned
  BY <1>1, <1>2, <1>5 DEF Stage
<1> QED
  BY <1>3, <1>4, <1>5

\* A call whose buffer and side do not change keeps its stage.
LEMMA StageFrame ==
    ASSUME NEW d \in Call, SameSide(d), dataLsn'[d] = dataLsn[d]
    PROVE  Stage(d)' = Stage(d)
<1>1. "idle" \notin Returned
  BY DEF Returned
<1>2. CASE pc[d] = "idle"
  BY <1>2, StageCases, StageCasesNext DEF SameSide
<1>3. CASE pc[d] \in Returned
  BY <1>3, StageCases, StageCasesNext DEF SameSide
<1>4. CASE pc[d] # "idle" /\ pc[d] \notin Returned /\ dataLsn[d] = 0
  BY <1>4, StageCases, StageCasesNext DEF SameSide
<1>5. CASE pc[d] # "idle" /\ pc[d] \notin Returned /\ dataLsn[d] # 0
  BY <1>5, StageCases, StageCasesNext DEF SameSide
<1> QED
  BY <1>2, <1>3, <1>4, <1>5

\* A step that inserts nothing is the start of a call, a return after the
\* buffer was inserted, or no step of the handler.
LEMMA SilentStep ==
    ASSUME UNCHANGED <<dataLsn, walEnd>>,
           NEW c \in Call,
           \A d \in Call : d # c => SameSide(d),
           \/ SameSide(c)
           \/ pc[c] = "idle" /\ pc'[c] # "idle" /\ pc'[c] \notin Returned /\ dataLsn[c] = 0
           \/ /\ pc[c] # "idle" /\ pc[c] \notin Returned /\ pc'[c] \in Returned
              /\ dataLsn[c] # 0
    PROVE  Handler!HandlerNext \/ UNCHANGED Handler!handlerVars
<1>1. \A d \in Call : d # c => Stage(d)' = Stage(d)
  BY StageFrame
<1>2. CASE SameSide(c)
  <2>1. \A d \in Call : Stage(d)' = Stage(d)
    BY <1>1, <1>2, StageFrame
  <2>2. [d \in Call |-> Stage(d)]' = [d \in Call |-> Stage(d)]
    BY <2>1
  <2> QED
    BY <2>2 DEF Handler!handlerVars
<1>3. CASE pc[c] = "idle" /\ pc'[c] # "idle" /\ pc'[c] \notin Returned /\ dataLsn[c] = 0
  <2>1. Stage(c) = "idle" /\ Stage(c)' = "called"
    BY <1>3, StageCases, StageCasesNext
  <2>2. Handler!CallWrite(c)
    BY <2>1, <1>1 DEF Handler!CallWrite
  <2> QED
    BY <2>2 DEF Handler!HandlerNext
<1>4. CASE /\ pc[c] # "idle" /\ pc[c] \notin Returned /\ pc'[c] \in Returned
           /\ dataLsn[c] # 0
  <2>1. Stage(c) = "logged" /\ Stage(c)' = "returned"
    BY <1>4, StageCases, StageCasesNext
  <2>2. Handler!ReturnBuffer(c)
    BY <2>1, <1>1 DEF Handler!ReturnBuffer
  <2> QED
    BY <2>2 DEF Handler!HandlerNext
<1> QED
  BY <1>2, <1>3, <1>4

\* Every step is one of the handler or none.
LEMMA HandlerStep == IInv /\ [Next]_vars => [Handler!HandlerNext]_Handler!handlerVars
<1> SUFFICES ASSUME IInv, StepEffect
             PROVE  Handler!HandlerNext \/ UNCHANGED Handler!handlerVars
  BY Effects
<1>a. TypeOK /\ RoleInv /\ LogInv
  BY DEF IInv
<1>1. ASSUME NEW c \in Call,
             \/ LeadE(c) \/ FindE(c) \/ TakeE(c) \/ UndoE(c) \/ FillE(c) \/ MissE(c)
             \/ JoinedE(c) \/ CloseE(c) \/ DoneE(c)
      PROVE  Handler!HandlerNext \/ UNCHANGED Handler!handlerVars
  <2>1. UNCHANGED <<dataLsn, walEnd>>
    BY <1>1 DEF LeadE, FindE, TakeE, UndoE, FillE, MissE, JoinedE, CloseE, DoneE, SameWal
  <2>2. \A d \in Call : SameSide(d)
    BY <1>1 DEF LeadE, FindE, TakeE, UndoE, FillE, MissE, JoinedE, CloseE, DoneE, Jump,
       SameSide,
       Returned
  <2> QED
    BY <2>1, <2>2, SilentStep
<1>2. ASSUME NEW c \in Call, MoveE(c)
      PROVE  Handler!HandlerNext \/ UNCHANGED Handler!handlerVars
  <2>1. UNCHANGED <<dataLsn, walEnd>>
    BY <1>2 DEF MoveE
  <2>2. \A d \in Call : d # c => SameSide(d)
    BY <1>2 DEF MoveE, Jump, SameSide
  <2>3. \/ SameSide(c)
        \/ pc[c] = "idle" /\ pc'[c] # "idle" /\ pc'[c] \notin Returned
        \/ /\ pc[c] \in {"memberLock", "memberWoken"} /\ pc'[c] \in Returned
           /\ commited[joinedGroup[c]]
    BY <1>2 DEF MoveE, SameSide, Returned
  <2>4. pc[c] = "idle" => dataLsn[c] = 0
    BY <1>a DEF LogInv, LogOf, IsSeated, Seated, Leading, Waiting, Returned
  <2>5. pc[c] \in {"memberLock", "memberWoken"} /\ commited[joinedGroup[c]] =>
           pc[c] # "idle" /\ pc[c] \notin Returned /\ dataLsn[c] # 0
    BY CommittedIsLogged DEF IsSeated, Seated, Waiting, Returned
  <2> QED
    BY <2>1, <2>2, <2>3, <2>4, <2>5, SilentStep
<1>3. ASSUME NEW c \in Call, AllE(c)
      PROVE  Handler!HandlerNext \/ UNCHANGED Handler!handlerVars
  <2>1. UNCHANGED <<dataLsn, walEnd>>
    BY <1>3 DEF AllE, SameWal
  <2>2. \A d \in Call : d # c => SameSide(d)
    BY <1>3 DEF AllE, SameSide, Returned
  <2>3. pc[c] = "notifyAll" /\ pc'[c] = "written"
    BY <1>3 DEF AllE
  <2>4. joinedGroup[c] = c /\ commited[c] /\ IsSeated(c)
    BY <2>3, <1>a DEF RoleInv, RoleOf, Leading, IsSeated, Seated
  <2>5. dataLsn[c] # 0
    BY <2>4, CommittedIsLogged
  <2>6. pc[c] # "idle" /\ pc[c] \notin Returned /\ pc'[c] \in Returned
    BY <2>3 DEF Returned
  <2> QED
    BY <2>1, <2>2, <2>5, <2>6, SilentStep
<1>4. ASSUME NEW c \in Call, NotifyE(c)
      PROVE  Handler!HandlerNext \/ UNCHANGED Handler!handlerVars
  <2>1. UNCHANGED <<dataLsn, walEnd>>
    BY <1>4 DEF NotifyE, SameWal
  <2>2. \A d \in Call : d # c => SameSide(d)
    BY <1>4 DEF NotifyE, SameSide, Returned
  <2>3. /\ pc[c] = "notifying"
        /\ pc'[c] = "memberSleep" \/ (pc'[c] = "written" /\ commited[joinedGroup[c]])
    BY <1>4 DEF NotifyE
  <2>4. CASE pc'[c] = "memberSleep"
    <3>1. SameSide(c)
      BY <2>3, <2>4 DEF SameSide, Returned
    <3> QED
      BY <2>1, <2>2, <3>1, SilentStep
  <2>5. CASE pc'[c] = "written" /\ commited[joinedGroup[c]]
    <3>1. IsSeated(c)
      BY <2>3 DEF IsSeated, Seated, Waiting
    <3>2. dataLsn[c] # 0
      BY <2>5, <3>1, CommittedIsLogged
    <3>3. pc[c] # "idle" /\ pc[c] \notin Returned /\ pc'[c] \in Returned
      BY <2>3, <2>5 DEF Returned
    <3> QED
      BY <2>1, <2>2, <3>2, <3>3, SilentStep
  <2> QED
    BY <2>3, <2>4, <2>5
<1>5. ASSUME NEW c \in Call, LogE(c)
      PROVE  Handler!HandlerNext \/ UNCHANGED Handler!handlerVars
  <2>1. /\ pc[c] = "logging" /\ logPos[c] < groupSize[c]
        /\ UNCHANGED pc /\ walEnd' = walEnd + 1
        /\ dataLsn' = [d \in Call |-> IF d = groupData[c][logPos[c]] THEN walEnd + 1 ELSE dataLsn[d]]
    BY <1>5 DEF LogE
  <2>2. PICK b \in Call : /\ b = groupData[c][logPos[c]]
                          /\ IsSeated(b) /\ pc[b] \notin Returned /\ dataLsn[b] = 0
    BY <2>1, LogSlotFacts
  <2>3. /\ pc[c] = "logging" /\ UNCHANGED pc /\ walEnd' = walEnd + 1
        /\ \A d \in Call : dataLsn'[d] = IF d = b THEN walEnd + 1 ELSE dataLsn[d]
    BY <2>1, <2>2
  <2>4. pc[b] # "idle"
    BY <2>2 DEF IsSeated, Seated, Leading, Waiting, Returned
  <2>5. dataLsn'[b] # 0
    BY <2>3, <2>2, <1>a DEF TypeOK
  <2>6. Stage(b) = "called" /\ Stage(b)' = "logged"
    BY <2>3, <2>2, <2>4, <2>5, StageCases, StageCasesNext
  <2>7. \A d \in Call : d # b => Stage(d)' = Stage(d)
    BY <2>3, StageFrame DEF SameSide
  <2>8. dataLsn' = [dataLsn EXCEPT ![b] = walEnd + 1]
    BY <2>1, <2>2, <1>a DEF TypeOK
  <2>9. Handler!InsertData(b)
    BY <2>3, <2>2, <2>6, <2>7, <2>8 DEF Handler!InsertData
  <2> QED
    BY <2>2, <2>9 DEF Handler!HandlerNext
<1>6. ASSUME NEW c \in Call, RecordE(c)
      PROVE  Handler!HandlerNext \/ UNCHANGED Handler!handlerVars
  <2>1. walEnd' = walEnd + 1 /\ UNCHANGED dataLsn
    BY <1>6 DEF RecordE
  <2>2. \A d \in Call : SameSide(d)
    BY <1>6 DEF RecordE, Jump, SameSide, Returned
  <2>3. [d \in Call |-> Stage(d)]' = [d \in Call |-> Stage(d)]
    BY <2>1, <2>2, StageFrame
  <2>4. Handler!OtherRecord
    BY <2>1, <2>3 DEF Handler!OtherRecord
  <2> QED
    BY <2>4 DEF Handler!HandlerNext
<1>7. ASSUME FlushE
      PROVE  Handler!HandlerNext \/ UNCHANGED Handler!handlerVars
  <2>1. UNCHANGED <<pc, dataLsn, walEnd>>
    BY <1>7 DEF FlushE
  <2>2. [d \in Call |-> Stage(d)]' = [d \in Call |-> Stage(d)]
    BY <2>1, StageFrame DEF SameSide
  <2> QED
    BY <2>1, <2>2 DEF Handler!handlerVars
<1> QED
  BY <1>1, <1>2, <1>3, <1>4, <1>5, <1>6, <1>7 DEF StepEffect, Kinds

\* The group handler keeps the promise of a redo log handler: the buffer of
\* each call is inserted once, between the call and the return of its
\* transaction, whichever transaction leads the group.
THEOREM GroupImplementsHandler == Spec => KeepsPromise
<1>1. Init => Handler!HandlerInit
  <2> SUFFICES ASSUME Init PROVE Handler!HandlerInit
    OBVIOUS
  <2>1. \A c \in Call : Stage(c) = "idle"
    BY StageCases DEF Init
  <2> QED
    BY <2>1 DEF Init, Handler!HandlerInit
<1> QED
  BY <1>1, Inductive, HandlerStep, PTL DEF Spec, KeepsPromise, Handler!HandlerSpec
=============================================================================

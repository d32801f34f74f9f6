# A TLA+ model of transactions, durability and recovery in openGauss

openGauss is a relational database server: some two million lines of C++, most
of them a descendant of PostgreSQL's disk engine, with a second, lock-free,
multi-version in-memory engine beside it (MOT, `src/gausskernel/storage/mot`).
This project models the parts that decide whether transactions see consistent data
and whether committed data survives a crash:

* the **checkpoint** of MOT, which writes a transactionally consistent image of
  all rows while transactions go on committing, and the recovery from that image
  and the redo log;
* the **group commit** of MOT's redo log, where one transaction writes the
  records of several;
* the **transactions** of MOT on versioned rows: snapshot reads, optimistic commit,
  and the garbage collection of versions;
* the **parallel recovery** of the disk engine, where the startup thread hands the
  records of the log to page workers and reports how far it is replayed.

Paths below are relative to `src/gausskernel/storage/mot/core` in the repository
unless they start with another directory. "The envelope" is the code's own word
for the rest of the server, which drives MOT through callbacks.

## Inventory

| Component | State | Operations | Talks to | What is hard | What makes it correct |
|---|---|---|---|---|---|
| Checkpoint manager (`system/checkpoint/checkpoint_manager.cpp`) | phase, two counters and the bit that tells which is current, the available bit, error flags, a reader-writer lock | `CreateSnapShot`, `SnapshotReady`, `BeginCheckpoint`, `Abort` (checkpointer thread); `BeginCommit`, `EndCommit`, `PreAllocStableRow`, `ApplyWrite`, `FreePreAllocStableRows` (committing threads) | envelope by callbacks, workers by a task queue, redo log and recovery manager by their locks | unlocked reads in `EndCommit`, counters that swap roles, a lock taken in one callback and released in another, a global swap of the meaning of a per-row bit | counters exact, cutoff and redo point quiescent, locks released, checkpoint ends |
| Checkpoint workers (`system/checkpoint/checkpoint_worker.cpp`) | task list, files, error | walk the primary index, write each row or its stable row | sentinels, under their locks | race with commits of three phases | image = database at the redo point |
| Transaction manager, OCC commit (`system/transaction`, `concurrency_control`) | access set, CSN, start phase | validate, prepare, commit, roll back, clean up | checkpoint manager, redo log, GC | failure half-way, two-phase commit | write sets applied atomically, first committer wins |
| Sentinels, rows, indexes (`storage`) | newest version, stable row, status bit, lock | lock, install a version | all of the above | lock-free readers | a snapshot read sees its CSN |
| Garbage collector (`memory/garbage_collector`) | epochs, limbo groups, reference counts | retire, reclaim | sessions, workers | a reader that enters as the epoch moves; two retirements of one row | nothing reachable is reclaimed |
| Redo log (`system/transaction_logger`) | buffers, groups, handler lock | write, flush, group commit | envelope's WAL | leader and followers of a group | a commit is acknowledged after its record is durable |
| Recovery (`system/recovery`) | checkpoint files, in-process transactions, CSN order | load, replay, commit | checkpoint manager's mutex | parallel replay | recovered = committed |
| Envelope's checkpointer and WAL (`process/postmaster/checkpointer.cpp`, `storage/access/transam/xlog.cpp`) | control file, redo point | `CreateCheckPoint`, error handler | MOT by callbacks | giving up between two callbacks | every callback sequence leaves MOT clean |
| Parallel recovery (`src/gausskernel/storage/access/transam/parallel_recovery`) | pending lists, bounded queues, transaction list, item reference counts, three progress positions per worker and one for all | dispatch, put, replay alone or together, scan progress, end | startup thread and page workers by queues and atomic variables; readers of the standby by the replay position | threads that wait for each other through full queues, items freed by the last to leave, progress read without locks | dependent records in order, the position never ahead, all replayed |
| Other parts of the disk engine, replication, thread pool, optimizer, executor, ... | | | | | listed one by one in `PROJECT.json` |

`PROJECT.json` lists all components, the ones not modelled with the reason, and
the hazards of the modelled code at the line where each bites.

## How the checkpoint works

MOT implements CALC ("checkpointing asynchronously using logical consistency")
in a variant. A checkpoint goes through five phases:

    REST -> PREPARE -> RESOLVE -> CAPTURE -> COMPLETE -> REST

A committing transaction notes the phase in which it begins to commit and counts
itself in the counter of that phase. In RESOLVE no commit may begin; when all
commits of PREPARE are over, the phase becomes CAPTURE with the redo log locked,
and the envelope takes the redo point: the **cutoff**. From then on a commit that
overwrites a row that is not captured yet first copies it to a stable row. The
workers write, for every row, the stable row if there is one and else the row.
A bit per row tells "available" (captured, or copied) from "not available"; when
all rows are available the two values swap their meanings in one assignment.

## Modules

| Module | What it is |
|---|---|
| `CheckpointPhaseEnum` | the enumeration of phases (`system/global.h`) |
| `CalcPhases` | abstract specification: phases, available bit, start phases of the commits, whether the redo log is locked. Nothing about how it is done |
| `CheckpointPhases` | the phase machine as it is coded: one action per step of the checkpointer thread and of a committing session between two accesses to shared state. Defines `ImplementsCalc`, the refinement mapping to `CalcPhases` |
| `CheckpointCapture` | rows: sentinels, stable rows, status bits, workers, garbage collection, redo log contents, the checkpoint on disk, crash and recovery. Extends `CalcPhases`, so every phase change in it is one that the phase machine is shown to make |
| `RedoLogHandler` | abstract specification: what `WriteToLog` of any redo log handler promises |
| `GroupRedoLog` | group commit as it is coded, the checkpoint's flush, and the end of `RecordTransactionCommit`. Defines `KeepsPromise`, the refinement mapping to `RedoLogHandler` |
| `ParallelRedo` | startup thread and page workers of parallel recovery |
| `MvccOcc` | sessions on version chains: lookups at both isolation levels, the optimistic commit step by step, epochs and reclamation of versions |
| `MCCheckpointPhases`, `MCCheckpointCapture`, `MCGroupRedoLog`, `MCParallelRedo`, `MCMvccOcc` | model values, logs and symmetry for TLC |
| `CheckpointPhasesProofs` | proofs about `CheckpointPhases` |
| `CheckpointCalcProofs` | proof that `CheckpointPhases` implements `CalcPhases` |
| `CheckpointCaptureProofs` | proofs about `CheckpointCapture` |
| `GroupRedoLogProofs` | proofs about `GroupRedoLog`, its refinement included |
| `MvccOccProofs` | proofs about `MvccOcc`: the optimistic commit and reads for update |
| `MvccGcProofs` | proofs about `MvccOcc`: snapshot reads and the collector |
| `ParallelRedoProofs` | proofs about `ParallelRedo`: the lists of the workers and the counts of shared items |
| `ParallelRedoOrderProofs` | proofs about `ParallelRedo`: the order of replay, the replay position, the life of the items, the end |

The composition is by refinement. `CheckpointPhases` has the counters, the locks
and the unlocked reads but no rows; `CheckpointCapture` has the rows but moves the
phases atomically, with the guards of `CalcPhases`. Theorem `CalcImplemented` is
the link: for every number of sessions, what the coded phase machine does is
allowed by `CalcPhases`.

### CheckpointPhases and the code

Variables carry the names of the members (`phase` is `m_phase`, `cntBit`
`m_cntBit`, ...); `ckpt` and `pc` are program counters. Grain of atomicity:

* `m_lock` is a spinning reader-writer lock (`infra/synchronization/rw_lock.cpp`).
  A section under it is one step. The exception is the move to CAPTURE, which
  waits inside the section for the redo log's lock: `redoLock = "wanted"`, and
  `m_lock` counts as taken (`MLockFree`) until `RedoWrLockGranted`.
* `EndCommit` after `RdUnlock` reads `m_cntBit`, the counter and the phase with no
  lock: three steps (`ReadCntBit`, `ReadCounter`, `ReadPhase`), then `MoveIfFirst`.
* `WriteToLog` takes and drops the redo lock for reading: two steps.
* The session's calls follow `TxnManager`: `ValidateCommit`, then `RecordCommit`
  or the envelope's abort; or `Prepare`, then `CommitPrepared` or
  `RollbackPrepared` (which logs after `EndCommit`, as the code does).
* An error of a callback is a PANIC in the envelope: `Restart`.
* `Abort(at)`: `"skip"` is the early return of `CreateCheckPoint` on an idle
  system; `"guts"` the checkpointer's error handler after a failed buffer flush.

`MayLap` is an explicit switch. With `TRUE` the model is the code as written. With
`FALSE` no session is suspended in the few instructions of `EndCommit`'s unlocked
tail for as long as a whole checkpoint, until the phase is again the one it read.
All positive results on phases are under `MayLap = FALSE`; run `endcommit_stall`
shows what happens without.

### CheckpointCapture and the code

A commit is `BeginCommit`, `ValidateOcc` (locks the sentinels, pre-allocates the
stable rows), `LogCommit`, `WriteChanges` (with `ApplyWrite` for each access),
`EndCommit`, `EndTransaction` (releases the locks). Each is one step because the
commit holds the locks of all its sentinels from the first to the last and the
workers take the same lock for a row; what other sessions and workers can see in
between are exactly the states between the steps. The worker's `Checkpoint` is
one step under the row's lock.

Data are abstract: keys and row contents are model values; `NoRow` and
`Tombstone` stand for a null pointer and for the version that a delete installs.
The redo log is kept as what it says: `logged` (contents after the whole log),
`since` (keys with a record after the current redo point) and, with the completed
checkpoint, `disk.since`. Replay of full-row records from the redo point then
gives `Recovered`. `cut` is a history variable: the contents as of the redo point.

`LateFailure` and `AbortCapture` switch on two paths of the code which lead to
the findings below, so that the other properties can be shown without them.
`aborted` is a history variable: a checkpoint was given up between redo point and
capture. `RecoveryExact`, `ImageIsCut`, `NoCalcError` and `NoStableLeft` are stated
up to that moment; `RecoveredIsLogged` is `RecoveryExact` without the exception.

### GroupRedoLog and the code

A call of `WriteToLog` makes a `CommitGroup` before it knows whether it will lead
it, so a group is named by the call that made it. Grain of atomicity: each access
to `m_currentGroup`, to an atomic counter or under a mutex is a step of its own.

* `TryLead` is the compare-exchange; when it fails it leaves the group it saw in
  `nullGroup` (`expected`), with which the next try compares. That is how a retry
  can replace an open group; `OpenGroupLed` shows that it does no harm.
* `AddToGroup`, `UndoAdd`, `FillSlot`: the count is raised before the slot is
  filled, under the group's lock for reading (`readers`), which the leader takes
  for writing to close the group.
* `m_commitMutex` and `m_fullGroupMutex` are the control states of their holders
  (`CommitMutexFree`; `"closing"`). A wait on a condition variable is a control
  state that a notification or the timeout ends.
* `Start`, `RecordCommit` and `Acknowledge` include what `RecordTransactionCommit` does
  around the MOT callback: whether a thread waits for the disk depends on whether it
  inserted a record itself (`inserted`, for `XactLastRecEnd`). With `wal_level` at
  `hot_standby` or above, the shipped setting, every committing thread does so before
  the callback (`XLogInsertStandbyCSNCommitting`); with `minimal` or `archive`, or in
  an `SS_SINGLE_CLUSTER`, only the leader of a group does. `standbyInfo` tells the two
  apart, and `StandbyModes` says which of them are looked at.
* The group size and the timeout do not change while the engine runs.

### ParallelRedo and the code

A record is its position in the log; `Record` says what matters of the resource
managers' dispatch functions: which page workers get an item, whether the startup
thread has one in its list, whether a full sync follows. `Read(n) = n` and
`End(n) = n + 1` are the two log positions of a record.

* The startup thread is one control state (`dpc`) with return addresses for the
  two functions it calls from many places, `ProcessPendingRecords` (`after`) and
  `ApplyReadyTxnLogRecords` (`ret`).
* A page worker takes the list at the head of its queue and removes it only when
  it is done with it (`Fetch`, `Pop`), which is what makes an empty queue mean an
  idle worker. Its steps on a shared record are arrival (`Reach`), its own part
  (`Publish`), and `Leave`; on a record of its own one step, since nobody else
  looks at the item.
* A scan over all workers' positions is one step. The positions only grow and only
  the startup thread, which scans, fills a queue: a worker that is seen late only
  makes the scan more cautious, and one that was seen idle stays idle.
* Positions are kept in pairs, the start and the end of a record: of the last one
  dispatched, of the last one each worker has completed, and of the last one replayed
  (`dispatchRead`, `completedRead`, `lastRead` are the starts). `SetXLogReplayRecPtr`
  compares the end it is given with the start that was stored, and stores both unseen,
  so that only callers who give it the two ends of one record keep the position from
  moving back (`ReplayMonotone`). Recovery begins with the redo point in both places,
  or with the two ends of a shutdown checkpoint (`Init`).
* Waits that the code gives up with a PANIC after `OUTPUT_WAIT_COUNT` rounds are
  waits; `AllReplayed` shows that they end, with the exception below.
* `SPSCBlockingQueuePut` is one step that succeeds or finds the queue full. The
  control state after a failed put is `"apply"`; before the next try the queue may
  have emptied (`Drained`). The constant `Drains` says in which modes such a round
  is followed to its end; `ahead` is a history variable: such a round has reported
  a position, and `ReplayedIsTruth` is stated up to that moment. In batch mode
  (`enable_batch_dispatch`, off by default) a drained round can also let the startup
  thread start a shared record whose page item is still pending, after
  `DealWithSegpageSyncRecord` has moved the transaction items first: TLC then finds
  both waiting (log: a blocking record and a shared one of worker 2, then a
  segment-page record). The code would PANIC there. The passing run has
  `Drains = {FALSE}`.
* `moved` is the last record before `CheckDispatchCount` spread the pages anew;
  what follows may touch the same pages on other workers, so that it must not
  overtake (`Barrier`).

### MvccOcc and the code

`chain[k]` is what the primary sentinel of a key leads to, newest version first; a
version is its CSN and whether it is a tombstone. `startCSN`, `dirty`, `lock` and
`writeBit` are the other fields of the sentinel. A session runs one transaction
after the other.

* The envelope takes the snapshot (`StartTransaction`, `StartStatement`): per
  transaction under repeatable read, per statement under read committed. The first
  access publishes it as the session's epoch (`SetSnapshot`).
* A lookup is cut where it reads the sentinel again: `RowLookup`, then
  `GetVisibleRowVersion`; or `GetVisiblePrimaryHeader`, `TopRow`,
  `GetVisibleRowForUpdate`. A spinning loop is a guard (`CommitCycleSeen`,
  `UpdateCycleSeen`): some look of the loop sees it true, and what is done then is
  part of the step. An update or delete follows its lookup in the same statement, so
  the access becomes `WR` at once and `DEL` by `DeleteLastRow`.
* `TryLock` is one round of the loop of `LockHeaders`; the last includes
  `ValidateWriteSet`, which nobody can disturb since all locks are held. Whether
  `LOCK_TIME_OUT` has passed, the client rolls back or memory is short is a choice
  (`MayEnd`).
* `SetCommitCsn` is the envelope's, between validation and `RecordCommit`. The two
  loops of `WriteChanges` then take one step per access.
* `EndTransaction` includes the retirement of versions (`GcMaintenance`) and the entry
  to `RunQuicese` with the clock as epoch. `MinActiveEpoch` reads one other manager per
  step. The session's own epoch stands in `bound` from the start; it is never 0 there,
  so the case of no active manager does not occur.
* `RowVersionDtor` cuts a chain in one step: it holds `gcInfo`'s lock, and readers of
  what it cuts are what `HeldRowsLive` and `ReadIsSnapshot` are about. Whether an element
  that is not on top is skipped depends on a count: a choice. One whose `TryLock` may
  fail, because another session is about to cut the same chain (`Contended`), may be
  skipped too.

`hist` is a history variable, all committed versions of a key from the moment their CSN
is given out, with which the properties compare. `late` and `hasty` mark the two
cases in which the code does not give a snapshot read:

* *late*: a collection passed the session after its snapshot was taken and before it
  was published. Versions that the snapshot needs are gone, and a row that was there
  before and after reads as absent.
* *hasty*: a transaction that has written something looks up a key whose first insert
  is being installed with a CSN below the snapshot. `AccessLookup` finds the sentinel
  uncommitted and gives up, where a transaction without writes would wait.

`ReadIsSnapshot` is stated without these; leaving out either exception makes TLC find
the case in seconds. `UpdateIsSnapshot` has a third: a row that was deleted and
inserted again since the snapshot is not found by an update under repeatable read,
where one that was only deleted or updated makes the transaction fail.

## Runs

| Run | Instance | Shows |
|---|---|---|
| `phases` | 2 sessions, aborts at `"guts"`, with fairness | `CountersExact`, `CutoffDrained`, `RedoPointQuiescent`, `OnlyCheckpointerStarts`, `LocksReleased`, `SwapWhenDrained`, `ImplementsCalc`, `CheckpointEnds`, `ResolveEnds` |
| `capture` | 3 sessions, 1 key, 2 values, aborts after the redo point | `ImageIsCut`, `RecoveryExact`, `NoCalcError`, `NoStableLeft`, `PreAllocUnderLock` |
| `capture_two_keys` | 2 sessions, 2 keys, 1 value, late failures | `ImageIsCut`, `RecoveryExact`: no write set is torn, leaked stable rows or not |
| `group_redo_log` | 3 transactions, groups of 2, with and without standby records, with fairness | `SlotsFilled`, `OpenGroupLed`, `AckIsDurable`, `KeepsPromise`, `CallEnds`, `FullGroupCommits` |
| `parallel_redo` | 2 page workers, queues of 1 list, logs of 3 records, both modes, with fairness | `RedoInOrder`, `BlockIsBarrier`, `ReplayedIsTruth`, `ItemLifetime`, `FinishComplete`, `ReplayMonotone`, `AllReplayed` |
| `mvcc_occ` | 2 sessions; 2 keys (a row, and none) and 1 commit, or 1 key (a row or a deleted one) and 2 commits | `ReadIsSnapshot`, `UpdateIsSnapshot`, `NoLostUpdate`, `HeldRowsLive` |
| `endcommit_stall` | `MayLap = TRUE` | violates `OnlyCheckpointerStarts` |
| `skipped_checkpoint` | abort at `"skip"` | violates `LocksReleased` |
| `aborted_checkpoint` | aborts after the redo point | violates `RecoveredIsLogged` |
| `leaked_stable_row` | late failures | violates `NoCalcError` |
| `group_member_ack` | 2 transactions, groups of 2, no standby records (`wal_level` minimal or archive) | violates `AckedIsDurable` |
| `recovery_target` | batch mode, recovery target | violates `FinishComplete` |

Every passing run but `capture_two_keys` also checks the type invariant.

Bounds of the checkpoint runs. None bounds the number of commits, checkpoints or
crashes: the state spaces are finite as they are. Two sessions suffice for the
phase machine's races (one in a counter of each phase, and one overtaking the
other), and the theorems remove the bound. `CounterModulus = 8` stands for 2^32;
the assumption used is only that it exceeds the number of sessions. Rows interact
only through the atomicity of a write set, so one key with three sessions (commits
begun in CAPTURE, COMPLETE and REST at once, the row locked by one of them) and two
keys with two sessions are the two instances. Two values tell an old row from a
new one; with two keys one value is enough to tell a row from none.

Bounds of the others. Three transactions fill a group of two and leave one that
finds it full, retries and may replace an open group; each writes once. The
theorems about group commit remove these bounds. Handlers of different NUMA nodes
share nothing but the log, so the runs have one node. In `ParallelRedo` a log of
three records holds what a worker or the startup thread waits for, what it meets
meanwhile, and what may overtake; `MixedLogs` has the combinations of all kinds of
records in which they share a worker or wait for each other. Queues of one list
are full at the second put, and with one worker free, one blocked and the startup
thread putting, all mutual waits occur. `SpreadAt = 2` lets the pages be spread
anew once, after the second record.

In `MvccOcc` two keys are needed for a write set that is installed in parts and for a
transaction that has written one key when it reads another; two commits on one key for
a conflict, a delete followed by an insert, and chains of three versions of which
two are reclaimed. The clock is bounded by `MaxCsn`; a session that cannot commit any
more still reads, validates and aborts, so that `NoLostUpdate`, stated from the
validation on, is tested against one commit more than the bound lets through. The
number of transactions is not bounded. Initial states are tables with committed rows,
the clock being moved on by other tables.

Symmetry is over sessions, keys and values in the capture runs, over sessions in
`mvcc_occ`, none where liveness is checked. Deadlock is checked in all passing runs;
recovery that is over stutters (`Done`).

Fairness. `phases`: weak fairness of the checkpointer thread's steps, of the grant
of the redo lock, and of each session's steps once it has begun to commit. The
code's waits are all polling loops (`usleep` or spinning) whose conditions, once
true, stay true until the waiting thread acts, so weak fairness of the scheduler
is enough. It includes that the envelope goes on to the next callback and that it
finishes a prepared transaction, which it promises and MOT relies on: a prepared
transaction that is never finished keeps every checkpoint in RESOLVE and every
commit waiting. Nothing forces a commit, a checkpoint or an error to happen.
`group_redo_log`: weak fairness of each call's steps and of the WAL writer. That a
timeout expires is an assumption of `CallEnds` only (`ClockRuns`); `FullGroupCommits`
does without. `parallel_redo`: weak fairness of the startup thread and of each
page worker; the waits of both are busy loops. The startup thread may go on
waiting for the next record for ever: nothing forces the log to end.

## Findings

1. `endcommit_stall`. The comparison in `EndCommit` of the phase with the one read
   before does not show that nobody moved it in between: a whole checkpoint may
   have passed. Needs a session that is suspended for the length of a checkpoint
   between two instructions.
2. `skipped_checkpoint`. `Abort` does not unlock the recovery manager's mutex,
   which `CreateSnapShot` has locked.
3. `aborted_checkpoint`. `Abort` after the redo point swaps the meaning of the
   status bit although nothing was captured; the next checkpoint leaves out the
   rows that were not written to in between.
4. `leaked_stable_row`. A validation that fails after `PreAllocStableRow`, or an
   envelope's abort of a validated transaction, leaves the stable rows behind; the
   worker treats one that is still there as a logic error.

5. `group_member_ack`. With `wal_level` minimal or archive (`hot_standby` off), or in
   an `SS_SINGLE_CLUSTER`, the members of a commit group other than its leader are
   acknowledged without a wait for the disk: `RecordTransactionCommit` looks at
   whether its own thread inserted a record, and the leader's did. With the shipped
   `wal_level = hot_standby` the standby record that each thread inserts makes it wait;
   that is `AckIsDurable`.
6. `recovery_target`. With `enable_batch_dispatch`, recovery that stops at a target
   leaves the batch that is pending unreplayed: only the exit of the redo loop
   through the end of the log puts pending lists into the queues.

`PROJECT.json` quotes the lines of the code and its comments. Three more deviations
are excepted from the properties and noted with their hazards rather than shown by
a run of their own: *late* and *hasty* above, and the drained queue of parallel
recovery. There the workers may run dry while the startup thread works off the
transaction list between two tries to put a record; the replay position then passes
the record that is still to be put (`NeverAhead`, which `ReplayedIsTruth` asks for
until then).


## Proofs

For every finite set of sessions, counter width above their number, and abort
points (`TxnFinite`, `CounterWidth`, `AbortPointsAssumption`, `MayLapAssumption`
in `CheckpointPhases`):

| Theorem | States | Assumes besides |
|---|---|---|
| `TypeCorrect` | `Spec => []TypeOK` | |
| `CountersCorrect` | `Spec => []CountersExact` | `~MayLap` |
| `CutoffCorrect` | `Spec => []CutoffDrained` | `~MayLap` |
| `RedoPointCorrect` | `Spec => []RedoPointQuiescent` | `~MayLap` |
| `StarterCorrect` | `Spec => []OnlyCheckpointerStarts` | `~MayLap` |
| `LocksCorrect` | `Spec => []LocksReleased` | `~MayLap`, no skipped checkpoint |
| `SwapCorrect` | `Spec => SwapWhenDrained` | `~MayLap` |
| `CalcImplemented` | `Spec => ImplementsCalc` | `~MayLap` |

None of the properties is inductive. `PhaseInv` is: with the type invariant and
`CountersExact` it says

* `CheckpointerPhase`: the phase at every control state of the checkpointer. While
  it waits for RESOLVE the phase is PREPARE or RESOLVE; everywhere else it is
  determined;
* `WaitedFor`: between a wait and the move that follows it, the previous phase is
  drained. Nobody can join it: commits join the current phase only;
* `SessionRegistered`: a session is registered exactly at the control states from
  `BeginCommit` to `EndCommit`;
* `TailFresh`: a session in `EndCommit`'s tail whose remembered phase is still
  the current one has read nothing stale; if it gets as far as moving the phase,
  the move is the one from PREPARE to RESOLVE, with REST drained. This is where
  `~MayLap` is used;
* `RedoLocked`: who holds the redo lock in which phase.

The arithmetic of the counters reduces to cardinalities of the sets of registered
sessions (`SubsetCardinality` and the lemmas after it). `LocksCorrect` adds the
invariant `MutexHeld`. `CalcImplemented` shows that the initial state maps to
`CalcInit` and, with one lemma for the checkpointer's and one for the session's
actions, that each step maps to an action of `CalcPhases` or leaves its variables
alone; the guards of `CalcPhases` (`Drained(p)`) come from `PhaseInv` through
`DrainedMapping`.

`GroupRedoLogProofs` proves, for every set of transactions and nodes and every group
size of at least one, with and without standby records (`SizeAssumption`,
`NoGroupAssumption`, `ModesAssumption` in `GroupRedoLog`):

| Theorem | States |
|---|---|
| `TypeCorrect` | `Spec => []TypeOK` |
| `GroupIsFilled` | `Spec => []SlotsFilled` |
| `OpenGroupIsLed` | `Spec => []OpenGroupLed` |
| `AcknowledgedIsDurable` | `Spec => []AckIsDurable` |
| `GroupImplementsHandler` | `Spec => KeepsPromise` |

The inductive invariant `IInv` adds to the type invariant

* `RoleInv`: who leads and who is a member at which control state, when a group is
  closed, and that the group in a handler is led and open;
* `ReaderInv`: the readers of a group's lock are the calls between the raising of
  the count and the end of `AddToGroup`, none once the group is closed;
* `SizeInv`: the count exceeds the capacity by exactly the calls that are about to
  take their increment back;
* `SeatInv`: each slot below the count is filled, or being filled by one call, and
  a transaction in a slot is seated there;
* `LogInv`: what is logged is exactly what lies below the leader's position;
* `LsnInv`: the order of positions in the log, and that the leader, and with standby
  records everyone, has inserted a record by itself before it decides whether to wait.

The proof first reduces the actions to their effects call by call and group by
group (`MoveE` .. `NotifyE`), then shows each part of `IInv` from the effects.

`CheckpointCaptureProofs` proves, for any sets of sessions, keys and contents of rows:

| Theorem | States | Assumes besides |
|---|---|---|
| `TypeCorrect` | `Spec => []TypeOK` | |
| `CaptureExact` | `Spec => []ImageIsCut` | |
| `RecoveryCorrect` | `Spec => []RecoveryExact` | |
| `StableRowsGone` | `Spec => []NoStableLeft` | |
| `RecoveryWithoutAborts` | `Spec => []RecoveredIsLogged` | `~AbortCapture` |
| `PreAllocCorrect` | `Spec => []PreAllocUnderLock` | `~LateFailure` |
| `CalcErrorFree` | `Spec => []NoCalcError` | `~LateFailure` |

The first four hold with late failures and aborted checkpoints; what an abort breaks is
excepted in the properties by the history variable `aborted`. The last three are the
counterparts of the findings: each of the two switches is what its violation needs.
The inductive invariant `IInv` has, besides the types and the exclusion of locks
(`SessionInv`),

* `PhaseInv`, `StartInv`: the phase at every step of the checkpoint, the phases in
  which the commits under way began, and the bit that a late commit of COMPLETE saw;
* `ValidatedInv`: what a commit has validated is still so when it writes;
* `KeyInv`, key by key: the redo log is ahead of the installed row by at most the one
  commit that holds the key (`LoggedOf`); before the worker's visit the row of the
  cutoff is the stable row if the key is available and else the row itself
  (`UnvisitedOf`); after it the image has the row of the cutoff and the key is available
  (`VisitedOf`); between checkpoints no key is available (`RestingOf`), which is what
  the swap of the bit's meaning turns the former into.

`StrictInv` adds that a pre-allocated stable row belongs to a commit that is about to
replace the row, which late failures break.

`MvccOccProofs` and `MvccGcProofs` prove, for any sessions, initial tables and bound of
the clock (`StoresAssumption`, `MaxCsnAssumption`, `NoTxnAssumption`):

| Theorem | States |
|---|---|
| `TypeCorrect` | `Spec => []TypeOK` |
| `LostUpdateFree` | `Spec => []NoLostUpdate` |
| `UpdateFromSnapshot` | `Spec => []UpdateIsSnapshot` |
| `ReadFromSnapshot` | `Spec => []ReadIsSnapshot` |
| `HeldRowsStay` | `Spec => []HeldRowsLive` |

A commit is in the history from the moment it has its CSN and installs its versions
later, key by key, so the invariants speak of the versions that are *pending*: in the
history, and yet to be linked by the holder of the lock. `OccInv` says of each key that
chain and history without the pending version (`Installed`) have the same newest
version and that a pending one is newer than all that is known of the key
(`StoreInv`); of each session what it has set at which control state (`ShapeInv`),
which locks it holds (`LockInv`), that the holder of a key it has accessed has a newer
CSN (`AccessInv`), that what it replaces is what it read (`CommitInv`), and that
a lookup which has seen a top row still sees it or what is pending is beyond its
snapshot (`FetchInv`): that is why the wait for a commit cycle is enough.

`GcInv` is about the collector. It *spares* a CSN for a session if no bound is above it,
neither the global epoch nor that of a session that reclaims or of a scan that
has passed the session (`Spares`). `EpochInv`: the collector spares the snapshot of
every session that is not late. It is inductive because a scan starts from an epoch no
newer than the clock and takes in the epoch of each session it passes; a session that
it finds without epoch but with a snapshot becomes late. `ChainInv`: every snapshot in
use, or yet to be taken, sees the same in the chain as in the installed history.
`HeldInv` and `ReadInv`: above a version in a session's hands, in the chain or
pending, there are only versions whose CSN is spared, so that no cut is made above it.
Both invariants were checked by TLC on the instances of run `mvcc_occ` first.

`ParallelRedoProofs` and `ParallelRedoOrderProofs` prove, for any number of page
workers, length of queues and log (`RedoAssumption`):

| Theorem | States | Assumes besides |
|---|---|---|
| `TypeCorrect` | `Spec => []TypeOK` | |
| `ReplayNeverBack` | `Spec => ReplayMonotone` | |
| `InOrder` | `Spec => []RedoInOrder` | `Unbroken` |
| `BlockHolds` | `Spec => []BlockIsBarrier` | `Unbroken` |
| `ReplayedTruth` | `Spec => []ReplayedIsTruth` | `Unbroken` |
| `OneAhead` | where `ReplayedIsTruth` makes its exception, the position is ahead by one record | `Unbroken` |
| `ItemsLive` | `Spec => []ItemLifetime` | `Unbroken` |
| `FinishedComplete` | `Spec => []FinishComplete` | `Unbroken` |

`Unbroken` says that in batch mode recovery does not stop at a target and no round is
followed in which the queue has emptied since a failed put (`TRUE` is neither in
`Targets` nor in `Drains`); the default mode is not restricted. It is what run
`parallel_redo` is given. `FinishedComplete` is false without the first half (run
`recovery_target`), `ReplayedTruth` without either half (TLC, on the logs of
`MCParallelRedo`). On those logs TLC finds no violation of the other properties without
`Unbroken`; their proofs go through the same invariant and assume it too.

`RedoInv` needs no such assumption. The lists that a record passes on its way to a worker
(pending, queue, rest) are each in the order of the log, and so are they one after
the other; together they hold exactly the records meant for the worker that come after
its item (`ListInv`). Hence the item a worker fetched last is all of its progress:
it is through with an earlier record, and has every later one before it. `CountInv` says
that a shared item's `refCount` counts the threads between arrival and departure.
`PairInv` says that each pair of positions is of one record. `ReplayNeverBack` needs it:
by the guard of `SetXLogReplayRecPtr` alone a start that lags behind its end would let a
smaller end pass later. It goes through the progress scan, which must hand on the start
of the same worker whose end is the least (`ReplayedPair`), or the dispatcher's pair.

`OrderedInv` adds what the startup thread relies on. `FlushInv`: at the points where it
waits for everything nothing is pending. `GivenInv`, `ProcInv` and `LastInv`: what is
pending comes after what the workers were given, or, amid the puts of one batch, after
what the workers with something pending were given; so a worker that is left out
of the progress scan because its queue is empty has nothing before the head of the
transaction list. That makes the scan's answer true (`Cleared`), and is where a drained
round in batch mode would break it. `RecordInv` says for each record who must have
passed it when it is replayed, released and freed; that an item is freed exactly when
all are through with it (`FreedInv`); and that a record was replayed after everything
before it or by workers that have come as far (`OrderInv`). `BarrierInv`, `StopInv` and
`ReplayInv` are about barriers, the end, and the position. The steps depend on each
other: a page worker leaves a "block" record by the position, the position is true by
what the workers have passed.

TLC checked the parts of both invariants on the logs of `MCParallelRedo` first, except
`LastInv`, which quantifies over everything.

Checked by TLC only: liveness, which needs fairness.

## What is left out

* DDL, secondary indexes, sub-transactions, the "lite" paths of DDL-only
  transactions, and the configuration without redo log or checkpoint.
* The standby of MOT, whose replay threads may begin a commit in RESOLVE and whose
  checkpoint takes its redo point differently.
* In the checkpoint, versions that older snapshots read: a row is its newest version.
* `MvccOcc`: secondary indexes, the delete of the transaction's own insert, SELECT FOR
  UPDATE, the configuration that waits for header locks, and prepared transactions; of
  the garbage collector the queues other than the one for versions, hence the removal
  of a deleted key's sentinel with its reference counts: a deleted key keeps its
  tombstone.
* In the checkpoint, redo records that are acknowledged before they are durable
  (asynchronous commit), and records that could not be serialised.
* Files: the removal of old checkpoints, map and metadata files, torn writes. A
  checkpoint is on disk, with its redo point, in one step: the update of the
  control files.
* Group commit: reconfiguration while the engine runs, and the reference counts of
  the shared pointers to groups.
* Parallel recovery: the undo workers of ustore and records with a designated page
  worker, the limit of the pool of items, restart points, the clean-up, close and
  terminate marks, the repair of pages, and what the replay of a record does. That
  two records which touch a page go to a common worker is the worker sets of
  `Record`, not the hash that computes them.
* Memory order below C++ sequential consistency. The unlocked reads of `EndCommit`
  are of `volatile` and atomic members; the queue of parallel recovery has a
  barrier on both sides.
* All other components: see `PROJECT.json`. Query processing, file formats,
  networking and the tools have no protocol that a model checker would reach.

## Plan

In order of importance:

1. **Done**: phase machine, abstract phases, refinement, row capture, recovery
   outcome; group commit with its abstract handler; parallel recovery; transactions
   on versions with their collection; proofs of the safety properties of all five.
2. `ParallelRedo`: `InOrder`, `BlockHolds` and `ItemsLive` without `Unbroken`, from an
   invariant that lets a drained round report too far.
3. `MvccOcc`: an abstract specification (committed write sets form a sequence in CSN
   order and every snapshot is a prefix of it) and the refinement.
4. The removal of sentinels: delete and generic queues, reference counts, and the
   retirement of a tombstone by both a transaction and a worker.
5. `MtlsRecovery`: parallel replay, commit in CSN order, two-phase transactions in
   the pending-recovery file; refines the `Recovered` step.
6. Outside MOT: extreme RTO, the double-write file, the hand-over of sessions in
   the thread pool.

## Running

In this directory:

    tlc -workers 2 -config CheckpointPhases.cfg MCCheckpointPhases
    tlc -workers 2 -config ParallelRedo.cfg MCParallelRedo
    tlapm CheckpointPhasesProofs.tla
    tlapm MvccGcProofs.tla
    tlapm ParallelRedoOrderProofs.tla

CONSTANTS
    NumWorkers = 2
    QueueSize = 1
    MaxLsn = 3
    SpreadAt = 2
    Records <- MixedLogs
    Modes = {TRUE, FALSE}
    Targets = {FALSE}
    Drains = {FALSE}
SPECIFICATION FairSpec
INVARIANTS TypeOK RedoInOrder BlockIsBarrier ReplayedIsTruth ItemLifetime FinishComplete
PROPERTIES ReplayMonotone AllReplayed

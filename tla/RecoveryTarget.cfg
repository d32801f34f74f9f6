CONSTANTS
    NumWorkers = 2
    QueueSize = 1
    MaxLsn = 3
    SpreadAt = 2
    Records <- MixedLogs
    Modes = {TRUE}
    Targets = {TRUE}
    Drains = {}
SPECIFICATION Spec
INVARIANT FinishComplete

\* Two jobs at one terminal, under fair scheduling; two pending jobs make the queue large.
CONSTANTS
    j1 = j1
    j2 = j2
    Jobs = {j1, j2}
    Settle = 2
    EnrolEvery = 1
    EnrolMost = 1
    StampEvery = 1
    Cooldown = 1
    MaxRetries = 2
    PauseBase = 1
    PauseMost = 1
    Many = 2
    MaxAge = 2
    ClearEvery = 1
    LongSleep = 1
    OtherAgents = TRUE
    MaxEvents = 1
SPECIFICATION FairSpec
INVARIANTS SyncedIsWritten
PROPERTIES Apart QueueMoves

SPECIFICATION FairSpec
CONSTANTS
    j1 = j1
    j2 = j2
    j3 = j3
    w1 = w1
    w2 = w2
    none = none
    None = none
    Worker <- TwoWorkers
    Job <- Jobs3
    Abortable <- TwoAbortable
    MaxInits = 2
CHECK_DEADLOCK FALSE
INVARIANTS QueueIntact OneWorkerPerJob CompleteAfterShutdown AbortsReach
PROPERTIES AbortSticks ShutdownReturns JobEnds

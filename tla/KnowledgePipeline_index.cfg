CONSTANTS
    d1 = d1
    w1 = w1
    Docs = {d1}
    Workers = {w1}
    MaxAttempts = 2
    Classifier = FALSE
    MaxAsks = 1
    MaxFaults = 2
    Hazards = {"extract", "ingest", "project", "elsewhere", "progress", "reload", "crash"}
SPECIFICATION FairSpec
CHECK_DEADLOCK FALSE
INVARIANTS
    TypeOK
    LiveIsIndexed
    DeletedIsUnindexed
    PurgedIsUnindexed
    ExtractedIsQueued
    OnlyStopsStrand
    TaskEnds
PROPERTY PipelineDrains

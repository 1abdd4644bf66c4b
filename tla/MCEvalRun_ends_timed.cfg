SPECIFICATION FairSpec
CONSTANTS
    c1 = c1
    c2 = c2
    s1 = s1
    s2 = s2
    r1 = r1
    r2 = r2
    None = None
    Cases = {c1, c2}
    Scorers = {s1}
    RunIds = {r1}
    RetryAttempts = 2
    ScorerSeq <- OneScorer
    SyncSteps <- SyncScorer
    MaxConcurrency = 2
    PoolSize = 1
    Timed = TRUE
    OwnLoop = TRUE
    MayAbort = FALSE
    MaxInterrupts = 1
    MaxOldOrphans = 1
PROPERTIES
    EvaluationEnds

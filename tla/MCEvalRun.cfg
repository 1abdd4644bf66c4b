SPECIFICATION Spec
CONSTANTS
    c1 = c1
    c2 = c2
    s1 = s1
    s2 = s2
    r1 = r1
    r2 = r2
    None = None
    Cases = {c1, c2}
    Scorers = {s1, s2}
    RunIds = {r1, r2}
    RetryAttempts = 2
    ScorerSeq <- TwoScorers
    SyncSteps <- AllSync
    MaxConcurrency = 2
    PoolSize = 1
    Timed = TRUE
    OwnLoop = FALSE
    MayAbort = TRUE
    MaxInterrupts = 1
    MaxOldOrphans = 0
SYMMETRY Symmetries
INVARIANTS
    IInv
    NoSilentLoss
    ErroredRowHasNoScores
    CompletionIsExact
    TotalsNotInflated
    StatusIsHonest
    OpenRunIsTold
    OneRun
    NoStaleCall
PROPERTIES
    KeepsContract

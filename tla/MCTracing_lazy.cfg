SPECIFICATION Spec
CONSTANTS
    t1 = t1
    t2 = t2
    s1 = s1
    s2 = s2
    s3 = s3
    Threads = {t1, t2}
    Spans = {s1}
    MaxClients = 2
    MaxRedacts = 3
    MaxLocals = 2
    Startup = FALSE
INVARIANTS
    RedactApplies
CHECK_DEADLOCK FALSE

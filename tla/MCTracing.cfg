SPECIFICATION Spec
CONSTANTS
    t1 = t1
    t2 = t2
    s1 = s1
    s2 = s2
    s3 = s3
    Threads = {t1, t2}
    Spans = {s1,s2,s3}
    MaxClients = 2
    MaxRedacts = 3
    MaxLocals = 2
    Startup = TRUE
SYMMETRY TracingSymmetry
INVARIANTS
    ExportedOnce
    RedactApplies
    LocalStaysLocal
CHECK_DEADLOCK FALSE

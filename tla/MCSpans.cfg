\* Two tasks, of which the spawned one runs judges, with three spans, a path map of one
\* entry and one integration that may be installed.
SPECIFICATION Spec
CONSTANTS
    Tasks = {t1, t2}
    Main = t1
    MaxSpans = 3
    PathMapMax = 1
    Judges = {t2}
    Requested = {"openai"}
    Capitals <- LowerCase
    SetUpFirst = TRUE
INVARIANTS
    PathIsAncestry
    OneLlmSpan
    PricedOnce
PROPERTIES
    EverySpanEnds
CHECK_DEADLOCK FALSE

SPECIFICATION Spec
CONSTANTS
    c1 = c1
    c2 = c2
    None = None
    Evaluations = 3
    Cases = {c1, c2}
    MaxSignals = 2
SYMMETRY CaseSymmetry
INVARIANTS
    EventsFollowProtocol
    AnnouncedIsOnDisk
    GreenIsCompleted
    HonestExit
    InterruptStopsSuite
CHECK_DEADLOCK FALSE

SPECIFICATION Spec
CONSTANTS
    c1 = c1
    c2 = c2
    None = None
    Evaluations = 2
    Cases = {c1, c2}
    MaxSignals = 2
INVARIANTS
    InterruptedExitsNonzero
CHECK_DEADLOCK FALSE

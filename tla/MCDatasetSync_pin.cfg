SPECIFICATION Spec
CONSTANTS
    i1 = i1
    v1 = v1
    v2 = v2
    n1 = n1
    n2 = n2
    None = None
    Inputs = {i1}
    MaxOccurrence = 1
    Values = {v1, v2}
    Names = {n1}
    MaxVersions = 2
    MayReload = FALSE
SYMMETRY DataSymmetry
INVARIANTS
    RunPinsWhatItScored

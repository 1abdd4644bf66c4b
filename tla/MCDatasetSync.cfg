SPECIFICATION Spec
CONSTANTS
    i1 = i1
    v1 = v1
    v2 = v2
    n1 = n1
    n2 = n2
    None = None
    Inputs = {i1}
    MaxOccurrence = 1
    Values = {v1}
    Names = {n1, n2}
    MaxVersions = 3
    MayReload = TRUE
SYMMETRY DataSymmetry
INVARIANTS
    DeclineTouchesNothing
    RememberedRunPinsWhatItScored
PROPERTIES
    NoLostUpdate
    UploadedHoldsSnapshot
    NoIdleVersion
    UploadedIsNamed
    KeepsCopy

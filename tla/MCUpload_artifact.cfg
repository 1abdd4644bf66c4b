SPECIFICATION Spec
CONSTANTS
    c1 = c1
    c2 = c2
    r1 = r1
    r2 = r2
    None = None
    Cases = {c1, c2}
    Scorers <- Metrics
    RunIds = {r1, r2}
    RetryAttempts = 2
    CaseSeq <- TwoCases
    RowChoices <- Rows_
    SpecChoices <- Specs_
    FromRunner = TRUE
SYMMETRY KeySymmetry
PROPERTIES
    UploadIsIdempotent

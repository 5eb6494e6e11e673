SPECIFICATION PipelineSpec
CHECK_DEADLOCK FALSE
CONSTANTS
    b1 = b1
    b2 = b2
    d1 = d1
    l1 = l1
    g1 = g1
    g2 = g2
    NoItem = NoItem
    Batch = {b1, b2}
    Digest = {d1}
    Location = {l1}
    Generation = {g1, g2}
    GenerationId <- MCGenerationId
    Call = {c1, c2}
    Report <- MCReports
    MaxAttempt = 5
    Execution = {e1, e2}
    Input <- MCInput
    Tables = 1
    MaxRetry = 1
    MaxLost = 2
    MaxStop = 0
    MaxRaise = 0
SYMMETRY MCSymmetry
INVARIANTS
    SuccessSucceedsItsBase
    OneBusinessEffect
PROPERTIES
    ImplementsControlPlane

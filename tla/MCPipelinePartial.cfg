SPECIFICATION PipelineSpec
CHECK_DEADLOCK FALSE
CONSTANTS
    b1 = b1
    b2 = b2
    d1 = d1
    l1 = l1
    g1 = g1
    g2 = g2
    NoItem = NoItem
    Batch = {b1}
    Digest = {d1}
    Location = {l1}
    Generation = {g1}
    GenerationId <- MCGenerationId
    Call = {c1, c2, c3}
    Report <- MCReports
    MaxAttempt = 6
    Execution = {e1, e2, e3}
    Input <- MCInput
    Tables = 2
    MaxRetry = 1
    MaxLost = 0
    MaxStop = 1
    MaxRaise = 1
SYMMETRY MCSymmetry
INVARIANTS
    PublishedIsComplete
    FaultFreeStrandsNothing

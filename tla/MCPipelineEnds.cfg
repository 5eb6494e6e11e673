SPECIFICATION FairPipelineSpec
CHECK_DEADLOCK FALSE
CONSTANTS
    b1 = b1
    b2 = b2
    d1 = d1
    l1 = l1
    g1 = g1
    g2 = g2
    NoItem = NoItem
    Batch = {b1}
    Digest = {d1}
    Location = {l1}
    Generation = {g1}
    GenerationId <- MCGenerationId
    Call = {c1, c2}
    Report <- MCReports
    MaxAttempt = 4
    Execution = {e1, e2}
    Input <- MCInput
    Tables = 1
    MaxRetry = 1
    MaxLost = 1
    MaxStop = 1
    MaxRaise = 0
PROPERTIES
    ExecutionsEnd

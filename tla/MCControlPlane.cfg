SPECIFICATION Spec
CONSTANTS
    b1 = b1
    b2 = b2
    d1 = d1
    d2 = d2
    g1 = g1
    g2 = g2
    c1 = c1
    c2 = c2
    NoItem = NoItem
    Batch = {b1, b2}
    Digest = {d1, d2}
    Location = {l1}
    Generation = {g1, g2}
    GenerationId <- MCCollidingId2
    Call = {c1, c2}
    Report <- MCProofReports
    MaxAttempt = 1
SYMMETRY MCSymmetry
INVARIANTS
    PointerFollowsLog
    ResolveNeverDangles
    ReplayIsPublished
    BatchOwnsGeneration
    ValidatedOnEvidence
PROPERTIES
    ImplementsPublication
    Lifecycle

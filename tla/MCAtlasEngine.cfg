SPECIFICATION Spec
CONSTANTS
    b1 = b1
    b2 = b2
    b3 = b3
    d1 = d1
    d2 = d2
    d3 = d3
    g1 = g1
    g2 = g2
    g3 = g3
    NoItem = NoItem
    Batch = {b1, b2, b3}
    Digest = {d1, d2, d3}
    Passing = {d1, d2}
    Generation = {g1, g2, g3}
    GenerationId <- MCGenerationId
CHECK_DEADLOCK FALSE
SYMMETRY MCSymmetry
INVARIANTS
    Consistent
    ServedPassed
PROPERTIES
    ImplementsPublication

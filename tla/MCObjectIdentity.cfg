SPECIFICATION Spec
CHECK_DEADLOCK FALSE
CONSTANTS
    plain = plain
    recompressed = recompressed
    other = other
    NTables = 2
    Contents <- MCContents
    RowsOf <- MCRowsOf
    Uploads = {u1}
    Jobs = {j1, j2}
    NoDigest = NoDigest
    MaxEdit = 1
    MaxOverwrite = 1
    MaxTamper = 1
SYMMETRY MCSymmetry
INVARIANTS
    SparkReadsRegistered
    VerifiedHoldsEvidence
    RegistrationHolds
    UndisturbedAccepted

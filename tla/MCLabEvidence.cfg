SPECIFICATION Spec
CHECK_DEADLOCK FALSE
CONSTANTS
    MaxSurprise = 2
INVARIANTS
    PassMeansOneMove
    VerifiedIsFinal
    VerifiedOnTrueEvidence
PROPERTIES
    FaithfulRunVerified

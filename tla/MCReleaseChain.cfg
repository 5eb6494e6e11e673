SPECIFICATION Spec
CONSTANT
    MaxDetours = 2
INVARIANTS
    CompletedIsFrozen
    OneChain
    CandidateStands
PROPERTY
    FaithfulReleaseCompletes
CHECK_DEADLOCK FALSE

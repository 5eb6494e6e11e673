SPECIFICATION Spec
CONSTANTS
    Kinds = {"preflight", "plan"}
    MaxCommit = 2
    MaxEvidence = 3
    MaxFailing = 1
    MaxAttempt = 2
    MaxMisplace = 1
INVARIANTS
    DeployedOnCurrentEvidence
    TornByItsOwn
    RecoveryOpen
CHECK_DEADLOCK FALSE

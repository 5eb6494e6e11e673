SPECIFICATION OperatedSpec
CONSTANTS
    None = None
    Run = {r1}
    Recovery = {v1, v2}
    Deployment = {d1, d2}
    Rescue = {w1, w2}
    Expiring = TRUE
    MaxFault = 2
    MaxKill = 1
INVARIANTS
    ResourcesHaveAuthority
    LeaseCoversResources
PROPERTIES
    ReleasedOnlyClean
    OnlyOwnResources
    ResourcesGo
    AccountFreed
CHECK_DEADLOCK FALSE

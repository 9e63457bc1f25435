SPECIFICATION Spec
CONSTANTS
    States = {s1, s2, s3}
    Tenants = {tA, tB}
    Keys = {k1, k2}
    TTL = 1
    StorageFails = TRUE
    MaxTime = 3
INVARIANTS TypeOK SingleUse HonouredInTime
PROPERTIES ValidFlowSurvives ImplementsPendingFlows
CHECK_DEADLOCK FALSE

SPECIFICATION Spec
CONSTANTS
    Failed = Failed
    None = None
    Requests = {r1, r2, r3}
    States = {s1, s2}
    Tenants = {tA}
INVARIANTS ConnectedIsReported
CHECK_DEADLOCK FALSE

SPECIFICATION FairSpec
CONSTANTS
    Failed = Failed
    None = None
    Requests = {r1, r2, r3}
    States = {s1, s2}
    Tenants = {tA}
INVARIANTS TypeOK OutcomeBeforeShutdown ReportIsTrue ReportIsAnAnswer
PROPERTIES AddAccountReturns
CHECK_DEADLOCK FALSE

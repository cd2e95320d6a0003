SPECIFICATION FairSpec
CONSTANTS
    k1 = k1
    k2 = k2
    KpiOrder <- MCKpiOrder
    Calcs = {1, 2}
    Readers = {r1}
    Inputs = {0, 1}
    SeverityOf <- MCSeverityOf
INVARIANTS
    Settled
    CacheIsCurrent
PROPERTIES
    CachesCatchUp
CHECK_DEADLOCK FALSE

----------------------------- MODULE MCKpiCache -----------------------------
EXTENDS KpiCache, TLC

CONSTANTS k1, k2

MCKpiOrder == <<k1, k2>>

\* From input 0 to input 1, k1 comes back to INFO and k2 leaves it.
MCSeverityOf ==
    [x \in Kpis \X Inputs |->
       IF x[1] = k1 THEN (IF x[2] = 0 THEN "CRITICAL" ELSE "INFO")
                    ELSE (IF x[2] = 0 THEN "INFO" ELSE "WARN")]
=============================================================================

----------------------------- MODULE MCCashFlow -----------------------------
EXTENDS CashFlow, TLC

CONSTANTS q1, q2
\* Ten weeks before the period: week 3 of the period is the last of the plan.
MCToday == -70
\* Half a unit is what the analysis tab rounds; 3.00 is two times 1.50, 2.00 is not
\* a whole number of times any of them.
MCAmounts == {-150, 150}
MCBalances == {-200, 300}
Symmetric == Permutations(Requests)
=============================================================================

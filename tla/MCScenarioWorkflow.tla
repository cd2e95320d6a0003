-------------------------- MODULE MCScenarioWorkflow --------------------------
(* A small instance of ScenarioWorkflow and ScenarioProjection for TLC.      *)
EXTENDS ScenarioProjection, TLC

Symmetry == Permutations(Request)

Line(id, type, account, amount) == [id |-> id, type |-> type, account |-> account, amount |-> amount]

MCLines == {Line(1, "REVENUE", "701100", 900), Line(2, "REVENUE", "701200", 300),
            Line(3, "EXPENSE", "601000", 600), Line(4, "EXPENSE", "641000", 300),
            Line(5, "CAPEX", "244000", 100)}

H(parameter, value, unit) == [parameter |-> parameter, value |-> value, unit |-> unit]

Growing == <<H("revenue_growth", 120, "multiplier"), H("dso_change", 1500, "jours")>>
Saving  == <<H("revenue_growth", 1000, "%"), H("cost_reduction", 6000, "%"), H("cost_reduction", 6000, "%"),
             H("payroll_increase", 20000, "FCFA")>>

NoRows == <<>>
Wages   == <<H("export_growth", 2000, "%"), H("defect_rate", 1000, "%"), H("capex_increase", 5000, "FCFA")>>
MCHypotheses == {<<>>, Growing, Saving, Wages}
==============================================================================

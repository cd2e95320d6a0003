------------------------------- MODULE Accounts -------------------------------
(***************************************************************************)
(* What an account stands for: SyscohadaMappingService                     *)
(* (common/services/syscohada-mapping.service.ts) with its default table    *)
(* (common/constants/syscohada-financial-mapping.ts), the sign it gives to   *)
(* the rows of an import, and the totals PeriodsService.closePeriod makes.  *)
(*                                                                         *)
(* Only the columns that decide a figure are kept of a mapping.              *)
(***************************************************************************)
EXTENDS Codes, FiniteSetsExt

CONSTANTS
  Org,        \* the organisation
  Mappings    \* active rows of syscohada_account_mappings: org, prefix and a mapping

System == "system"     \* org of the rows every organisation shares (org_id is NULL)

\* A row of the income statement has the section, the rule and, if any, the type of one
\* side: only the migration and the seed of the detailed accounts write rows, with
\* those of the families below.
OneSided(mapping) ==
  mapping.statement = "INCOME_STATEMENT" =>
    \/ mapping.section = "REVENUE" /\ mapping.rule = "INCOME_REVENUE" /\ mapping.hint \in {"REVENUE", "none"}
    \/ mapping.section = "EXPENSE" /\ mapping.rule = "INCOME_EXPENSE" /\ mapping.hint \in {"EXPENSE", "none"}

ASSUME MappingsAssumption ==
  /\ Org # System
  /\ \A r \in Mappings : r.org \in {Org, System} /\ OneSided(r.mapping)

Magnitude(n) == IF n < 0 THEN -n ELSE n

\* Sum of a figure over rows (a set of records).
Total(rows, Figure(_)) == MapThenSumSet(Figure, rows)

------------------------------------------------------------------------------
(* The default table, by families of accounts.                              *)

Mapping(statement, section, rule, hint) ==
  [statement |-> statement, section |-> section, rule |-> rule, hint |-> hint]
NoMapping == Mapping("none", "none", "none", "none")

EquityFamilies    == [prefixes |-> {"10", "11", "12", "13", "14"},
                      mapping  |-> Mapping("BALANCE_SHEET", "EQUITY", "FIXED_EQUITY", "none")]
LiabilityFamilies == [prefixes |-> {"15", "16", "17", "18", "40", "42", "43", "46", "49"},
                      mapping  |-> Mapping("BALANCE_SHEET", "LIABILITY", "FIXED_LIABILITY", "none")]
MixedFamilies     == [prefixes |-> {"44", "45", "47", "48"},
                      mapping  |-> Mapping("BALANCE_SHEET", "LIABILITY", "DYNAMIC_BY_BALANCE_SIGN", "none")]
CapexFamilies     == [prefixes |-> {"21", "22", "23", "24", "25", "26", "27"},
                      mapping  |-> Mapping("BALANCE_SHEET", "ASSET", "FIXED_ASSET", "CAPEX")]
AssetFamilies     == [prefixes |-> {"28", "29", "31", "32", "33", "34", "35", "36", "37", "38", "39", "41",
                                    "50", "51", "52", "53", "54", "55", "56", "57"},
                      mapping  |-> Mapping("BALANCE_SHEET", "ASSET", "FIXED_ASSET", "none")]
TransferFamily    == [prefixes |-> {"58"},
                      mapping  |-> Mapping("BALANCE_SHEET", "ASSET", "DYNAMIC_BY_BALANCE_SIGN", "none")]
ExpenseFamilies   == [prefixes |-> {"60", "61", "62", "63", "64", "65", "66", "67", "68", "69"},
                      mapping  |-> Mapping("INCOME_STATEMENT", "EXPENSE", "INCOME_EXPENSE", "EXPENSE")]
RevenueFamilies   == [prefixes |-> {"70", "71", "72", "73", "74", "75", "76", "77", "78", "79"},
                      mapping  |-> Mapping("INCOME_STATEMENT", "REVENUE", "INCOME_REVENUE", "REVENUE")]
MemoFamilies      == [prefixes |-> {"80", "81", "82", "83", "84", "85", "86", "87", "88", "89"},
                      mapping  |-> Mapping("OFF_BALANCE", "OFF_BALANCE", "MEMO_ONLY", "none")]

Defaults == {EquityFamilies, LiabilityFamilies, MixedFamilies, CapexFamilies, AssetFamilies,
             TransferFamily, ExpenseFamilies, RevenueFamilies, MemoFamilies}

\* Families do not overlap: at most one of them holds a code.
DefaultMapping(code) ==
  IF \E f \in Defaults : StartsWithAny(code, f.prefixes)
  THEN (CHOOSE f \in Defaults : StartsWithAny(code, f.prefixes)).mapping
  ELSE NoMapping

------------------------------------------------------------------------------
(* The rows of the database come first.                                     *)

ValidCode(code) == Len(code) \in 6 .. 8

\* An exact row before a longer family, an organisation's row before a shared one.
SelectByPriority(code) ==
  LET rows   == {r \in Mappings : StartsWith(code, r.prefix)}
      own    == {r \in rows : r.org = Org}
      shared == {r \in rows : r.org = System}
      Exact(found) == {r \in found : r.prefix = code}
      Longest(found) == {r \in found : \A q \in found : Len(q.prefix) <= Len(r.prefix)}
  IN  IF Exact(own) # {} THEN Exact(own)
      ELSE IF Exact(shared) # {} THEN Exact(shared)
      ELSE IF own # {} THEN Longest(own)
      ELSE Longest(shared)

FinancialMapping(code) ==
  IF ~ValidCode(code) THEN NoMapping
  ELSE IF SelectByPriority(code) # {} THEN (CHOOSE r \in SelectByPriority(code) : TRUE).mapping
  ELSE DefaultMapping(code)

\* resolveReportLineType: the type of a row of a report, for the same account.
LineTypeOf(mapping, amount) ==
  IF mapping.statement # "INCOME_STATEMENT" THEN "OTHER"
  ELSE IF mapping.hint \in {"REVENUE", "EXPENSE"} THEN mapping.hint
  ELSE IF mapping.rule = "INCOME_REVENUE" \/ (mapping.rule # "INCOME_EXPENSE" /\ amount >= 0) THEN "REVENUE"
  ELSE "EXPENSE"

ReportLineType(code, amount) == LineTypeOf(FinancialMapping(code), amount)

\* processImport: the transaction that a row of a file gives, if it gives one.  The
\* mapping decides the sign; the type the row asks for counts where the mapping has
\* none.  The row's periods are those that hold its date, at most one.
ImportedType(row) ==
  LET type == ReportLineType(row.account, row.amount) IN IF type = "OTHER" THEN row.type ELSE type
Imported(row) ==
  IF Len(row.account) = 6 /\ row.amount > 0 /\ ImportedType(row) # "none"
  THEN {[account |-> row.account, period |-> p,
         amount  |-> IF ImportedType(row) = "EXPENSE" THEN -row.amount ELSE row.amount] : p \in row.periods}
  ELSE {}

------------------------------------------------------------------------------
(* closePeriod: the totals of the validated transactions, and the snapshot   *)
(* the calculation service makes of them.                                   *)

ClosingTotals(txs) ==
  LET Of(t) == FinancialMapping(t.account)
      Sum(rows) == Total(rows, LAMBDA t : Magnitude(t.amount))
      Income(section) == {t \in txs : Of(t).statement = "INCOME_STATEMENT" /\ Of(t).section = section}
      sheet   == {t \in txs : Of(t).statement = "BALANCE_SHEET"}
      bySign  == {t \in sheet : Of(t).rule = "DYNAMIC_BY_BALANCE_SIGN"}
      Fixed(section) == {t \in sheet \ bySign : Of(t).section = section}
  IN  [revenue       |-> Sum(Income("REVENUE")),
       expenses      |-> Sum(Income("EXPENSE")),
       amortissements |-> Sum({t \in Income("EXPENSE") : StartsWith(t.account, "68")}),
       taxes         |-> Sum({t \in Income("EXPENSE") : StartsWith(t.account, "69")}),
       assets        |-> Sum(Fixed("ASSET") \cup {t \in bySign : t.amount >= 0}),
       liabilities   |-> Sum(Fixed("LIABILITY") \cup {t \in bySign : t.amount < 0}),
       capex         |-> Sum({t \in sheet : Of(t).hint = "CAPEX"})]

\* SnapshotCalculator.calculate: depreciation and taxes, already among the
\* expenses, are subtracted again; the equity is what balances the sheet.
SnapshotOf(txs) ==
  LET totals == ClosingTotals(txs)
      ebitda == totals.revenue - totals.expenses
  IN  [revenue |-> totals.revenue, expenses |-> totals.expenses, ebitda |-> ebitda,
       net     |-> ebitda - totals.amortissements - totals.taxes]
==============================================================================

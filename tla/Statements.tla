------------------------------ MODULE Statements ------------------------------
(***************************************************************************)
(* The financial statements of the calculation service                     *)
(* (apps/calc/utils/syscohada_mapping.py): the income statement with its    *)
(* cascade of subtotals, the balance sheet and the cash flow table, from    *)
(* transactions and planned flows.                                          *)
(*                                                                         *)
(* Its tables are its own: they do not follow the mapping of Accounts.       *)
(* Balance sheet and cash flow are in hundredths of the unit of the amounts,  *)
(* because of the rates of 20 and 30 per cent.                               *)
(***************************************************************************)
EXTENDS Accounts

\* The lines of the income statement, and the accounts each one adds up.
Products == [
  TA |-> {"701"}, TB |-> {"702"}, TC |-> {"703", "706"},
  TD |-> {"704", "705", "707", "708"}, TF |-> {"72"}, TG |-> {"71", "74"},
  TH |-> {"75"}, TI |-> {"781", "791"}, TJ |-> {"798"},
  TK |-> {"771", "772", "773", "776", "778", "762"}, TL |-> {"797"}, TM |-> {"796"},
  TN |-> {"82"}, TO |-> {"84", "86", "88"}]

Charges == [
  RA |-> {"601"}, RB |-> {"6031"}, RC |-> {"602"}, RD |-> {"6032"}, RE |-> {"604", "605"},
  RF |-> {"6033"}, RG |-> {"625"}, RH |-> {"623", "624", "626", "627", "628"}, RI |-> {"63"},
  RJ |-> {"65"}, RK |-> {"621", "622", "641", "642", "643", "644", "645", "646"},
  RL |-> {"681", "691"},
  RM |-> {"671", "672", "673", "674", "676", "677", "661", "662", "663"}, RN |-> {"697"},
  RO |-> {"81"}, RP |-> {"83", "85", "87"}, RQ |-> {"87"}, RS |-> {"89"}]

\* The blocks of the balance sheet; lines a rule treats apart have one of their own.
Assets == [
  fixed |-> {"201", "202", "211", "212", "213", "214", "215", "216", "217", "218", "221", "222",
             "231", "232", "233", "234", "235", "241", "242", "244", "245", "246", "247", "248",
             "251", "252", "261", "262", "271", "272", "273", "274", "275", "276"},
  current |-> {"31", "32", "33", "34", "35", "36", "37", "38", "409",
               "421", "422", "425", "431", "441", "451", "461", "462"},
  BI |-> {"411", "412", "413", "416", "417", "418"},
  placed |-> {"501", "502", "503", "504", "505", "506", "511", "512", "513"},
  BS |-> {"521", "531", "571", "572", "581"}]

Liabilities == [
  equity |-> {"101", "102", "103", "104", "105", "106", "107", "109", "111", "112", "113",
              "114", "115", "116", "118", "119", "141", "142", "151", "152", "153"},
  debts |-> {"161", "162", "163", "164", "165", "166", "167", "168", "17",
             "191", "192", "193", "194", "195", "196"},
  current |-> {"419", "431", "432", "433", "434", "441", "442", "443", "444", "445", "446", "447",
               "448", "461", "462", "463", "464", "471", "472", "473", "474", "499", "599"},
  EC |-> {"401", "402", "403", "404", "405", "406", "407", "408"},
  treasury |-> {"561", "562", "565", "566"}]

On(txs, prefixes) == {t \in txs : StartsWithAny(t.account, prefixes)}

\* Products keep their sign (a credit note reduces them), charges lose it.
BadChargeLine(txs, ref) == Total(On(txs, Charges[ref]), LAMBDA t : t.amount)
ProductLine(txs, ref) == Total(On(txs, Products[ref]), LAMBDA t : t.amount)
ChargeLine(txs, ref)  == Total(On(txs, Charges[ref]), LAMBDA t : Magnitude(t.amount))

\* The cascade: each subtotal starts from the one before.
Cascade(P, C) ==
  LET XA == P.TA - C.RA - C.RB
      XB == XA + P.TB + P.TC + P.TD
      XC == XB + P.TF + P.TG + P.TH + P.TI - C.RC - C.RD - C.RE - C.RF - C.RG - C.RH - C.RI - C.RJ
      XD == XC - C.RK
      XE == XD + P.TJ - C.RL
      XF == P.TK + P.TL + P.TM - C.RM - C.RN
      XG == XE + XF
      XH == P.TN + P.TO - C.RO - C.RP
      XI == XG + XH - C.RQ - C.RS
  IN  [XA |-> XA, XB |-> XB, XC |-> XC, XD |-> XD, XE |-> XE, XF |-> XF,
       XG |-> XG, XH |-> XH, XI |-> XI, RA |-> C.RA, RL |-> C.RL, TJ |-> P.TJ]

Income(txs) == Cascade([ref \in DOMAIN Products |-> ProductLine(txs, ref)],
                       [ref \in DOMAIN Charges  |-> ChargeLine(txs, ref)])

\* Balance sheet lines are magnitudes.
Balance(txs, accounts) == 100 * Total(On(txs, accounts), LAMBDA t : Magnitude(t.amount))
Planned(plans, dir)    == 100 * Total({p \in plans : p.dir = dir}, LAMBDA p : p.amount)
OrElse(n, default)     == IF n = 0 THEN default ELSE n

\* Receivables and payables without a transaction are a share of the sales and of
\* the purchases; the treasury is at least the planned net flow.
BalanceSheet(txs, plans) ==
  LET income == Income(txs)
      net    == Planned(plans, "IN") - Planned(plans, "OUT")
      cash   == Balance(txs, Assets.BS)
      BS == IF cash >= net THEN cash ELSE net
      BI == OrElse(Balance(txs, Assets.BI), 20 * income.XB)
      EC == OrElse(Balance(txs, Liabilities.EC), 30 * income.RA)
  IN  [BI |-> BI, EC |-> EC, BS |-> BS,
       BZ |-> Balance(txs, Assets.fixed \cup Assets.placed) + Balance(txs, Assets.current) + BI + BS,
       BZ_P |-> Balance(txs, Liabilities.equity) + 100 * income.XI + Balance(txs, Liabilities.debts)
                + Balance(txs, Liabilities.current) + EC + Balance(txs, Liabilities.treasury)]

\* Flows are told apart by their type; the opening treasury is one the callers of
\* the service never send, and is 0.
CashFlowTable(txs, plans) ==
  LET income == Income(txs)
      sheet  == BalanceSheet(txs, plans)
      OfType(types) == 100 * Total({p \in plans : p.type \in types}, LAMBDA p : p.amount)
      FA == 100 * (income.XI + income.RL - income.TJ)
      ZB == FA - (sheet.BI - sheet.EC)
      ZC == -OfType({"INVESTISSEMENT", "DECAISSEMENT_EQUIPEMENT"})
      ZF == OfType({"FINANCEMENT", "EMPRUNT"}) - OfType({"REMBOURSEMENT", "DIVIDENDE"})
  IN  [ZA |-> 0, FA |-> FA, ZB |-> ZB, ZC |-> ZC, ZF |-> ZF, ZG |-> ZB + ZC + ZF,
       ZH |-> ZB + ZC + ZF]

FinancialStatements(txs, plans) ==
  [is |-> Income(txs), bs |-> BalanceSheet(txs, plans), cf |-> CashFlowTable(txs, plans)]
==============================================================================

------------------------------- MODULE Access -------------------------------
(***************************************************************************)
(* Who may call what.  Every handler of the API names the roles it accepts *)
(* (@Roles and the guards of apps/api/src/modules/*/*.controller.ts, one   *)
(* definition per controller), and the web client decides on its own which *)
(* pages a role may open (App.tsx) and what each page asks of the API: the *)
(* queries it makes when it is shown and the calls its buttons make.       *)
(* Nothing keeps the two sides together but the people who write them.     *)
(*                                                                         *)
(* A page is what its route shows; buttons that depend on the state of a   *)
(* budget or a scenario count as offered.  Scopes within a role            *)
(* (departments, organisations) are left to Session and BudgetWorkflow.    *)
(*                                                                         *)
(* A definition named Bad... is the one that follows it with a plausible   *)
(* mistake.                                                                *)
(***************************************************************************)

Role == {"SUPER_ADMIN", "FPA", "CONTRIBUTEUR", "LECTEUR"}

Admins   == {"SUPER_ADMIN"}
Planners == {"SUPER_ADMIN", "FPA"}
Writers  == Planners \cup {"CONTRIBUTEUR"}
Readers  == Planners \cup {"LECTEUR"}

------------------------------------------------------------------------------
(* The API: the roles each handler accepts.                                 *)

AuthController == [login |-> Role, refresh |-> Role, logout |-> Role, me |-> Role]

OrganizationsController == [getCurrent |-> Role, updateCurrent |-> Admins]

UsersController ==
  [list |-> Admins, getById |-> Admins, invite |-> Admins, update |-> Admins,
   toggle |-> Admins, delete |-> Admins, me |-> Role, changeMyPassword |-> Role]

FiscalYearsController == [getPeriods |-> Role]

PeriodsController == [findAll |-> Role, findOne |-> Role, close |-> Planners]

BudgetsController ==
  [list |-> Planners, getById |-> Role, create |-> Planners, remove |-> Planners,
   updateLines |-> Writers, deleteLine |-> Writers, submit |-> Writers,
   approve |-> Planners, reject |-> Planners, lock |-> Planners,
   setAsReference |-> Planners, variance |-> Readers]

TransactionsController ==
  [list |-> Role, create |-> Writers, update |-> Writers, delete |-> Writers,
   validateBatch |-> Planners]

ImportsController == [upload |-> Writers, getJob |-> Role]

ScenariosController ==
  [list |-> Readers, getById |-> Readers, create |-> Planners, upsertHypotheses |-> Planners,
   calculate |-> Planners, save |-> Planners, compare |-> Readers, delete |-> Planners]

CashFlowController ==
  [getCashFlow |-> Readers, listEntries |-> Planners, createOrUpdate |-> Planners,
   listPlans |-> Readers, getAnalysis |-> Readers, createPlanEntry |-> Planners,
   deletePlan |-> Planners, runway |-> Readers]

BankAccountsController == [list |-> Planners, create |-> Planners, updateBalance |-> Planners]

KpisController == [list |-> Readers, values |-> Readers, calculate |-> Planners, trend |-> Readers]

AlertsController == [list |-> Readers, read |-> Role, readAll |-> Role]

DashboardController ==
  [getDashboard |-> Readers, getMonthly |-> Readers, getFinancialStatements |-> Readers]

ReportsController == [generate |-> Readers]

CommentsController == [findAll |-> Readers, create |-> Planners, remove |-> Planners]

Api ==
  [auth |-> AuthController, organizations |-> OrganizationsController, users |-> UsersController,
   fiscalYears |-> FiscalYearsController, periods |-> PeriodsController,
   budgets |-> BudgetsController, transactions |-> TransactionsController,
   imports |-> ImportsController, scenarios |-> ScenariosController,
   cashFlow |-> CashFlowController, bankAccounts |-> BankAccountsController,
   kpis |-> KpisController, alerts |-> AlertsController, dashboard |-> DashboardController,
   reports |-> ReportsController, comments |-> CommentsController]

\* RolesGuard: a handler nobody wrote accepts nobody.
Accepts(call, role) ==
  /\ call[1] \in DOMAIN Api
  /\ call[2] \in DOMAIN Api[call[1]]
  /\ role \in Api[call[1]][call[2]]

------------------------------------------------------------------------------
(* The web client: the pages and the roles that may open them, in App.tsx   *)
(* and in the menu.                                                         *)

BadAllowedRoles ==
  [dashboard |-> Readers, budget |-> Writers, budgetDetail |-> Role, transactions |-> Writers,
   scenarios |-> Readers, scenarioDetail |-> Readers, cashflow |-> Readers, kpis |-> Readers,
   alerts |-> Readers, reports |-> Readers, settings |-> Admins, users |-> Admins]

AllowedRoles ==
  [dashboard |-> Readers, budget |-> Writers, budgetDetail |-> Role, transactions |-> Writers,
   scenarios |-> Readers, scenarioDetail |-> Readers, cashflow |-> Planners, kpis |-> Readers,
   alerts |-> Readers, reports |-> Readers, settings |-> Admins, users |-> Admins]

NavItems ==
  [dashboard |-> Readers, budget |-> Writers, transactions |-> Writers, scenarios |-> Readers,
   cashflow |-> Planners, kpis |-> Readers, alerts |-> Readers, reports |-> Readers,
   users |-> Admins, settings |-> Admins]

\* Where a role lands that asks for the page: a page it may not open sends it to the
\* dashboard, and a dashboard it may not open shows nothing.
Shown(page, role) ==
  IF role \in AllowedRoles[page] THEN page
  ELSE IF role \in AllowedRoles["dashboard"] THEN "dashboard"
  ELSE "nothing"

------------------------------------------------------------------------------
(* The calls of each page for a role.                                       *)

Layout == {<<"auth", "me">>, <<"auth", "logout">>, <<"organizations", "getCurrent">>}

Topbar == {<<"periods", "findAll">>, <<"alerts", "list">>}

DashboardPage == {<<"dashboard", "getDashboard">>, <<"dashboard", "getMonthly">>}

BudgetPage ==
  {<<"budgets", "list">>, <<"fiscalYears", "list">>, <<"budgets", "create">>,
   <<"budgets", "remove">>, <<"budgets", "setAsReference">>}

BudgetActions == {<<"budgets", a>> : a \in {"submit", "approve", "reject", "lock"}}

BudgetDetailPage ==
  {<<"budgets", "getById">>, <<"fiscalYears", "getPeriods">>, <<"budgets", "updateLines">>,
   <<"budgets", "deleteLine">>} \cup BudgetActions

TransactionsPage ==
  {<<"transactions", a>> : a \in {"list", "create", "update", "delete", "validateBatch"}}
    \cup {<<"periods", "findAll">>, <<"imports", "upload">>}

ScenariosPage == {<<"scenarios", "list">>, <<"budgets", "list">>, <<"scenarios", "create">>}

\* CommentSection shows its form and its buttons to those who may write.
CommentSection(role) ==
  {<<"comments", "findAll">>}
    \cup (IF role \in Planners THEN {<<"comments", "create">>, <<"comments", "remove">>} ELSE {})

ScenarioDetailPage(role) ==
  {<<"scenarios", "getById">>, <<"budgets", "list">>} \cup CommentSection(role)
    \cup (IF role \in Planners
            THEN {<<"scenarios", a>> : a \in {"upsertHypotheses", "calculate", "save", "delete"}}
            ELSE {})

CashFlowPage ==
  {<<"cashFlow", a>> :
     a \in {"getCashFlow", "listPlans", "getAnalysis", "createPlanEntry", "deletePlan"}}
    \cup {<<"bankAccounts", "list">>, <<"bankAccounts", "create">>}

KpisPage == {<<"kpis", "values">>, <<"kpis", "calculate">>}

AlertsPage == {<<"alerts", "list">>, <<"alerts", "read">>, <<"alerts", "readAll">>}

ReportsPage == {<<"reports", "generate">>, <<"dashboard", "getFinancialStatements">>}

SettingsPage == {<<"organizations", "updateCurrent">>, <<"users", "changeMyPassword">>}

UsersPage == {<<"users", a>> : a \in {"list", "me", "invite", "update", "toggle", "delete"}}

Calls(page, role) ==
  Layout \cup Topbar \cup
  CASE page = "dashboard"      -> DashboardPage
    [] page = "budget"         -> BudgetPage
    [] page = "budgetDetail"   -> BudgetDetailPage
    [] page = "transactions"   -> TransactionsPage
    [] page = "scenarios"      -> ScenariosPage
    [] page = "scenarioDetail" -> ScenarioDetailPage(role)
    [] page = "cashflow"       -> CashFlowPage
    [] page = "kpis"           -> KpisPage
    [] page = "alerts"         -> AlertsPage
    [] page = "reports"        -> ReportsPage
    [] page = "settings"       -> SettingsPage
    [] page = "users"          -> UsersPage
    [] page = "nothing"        -> {}

------------------------------------------------------------------------------
(* What must hold.                                                          *)

\* Refused to the role although a page it may open makes the call or offers it.
RefusedCalls(role) ==
  LET made == UNION {Calls(Shown(page, role), role) : page \in DOMAIN AllowedRoles} IN
    {call \in made : ~Accepts(call, role)}

\* What the code of today refuses: the list of budgets that the scenario pages show a
\* LECTEUR and the budget page a CONTRIBUTEUR, the bell of the CONTRIBUTEUR, the list of
\* fiscal years that has no route, and the buttons shown to those who may not use them.
KnownRefusals ==
  [SUPER_ADMIN  |-> {<<"fiscalYears", "list">>},
   FPA          |-> {<<"fiscalYears", "list">>},
   CONTRIBUTEUR |->
     {<<"fiscalYears", "list">>, <<"alerts", "list">>, <<"transactions", "validateBatch">>}
       \cup {<<"budgets", a>> : a \in {"list", "create", "remove", "setAsReference",
                                       "approve", "reject", "lock"}},
   LECTEUR      |->
     {<<"scenarios", "create">>, <<"kpis", "calculate">>}
       \cup {<<"budgets", a>> : a \in {"list", "updateLines", "deleteLine", "submit",
                                       "approve", "reject", "lock"}}]

\* The pages and the API agree: what a page asks of the API is accepted for every role that
\* may open it, except the calls listed above and no others, and the menu offers no page
\* that sends the user elsewhere (App.tsx:36-150, NavMenu.tsx:27-38, roles.guard.ts:10-31).
PagesLoad ==
  /\ \A role \in Role : RefusedCalls(role) = KnownRefusals[role]
  /\ \A page \in DOMAIN NavItems : \A role \in NavItems[page] : Shown(page, role) = page
==============================================================================

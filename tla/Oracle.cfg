SPECIFICATION ForecastSpec
CONSTANTS
    east = east
    west = west
    fund = fund
    Companies = {east, west}
    Investments = {fund}
    MonthStart <- MCMonthStart
    WeekLen = 2
    WEEKS_IN_MONTH = 2
    Today = 3
    Trailing = 9
    Owner <- MCOwner
    Committed <- MCCommitted
    Posted <- MCPosted
    Unit = 4
    Halvings = 2
    BudgetForms <- MCBudgetForms
    PlanForms <- MCPlanForms
    ReceivableForms <- MCReceivableForms
    PayableForms <- MCPayableForms
    CommitmentForms <- MCCommitmentForms
    Collected <- MCCollected
    Policies <- MCPolicies
    MaxRows = 3
    MaxOut = 1
INVARIANTS  BoundCountsCommitted  ScreensTell

SPECIFICATION Spec
CONSTANTS
    east = east
    west = west
    dam = dam
    Users = {u, v}
    Companies = {east, west}
    Projects = {dam}
    Codes <- MCCodes
    AccountForms <- MCAccountForms
    Charts <- MCCharts
    Standard <- MCStandard
    EntryForms <- MCEntryForms
    CashChoices <- MCCashChoices
    Planned = {}
    Databases <- MCDatabases
    MaxChanges = 3
    MonthStart <- MCMonthStart
    Years = {2025, 2026}
    Today = 741600
    Bills <- MCBills
SYMMETRY MCSymmetry
INVARIANTS NothingLost 
PROPERTIES ChartKeepsForest
CHECK_DEADLOCK FALSE

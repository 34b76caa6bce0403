SPECIFICATION PayoutSpec
CONSTANTS
    r1 = r1
    r2 = r2
    Requests = {r1, r2}
    Refs = {x1, x2}
    FinTasks = {f1, f2}
    HookTasks = {h1, h2}
    Amount <- MCAmount
    NoReq = NoReq
    NoRef = NoRef
    Slow = FALSE
    Faults = TRUE
SYMMETRY MCSymmetry
INVARIANTS SettledOnce InFlightIsBacked PaidIsExpensed
PROPERTY ReconciliationTells

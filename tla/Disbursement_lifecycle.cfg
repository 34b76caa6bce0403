SPECIFICATION FairSpec
CONSTANTS
    r1 = r1
    r2 = r2
    Requests = {r1, r2}
    Refs = {x1, x2, x3}
    FinTasks = {f1}
    HookTasks = {h1, h2}
    Amount <- MCAmount
    NoReq = NoReq
    NoRef = NoRef
    Slow = TRUE
    Faults = FALSE
 
PROPERTIES LifecycleSpec EverySettlementLands

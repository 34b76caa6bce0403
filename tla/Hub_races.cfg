SPECIFICATION Spec
CONSTANTS
    alice = alice
    bob = bob
    cash = cash
    o1 = o1
    o2 = o2
    a1 = a1
    Wallets = {alice, bob, cash}
    System = {cash}
    Posters = {p1, p2}
    Keys = {o1, o2}
    NoKey = NoKey
    NoWallet = NoWallet
    MaxAmount = 2
    Float = 4
    Orders = {o1, o2}
    OrderWallet <- MCOrderWallet
    OrderAmount <- MCOrderAmount
    Large = {o1}
    CashIn = cash
    Approvals = {a1}
    Adjustment <- MCAdjustment
    Admins = {m1, m2}
    Routes <- MCRoutes
    Suspects = {alice}
    PayAmounts = {2}
    MaxExecutions = 1
SYMMETRY MCSymmetry
INVARIANTS  OverdraftIsBounded PaidIsComplete AuditIsTrue
PROPERTIES FreezeHolds

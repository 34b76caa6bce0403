SPECIFICATION Spec
CONSTANTS
    Txns = {t1, t2}
    Refs = {r1, r2, r3}
    Sessions = {s1, s2}
    Finance = {f1, f2}
    Threads = {h1, h2}
    Serial = TRUE
    Amount <- MCAmount
    BadAccount = {t2}
    MonthlyQuota = 2
    PerTxnLimit = 1
    MaxTopUps = 1
    TopUpAmount = 1
    NoTxn = NoTxn
    NoRef = NoRef
SYMMETRY MCSymmetry
INVARIANTS  StatusIsBacked WalletIsBounded

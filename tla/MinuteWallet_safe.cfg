\* Four calls of any kind for two interviews, a new month and a pack.
CONSTANTS
    s1 = s1
    s2 = s2
    t1 = t1
    t2 = t2
    t3 = t3
    t4 = t4
    NoSession = NoSession
    Sessions = {s1, s2}
    Calls = {t1, t2, t3, t4}
    Cost = 2
    Plan = 3
    Pack = 2
    Gift = 1
    MaxPeriod = 2
    MaxPacks = 1
SYMMETRY Alike
SPECIFICATION Spec
INVARIANTS TypeOK ChargedOnce WalletIsLedger MonthlyIsBounded
PROPERTIES RefundedOnce
CHECK_DEADLOCK FALSE

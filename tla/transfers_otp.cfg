\* Two workers: one code, confirmed twice at the same time.
CONSTANTS
    a1 = a1
    a2 = a2
    t1 = t1
    t2 = t2
    NoOne = NoOne
    Accounts = {a1, a2}
    OpeningBalance <- BothWaysBalance
    Workers = {k1, k2}
    Transfers = {t1, t2}
    FromOf <- OneFrom
    ToOf <- AbroadTo
    AmountOf <- BothWaysAmount
    Rank <- ById
    WorkersCrash = FALSE
SPECIFICATION Spec
INVARIANT
    ExecutedAtMostOnce

\* Two workers, two accounts that pay each other, crashes.
CONSTANTS
    a1 = a1
    a2 = a2
    t1 = t1
    t2 = t2
    NoOne = NoOne
    Accounts = {a1, a2}
    OpeningBalance <- BothWaysBalance
    Workers = {k1, k2}
    Transfers = {t1, t2}
    FromOf <- BothWaysFrom
    ToOf <- BothWaysTo
    AmountOf <- BothWaysAmount
    Rank <- ById
    WorkersCrash = TRUE
SPECIFICATION FairSpec
INVARIANTS
    TypeOK
    NoNegativeBalance
    NoCircularWait
    ExecutedIsGone
PROPERTIES
    OnlyActiveAccountsMove
    ConfirmEnds

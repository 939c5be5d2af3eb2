\* Two workers, two deposits, crashes, lost replies, repeated events.
CONSTANTS
    a1 = a1
    d1 = d1
    d2 = d2
    NoOne = NoOne
    Accounts = {a1}
    OpeningBalance <- SmallBalance
    Workers = {k1, k2}
    Deposits = {d1, d2}
    AccountOf <- BothToOne
    AmountOf <- Amounts
    Intents = {i1, i2}
    LostReplies = TRUE
    WorkersCrash = TRUE
SPECIFICATION FairSpec
INVARIANTS
    TypeOK
    CreditedOnceIfCharged
    SucceededMeansCredited
PROPERTIES
    SettledIsFinal
    ChargedIsCredited

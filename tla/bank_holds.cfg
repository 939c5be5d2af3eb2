\* One worker: a transfer after a withdrawal that holds the funds.
CONSTANTS
    a1 = a1
    a2 = a2
    w1 = w1
    w2 = w2
    t1 = t1
    t2 = t2
    NoOne = NoOne
    Accounts = {a1, a2}
    OpeningBalance <- Opening
    Workers = {k1}
    Withdrawals = {w1, w2}
    AccountOf <- DrawsOn
    AmountOf <- Withdrawn
    AutoApproveLimit = 1
    Payouts = {p1, p2}
    LostReplies = FALSE
    Transfers = {t1, t2}
    FromOf <- From
    ToOf <- To
    TransferAmount <- Transferred
    Rank <- ById
    WorkersCrash = TRUE
SPECIFICATION BankSpec
INVARIANT
    HeldFundsStay

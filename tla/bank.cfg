\* Two workers serve a withdrawal that needs no review and two transfers from
\* the same account; they may be killed at any statement and Stripe's replies lost.
CONSTANTS
    a1 = a1
    a2 = a2
    w1 = w1
    w2 = w2
    t1 = t1
    t2 = t2
    NoOne = NoOne
    Accounts = {a1, a2}
    OpeningBalance <- Opening
    Workers = {k1, k2}
    Withdrawals = {w2}
    AccountOf <- DrawsOn
    AmountOf <- Withdrawn
    AutoApproveLimit = 2
    Payouts = {p1}
    LostReplies = TRUE
    Transfers = {t1, t2}
    FromOf <- From
    ToOf <- To
    TransferAmount <- Transferred
    Rank <- ById
    WorkersCrash = TRUE
SPECIFICATION BankSpec
SYMMETRY AnyPayoutAndWorker
INVARIANTS
    BankTypeOK
    MoneyIsConserved
    TransfersAreCovered

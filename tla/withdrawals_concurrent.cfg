\* Two workers, two requests, crashes and lost replies.
CONSTANTS
    a1 = a1
    w1 = w1
    w2 = w2
    w3 = w3
    NoOne = NoOne
    Accounts = {a1}
    OpeningBalance <- PairBalance
    Workers = {k1, k2}
    Withdrawals = {w1, w2}
    AccountOf <- PairAccount
    AmountOf <- PairAmount
    AutoApproveLimit = 1
    Payouts = {p1, p2, p3}
    LostReplies = TRUE
    WorkersCrash = TRUE
SPECIFICATION Spec
SYMMETRY AnyPayoutAndWorker
INVARIANTS
    TypeOK
    PendingReviewIsHeld
    ReviewBeforePayout
    PostedMeansPaid

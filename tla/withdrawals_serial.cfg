\* One worker (the documented deployment), three requests, crashes,
\* lost replies; the handlers implement the reservation of funds.
CONSTANTS
    a1 = a1
    w1 = w1
    w2 = w2
    w3 = w3
    NoOne = NoOne
    Accounts = {a1}
    OpeningBalance <- TripleBalance
    Workers = {k1}
    Withdrawals = {w1, w2, w3}
    AccountOf <- TripleAccount
    AmountOf <- TripleAmount
    AutoApproveLimit = 1
    Payouts = {p1, p2}
    LostReplies = TRUE
    WorkersCrash = TRUE
SPECIFICATION FairSpec
INVARIANTS
    NoOverdraw
    ReleasedMeansUnpaid
    OnePayoutPerWithdrawal
    BooksAgree
PROPERTIES
    ProcessingIsSettled
    PostedIsFinal
    ReservesFunds

\* Two workers and two rows of one customer, of any two kinds; two rates.
\* It stops when every row is decided and the workers have died or finished.
CHECK_DEADLOCK FALSE
CONSTANTS
    c1 = c1
    r1 = r1
    r2 = r2
    NoOne = NoOne
    Rows = {r1, r2}
    Customers = {c1}
    OwnerOf <- Owner
    Rates = {1, 2}
    Workers = {k1, k2}
    WorkersCrash = TRUE
    MaxRequests = 6
SPECIFICATION Spec
SYMMETRY AnyWorkerAndRow
INVARIANTS
    TypeOK
    DecisionsAreWhole
    LogIsTrue
    KycFollowsReviews
    OneOpenCard
PROPERTIES
    DecidedIsFinal

\* Two workers, two members of staff, one small and two large adjustments.
\* It stops when every adjustment is decided.
CHECK_DEADLOCK FALSE
CONSTANTS
    a1 = a1
    d1 = d1
    d2 = d2
    d3 = d3
    NoOne = NoOne
    Adjustments = {d1, d2, d3}
    Accounts = {a1}
    Staff = {s1, s2}
    AccountOf <- Account
    AmountOf <- Amount
    AutoApproveLimit = 1
    Workers = {k1, k2}
    WorkersCrash = TRUE
SPECIFICATION Spec
SYMMETRY AnyWorkerAndStaff
INVARIANTS
    TypeOK
    PostingsAreAudited
    FourEyes
    WaitingIsUnposted

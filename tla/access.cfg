\* Two workers, two users of any roles of whom one is an administrator.
\* It stops when the requests have been served.
CHECK_DEADLOCK FALSE
CONSTANTS
    NoOne = NoOne
    Users = {u1, u2}
    Workers = {k1, k2}
    WorkersCrash = TRUE
    MaxRequests = 4
    MaxDevices = 2
    MaxSessions = 3
SPECIFICATION Spec
SYMMETRY AnyWorkerAndUser
INVARIANTS
    TypeOK
    AnAdminRemains
    BlockEndsSessions
    OneLoginDevice
    LinkUsedOnce

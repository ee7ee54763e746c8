\* One order; two requests of any kind race with a job; one fault.
CONSTANTS
    Orders = {1}
    NoOrder = NoOrder
    Requests = {r1, r2}
    Jobs = {j1}
    AutoCapture = TRUE
    OwnIds = TRUE
    MaxFaults = 1
SPECIFICATION FairSpec
INVARIANTS TypeOK  GrantIsPaid
PROPERTIES KnownIsResolved PaidIsGranted
CHECK_DEADLOCK FALSE

\* A call of verify and a delivery, or two of one kind, of one order.
CONSTANTS
    Orders = {1}
    NoOrder = NoOrder
    Requests = {r1, r2}
    Jobs = {}
    AutoCapture = TRUE
    OwnIds = TRUE
    MaxFaults = 0
SPECIFICATION Spec
INVARIANT GrantedOnce
CHECK_DEADLOCK FALSE

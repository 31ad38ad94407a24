CONSTANTS
    Customers = {a, b}
    Notifiers = {n1, n2}
    Messages = {m1}
    Nobody = nobody
    RetryLimit = 2
    MaxEdits = 3
    MaxCrashes = 1
SPECIFICATION Spec
INVARIANT
    FormerOwnerKept
CHECK_DEADLOCK FALSE

SPECIFICATION Spec
CONSTANTS
    Accounts = {1, 2}
    Numbers = {1, 2}
    Digits = {1, 2}
    MaxRows = 5
    MaxLines = 3
    Threads = {t1, t2}
    Offered = {"extension", "number", "delete", "route", "flow", "group", "device", "defaults"}
    MaxRequests = 3
    MaxCrossing = 2
    AutoIvrAbove = 2
    Designs <- MCDesigns
    DeskDesigns <- MCDeskDesigns
SYMMETRY SameThreads
INVARIANTS TypeOK PlanRingsOwn NoDangling CarrierServed ProvisionWhole
PROPERTIES ReferencesFollow
CHECK_DEADLOCK FALSE

SPECIFICATION Spec
CONSTANTS
    Accounts = {1, 2}
    Numbers = {1, 2}
    Digits = {1, 2}
    MaxRows = 5
    MaxLines = 3
    Threads = {t1}
    Offered = {"number", "delete", "flow", "defaults"}
    MaxRequests = 5
    MaxCrossing = 0
    AutoIvrAbove = 2
    Designs <- MCDesigns
    DeskDesigns <- MCDeskOff
INVARIANTS ProvisionRings
CHECK_DEADLOCK FALSE

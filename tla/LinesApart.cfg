SPECIFICATION Spec
CONSTANTS
    Accounts = {1, 2}
    Numbers = {1, 2}
    Digits = {1, 2}
    MaxRows = 5
    MaxLines = 3
    Threads = {t1}
    Offered = {"number"}
    MaxRequests = 2
    MaxCrossing = 2
    AutoIvrAbove = 2
    Designs <- MCDesigns
    DeskDesigns <- MCDeskDesigns
INVARIANTS DesksApart
CHECK_DEADLOCK FALSE

SPECIFICATION Spec
CONSTANTS
    Accounts = {1, 2}
    Numbers = {1, 2}
    Digits = {1, 2}
    MaxRows = 5
    MaxLines = 3
    Threads = {t1}
    Offered = {"number", "flow"}
    MaxRequests = 3
    MaxCrossing = 3
    AutoIvrAbove = 2
    Designs <- MCDesigns
    DeskDesigns <- MCDeskDesigns
PROPERTIES FlowEditsKept
CHECK_DEADLOCK FALSE

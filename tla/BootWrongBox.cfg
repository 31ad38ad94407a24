SPECIFICATION Spec
CONSTANTS
    ari = ari
    Workers = {w1, ari}
    Container <- MCContainer
    Numbers = {1, 2, 3}
    NumberOwner <- MCOwner
    Main = {1}
    OldLink <- MCLink
    Rows = {1, 2, 3, 4, 5, 6}
    OldKey <- MCKey
    RowOwner <- MCRowOwner
    Messages = {1, 2}
    LeftFor <- MCLeftFor
    MaxCrashes = 1
    MaxEdits = 1

PROPERTIES BoxKept
CHECK_DEADLOCK FALSE

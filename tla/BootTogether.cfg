SPECIFICATION Spec
CONSTANTS
    ari = ari
    Workers = {w1, w2, ari}
    Container <- MCContainer
    Numbers = {1, 2, 3}
    NumberOwner <- MCOwner
    Main = {1}
    OldLink <- MCLink
    Rows = {1, 2, 3, 4, 5, 6}
    OldKey <- MCKey
    RowOwner <- MCRowOwner
    Messages = {1}
    LeftFor <- MCLeftFor
    MaxCrashes = 1
    MaxEdits = 1
INVARIANT Upgraded
PROPERTIES OneTime BootsAtLast
CHECK_DEADLOCK FALSE

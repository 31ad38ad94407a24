CONSTANTS
    Customers = {a, b}
    Notifiers = {n1, n2}
    Messages = {m1}
    Nobody = nobody
    RetryLimit = 2
    MaxEdits = 2
    MaxCrashes = 1
SPECIFICATION Spec
INVARIANTS
    OwnMail
PROPERTIES
    AcceptedOnce
    MailedAtLast
CHECK_DEADLOCK FALSE

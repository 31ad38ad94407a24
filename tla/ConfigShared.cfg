SPECIFICATION SyncSpec
CONSTANTS
    Api = {api1, api2}
    ari = ari
    Extensions = {e1}
    Addresses = {a1, a2}
    unresolvable = unresolvable
    nobody = nobody
    MaxEdits = 2
    MaxFaults = 1
INVARIANTS OwedKept FilesFollow
PROPERTIES OwedInTheEnd
CHECK_DEADLOCK FALSE

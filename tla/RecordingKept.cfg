SPECIFICATION Spec
CONSTANTS
    Legs = {near, far}
    MaxRequests = 2
    MaxFaults = 1
PROPERTIES OnEvidence StoredIsPlayable
CHECK_DEADLOCK FALSE

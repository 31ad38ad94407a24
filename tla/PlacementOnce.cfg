SPECIFICATION PlacementSpec
CONSTANTS
    Requests = {r1, r2, r3}
    Free = free
    Claimed = claimed
    MaxFaults = 2
    MaxKills = 1
    MaxDays = 1
INVARIANT OneCallPerKey
CHECK_DEADLOCK FALSE

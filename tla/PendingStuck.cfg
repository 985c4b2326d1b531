SPECIFICATION Spec
CONSTANTS
    Peer = {a, b}
    Event <- MCEvent
    Parents <- MCParents
    Home <- MCHome
    Community = 3
    Redemption = {}
    Bytes <- MCBytes
    Quota <- MCNoQuota
    MaxPending = 3
    MaxIds = 2
    MaxFrame = 2
    MaxFaults <- MCReconnect
INVARIANT
    MissingParentsRequested
CHECK_DEADLOCK FALSE

SPECIFICATION FairSpec
CONSTANTS
    a = a
    b = b
    Peer = {a, b}
    Event <- MCEvent
    Parents <- MCParents
    Home <- MCHome
    Community = 5
    Redemption <- MCRedemption
    Bytes <- MCBytes
    Quota <- MCQuota
    MaxPending = 2
    MaxIds = 1
    MaxFrame = 2
    MaxFaults <- MCFaults
INVARIANTS
    TypeOK
    PendingWaits
    QuietIsComplete
PROPERTIES
    WithinBudget
    Replicates
    HeadsArrive
CHECK_DEADLOCK FALSE

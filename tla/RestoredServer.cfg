SPECIFICATION Spec
CONSTANTS
    o = o
    s = s
    j = j
    k = k
    None = None
    Event <- MCRace
    User = {o, s, j, k}
    Channel = {5}
    Author <- MCAuthor
    Payload <- MCPayload
    Community = 4
    MaxParents = 3
    MaxAncestry = 4
    Dial <- MCServer
    Handover <- MCHandover
    Server = {s}
    MaxBackups = 1
    MaxRestores = 1
INVARIANT
    OwnerMaySelect
CHECK_DEADLOCK FALSE

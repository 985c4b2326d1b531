SPECIFICATION Spec
CONSTANTS
    o = o
    s = s
    j = j
    k = k
    None = None
    Event = {1, 2, 3, 4, 5, 6, 7, 8}
    User = {o, s, j, k}
    Channel = {5}
    Author <- MCAuthor
    Payload <- MCPayload
    Community = 4
    MaxParents = 2
    MaxAncestry = 4
    Dial <- MCAnyone
    Handover <- MCHandover
    Server = {o}
    MaxBackups = 1
    MaxRestores = 1
INVARIANTS
    TypeOK
    JoinedIsMember
    EndpointVouched
    OwnerMaySelect
PROPERTY
    AcceptedForever
CONSTRAINT
    MCScenario
CHECK_DEADLOCK FALSE

SPECIFICATION FairSpec
CONSTANTS
    Window = {w1, w2}
    Text = {t1}
    Accept = Accept
    None = None
    Torn = Torn
INVARIANTS
    TypeOK
    StoreIsOurs
    ConfiguredIsJoined
    FailedIsNotStored
    LocalFirst
PROPERTY
    JobEnds
CHECK_DEADLOCK FALSE

SPECIFICATION Spec
CONSTANTS
    o = o
    None = None
    Event <- MCEvent
    Parents <- MCParents
    Home <- MCHome
    User = {o}
    Channel = {2}
    Author <- MCAuthor
    Payload <- MCPayload
INVARIANT
    HomeServerByEventId
CHECK_DEADLOCK FALSE

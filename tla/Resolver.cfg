SPECIFICATION Spec
CONSTANTS
    o = o
    a = a
    b = b
    None = None
    Event <- MCEvent
    Parents <- MCParents
    Home <- MCHome
    User <- MCUser
    Channel = {11, 13}
    Author <- MCAuthor
    Payload <- MCPayload
INVARIANTS
    TypeOK
    OwnerInCharge
    SingleRedemption
    AcceptedIsHistory
    MembersWereAdmitted
    RemovedStaySilent
    LoopIsResolve
CHECK_DEADLOCK FALSE

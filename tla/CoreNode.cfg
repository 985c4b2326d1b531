SPECIFICATION ArchiveFairSpec
CONSTANTS
    Event <- MCEvent
    Parents <- MCParents
    Home <- MCHome
    Created <- MCCreated
    NoCommunity = NoCommunity
    MaxPendingEvents = 4
    MaxArchiveEvents = 5
INVARIANTS
    TypeOK
    StoreIsHistory
    KnownIsStored
    IngestComplete
    ImportIsComplete
    HistoryIsExportable
PROPERTY
    CallsReturn

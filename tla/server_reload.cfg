SPECIFICATION Spec
CONSTANTS
    Alias <- OneAlias
    NoService = NoService
    ExitCode = {0, 1}
    U8 = 3
    Version = {1, 2}
    Client = {c1, c2}
    Catalog <- ReloadCatalog
    MaxSpawns = 4
    MaxRequests = 2
SYMMETRY Perms
INVARIANTS
    TypeOK
    FinishedIsUnwatched
    WatchedIsManaged
    IoFollowsProcess
    ExitIsReported
    NoStaleEvents
    NoOrphans
    RefusedIsWatched
PROPERTIES
    RetriesNeverWrap
CHECK_DEADLOCK FALSE

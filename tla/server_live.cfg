SPECIFICATION FairSpec
CONSTANTS
    Alias <- OneAlias
    NoService = NoService
    ExitCode = {0, 1}
    U8 = 3
    Version = {1, 2}
    Client = {c1, c2}
    Catalog <- ReloadCatalog
    MaxSpawns = 2
    MaxRequests = 2
PROPERTIES
    RequestsAreAnswered
    ExitIsNoticed
CHECK_DEADLOCK FALSE

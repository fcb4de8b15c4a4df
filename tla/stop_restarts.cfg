SPECIFICATION Spec
CONSTANTS
    Alias <- OneAlias
    NoService = NoService
    ExitCode = {0, 1}
    U8 = 3
    Version = {1, 2}
    Client = {c1, c2}
    Catalog <- StaticCatalog
    MaxSpawns = 2
    MaxRequests = 3
PROPERTIES
    StoppedJobJustEnds
CHECK_DEADLOCK FALSE

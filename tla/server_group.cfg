SPECIFICATION Spec
CONSTANTS
    Alias <- GroupAliases
    NoService = NoService
    ExitCode = {0}
    U8 = 2
    Version = {1, 2}
    Client = {c1}
    Catalog <- GroupCatalog
    MaxSpawns = 2
    MaxRequests = 2
INVARIANTS
    OutdatedIsSignalled
CHECK_DEADLOCK FALSE

SPECIFICATION Spec
CONSTANTS
    Alias <- MCAlias
    NoService = NoService
    ExitCode = {0}
    U8 = 2
    Version = {1, 2}
    File <- MCFile
    MaxFiles = 2
INVARIANTS
    LoadIsDeclared
    HeldIsCurrent
    GroupsAreWhole

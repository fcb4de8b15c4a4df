SPECIFICATION Spec
CONSTANTS
    Alias = {a1}
    Session = {s1, s2}
    NoSession = NoSession
    Capacity = 1
    PipeSize = 2
    DrainTimes = 1
    MaxRuns = 2
    MaxChunks = 2
    MaxCommands = 0
    MaxStale = 1
SYMMETRY Perms
INVARIANTS
    TypeOK
    AttachedToCurrent
    TeesFollowJobs
    StreamIsWhole
CHECK_DEADLOCK FALSE

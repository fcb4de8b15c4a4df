SPECIFICATION FairSpec
CONSTANTS
    Alias = {a1}
    Session = {s1, s2}
    NoSession = NoSession
    Capacity = 1
    PipeSize = 2
    DrainTimes = 1
    MaxRuns = 1
    MaxChunks = 2
    MaxCommands = 1
    MaxStale = 1
PROPERTIES
    ImplementsAttachment
    WaitsEnd
    StreamsEnd
CHECK_DEADLOCK FALSE

SPECIFICATION FairSpec
CONSTANTS
    Client = {c1}
    Main = Main
    Sighup = Sighup
    Watcher = Watcher
    NoClient = NoClient
    PipeSize = 1
    MaxRuns = 2
    MaxCommands = 2
    MaxInputs = 2
    MaxChunks = 1
    MaxSignals = 2
    MaxStimuli = 4
INVARIANTS
    TypeOK
PROPERTIES
    AnswersMatchUnlessFailed
    PromptReturns
    SignalsAreHeard
CHECK_DEADLOCK FALSE

SPECIFICATION Spec
CONSTANTS
    Client = {c1}
    Main = Main
    Sighup = Sighup
    Watcher = Watcher
    NoClient = NoClient
    PipeSize = 1
    MaxRuns = 1
    MaxCommands = 2
    MaxInputs = 1
    MaxChunks = 1
    MaxSignals = 0
    MaxStimuli = 3
PROPERTIES
    AnswersMatch
CHECK_DEADLOCK FALSE

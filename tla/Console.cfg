SPECIFICATION Spec
CONSTANTS
    QueueSize = 1
    PipeSize = 1
    BufSize = 2
    InstStep = 1
    MaxType = 2
    MaxWrite = 2
    MaxBreak = 1
    MaxSignal = 1
    DebugStart = FALSE
CHECK_DEADLOCK FALSE
INVARIANTS ConsoleInv TerminalRestored
PROPERTIES StreamsServed ShutdownEnds

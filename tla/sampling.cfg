\* Two GPUs, three snapshots, a window of two, a restart of the daemon.
SPECIFICATION SSpec
CONSTANTS
    Gpus <- MCGpus
    Window = 2
    MaxReadings = 3
    Pids <- MCPids
    Cards <- MCCards
    Unread = Unread
    NoSnap = NoSnap
    MaxTaken = 3
    MaxRuns = 2
CHECK_DEADLOCK FALSE
INVARIANTS
    StoresMatchNvml
    UnreadIsTold
    LabelMatchesHistory
    AnswerIsTrue
PROPERTIES
    ImplementsLocalFirst
    ImplementsWindow

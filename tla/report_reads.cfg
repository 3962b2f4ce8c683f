\* One card, one process, three ticks of five minutes, two of them during a report.
SPECIFICATION Spec
CONSTANTS
    Gpus = {gpu0}
    Pids = {pid0}
    Utils = {0, 20}
    Mems = {100, 101}
    MaxTime = 5
    Cutoff = 1
    ActiveUtil = 10
    MemFloor = 100
    Gap = 3
    Slack = 2
    NoTick = NoTick
    MaxTicks = 3
    MaxMeanwhile = 2
INVARIANTS
    SessionsAreRuns
    StatusIsOneTick
    CurrentOncePerProcess
    PastIsOver
    HeldUnlessUnread

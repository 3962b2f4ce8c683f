\* Processes of two intervals, ticks and stalls of any length, a restart and a sync-once.
SPECIFICATION HSpec
CONSTANTS
    Intervals = {1, 3}
    MaxNow = 4
    Gpus <- MCGpus
    Snapshots <- MCSnapshots
    ActiveUtil = 10
    MemFloor = 100
    Fallback = 5
    NoRun = NoRun
    NoOverride = NoOverride
    MaxRuns = 2
    MaxWritten = 3
    MaxOnce = 1
INVARIANTS
    RateBounded StopIsPrompt TotalsMatchTheLog HoursWithinTime
PROPERTIES
    NoBurst
CHECK_DEADLOCK FALSE

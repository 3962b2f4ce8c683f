\* Two processes with every failure, and one after failures have stopped.
SPECIFICATION FairSpec
CONSTANTS
    DefaultDb = TRUE
    MaxBackoff = 4
    MaxStarts = 2
INVARIANTS
    TierClosedUnused CleanExitIsAsked
PROPERTIES
    NoSampleAfterClose
    StopEnds KeepsSampling StreamResumes
CHECK_DEADLOCK FALSE

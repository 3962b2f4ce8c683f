\* One process, cut off in the rebuild and started again.
SPECIFICATION Spec
CONSTANTS
    Procs = {proc0}
    OldRows = {old}
    NewRows = {new0}
    MaxOpens = 2
INVARIANTS
    LegacyRowsKept
CHECK_DEADLOCK FALSE

\* Two connections, up to four calls of open_db, crashes anywhere.
SPECIFICATION Spec
CONSTANTS
    Procs = {proc0, proc1}
    OldRows = {old}
    NewRows = {new0, new1}
    MaxOpens = 4
SYMMETRY Symmetry
INVARIANTS
    NothingDestroyed UpgradeKeepsRows OpenedWrites
CHECK_DEADLOCK FALSE

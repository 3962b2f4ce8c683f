\* Two shells, three process numbers, four daemons one after another or at once.
SPECIFICATION Spec
CONSTANTS
    Shells = {shell0, shell1}
    Pids = {pid0, pid1, pid2}
    NoPid = NoPid
    MaxSpawns = 4
    Restless = TRUE
SYMMETRY Symmetry
INVARIANTS
    DaemonIsNamed NoStraySignal
PROPERTIES
    NotRunningIsTrue
